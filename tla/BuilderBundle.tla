---------------------------- MODULE BuilderBundle ----------------------------
(***************************************************************************)
(* The commands that build images on the host (crates/petri/src/cli.rs):   *)
(* `image build --prepare-builder` makes the reusable builder bundle,      *)
(* `image build` boots that bundle (or runs the build script) to make an   *)
(* image directory, and the nocloud builder patches a copy of a nocloud    *)
(* disk and boots it once.  Each of them changes a raw disk on the host    *)
(* (attach, mount, rewrite grub.cfg, unmount, detach) and boots a VM on    *)
(* it, and any step may fail.                                              *)
(*                                                                         *)
(* One operator runs one command at a time.  Contents are reduced to what  *)
(* the commands distinguish: a file is absent, partial or whole, and a     *)
(* bundle is the record of the steps that made it.                         *)
(***************************************************************************)
EXTENDS FiniteSets

VARIABLES
  job,     \* the running command: pc, and what it remembers between steps
  stage,   \* the directory and the disk the running command works on
  bundle,  \* the builder bundle at --builder-image, at most one
  backup,  \* a replaced bundle that is still on disk, at most one
  cache,   \* --builder-cache-dir
  out,     \* the image directory of `image build`
  left     \* the VM that outlived the last command, if one did

buildVars == <<job, stage, bundle, backup, cache, out, left>>

File == {"absent", "partial", "whole"}

NoJob == [pc |-> "idle", cmd |-> "none", given |-> FALSE, esp |-> "none", ok |-> TRUE,
          unmounted |-> TRUE, detached |-> TRUE, result |-> "none", ignored |-> FALSE]

\* A staging directory that was just created.
NewStage == [disk |-> "absent", grub |-> "original", saved |-> "absent", attached |-> FALSE,
             mounted |-> FALSE, vm |-> FALSE, packages |-> FALSE, valid |-> FALSE,
             seed |-> FALSE, manifest |-> "none", info |-> FALSE,
             sums |-> "none", output |-> "absent"]

BundleInit ==
  /\ job = NoJob
  /\ stage = NewStage
  /\ bundle = {} /\ backup = {}
  /\ cache = [image |-> "absent", sums |-> "absent"]
  /\ out = "absent" /\ left = {}

-----------------------------------------------------------------------------
\* Control.

Doing(pc) == job.pc = pc

\* The command ends here; a VM that still runs is left to itself.  Recorded
\* are the step that ended the command and whether it ignored an error before.
Leave(why) ==
  /\ job' = NoJob
  /\ stage' = NewStage
  /\ left' = IF stage.vm THEN {[cmd |-> job.cmd, why |-> why, ignored |-> job.ignored]} ELSE {}

\* An error that the command returns at once, leaving everything as it is.
Fails == Leave(job.pc) /\ UNCHANGED <<bundle, backup, cache, out>>

Onward(pc) == job' = [job EXCEPT !.pc = pc]

StartJob(cmd, given, pc) ==
  /\ Doing("idle")
  /\ job' = [NoJob EXCEPT !.pc = pc, !.cmd = cmd, !.given = given]
  /\ left' = {}
  /\ UNCHANGED <<stage, bundle, backup, cache, out>>

\* run_image_build: the platform chooses the builder of an automatic build.
ImageBuild ==
  \/ \E given \in BOOLEAN : StartJob("prepare", given, "guest")
  \/ StartJob("vm", FALSE, "guest")
  \/ StartJob("linux", FALSE, "script")

\* run_nocloud_provision_and_seal, once the scratch is served (ImageRegistry).
NocloudBuild == StartJob("nocloud", FALSE, "copy")

\* Cross-compiles petri-guest; no file of the model changes.
BuildHostGuestBinary ==
  /\ Doing("guest")
  /\ \/ Fails
     \/ /\ Onward(IF job.cmd = "prepare" THEN "fetch" ELSE "boot")
        /\ UNCHANGED <<stage, bundle, backup, cache, out, left>>

-----------------------------------------------------------------------------
\* acquire_builder_source.

\* A cached file is used as it is; curl may leave a part of one behind.
Download(file, next) ==
  \/ /\ cache[file] # "absent"
     /\ Onward(next)
     /\ UNCHANGED <<stage, cache, left>>
  \/ /\ cache[file] = "absent"
     /\ cache' = [cache EXCEPT ![file] = "whole"]
     /\ Onward(next)
     /\ UNCHANGED <<stage, left>>
  \/ /\ cache[file] = "absent"
     /\ \E f \in {"absent", "partial"} : cache' = [cache EXCEPT ![file] = f]
     /\ Leave("fetch")

AcquireSource ==
  /\ Doing("fetch")
  /\ Download("image", IF job.given THEN "verify" ELSE "list")
  /\ UNCHANGED <<bundle, backup, out>>

\* A source on this host is not copied to the cache.
AcquireLocalSource ==
  /\ Doing("fetch") /\ job.given
  /\ \E f \in {"partial", "whole"} : stage' = [stage EXCEPT !.disk = f]
  /\ Onward("verify")
  /\ UNCHANGED <<bundle, backup, cache, out, left>>

ChecksumFromUrl ==
  /\ Doing("list")
  /\ Download("sums", "verify")
  /\ UNCHANGED <<bundle, backup, out>>

Source == IF stage.disk = "absent" THEN cache.image ELSE stage.disk

\* Mutant: the checksum is computed but not compared.
VerifyChecksumAny ==
  /\ Doing("verify")
  /\ Onward("stage")
  /\ UNCHANGED <<stage, bundle, backup, cache, out, left>>

\* Only a whole file has the checksum, and only a whole list names it.
VerifyChecksum ==
  /\ Doing("verify")
  /\ IF Source = "whole" /\ (job.given \/ cache.sums = "whole")
     THEN Onward("stage") /\ UNCHANGED <<stage, bundle, backup, cache, out, left>>
     ELSE Fails

\* A fresh staging directory with a copy of the source, expanded.
StageSource ==
  /\ Doing("stage")
  /\ \/ Fails
     \/ /\ stage' = [NewStage EXCEPT !.disk = Source]
        /\ job' = [job EXCEPT !.pc = "kernel", !.esp = "configure"]
        /\ UNCHANGED <<bundle, backup, cache, out, left>>

-----------------------------------------------------------------------------
\* The EFI partition: configure_builder_efi_console, restore_builder_efi_grub
\* and patch_nocloud_esp.

\* The version for the kernel command line, from the strings in the image.
DetectKernel ==
  /\ Doing("kernel")
  /\ \/ Fails
     \/ Onward("attach") /\ UNCHANGED <<stage, bundle, backup, cache, out, left>>

CopyNocloud ==
  /\ Doing("copy")
  /\ \/ Fails
     \/ /\ stage' = [stage EXCEPT !.disk = "whole"]
        /\ job' = [job EXCEPT !.pc = "attach", !.esp = "nocloud"]
        /\ UNCHANGED <<bundle, backup, cache, out, left>>

Attach ==
  /\ Doing("attach")
  /\ \/ Fails
     \/ /\ stage' = [stage EXCEPT !.attached = TRUE]
        /\ job' = [job EXCEPT !.pc = "parse", !.ok = TRUE]
        /\ UNCHANGED <<bundle, backup, cache, out, left>>

\* Output that does not parse leaves the image attached.
ParseAttach ==
  /\ Doing("parse") /\ job.esp # "nocloud"
  /\ \/ Fails
     \/ Onward("mount") /\ UNCHANGED <<stage, bundle, backup, cache, out, left>>

ParseNocloudAttach ==
  /\ Doing("parse") /\ job.esp = "nocloud"
  /\ \/ Fails
     \/ Onward("mount") /\ UNCHANGED <<stage, bundle, backup, cache, out, left>>

AfterPatch == IF job.esp = "nocloud" THEN "detach" ELSE "unmount"

Mount ==
  /\ Doing("mount")
  /\ \/ /\ job' = [job EXCEPT !.pc = AfterPatch, !.ok = FALSE]
        /\ UNCHANGED stage
     \/ /\ stage' = [stage EXCEPT !.mounted = TRUE]
        /\ Onward("patch")
  /\ UNCHANGED <<bundle, backup, cache, out, left>>

\* grub.cfg and the copy of the original have been written, or one of the
\* writes failed and left a part of the file.
Patch(grub, saved, ok) ==
  /\ stage' = [stage EXCEPT !.grub = grub, !.saved = saved]
  /\ job' = [job EXCEPT !.pc = "unmount", !.ok = ok]
  /\ UNCHANGED <<bundle, backup, cache, out, left>>

\* The original is copied before grub.cfg is written, unless a copy is there.
ConfigureGrub ==
  /\ Doing("patch") /\ job.esp = "configure"
  /\ LET copy == IF stage.saved = "absent" THEN stage.grub ELSE stage.saved IN
       \/ Patch(stage.grub, stage.saved, FALSE)
       \/ stage.saved = "absent" /\ Patch(stage.grub, "partial", FALSE)
       \/ Patch("partial", copy, FALSE)
       \/ Patch("bootstrap", copy, TRUE)

RestoreGrub ==
  /\ Doing("patch") /\ job.esp = "restore"
  /\ \/ Patch(stage.grub, stage.saved, FALSE)
     \/ Patch("partial", stage.saved, FALSE)
     \/ Patch(stage.saved, stage.saved, TRUE)

\* patch_grub_cfg; no copy is kept of a disk that is used once.
PatchNocloudGrub ==
  /\ Doing("patch") /\ job.esp = "nocloud"
  /\ \/ Patch(stage.grub, stage.saved, FALSE)
     \/ Patch("partial", stage.saved, FALSE)
     \/ Patch("bootstrap", stage.saved, TRUE)

\* patch_nocloud_esp_mounted gives up before its unmount.
MountPointUnknown ==
  /\ Doing("patch") /\ job.esp = "nocloud"
  /\ job' = [job EXCEPT !.pc = "detach", !.ok = FALSE]
  /\ UNCHANGED <<stage, bundle, backup, cache, out, left>>

Unmount ==
  /\ Doing("unmount")
  /\ \E done \in BOOLEAN :
        /\ done => stage.mounted
        /\ stage' = [stage EXCEPT !.mounted = stage.mounted /\ ~done]
        /\ job' = [job EXCEPT !.pc = "detach", !.unmounted = done]
  /\ UNCHANGED <<bundle, backup, cache, out, left>>

\* hdiutil detach also unmounts what it can.
Detach ==
  /\ Doing("detach")
  /\ \E done \in BOOLEAN :
        /\ stage' = [stage EXCEPT !.attached = ~done, !.mounted = stage.mounted /\ ~done]
        /\ job' = [job EXCEPT !.pc = "patched", !.detached = done]
  /\ UNCHANGED <<bundle, backup, cache, out, left>>

AfterEsp == CASE job.esp = "configure" -> "seed"
              [] job.esp = "restore" -> "manifest"
              [] job.esp = "nocloud" -> "boot"

\* Mutant: the builder, too, ignores a failing unmount or detach.
EspDoneIgnores ==
  /\ Doing("patched")
  /\ IF job.ok THEN Onward(AfterEsp) /\ UNCHANGED <<stage, bundle, backup, cache, out, left>>
     ELSE Fails

\* The builder returns the first error of the three; the nocloud disk is
\* booted even when it could not be unmounted or detached.
EspDone ==
  /\ Doing("patched")
  /\ IF job.ok /\ (job.esp = "nocloud" \/ (job.unmounted /\ job.detached))
     THEN /\ job' = [job EXCEPT !.pc = AfterEsp, !.ignored = job.ignored \/ stage.attached]
          /\ UNCHANGED <<stage, bundle, backup, cache, out, left>>
     ELSE Fails

-----------------------------------------------------------------------------
\* The VM.

WriteSeed ==
  /\ Doing("seed")
  /\ \/ Fails
     \/ /\ stage' = [stage EXCEPT !.seed = TRUE, !.manifest = "seeded"]
        /\ Onward("boot")
        /\ UNCHANGED <<bundle, backup, cache, out, left>>

\* `image build` boots the root.img of the bundle itself, which the guest
\* writes: from here on its SHA256SUMS are those of an older disk.
Booted(b) == [b EXCEPT !.sums = "stale"]

\* A create that fails may leave its VM (see HostCreate).
BootStaged ==
  /\ Doing("boot") /\ job.cmd = "prepare"
  /\ \/ Fails
     \/ /\ stage' = [stage EXCEPT !.vm = TRUE]
        /\ \E pc \in {"packages", "created"} : Onward(pc)
        /\ UNCHANGED <<bundle, backup, cache, out, left>>

BootBundle ==
  /\ Doing("boot") /\ job.cmd = "vm"
  /\ \/ Fails
     \/ /\ bundle # {}
        /\ bundle' = {Booted(b) : b \in bundle}
        /\ stage' = [stage EXCEPT !.vm = TRUE]
        /\ \E pc \in {"dispatch", "created"} : Onward(pc)
        /\ UNCHANGED <<backup, cache, out, left>>

\* petri-vz is started without the backend.
BootNocloud ==
  /\ Doing("boot") /\ job.cmd = "nocloud"
  /\ \/ Fails
     \/ /\ stage' = [stage EXCEPT !.vm = TRUE]
        /\ Onward("wait")
        /\ UNCHANGED <<bundle, backup, cache, out, left>>

\* backend.create returned an error after the VM had started.
CreateFails == Doing("created") /\ Fails

\* The package installation: an error of the dispatch itself returns without
\* a teardown, a failing script does not.
InstallPackages ==
  /\ Doing("packages")
  /\ \/ Fails
     \/ /\ job' = [job EXCEPT !.pc = "teardown", !.result = "failed"]
        /\ UNCHANGED <<stage, bundle, backup, cache, out, left>>
     \/ /\ stage' = [stage EXCEPT !.packages = TRUE]
        /\ Onward("validate")
        /\ UNCHANGED <<bundle, backup, cache, out, left>>

\* A failing validation returns without a teardown, too.
Validate ==
  /\ Doing("validate")
  /\ \/ Fails
     \/ /\ stage' = [stage EXCEPT !.valid = TRUE]
        /\ Onward("finalize")
        /\ UNCHANGED <<bundle, backup, cache, out, left>>

\* The script ignores a failing `cloud-init clean`, so that its success says
\* nothing of it.
Finalize ==
  /\ Doing("finalize")
  /\ \E result \in {"ok", "failed"} :
        job' = [job EXCEPT !.pc = "teardown", !.result = result]
  /\ UNCHANGED <<stage, bundle, backup, cache, out, left>>

\* Mutant: an error of the dispatch returns at once.
DispatchBuildReturns ==
  /\ Doing("dispatch")
  /\ \/ Fails
     \/ /\ \E r \in {"ok", "failed"}, f \in File :
              /\ r = "ok" => f = "whole"
              /\ stage' = [stage EXCEPT !.output = f]
              /\ job' = [job EXCEPT !.pc = "teardown", !.result = r]
        /\ UNCHANGED <<bundle, backup, cache, out, left>>

\* The build script in the VM writes the staged output directory.
DispatchBuild ==
  /\ Doing("dispatch")
  /\ \E r \in {"ok", "failed"}, f \in File :
        /\ r = "ok" => f = "whole"
        /\ stage' = [stage EXCEPT !.output = f]
        /\ job' = [job EXCEPT !.pc = "teardown", !.result = r]
  /\ UNCHANGED <<bundle, backup, cache, out, left>>

\* The result of the teardown is ignored.
Teardown ==
  /\ Doing("teardown")
  /\ \E gone \in BOOLEAN :
        /\ stage' = [stage EXCEPT !.vm = ~gone]
        /\ job' = [job EXCEPT !.pc = "torndown", !.ignored = ~gone]
  /\ UNCHANGED <<bundle, backup, cache, out, left>>

TornDown ==
  /\ Doing("torndown")
  /\ IF job.result = "ok"
     THEN /\ Onward(IF job.cmd = "prepare" THEN "unseed" ELSE "clear")
          /\ UNCHANGED <<stage, bundle, backup, cache, out, left>>
     ELSE Fails

\* The nocloud builder runs until the guest powers off, for an hour at most.
NocloudWait ==
  /\ Doing("wait")
  /\ \/ Fails
     \/ /\ stage' = [stage EXCEPT !.vm = FALSE]
        /\ Onward("unpatch")
        /\ UNCHANGED <<bundle, backup, cache, out, left>>

\* boot.raw is removed, the outcome of the removal ignored.
NocloudEnds == Doing("unpatch") /\ Fails

-----------------------------------------------------------------------------
\* The rest of run_prepare_builder.

RemoveSeed ==
  /\ Doing("unseed")
  /\ \/ Fails
     \/ /\ stage' = [stage EXCEPT !.seed = FALSE]
        /\ job' = [job EXCEPT !.pc = "attach", !.esp = "restore"]
        /\ UNCHANGED <<bundle, backup, cache, out, left>>

WriteManifest ==
  /\ Doing("manifest")
  /\ \/ Fails
     \/ /\ stage' = [stage EXCEPT !.manifest = "plain"]
        /\ Onward("info")
        /\ UNCHANGED <<bundle, backup, cache, out, left>>

WriteBuildInfo ==
  /\ Doing("info")
  /\ \/ Fails
     \/ /\ stage' = [stage EXCEPT !.info = TRUE]
        /\ Onward("sums")
        /\ UNCHANGED <<bundle, backup, cache, out, left>>

WriteSha256Sums ==
  /\ Doing("sums")
  /\ \/ Fails
     \/ /\ stage' = [stage EXCEPT !.sums = "match"]
        /\ Onward("aside")
        /\ UNCHANGED <<bundle, backup, cache, out, left>>

\* atomic_replace_dir: the old bundle is renamed first.  The name of the
\* backup is new, and an older backup that was left is not looked at.
MoveAside ==
  /\ Doing("aside")
  /\ \/ Fails
     \/ /\ bundle' = {}
        /\ backup' = IF bundle = {} THEN backup ELSE bundle
        /\ job' = [job EXCEPT !.pc = "into", !.result = IF bundle = {} THEN "new" ELSE "replace"]
        /\ UNCHANGED <<stage, cache, out, left>>

MoveInto ==
  /\ Doing("into")
  /\ bundle' = {stage}
  /\ Onward("old")
  /\ UNCHANGED <<stage, backup, cache, out, left>>

\* The rename failed: the backup goes back, and that may fail unnoticed.
MoveBack ==
  /\ Doing("into")
  /\ \/ Fails
     \/ /\ job.result = "replace"
        /\ bundle' = backup /\ backup' = {}
        /\ Leave("into")
        /\ UNCHANGED <<cache, out>>

\* A backup that cannot be removed, or only in part, is an error although the
\* bundle is new.
RemoveOld ==
  /\ Doing("old")
  /\ \/ backup' = IF job.result = "replace" THEN {} ELSE backup
     \/ /\ job.result = "replace"
        /\ \E part \in {"whole", "partial"} : backup' = {[b EXCEPT !.disk = part] : b \in backup}
  /\ Leave("old")
  /\ UNCHANGED <<bundle, cache, out>>

-----------------------------------------------------------------------------
\* The output of `image build`.

\* replace_dir: the old directory is removed, then the new one is copied.
RemoveOutput ==
  /\ Doing("clear")
  /\ \/ /\ \E f \in {out, "partial"} : f # "absent" /\ out' = f
        /\ out # "absent"
        /\ Leave("clear")
        /\ UNCHANGED <<bundle, backup, cache>>
     \/ /\ out' = "absent"
        /\ Onward("copyout")
        /\ UNCHANGED <<stage, bundle, backup, cache, left>>

CopyOutput ==
  /\ Doing("copyout")
  /\ \/ /\ out' = stage.output
        /\ Onward("built")
        /\ UNCHANGED <<stage, bundle, backup, cache, left>>
     \/ /\ \E f \in {"absent", "partial"} : out' = f
        /\ Leave("copyout")
        /\ UNCHANGED <<bundle, backup, cache>>

\* Mutant: the exit status of the script is not looked at.
LinuxBuildUnchecked ==
  /\ Doing("script")
  /\ \E f \in {out, "absent", "partial", "whole"} : out' = f
  /\ Onward("built")
  /\ UNCHANGED <<stage, bundle, backup, cache, left>>

\* run_linux_image_build: the script writes the output directory in place.
LinuxBuild ==
  /\ Doing("script")
  /\ \/ /\ out' = "whole"
        /\ Onward("built")
        /\ UNCHANGED <<stage, bundle, backup, cache, left>>
     \/ /\ \E f \in {out, "absent", "partial"} : out' = f
        /\ Leave("script")
        /\ UNCHANGED <<bundle, backup, cache>>

\* "image build completed".
BuildCompletes ==
  /\ Doing("built")
  /\ Leave("built")
  /\ UNCHANGED <<bundle, backup, cache, out>>

-----------------------------------------------------------------------------

\* The command's process is killed.
Killed == ~Doing("idle") /\ Leave("killed") /\ UNCHANGED <<bundle, backup, cache, out>>

BuilderStep ==
  \/ BuildHostGuestBinary \/ AcquireSource \/ AcquireLocalSource \/ ChecksumFromUrl
  \/ VerifyChecksum \/ StageSource
  \/ DetectKernel \/ CopyNocloud \/ Attach \/ ParseAttach \/ ParseNocloudAttach \/ Mount
  \/ ConfigureGrub \/ RestoreGrub \/ PatchNocloudGrub \/ MountPointUnknown
  \/ Unmount \/ Detach \/ EspDone
  \/ WriteSeed \/ BootStaged \/ BootBundle \/ BootNocloud \/ CreateFails \/ InstallPackages \/ Validate \/ Finalize
  \/ DispatchBuild \/ Teardown \/ TornDown \/ NocloudWait \/ NocloudEnds
  \/ RemoveSeed \/ WriteManifest \/ WriteBuildInfo \/ WriteSha256Sums
  \/ MoveAside \/ MoveInto \/ MoveBack \/ RemoveOld
  \/ RemoveOutput \/ CopyOutput \/ LinuxBuild \/ BuildCompletes
  \/ Killed

BuilderNext == ImageBuild \/ NocloudBuild \/ BuilderStep

BuilderSpec == BundleInit /\ [][BuilderNext]_buildVars

-----------------------------------------------------------------------------

\* The published bundle went through every step of run_prepare_builder: a
\* verified source, installed and validated packages, no seed disk left in the
\* directory or the manifest, the original grub.cfg restored, metadata written,
\* and the disk released by the host, whatever failed in this or in earlier
\* commands.
PublishedFinished ==
  \A b \in bundle :
     /\ b.disk = "whole" /\ b.grub = "original" /\ ~b.attached /\ ~b.mounted
     /\ b.packages /\ b.valid
     /\ ~b.seed /\ b.manifest = "plain" /\ b.info /\ b.sums # "none"

\* A disk is not written by a VM and by the host at once: when a VM runs on
\* the staged disk, the host has detached it.  The two errors the commands
\* ignore are the exceptions: a teardown that failed before the grub.cfg is
\* restored, and a detach that failed before the nocloud disk is booted.
BootsDetached == stage.vm /\ stage.attached => job.ignored

\* "then atomically replaces the output bundle.  On failure, the previous output
\* bundle is left untouched" (docs/base-vm-images.md): no command ends with the
\* old bundle moved aside by atomic_replace_dir and none under its name.
BundleInPlace == Doing("idle") /\ backup # {} => bundle # {}

\* A VM outlives its command only if the command was killed, if create or a
\* teardown failed, if the nocloud helper could not be waited for, or if
\* run_prepare_builder returned from the package installation or the
\* validation without a teardown.
BuildVmGone ==
  \A v \in left :
     \/ v.why \in {"killed", "created"} \/ v.ignored
     \/ v.cmd = "prepare" /\ v.why \in {"packages", "validate"}
     \/ v.cmd = "nocloud" /\ v.why = "wait"

\* An image build that reports completion has left a whole image directory,
\* whatever a failing build left in its staged output and whatever earlier
\* builds left in the directory.  A build script that exits with 0 is taken to
\* have written all of its output.
OutputWhole == Doing("built") => out = "whole"
=============================================================================
