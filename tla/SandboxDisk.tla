----------------------------- MODULE SandboxDisk -----------------------------
(***************************************************************************)
(* Sandboxes over a frozen base (crates/petri/src/cli.rs): sandbox create  *)
(* starts a detached daemon, `petri internal serve-nbd`, that serves the   *)
(* sandbox's scratch, waits for its port file and boots the VM; sandbox    *)
(* kill tears the VM down and ends the daemon through nbd.pid, while       *)
(* `petri stop` and `petri teardown` only end the VM.  The daemons are     *)
(* processes of their own and run beside every command.                    *)
(***************************************************************************)
EXTENDS ImageRegistry

-----------------------------------------------------------------------------
\* spawn_nbd_daemon.

\* An old port file is removed before the daemon is started.  The daemon's pid
\* may be one that the nbd.pid of another sandbox still names.
SpawnDaemon ==
    /\ At("spawn")
    /\ \E p \in Pids :
          /\ server[p].pc = "none"
          /\ server' = [server EXCEPT ![p] = [NoServer EXCEPT !.pc = "start", !.img = cli.img]]
          /\ cli' = [cli EXCEPT !.pc = "wait", !.pid = p]
          /\ calm' = (calm /\ \A i \in Images \ {cli.img} : image[i].pid # p)
    /\ image' = [image EXCEPT ![cli.img].port = Nobody]
    /\ UNCHANGED <<vm, deleted, aborts>>

\* The daemon has exited: the error quotes its log.
WaitExited ==
    /\ At("wait") /\ server[cli.pid].pc = "none"
    /\ Done
    /\ UNCHANGED <<image, vm, deleted, calm, aborts>>

\* An operation whose error the command ignores fails.  Bound: as an abort.
Ignored ==
    /\ aborts < MaxAborts /\ aborts' = aborts + 1
    /\ calm' = FALSE

\* The port file is there, whoever wrote it; nbd.pid names the child, unless it
\* cannot be written.
WaitReady ==
    /\ At("wait") /\ server[cli.pid].pc # "none"
    /\ image[cli.img].port # Nobody
    /\ \/ image' = [image EXCEPT ![cli.img].pid = cli.pid] /\ UNCHANGED <<calm, aborts>>
       \/ image' = [image EXCEPT ![cli.img].pid = Nobody] /\ Ignored
    /\ Proceed("boxmark")
    /\ UNCHANGED <<server, vm, deleted>>

\* Mutant: no deadline, the loop only looks for an exited child.
WaitTimesOutNever ==
    /\ At("wait") /\ server[cli.pid].pc = "none"
    /\ EndCommand
    /\ UNCHANGED <<image, server, vm, deleted, calm, aborts>>

\* Twenty seconds without a port file: the child is killed and waited for.
WaitTimesOut ==
    /\ At("wait") /\ image[cli.img].port = Nobody
    /\ server' = [server EXCEPT ![cli.pid] = NoServer]
    /\ EndCommand
    /\ UNCHANGED <<image, vm, deleted, calm, aborts>>

-----------------------------------------------------------------------------
\* The rest of run_sandbox_create_from_base.

\* mark_serving, whose error is ignored.
MarkSandbox ==
    /\ At("boxmark")
    /\ LET marked == {Marked(s, User) : s \in Scratches(cli.img)}
       IN  \/ /\ image' = [image EXCEPT ![cli.img].meta =
                     IF Loads(cli.img) THEN SavedScratch(cli.img, marked) ELSE {}]
              /\ UNCHANGED <<calm, aborts>>
           \/ /\ \E m \in {image[cli.img].meta, {}} : image' = [image EXCEPT ![cli.img].meta = m]
              /\ Ignored
    /\ Proceed("boot")
    /\ UNCHANGED <<server, vm, deleted>>

\* backend.create, handed the URL found in the port file.
BootVm ==
    /\ At("boot")
    /\ vm' = [vm EXCEPT ![cli.img] = [state |-> "running", disk |-> image[cli.img].port]]
    /\ Done
    /\ UNCHANGED <<image, deleted, calm, aborts>>

\* kill_pid: SIGTERM, which ends the daemon in its own time.
Signalled(p) ==
    [server EXCEPT ![p] = IF @.pc = "none" THEN @ ELSE [@ EXCEPT !.pc = "term"]]

ClearedSandbox(i) ==
    IF Loads(i) THEN SavedScratch(i, {Cleared(s, 0) : s \in Scratches(i)}) ELSE {}

\* Mutant: a failed boot leaves the daemon to itself.
BootFailsQuietly ==
    /\ At("boot")
    /\ image' = [image EXCEPT ![cli.img].meta = ClearedSandbox(cli.img)]
    /\ EndCommand
    /\ UNCHANGED <<server, vm, deleted, calm, aborts>>

\* backend.create failed, before or after its VM ran (HostCreate): the daemon
\* is ended, the VM may live on, nbd.pid stays behind.
BootFails ==
    /\ At("boot")
    /\ server' = Signalled(cli.pid)
    /\ image' = [image EXCEPT ![cli.img].meta = ClearedSandbox(cli.img)]
    /\ \E left \in {vm[cli.img], [state |-> "stray", disk |-> image[cli.img].port]} :
          vm' = [vm EXCEPT ![cli.img] = left]
    /\ EndCommand
    /\ UNCHANGED <<deleted, calm, aborts>>

-----------------------------------------------------------------------------
\* petri stop and petri teardown: the VM, and nothing of its disk.  A VM that a
\* failed create left is only reached by teardown.

StopInstance(i) ==
    /\ vm[i].state \in {"running", "stray"}
    /\ Begin("stopvm", i, NoLayer, NoTag, "endvm")
    /\ UNCHANGED <<image, server, vm, deleted, calm, aborts>>

EndVm ==
    /\ At("endvm")
    /\ vm' = [vm EXCEPT ![cli.img] = IF @.state = "running" THEN [@ EXCEPT !.state = "stopped"]
                                                            ELSE NoVm]
    /\ EndCommand
    /\ UNCHANGED <<image, server, deleted, calm, aborts>>

\* run_sandbox_kill of any id: the VM, if there is one, then teardown_sandbox_nbd,
\* if there is an image.
SandboxKill(i, purge) ==
    /\ vm[i].state # "none" \/ image[i].dir
    /\ Begin(IF purge THEN "purge" ELSE "kill", i, NoLayer, NoTag, "teardown")
    /\ UNCHANGED <<image, server, vm, deleted, calm, aborts>>

TeardownVm ==
    /\ At("teardown")
    /\ vm' = [vm EXCEPT ![cli.img] = NoVm]
    /\ IF image[cli.img].dir THEN Proceed("killnbd") ELSE EndCommand
    /\ UNCHANGED <<image, server, deleted, calm, aborts>>

\* Whatever process nbd.pid names is signalled.
KillDaemon ==
    /\ At("killnbd")
    /\ LET i == cli.img
       IN  /\ server' = IF image[i].pid = Nobody THEN server ELSE Signalled(image[i].pid)
           /\ image' = [image EXCEPT ![i].pid = Nobody, ![i].port = Nobody,
                                     ![i].meta = ClearedSandbox(i)]
    /\ IF cli.cmd = "purge" THEN Proceed("purge") ELSE EndCommand
    /\ UNCHANGED <<vm, deleted, calm, aborts>>

PurgeImage ==
    /\ At("purge")
    /\ RemoveDir(cli.img)
    /\ Done
    /\ UNCHANGED <<vm, calm, aborts>>

-----------------------------------------------------------------------------
\* run_internal_serve_nbd, one daemon.

Exits(p) == server' = [server EXCEPT ![p] = NoServer]

LockHeld(n) == \E q \in Pids : server[q].lock = n

\* Mutant: the result of flock is not looked at.
DaemonLocksAnyway(p) ==
    /\ server[p].pc = "start"
    /\ LET i == server[p].img
           n == IF image[i].lock = Nobody THEN FreshInode ELSE image[i].lock
       IN  IF ~image[i].dir
           THEN Exits(p) /\ UNCHANGED image
           ELSE /\ image' = [image EXCEPT ![i].lock = n]
                /\ server' = [server EXCEPT ![p].pc = "locked", ![p].lock = n]
    /\ UNCHANGED <<vm, cli, deleted, calm, aborts>>

\* Opens nbd.lock, creating it, and flocks it without waiting.
DaemonLocks(p) ==
    /\ server[p].pc = "start"
    /\ LET i == server[p].img
           n == IF image[i].lock = Nobody THEN FreshInode ELSE image[i].lock
       IN  IF ~image[i].dir
           THEN Exits(p) /\ UNCHANGED image
           ELSE /\ image' = [image EXCEPT ![i].lock = n]
                /\ IF LockHeld(n) THEN Exits(p)
                   ELSE server' = [server EXCEPT ![p].pc = "locked", ![p].lock = n]
    /\ UNCHANGED <<vm, cli, deleted, calm, aborts>>

\* serve_scratch truncates the scratch or creates it.
DaemonServes(p) ==
    /\ server[p].pc = "locked"
    /\ LET i == server[p].img
       IN  IF CanServe(i)
           THEN /\ image' = [image EXCEPT ![i].scratch = ScratchFile(i)]
                /\ server' = [server EXCEPT ![p].pc = "ready", ![p].ino = ScratchFile(i)]
           ELSE Exits(p) /\ UNCHANGED image
    /\ UNCHANGED <<vm, cli, deleted, calm, aborts>>

\* Writes nbd.tmp and renames it to nbd.port, then parks.
DaemonPublishes(p) ==
    /\ server[p].pc = "ready"
    /\ LET i == server[p].img
       IN  IF image[i].dir
           THEN /\ image' = [image EXCEPT ![i].port = p]
                /\ server' = [server EXCEPT ![p].pc = "serving"]
           ELSE Exits(p) /\ UNCHANGED image
    /\ UNCHANGED <<vm, cli, deleted, calm, aborts>>

\* The signal ends the process; its lock goes with it.
DaemonEnds(p) ==
    /\ server[p].pc = "term"
    /\ Exits(p)
    /\ UNCHANGED <<image, vm, cli, deleted, calm, aborts>>

DaemonStep(p) ==
    DaemonLocks(p) \/ DaemonServes(p) \/ DaemonPublishes(p) \/ DaemonEnds(p)

-----------------------------------------------------------------------------
\* The steps at which save_meta is writing.
Saving == {"meta", "mark", "clear", "record", "stop", "drop", "untag",
           "boxmark", "boot", "killnbd"}

(***************************************************************************)
(* The command's process dies, or an operation fails and its error leaves  *)
(* the command through `?`.  fs::write truncates before it writes, so      *)
(* meta.json may be left unreadable.                                       *)
(***************************************************************************)
Abort ==
    /\ cli.pc # "idle" /\ aborts < MaxAborts
    /\ \/ UNCHANGED image
       \/ cli.pc \in Saving /\ image' = [image EXCEPT ![cli.img].meta = {}]
    /\ Done
    /\ aborts' = aborts + 1
    /\ calm' = FALSE
    /\ UNCHANGED <<vm, deleted>>

SandboxCommand(i) ==
    \/ i \in Boxes /\ SandboxCreate(i)
    \/ \E purge \in BOOLEAN : SandboxKill(i, purge)
    \/ StopInstance(i)

SandboxStep ==
    \/ SpawnDaemon \/ WaitExited \/ WaitReady \/ WaitTimesOut
    \/ MarkSandbox \/ BootVm \/ BootFails
    \/ EndVm \/ TeardownVm \/ KillDaemon \/ PurgeImage

CommandStep == RegistryStep \/ SandboxStep

DiskNext ==
    \/ \E i \in Images : RegistryCommand(i) \/ SandboxCommand(i)
    \/ CommandStep
    \/ \E p \in Pids : DaemonStep(p)
    \/ Abort

\* The command waits for the helper of a VM, over a control socket that it
\* reads without a timeout; only a nocloud build has a deadline of its own.
AwaitsHelper ==
    \/ At("boot") \/ At("endvm") \/ At("teardown")
    \/ At("vm") /\ cli.cmd = "bootstrap"

\* A running command goes on, except that nothing makes a helper answer.
DiskFairness == WF_imageVars(CommandStep /\ ~AwaitsHelper)

DiskSpec == RegistryInit /\ [][DiskNext]_imageVars /\ DiskFairness

-----------------------------------------------------------------------------
\* The state has its types, and an image has one layer for a tag.
DiskTypeOK ==
    /\ \A i \in Images :
          /\ image[i].dir \in BOOLEAN
          /\ image[i].meta \subseteq ImageMeta /\ Cardinality(image[i].meta) <= 1
          /\ \A l, k \in Layers(i) : l.tag = k.tag => l = k
          /\ image[i].store \subseteq LayerIds
          /\ {image[i].scratch, image[i].lock} \subseteq Inodes \cup {Nobody}
          /\ {image[i].port, image[i].pid, vm[i].disk} \subseteq Pids \cup {Nobody}
          /\ vm[i].state \in {"none", "running", "stopped", "stray"}
          /\ ~image[i].dir => image[i] = Absent
    /\ \A p \in Pids \cup {Command} :
          server[p].pc \in {"none", "start", "locked", "ready", "serving", "term"}
    /\ deleted \subseteq LayerIds

\* The layers that the tags and the scratch of image i rest on.
Needed(i) ==
    UNION {Chain(id) : id \in {l.id : l \in Layers(i)} \cup {s.parent : s \in Scratches(i)}}

\* Every layer that a tag or a scratch of any image rests on is in some store,
\* unless it was deleted by name: whatever command is cut off where, a layer is
\* never listed before its file is in place.
ChainsStored ==
    \A i \in Images : \A l \in Needed(i) : FoundAnywhere(l) \/ l \in deleted

\* image delete refuses a layer that is still a parent: between commands every
\* layer that a tag or the scratch of an image rests on is in some store.
ParentsKept ==
    At("idle") => \A i \in Images : \A l \in Needed(i) : FoundAnywhere(l)

\* No two daemons serve the same scratch file, although sandbox kill returns
\* before the daemon it signalled has ended and --purge unlinks the lock file.
DaemonsExclusive ==
    calm => \A p, q \in Pids :
        p # q /\ server[p].ino # Nobody => server[p].ino # server[q].ino

\* Between commands, if none was cut off and no image in use was stopped or
\* built: a running VM has its daemon, unless its create failed; a daemon is only
\* left by a sandbox that runs or whose VM was ended by `petri stop` or `petri
\* teardown`; and nbd.pid names every daemon, so that sandbox kill will end it.
DaemonsAccounted ==
    calm /\ At("idle") =>
        /\ \A i \in Images : vm[i].state = "running" =>
              server[vm[i].disk].pc = "serving" /\ server[vm[i].disk].img = i
        /\ \A p \in Pids : server[p].pc \notin {"none", "term"} =>
              LET i == server[p].img
              IN  vm[i].state \in {"running", "stopped"} /\ vm[i].disk = p /\ image[i].pid = p

\* The scratch of a sandbox that runs, or was stopped and can still be read over
\* its daemon, is the file the daemon serves: the serving mark keeps image delete
\* off it.
ServedScratchKept ==
    calm => \A i \in Images : vm[i].state \in {"running", "stopped"} =>
        image[i].scratch = server[vm[i].disk].ino

\* Every command returns, also when its daemon hangs before it is ready, or waits
\* for ever for a helper that does not answer.
CommandsReturn == []<>At("idle") \/ <>[]AwaitsHelper
=============================================================================
