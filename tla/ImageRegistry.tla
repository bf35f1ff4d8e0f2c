--------------------------- MODULE ImageRegistry ---------------------------
(***************************************************************************)
(* The image registry (crates/petri/src/image.rs over the layer stores of  *)
(* crates/petri-nbd/src/store.rs) and the commands that build images.      *)
(*                                                                         *)
(* An image is a directory: meta.json, the scratch overlay, a layer store  *)
(* and, for the image of a sandbox, the files of its disk server (nbd.lock,*)
(* nbd.port, nbd.pid).  A layer's content id covers its parent ids, so an  *)
(* id is the sequence of what was written on the way from the bottom of    *)
(* its chain: the parent of an id is that sequence without its last        *)
(* element.  One operator runs one command at a time; each command takes   *)
(* a step per file operation and may be cut off between any two of them.   *)
(***************************************************************************)
EXTENDS Naturals, Sequences, FiniteSets

CONSTANTS Images,     \* names of images; the image of a sandbox has its id
          Boxes,      \* the ids the operator uses for sandboxes
          Tags,       \* freeze tags
          Contents,   \* what a build can leave on the scratch
          MaxDepth,   \* bound: layers in a chain
          Inodes,     \* bound: files the model tells apart
          Pids,       \* bound: disk server daemons alive at once
          MaxCommands,\* bound: commands the operator runs
          MaxAborts   \* bound: commands cut off

VARIABLES image,    \* image[i]: the directory of image i
          server,   \* server[p]: NBD servers, in a daemon or in the command
          vm,       \* vm[i]: the VM of sandbox i and the daemon of its disk
          cli,      \* the command being run
          deleted,  \* layers the operator asked to delete
          calm,     \* no command cut off, no image in use stopped or built
          aborts

imageVars == <<image, server, vm, cli, deleted, calm, aborts>>

NoLayer == <<>>
NoTag == "none"
Nobody == 0      \* no inode, no process
Command == 0     \* the server inside the command's own process

LayerIds == UNION {[1..n -> Contents] : n \in 1..MaxDepth}

\* The layers a layer rests on, itself included.
Chain(id) == {SubSeq(id, 1, n) : n \in 1..Len(id)}

ParentOf(id) == SubSeq(id, 1, Len(id) - 1)

\* Who a scratch is served to: its sandbox (0), or a build.
Users == 0..(MaxAborts + 1)

ScratchMeta == [parent : LayerIds \cup {NoLayer}, port : BOOLEAN,
                users : SUBSET Users]

LayerMeta == [tag : Tags, id : LayerIds, boot : BOOLEAN, script : BOOLEAN]

ImageMeta == [scratch : {{}} \cup {{s} : s \in ScratchMeta}, layers : SUBSET LayerMeta]

\* A directory that does not exist.
Absent == [dir |-> FALSE, meta |-> {}, store |-> {}, scratch |-> Nobody,
           lock |-> Nobody, port |-> Nobody, pid |-> Nobody]

\* The VM of a sandbox: running, ended by `petri stop` or `petri teardown`, or
\* left behind by a create that failed.
NoVm == [state |-> "none", disk |-> Nobody]

NoServer == [pc |-> "none", img |-> NoTag, ino |-> Nobody, lock |-> Nobody]

\* No command running, after n of them.
Idle(n) == [pc |-> "idle", cmd |-> "none", img |-> NoTag, over |-> NoLayer,
            tag |-> NoTag, pid |-> Nobody, count |-> n]

-----------------------------------------------------------------------------
\* Reading an image.

\* load_meta: none when meta.json is missing or does not parse.
Loads(i) == image[i].meta # {}

Layers(i) == UNION {m.layers : m \in image[i].meta}
Scratches(i) == UNION {m.scratch : m \in image[i].meta}

\* Frozen layers that can serve as a base: open_layer looks in the base's store.
Bases == {l \in UNION {Layers(b) : b \in Images} :
             \E b \in Images : l \in Layers(b) /\ l.id \in image[b].store}

FoundAnywhere(id) == \E i \in Images : id \in image[i].store

\* lower_layers_for: every layer of the chain is found in some store.
LowerLayersFound(id) == \A l \in Chain(id) : FoundAnywhere(l)

UsedInodes ==
    UNION {{image[i].scratch, image[i].lock} : i \in Images}
        \cup UNION {{server[p].ino, server[p].lock} : p \in Pids \cup {Command}}

FreshInode == CHOOSE n \in Inodes \ UsedInodes :
                 \A k \in Inodes \ UsedInodes : n <= k

\* create_scratch truncates the file that is there.
ScratchFile(i) == IF image[i].scratch = Nobody THEN FreshInode ELSE image[i].scratch

LiveOn(i) == {p \in Pids : server[p].pc # "none" /\ server[p].img = i}

-----------------------------------------------------------------------------
\* The running command.

Begin(cmd, i, over, tag, pc) ==
    /\ cli.pc = "idle" /\ cli.count < MaxCommands
    /\ cli' = [pc |-> pc, cmd |-> cmd, img |-> i, over |-> over, tag |-> tag,
               pid |-> Nobody, count |-> cli.count + 1]

At(pc) == cli.pc = pc

EndCommand == cli' = Idle(cli.count)

Proceed(pc) == cli' = [cli EXCEPT !.pc = pc]

\* The command returns; a server in its process goes with it.
Done ==
    /\ EndCommand
    /\ server' = [server EXCEPT ![Command] = NoServer]

\* save_meta on the command's image.
SavedScratch(i, s) == {[scratch |-> s, layers |-> Layers(i)]}

FreshScratch(parent) == [parent |-> parent, port |-> FALSE, users |-> {}]

\* A build marks the scratch under an id of its own, which only an abort leaves.
User == IF cli.cmd = "sandbox" THEN 0 ELSE aborts + 1

\* mark_serving
Marked(s, user) == [s EXCEPT !.port = TRUE, !.users = @ \cup {user}]

\* clear_serving: the port goes with the last user.
Cleared(s, user) ==
    LET left == s.users \ {user}
    IN  [s EXCEPT !.users = left, !.port = @ /\ left # {}]

-----------------------------------------------------------------------------
(***************************************************************************)
(* image create, image create --from-nocloud, image rebuild and the image  *)
(* part of sandbox create: make sure of a scratch over the base.           *)
(***************************************************************************)

\* What follows once the scratch and its meta.json are there.
AfterScratch(cmd) ==
    CASE cmd = "create" -> "idle"
      [] cmd \in {"nocloud", "rebuild", "bootstrap"} -> "serve"
      [] cmd = "sandbox" -> "spawn"

\* Bound: no layer is frozen on a chain of MaxDepth layers.
Room(id) == Len(id) < MaxDepth

ImageCreate(i) ==
    /\ ~image[i].dir
    /\ \E over \in {NoLayer} \cup {l.id : l \in Bases} :
          Begin("create", i, over, NoTag, "scratch")
    /\ UNCHANGED <<image, server, vm, deleted, calm, aborts>>

ImageCreateFromNocloud(i, tag) ==
    /\ ~image[i].dir
    /\ \E over \in {NoLayer} \cup {l.id : l \in Bases} :
          Room(over) /\ Begin("nocloud", i, over, tag, "scratch")
    /\ UNCHANGED <<image, server, vm, deleted, calm, aborts>>

\* reset_scratch_over_base: keeps a scratch over the base, refuses another one.
ResetScratch(cmd, i, base, tag) ==
    /\ Loads(i)
    /\ \A s \in Scratches(i) : s.parent = base
    /\ Begin(cmd, i, base, tag,
             IF Scratches(i) = {} THEN "scratch" ELSE AfterScratch(cmd))

\* run_image_rebuild: some tag of the image has a stored provision script.
ImageRebuild(i, tag) ==
    /\ \E l \in Layers(i) : l.script
    /\ \E base \in Bases : Room(base.id) /\ ResetScratch("rebuild", i, base.id, tag)
    /\ UNCHANGED <<image, server, vm, deleted, calm, aborts>>

\* run_sandbox_create_from_base: the base has a kernel, the image may exist.
SandboxCreate(i) ==
    /\ \E p \in Pids : server[p].pc = "none"    \* bound
    /\ \E base \in Bases :
          /\ base.boot
          /\ \/ ~image[i].dir /\ Begin("sandbox", i, base.id, NoTag, "scratch")
             \/ image[i].dir /\ ResetScratch("sandbox", i, base.id, NoTag)
    /\ UNCHANGED <<image, server, vm, deleted, calm, aborts>>

CreateScratch ==
    /\ At("scratch")
    /\ image' = [image EXCEPT ![cli.img].dir = TRUE,
                              ![cli.img].scratch = ScratchFile(cli.img)]
    /\ Proceed("meta")
    /\ UNCHANGED <<server, vm, deleted, calm, aborts>>

SaveScratchMeta ==
    /\ At("meta")
    /\ image' = [image EXCEPT ![cli.img].meta =
                     SavedScratch(cli.img, {FreshScratch(cli.over)})]
    /\ IF AfterScratch(cli.cmd) = "idle" THEN EndCommand
                                        ELSE Proceed(AfterScratch(cli.cmd))
    /\ UNCHANGED <<server, vm, deleted, calm, aborts>>

-----------------------------------------------------------------------------
(***************************************************************************)
(* Building: run_sandbox_bootstrap and run_nocloud_provision_and_seal.     *)
(* The scratch is served from within the command while the builder VM      *)
(* writes it, then sealed, adopted by the store and recorded.              *)
(***************************************************************************)

\* Without --auto-freeze the tag is NoTag and nothing is sealed.
SandboxBootstrap(i, tag) ==
    /\ \A s \in Scratches(i) : tag # NoTag => Room(s.parent)
    /\ Begin("bootstrap", i, NoLayer, tag, "serve")
    /\ UNCHANGED <<image, server, vm, deleted, calm, aborts>>

CanServe(i) == \E s \in Scratches(i) : LowerLayersFound(s.parent)

\* serve_scratch takes no lock and asks for no mark.
ServeScratch ==
    /\ At("serve")
    /\ CanServe(cli.img)
    /\ LET n == ScratchFile(cli.img)
       IN  /\ image' = [image EXCEPT ![cli.img].scratch = n]
           /\ server' = [server EXCEPT ![Command] =
                  [pc |-> "serving", img |-> cli.img, ino |-> n, lock |-> Nobody]]
    /\ Proceed("mark")
    /\ calm' = (calm /\ LiveOn(cli.img) = {})
    /\ UNCHANGED <<vm, deleted, aborts>>

ServeScratchFails ==
    /\ At("serve") /\ ~CanServe(cli.img)
    /\ Done
    /\ UNCHANGED <<image, vm, deleted, calm, aborts>>

MarkServing ==
    /\ At("mark")
    /\ image' = [image EXCEPT ![cli.img].meta =
                     SavedScratch(cli.img, {Marked(s, User) : s \in Scratches(cli.img)})]
    /\ Proceed("vm")
    /\ UNCHANGED <<server, vm, deleted, calm, aborts>>

\* The builder VM ended well; in a nocloud build also when provisioning failed.
BuilderSucceeds ==
    /\ At("vm")
    /\ Proceed(IF cli.tag = NoTag THEN "clear" ELSE "seal")
    /\ UNCHANGED <<image, server, vm, deleted, calm, aborts>>

\* It failed, or did not end before the deadline and was killed.
BuilderFails ==
    /\ At("vm")
    /\ Proceed("clear")
    /\ UNCHANGED <<image, server, vm, deleted, calm, aborts>>

ClearServing ==
    /\ At("clear")
    /\ image' = [image EXCEPT ![cli.img].meta =
                     SavedScratch(cli.img, {Cleared(s, User) : s \in Scratches(cli.img)})]
    /\ Done
    /\ UNCHANGED <<vm, deleted, calm, aborts>>

\* auto_freeze: the layer's parent is the one meta.json names now.
SealScratch ==
    /\ At("seal")
    /\ \E s \in Scratches(cli.img), c \in Contents :
          cli' = [cli EXCEPT !.pc = "adopt", !.over = Append(s.parent, c)]
    /\ UNCHANGED <<image, server, vm, deleted, calm, aborts>>

\* Mutant: the staged file is not moved to its content id.
AdoptSealedStaged ==
    /\ At("adopt")
    /\ Proceed("roll")
    /\ UNCHANGED <<image, server, vm, deleted, calm, aborts>>

\* adopt_sealed renames the staged file to its content id, or drops a duplicate.
AdoptSealed ==
    /\ At("adopt")
    /\ image' = [image EXCEPT ![cli.img].store = @ \cup {cli.over}]
    /\ Proceed("roll")
    /\ UNCHANGED <<server, vm, deleted, calm, aborts>>

\* record_frozen_layer removes scratch.data and creates a new one ...
RollScratch ==
    /\ At("roll")
    /\ image' = [image EXCEPT ![cli.img].scratch = FreshInode]
    /\ Proceed("record")
    /\ UNCHANGED <<server, vm, deleted, calm, aborts>>

\* Mutant: the layer that had the tag stays in the list.
RecordFrozenLayerAppends ==
    /\ At("record")
    /\ \E boot \in BOOLEAN :
          LET new == [tag |-> cli.tag, id |-> cli.over, boot |-> boot, script |-> TRUE]
          IN  image' = [image EXCEPT ![cli.img].meta =
                 {[scratch |-> {FreshScratch(cli.over)}, layers |-> Layers(cli.img) \cup {new}]}]
    /\ Done
    /\ UNCHANGED <<vm, deleted, calm, aborts>>

\* ... and saves the new layer, over any of the same tag, and the new scratch.
RecordFrozenLayer ==
    /\ At("record")
    /\ \E boot, script \in BOOLEAN :
          /\ cli.cmd = "bootstrap" => ~boot
          /\ cli.cmd # "bootstrap" => script
          /\ LET kept == {l \in Layers(cli.img) : l.tag # cli.tag}
                 new == [tag |-> cli.tag, id |-> cli.over, boot |-> boot, script |-> script]
             IN  image' = [image EXCEPT ![cli.img].meta =
                    {[scratch |-> {FreshScratch(cli.over)}, layers |-> kept \cup {new}]}]
    /\ Done
    /\ UNCHANGED <<vm, deleted, calm, aborts>>

-----------------------------------------------------------------------------
(***************************************************************************)
(* image stop and image delete.                                            *)
(***************************************************************************)

\* stop: clears the mark of a scratch whose server is supposed to be gone.
ImageStop(i) ==
    /\ \E s \in Scratches(i) : s.port
    /\ Begin("stop", i, NoLayer, NoTag, "stop")
    /\ UNCHANGED <<image, server, vm, deleted, calm, aborts>>

StopSaves ==
    /\ At("stop")
    /\ image' = [image EXCEPT ![cli.img].meta =
           SavedScratch(cli.img, {FreshScratch(s.parent) : s \in Scratches(cli.img)})]
    /\ Done
    /\ calm' = (calm /\ LiveOn(cli.img) = {})
    /\ UNCHANGED <<vm, deleted, aborts>>

\* remove_dir_all: what is left in the store goes too.
RemoveDir(i) ==
    /\ image' = [image EXCEPT ![i] = Absent]
    /\ deleted' = deleted \cup image[i].store

\* Mutant: delete_scratch does not look at the serving mark.
DeleteScratchServed(i) ==
    /\ Scratches(i) # {}
    /\ Begin("delete", i, NoLayer, NoTag, "drop")
    /\ image' = [image EXCEPT ![i].scratch = Nobody]
    /\ UNCHANGED <<server, vm, deleted, calm, aborts>>

\* delete_scratch, with --force or on a scratch nothing was written to.
DeleteScratch(i) ==
    /\ \E s \in Scratches(i) : ~s.port /\ s.users = {}
    /\ Begin("delete", i, NoLayer, NoTag, "drop")
    /\ image' = [image EXCEPT ![i].scratch = Nobody]
    /\ UNCHANGED <<server, vm, deleted, calm, aborts>>

DropScratch ==
    /\ At("drop")
    /\ IF Layers(cli.img) = {}
       THEN RemoveDir(cli.img)
       ELSE /\ image' = [image EXCEPT ![cli.img].meta = SavedScratch(cli.img, {})]
            /\ UNCHANGED deleted
    /\ Done
    /\ UNCHANGED <<vm, calm, aborts>>

\* delete_layer refuses the parent of another tag and of the scratch, as listed
\* in this image's meta.json.
DeleteLayer(i) ==
    /\ \E l \in Layers(i) :
          /\ \A other \in Layers(i) : other.tag # l.tag => ParentOf(other.id) # l.id
          /\ \A s \in Scratches(i) : s.parent # l.id
          /\ Begin("delete", i, l.id, l.tag, "untag")
          /\ image' = [image EXCEPT ![i].store = @ \ {l.id}]
          /\ deleted' = deleted \cup {l.id}
    /\ UNCHANGED <<server, vm, calm, aborts>>

Untag ==
    /\ At("untag")
    /\ LET kept == {l \in Layers(cli.img) : l.tag # cli.tag}
       IN  IF kept = {} /\ image[cli.img].scratch = Nobody
           THEN RemoveDir(cli.img)
           ELSE /\ image' = [image EXCEPT ![cli.img].meta =
                       {[scratch |-> Scratches(cli.img), layers |-> kept]}]
                /\ UNCHANGED deleted
    /\ Done
    /\ UNCHANGED <<vm, calm, aborts>>

-----------------------------------------------------------------------------
RegistryInit ==
    /\ image = [i \in Images |-> Absent]
    /\ server = [p \in Pids \cup {Command} |-> NoServer]
    /\ vm = [i \in Images |-> NoVm]
    /\ cli = Idle(0)
    /\ deleted = {}
    /\ calm = TRUE
    /\ aborts = 0

\* The operator starts a command on the registry.
RegistryCommand(i) ==
    \/ ImageCreate(i)
    \/ \E tag \in Tags : i \notin Boxes /\ ImageCreateFromNocloud(i, tag)
    \/ \E tag \in Tags : i \notin Boxes /\ ImageRebuild(i, tag)
    \/ \E tag \in Tags \cup {NoTag} : SandboxBootstrap(i, tag)
    \/ ImageStop(i)
    \/ DeleteScratch(i)
    \/ DeleteLayer(i)

RegistryStep ==
    \/ CreateScratch \/ SaveScratchMeta
    \/ ServeScratch \/ ServeScratchFails \/ MarkServing
    \/ BuilderSucceeds \/ BuilderFails \/ ClearServing
    \/ SealScratch \/ AdoptSealed \/ RollScratch \/ RecordFrozenLayer
    \/ StopSaves \/ DropScratch \/ Untag
=============================================================================
