------------------------------ MODULE HostCreate ------------------------------
(***************************************************************************)
(* MacosBackend::create (crates/petri/src/backend.rs) running beside the   *)
(* other operations of HostBackend.  create takes no lock: it spawns the   *)
(* helper, writes Booting, polls the helper, and finally writes Ready or   *)
(* Failed from the RuntimeState it keeps in memory.  The helper's boot, as *)
(* the control socket shows it, is part of this module.                    *)
(***************************************************************************)
EXTENDS HostBackend

CONSTANT Creator   \* the drivers that call create

ASSUME CreatorAssumption == Creator \subseteq Driver

VARIABLE booting   \* helpers whose boot has neither succeeded nor failed yet

createVars == <<vars, booting>>

CreateTypeOK == TypeOK /\ booting \subseteq Pid

\* No instance of this id exists.
CreateInit ==
  /\ dir = NoInode
  /\ lockPath = NoInode
  /\ json = [ino |-> NoInode, life |-> "Provisioning", pid |-> NoPid, torn |-> FALSE]
  /\ helper = [p \in Pid |-> "unused"]
  /\ sock = NoPid
  /\ pc = [d \in Driver |-> "idle"]
  /\ op = [d \in Driver |-> "dispatch"]
  /\ fd = [d \in Driver |-> NoInode]
  /\ mem = [d \in Driver |-> NoMem]
  /\ to = [d \in Driver |-> "Ready"]
  /\ wfd = [d \in Driver |-> NoInode]
  /\ rm = [d \in Driver |-> NoRm]
  /\ faults = 0
  /\ booting = {}

-----------------------------------------------------------------------------
\* create_real_vm makes the instance directory for the policy copy and the logs.
\* Nothing asks whether an instance of this id exists already.
CreatePrepare(d) ==
  /\ pc[d] = "idle"
  /\ op' = [op EXCEPT ![d] = "create"]
  /\ IF dir # NoInode THEN dir' = dir ELSE \E i \in Inode : Fresh(i, InUse) /\ dir' = i
  /\ Goto(d, "spawn")
  /\ UNCHANGED <<lockPath, json, vmVars, fd, mem, to, wfd, rm, faults, booting>>

\* Mutant: the record starts out in a state the enum does not have.
SpawnedStarting(d, p) ==
  /\ helper[p] = "unused"
  /\ mem' = [mem EXCEPT ![d] = [life |-> "Provisioning", pid |-> p]]
  /\ to' = [to EXCEPT ![d] = "Starting"]
  /\ Goto(d, "truncate")
  /\ booting' = booting \union {p}
  /\ UNCHANGED <<fd, wfd, rm>>

\* The child runs and create holds its RuntimeState, Booting, in memory.
Spawned(d, p) ==
  /\ helper[p] = "unused"
  /\ mem' = [mem EXCEPT ![d] = [life |-> "Provisioning", pid |-> p]]
  /\ to' = [to EXCEPT ![d] = "Booting"]
  /\ Goto(d, "truncate")
  /\ booting' = booting \union {p}
  /\ UNCHANGED <<fd, wfd, rm>>

\* create_real_vm: a stale control socket is unlinked and the helper spawned.
\* Log files that cannot be created (the directory may be gone again), a missing
\* helper binary or a bad image bundle end the call, the last two after the
\* unlink.
CreateRealVm(d) ==
  /\ pc[d] = "spawn"
  /\ \/ Return(d) /\ sock' \in {sock, NoPid} /\ UNCHANGED <<helper, booting>>
     \/ /\ dir # NoInode
        /\ \E p \in VzPid : Spawned(d, p) /\ SetHelper(p, "spawned")
        /\ sock' = NoPid
        /\ UNCHANGED op
  /\ UNCHANGED <<fsVars, faults>>

\* create_loopback: the guest itself is the child; no file is touched before
\* write_state.
CreateLoopback(d) ==
  /\ pc[d] = "idle"
  /\ op' = [op EXCEPT ![d] = "create"]
  /\ \E p \in LoopbackPid : Spawned(d, p) /\ SetHelper(p, "starting")
  /\ UNCHANGED <<fsVars, sock, faults>>

\* Mutant: any answer of the helper counts as ready.
WaitReadyAnyAnswer(d) ==
  /\ pc[d] = "wait"
  /\ PeerStatus(d) \notin Unreachable
  /\ to' = [to EXCEPT ![d] = "Ready"]
  /\ Goto(d, "truncate")
  /\ UNCHANGED <<fsVars, vmVars, op, fd, mem, wfd, rm, faults, booting>>

\* wait_for_helper_ready and wait_for_guest: Ready as soon as the peer says so;
\* an error when the child has exited (real VM only), when the peer reports
\* failure, or when the time is up.  Ready or Failed is then written over
\* whatever the record has become.
WaitReady(d) ==
  /\ pc[d] = "wait"
  /\ \/ /\ PeerStatus(d) = "ready"
        /\ to' = [to EXCEPT ![d] = "Ready"]
     \/ to' = [to EXCEPT ![d] = "Failed"]
  /\ Goto(d, "truncate")
  /\ UNCHANGED <<fsVars, vmVars, op, fd, mem, wfd, rm, faults, booting>>

\* inspect_err: terminate_process(child), after Failed was written or could not
\* be written.
Reap(d) ==
  /\ pc[d] = "reap"
  /\ helper' = Exit(mem[d].pid, helper)
  /\ sock' = IF sock = mem[d].pid THEN NoPid ELSE sock
  /\ booting' = booting \ {mem[d].pid}
  /\ Return(d)
  /\ UNCHANGED <<fsVars, faults>>

-----------------------------------------------------------------------------
(***************************************************************************)
(* The helper's side: ControlServer.run and VMController.start.            *)
(***************************************************************************)

\* ControlServer.run unlinks whatever is at the socket path and binds it.
HelperListens(p) ==
  /\ helper[p] = "spawned"
  /\ SetHelper(p, "starting")
  /\ sock' = p
  /\ UNCHANGED <<fsVars, callVars, faults, booting>>

\* The boot of the VM ends, well or badly.  setState and fail overwrite the
\* helper's state whatever it is by then: a stop may have come first.
BootEnds(p) ==
  /\ p \in booting
  /\ helper[p] \in {"starting", "stopped"}
  /\ \E status \in {"ready", "failed"} : SetHelper(p, status)
  /\ booting' = booting \ {p}
  /\ UNCHANGED <<fsVars, sock, callVars, faults>>

CreateNext ==
  \/ \E d \in Creator : CreatePrepare(d) \/ CreateLoopback(d)
  \/ \E d \in Driver : CreateRealVm(d) \/ WaitReady(d) \/ Reap(d)
  \/ \E p \in Pid : HelperListens(p) \/ BootEnds(p)
  \/ Next /\ booting' = {p \in booting : helper'[p] # "exited"}

CreateSpec == CreateInit /\ [][CreateNext]_createVars

\* Callers that never overlap a create with anything but calls still waiting
\* for the lock, and create an id again only after its teardown returned.
Considerate ==
  \A d \in Driver : pc[d] = "idle" /\ pc'[d] # "idle" =>
    /\ \A e \in Driver : op[e] # "create"
    /\ op'[d] = "create" => json.ino = NoInode /\ (\A e \in Driver : ~Locked(e))

ConsiderateSpec == CreateInit /\ [][CreateNext /\ Considerate]_createVars

-----------------------------------------------------------------------------
(***************************************************************************)
(* Properties.                                                             *)
(***************************************************************************)

PastBoot(p) == helper[p] \notin {"unused", "spawned", "starting"}

\* A record never invites dispatches before the helper it names has finished
\* booting, whatever stops, teardowns, crashes and torn writes happen during the
\* boot.  The one exception: wait_for_helper_ready asks whoever owns the control
\* socket, and a helper left by a create that was cut off, or started by a
\* create running beside this one, may bind it late and answer instead.
ReadyOnlyAfterBoot ==
  json.ino # NoInode /\ json.life \in {"Ready", "RunningDispatch"} =>
    \/ PastBoot(json.pid)
    \/ /\ faults > 0 \/ \E c, d \in Creator : c # d
       /\ \E p \in VzPid \ {json.pid} : PastBoot(p)

=============================================================================
