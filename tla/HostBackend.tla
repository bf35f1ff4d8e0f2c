----------------------------- MODULE HostBackend -----------------------------
(***************************************************************************)
(* MacosBackend (crates/petri/src/backend.rs) driving ONE existing         *)
(* instance from several host processes at once: PetriBackend's routing,   *)
(* lock_instance, load_state, transition_state/write_state, dispatch, stop,*)
(* teardown and remove_state, each system call that another process can    *)
(* observe being a step of its own.  Processes may crash, and a write may  *)
(* fail, between any two steps.                                            *)
(*                                                                         *)
(* Files are identified by inodes, because an flock is held on an inode    *)
(* and not on a path: teardown unlinks instance.lock while it holds it.    *)
(***************************************************************************)
EXTENDS Lifecycle, Naturals, FiniteSets

CONSTANTS Driver,      \* host processes calling the backend
          VzPid,       \* petri-vz helper processes (GuestTransport::Vsock)
          LoopbackPid, \* guest processes run directly (GuestTransport::TcpLoopback)
          NoPid,
          Inode,       \* inode numbers
          NoInode,     \* the number no inode has
          MaxFaults    \* bound on crashes and failed writes

\* The child processes of create; which kind it is decides the transport of the
\* RuntimeState that records it.
Pid == VzPid \union LoopbackPid

ASSUME HostAssumption ==
  /\ VzPid \intersect LoopbackPid = {} /\ NoPid \notin Pid
  /\ Inode \subseteq Nat /\ NoInode \notin Inode
  /\ MaxFaults \in Nat

VARIABLES
  \* The host file system, as far as the instance directory goes.
  dir,       \* inode of the instance directory, or NoInode
  lockPath,  \* inode that instance.lock names, or NoInode
  json,      \* instance.json: [ino, life, pid, torn]; life and pid are the last
             \* complete content, which nobody can read while torn
  \* The helper processes and the control socket of the instance.
  helper,    \* [Pid -> HelperStatus]
  sock,      \* the helper listening on the control socket path, or NoPid
  \* The calls in progress, one per driver.
  pc, op,
  fd,        \* the inode of instance.lock the call has open
  mem,       \* the call's RuntimeState: [life, pid]
  to,        \* lifecycle being written by transition_state
  wfd,       \* inode of instance.json the call has open for writing
  rm,        \* remove_dir_all: [dir, left], the opened directory and the
             \* entries it still has to unlink
  faults

fsVars == <<dir, lockPath, json>>
vmVars == <<helper, sock>>
callVars == <<pc, op, fd, mem, to, wfd, rm>>
vars == <<fsVars, vmVars, callVars, faults>>

Op == {"dispatch", "stop", "teardown", "create"}

\* HelperState of petri-vz, between "unused" and "exited"; "spawned" is a process
\* that does not listen yet.
HelperStatus == {"unused", "spawned", "starting", "ready", "stopped", "failed", "exited"}

Unreachable == {"unused", "spawned", "exited"}

\* Control points at which the call has the flock.
LockedPc == {"load", "truncate", "write", "send", "await", "sendstop", "kill", "remove"}
Pc == LockedPc \union {"idle", "mkdir", "open", "flock", "spawn", "wait", "reap"}

Entries == {"json", "lock"}

Locked(d) == pc[d] \in LockedPc /\ op[d] # "create"

NoMem == [life |-> "Provisioning", pid |-> NoPid]
NoRm == [dir |-> NoInode, left |-> {}]

InUse == {dir, lockPath, json.ino}
         \union {fd[d] : d \in Driver} \union {wfd[d] : d \in Driver}
         \union {rm[d].dir : d \in Driver}

\* The file system hands out the lowest inode number that is neither linked nor
\* open; nothing below depends on more than its being unused.
Fresh(i, used) ==
  /\ i \in Inode /\ i \notin used
  /\ \A j \in Inode : j < i => j \in used

-----------------------------------------------------------------------------
TypeOK ==
  /\ dir \in Inode \union {NoInode}
  /\ lockPath \in Inode \union {NoInode}
  /\ json \in [ino : Inode \union {NoInode}, life : LifecycleState,
               pid : Pid \union {NoPid}, torn : BOOLEAN]
  /\ helper \in [Pid -> HelperStatus]
  /\ sock \in Pid \union {NoPid}
  /\ pc \in [Driver -> Pc]
  /\ op \in [Driver -> Op]
  /\ fd \in [Driver -> Inode \union {NoInode}]
  /\ mem \in [Driver -> [life : LifecycleState, pid : Pid \union {NoPid}]]
  /\ to \in [Driver -> LifecycleState]
  /\ wfd \in [Driver -> Inode \union {NoInode}]
  /\ rm \in [Driver -> [dir : Inode \union {NoInode}, left : SUBSET Entries]]
  /\ faults \in 0..MaxFaults

\* An instance whose create has returned: the record says Ready, the helper
\* serves the control socket (a loopback guest serves its port), and no process
\* has opened the lock yet.
Init ==
  /\ dir \in Inode /\ (\A i \in Inode : dir <= i)
  /\ lockPath = NoInode
  /\ json \in [ino : Inode, life : {"Ready"}, pid : Pid, torn : {FALSE}]
  /\ json.ino # dir /\ (\A i \in Inode : i = dir \/ json.ino <= i)
  /\ helper = [p \in Pid |-> IF p = json.pid THEN "ready" ELSE "unused"]
  /\ sock = IF json.pid \in VzPid THEN json.pid ELSE NoPid
  /\ pc = [d \in Driver |-> "idle"]
  /\ op = [d \in Driver |-> "dispatch"]
  /\ fd = [d \in Driver |-> NoInode]
  /\ mem = [d \in Driver |-> NoMem]
  /\ to = [d \in Driver |-> "Ready"]
  /\ wfd = [d \in Driver |-> NoInode]
  /\ rm = [d \in Driver |-> NoRm]
  /\ faults = 0

Goto(d, l) == pc' = [pc EXCEPT ![d] = l]

\* The call returns, with or without an error.  Dropping its descriptors
\* releases the flock; a killed process has the same effect.
Return(d) ==
  /\ pc' = [pc EXCEPT ![d] = "idle"]
  /\ op' = [op EXCEPT ![d] = "dispatch"]
  /\ fd' = [fd EXCEPT ![d] = NoInode]
  /\ mem' = [mem EXCEPT ![d] = NoMem]
  /\ to' = [to EXCEPT ![d] = "Ready"]
  /\ wfd' = [wfd EXCEPT ![d] = NoInode]
  /\ rm' = [rm EXCEPT ![d] = NoRm]

-----------------------------------------------------------------------------
(***************************************************************************)
(* Routing and lock_instance.                                              *)
(***************************************************************************)

\* PetriBackend::{dispatch, stop, teardown}: has_instance is asked before, and
\* outside, the lock.
Call(d, o) ==
  /\ pc[d] = "idle"
  /\ json.ino # NoInode
  /\ op' = [op EXCEPT ![d] = o]
  /\ Goto(d, "mkdir")
  /\ UNCHANGED <<fsVars, vmVars, fd, mem, to, wfd, rm, faults>>

\* An instance without instance.json is routed to the stub backend, which only
\* reports that it implements no such operation.
CallStub(d) ==
  /\ pc[d] = "idle"
  /\ json.ino = NoInode
  /\ UNCHANGED vars

\* lock_instance: create_dir_all.
MakeInstanceDir(d) ==
  /\ pc[d] = "mkdir"
  /\ IF dir # NoInode THEN dir' = dir ELSE \E i \in Inode : Fresh(i, InUse) /\ dir' = i
  /\ Goto(d, "open")
  /\ UNCHANGED <<lockPath, json, vmVars, op, fd, mem, to, wfd, rm, faults>>

\* InstanceLock::acquire: open(create).  If the directory vanished since
\* create_dir_all, the call ends with an Io error.
OpenLockFile(d) ==
  /\ pc[d] = "open"
  /\ \/ /\ dir = NoInode
        /\ Return(d)
        /\ UNCHANGED lockPath
     \/ /\ dir # NoInode
        /\ IF lockPath # NoInode
             THEN lockPath' = lockPath
             ELSE \E i \in Inode : Fresh(i, InUse) /\ lockPath' = i
        /\ fd' = [fd EXCEPT ![d] = lockPath']
        /\ Goto(d, "flock")
        /\ UNCHANGED <<op, mem, to, wfd, rm>>
  /\ UNCHANGED <<dir, json, vmVars, faults>>

\* Mutant: a shared lock.
FlockShared(d) ==
  /\ pc[d] = "flock"
  /\ Goto(d, "load")
  /\ UNCHANGED <<fsVars, vmVars, op, fd, mem, to, wfd, rm, faults>>

\* InstanceLock::acquire: flock(LOCK_EX) is granted once no other descriptor
\* of the SAME INODE holds it.
Flock(d) ==
  /\ pc[d] = "flock"
  /\ \A e \in Driver : Locked(e) => fd[e] # fd[d]
  /\ Goto(d, "load")
  /\ UNCHANGED <<fsVars, vmVars, op, fd, mem, to, wfd, rm, faults>>

-----------------------------------------------------------------------------
(***************************************************************************)
(* load_state and transition_state.                                        *)
(***************************************************************************)

Readable == json.ino # NoInode /\ ~json.torn

\* The lifecycle each operation moves to first.
FirstTarget(o) == [dispatch |-> "RunningDispatch", stop |-> "Stopping",
                   teardown |-> "TornDown", create |-> "Booting"][o]

\* Mutant: load_state and the write without transition's legality check.
LoadStateUnchecked(d) ==
  /\ pc[d] = "load"
  /\ Readable
  /\ mem' = [mem EXCEPT ![d] = [life |-> json.life, pid |-> json.pid]]
  /\ to' = [to EXCEPT ![d] = FirstTarget(op[d])]
  /\ Goto(d, "truncate")
  /\ UNCHANGED <<fsVars, vmVars, op, fd, wfd, rm, faults>>

\* Mutant: teardown removes the instance without recording TornDown first.
LoadStateForRemoval(d) ==
  /\ pc[d] = "load"
  /\ Readable
  /\ mem' = [mem EXCEPT ![d] = [life |-> json.life, pid |-> json.pid]]
  /\ to' = [to EXCEPT ![d] = FirstTarget(op[d])]
  /\ \/ /\ op[d] = "teardown"
        /\ Goto(d, "kill")
     \/ /\ op[d] # "teardown" /\ CanTransition(json.life, FirstTarget(op[d]))
        /\ Goto(d, "truncate")
  /\ UNCHANGED <<fsVars, vmVars, op, fd, wfd, rm, faults>>

\* load_state, then the legality check of transition_state.  Unreadable or
\* missing records end dispatch and stop with an error, while teardown goes
\* straight to remove_state; an illegal transition ends every operation, except
\* that teardown finds TornDown good enough.
LoadState(d) ==
  /\ pc[d] = "load"
  /\ \/ /\ Readable
        /\ CanTransition(json.life, FirstTarget(op[d]))
        /\ mem' = [mem EXCEPT ![d] = [life |-> json.life, pid |-> json.pid]]
        /\ to' = [to EXCEPT ![d] = FirstTarget(op[d])]
        /\ Goto(d, "truncate")
        /\ UNCHANGED <<op, fd, wfd, rm>>
     \/ /\ Readable
        /\ json.life = "TornDown" /\ op[d] = "teardown"
        /\ mem' = [mem EXCEPT ![d] = [life |-> json.life, pid |-> json.pid]]
        /\ Goto(d, "kill")
        /\ UNCHANGED <<op, fd, to, wfd, rm>>
     \/ /\ ~Readable
        /\ op[d] = "teardown"
        /\ Goto(d, "remove")
        /\ UNCHANGED <<op, fd, mem, to, wfd, rm>>
     \/ /\ IF Readable
             THEN /\ ~CanTransition(json.life, FirstTarget(op[d]))
                  /\ ~(json.life = "TornDown" /\ op[d] = "teardown")
             ELSE op[d] # "teardown"
        /\ Return(d)
  /\ UNCHANGED <<fsVars, vmVars, faults>>

\* write_state, first half: create_dir_all, then fs::write opens the file with
\* O_CREAT|O_TRUNC.
TruncateState(d) ==
  /\ pc[d] = "truncate"
  /\ IF dir # NoInode THEN dir' = dir ELSE \E i \in Inode : Fresh(i, InUse) /\ dir' = i
  /\ IF json.ino # NoInode
       THEN json' = [json EXCEPT !.torn = TRUE]
       ELSE \E i \in Inode :
              /\ Fresh(i, InUse \union {dir'})
              /\ json' = [ino |-> i, life |-> mem[d].life, pid |-> mem[d].pid, torn |-> TRUE]
  /\ wfd' = [wfd EXCEPT ![d] = json'.ino]
  /\ Goto(d, "write")
  /\ UNCHANGED <<lockPath, vmVars, op, fd, mem, to, rm, faults>>

\* Where the operation goes once transition_state(.., t, ..) has succeeded.
AfterWrite(o, t) == CASE t = "RunningDispatch"               -> "send"
                      [] t = "Stopping"                      -> "sendstop"
                      [] t = "TornDown" /\ o = "teardown"    -> "kill"
                      [] t = "Booting"                       -> "wait"
                      [] t = "Failed" /\ o = "create"        -> "reap"
                      [] OTHER                               -> "idle"

\* write_state, second half: the payload reaches the inode opened above, which
\* may have been unlinked meanwhile.  A record that another writer completed
\* since our truncation is overwritten in place: if it was the longer one, its
\* tail survives and the file no longer parses.
CompleteWrite(d) ==
  IF json.ino # wfd[d]
    THEN UNCHANGED json
    ELSE \E torn \in IF json.torn THEN {FALSE} ELSE BOOLEAN :
           json' = [json EXCEPT !.life = to[d], !.pid = mem[d].pid, !.torn = torn]

WriteState(d) ==
  /\ pc[d] = "write"
  /\ CompleteWrite(d)
  /\ IF AfterWrite(op[d], to[d]) = "idle"
       THEN Return(d)
       ELSE /\ Goto(d, AfterWrite(op[d], to[d]))
            /\ mem' = [mem EXCEPT ![d].life = to[d]]
            /\ wfd' = [wfd EXCEPT ![d] = NoInode]
            /\ UNCHANGED <<op, fd, to, rm>>
  /\ UNCHANGED <<dir, lockPath, vmVars, faults>>

\* write_state fails (the disk is full, say) before or after the truncation.
\* Every caller gives up on the operation: some with `?`, some after dropping
\* the error of a final write.  A failing create still reaps its child.
WriteFails(d) ==
  /\ pc[d] \in {"truncate", "write"}
  /\ faults < MaxFaults
  /\ faults' = faults + 1
  /\ IF AfterWrite(op[d], to[d]) = "reap"
       THEN Goto(d, "reap") /\ UNCHANGED <<op, fd, mem, to, wfd, rm>>
       ELSE Return(d)
  /\ UNCHANGED <<fsVars, vmVars>>

-----------------------------------------------------------------------------
(***************************************************************************)
(* dispatch and stop: the exchange with the helper.                        *)
(***************************************************************************)

\* PetriError::dispatch_recoverable.
Recoverable(err) == err \in {"Transport", "Guest", "Io"}

\* Mutant: a finished dispatch leaves the instance in a state of its own.
DispatchRecoveryIdle(outcome) ==
  IF outcome = "ok" \/ Recoverable(outcome) THEN "Idle" ELSE "Failed"

\* The lifecycle dispatch writes after dispatch_over_transport.
DispatchRecovery(outcome) ==
  IF outcome = "ok" \/ Recoverable(outcome) THEN "Ready" ELSE "Failed"

\* Who the request reaches: the owner of the control socket, or the loopback
\* guest itself.
Peer(d) == IF mem[d].pid \in LoopbackPid THEN mem[d].pid ELSE sock
PeerStatus(d) == IF Peer(d) = NoPid THEN "exited" ELSE helper[Peer(d)]

FinishDispatch(d, outcome) ==
  /\ to' = [to EXCEPT ![d] = DispatchRecovery(outcome)]
  /\ Goto(d, "truncate")
  /\ UNCHANGED <<op, fd, mem, wfd, rm>>

\* Mutant: a failing exchange leaves dispatch through `?`, before the record is
\* moved on from RunningDispatch.
SendDispatchUnrecovered(d) ==
  /\ pc[d] = "send"
  /\ \/ PeerStatus(d) # "ready" /\ Return(d)
     \/ PeerStatus(d) = "ready" /\ FinishDispatch(d, "ok")
  /\ UNCHANGED <<fsVars, vmVars, faults>>

\* dispatch_over_transport: connecting fails (Io over the control socket,
\* Transport over loopback), or a helper whose VM is not ready answers with an
\* error, or the frame is on its way.
SendDispatch(d) ==
  /\ pc[d] = "send"
  /\ \/ PeerStatus(d) \in Unreachable /\ FinishDispatch(d, "Io")
     \/ PeerStatus(d) \in {"starting", "stopped", "failed"} /\ FinishDispatch(d, "Guest")
     \/ /\ PeerStatus(d) = "ready"
        /\ Goto(d, "await")
        /\ UNCHANGED <<op, fd, mem, to, wfd, rm>>
  /\ UNCHANGED <<fsVars, vmVars, faults>>

\* The guest's result, an error of the helper, or a broken connection.
DispatchReturns(d) ==
  /\ pc[d] = "await"
  /\ \E outcome \in {"ok", "Guest", "Transport"} : FinishDispatch(d, outcome)
  /\ UNCHANGED <<fsVars, vmVars, faults>>

FinishStop(d, t) ==
  /\ to' = [to EXCEPT ![d] = t]
  /\ Goto(d, "truncate")
  /\ UNCHANGED <<op, fd, mem, wfd, rm>>

SetHelper(p, status) == helper' = [helper EXCEPT ![p] = status]

\* stop over the control socket.  An error of send_helper_request leaves stop
\* through `?` with the record still saying Stopping, whether or not the
\* request arrived; an answer decides between TornDown and Failed.
StopVsock(d) ==
  /\ mem[d].pid \in VzPid
  /\ \/ /\ PeerStatus(d) \in Unreachable
        /\ Return(d) /\ UNCHANGED helper
     \/ /\ PeerStatus(d) \notin Unreachable
        /\ \/ Return(d) /\ UNCHANGED helper
           \/ Return(d) /\ SetHelper(Peer(d), "stopped")
           \/ FinishStop(d, "TornDown") /\ SetHelper(Peer(d), "stopped")
           \/ FinishStop(d, "Failed") /\ UNCHANGED helper

\* stop over loopback: terminate_process.  A guest that already exited may
\* still be a zombie, which can be signalled.
StopLoopback(d) ==
  /\ mem[d].pid \in LoopbackPid
  /\ \/ /\ FinishStop(d, "TornDown")
        /\ SetHelper(mem[d].pid, "exited")
     \/ /\ helper[mem[d].pid] = "exited"
        /\ FinishStop(d, "Failed")
        /\ UNCHANGED helper

SendStop(d) ==
  /\ pc[d] = "sendstop"
  /\ StopVsock(d) \/ StopLoopback(d)
  /\ UNCHANGED <<fsVars, sock, faults>>

-----------------------------------------------------------------------------
(***************************************************************************)
(* teardown: the helper is told to stop its VM, is signalled, and the      *)
(* instance directory, lock file included, is removed.                     *)
(***************************************************************************)

Exit(p, h) == [h EXCEPT ![p] = "exited"]

\* Mutant: teardown asks the helper to stop the VM but never signals it.
KillHelperNoSignal(d) ==
  /\ pc[d] = "kill"
  /\ IF PeerStatus(d) \in {"starting", "ready", "failed"}
       THEN helper' = [helper EXCEPT ![Peer(d)] = "stopped"]
       ELSE UNCHANGED helper
  /\ Goto(d, "remove")
  /\ UNCHANGED <<fsVars, sock, op, fd, mem, to, wfd, rm, faults>>

\* The Teardown request goes to whoever owns the control socket and its outcome
\* is ignored; SIGTERM goes to the recorded pid.
KillHelper(d) ==
  /\ pc[d] = "kill"
  /\ \/ helper' = Exit(mem[d].pid, helper)
     \/ /\ mem[d].pid \in VzPid
        /\ PeerStatus(d) \in {"starting", "ready", "failed"}
        /\ helper' = Exit(mem[d].pid, [helper EXCEPT ![Peer(d)] = "stopped"])
  /\ sock' = IF sock = mem[d].pid THEN NoPid ELSE sock
  /\ Goto(d, "remove")
  /\ UNCHANGED <<fsVars, op, fd, mem, to, wfd, rm, faults>>

\* Mutant: remove_state waits for a directory that is already gone.
OpenInstanceDirRetry(d) ==
  /\ pc[d] = "remove" /\ rm[d].dir = NoInode
  /\ dir # NoInode
  /\ rm' = [rm EXCEPT ![d] = [dir |-> dir, left |-> Entries]]
  /\ UNCHANGED <<fsVars, vmVars, pc, op, fd, mem, to, wfd, faults>>

\* remove_state: remove_dir_all opens the directory; NotFound counts as done.
OpenInstanceDir(d) ==
  /\ pc[d] = "remove" /\ rm[d].dir = NoInode
  /\ IF dir = NoInode
       THEN Return(d)
       ELSE /\ rm' = [rm EXCEPT ![d] = [dir |-> dir, left |-> Entries]]
            /\ UNCHANGED <<pc, op, fd, mem, to, wfd>>
  /\ UNCHANGED <<fsVars, vmVars, faults>>

\* It unlinks the entries in directory order, whatever that is, and only those
\* of the directory it opened.
UnlinkEntry(d, e) ==
  /\ pc[d] = "remove" /\ e \in rm[d].left
  /\ rm' = [rm EXCEPT ![d].left = @ \ {e}]
  /\ json' = IF e = "json" /\ rm[d].dir = dir THEN [json EXCEPT !.ino = NoInode] ELSE json
  /\ lockPath' = IF e = "lock" /\ rm[d].dir = dir THEN NoInode ELSE lockPath
  /\ UNCHANGED <<dir, vmVars, pc, op, fd, mem, to, wfd, faults>>

\* The final rmdir goes by path: it fails, and with it the teardown, when
\* somebody has put a file back.
RemoveInstanceDir(d) ==
  /\ pc[d] = "remove" /\ rm[d].dir # NoInode /\ rm[d].left = {}
  /\ dir' = IF json.ino = NoInode /\ lockPath = NoInode THEN NoInode ELSE dir
  /\ Return(d)
  /\ UNCHANGED <<lockPath, json, vmVars, faults>>

-----------------------------------------------------------------------------
(***************************************************************************)
(* The environment.                                                        *)
(***************************************************************************)

\* The process making the call is killed.
Crash(d) ==
  /\ pc[d] # "idle"
  /\ faults < MaxFaults
  /\ faults' = faults + 1
  /\ Return(d)
  /\ UNCHANGED <<fsVars, vmVars>>

\* The guest powers itself off: guestDidStop in petri-vz.  A loopback guest is
\* a plain process and has no such event.
GuestStops(p) ==
  /\ p \in VzPid
  /\ helper[p] = "ready"
  /\ SetHelper(p, "stopped")
  /\ UNCHANGED <<fsVars, sock, callVars, faults>>

\* The helper process dies by itself.
HelperExits(p) ==
  /\ helper[p] \notin {"unused", "exited"}
  /\ SetHelper(p, "exited")
  /\ sock' = IF sock = p THEN NoPid ELSE sock
  /\ UNCHANGED <<fsVars, callVars, faults>>

-----------------------------------------------------------------------------
Step(d) ==
  \/ MakeInstanceDir(d) \/ OpenLockFile(d) \/ Flock(d)
  \/ LoadState(d) \/ TruncateState(d) \/ WriteState(d)
  \/ SendDispatch(d) \/ DispatchReturns(d) \/ SendStop(d)
  \/ KillHelper(d) \/ OpenInstanceDir(d)
  \/ \E e \in Entries : UnlinkEntry(d, e)
  \/ RemoveInstanceDir(d)

Next ==
  \/ \E d \in Driver :
       \/ \E o \in {"dispatch", "stop", "teardown"} : Call(d, o)
       \/ CallStub(d)
       \/ Step(d)
       \/ WriteFails(d)
       \/ Crash(d)
  \/ \E p \in Pid : GuestStops(p) \/ HelperExits(p)

Spec == Init /\ [][Next]_vars

\* The call has asked the helper, whose answer it reads without a timeout.
AwaitsAnswer(d) == pc[d] \in {"await", "sendstop", "kill"}

(***************************************************************************)
(* A process that is running keeps running, except that nothing makes a    *)
(* helper answer or drop the connection.  flock waiters are served in turn *)
(* by the kernel, so a waiter is not overtaken forever.                    *)
(***************************************************************************)
Fairness ==
  \A d \in Driver : WF_vars(Step(d) /\ ~AwaitsAnswer(d)) /\ SF_vars(Flock(d))

FairSpec == Spec /\ Fairness

-----------------------------------------------------------------------------
(***************************************************************************)
(* Properties.                                                             *)
(***************************************************************************)

\* The call has read a record that is not TornDown and will still rewrite it.
Active(d) == pc[d] \in {"truncate", "write", "send", "await", "sendstop"} /\ op[d] # "create"

\* Concurrent drivers serialize on the instance (#33): although teardown
\* unlinks the very lock file it holds, so that two calls can hold "the" lock at
\* once, at most one call is ever between reading a live record and its last
\* write to it.
DriversSerialize ==
  \A d, e \in Driver : Active(d) /\ Active(e) => d = e

\* No lost update: the record a call is about to overwrite is still the one it
\* read or wrote last, and only the writer itself can have torn it.
NoLostUpdate ==
  \A d \in Driver : Active(d) =>
    /\ json.ino # NoInode
    /\ json.life = mem[d].life /\ json.pid = mem[d].pid
    /\ json.torn => pc[d] = "write"

\* Without crashes or failed writes an instance nobody is working on can always
\* be torn down: no error path of dispatch or stop leaves the record unreadable
\* or in RunningDispatch (#32), from which every operation is refused.
TeardownAlwaysPossible ==
  faults = 0 /\ json.ino # NoInode /\ (\A d \in Driver : ~Active(d)) =>
    /\ ~json.torn
    /\ json.life = "TornDown" \/ CanTransition(json.life, "TornDown")

\* Without crashes or failed writes the record only disappears after the VM
\* process: once instance.json is gone nothing is left running that no later
\* call could find again.
NoLeakedVm ==
  faults = 0 /\ json.ino = NoInode => \A p \in Pid : helper[p] \in {"unused", "exited"}

\* The state file behaves as StateRecord promises, torn writes, failed writes
\* and concurrent removals included.
Record == INSTANCE StateRecord WITH life <- json.life,
                                    readable <- ~json.torn,
                                    present <- json.ino # NoInode
ImplementsStateRecord == Record!Spec

\* Every call returns: the lock is never held forever, and waiting for it ends.
\* The one exception is a helper that never answers, and blocks its caller and
\* whoever waits for the caller's lock.
CallsReturn ==
  \/ \A d \in Driver : []<>(pc[d] = "idle")
  \/ \E d \in Driver : <>[]AwaitsAnswer(d)

\* Expected by the comment on dispatch (backend.rs:639): a record says
\* RunningDispatch only while some dispatch is working on it.
NeverStranded ==
  json.ino # NoInode /\ json.life = "RunningDispatch" =>
    \E d \in Driver : Active(d) /\ op[d] = "dispatch"

\* Expected by ADR 0001 (line 84): teardown removes the guest runtime state, so
\* a removed record leaves no VM process behind.
TeardownRemovesVm ==
  json.ino = NoInode => \A p \in Pid : helper[p] \in {"unused", "exited"}

=============================================================================
