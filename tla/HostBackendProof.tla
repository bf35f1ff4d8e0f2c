--------------------------- MODULE HostBackendProof ---------------------------
(***************************************************************************)
(* Proofs about HostBackend, for any number of drivers, inodes and faults  *)
(* and for both transports.                                                *)
(*                                                                         *)
(* The argument turns on Doomed: a record that nobody can bring back to    *)
(* life.  As long as a record is not doomed, instance.lock has not been    *)
(* unlinked, everyone who has the lock file open has the same inode open,  *)
(* and the flock really excludes.  Once it is doomed the lock may split    *)
(* into several inodes with a holder each, but no holder can get past      *)
(* load_state with a record to rewrite.                                    *)
(***************************************************************************)
EXTENDS HostBackend, TLAPS

Doomed ==
  \/ json.ino = NoInode
  \/ json.life = "TornDown"
  \/ json.torn /\ \A d \in Driver : pc[d] # "write"

\* create is not part of HostBackend's Next.
NoCreate ==
  \A d \in Driver : op[d] # "create" /\ pc[d] \notin {"spawn", "wait", "reap"}

HasLockOpen(d) == pc[d] \in LockedPc \union {"flock"}

\* flock: no inode has two holders.
Exclusive ==
  \A d, e \in Driver : Locked(d) /\ Locked(e) /\ fd[d] = fd[e] => d = e

LiveLock ==
  ~Doomed => \A d \in Driver :
    /\ HasLockOpen(d) => fd[d] = lockPath /\ lockPath # NoInode
    /\ pc[d] \notin {"kill", "remove"}

DoomedIsIdle == Doomed => \A d \in Driver : ~Active(d)

\* What an active call knows about the record it is going to rewrite.
Current(d) ==
  /\ json.ino # NoInode
  /\ json.life = mem[d].life /\ json.pid = mem[d].pid
  /\ json.torn <=> pc[d] = "write"
  /\ pc[d] = "write" => wfd[d] = json.ino
  /\ pc[d] \in {"truncate", "write"} => CanTransition(mem[d].life, to[d]) /\ to[d] # "Booting"
  /\ pc[d] \in {"send", "await"} => mem[d].life = "RunningDispatch"
  /\ pc[d] = "sendstop" => mem[d].life = "Stopping"

ActiveIsCurrent == \A d \in Driver : Active(d) => Current(d)

SerialInv ==
  /\ TypeOK
  /\ NoCreate
  /\ Exclusive
  /\ LiveLock
  /\ DoomedIsIdle
  /\ ActiveIsCurrent

\* Between calls a fault-free record is readable and settled.
Settled == {"Ready", "Stopping", "Failed", "TornDown"}

SettledInv ==
  faults = 0 /\ json.ino # NoInode =>
    \/ \E d \in Driver : Active(d)
    \/ ~json.torn /\ json.life \in Settled

-----------------------------------------------------------------------------
(***************************************************************************)
(* Type correctness.                                                       *)
(***************************************************************************)

\* A returning call leaves well-typed call state behind.
LEMMA ReturnTypes ==
  ASSUME TypeOK, NEW d \in Driver, Return(d)
  PROVE  /\ pc' \in [Driver -> Pc] /\ op' \in [Driver -> Op]
         /\ fd' \in [Driver -> Inode \union {NoInode}]
         /\ mem' \in [Driver -> [life : LifecycleState, pid : Pid \union {NoPid}]]
         /\ to' \in [Driver -> LifecycleState]
         /\ wfd' \in [Driver -> Inode \union {NoInode}]
         /\ rm' \in [Driver -> [dir : Inode \union {NoInode}, left : SUBSET Entries]]
  BY DEF TypeOK, Return, Pc, LockedPc, Op, NoMem, NoRm, LifecycleState

LEMMA InitTypes == Init => TypeOK
<1> SUFFICES ASSUME Init PROVE TypeOK
  OBVIOUS
<1>1. json \in [ino : Inode \union {NoInode}, life : LifecycleState,
                pid : Pid \union {NoPid}, torn : BOOLEAN]
  BY HostAssumption, ZenonT(60) DEF Init, LifecycleState
<1>2. mem \in [Driver -> [life : LifecycleState, pid : Pid \union {NoPid}]]
  BY DEF Init, NoMem, LifecycleState
<1>3. rm \in [Driver -> [dir : Inode \union {NoInode}, left : SUBSET Entries]]
  BY DEF Init, NoRm
<1>4. faults \in 0..MaxFaults
  BY HostAssumption DEF Init
<1> QED
  BY <1>1, <1>2, <1>3, <1>4, HostAssumption
  DEF Init, TypeOK, LifecycleState, HelperStatus, Pc, Op

\* The lifecycles and control points the table-like operators yield.
LEMMA FirstTargetType == \A o \in Op : FirstTarget(o) \in LifecycleState
  BY DEF FirstTarget, Op, LifecycleState

LEMMA FirstTargetBoots == \A o \in Op \ {"create"} : FirstTarget(o) # "Booting"
  BY DEF FirstTarget, Op

LEMMA AfterWriteValue ==
  ASSUME NEW o, NEW t
  PROVE  /\ t = "RunningDispatch" => AfterWrite(o, t) = "send"
         /\ t = "Stopping" => AfterWrite(o, t) = "sendstop"
         /\ t = "TornDown" /\ o = "teardown" => AfterWrite(o, t) = "kill"
         /\ t = "Booting" => AfterWrite(o, t) = "wait"
         /\ t = "Failed" /\ o = "create" => AfterWrite(o, t) = "reap"
         /\ t \in {"Ready", "Failed", "TornDown", "Provisioning"}
            /\ ~(t = "TornDown" /\ o = "teardown") /\ ~(t = "Failed" /\ o = "create")
            => AfterWrite(o, t) = "idle"
  BY DEF AfterWrite

LEMMA AfterWriteType ==
  ASSUME NEW o, NEW t \in LifecycleState PROVE AfterWrite(o, t) \in Pc
<1>1. CASE t \in {"RunningDispatch", "Stopping", "Booting"}
  BY <1>1, AfterWriteValue DEF Pc, LockedPc
<1>2. CASE t \in {"Ready", "Failed", "TornDown", "Provisioning"}
  BY <1>2, AfterWriteValue DEF Pc, LockedPc
<1> QED
  BY <1>1, <1>2 DEF LifecycleState

\* Every step of HostBackend keeps the types.
LEMMA NextTypes == TypeOK /\ [Next]_vars => TypeOK'
<1> SUFFICES ASSUME TypeOK, [Next]_vars PROVE TypeOK'
  OBVIOUS
<1> USE DEF TypeOK, fsVars, vmVars, callVars
<1>1. ASSUME NEW d \in Driver, NEW o \in {"dispatch", "stop", "teardown"}, Call(d, o)
      PROVE  TypeOK'
  BY <1>1 DEF Call, Goto, Pc, Op
<1>2. ASSUME NEW d \in Driver, MakeInstanceDir(d) PROVE TypeOK'
  BY <1>2 DEF MakeInstanceDir, Goto, Pc, Fresh
<1>3. ASSUME NEW d \in Driver, OpenLockFile(d) PROVE TypeOK'
  <2>1. CASE dir = NoInode /\ Return(d) /\ UNCHANGED lockPath
    BY <1>3, <2>1, ReturnTypes DEF OpenLockFile
  <2>2. CASE dir # NoInode
    <3>1. lockPath' \in Inode \union {NoInode}
      BY <1>3, <2>2 DEF OpenLockFile, Fresh
    <3>2. /\ fd' = [fd EXCEPT ![d] = lockPath']
          /\ pc' = [pc EXCEPT ![d] = "flock"]
          /\ UNCHANGED <<op, mem, to, wfd, rm, dir, json, vmVars, faults>>
      BY <1>3, <2>2 DEF OpenLockFile, Goto
    <3>3. pc' \in [Driver -> Pc] /\ fd' \in [Driver -> Inode \union {NoInode}]
      BY <3>1, <3>2 DEF Pc
    <3> QED
      BY <3>1, <3>2, <3>3
  <2> QED
    BY <1>3, <2>1, <2>2 DEF OpenLockFile
<1>4. ASSUME NEW d \in Driver, Flock(d) PROVE TypeOK'
  BY <1>4 DEF Flock, Goto, Pc, LockedPc
<1>5. ASSUME NEW d \in Driver, LoadState(d) PROVE TypeOK'
  <2>1. CASE Return(d)
    BY <1>5, <2>1, ReturnTypes DEF LoadState
  <2>2. CASE ~Return(d)
    <3>1. FirstTarget(op[d]) \in LifecycleState
      BY FirstTargetType
    <3>2. json.life \in LifecycleState /\ json.pid \in Pid \union {NoPid}
      OBVIOUS
    <3> HIDE DEF TypeOK
    <3>3. UNCHANGED <<op, fd, wfd, rm>> /\ UNCHANGED <<fsVars, vmVars, faults>>
      BY <1>5, <2>2 DEF LoadState
    <3>4. mem' \in [Driver -> [life : LifecycleState, pid : Pid \union {NoPid}]]
      <4> DEFINE m == [life |-> json.life, pid |-> json.pid]
      <4>1. m \in [life : LifecycleState, pid : Pid \union {NoPid}]
        BY <3>2
      <4>2. mem' \in {mem, [mem EXCEPT ![d] = m]}
        BY <1>5, <2>2 DEF LoadState
      <4> HIDE DEF m
      <4> QED
        BY <4>1, <4>2 DEF TypeOK
    <3>5. to' \in [Driver -> LifecycleState]
      BY <1>5, <2>2, <3>1 DEF LoadState, TypeOK
    <3>6. pc' \in [Driver -> Pc]
      BY <1>5, <2>2, ZenonT(60) DEF LoadState, TypeOK, Goto, Pc, LockedPc
    <3> QED
      BY <3>3, <3>4, <3>5, <3>6 DEF TypeOK
  <2> QED
    BY <2>1, <2>2
<1>6. ASSUME NEW d \in Driver, TruncateState(d) PROVE TypeOK'
  <2>1. dir' \in Inode \union {NoInode}
    BY <1>6 DEF TruncateState, Fresh
  <2>2. json' \in [ino : Inode \union {NoInode}, life : LifecycleState,
                   pid : Pid \union {NoPid}, torn : BOOLEAN]
    <3>1. CASE json.ino # NoInode
      BY <1>6, <3>1, ZenonT(60) DEF TruncateState
    <3>2. CASE json.ino = NoInode
      <4>1. PICK i \in Inode :
              json' = [ino |-> i, life |-> mem[d].life, pid |-> mem[d].pid, torn |-> TRUE]
        BY <1>6, <3>2 DEF TruncateState
      <4>2. mem[d].life \in LifecycleState /\ mem[d].pid \in Pid \union {NoPid}
        OBVIOUS
      <4> QED
        BY <4>1, <4>2
    <3> QED
      BY <3>1, <3>2
  <2> QED
    BY <1>6, <2>1, <2>2 DEF TruncateState, Goto, Pc, LockedPc
<1>7. ASSUME NEW d \in Driver, WriteState(d) PROVE TypeOK'
  <2>1. json' \in [ino : Inode \union {NoInode}, life : LifecycleState,
                   pid : Pid \union {NoPid}, torn : BOOLEAN]
    BY <1>7, ZenonT(60) DEF WriteState, CompleteWrite
  <2>2. CASE Return(d)
    BY <1>7, <2>1, <2>2, ReturnTypes DEF WriteState
  <2>3. CASE ~Return(d)
    <3>1. AfterWrite(op[d], to[d]) \in Pc
      BY AfterWriteType
    <3>2. /\ pc' = [pc EXCEPT ![d] = AfterWrite(op[d], to[d])]
          /\ mem' = [mem EXCEPT ![d].life = to[d]]
          /\ wfd' = [wfd EXCEPT ![d] = NoInode]
          /\ UNCHANGED <<op, fd, to, rm, dir, lockPath, vmVars, faults>>
      BY <1>7, <2>3 DEF WriteState, Goto
    <3>3. pc' \in [Driver -> Pc]
      BY <3>1, <3>2
    <3>4. mem' \in [Driver -> [life : LifecycleState, pid : Pid \union {NoPid}]]
      BY <3>2, ZenonT(60)
    <3> QED
      BY <2>1, <3>2, <3>3, <3>4
  <2> QED
    BY <2>2, <2>3
<1>8. ASSUME NEW d \in Driver, SendDispatch(d) PROVE TypeOK'
  <2>1. CASE UNCHANGED <<op, fd, mem, to, wfd, rm>> /\ Goto(d, "await")
    BY <1>8, <2>1 DEF SendDispatch, Goto, Pc, LockedPc
  <2>2. CASE \E o \in {"Io", "Guest"} : FinishDispatch(d, o)
    BY <1>8, <2>2
    DEF SendDispatch, FinishDispatch, DispatchRecovery, Goto, Pc, LockedPc, LifecycleState
  <2> QED
    BY <1>8, <2>1, <2>2 DEF SendDispatch
<1>9. ASSUME NEW d \in Driver, DispatchReturns(d) PROVE TypeOK'
  BY <1>9 DEF DispatchReturns, FinishDispatch, DispatchRecovery, Goto, Pc, LockedPc, LifecycleState
<1>10. ASSUME NEW d \in Driver, SendStop(d) PROVE TypeOK'
  <2>1. helper' \in [Pid -> HelperStatus]
    BY <1>10 DEF SendStop, StopVsock, StopLoopback, SetHelper, HelperStatus
  <2>2. CASE Return(d)
    BY <1>10, <2>1, <2>2, ReturnTypes DEF SendStop
  <2>3. CASE ~Return(d)
    <3>1. \E t \in {"TornDown", "Failed"} : FinishStop(d, t)
      BY <1>10, <2>3 DEF SendStop, StopVsock, StopLoopback
    <3> QED
      BY <1>10, <2>1, <3>1
      DEF SendStop, FinishStop, Goto, Pc, LockedPc, LifecycleState
  <2> QED
    BY <2>2, <2>3
<1>11. ASSUME NEW d \in Driver, KillHelper(d) PROVE TypeOK'
  BY <1>11 DEF KillHelper, Exit, HelperStatus, Goto, Pc, LockedPc
<1>12. ASSUME NEW d \in Driver, OpenInstanceDir(d) PROVE TypeOK'
  BY <1>12, ReturnTypes DEF OpenInstanceDir
<1>13. ASSUME NEW d \in Driver, NEW e \in Entries, UnlinkEntry(d, e) PROVE TypeOK'
  BY <1>13, ZenonT(60) DEF UnlinkEntry
<1>14. ASSUME NEW d \in Driver, RemoveInstanceDir(d) PROVE TypeOK'
  BY <1>14, ReturnTypes DEF RemoveInstanceDir
<1>15. ASSUME NEW d \in Driver, WriteFails(d) PROVE TypeOK'
  <2>1. faults' \in 0..MaxFaults /\ UNCHANGED <<fsVars, vmVars>>
    BY <1>15, HostAssumption DEF WriteFails
  <2>2. CASE Return(d)
    BY <2>1, <2>2, ReturnTypes
  <2>3. CASE Goto(d, "reap") /\ UNCHANGED <<op, fd, mem, to, wfd, rm>>
    BY <2>1, <2>3 DEF Goto, Pc
  <2> QED
    BY <1>15, <2>2, <2>3 DEF WriteFails
<1>16. ASSUME NEW d \in Driver, Crash(d) PROVE TypeOK'
  BY <1>16, ReturnTypes, HostAssumption DEF Crash
<1>17. ASSUME NEW p \in Pid, GuestStops(p) \/ HelperExits(p) PROVE TypeOK'
  BY <1>17 DEF GuestStops, HelperExits, SetHelper, HelperStatus
<1>18. CASE UNCHANGED vars
  BY <1>18 DEF vars
<1> QED
  BY <1>1, <1>2, <1>3, <1>4, <1>5, <1>6, <1>7, <1>8, <1>9, <1>10, <1>11, <1>12, <1>13, <1>14, <1>15, <1>16, <1>17, <1>18 DEF Next, Step, CallStub

\* HostBackend is type-correct for every number of drivers, faults and inodes.
THEOREM TypeCorrect == Spec => []TypeOK
  BY InitTypes, NextTypes, PTL DEF Spec

-----------------------------------------------------------------------------
(***************************************************************************)
(* Serialization.  First two lemmas that cover the steps which leave       *)
(* instance.json and instance.lock alone.                                  *)
(***************************************************************************)

SerialParts == NoCreate /\ Exclusive /\ LiveLock /\ DoomedIsIdle /\ ActiveIsCurrent

\* The step is d's: every other call keeps its state.
Frame(d) ==
  \A e \in Driver \ {d} :
    /\ pc'[e] = pc[e] /\ op'[e] = op[e] /\ fd'[e] = fd[e]
    /\ mem'[e] = mem[e] /\ to'[e] = to[e] /\ wfd'[e] = wfd[e]

\* The invariant implies mutual exclusion among active calls.
LEMMA OneActive ==
  ASSUME SerialInv, NEW d \in Driver, NEW e \in Driver, Active(d), Active(e)
  PROVE  d = e
<1>1. ~Doomed
  BY DEF SerialInv, DoomedIsIdle
<1>2. Locked(d) /\ Locked(e) /\ HasLockOpen(d) /\ HasLockOpen(e)
  BY DEF Active, Locked, LockedPc, HasLockOpen
<1>3. fd[d] = lockPath /\ fd[e] = lockPath
  BY <1>1, <1>2 DEF SerialInv, LiveLock
<1> QED
  BY <1>2, <1>3 DEF SerialInv, Exclusive

\* A step of d between two control points other than "write", which leaves both
\* files alone, keeps the invariant if it meets what its new control point needs.
LEMMA QuietStep ==
  ASSUME SerialInv, NEW d \in Driver, Frame(d), UNCHANGED <<json, lockPath>>,
         op'[d] # "create", pc'[d] \notin {"spawn", "wait", "reap"},
         pc[d] # "write", pc'[d] # "write",
         HasLockOpen(d)' => HasLockOpen(d) /\ fd'[d] = fd[d],
         Locked(d)' => Locked(d) \/ \A e \in Driver : Locked(e) => fd[e] # fd[d],
         pc'[d] \in {"kill", "remove"} => Doomed,
         Active(d)' => ~Doomed /\ Current(d)'
  PROVE  SerialParts'
<1>1. Doomed' <=> Doomed
  BY DEF Doomed, Frame
<1>2. NoCreate'
  BY DEF NoCreate, SerialInv, Frame
<1>3. Exclusive'
  <2> SUFFICES ASSUME NEW a \in Driver, NEW b \in Driver,
                      Locked(a)', Locked(b)', fd'[a] = fd'[b], a # b
               PROVE  FALSE
    BY DEF Exclusive
  <2>1. \A e \in Driver : Locked(e)' => HasLockOpen(e)'
    BY DEF Locked, HasLockOpen
  <2>2. \A e \in Driver \ {d} : Locked(e)' <=> Locked(e)
    BY DEF Locked, Frame
  <2> QED
    BY <2>1, <2>2 DEF SerialInv, Exclusive, Frame
<1>4. LiveLock'
  BY <1>1 DEF LiveLock, SerialInv, HasLockOpen, Frame
<1>5. DoomedIsIdle'
  BY <1>1 DEF DoomedIsIdle, SerialInv, Active, Frame
<1>6. ActiveIsCurrent'
  <2> SUFFICES ASSUME NEW e \in Driver, Active(e)' PROVE Current(e)'
    BY DEF ActiveIsCurrent
  <2>1. CASE e = d
    BY <2>1
  <2>2. CASE e # d
    <3>1. /\ pc'[e] = pc[e] /\ op'[e] = op[e] /\ mem'[e] = mem[e]
          /\ to'[e] = to[e] /\ wfd'[e] = wfd[e] /\ json' = json
      BY <2>2 DEF Frame
    <3>2. Active(e)
      BY <3>1 DEF Active
    <3>3. Current(e)
      BY <3>2 DEF SerialInv, ActiveIsCurrent
    <3> QED
      BY <3>1, <3>3 DEF Current
  <2> QED
    BY <2>1, <2>2
<1> QED
  BY <1>2, <1>3, <1>4, <1>5, <1>6 DEF SerialParts

\* So does the end of a call, whatever it was doing: a writer that gives up
\* dooms the record, but was the only active call.
LEMMA ReturnStep ==
  ASSUME SerialInv, NEW d \in Driver, Return(d), UNCHANGED <<json, lockPath>>
  PROVE  SerialParts'
<1>1. pc'[d] = "idle" /\ op'[d] = "dispatch"
  BY DEF Return, SerialInv, TypeOK
<1>2. Frame(d)
  BY DEF Return, Frame, SerialInv, TypeOK
<1>3. CASE pc[d] # "write"
  BY <1>1, <1>2, <1>3, QuietStep DEF HasLockOpen, Locked, LockedPc, Active
<1>4. CASE pc[d] = "write"
  <2>1. Active(d)
    BY <1>4 DEF Active, SerialInv, NoCreate
  <2>2. \A e \in Driver : ~Active(e)'
    BY <1>1, <1>2, <2>1, OneActive DEF Frame, Active
  <2>3. ~Doomed
    BY <2>1 DEF SerialInv, DoomedIsIdle
  <2>4. Doomed'
    <3>1. json.torn
      BY <1>4, <2>1 DEF SerialInv, ActiveIsCurrent, Current
    <3>2. \A e \in Driver : pc'[e] # "write"
      BY <1>1, <1>2, <2>2 DEF Active, SerialInv, NoCreate, Frame
    <3> QED
      BY <3>1, <3>2 DEF Doomed
  <2>5. NoCreate'
    BY <1>1, <1>2 DEF NoCreate, SerialInv, Frame
  <2>6. Exclusive'
    BY <1>1, <1>2 DEF Exclusive, Locked, LockedPc, SerialInv, Frame
  <2> QED
    BY <2>2, <2>4, <2>5, <2>6 DEF SerialParts, LiveLock, DoomedIsIdle, ActiveIsCurrent
<1> QED
  BY <1>3, <1>4

LEMMA InitSerial == Init => SerialInv
<1> SUFFICES ASSUME Init PROVE SerialInv
  OBVIOUS
<1>1. TypeOK
  BY InitTypes
<1>2. ~Doomed
  BY HostAssumption, ZenonT(60) DEF Init, Doomed
<1>3. \A d \in Driver : pc[d] = "idle" /\ op[d] = "dispatch"
  BY DEF Init
<1>4. \A d \in Driver : ~Active(d) /\ ~Locked(d) /\ ~HasLockOpen(d)
  BY <1>3 DEF Active, Locked, HasLockOpen, LockedPc
<1> QED
  BY <1>1, <1>2, <1>3, <1>4
  DEF SerialInv, NoCreate, Exclusive, LiveLock, DoomedIsIdle, ActiveIsCurrent

\* Opening instance.lock, or creating it when nobody has it open.
LEMMA OpenStep ==
  ASSUME SerialInv, NEW d \in Driver, OpenLockFile(d)
  PROVE  SerialParts'
<1>1. CASE dir = NoInode
  BY <1>1, ReturnStep DEF OpenLockFile, SerialInv
<1>2. CASE dir # NoInode
  <2>1. /\ pc' = [pc EXCEPT ![d] = "flock"]
        /\ fd' = [fd EXCEPT ![d] = lockPath']
        /\ lockPath' # NoInode
        /\ lockPath # NoInode => lockPath' = lockPath
        /\ UNCHANGED <<op, mem, to, wfd, json>>
    BY <1>2, HostAssumption DEF OpenLockFile, Goto, Fresh
  <2>2. pc[d] = "open" /\ pc'[d] = "flock" /\ fd'[d] = lockPath'
    BY <2>1 DEF OpenLockFile, SerialInv, TypeOK
  <2>3. Frame(d)
    BY <2>1 DEF Frame, SerialInv, TypeOK
  <2>4. Doomed' <=> Doomed
    BY <2>1, <2>2, <2>3 DEF Doomed, Frame
  <2>5. NoCreate'
    BY <2>1, <2>2, <2>3 DEF NoCreate, SerialInv, Frame
  <2>6. Exclusive'
    BY <2>1, <2>2, <2>3 DEF Exclusive, Locked, LockedPc, SerialInv, Frame
  <2>7. LiveLock'
    BY <2>1, <2>2, <2>3, <2>4 DEF LiveLock, HasLockOpen, SerialInv, Frame
  <2>8. DoomedIsIdle'
    BY <2>1, <2>2, <2>3, <2>4 DEF DoomedIsIdle, Active, SerialInv, Frame
  <2>9. ActiveIsCurrent'
    BY <2>1, <2>2, <2>3 DEF ActiveIsCurrent, Active, Current, SerialInv, Frame
  <2> QED
    BY <2>5, <2>6, <2>7, <2>8, <2>9 DEF SerialParts
<1> QED
  BY <1>1, <1>2

\* load_state under the lock: whoever gets a record it may change has found one
\* that is not doomed, and whoever gives up on it has found a doomed one.
LEMMA LoadStep ==
  ASSUME SerialInv, NEW d \in Driver, LoadState(d)
  PROVE  SerialParts'
<1>1. CASE Return(d)
  BY <1>1, ReturnStep DEF LoadState, fsVars
<1>2. CASE ~Return(d)
  <2>1. UNCHANGED <<json, lockPath, op, fd, wfd>> /\ pc[d] = "load"
    BY <1>2 DEF LoadState, fsVars
  <2>2. Frame(d) /\ pc'[d] \in {"truncate", "kill", "remove"}
    BY <1>2 DEF LoadState, fsVars, Goto, Frame, SerialInv, TypeOK
  <2>3. pc'[d] \in {"kill", "remove"} => Doomed
    <3>1. pc'[d] = "kill" => json.life = "TornDown"
      BY <1>2 DEF LoadState, Goto, SerialInv, TypeOK
    <3>2. pc'[d] = "remove" => json.ino = NoInode \/ json.torn
      BY <1>2 DEF LoadState, Goto, Readable, SerialInv, TypeOK
    <3>3. ASSUME ~Doomed, NEW e \in Driver, pc[e] = "write" PROVE FALSE
      <4>1. Locked(d) /\ Locked(e) /\ HasLockOpen(d) /\ HasLockOpen(e)
        BY <2>1, <3>3 DEF Locked, HasLockOpen, LockedPc, SerialInv, NoCreate
      <4> QED
        BY <2>1, <3>3, <4>1 DEF SerialInv, LiveLock, Exclusive
    <3> QED
      BY <3>1, <3>2, <3>3 DEF Doomed
  <2>4. pc'[d] = "truncate" => ~Doomed /\ Current(d)'
    <3> SUFFICES ASSUME pc'[d] = "truncate" PROVE ~Doomed /\ Current(d)'
      OBVIOUS
    <3>1. /\ Readable /\ CanTransition(json.life, FirstTarget(op[d]))
          /\ mem'[d] = [life |-> json.life, pid |-> json.pid]
          /\ to'[d] = FirstTarget(op[d])
      BY <1>2 DEF LoadState, Goto, SerialInv, TypeOK
    <3>2. json.life # "TornDown"
      BY <3>1 DEF CanTransition
    <3>3. to'[d] # "Booting"
      <4>1. op[d] \in Op \ {"create"}
        BY DEF SerialInv, TypeOK, NoCreate
      <4> QED
        BY <3>1, <4>1, FirstTargetBoots, ZenonT(60)
    <3> QED
      BY <2>1, <3>1, <3>2, <3>3 DEF Doomed, Readable, Current
  <2> QED
    BY <2>1, <2>2, <2>3, <2>4, QuietStep
    DEF HasLockOpen, Locked, LockedPc, Active, SerialInv, NoCreate
<1> QED
  BY <1>1, <1>2

\* write_state's truncation by the one active call.
LEMMA TruncateStep ==
  ASSUME SerialInv, NEW d \in Driver, TruncateState(d)
  PROVE  SerialParts'
<1>1. Active(d) /\ Current(d) /\ ~Doomed /\ pc[d] = "truncate"
  BY DEF TruncateState, Active, SerialInv, NoCreate, ActiveIsCurrent, DoomedIsIdle
<1>2. \A e \in Driver \ {d} : ~Active(e)
  BY <1>1, OneActive
<1>3. /\ json' = [json EXCEPT !.torn = TRUE]
      /\ wfd' = [wfd EXCEPT ![d] = json'.ino]
      /\ pc' = [pc EXCEPT ![d] = "write"]
      /\ UNCHANGED <<lockPath, op, fd, mem, to>>
  BY <1>1 DEF TruncateState, Goto, Current
<1>4. Frame(d) /\ pc'[d] = "write" /\ wfd'[d] = json'.ino
  BY <1>3 DEF Frame, SerialInv, TypeOK
<1>5. json'.ino = json.ino /\ json'.life = json.life /\ json'.pid = json.pid /\ json'.torn
  BY <1>3 DEF SerialInv, TypeOK
<1>6. ~Doomed'
  BY <1>1, <1>4, <1>5 DEF Doomed
<1>7. NoCreate'
  BY <1>3, <1>4 DEF NoCreate, SerialInv, Frame
<1>8. Exclusive'
  BY <1>1, <1>3, <1>4 DEF Exclusive, Locked, LockedPc, SerialInv, Frame
<1>9. LiveLock'
  BY <1>1, <1>3, <1>4 DEF LiveLock, HasLockOpen, LockedPc, SerialInv, Frame
<1>10. DoomedIsIdle'
  BY <1>6 DEF DoomedIsIdle
<1>11. Current(d)'
  BY <1>1, <1>3, <1>4, <1>5 DEF Current
<1>12. ActiveIsCurrent'
  BY <1>2, <1>3, <1>4, <1>11 DEF ActiveIsCurrent, Active, Frame
<1> QED
  BY <1>7, <1>8, <1>9, <1>10, <1>12 DEF SerialParts

\* What completing a write does to the record: it is the writer's, in place.
LEMMA WriteEffect ==
  ASSUME SerialInv, NEW d \in Driver, WriteState(d)
  PROVE  /\ Active(d) /\ Current(d) /\ ~Doomed /\ pc[d] = "write" /\ json.torn
         /\ json'.ino = json.ino /\ json'.life = to[d] /\ json'.pid = mem[d].pid
         /\ json'.torn = FALSE
<1>1. Active(d) /\ pc[d] = "write"
  BY DEF WriteState, Active, SerialInv, NoCreate
<1>2. Current(d) /\ ~Doomed
  BY <1>1 DEF SerialInv, ActiveIsCurrent, DoomedIsIdle
<1>3. json.torn /\ json.ino = wfd[d]
  BY <1>1, <1>2 DEF Current
<1>4. json' = [json EXCEPT !.life = to[d], !.pid = mem[d].pid, !.torn = FALSE]
  BY <1>3, ZenonT(60) DEF WriteState, CompleteWrite
<1> QED
  BY <1>1, <1>2, <1>3, <1>4 DEF SerialInv, TypeOK

\* The writer either stays active with the record it wrote, or ends, or, having
\* written TornDown, goes on to remove a doomed record.
LEMMA WriteStep ==
  ASSUME SerialInv, NEW d \in Driver, WriteState(d)
  PROVE  SerialParts'
<1>1. /\ Active(d) /\ Current(d) /\ ~Doomed /\ pc[d] = "write"
      /\ json'.ino = json.ino /\ json'.life = to[d] /\ json'.pid = mem[d].pid
      /\ json'.torn = FALSE
  BY WriteEffect, ZenonT(60)
<1>2. \A e \in Driver \ {d} : ~Active(e)
  BY <1>1, OneActive
<1>3. /\ op[d] \in {"dispatch", "stop", "teardown"}
      /\ to[d] \in LifecycleState \ {"Booting", "Provisioning"}
  BY <1>1 DEF SerialInv, TypeOK, NoCreate, Op, Current, CanTransition
<1>4. UNCHANGED lockPath
  BY DEF WriteState
<1>5. json'.ino # NoInode
  BY <1>1, ZenonT(60) DEF Current
<1>6. CASE AfterWrite(op[d], to[d]) = "idle"
  <2>1. Return(d)
    BY <1>6 DEF WriteState
  <2>2. pc'[d] = "idle" /\ op'[d] = "dispatch" /\ Frame(d)
    BY <2>1 DEF Return, Frame, SerialInv, TypeOK
  <2>3. \A e \in Driver : ~Active(e)'
    BY <1>2, <2>2 DEF Active, Frame
  <2>4. NoCreate'
    BY <2>2 DEF NoCreate, SerialInv, Frame
  <2>5. Exclusive'
    BY <2>2 DEF Exclusive, Locked, LockedPc, SerialInv, Frame
  <2>6. LiveLock'
    BY <1>1, <1>4, <2>2 DEF LiveLock, HasLockOpen, LockedPc, SerialInv, Frame
  <2> QED
    BY <2>3, <2>4, <2>5, <2>6 DEF SerialParts, DoomedIsIdle, ActiveIsCurrent
<1>7. CASE AfterWrite(op[d], to[d]) # "idle"
  <2>1. /\ pc' = [pc EXCEPT ![d] = AfterWrite(op[d], to[d])]
        /\ mem' = [mem EXCEPT ![d].life = to[d]]
        /\ wfd' = [wfd EXCEPT ![d] = NoInode]
        /\ UNCHANGED <<op, fd, to>>
    BY <1>7 DEF WriteState, Goto
  <2>2. /\ pc'[d] = AfterWrite(op[d], to[d])
        /\ mem'[d].life = to[d] /\ mem'[d].pid = mem[d].pid /\ Frame(d)
    BY <2>1 DEF Frame, SerialInv, TypeOK
  <2>3. \/ to[d] = "RunningDispatch" /\ pc'[d] = "send"
        \/ to[d] = "Stopping" /\ pc'[d] = "sendstop"
        \/ to[d] = "TornDown" /\ pc'[d] = "kill"
    <3>1. to[d] \in {"RunningDispatch", "Stopping", "TornDown", "Ready", "Failed"}
      BY <1>3 DEF LifecycleState
    <3>2. to[d] \notin {"Ready", "Failed"}
      BY <1>3, <1>7, AfterWriteValue
    <3>3. to[d] = "TornDown" => op[d] = "teardown"
      BY <1>7, AfterWriteValue
    <3> QED
      BY <2>2, <3>1, <3>2, <3>3, AfterWriteValue
  <2>4. Doomed' <=> to[d] = "TornDown"
    BY <1>1, <1>5 DEF Doomed
  <2>5. NoCreate'
    BY <2>1, <2>2, <2>3 DEF NoCreate, SerialInv, Frame
  <2>6. Exclusive'
    BY <1>1, <2>1, <2>2, <2>3 DEF Exclusive, Locked, LockedPc, SerialInv, Frame
  <2>7. LiveLock'
    BY <1>1, <1>4, <2>1, <2>2, <2>3, <2>4
    DEF LiveLock, HasLockOpen, LockedPc, SerialInv, Frame
  <2>8. DoomedIsIdle'
    BY <1>2, <2>2, <2>3, <2>4 DEF DoomedIsIdle, Active, Frame
  <2>9. to[d] # "TornDown" => Current(d)'
    BY <1>1, <1>5, <2>2, <2>3 DEF Current
  <2>10. ActiveIsCurrent'
    BY <1>2, <2>2, <2>3, <2>9 DEF ActiveIsCurrent, Active, Frame
  <2> QED
    BY <2>5, <2>6, <2>7, <2>8, <2>10 DEF SerialParts
<1> QED
  BY <1>6, <1>7

\* The exchange with the helper: its end puts a legal target into `to`.
LEMMA FinishStep ==
  ASSUME SerialInv, NEW d \in Driver, UNCHANGED <<json, lockPath, op, fd, mem, wfd>>,
         pc[d] \in {"send", "await", "sendstop"}, NEW t \in LifecycleState,
         pc[d] \in {"send", "await"} => t \in {"Ready", "Failed"},
         pc[d] = "sendstop" => t \in {"TornDown", "Failed"},
         pc' = [pc EXCEPT ![d] = "truncate"], to' = [to EXCEPT ![d] = t]
  PROVE  SerialParts'
<1>1. Active(d) /\ Current(d) /\ ~Doomed
  BY DEF Active, SerialInv, NoCreate, ActiveIsCurrent, DoomedIsIdle
<1>2. Frame(d) /\ pc'[d] = "truncate" /\ to'[d] = t
  BY DEF Frame, SerialInv, TypeOK
<1>3. Current(d)'
  BY <1>1, <1>2, ZenonT(60) DEF Current, CanTransition
<1> QED
  BY <1>1, <1>2, <1>3, QuietStep
  DEF HasLockOpen, Locked, LockedPc, SerialInv, NoCreate

LEMMA SendDispatchStep ==
  ASSUME SerialInv, NEW d \in Driver, SendDispatch(d)
  PROVE  SerialParts'
<1>1. CASE UNCHANGED <<op, fd, mem, to, wfd>> /\ pc' = [pc EXCEPT ![d] = "await"]
  <2>1. UNCHANGED <<json, lockPath>>
    BY DEF SendDispatch, fsVars
  <2> QED
    BY <1>1, <2>1, QuietStep
    DEF SendDispatch, Frame, HasLockOpen, Locked, LockedPc, SerialInv, TypeOK,
        NoCreate, Active, DoomedIsIdle, ActiveIsCurrent, Current
<1>2. CASE \E o \in {"Io", "Guest"} : FinishDispatch(d, o)
  BY <1>2, FinishStep, ZenonT(60)
  DEF SendDispatch, FinishDispatch, DispatchRecovery, Goto, fsVars, LifecycleState
<1> QED
  BY <1>1, <1>2 DEF SendDispatch, Goto

LEMMA DispatchReturnsStep ==
  ASSUME SerialInv, NEW d \in Driver, DispatchReturns(d)
  PROVE  SerialParts'
  BY FinishStep, ZenonT(60)
  DEF DispatchReturns, FinishDispatch, DispatchRecovery, Goto, fsVars, LifecycleState

LEMMA SendStopStep ==
  ASSUME SerialInv, NEW d \in Driver, SendStop(d)
  PROVE  SerialParts'
<1>1. UNCHANGED <<json, lockPath>> /\ pc[d] = "sendstop"
  BY DEF SendStop, fsVars
<1>2. Return(d) \/ \E t \in {"TornDown", "Failed"} : FinishStop(d, t)
  BY DEF SendStop, StopVsock, StopLoopback
<1> QED
  BY <1>1, <1>2, ReturnStep, FinishStep DEF FinishStop, Goto, LifecycleState

\* remove_dir_all only ever unlinks the entries of a doomed record.
LEMMA UnlinkStep ==
  ASSUME SerialInv, NEW d \in Driver, NEW x \in Entries, UnlinkEntry(d, x)
  PROVE  SerialParts'
<1>1. Doomed
  BY DEF UnlinkEntry, SerialInv, LiveLock
<1>2. UNCHANGED <<pc, op, fd, mem, to, wfd>>
  BY DEF UnlinkEntry
<1>3. json' = json \/ json' = [json EXCEPT !.ino = NoInode]
  BY DEF UnlinkEntry
<1>4. Doomed'
  BY <1>1, <1>2, <1>3 DEF Doomed, SerialInv, TypeOK
<1> QED
  BY <1>1, <1>2, <1>4
  DEF SerialParts, SerialInv, NoCreate, Exclusive, Locked, LiveLock, DoomedIsIdle,
      Active, ActiveIsCurrent

\* The remaining steps of a driver move between inactive control points.
LEMMA PlainStep ==
  ASSUME SerialInv, NEW d \in Driver,
         \/ \E o \in {"dispatch", "stop", "teardown"} : Call(d, o)
         \/ MakeInstanceDir(d) \/ Flock(d) \/ KillHelper(d)
         \/ OpenInstanceDir(d) \/ RemoveInstanceDir(d) \/ WriteFails(d) \/ Crash(d)
  PROVE  SerialParts'
<1>1. UNCHANGED <<json, lockPath>>
  BY ZenonT(60) DEF Call, MakeInstanceDir, Flock, KillHelper, OpenInstanceDir, RemoveInstanceDir,
         WriteFails, Crash, fsVars
<1>2. CASE Return(d)
  BY <1>1, <1>2, ReturnStep
<1>3. CASE \E o \in {"dispatch", "stop", "teardown"} : Call(d, o)
  BY <1>1, <1>3, QuietStep
  DEF Call, Goto, Frame, HasLockOpen, Locked, LockedPc, Active, SerialInv, TypeOK
<1>4. CASE MakeInstanceDir(d)
  BY <1>1, <1>4, QuietStep
  DEF MakeInstanceDir, Goto, Frame, HasLockOpen, Locked, LockedPc, Active, SerialInv,
      TypeOK, NoCreate
<1>5. CASE Flock(d)
  BY <1>1, <1>5, QuietStep
  DEF Flock, Goto, Frame, HasLockOpen, Locked, LockedPc, Active, SerialInv,
      TypeOK, NoCreate
<1>6. CASE KillHelper(d)
  BY <1>1, <1>6, QuietStep
  DEF KillHelper, Goto, Frame, HasLockOpen, Locked, LockedPc, Active, SerialInv,
      TypeOK, NoCreate, LiveLock
<1>7. CASE OpenInstanceDir(d) /\ ~Return(d)
  <2>1. UNCHANGED <<pc, op, fd, mem, to, wfd>>
    BY <1>7 DEF OpenInstanceDir
  <2> QED
    BY <1>1, <2>1
    DEF SerialParts, SerialInv, NoCreate, Exclusive, Locked, HasLockOpen, LiveLock,
        DoomedIsIdle, Active, ActiveIsCurrent, Current, Doomed
<1>8. CASE WriteFails(d)
  <2>1. AfterWrite(op[d], to[d]) # "reap"
    BY AfterWriteValue DEF SerialInv, NoCreate, TypeOK, LifecycleState
  <2> QED
    BY <1>2, <1>8, <2>1, ZenonT(60) DEF WriteFails
<1> QED
  BY <1>2, <1>3, <1>4, <1>5, <1>6, <1>7, <1>8 DEF RemoveInstanceDir, Crash

\* SerialInv is inductive.
LEMMA NextSerial == SerialInv /\ [Next]_vars => SerialInv'
<1> SUFFICES ASSUME SerialInv, [Next]_vars PROVE SerialInv'
  OBVIOUS
<1>1. TypeOK'
  BY NextTypes DEF SerialInv
<1>2. UNCHANGED <<json, lockPath, pc, op, fd, mem, to, wfd>> => SerialParts'
  <2> SUFFICES ASSUME UNCHANGED <<json, lockPath, pc, op, fd, mem, to, wfd>>
               PROVE  SerialParts'
    OBVIOUS
  <2>1. (Doomed' <=> Doomed) /\ \A e \in Driver : Current(e)' <=> Current(e)
    BY DEF Doomed, Current
  <2>2. NoCreate' /\ DoomedIsIdle'
    BY <2>1 DEF SerialInv, NoCreate, DoomedIsIdle, Active
  <2>3. Exclusive' /\ LiveLock'
    BY <2>1 DEF SerialInv, Exclusive, Locked, HasLockOpen, LiveLock
  <2>4. ActiveIsCurrent'
    BY <2>1 DEF SerialInv, ActiveIsCurrent, Active
  <2> QED
    BY <2>2, <2>3, <2>4 DEF SerialParts
<1>3. SerialParts'
  <2>1. ASSUME NEW d \in Driver, Step(d) PROVE SerialParts'
    BY <2>1, OpenStep, LoadStep, TruncateStep, WriteStep, SendDispatchStep,
       DispatchReturnsStep, SendStopStep, UnlinkStep, PlainStep DEF Step
  <2>2. CASE (\E p \in Pid : GuestStops(p) \/ HelperExits(p))
             \/ (\E d \in Driver : CallStub(d)) \/ UNCHANGED vars
    BY <1>2, <2>2 DEF GuestStops, HelperExits, CallStub, vars, fsVars, callVars
  <2> QED
    BY <2>1, <2>2, PlainStep DEF Next
<1> QED
  BY <1>1, <1>3 DEF SerialParts, SerialInv

LEMMA SpecSerial == Spec => []SerialInv
  BY InitSerial, NextSerial, PTL DEF Spec

\* Concurrent drivers serialize on an instance, although teardown unlinks the
\* lock it holds: for any number of drivers, crashes and failed writes, at most
\* one call is between reading a live record and its last write to it.
THEOREM Serialization == Spec => []DriversSerialize
<1>1. SerialInv => DriversSerialize
  BY OneActive DEF DriversSerialize
<1> QED
  BY <1>1, SpecSerial, PTL

\* No lost update: what a call read under the lock is still what the file says
\* when it writes.
THEOREM NoUpdateIsLost == Spec => []NoLostUpdate
<1>1. SerialInv => NoLostUpdate
  BY DEF SerialInv, ActiveIsCurrent, Current, NoLostUpdate
<1> QED
  BY <1>1, SpecSerial, PTL

-----------------------------------------------------------------------------
(***************************************************************************)
(* Refinement: instance.json implements StateRecord.  Truncations and      *)
(* completed writes are those of the one active call, which has checked    *)
(* the transition, and only doomed records are unlinked.                   *)
(***************************************************************************)

LEMMA RecordInit == Init => Record!Init
  BY HostAssumption, ZenonT(60) DEF Init, Record!Init

LEMMA RecordTruncates ==
  ASSUME SerialInv, NEW d \in Driver, TruncateState(d)
  PROVE  Record!Truncate
<1>1. Current(d) /\ pc[d] = "truncate"
  BY DEF TruncateState, Active, SerialInv, NoCreate, ActiveIsCurrent
<1>2. json' = [json EXCEPT !.torn = TRUE]
  BY <1>1 DEF TruncateState, Current
<1>3. CanTransition(json.life, to[d]) /\ to[d] \in LifecycleState
  BY <1>1 DEF Current, SerialInv, TypeOK
<1> QED
  BY <1>1, <1>2, <1>3
  DEF Record!Truncate, Record!CanTransition, Record!LifecycleState, CanTransition,
      LifecycleState, Current, SerialInv, TypeOK

LEMMA RecordMoves ==
  ASSUME SerialInv, NEW d \in Driver, WriteState(d)
  PROVE  Record!MoveTo(to[d])
<1>1. /\ Current(d) /\ pc[d] = "write" /\ json.torn
      /\ json'.ino = json.ino /\ json'.life = to[d] /\ json'.torn = FALSE
  BY WriteEffect, ZenonT(60)
<1> QED
  BY <1>1 DEF Record!MoveTo, Record!CanTransition, CanTransition, Current

LEMMA RecordIsRemoved ==
  ASSUME SerialInv, NEW d \in Driver, NEW x \in Entries, UnlinkEntry(d, x)
  PROVE  Record!Remove \/ UNCHANGED json
<1>1. Doomed
  BY DEF UnlinkEntry, SerialInv, LiveLock
<1>2. json' = json \/ json' = [json EXCEPT !.ino = NoInode]
  BY DEF UnlinkEntry
<1>3. CASE json.ino = NoInode
  BY <1>2, <1>3 DEF SerialInv, TypeOK
<1>4. CASE json.ino # NoInode
  BY <1>1, <1>2, <1>4 DEF Record!Remove, Doomed, SerialInv, TypeOK
<1> QED
  BY <1>3, <1>4

\* Every step of HostBackend is a step of StateRecord or leaves it alone.
LEMMA RecordStep == SerialInv /\ [Next]_vars => [Record!Next]_(Record!recordVars)
<1> SUFFICES ASSUME SerialInv, [Next]_vars
             PROVE  Record!Next \/ UNCHANGED json
  BY DEF Record!recordVars
<1>1. ASSUME NEW d \in Driver, TruncateState(d) PROVE Record!Next
  BY <1>1, RecordTruncates DEF Record!Next
<1>2. ASSUME NEW d \in Driver, WriteState(d) PROVE Record!Next
  <2>1. Record!MoveTo(to[d])
    BY <1>2, RecordMoves
  <2>2. to[d] \in Record!LifecycleState
    BY DEF Record!LifecycleState, LifecycleState, SerialInv, TypeOK
  <2> QED
    BY <2>1, <2>2 DEF Record!Next
<1>3. ASSUME NEW d \in Driver, NEW x \in Entries, UnlinkEntry(d, x)
      PROVE  Record!Next \/ UNCHANGED json
  BY <1>3, RecordIsRemoved DEF Record!Next
<1>4. ASSUME NEW d \in Driver, Step(d) PROVE Record!Next \/ UNCHANGED json
  BY <1>1, <1>2, <1>3, <1>4, ZenonT(60)
  DEF Step, MakeInstanceDir, OpenLockFile, Flock, LoadState, SendDispatch,
      DispatchReturns, SendStop, KillHelper, OpenInstanceDir, RemoveInstanceDir, fsVars
<1> QED
  BY <1>4 DEF Next, Call, CallStub, WriteFails, Crash, GuestStops, HelperExits, vars, fsVars

\* The state file implements its abstract specification: legal transitions only,
\* TornDown final, removal only of records nobody can use, no resurrection.
THEOREM RecordRefinement == Spec => ImplementsStateRecord
  BY RecordInit, RecordStep, SpecSerial, PTL DEF Spec, ImplementsStateRecord, Record!Spec

-----------------------------------------------------------------------------
(***************************************************************************)
(* Without faults the record settles between calls.                        *)
(***************************************************************************)

\* A step that keeps the record, and under which d stays active if it was.
LEMMA SettledFrame ==
  ASSUME SerialInv, SettledInv, NEW d \in Driver, Frame(d), UNCHANGED <<json, faults>>,
         Active(d) => Active(d)' \/ (~json.torn /\ json.life \in Settled)
  PROVE  SettledInv'
<1>1. \A e \in Driver \ {d} : Active(e)' <=> Active(e)
  BY DEF Active, Frame
<1> QED
  BY <1>1 DEF SettledInv

LEMMA NextSettled == SerialInv /\ SettledInv /\ [Next]_vars => SettledInv'
<1> SUFFICES ASSUME SerialInv, SettledInv, [Next]_vars PROVE SettledInv'
  OBVIOUS
<1> USE DEF fsVars, vmVars, callVars
<1>1. ASSUME NEW d \in Driver, Return(d), ~Active(d), UNCHANGED <<json, faults>>
      PROVE  SettledInv'
  BY <1>1, SettledFrame DEF Return, Frame, SerialInv, TypeOK
<1>2. ASSUME NEW d \in Driver, NEW o \in {"dispatch", "stop", "teardown"}, Call(d, o)
      PROVE  SettledInv'
  BY <1>2, SettledFrame, ZenonT(60) DEF Call, Goto, Frame, Active, SerialInv, TypeOK
<1>3. ASSUME NEW d \in Driver, MakeInstanceDir(d) \/ Flock(d) \/ KillHelper(d)
      PROVE  SettledInv'
  BY <1>3, SettledFrame, ZenonT(60)
  DEF MakeInstanceDir, Flock, KillHelper, Goto, Frame, Active, SerialInv, TypeOK
<1>4. ASSUME NEW d \in Driver, OpenLockFile(d) PROVE SettledInv'
  <2>1. CASE ~Return(d)
    <3>1. Frame(d)
      BY <1>4, <2>1 DEF OpenLockFile, Goto, Frame, SerialInv, TypeOK
    <3> QED
      BY <1>4, <2>1, <3>1, SettledFrame, ZenonT(60) DEF OpenLockFile, Active
  <2> QED
    BY <1>1, <1>4, <2>1, ZenonT(60) DEF OpenLockFile, Active
<1>5. ASSUME NEW d \in Driver, LoadState(d) PROVE SettledInv'
  <2>1. CASE ~Return(d)
    <3>1. Frame(d)
      BY <1>5, <2>1 DEF LoadState, Goto, Frame, SerialInv, TypeOK
    <3> QED
      BY <1>5, <2>1, <3>1, SettledFrame DEF LoadState, Active
  <2> QED
    BY <1>1, <1>5, <2>1 DEF LoadState, Active
<1>6. ASSUME NEW d \in Driver, TruncateState(d) PROVE SettledInv'
  <2>1. Active(d)'
    BY <1>6 DEF TruncateState, Goto, Active, SerialInv, NoCreate, TypeOK
  <2> QED
    BY <2>1 DEF SettledInv
<1>7. ASSUME NEW d \in Driver, WriteState(d) PROVE SettledInv'
  <2>1. json'.life = to[d] /\ json'.torn = FALSE /\ Current(d) /\ pc[d] = "write"
    BY <1>7, WriteEffect, ZenonT(60)
  <2>2. to[d] \in Settled \/ to[d] = "RunningDispatch"
    BY <2>1 DEF Current, CanTransition, Settled
  <2>3. CASE to[d] \in Settled
    BY <2>1, <2>3 DEF SettledInv
  <2>4. CASE to[d] = "RunningDispatch"
    <3>1. AfterWrite(op[d], to[d]) = "send"
      BY <2>4, AfterWriteValue
    <3>2. Active(d)'
      BY <1>7, <3>1 DEF WriteState, Goto, Active, SerialInv, NoCreate, TypeOK
    <3> QED
      BY <3>2 DEF SettledInv
  <2> QED
    BY <2>2, <2>3, <2>4
<1>8. ASSUME NEW d \in Driver, SendDispatch(d) \/ DispatchReturns(d) PROVE SettledInv'
  <2>1. Active(d)'
    BY <1>8 DEF SendDispatch, DispatchReturns, FinishDispatch, Goto, Active, SerialInv,
                NoCreate, TypeOK
  <2> QED
    BY <2>1 DEF SettledInv
<1>9. ASSUME NEW d \in Driver, SendStop(d) PROVE SettledInv'
  <2>1. Active(d) /\ Current(d) /\ pc[d] = "sendstop"
    BY <1>9 DEF SendStop, Active, SerialInv, NoCreate, ActiveIsCurrent
  <2>2. ~json.torn /\ json.life = "Stopping" /\ UNCHANGED json
    BY <1>9, <2>1 DEF Current, SendStop
  <2> QED
    BY <2>2 DEF SettledInv, Settled
<1>10. ASSUME NEW d \in Driver, OpenInstanceDir(d) \/ RemoveInstanceDir(d) PROVE SettledInv'
  <2>1. UNCHANGED <<json, faults>> /\ ~Active(d)
    BY <1>10 DEF OpenInstanceDir, RemoveInstanceDir, Active
  <2>2. Return(d) \/ UNCHANGED <<pc, op>>
    BY <1>10 DEF OpenInstanceDir, RemoveInstanceDir
  <2> QED
    BY <1>1, <2>1, <2>2 DEF SettledInv, Active
<1>11. ASSUME NEW d \in Driver, NEW x \in Entries, UnlinkEntry(d, x) PROVE SettledInv'
  BY <1>11 DEF UnlinkEntry, SettledInv, Active, SerialInv, TypeOK
<1>12. ASSUME NEW d \in Driver, WriteFails(d) \/ Crash(d) PROVE SettledInv'
  BY <1>12, HostAssumption DEF WriteFails, Crash, SettledInv, SerialInv, TypeOK
<1>13. CASE UNCHANGED <<json, pc, op, faults>>
  BY <1>13 DEF SettledInv, Active
<1> QED
  BY <1>2, <1>3, <1>4, <1>5, <1>6, <1>7, <1>8, <1>9, <1>10, <1>11, <1>12, <1>13
  DEF Next, Step, CallStub, GuestStops, HelperExits, vars

\* No error path of dispatch or stop strands an instance: as long as no process
\* crashes and no write fails, an instance nobody works on can be torn down.
THEOREM TeardownPossible == Spec => []TeardownAlwaysPossible
<1>1. Init => SettledInv
  BY ZenonT(60) DEF Init, SettledInv, Settled
<1>2. SettledInv => TeardownAlwaysPossible
  BY DEF SettledInv, Settled, TeardownAlwaysPossible, CanTransition
<1> QED
  BY <1>1, <1>2, NextSettled, SpecSerial, PTL DEF Spec

-----------------------------------------------------------------------------
(***************************************************************************)
(* Without faults teardown kills the helper before it removes the record.  *)
(***************************************************************************)

Dead == \A p \in Pid : helper[p] \in {"unused", "exited"}

\* Once no child runs, none will.
LEMMA DeadIsStable == TypeOK /\ [Next]_vars /\ Dead => Dead'
<1> SUFFICES ASSUME TypeOK, [Next]_vars, Dead PROVE Dead'
  OBVIOUS
<1> USE HostAssumption DEF TypeOK, Dead, fsVars, vmVars, callVars
<1>1. ASSUME NEW d \in Driver, SendStop(d) PROVE Dead'
  BY <1>1 DEF SendStop, StopVsock, StopLoopback, SetHelper, PeerStatus, Peer, Unreachable
<1>2. ASSUME NEW d \in Driver, KillHelper(d) PROVE Dead'
  BY <1>2 DEF KillHelper, Exit, PeerStatus, Peer
<1>3. ASSUME NEW p \in Pid, GuestStops(p) \/ HelperExits(p) PROVE Dead'
  BY <1>3 DEF GuestStops, HelperExits, SetHelper
<1>4. ASSUME NEW d \in Driver, Step(d), ~SendStop(d), ~KillHelper(d) PROVE Dead'
  BY <1>4 DEF Step, MakeInstanceDir, OpenLockFile, Flock, LoadState, TruncateState,
              WriteState, SendDispatch, DispatchReturns, OpenInstanceDir, UnlinkEntry,
              RemoveInstanceDir
<1> QED
  BY <1>1, <1>2, <1>3, <1>4 DEF Next, Call, CallStub, WriteFails, Crash, vars

\* The record, and every call that is going to rewrite it or to kill its helper,
\* names the one child that ever ran.
OneChild == \A p \in Pid : helper[p] # "unused" => p = json.pid

PidInv ==
  /\ OneChild
  /\ \A d \in Driver : Active(d) \/ pc[d] = "kill" => mem[d].pid = json.pid

LEMMA NextOneChild ==
  ASSUME TypeOK, PidInv, [Next]_vars, json'.pid = json.pid, NoCreate
  PROVE  OneChild'
<1> USE DEF TypeOK, PidInv, OneChild, fsVars, vmVars, callVars
<1>1. ASSUME NEW d \in Driver, SendStop(d) PROVE OneChild'
  <2>1. mem[d].pid = json.pid
    BY <1>1 DEF SendStop, Active, NoCreate
  <2>2. CASE UNCHANGED helper
    BY <2>2
  <2>3. CASE SetHelper(mem[d].pid, "exited")
    BY <2>1, <2>3 DEF SetHelper
  <2>4. CASE PeerStatus(d) \notin Unreachable /\ SetHelper(Peer(d), "stopped")
    BY <2>4 DEF SetHelper, PeerStatus, Unreachable
  <2> QED
    BY <1>1, <2>2, <2>3, <2>4 DEF SendStop, StopVsock, StopLoopback
<1>2. ASSUME NEW d \in Driver, KillHelper(d) PROVE OneChild'
  BY <1>2 DEF KillHelper, Exit, PeerStatus
<1>3. ASSUME NEW p \in Pid, GuestStops(p) \/ HelperExits(p) PROVE OneChild'
  BY <1>3 DEF GuestStops, HelperExits, SetHelper
<1>4. ASSUME NEW d \in Driver, Step(d), ~SendStop(d), ~KillHelper(d) PROVE OneChild'
  BY <1>4 DEF Step, MakeInstanceDir, OpenLockFile, Flock, LoadState, TruncateState,
              WriteState, SendDispatch, DispatchReturns, OpenInstanceDir, UnlinkEntry,
              RemoveInstanceDir
<1> QED
  BY <1>1, <1>2, <1>3, <1>4 DEF Next, Call, CallStub, WriteFails, Crash, vars

\* No step changes the pid of the record.
LEMMA PidIsFixed == SerialInv /\ [Next]_vars => json'.pid = json.pid
<1> SUFFICES ASSUME SerialInv, [Next]_vars PROVE json'.pid = json.pid
  OBVIOUS
<1>1. ASSUME NEW d \in Driver, TruncateState(d) PROVE json'.pid = json.pid
  <2>1. json.ino # NoInode
    BY <1>1 DEF TruncateState, Active, SerialInv, NoCreate, ActiveIsCurrent, Current
  <2> QED
    BY <1>1, <2>1 DEF TruncateState, SerialInv, TypeOK
<1>2. ASSUME NEW d \in Driver, WriteState(d) PROVE json'.pid = json.pid
  <2>1. Current(d) /\ json'.pid = mem[d].pid
    BY <1>2, WriteEffect
  <2> QED
    BY <2>1 DEF Current
<1>3. ASSUME NEW d \in Driver, NEW x \in Entries, UnlinkEntry(d, x)
      PROVE  json'.pid = json.pid
  BY <1>3 DEF UnlinkEntry, SerialInv, TypeOK
<1>4. ASSUME NEW d \in Driver, Step(d) PROVE json'.pid = json.pid
  BY <1>1, <1>2, <1>3, <1>4
  DEF Step, MakeInstanceDir, OpenLockFile, Flock, LoadState, SendDispatch,
      DispatchReturns, SendStop, KillHelper, OpenInstanceDir, RemoveInstanceDir, fsVars
<1> QED
  BY <1>4 DEF Next, Call, CallStub, WriteFails, Crash, GuestStops, HelperExits, vars, fsVars

\* Only load_state brings a pid into a call, and only a kill outlives Active.
LEMMA NextPid == SerialInv /\ PidInv /\ [Next]_vars => PidInv'
<1> SUFFICES ASSUME SerialInv, PidInv, [Next]_vars
             PROVE  \A d \in Driver : Active(d)' \/ pc'[d] = "kill" => mem'[d].pid = json'.pid
  BY NextOneChild, PidIsFixed DEF PidInv, SerialInv
<1> DEFINE Named == \A d \in Driver : Active(d) \/ pc[d] = "kill" => mem[d].pid = json.pid
<1>0. Named /\ json'.pid = json.pid
  BY PidIsFixed DEF PidInv
<1> HIDE DEF Named
<1> SUFFICES Named'
  BY DEF Named
<1> USE DEF fsVars, vmVars, callVars
<1>1. ASSUME NEW d \in Driver, Frame(d),
             Active(d)' \/ pc'[d] = "kill" => mem'[d].pid = json.pid
      PROVE  Named'
  BY <1>0, <1>1 DEF Named, Frame, Active
<1>2. ASSUME NEW d \in Driver, Return(d) PROVE Named'
  BY <1>1, <1>2 DEF Return, Frame, Active, SerialInv, TypeOK
<1>3. ASSUME NEW d \in Driver, NEW o \in {"dispatch", "stop", "teardown"}, Call(d, o)
      PROVE  Named'
  BY <1>1, <1>3 DEF Call, Goto, Frame, Active, SerialInv, TypeOK
<1>4. ASSUME NEW d \in Driver, MakeInstanceDir(d) \/ Flock(d) \/ KillHelper(d)
      PROVE  Named'
  BY <1>1, <1>4, ZenonT(60) DEF MakeInstanceDir, Flock, KillHelper, Goto, Frame, Active, SerialInv, TypeOK
<1>5. ASSUME NEW d \in Driver, OpenLockFile(d) PROVE Named'
  <2>1. CASE ~Return(d)
    BY <1>1, <1>5, <2>1, ZenonT(60) DEF OpenLockFile, Goto, Frame, Active, SerialInv, TypeOK
  <2> QED
    BY <1>2, <1>5, <2>1 DEF OpenLockFile
<1>6. ASSUME NEW d \in Driver, LoadState(d) PROVE Named'
  <2>1. CASE ~Return(d)
    <3>1. Frame(d)
      BY <1>6, <2>1 DEF LoadState, Goto, Frame, SerialInv, TypeOK
    <3>2. Active(d)' \/ pc'[d] = "kill" => mem'[d].pid = json.pid
      <4>1. \/ mem' = [mem EXCEPT ![d] = [life |-> json.life, pid |-> json.pid]]
            \/ pc' = [pc EXCEPT ![d] = "remove"]
        BY <1>6, <2>1, ZenonT(60) DEF LoadState, Goto
      <4>2. pc'[d] = "remove" => ~Active(d)'
        BY DEF Active
      <4>3. d \in DOMAIN mem /\ d \in DOMAIN pc
        BY DEF SerialInv, TypeOK
      <4> QED
        BY <4>1, <4>2, <4>3
    <3> QED
      BY <1>1, <3>1, <3>2, ZenonT(60) DEF Named
  <2> QED
    BY <1>2, <1>6, <2>1, ZenonT(60) DEF LoadState
<1>7. ASSUME NEW d \in Driver, TruncateState(d) PROVE Named'
  <2>1. Frame(d) /\ UNCHANGED mem
    BY <1>7 DEF TruncateState, Goto, Frame, SerialInv, TypeOK
  <2>2. Active(d)
    BY <1>7 DEF TruncateState, Active, SerialInv, NoCreate
  <2> QED
    BY <1>0, <1>1, <2>1, <2>2 DEF Named
<1>8. ASSUME NEW d \in Driver, WriteState(d) PROVE Named'
  <2>1. Active(d)
    BY <1>8, WriteEffect
  <2>2. Frame(d) /\ (mem'[d].pid = mem[d].pid \/ pc'[d] = "idle")
    BY <1>8 DEF WriteState, Return, Goto, Frame, SerialInv, TypeOK
  <2> QED
    BY <1>0, <1>1, <2>1, <2>2 DEF Named, Active
<1>9. ASSUME NEW d \in Driver, SendDispatch(d) \/ DispatchReturns(d) \/ SendStop(d)
      PROVE  Named'
  <2>1. Active(d) /\ UNCHANGED json
    BY <1>9, ZenonT(60) DEF SendDispatch, DispatchReturns, SendStop, Active, SerialInv, NoCreate
  <2>2. Return(d) \/ (Frame(d) /\ UNCHANGED mem)
    BY <1>9 DEF SendDispatch, DispatchReturns, SendStop, FinishDispatch, StopVsock,
                StopLoopback, FinishStop, Goto, Frame, SerialInv, TypeOK
  <2> QED
    BY <1>0, <1>1, <1>2, <2>1, <2>2 DEF Named
<1>10. ASSUME NEW d \in Driver,
              OpenInstanceDir(d) \/ RemoveInstanceDir(d) \/ WriteFails(d) \/ Crash(d)
       PROVE  Named'
  <2>1. AfterWrite(op[d], to[d]) # "reap"
    BY AfterWriteValue DEF SerialInv, NoCreate, TypeOK, LifecycleState
  <2>2. UNCHANGED json /\ (Return(d) \/ UNCHANGED <<pc, op, mem>>)
    BY <1>10, <2>1 DEF OpenInstanceDir, RemoveInstanceDir, WriteFails, Crash
  <2> QED
    BY <1>0, <1>2, <2>2, ZenonT(60) DEF Named, Active
<1>11. ASSUME NEW d \in Driver, NEW x \in Entries, UnlinkEntry(d, x) PROVE Named'
  BY <1>0, <1>11 DEF UnlinkEntry, Named, Active
<1>12. CASE UNCHANGED <<json, pc, op, mem>>
  BY <1>0, <1>12 DEF Named, Active
<1> QED
  BY <1>3, <1>4, <1>5, <1>6, <1>7, <1>8, <1>9, <1>10, <1>11, <1>12
  DEF Next, Step, CallStub, GuestStops, HelperExits, vars

\* Without faults removal starts, and the record disappears, only after the
\* helper's death.
RemovalInv ==
  faults = 0 =>
    /\ json.ino = NoInode => Dead
    /\ \A d \in Driver : pc[d] = "remove" => Dead

\* The two steps that bring a call to "remove".
LEMMA ReachRemove ==
  ASSUME SerialInv, SettledInv, PidInv, RemovalInv, [Next]_vars, faults = 0,
         NEW d \in Driver, pc'[d] = "remove", pc[d] # "remove"
  PROVE  Dead'
<1> USE DEF fsVars, vmVars, callVars
<1>1. LoadState(d) \/ KillHelper(d)
  <2> USE DEF SerialInv, TypeOK
  <2>1. ASSUME NEW e \in Driver, Return(e) PROVE FALSE
    BY <2>1 DEF Return
  <2>2. ASSUME NEW e \in Driver, NEW l \in Pc \ {"remove"}, Goto(e, l) PROVE FALSE
    BY <2>2 DEF Goto
  <2>3. ASSUME NEW e \in Driver, NEW l \in Pc, Goto(e, l) PROVE e = d
    BY <2>3 DEF Goto
  <2>4. ASSUME UNCHANGED pc PROVE FALSE
    BY <2>4
  <2>5. ASSUME NEW e \in Driver, WriteState(e) PROVE FALSE
    <3>1. AfterWrite(op[e], to[e]) \in Pc \ {"remove"}
      BY SMTT(40), AfterWriteValue DEF LifecycleState, Pc, LockedPc
    <3> QED
      BY <2>1, <2>2, <2>5, <3>1 DEF WriteState
  <2>6. ASSUME NEW e \in Driver, Step(e), ~LoadState(e), ~KillHelper(e) PROVE FALSE
    BY <2>1, <2>2, <2>4, <2>5, <2>6
    DEF Step, MakeInstanceDir, OpenLockFile, Flock, TruncateState, SendDispatch,
        DispatchReturns, FinishDispatch, SendStop, StopVsock, StopLoopback, FinishStop,
        OpenInstanceDir, UnlinkEntry, RemoveInstanceDir, Pc, LockedPc
  <2>7. ASSUME NEW e \in Driver, LoadState(e) \/ KillHelper(e) PROVE e = d
    BY <2>1, <2>3, <2>7 DEF LoadState, KillHelper, Pc, LockedPc
  <2>8. ASSUME NEW e \in Driver,
               \/ \E o \in {"dispatch", "stop", "teardown"} : Call(e, o)
               \/ CallStub(e) \/ WriteFails(e) \/ Crash(e)
        PROVE  FALSE
    BY <2>1, <2>2, <2>4, <2>8 DEF Call, CallStub, WriteFails, Crash, vars, Pc, LockedPc
  <2> QED
    BY <2>4, <2>6, <2>7, <2>8 DEF Next, GuestStops, HelperExits, vars
<1>2. CASE KillHelper(d)
  <2>1. mem[d].pid = json.pid
    BY <1>2, ZenonT(60) DEF KillHelper, PidInv
  <2>2. helper'[json.pid] = "exited" \/ json.pid \notin Pid
    BY <1>2, <2>1 DEF KillHelper, Exit, SerialInv, TypeOK
  <2>3. OneChild'
    BY NextOneChild, PidIsFixed DEF SerialInv
  <2>4. json'.pid = json.pid
    BY PidIsFixed
  <2>5. \A p \in Pid : helper'[p] \in {"unused", "exited"}
    BY <2>2, <2>3, <2>4 DEF OneChild
  <2> QED
    BY <2>5 DEF Dead
<1>3. CASE LoadState(d)
  <2>1. ~Readable /\ UNCHANGED helper
    BY <1>3 DEF LoadState, Return, Goto, SerialInv, TypeOK
  <2>2. json.ino = NoInode
    <3> SUFFICES ASSUME json.ino # NoInode PROVE FALSE
      OBVIOUS
    <3>1. PICK e \in Driver : Active(e)
      BY <2>1 DEF Readable, SettledInv
    <3>2. ~Doomed
      BY <3>1 DEF SerialInv, DoomedIsIdle
    <3>3. Locked(d) /\ Locked(e) /\ HasLockOpen(d) /\ HasLockOpen(e)
      BY <1>3, <3>1, ZenonT(60)
      DEF LoadState, Active, Locked, HasLockOpen, LockedPc, SerialInv, NoCreate
    <3>4. d = e
      BY <3>2, <3>3 DEF SerialInv, LiveLock, Exclusive
    <3> QED
      BY <1>3, <3>1, <3>4, ZenonT(60) DEF LoadState, Active
  <2> QED
    BY <2>1, <2>2 DEF RemovalInv, Dead
<1> QED
  BY <1>1, <1>2, <1>3

LEMMA NextRemoval ==
  SerialInv /\ SettledInv /\ PidInv /\ RemovalInv /\ [Next]_vars => RemovalInv'
<1> SUFFICES ASSUME SerialInv, SettledInv, PidInv, RemovalInv, [Next]_vars, faults' = 0
             PROVE  /\ json'.ino = NoInode => Dead'
                    /\ \A d \in Driver : pc'[d] = "remove" => Dead'
  BY DEF RemovalInv
<1>1. faults = 0
  <2>1. ASSUME NEW d \in Driver, Step(d) PROVE UNCHANGED faults
    BY <2>1
    DEF Step, MakeInstanceDir, OpenLockFile, Flock, LoadState, TruncateState, WriteState,
        SendDispatch, DispatchReturns, SendStop, KillHelper, OpenInstanceDir,
        UnlinkEntry, RemoveInstanceDir
  <2>2. ASSUME NEW d \in Driver, WriteFails(d) \/ Crash(d) PROVE FALSE
    BY <2>2, HostAssumption DEF WriteFails, Crash, SerialInv, TypeOK
  <2> QED
    BY <2>1, <2>2 DEF Next, Call, CallStub, GuestStops, HelperExits, vars
<1>2. Dead => Dead'
  BY DeadIsStable DEF SerialInv
<1>3. \A d \in Driver : pc'[d] = "remove" => Dead'
  BY <1>1, <1>2, ReachRemove DEF RemovalInv
<1>4. ASSUME json'.ino = NoInode, json.ino # NoInode PROVE Dead'
  <2>1. \E d \in Driver : pc[d] = "remove"
    <3>1. ASSUME NEW d \in Driver, TruncateState(d) PROVE FALSE
      BY <1>4, <3>1 DEF TruncateState, SerialInv, TypeOK
    <3>2. ASSUME NEW d \in Driver, WriteState(d) PROVE FALSE
      BY <1>4, <3>2, WriteEffect, ZenonT(60)
    <3>3. ASSUME UNCHANGED json PROVE FALSE
      BY <1>4, <3>3
    <3> QED
      BY <3>1, <3>2, <3>3, ZenonT(60)
      DEF Next, Step, Call, CallStub, MakeInstanceDir, OpenLockFile, Flock, LoadState,
          SendDispatch, DispatchReturns, SendStop, KillHelper, OpenInstanceDir,
          UnlinkEntry, RemoveInstanceDir, WriteFails, Crash, GuestStops, HelperExits,
          vars, fsVars
  <2> QED
    BY <1>1, <1>2, <2>1 DEF RemovalInv
<1> QED
  BY <1>1, <1>2, <1>3, <1>4 DEF RemovalInv

\* Without crashes and failed writes a vanished record leaves no VM running, on
\* either transport and however calls overlap.
THEOREM NoVmLeaks == Spec => []NoLeakedVm
<1>1. Init => SettledInv /\ PidInv /\ RemovalInv
  <2> SUFFICES ASSUME Init PROVE SettledInv /\ PidInv /\ RemovalInv
    OBVIOUS
  <2>1. OneChild
    BY DEF Init, OneChild
  <2>2. json.ino # NoInode /\ ~json.torn /\ json.life = "Ready"
    BY HostAssumption DEF Init
  <2>3. \A d \in Driver : pc[d] = "idle"
    BY DEF Init
  <2> QED
    BY <2>1, <2>2, <2>3 DEF SettledInv, Settled, PidInv, RemovalInv, Active
<1>2. RemovalInv => NoLeakedVm
  BY DEF RemovalInv, NoLeakedVm, Dead
<1> QED
  BY <1>1, <1>2, NextSettled, NextPid, NextRemoval, SpecSerial, PTL DEF Spec

=============================================================================
