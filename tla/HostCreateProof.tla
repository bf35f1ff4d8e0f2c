--------------------------- MODULE HostCreateProof ---------------------------
(***************************************************************************)
(* Proofs about MacosBackend::create beside the other operations, for any  *)
(* drivers, creators, helpers and inodes, and any number of crashes and    *)
(* failed writes.                                                          *)
(***************************************************************************)
EXTENDS HostCreate, HostBackendProof

Inviting == {"Ready", "RunningDispatch"}

\* The exception of ReadyOnlyAfterBoot: another helper may answer for this one.
Excused == faults > 0 \/ \E c, d \in Creator : c # d

Past(h, p) == h[p] \notin {"unused", "spawned", "starting"}

\* With helpers h, some helper has answered that it is ready: p, unless excused.
VouchedBy(h, excused, p) ==
  /\ p \in Pid
  /\ Past(h, p) \/ (excused /\ \E q \in VzPid \ {p} : Past(h, q))

Vouched(p) == VouchedBy(helper, Excused, p)

\* The call is a create that has spawned its helper.
Owns(d) == op[d] = "create" /\ pc[d] \in {"truncate", "write", "wait", "reap"}

RecordVouched == json.ino # NoInode /\ json.life \in Inviting => Vouched(json.pid)

\* What a call has read, and what it is about to write.
CallVouched(d) ==
  /\ mem[d].life \in Inviting => Vouched(mem[d].pid)
  /\ pc[d] \in {"truncate", "write"} /\ to[d] \in Inviting => Vouched(mem[d].pid)
  /\ pc[d] \in {"send", "await"} => mem[d].life \in Inviting

\* Where a create can be.
CreateControl(d) ==
  /\ op[d] = "create" => d \in Creator /\ pc[d] \in {"spawn", "truncate", "write", "wait", "reap"}
  /\ op[d] = "create" /\ pc[d] \in {"truncate", "write"} => to[d] \in {"Booting", "Ready", "Failed"}
  /\ op[d] # "create" /\ pc[d] \in {"truncate", "write"} => to[d] # "Booting"
  /\ pc[d] \in {"spawn", "wait", "reap"} => op[d] = "create"
  /\ Owns(d) => mem[d].pid \in Pid

\* Unless excused, a helper that does not listen yet belongs to the create in
\* progress, and nobody else can own the control socket.
SocketIsOwn ==
  ~Excused =>
    /\ \A p \in Pid : helper[p] = "spawned" => \E c \in Driver : Owns(c) /\ mem[c].pid = p
    /\ \A c \in Driver : Owns(c) /\ mem[c].pid \in VzPid => sock \in {NoPid, mem[c].pid}

\* Only real VMs have the control socket.
SocketIsVz == /\ \A p \in Pid : helper[p] = "spawned" => p \in VzPid
              /\ sock \in VzPid \union {NoPid}

BootInv ==
  /\ TypeOK /\ booting \subseteq Pid
  /\ RecordVouched
  /\ \A d \in Driver : CallVouched(d) /\ CreateControl(d)
  /\ SocketIsOwn /\ SocketIsVz

-----------------------------------------------------------------------------
(* What a step leaves as it is. *)

\* No step takes a helper back to its boot, and faults are never forgotten.
Forward == /\ \A p \in Pid : Past(helper, p) => Past(helper', p)
           /\ Excused => Excused'

\* A helper that vouched for a record still does.
LEMMA VouchedKept ==
  ASSUME Forward
  PROVE  \A p : VouchedBy(helper, Excused, p) => VouchedBy(helper', Excused', p)
<1> SUFFICES ASSUME NEW p, VouchedBy(helper, Excused, p) PROVE VouchedBy(helper', Excused', p)
  OBVIOUS
<1>1. p \in Pid /\ \A q \in VzPid : q \in Pid
  BY DEF VouchedBy, Pid
<1>2. CASE Past(helper, p)
  BY <1>1, <1>2 DEF Forward, VouchedBy
<1>3. CASE Excused /\ \E q \in VzPid \ {p} : Past(helper, q)
  BY <1>1, <1>3 DEF Forward, VouchedBy
<1> QED BY <1>2, <1>3 DEF VouchedBy

\* A call that the step does not concern keeps its part of the invariant.
LEMMA CallKept ==
  ASSUME Forward, NEW e \in Driver, CallVouched(e), CreateControl(e),
         pc'[e] = pc[e], op'[e] = op[e], mem'[e] = mem[e], to'[e] = to[e]
  PROVE  CallVouched(e)' /\ CreateControl(e)'
<1>1. CallVouched(e)'
  BY VouchedKept DEF CallVouched, Vouched
<1>2. CreateControl(e)'
  BY DEF CreateControl, Owns
<1> QED BY <1>1, <1>2

\* The sole create keeps the socket to itself: nothing is spawned, the socket is
\* at most unlinked, and a create that ends leaves no helper that has yet to
\* listen.
LEMMA SocketKept ==
  ASSUME SocketIsOwn, SocketIsVz, Excused => Excused', sock' \in {sock, NoPid},
         \A p \in Pid : helper'[p] = "spawned" => helper[p] = "spawned",
         \A e \in Driver :
           /\ Owns(e)' => Owns(e) /\ mem'[e].pid = mem[e].pid
           /\ Owns(e) => \/ Owns(e)' \/ Excused'
                         \/ helper'[mem[e].pid] # "spawned"
  PROVE  SocketIsOwn' /\ SocketIsVz'
<1>1. SocketIsVz'
  BY DEF SocketIsVz
<1>2. ASSUME ~Excused', NEW p \in Pid, helper'[p] = "spawned"
      PROVE  \E c \in Driver : Owns(c)' /\ mem'[c].pid = p
  <2>1. PICK c \in Driver : Owns(c) /\ mem[c].pid = p
    BY <1>2 DEF SocketIsOwn
  <2> QED BY <1>2, <2>1
<1>3. ASSUME ~Excused', NEW c \in Driver, Owns(c)', mem'[c].pid \in VzPid
      PROVE  sock' \in {NoPid, mem'[c].pid}
  BY <1>3 DEF SocketIsOwn
<1> QED BY <1>1, <1>2, <1>3 DEF SocketIsOwn

\* The pieces of the invariant after a step of the call d that spawns nothing.
LEMMA CallStep ==
  ASSUME BootInv, TypeOK', booting' \subseteq Pid, NEW d \in Driver, Forward,
         \A e \in Driver \ {d} :
           pc'[e] = pc[e] /\ op'[e] = op[e] /\ mem'[e] = mem[e] /\ to'[e] = to[e],
         sock' \in {sock, NoPid},
         \A p \in Pid : helper'[p] = "spawned" => helper[p] = "spawned",
         RecordVouched', CallVouched(d)', CreateControl(d)',
         Owns(d)' => Owns(d) /\ mem'[d].pid = mem[d].pid,
         Owns(d) => \/ Owns(d)' \/ Excused' \/ helper'[mem[d].pid] # "spawned"
  PROVE  BootInv'
<1> USE DEF BootInv
<1>1. \A e \in Driver : CallVouched(e)' /\ CreateControl(e)'
  BY CallKept
<1>2. \A e \in Driver \ {d} : (Owns(e)' <=> Owns(e)) /\ mem'[e].pid = mem[e].pid
  BY DEF Owns
<1>3. SocketIsOwn' /\ SocketIsVz'
  <2>1. \A e \in Driver :
           /\ Owns(e)' => Owns(e) /\ mem'[e].pid = mem[e].pid
           /\ Owns(e) => \/ Owns(e)' \/ Excused'
                         \/ helper'[mem[e].pid] # "spawned"
    BY <1>2
  <2> QED BY <2>1, SocketKept DEF Forward
<1> QED BY <1>1, <1>3

-----------------------------------------------------------------------------
(* The calls. *)

\* Helpers and control socket stay, with or without one fault more.
LEMMA VmSame ==
  ASSUME TypeOK, UNCHANGED vmVars, faults' \in {faults, faults + 1}
  PROVE  /\ Forward /\ sock' \in {sock, NoPid}
         /\ \A p \in Pid : helper'[p] = "spawned" => helper[p] = "spawned"
<1>1. faults \in Nat
  BY HostAssumption DEF TypeOK
<1>2. Excused => Excused'
  BY <1>1 DEF Excused
<1> QED BY <1>2 DEF Forward, vmVars

\* A call that returns has nothing left to write.
LEMMA Returned ==
  ASSUME TypeOK, NEW d \in Driver, Return(d)
  PROVE  /\ CallVouched(d)' /\ CreateControl(d)' /\ ~Owns(d)'
         /\ \A e \in Driver \ {d} :
              pc'[e] = pc[e] /\ op'[e] = op[e] /\ mem'[e] = mem[e] /\ to'[e] = to[e]
<1>1. pc'[d] = "idle" /\ op'[d] = "dispatch" /\ mem'[d] = NoMem
  BY DEF Return, TypeOK
<1>2. \A e \in Driver \ {d} :
        pc'[e] = pc[e] /\ op'[e] = op[e] /\ mem'[e] = mem[e] /\ to'[e] = to[e]
  BY DEF Return, TypeOK
<1>3. CallVouched(d)' /\ CreateControl(d)' /\ ~Owns(d)'
  BY <1>1 DEF CallVouched, CreateControl, Owns, NoMem, Inviting
<1> QED BY <1>2, <1>3

\* The record is the same, or gone.
LEMMA RecordKept ==
  ASSUME BootInv, Forward,
         json' = json \/ json'.ino = NoInode
  PROVE  RecordVouched'
BY VouchedKept DEF BootInv, RecordVouched, Vouched

\* A step of the call d that moves its control only, outside of a create.
LEMMA ControlStep ==
  ASSUME BootInv, TypeOK', booting' \subseteq Pid, NEW d \in Driver,
         UNCHANGED <<vmVars, faults, mem, to>>, json' = json \/ json'.ino = NoInode,
         op[d] # "create", NEW l, pc' = [pc EXCEPT ![d] = l],
         l \notin {"truncate", "write", "send", "await", "wait", "reap"},
         NEW o \in Op, op' = [op EXCEPT ![d] = o], (o = "create" <=> l = "spawn"),
         o = "create" => d \in Creator
  PROVE  BootInv'
<1>1. /\ Forward /\ sock' \in {sock, NoPid}
      /\ \A p \in Pid : helper'[p] = "spawned" => helper[p] = "spawned"
  BY VmSame DEF BootInv
<1>2. /\ pc'[d] = l /\ op'[d] = o
      /\ \A e \in Driver \ {d} :
           pc'[e] = pc[e] /\ op'[e] = op[e] /\ mem'[e] = mem[e] /\ to'[e] = to[e]
  BY DEF BootInv, TypeOK
<1>3. RecordVouched'
  BY <1>1, RecordKept
<1>4. CallVouched(d)'
  BY <1>1, <1>2, VouchedKept DEF BootInv, CallVouched, Vouched
<1>5. CreateControl(d)' /\ ~Owns(d)' /\ ~Owns(d)
  BY <1>2 DEF BootInv, CreateControl, Owns
<1> QED BY <1>1, <1>2, <1>3, <1>4, <1>5, CallStep

\* A call that returns without touching the helpers, having spawned none.
LEMMA ReturnCallStep ==
  ASSUME BootInv, TypeOK', booting' \subseteq Pid, NEW d \in Driver, Return(d),
         UNCHANGED vmVars, faults' \in {faults, faults + 1},
         RecordVouched',
         Owns(d) => Excused' \/ helper'[mem[d].pid] # "spawned"
  PROVE  BootInv'
<1>1. TypeOK
  BY DEF BootInv
<1>2. /\ Forward /\ sock' \in {sock, NoPid}
      /\ \A p \in Pid : helper'[p] = "spawned" => helper[p] = "spawned"
  BY <1>1, VmSame
<1>3. /\ CallVouched(d)' /\ CreateControl(d)' /\ ~Owns(d)'
      /\ \A e \in Driver \ {d} :
           pc'[e] = pc[e] /\ op'[e] = op[e] /\ mem'[e] = mem[e] /\ to'[e] = to[e]
  BY <1>1, Returned
<1> QED BY <1>2, <1>3, CallStep

\* Routing, the lock, and the removal of the instance directory.
LEMMA PlainSteps ==
  ASSUME BootInv, TypeOK', booting' \subseteq Pid, NEW d \in Driver,
         \/ \E o \in {"dispatch", "stop", "teardown"} : Call(d, o)
         \/ MakeInstanceDir(d) \/ OpenLockFile(d) \/ Flock(d)
         \/ OpenInstanceDir(d) \/ (\E e \in Entries : UnlinkEntry(d, e)) \/ RemoveInstanceDir(d)
  PROVE  BootInv'
<1>1. TypeOK /\ CreateControl(d) /\ pc \in [Driver -> Pc] /\ op \in [Driver -> Op]
  BY DEF BootInv, TypeOK
<1>2. op[d] # "create" /\ ~Owns(d)
  BY <1>1 DEF CreateControl, Owns, Call, MakeInstanceDir, OpenLockFile, Flock, OpenInstanceDir,
              UnlinkEntry, RemoveInstanceDir
<1>3. UNCHANGED <<vmVars, faults>> /\ (json' = json \/ json'.ino = NoInode)
  BY <1>1 DEF Call, MakeInstanceDir, OpenLockFile, Flock, OpenInstanceDir, UnlinkEntry,
              RemoveInstanceDir, fsVars, TypeOK
<1>4. CASE Return(d)
  <2>1. Forward
    BY <1>1, <1>3, VmSame
  <2>2. RecordVouched'
    BY <1>3, <2>1, RecordKept
  <2> QED BY <1>2, <1>3, <1>4, <2>2, ReturnCallStep
<1>5. CASE ~Return(d)
  <2>1. PICK l \in {"mkdir", "open", "flock", "load", "remove"}, o \in Op \ {"create"} :
          /\ pc' = [pc EXCEPT ![d] = l] /\ op' = [op EXCEPT ![d] = o]
          /\ UNCHANGED <<mem, to>>
    <3>1. ASSUME NEW o \in {"dispatch", "stop", "teardown"}, Call(d, o)
          PROVE  /\ pc' = [pc EXCEPT ![d] = "mkdir"] /\ op' = [op EXCEPT ![d] = o]
                 /\ UNCHANGED <<mem, to>> /\ o \in Op \ {"create"}
      BY <3>1 DEF Call, Goto, Op
    <3>2. CASE MakeInstanceDir(d) \/ OpenLockFile(d) \/ Flock(d)
      BY <1>1, <1>2, <1>5, <3>2 DEF MakeInstanceDir, OpenLockFile, Flock, Goto
    <3>3. CASE OpenInstanceDir(d) \/ (\E e \in Entries : UnlinkEntry(d, e)) \/ RemoveInstanceDir(d)
      BY <1>1, <1>2, <1>5, <3>3 DEF OpenInstanceDir, UnlinkEntry, RemoveInstanceDir
    <3> QED BY <3>1, <3>2, <3>3
  <2> QED BY <1>2, <1>3, <2>1, ControlStep
<1> QED BY <1>4, <1>5

\* load_state: only a Ready record is dispatched to, and it is vouched for.
LEMMA LoadCall ==
  ASSUME BootInv, TypeOK', booting' \subseteq Pid, NEW d \in Driver, LoadState(d)
  PROVE  BootInv'
<1>1. TypeOK /\ CreateControl(d) /\ pc[d] = "load" /\ UNCHANGED <<fsVars, vmVars, faults>>
  BY DEF BootInv, LoadState
<1>2. op[d] \in {"dispatch", "stop", "teardown"} /\ ~Owns(d)
  BY <1>1 DEF CreateControl, Owns, TypeOK, Op
<1>3. /\ Forward /\ sock' \in {sock, NoPid}
      /\ \A p \in Pid : helper'[p] = "spawned" => helper[p] = "spawned"
  BY <1>1, VmSame
<1>4. RecordVouched'
  BY <1>1, <1>3, RecordKept DEF fsVars
<1>5. CASE Return(d)
  BY <1>1, <1>2, <1>4, <1>5, ReturnCallStep
<1>6. CASE ~Readable /\ Goto(d, "remove") /\ UNCHANGED <<op, mem, to>>
  <2>1. PICK o \in Op \ {"create"} : op' = [op EXCEPT ![d] = o]
    BY <1>1, <1>2, <1>6 DEF TypeOK, Op
  <2>2. PICK l \in {"remove"} : pc' = [pc EXCEPT ![d] = l]
    BY <1>6 DEF Goto
  <2>3. op[d] # "create" /\ json' = json /\ UNCHANGED <<vmVars, faults, mem, to>>
    BY <1>1, <1>2, <1>6 DEF fsVars
  <2> QED BY <2>1, <2>2, <2>3, ControlStep
<1>7. CASE /\ Readable /\ UNCHANGED op
           /\ mem' = [mem EXCEPT ![d] = [life |-> json.life, pid |-> json.pid]]
           /\ \/ /\ CanTransition(json.life, FirstTarget(op[d]))
                 /\ to' = [to EXCEPT ![d] = FirstTarget(op[d])] /\ Goto(d, "truncate")
              \/ UNCHANGED to /\ Goto(d, "kill")
  <2>1. /\ mem'[d].life = json.life /\ mem'[d].pid = json.pid /\ op'[d] = op[d]
        /\ \/ pc'[d] = "truncate" /\ to'[d] = FirstTarget(op[d])
              /\ CanTransition(json.life, FirstTarget(op[d]))
           \/ pc'[d] = "kill"
        /\ \A e \in Driver \ {d} :
             pc'[e] = pc[e] /\ op'[e] = op[e] /\ mem'[e] = mem[e] /\ to'[e] = to[e]
    BY <1>1, <1>7 DEF TypeOK, Goto
  <2>2. json.life \in Inviting => VouchedBy(helper', Excused', json.pid)
    BY <1>3, <1>7, VouchedKept DEF BootInv, RecordVouched, Vouched, Readable
  <2>3. pc'[d] = "truncate" /\ to'[d] \in Inviting => json.life \in Inviting
    BY <1>2, <2>1 DEF FirstTarget, Inviting, CanTransition
  <2>4. CallVouched(d)'
    BY <2>1, <2>2, <2>3 DEF CallVouched, Vouched
  <2>5. CreateControl(d)' /\ ~Owns(d)'
    BY <1>2, <2>1, FirstTargetBoots DEF CreateControl, Owns, Op
  <2> QED BY <1>2, <1>3, <1>4, <2>1, <2>4, <2>5, CallStep
<1> QED BY <1>5, <1>6, <1>7 DEF LoadState

\* write_state opens the file: a new record is what the call has in memory.
LEMMA TruncateCall ==
  ASSUME BootInv, TypeOK', booting' \subseteq Pid, NEW d \in Driver, TruncateState(d)
  PROVE  BootInv'
<1>1. /\ TypeOK /\ CreateControl(d) /\ CallVouched(d)
      /\ pc[d] = "truncate" /\ UNCHANGED <<vmVars, faults, op, mem, to>>
  BY DEF BootInv, TruncateState
<1>2. /\ Forward /\ sock' \in {sock, NoPid}
      /\ \A p \in Pid : helper'[p] = "spawned" => helper[p] = "spawned"
  BY <1>1, VmSame
<1>3. /\ pc'[d] = "write"
      /\ \A e \in Driver \ {d} :
           pc'[e] = pc[e] /\ op'[e] = op[e] /\ mem'[e] = mem[e] /\ to'[e] = to[e]
  BY <1>1 DEF TypeOK, TruncateState, Goto
<1>4. RecordVouched'
  <2>1. \/ json.ino # NoInode /\ json'.life = json.life /\ json'.pid = json.pid
        \/ json'.life = mem[d].life /\ json'.pid = mem[d].pid
    BY <1>1 DEF TruncateState, TypeOK
  <2> QED BY <1>1, <1>2, <2>1, VouchedKept DEF BootInv, RecordVouched, CallVouched, Vouched
<1>5. CallVouched(d)'
  BY <1>1, <1>2, <1>3, VouchedKept DEF CallVouched, Vouched
<1>6. CreateControl(d)' /\ (Owns(d)' <=> Owns(d))
  BY <1>1, <1>3 DEF CreateControl, Owns
<1> QED BY <1>1, <1>2, <1>3, <1>4, <1>5, <1>6, CallStep

\* write_state writes what the call has decided on, and goes on from there.
LEMMA WriteCall ==
  ASSUME BootInv, TypeOK', booting' \subseteq Pid, NEW d \in Driver, WriteState(d)
  PROVE  BootInv'
<1>1. /\ TypeOK /\ CreateControl(d) /\ CallVouched(d)
      /\ pc[d] = "write" /\ UNCHANGED <<vmVars, faults>>
  BY DEF BootInv, WriteState
<1>2. /\ Forward /\ sock' \in {sock, NoPid}
      /\ \A p \in Pid : helper'[p] = "spawned" => helper[p] = "spawned"
  BY <1>1, VmSame
<1>3. RecordVouched'
  <2>1. \/ json' = json
        \/ json'.life = to[d] /\ json'.pid = mem[d].pid
    BY <1>1 DEF WriteState, CompleteWrite, TypeOK
  <2> QED BY <1>1, <1>2, <2>1, RecordKept, VouchedKept DEF RecordVouched, CallVouched, Vouched
<1>4. CASE AfterWrite(op[d], to[d]) = "idle"
  <2>1. Return(d)
    BY <1>4 DEF WriteState
  <2>2. Owns(d) => Excused' \/ helper'[mem[d].pid] # "spawned"
    <3> SUFFICES ASSUME Owns(d) PROVE Excused' \/ helper'[mem[d].pid] # "spawned"
      OBVIOUS
    <3>1. to[d] = "Ready"
      BY <1>1, <1>4, AfterWriteValue DEF CreateControl, Owns
    <3>2. VouchedBy(helper', Excused', mem[d].pid)
      BY <1>1, <1>2, <3>1, VouchedKept DEF CallVouched, Vouched, Inviting
    <3> QED BY <3>2 DEF VouchedBy, Past
  <2> QED BY <1>1, <1>3, <2>1, <2>2, ReturnCallStep
<1>5. CASE AfterWrite(op[d], to[d]) # "idle"
  <2>1. /\ pc'[d] = AfterWrite(op[d], to[d]) /\ op'[d] = op[d] /\ to'[d] = to[d]
        /\ mem'[d].life = to[d] /\ mem'[d].pid = mem[d].pid
        /\ \A e \in Driver \ {d} :
             pc'[e] = pc[e] /\ op'[e] = op[e] /\ mem'[e] = mem[e] /\ to'[e] = to[e]
    BY <1>1, <1>5 DEF WriteState, Goto, TypeOK
  <2>2. \/ to[d] = "RunningDispatch" /\ pc'[d] = "send" /\ op[d] # "create"
        \/ to[d] = "Stopping" /\ pc'[d] = "sendstop" /\ op[d] # "create"
        \/ to[d] = "TornDown" /\ pc'[d] = "kill" /\ op[d] # "create"
        \/ to[d] = "Booting" /\ pc'[d] = "wait" /\ op[d] = "create"
        \/ to[d] = "Failed" /\ pc'[d] = "reap" /\ op[d] = "create"
    BY <1>1, <1>5, <2>1, AfterWriteValue DEF CreateControl, TypeOK, LifecycleState
  <2>3. CallVouched(d)'
    BY <1>1, <1>2, <2>1, <2>2, VouchedKept DEF CallVouched, Vouched, Inviting
  <2>4. CreateControl(d)' /\ (Owns(d)' <=> Owns(d))
    BY <1>1, <2>1, <2>2 DEF CreateControl, Owns
  <2> QED BY <1>2, <1>3, <2>1, <2>3, <2>4, CallStep
<1> QED BY <1>4, <1>5

\* A failed write or the end of the process.
LEMMA FaultCall ==
  ASSUME BootInv, TypeOK', booting' \subseteq Pid, NEW d \in Driver, WriteFails(d) \/ Crash(d)
  PROVE  BootInv'
<1>1. /\ TypeOK /\ CreateControl(d) /\ CallVouched(d) /\ faults' = faults + 1
      /\ UNCHANGED <<fsVars, vmVars>>
  BY DEF BootInv, WriteFails, Crash
<1>2. /\ Forward /\ sock' \in {sock, NoPid}
      /\ \A p \in Pid : helper'[p] = "spawned" => helper[p] = "spawned"
  BY <1>1, VmSame
<1>3. RecordVouched'
  BY <1>1, <1>2, RecordKept DEF fsVars
<1>4. Excused'
  <2>1. faults \in Nat
    BY <1>1, HostAssumption DEF TypeOK
  <2> QED BY <1>1, <2>1 DEF Excused
<1>5. CASE Return(d)
  BY <1>1, <1>3, <1>4, <1>5, ReturnCallStep
<1>6. CASE /\ AfterWrite(op[d], to[d]) = "reap" /\ pc[d] \in {"truncate", "write"}
           /\ Goto(d, "reap") /\ UNCHANGED <<op, mem, to>>
  <2>1. /\ pc'[d] = "reap" /\ op'[d] = op[d] /\ mem'[d] = mem[d]
        /\ \A e \in Driver \ {d} :
             pc'[e] = pc[e] /\ op'[e] = op[e] /\ mem'[e] = mem[e] /\ to'[e] = to[e]
    BY <1>1, <1>6 DEF Goto, TypeOK
  <2>2. op[d] = "create"
    <3>1. to[d] \in LifecycleState
      BY <1>1 DEF TypeOK
    <3>2. \A o : \A t \in LifecycleState : AfterWrite(o, t) = "reap" => o = "create"
      BY AfterWriteValue DEF LifecycleState
    <3> QED BY <1>6, <3>1, <3>2
  <2>3. CallVouched(d)'
    BY <1>1, <1>2, <2>1, VouchedKept DEF CallVouched, Vouched
  <2>4. CreateControl(d)' /\ (Owns(d)' <=> Owns(d))
    BY <1>1, <1>6, <2>1, <2>2 DEF CreateControl, Owns
  <2> QED BY <1>2, <1>3, <2>1, <2>3, <2>4, CallStep
<1> QED BY <1>5, <1>6 DEF WriteFails, Crash

\* A call, not a create, that has decided on the next lifecycle to write.
LEMMA DecideStep ==
  ASSUME BootInv, TypeOK', booting' \subseteq Pid, NEW d \in Driver,
         pc[d] \in {"send", "await", "sendstop"},
         Forward, UNCHANGED <<json, sock, op, mem>>,
         \A p \in Pid : helper'[p] = "spawned" => helper[p] = "spawned",
         NEW t \in {"Ready", "Failed", "TornDown"}, to' = [to EXCEPT ![d] = t],
         t = "Ready" => pc[d] \in {"send", "await"},
         pc' = [pc EXCEPT ![d] = "truncate"]
  PROVE  BootInv'
<1>1. TypeOK /\ CreateControl(d) /\ CallVouched(d)
  BY DEF BootInv
<1>2. op[d] # "create" /\ ~Owns(d)
  BY <1>1 DEF CreateControl, Owns
<1>3. /\ pc'[d] = "truncate" /\ to'[d] = t
      /\ \A e \in Driver \ {d} :
           pc'[e] = pc[e] /\ op'[e] = op[e] /\ mem'[e] = mem[e] /\ to'[e] = to[e]
  BY <1>1 DEF TypeOK
<1>4. RecordVouched'
  BY RecordKept
<1>5. CallVouched(d)'
  BY <1>1, <1>3, VouchedKept DEF CallVouched, Vouched, Inviting
<1>6. CreateControl(d)' /\ ~Owns(d)'
  BY <1>2, <1>3 DEF CreateControl, Owns
<1> QED BY <1>2, <1>3, <1>4, <1>5, <1>6, CallStep

\* dispatch_over_transport and what follows it.
LEMMA DispatchCall ==
  ASSUME BootInv, TypeOK', booting' \subseteq Pid, NEW d \in Driver,
         SendDispatch(d) \/ DispatchReturns(d)
  PROVE  BootInv'
<1>1. /\ TypeOK /\ CreateControl(d) /\ CallVouched(d) /\ pc[d] \in {"send", "await"}
      /\ UNCHANGED <<fsVars, vmVars, faults>>
  BY DEF BootInv, SendDispatch, DispatchReturns
<1>2. /\ Forward /\ sock' \in {sock, NoPid}
      /\ \A p \in Pid : helper'[p] = "spawned" => helper[p] = "spawned"
  BY <1>1, VmSame
<1>3. ASSUME NEW outcome, FinishDispatch(d, outcome) PROVE BootInv'
  <2>1. PICK t \in {"Ready", "Failed"} : to' = [to EXCEPT ![d] = t]
    BY <1>3 DEF FinishDispatch, DispatchRecovery
  <2>2. pc' = [pc EXCEPT ![d] = "truncate"] /\ UNCHANGED <<json, sock, op, mem>>
    BY <1>1, <1>3 DEF FinishDispatch, Goto, fsVars, vmVars
  <2> QED BY <1>1, <1>2, <2>1, <2>2, DecideStep
<1>4. CASE Goto(d, "await") /\ UNCHANGED <<op, mem, to>>
  <2>1. /\ pc'[d] = "await" /\ op'[d] = op[d] /\ mem'[d] = mem[d]
        /\ \A e \in Driver \ {d} :
             pc'[e] = pc[e] /\ op'[e] = op[e] /\ mem'[e] = mem[e] /\ to'[e] = to[e]
    BY <1>1, <1>4 DEF Goto, TypeOK
  <2>2. RecordVouched'
    BY <1>1, <1>2, RecordKept DEF fsVars
  <2>3. CallVouched(d)'
    BY <1>1, <1>2, <2>1, VouchedKept DEF CallVouched, Vouched
  <2>4. CreateControl(d)' /\ ~Owns(d)' /\ ~Owns(d)
    BY <1>1, <2>1 DEF CreateControl, Owns
  <2> QED BY <1>2, <2>1, <2>2, <2>3, <2>4, CallStep
<1> QED BY <1>3, <1>4 DEF SendDispatch, DispatchReturns

\* A helper that is told to stop, signalled or gone is past its boot.
LEMMA HelperMoved ==
  ASSUME TypeOK, NEW q, NEW status \in {"ready", "stopped", "failed", "exited"},
         helper' = [helper EXCEPT ![q] = status], faults' = faults
  PROVE  /\ Forward
         /\ \A p \in Pid : helper'[p] = "spawned" => helper[p] = "spawned"
<1>1. \A p \in Pid : helper'[p] = helper[p] \/ helper'[p] = status
  BY DEF TypeOK
<1> QED BY <1>1 DEF Forward, Past, Excused

\* stop, over the control socket or by a signal.
LEMMA StopCall ==
  ASSUME BootInv, TypeOK', booting' \subseteq Pid, NEW d \in Driver, SendStop(d)
  PROVE  BootInv'
<1>1. /\ TypeOK /\ CreateControl(d) /\ pc[d] = "sendstop"
      /\ UNCHANGED <<fsVars, sock, faults>>
  BY DEF BootInv, SendStop
<1>2. \/ helper' = helper
      \/ helper' = [helper EXCEPT ![Peer(d)] = "stopped"]
      \/ helper' = [helper EXCEPT ![mem[d].pid] = "exited"]
  BY DEF SendStop, StopVsock, StopLoopback, SetHelper
<1>3. Forward /\ \A p \in Pid : helper'[p] = "spawned" => helper[p] = "spawned"
  <2>1. CASE helper' = helper
    BY <1>1, <2>1 DEF Forward, Excused
  <2> QED BY <1>1, <1>2, <2>1, HelperMoved
<1>4. CASE Return(d)
  <2>1. /\ CallVouched(d)' /\ CreateControl(d)' /\ ~Owns(d)'
        /\ \A e \in Driver \ {d} :
             pc'[e] = pc[e] /\ op'[e] = op[e] /\ mem'[e] = mem[e] /\ to'[e] = to[e]
    BY <1>1, <1>4, Returned
  <2>2. ~Owns(d) /\ RecordVouched'
    BY <1>1, <1>3, RecordKept DEF CreateControl, Owns, fsVars
  <2> QED BY <1>1, <1>3, <2>1, <2>2, CallStep
<1>5. ASSUME NEW t \in {"TornDown", "Failed"}, FinishStop(d, t) PROVE BootInv'
  <2>1. /\ to' = [to EXCEPT ![d] = t] /\ pc' = [pc EXCEPT ![d] = "truncate"]
        /\ UNCHANGED <<json, sock, op, mem>>
    BY <1>1, <1>5 DEF FinishStop, Goto, fsVars
  <2> QED BY <1>1, <1>3, <2>1, DecideStep
<1> QED BY <1>4, <1>5 DEF SendStop, StopVsock, StopLoopback

\* teardown stops and signals the recorded helper.
LEMMA KillCall ==
  ASSUME BootInv, TypeOK', booting' \subseteq Pid, NEW d \in Driver, KillHelper(d)
  PROVE  BootInv'
<1>1. /\ TypeOK /\ CreateControl(d) /\ CallVouched(d) /\ pc[d] = "kill"
      /\ UNCHANGED <<fsVars, op, mem, to, faults>> /\ sock' \in {sock, NoPid}
  BY DEF BootInv, KillHelper
<1>2. \A p \in Pid : helper'[p] \in {helper[p], "stopped", "exited"}
  BY <1>1 DEF KillHelper, Exit, TypeOK
<1>3. Forward /\ \A p \in Pid : helper'[p] = "spawned" => helper[p] = "spawned"
  BY <1>1, <1>2 DEF Forward, Past, Excused
<1>4. /\ pc'[d] = "remove" /\ op'[d] = op[d] /\ mem'[d] = mem[d]
      /\ \A e \in Driver \ {d} :
           pc'[e] = pc[e] /\ op'[e] = op[e] /\ mem'[e] = mem[e] /\ to'[e] = to[e]
  BY <1>1 DEF KillHelper, Goto, TypeOK
<1>5. RecordVouched'
  BY <1>1, <1>3, RecordKept DEF fsVars
<1>6. CallVouched(d)'
  BY <1>1, <1>3, <1>4, VouchedKept DEF CallVouched, Vouched
<1>7. CreateControl(d)' /\ ~Owns(d)' /\ ~Owns(d)
  BY <1>1, <1>4 DEF CreateControl, Owns
<1> QED BY <1>1, <1>3, <1>4, <1>5, <1>6, <1>7, CallStep

-----------------------------------------------------------------------------
(* The helpers. *)

\* The boot ends, the guest powers off, or the helper exits.
LEMMA EventStep ==
  ASSUME BootInv, TypeOK', booting' \subseteq Pid, UNCHANGED <<fsVars, callVars>>,
         NEW q, NEW status \in {"ready", "stopped", "failed", "exited"},
         helper' = [helper EXCEPT ![q] = status], faults' = faults, sock' \in {sock, NoPid}
  PROVE  BootInv'
<1> USE DEF BootInv
<1>1. Forward /\ \A p \in Pid : helper'[p] = "spawned" => helper[p] = "spawned"
  BY HelperMoved
<1>2. UNCHANGED <<json, pc, op, mem, to>>
  BY DEF fsVars, callVars
<1>3. RecordVouched'
  BY <1>1, <1>2, RecordKept
<1>4. \A e \in Driver : CallVouched(e)' /\ CreateControl(e)'
  BY <1>1, <1>2, CallKept
<1>5. \A e \in Driver : (Owns(e)' <=> Owns(e)) /\ mem'[e].pid = mem[e].pid
  BY <1>2 DEF Owns
<1>6. SocketIsOwn' /\ SocketIsVz'
  <2>1. \A e \in Driver :
           /\ Owns(e)' => Owns(e) /\ mem'[e].pid = mem[e].pid
           /\ Owns(e) => \/ Owns(e)' \/ Excused'
                         \/ helper'[mem[e].pid] # "spawned"
    BY <1>5
  <2> QED BY <1>1, <2>1, SocketKept DEF Forward
<1> QED BY <1>3, <1>4, <1>6

\* The helper binds the control socket: unless excused, it is the one the create
\* in progress waits for.
LEMMA ListenStep ==
  ASSUME BootInv, NEW p \in Pid, HelperListens(p)
  PROVE  BootInv'
<1> USE DEF BootInv
<1>1. /\ helper[p] = "spawned" /\ helper' = [helper EXCEPT ![p] = "starting"] /\ sock' = p
      /\ UNCHANGED <<dir, lockPath, json, pc, op, fd, mem, to, wfd, rm, faults, booting>>
  BY DEF HelperListens, SetHelper, fsVars, callVars
<1>2. TypeOK' /\ booting' \subseteq Pid
  BY <1>1 DEF TypeOK, HelperStatus
<1>3. /\ helper'[p] = "starting" /\ \A q \in Pid \ {p} : helper'[q] = helper[q]
      /\ (Excused' <=> Excused)
  BY <1>1 DEF TypeOK, Excused
<1>4. Forward
  BY <1>1, <1>3 DEF Forward, Past
<1>5. RecordVouched'
  BY <1>1, <1>4, RecordKept
<1>6. \A e \in Driver : CallVouched(e)' /\ CreateControl(e)'
  BY <1>1, <1>4, CallKept
<1>7. \A e \in Driver : (Owns(e)' <=> Owns(e)) /\ mem'[e].pid = mem[e].pid
  BY <1>1 DEF Owns
<1>8. SocketIsVz'
  BY <1>1, <1>3 DEF SocketIsVz
<1>9. SocketIsOwn'
  <2> SUFFICES ASSUME ~Excused
               PROVE  /\ \A q \in Pid : helper'[q] = "spawned" =>
                           \E c \in Driver : Owns(c)' /\ mem'[c].pid = q
                      /\ \A c \in Driver : Owns(c)' /\ mem'[c].pid \in VzPid =>
                           sock' \in {NoPid, mem'[c].pid}
    BY <1>3 DEF SocketIsOwn
  <2>1. \A c, e \in Driver : Owns(c) /\ Owns(e) => c = e
    BY DEF CreateControl, Owns, Excused
  <2>2. PICK c \in Driver : Owns(c) /\ mem[c].pid = p
    BY <1>1 DEF SocketIsOwn
  <2> QED BY <1>1, <1>3, <1>7, <2>1, <2>2 DEF SocketIsOwn
<1> QED BY <1>2, <1>5, <1>6, <1>8, <1>9

-----------------------------------------------------------------------------
(* create. *)

\* create_real_vm starts with the instance directory.
LEMMA PrepareStep ==
  ASSUME BootInv, NEW d \in Creator, CreatePrepare(d)
  PROVE  BootInv'
<1>1. /\ d \in Driver /\ pc[d] = "idle" /\ op' = [op EXCEPT ![d] = "create"]
      /\ pc' = [pc EXCEPT ![d] = "spawn"]
      /\ UNCHANGED <<lockPath, json, vmVars, fd, mem, to, wfd, rm, faults, booting>>
  BY CreatorAssumption DEF CreatePrepare, Goto
<1>2. TypeOK' /\ booting' \subseteq Pid
  <2>1. dir' \in Inode \union {NoInode}
    BY DEF BootInv, TypeOK, CreatePrepare, Fresh
  <2>2. "spawn" \in Pc /\ "create" \in Op
    BY DEF Pc, Op
  <2> QED BY <1>1, <2>1, <2>2 DEF BootInv, TypeOK, vmVars
<1>3. op[d] # "create"
  BY <1>1 DEF BootInv, CreateControl
<1>4. PICK l \in {"spawn"}, o \in {"create"} :
        pc' = [pc EXCEPT ![d] = l] /\ op' = [op EXCEPT ![d] = o] /\ o \in Op
  BY <1>1 DEF Op
<1> QED BY <1>1, <1>2, <1>3, <1>4, ControlStep

\* The child runs.  Unless excused, no helper of an earlier create has yet to
\* listen, so the socket is its own.
LEMMA SpawnStep ==
  ASSUME BootInv, NEW d \in Creator, NEW p \in Pid, Spawned(d, p),
         pc[d] \in {"idle", "spawn"}, op'  = [op EXCEPT ![d] = "create"],
         NEW status \in {"spawned", "starting"}, SetHelper(p, status),
         status = "spawned" => p \in VzPid,
         p \in VzPid => sock' = NoPid, sock' \in {sock, NoPid},
         UNCHANGED <<fsVars, faults>>
  PROVE  BootInv'
<1> USE DEF BootInv
<1>1. d \in Driver /\ helper[p] = "unused"
  BY CreatorAssumption DEF Spawned
<1>2. /\ mem' = [mem EXCEPT ![d] = [life |-> "Provisioning", pid |-> p]]
      /\ to' = [to EXCEPT ![d] = "Booting"] /\ pc' = [pc EXCEPT ![d] = "truncate"]
      /\ booting' = booting \union {p} /\ helper' = [helper EXCEPT ![p] = status]
      /\ UNCHANGED <<dir, lockPath, json, fd, wfd, rm, faults>>
  BY DEF Spawned, SetHelper, Goto, fsVars
<1>3. TypeOK' /\ booting' \subseteq Pid
  <2>1. /\ "truncate" \in Pc /\ "create" \in Op /\ status \in HelperStatus
        /\ {"Provisioning", "Booting"} \subseteq LifecycleState
    BY DEF Pc, LockedPc, Op, HelperStatus, LifecycleState
  <2>2. [life |-> "Provisioning", pid |-> p] \in [life : LifecycleState, pid : Pid \union {NoPid}]
    BY <2>1
  <2>3. sock' \in Pid \union {NoPid}
    BY DEF TypeOK
  <2> QED BY <1>2, <2>1, <2>2, <2>3 DEF TypeOK
<1>4. /\ pc'[d] = "truncate" /\ op'[d] = "create" /\ to'[d] = "Booting"
      /\ mem'[d].life = "Provisioning" /\ mem'[d].pid = p
      /\ \A e \in Driver \ {d} :
           pc'[e] = pc[e] /\ op'[e] = op[e] /\ mem'[e] = mem[e] /\ to'[e] = to[e]
      /\ helper'[p] = status /\ \A q \in Pid \ {p} : helper'[q] = helper[q]
      /\ (Excused' <=> Excused)
  BY <1>1, <1>2 DEF TypeOK, Excused
<1>5. Forward
  BY <1>1, <1>4 DEF Forward, Past
<1>6. RecordVouched'
  BY <1>2, <1>5, RecordKept
<1>7. \A e \in Driver : CallVouched(e)' /\ CreateControl(e)'
  <2>1. CallVouched(d)' /\ CreateControl(d)'
    BY <1>4 DEF CallVouched, CreateControl, Owns, Inviting
  <2> QED BY <1>4, <1>5, <2>1, CallKept
<1>8. SocketIsVz'
  BY <1>4 DEF SocketIsVz
<1>9. SocketIsOwn'
  <2> SUFFICES ASSUME ~Excused
               PROVE  /\ \A q \in Pid : helper'[q] = "spawned" =>
                           \E c \in Driver : Owns(c)' /\ mem'[c].pid = q
                      /\ \A c \in Driver : Owns(c)' /\ mem'[c].pid \in VzPid =>
                           sock' \in {NoPid, mem'[c].pid}
    BY <1>4 DEF SocketIsOwn
  <2>1. \A c \in Driver : ~Owns(c)
    BY DEF CreateControl, Owns, Excused
  <2>2. \A q \in Pid \ {p} : helper'[q] # "spawned"
    BY <1>4, <2>1 DEF SocketIsOwn
  <2>3. Owns(d)' /\ mem'[d].pid = p /\ \A c \in Driver \ {d} : ~Owns(c)'
    BY <1>4, <2>1 DEF Owns
  <2> QED BY <1>1, <2>2, <2>3
<1> QED BY <1>3, <1>6, <1>7, <1>8, <1>9

\* create_real_vm fails before it has a child, or spawns the helper.
LEMMA RealVmStep ==
  ASSUME BootInv, NEW d \in Driver, CreateRealVm(d)
  PROVE  BootInv'
<1>1. /\ TypeOK /\ CreateControl(d) /\ pc[d] = "spawn" /\ UNCHANGED <<fsVars, faults>>
  BY DEF BootInv, CreateRealVm
<1>2. d \in Creator /\ op[d] = "create" /\ ~Owns(d)
  BY <1>1 DEF CreateControl, Owns
<1>3. CASE Return(d) /\ sock' \in {sock, NoPid} /\ UNCHANGED <<helper, booting>>
  <2>1. TypeOK' /\ booting' \subseteq Pid
    BY <1>1, <1>3, ReturnTypes DEF BootInv, TypeOK, fsVars
  <2>2. Forward
    BY <1>1, <1>3 DEF Forward, Excused
  <2>3. RecordVouched'
    BY <1>1, <2>2, RecordKept DEF fsVars
  <2>4. /\ CallVouched(d)' /\ CreateControl(d)' /\ ~Owns(d)'
        /\ \A e \in Driver \ {d} :
             pc'[e] = pc[e] /\ op'[e] = op[e] /\ mem'[e] = mem[e] /\ to'[e] = to[e]
    BY <1>1, <1>3, Returned
  <2> QED BY <1>2, <1>3, <2>1, <2>2, <2>3, <2>4, CallStep
<1>4. ASSUME NEW p \in VzPid, Spawned(d, p), SetHelper(p, "spawned"), sock' = NoPid, UNCHANGED op
      PROVE  BootInv'
  <2>1. op' = [op EXCEPT ![d] = "create"] /\ p \in Pid
    BY <1>1, <1>2, <1>4 DEF TypeOK, Pid
  <2> QED BY <1>1, <1>2, <1>4, <2>1, SpawnStep
<1> QED BY <1>3, <1>4 DEF CreateRealVm

\* create_loopback spawns the guest.
LEMMA LoopbackStep ==
  ASSUME BootInv, NEW d \in Creator, CreateLoopback(d)
  PROVE  BootInv'
<1>1. PICK p \in LoopbackPid : Spawned(d, p) /\ SetHelper(p, "starting")
  BY DEF CreateLoopback
<1>2. p \in Pid /\ p \notin VzPid
  BY HostAssumption DEF Pid
<1>3. /\ pc[d] = "idle" /\ op' = [op EXCEPT ![d] = "create"] /\ sock' = sock
      /\ UNCHANGED <<fsVars, faults>>
  BY DEF CreateLoopback
<1> QED BY <1>1, <1>2, <1>3, SpawnStep

\* wait_for_helper_ready and wait_for_guest: whoever answered is past its boot,
\* and unless excused it is the child of this create.
LEMMA WaitStep ==
  ASSUME BootInv, NEW d \in Driver, WaitReady(d)
  PROVE  BootInv'
<1>1. /\ TypeOK /\ CreateControl(d) /\ CallVouched(d) /\ SocketIsOwn /\ SocketIsVz
      /\ pc[d] = "wait" /\ pc' = [pc EXCEPT ![d] = "truncate"]
      /\ UNCHANGED <<dir, lockPath, json, helper, sock, op, fd, mem, wfd, rm, faults, booting>>
  BY DEF BootInv, WaitReady, Goto, fsVars, vmVars
<1>2. Owns(d) /\ op[d] = "create" /\ mem[d].pid \in Pid
  BY <1>1 DEF CreateControl, Owns
<1>3. PICK t \in {"Ready", "Failed"} :
        /\ to' = [to EXCEPT ![d] = t]
        /\ t = "Ready" => PeerStatus(d) = "ready"
  BY DEF WaitReady
<1>4. TypeOK' /\ booting' \subseteq Pid
  <2>1. "truncate" \in Pc /\ t \in LifecycleState
    BY DEF Pc, LockedPc, LifecycleState
  <2> QED BY <1>1, <1>3, <2>1 DEF BootInv, TypeOK
<1>5. /\ Forward /\ sock' \in {sock, NoPid}
      /\ \A p \in Pid : helper'[p] = "spawned" => helper[p] = "spawned"
  BY <1>1 DEF Forward, Excused
<1>6. /\ pc'[d] = "truncate" /\ to'[d] = t /\ op'[d] = "create" /\ mem'[d] = mem[d]
      /\ \A e \in Driver \ {d} :
           pc'[e] = pc[e] /\ op'[e] = op[e] /\ mem'[e] = mem[e] /\ to'[e] = to[e]
  BY <1>1, <1>2, <1>3 DEF TypeOK
<1>7. RecordVouched'
  BY <1>1, <1>5, RecordKept
<1>8. PeerStatus(d) = "ready" => VouchedBy(helper, Excused, mem[d].pid)
  <2> SUFFICES ASSUME PeerStatus(d) = "ready" PROVE VouchedBy(helper, Excused, mem[d].pid)
    OBVIOUS
  <2>1. Peer(d) # NoPid /\ helper[Peer(d)] = "ready"
    BY DEF PeerStatus
  <2>2. Past(helper, Peer(d))
    BY <2>1 DEF Past
  <2>3. CASE Peer(d) = mem[d].pid
    BY <1>2, <2>2, <2>3 DEF VouchedBy
  <2>4. CASE Peer(d) # mem[d].pid
    <3>1. Peer(d) = sock /\ mem[d].pid \in VzPid
      BY <1>2, <2>4 DEF Peer, Pid
    <3>2. sock \in VzPid \ {mem[d].pid}
      BY <1>1, <2>1, <2>4, <3>1 DEF SocketIsVz
    <3>3. Excused
      BY <1>1, <1>2, <2>1, <3>1, <3>2 DEF SocketIsOwn
    <3> QED BY <1>2, <2>2, <3>1, <3>2, <3>3 DEF VouchedBy
  <2> QED BY <2>3, <2>4
<1>9. CallVouched(d)'
  BY <1>1, <1>3, <1>5, <1>6, <1>8, VouchedKept DEF CallVouched, Vouched, Inviting
<1>10. CreateControl(d)' /\ Owns(d)'
  BY <1>1, <1>2, <1>6 DEF CreateControl, Owns
<1> QED BY <1>2, <1>4, <1>5, <1>6, <1>7, <1>9, <1>10, CallStep

\* A failed create takes its child with it.
LEMMA ReapStep ==
  ASSUME BootInv, NEW d \in Driver, Reap(d)
  PROVE  BootInv'
<1>1. /\ TypeOK /\ CreateControl(d) /\ pc[d] = "reap" /\ Return(d)
      /\ helper' = [helper EXCEPT ![mem[d].pid] = "exited"] /\ sock' \in {sock, NoPid}
      /\ booting' \subseteq booting
      /\ UNCHANGED <<dir, lockPath, json, faults>>
  BY DEF BootInv, Reap, Exit, fsVars
<1>2. mem[d].pid \in Pid
  BY <1>1 DEF CreateControl, Owns
<1>3. TypeOK' /\ booting' \subseteq Pid
  <2>1. "exited" \in HelperStatus /\ sock' \in Pid \union {NoPid}
    BY <1>1 DEF HelperStatus, TypeOK
  <2> QED BY <1>1, <2>1, ReturnTypes DEF BootInv, TypeOK
<1>4. Forward /\ \A p \in Pid : helper'[p] = "spawned" => helper[p] = "spawned"
  BY <1>1, HelperMoved
<1>5. /\ CallVouched(d)' /\ CreateControl(d)' /\ ~Owns(d)'
      /\ \A e \in Driver \ {d} :
           pc'[e] = pc[e] /\ op'[e] = op[e] /\ mem'[e] = mem[e] /\ to'[e] = to[e]
  BY <1>1, Returned
<1>6. RecordVouched'
  BY <1>1, <1>4, RecordKept
<1>7. helper'[mem[d].pid] # "spawned"
  BY <1>1, <1>2 DEF TypeOK
<1> QED BY <1>1, <1>3, <1>4, <1>5, <1>6, <1>7, CallStep

\* The boot of a VM ends.
LEMMA BootEndsStep ==
  ASSUME BootInv, NEW p \in Pid, BootEnds(p)
  PROVE  BootInv'
<1>1. PICK status \in {"ready", "failed"} : helper' = [helper EXCEPT ![p] = status]
  BY DEF BootEnds, SetHelper
<1>2. /\ UNCHANGED <<fsVars, callVars>> /\ faults' = faults /\ sock' = sock
      /\ booting' \subseteq booting
  BY DEF BootEnds
<1>3. TypeOK' /\ booting' \subseteq Pid
  <2>1. status \in HelperStatus
    BY DEF HelperStatus
  <2> QED BY <1>1, <1>2, <2>1 DEF BootInv, TypeOK, fsVars, callVars
<1> QED BY <1>1, <1>2, <1>3, EventStep

-----------------------------------------------------------------------------
(* The theorems. *)

\* Before the first create there is nothing to vouch for.
LEMMA BootInit == CreateInit => BootInv
<1> SUFFICES ASSUME CreateInit PROVE BootInv
  OBVIOUS
<1> USE DEF CreateInit
<1>1. TypeOK /\ booting \subseteq Pid
  <2>1. json \in [ino : Inode \union {NoInode}, life : LifecycleState,
                  pid : Pid \union {NoPid}, torn : BOOLEAN]
    BY DEF LifecycleState
  <2>2. /\ NoMem \in [life : LifecycleState, pid : Pid \union {NoPid}]
        /\ NoRm \in [dir : Inode \union {NoInode}, left : SUBSET Entries]
    BY DEF NoMem, NoRm, LifecycleState
  <2>3. /\ "unused" \in HelperStatus /\ "idle" \in Pc /\ "dispatch" \in Op
        /\ "Ready" \in LifecycleState /\ 0 \in 0 .. MaxFaults
    BY HostAssumption DEF HelperStatus, Pc, Op, LifecycleState
  <2> QED BY <2>1, <2>2, <2>3 DEF TypeOK
<1>2. RecordVouched
  BY DEF RecordVouched
<1>3. \A d \in Driver : CallVouched(d) /\ CreateControl(d) /\ ~Owns(d)
  BY DEF CallVouched, CreateControl, Owns, NoMem, Inviting
<1>4. SocketIsOwn /\ SocketIsVz
  BY <1>3 DEF SocketIsOwn, SocketIsVz
<1> QED BY <1>1, <1>2, <1>3, <1>4 DEF BootInv

\* A call of the stub, or no step at all.
LEMMA Stutters ==
  ASSUME BootInv, UNCHANGED vars, booting' \subseteq Pid
  PROVE  BootInv'
<1> USE DEF BootInv
<1>1. UNCHANGED <<dir, lockPath, json, helper, sock, pc, op, fd, mem, to, wfd, rm, faults>>
  BY DEF vars, fsVars, vmVars, callVars
<1>2. TypeOK'
  BY <1>1 DEF TypeOK
<1>3. Forward
  BY <1>1 DEF Forward, Excused
<1>4. RecordVouched'
  BY <1>1, <1>3, RecordKept
<1>5. \A d \in Driver : CallVouched(d)' /\ CreateControl(d)'
  BY <1>1, <1>3, CallKept
<1>6. SocketIsOwn' /\ SocketIsVz'
  BY <1>1 DEF SocketIsOwn, SocketIsVz, Owns, Excused
<1> QED BY <1>2, <1>4, <1>5, <1>6

\* Every step of a call, of a create and of a helper keeps the invariant.
LEMMA BootNext == BootInv /\ [CreateNext]_createVars => BootInv'
<1> SUFFICES ASSUME BootInv, [CreateNext]_createVars PROVE BootInv'
  OBVIOUS
<1>1. CASE UNCHANGED createVars
  BY <1>1, Stutters DEF createVars, BootInv
<1>2. CASE \E d \in Creator : CreatePrepare(d) \/ CreateLoopback(d)
  BY <1>2, PrepareStep, LoopbackStep
<1>3. CASE \E d \in Driver : CreateRealVm(d) \/ WaitReady(d) \/ Reap(d)
  BY <1>3, RealVmStep, WaitStep, ReapStep
<1>4. CASE \E p \in Pid : HelperListens(p) \/ BootEnds(p)
  BY <1>4, ListenStep, BootEndsStep
<1>5. CASE Next /\ booting' = {p \in booting : helper'[p] # "exited"}
  <2>1. TypeOK' /\ booting' \subseteq Pid
    BY <1>5, NextTypes DEF BootInv
  <2>2. ASSUME NEW d \in Driver, CallStub(d) PROVE BootInv'
    BY <2>1, <2>2, Stutters DEF CallStub
  <2>3. ASSUME NEW d \in Driver, \E o \in {"dispatch", "stop", "teardown"} : Call(d, o)
        PROVE  BootInv'
    BY <2>1, <2>3, PlainSteps
  <2>4. ASSUME NEW d \in Driver, Step(d) PROVE BootInv'
    BY <2>1, <2>4, PlainSteps, LoadCall, TruncateCall, WriteCall, DispatchCall, StopCall, KillCall
       DEF Step
  <2>5. ASSUME NEW d \in Driver, WriteFails(d) \/ Crash(d) PROVE BootInv'
    BY <2>1, <2>5, FaultCall
  <2>6. ASSUME NEW p \in Pid, GuestStops(p) \/ HelperExits(p) PROVE BootInv'
    <3>1. PICK status \in {"stopped", "exited"} : helper' = [helper EXCEPT ![p] = status]
      BY <2>6 DEF GuestStops, HelperExits, SetHelper
    <3>2. UNCHANGED <<fsVars, callVars>> /\ faults' = faults /\ sock' \in {sock, NoPid}
      BY <2>6 DEF GuestStops, HelperExits
    <3> QED BY <2>1, <3>1, <3>2, EventStep
  <2> QED BY <1>5, <2>2, <2>3, <2>4, <2>5, <2>6 DEF Next
<1> QED BY <1>1, <1>2, <1>3, <1>4, <1>5 DEF CreateNext

\* The invariant holds in every state of a host that creates instances.
LEMMA BootInvariant == CreateSpec => []BootInv
BY BootInit, BootNext, PTL DEF CreateSpec

\* create, beside any other calls, keeps every file, record and descriptor of its
\* type.
THEOREM CreateTypes == CreateSpec => []CreateTypeOK
<1>1. BootInv => CreateTypeOK
  BY DEF BootInv, CreateTypeOK
<1> QED BY <1>1, BootInvariant, PTL

\* A record invites dispatches only when the helper it names is past its boot,
\* for any calls, crashes and failed writes beside create; another helper has
\* answered in its place only after a fault or beside a second creator.
THEOREM BootBeforeReady == CreateSpec => []ReadyOnlyAfterBoot
<1>1. BootInv => ReadyOnlyAfterBoot
  BY DEF BootInv, RecordVouched, Inviting, Vouched, VouchedBy, Past, Excused, PastBoot,
         ReadyOnlyAfterBoot
<1> QED BY <1>1, BootInvariant, PTL
=============================================================================
