---------------------------- MODULE NbdExportProof ----------------------------
(***************************************************************************)
(* Proofs about NbdExport, part 2: every action preserves ExportInv.       *)
(***************************************************************************)
EXTENDS NbdLoopProof

-----------------------------------------------------------------------------
(***************************************************************************)
(* What steps of one kind do to the invariant.                             *)
(***************************************************************************)

Unmoved(d) == st'[d] = st[d] /\ req'[d] = req[d] /\ pos'[d] = pos[d] /\ out'[d] = out[d]

LEMMA AcceptedKept ==
  ASSUME NEW d, Unmoved(d), UNCHANGED readOnly, Accepted(d)
  PROVE  Accepted(d)'
  BY DEF Unmoved, Accepted, Refusal, End

LEMMA ContentKept ==
  ASSUME UNCHANGED <<lower, log, index>>
  PROVE  Content' = Content
  BY DEF Content, Resolve

LEMMA ProgressKept ==
  ASSUME NEW d, Unmoved(d), UNCHANGED <<lower, log, index, before>>, Progress(d)
  PROVE  Progress(d)'
<1>1. Content' = Content
  BY ContentKept
<1>2. \A r, x : Leaves(r, x)' = Leaves(r, x)
  BY DEF Leaves
<1> QED
  BY <1>1, <1>2 DEF Unmoved, Progress, Changed, Leaves

\* A thread that does not hold the mutex touches nothing but its own request.
LEMMA OutsideMutex ==
  ASSUME ExportInv, ExportTypeOK', NEW c \in Conn,
         st[c] # "running", st'[c] # "running",
         UNCHANGED <<diskVars, lockVars, readOnly>>,
         \A d \in Conn \ {c} : Unmoved(d),
         st'[c] \in {"closed", "open"} <=> req'[c] = NoRequest
  PROVE  ExportInv'
<1>1. MutexInv'
  BY DEF ExportInv, MutexInv, lockVars, Unmoved, ExportTypeOK
<1>2. CallInv'
  BY AcceptedKept DEF ExportInv, CallInv, Unmoved
<1>3. PoisonInv' /\ SlotsDistinct'
  BY DEF ExportInv, PoisonInv, SlotsDistinct, lockVars, diskVars
<1>4. LoopInv'
  <2> SUFFICES ASSUME bufKept, NEW d \in Conn, st'[d] = "running"
               PROVE  Progress(d)'
    BY DEF LoopInv, diskVars
  <2>1. d # c /\ Unmoved(d)
    OBVIOUS
  <2>2. st[d] = "running"
    BY <2>1 DEF Unmoved
  <2>3. Progress(d)
    BY <2>2 DEF ExportInv, LoopInv
  <2> QED
    BY <2>1, <2>3, ProgressKept DEF diskVars, lockVars
<1> QED
  BY <1>1, <1>2, <1>3, <1>4 DEF ExportInv

\* The holder of the mutex takes a step of its loop.
LEMMA InsideMutex ==
  ASSUME ExportInv, ExportTypeOK', NEW c \in Conn, st[c] = "running",
         UNCHANGED <<lockVars, bufKept, st, req, readOnly>>,
         \A d \in Conn \ {c} : Unmoved(d),
         Accepted(c)', SlotsDistinct', bufKept => Progress(c)'
  PROVE  ExportInv'
<1>1. MutexInv' /\ PoisonInv'
  BY DEF ExportInv, MutexInv, PoisonInv, lockVars
<1>2. CallInv'
  BY AcceptedKept DEF ExportInv, CallInv, Unmoved
<1>3. \A d \in Conn : st[d] = "running" => d = c
  BY DEF ExportInv, MutexInv
<1>4. LoopInv'
  BY <1>3 DEF LoopInv
<1> QED
  BY <1>1, <1>2, <1>4 DEF ExportInv

\* The holder of the mutex lets go of it, at the end of its request or before.
LEMMA LeaveMutex ==
  ASSUME ExportInv, ExportTypeOK', NEW c \in Conn, st[c] = "running",
         holder' = NoConn, st'[c] \in {"reply", "closed"},
         UNCHANGED <<lower, log, index, readOnly>>, bufKept' => bufKept,
         poisoned' => ~bufKept',
         \A d \in Conn \ {c} : Unmoved(d),
         st'[c] = "closed" <=> req'[c] = NoRequest
  PROVE  ExportInv'
<1>1. \A d \in Conn : st'[d] # "running"
  BY DEF ExportInv, MutexInv, Unmoved
<1>2. MutexInv' /\ LoopInv' /\ PoisonInv'
  BY <1>1 DEF MutexInv, LoopInv, PoisonInv
<1>3. CallInv'
  BY <1>1 DEF ExportInv, CallInv, Unmoved
<1>4. SlotsDistinct'
  BY DEF ExportInv, SlotsDistinct
<1> QED
  BY <1>2, <1>3, <1>4 DEF ExportInv

\* No thread moves.
LEMMA ProcessStep ==
  ASSUME ExportInv, ExportTypeOK', UNCHANGED <<diskVars, lockVars, connVars, readOnly>>
  PROVE  ExportInv'
<1>1. MutexInv' /\ PoisonInv' /\ SlotsDistinct'
  BY DEF ExportInv, MutexInv, PoisonInv, SlotsDistinct, diskVars, lockVars, connVars
<1>2. \A d \in Conn : Unmoved(d)
  BY DEF Unmoved, connVars
<1>3. CallInv'
  BY <1>2, AcceptedKept DEF ExportInv, CallInv, Unmoved
<1>4. LoopInv'
  BY <1>2, ProgressKept DEF ExportInv, LoopInv, Unmoved, diskVars, lockVars
<1> QED
  BY <1>1, <1>3, <1>4 DEF ExportInv

-----------------------------------------------------------------------------
(***************************************************************************)
(* Every action preserves the invariant.                                   *)
(***************************************************************************)

LEMMA ForgetTypes ==
  ASSUME ExportTypeOK, NEW c \in Conn, NEW s \in ConnState, Forget(c, s)
  PROVE  /\ st' \in [Conn -> ConnState]
         /\ req' \in [Conn -> Request \union {NoRequest}]
         /\ pos' \in [Conn -> Nat]
         /\ out' \in [Conn -> Buffer]
         /\ code' \in [Conn -> ReplyCode]
         /\ st'[c] = s /\ req'[c] = NoRequest
         /\ \A d \in Conn \ {c} : Unmoved(d)
  BY NoDataIsBuffer DEF ExportTypeOK, Forget, SetState, Unmoved, ReplyCode

LEMMA RefusalCode == \A r : Refusal(r) \in ReplyCode
  BY DEF Refusal, ReplyCode

LEMMA ConnectInv ==
  ASSUME ExportInv, NEW c \in Conn, Connect(c)
  PROVE  ExportInv'
<1>1. /\ st' = [st EXCEPT ![c] = "open"] /\ st[c] = "closed"
      /\ UNCHANGED <<diskVars, lockVars, req, pos, out, code, sealVars, optVars, faults>>
  BY DEF Connect, SetState
<1>2. ExportTypeOK'
  BY <1>1 DEF ExportInv, ExportTypeOK, ConnState, diskVars, lockVars, sealVars, optVars
<1>3. st'[c] = "open" /\ \A d \in Conn \ {c} : Unmoved(d)
  BY <1>1 DEF ExportInv, ExportTypeOK, Unmoved
<1>4. req'[c] = NoRequest
  BY <1>1 DEF ExportInv, CallInv
<1> QED
  BY <1>1, <1>2, <1>3, <1>4, OutsideMutex DEF optVars

LEMMA DisconnectInv ==
  ASSUME ExportInv, NEW c \in Conn, Disconnect(c)
  PROVE  ExportInv'
<1>1. /\ st[c] = "open" /\ Forget(c, "closed") /\ "closed" \in ConnState
      /\ UNCHANGED <<diskVars, lockVars, sealVars, optVars, faults>>
  BY DEF Disconnect, ConnState
<1>2. ExportTypeOK'
  BY <1>1, ForgetTypes DEF ExportInv, ExportTypeOK, diskVars, lockVars, sealVars, optVars
<1> QED
  BY <1>1, <1>2, ForgetTypes, OutsideMutex DEF ExportInv, optVars

LEMMA ReceiveInv ==
  ASSUME ExportInv, NEW c \in Conn, Receive(c)
  PROVE  ExportInv'
<1>1. PICK r \in Request : req' = [req EXCEPT ![c] = r]
  BY DEF Receive
<1>2. /\ st' = [st EXCEPT ![c] = "queued"] /\ st[c] = "open"
      /\ UNCHANGED <<diskVars, lockVars, pos, out, code, sealVars, optVars, faults>>
  BY DEF Receive, SetState
<1>3. ExportTypeOK'
  BY <1>1, <1>2 DEF ExportInv, ExportTypeOK, ConnState, diskVars, lockVars, sealVars, optVars
<1>4. /\ st'[c] = "queued" /\ req'[c] = r /\ r # NoRequest
      /\ \A d \in Conn \ {c} : Unmoved(d)
  BY <1>1, <1>2, ExportAssumption DEF ExportInv, ExportTypeOK, Unmoved
<1> QED
  BY <1>2, <1>3, <1>4, OutsideMutex DEF optVars

LEMMA RefuseInv ==
  ASSUME ExportInv, NEW c \in Conn, Refuse(c)
  PROVE  ExportInv'
<1>1. /\ st' = [st EXCEPT ![c] = "reply"] /\ st[c] = "queued"
      /\ code' = [code EXCEPT ![c] = Refusal(req[c])]
      /\ UNCHANGED <<diskVars, lockVars, req, pos, out, sealVars, optVars, faults>>
  BY DEF Refuse, SetState
<1>2. ExportTypeOK'
  BY <1>1, RefusalCode DEF ExportInv, ExportTypeOK, ConnState, diskVars, lockVars, sealVars, optVars
<1>3. /\ st'[c] = "reply" /\ \A d \in Conn \ {c} : Unmoved(d)
      /\ req'[c] # NoRequest
  BY <1>1 DEF ExportInv, ExportTypeOK, CallInv, Unmoved
<1> QED
  BY <1>1, <1>2, <1>3, OutsideMutex DEF optVars

LEMMA ReplyInv ==
  ASSUME ExportInv, NEW c \in Conn, Reply(c)
  PROVE  ExportInv'
<1>1. PICK s \in {"open", "closed"} : Forget(c, s)
  BY DEF Reply
<1>2. /\ st[c] = "reply" /\ s \in ConnState
      /\ UNCHANGED <<diskVars, lockVars, sealVars, optVars, faults>>
  BY DEF Reply, ConnState
<1>3. ExportTypeOK'
  BY <1>1, <1>2, ForgetTypes DEF ExportInv, ExportTypeOK, diskVars, lockVars, sealVars, optVars
<1> QED
  BY <1>1, <1>2, <1>3, ForgetTypes, OutsideMutex DEF ExportInv, optVars

LEMMA LockInv ==
  ASSUME ExportInv, NEW c \in Conn, Lock(c)
  PROVE  ExportInv'
<1>. DEFINE r == req[c]
            buf == IF r.cmd = "READ" THEN [i \in 0 .. r.len - 1 |-> 0] ELSE NoData
<1>1. /\ st[c] = "queued" /\ Refusal(r) = "ok" /\ holder = NoConn
      /\ UNCHANGED <<diskVars, poisoned, sealVars, optVars, faults>>
  BY DEF Lock
<1>2. r # NoRequest /\ r \in Request
  BY <1>1 DEF ExportInv, CallInv, ExportTypeOK
<1>3. /\ r.off \in Nat /\ r.len \in Nat /\ End(r) \in Nat /\ r.off <= End(r)
      /\ r.cmd = "READ" => r.len <= VirtualSize
  <2>1. /\ r.off \in Nat /\ r.len \in Nat /\ End(r) \in Nat /\ r.off <= End(r)
        /\ r.cmd = "READ" => End(r) = r.off + r.len /\ End(r) <= VirtualSize
    BY <1>1, <1>2, AcceptedRequest
  <2> QED
    BY <2>1, VirtualSizeNat
<1>4. /\ IF r.cmd = "READ" THEN buf \in Data(r.len) ELSE buf = NoData
      /\ buf \in Buffer
  <2>1. CASE r.cmd = "READ"
    <3>1. buf \in Data(r.len)
      BY <2>1, GeometryAssumption DEF Data
    <3>2. r.len \in 0 .. VirtualSize
      BY <1>3, <2>1, VirtualSizeNat
    <3> QED
      BY <2>1, <3>1, <3>2 DEF Buffer
  <2>2. CASE r.cmd # "READ"
    BY <2>2, NoDataIsBuffer
  <2> QED
    BY <2>1, <2>2
<1>5. CASE poisoned
  <2>1. Forget(c, "closed") /\ UNCHANGED <<holder, before>> /\ "closed" \in ConnState
    BY <1>5 DEF Lock, ConnState
  <2>2. ExportTypeOK'
    BY <1>1, <2>1, ForgetTypes DEF ExportInv, ExportTypeOK, diskVars, sealVars, optVars
  <2> QED
    BY <1>1, <2>1, <2>2, ForgetTypes, OutsideMutex DEF ExportInv, optVars, lockVars
<1>6. CASE ~poisoned
  <2>1. /\ holder' = c /\ before' = Content
        /\ st' = [st EXCEPT ![c] = "running"]
        /\ pos' = [pos EXCEPT ![c] = r.off]
        /\ out' = [out EXCEPT ![c] = buf]
        /\ UNCHANGED <<req, code>>
    BY <1>6 DEF Lock, SetState
  <2>. HIDE DEF buf
  <2>2. Content \in [Address -> Byte]
    BY ContentType DEF ExportInv
  <2>3. ExportTypeOK'
    BY <1>1, <1>3, <1>4, <2>1, <2>2
    DEF ExportInv, ExportTypeOK, ConnState, diskVars, sealVars, optVars
  <2>4. /\ st'[c] = "running" /\ pos'[c] = r.off /\ out'[c] = buf /\ req'[c] = r
        /\ \A d \in Conn \ {c} : Unmoved(d)
    BY <2>1 DEF ExportInv, ExportTypeOK, Unmoved
  <2>5. \A d \in Conn : st[d] # "running"
    BY <1>1, ExportAssumption DEF ExportInv, MutexInv
  <2>6. \A d \in Conn \ {c} : st'[d] # "running"
    BY <2>4, <2>5 DEF Unmoved
  <2>7. MutexInv'
    BY <2>1, <2>4, <2>6 DEF MutexInv
  <2>8. Accepted(c)'
    <3>1. Refusal(req[c])' = Refusal(r) /\ End(req[c])' = End(r)
      BY <1>1, <2>4 DEF Refusal, End, optVars
    <3>2. r.off \in r.off .. End(r)
      BY <1>3
    <3> QED
      BY <1>1, <1>4, <2>4, <3>1, <3>2 DEF Accepted
  <2>9. CallInv'
    BY <1>1, <1>2, <2>4, <2>6, <2>8 DEF ExportInv, CallInv, Unmoved
  <2>10. PoisonInv' /\ SlotsDistinct'
    BY <1>1 DEF ExportInv, PoisonInv, SlotsDistinct, diskVars
  <2>11. Content' = Content
    BY <1>1, ContentKept DEF diskVars
  <2>12. Progress(c)'
    <3>1. \A x \in Address : ~(r.off <= x /\ x < r.off)
      BY <1>3, AddressInBlock
    <3>2. \A i \in 0 .. r.len - 1 : ~(r.off + i < r.off)
      BY <1>3
    <3>3. \A x \in Address : ~Changed(req[c], pos[c], x)' /\ Content'[x] = before'[x]
      BY <2>1, <2>4, <2>11, <3>1 DEF Changed
    <3> QED
      BY <2>4, <3>2, <3>3 DEF Progress
  <2>13. LoopInv'
    BY <2>6, <2>12 DEF LoopInv
  <2> QED
    BY <2>3, <2>7, <2>9, <2>10, <2>13 DEF ExportInv
<1> QED
  BY <1>5, <1>6

LEMMA AdvanceFacts ==
  ASSUME ExportInv, NEW c \in Conn, InLoop(c), Advance(c)
  PROVE  /\ pos' \in [Conn -> Nat]
         /\ pos'[c] = pos[c] + N(c)
         /\ pos'[c] \in req[c].off .. End(req[c])
         /\ \A d \in Conn \ {c} : pos'[d] = pos[d]
<1>1. /\ pos \in [Conn -> Nat] /\ N(c) \in Nat
      /\ pos[c] + N(c) <= End(req[c]) /\ req[c].off <= pos[c]
  <2>1. st[c] = "running" /\ N(c) \in Nat /\ pos[c] + N(c) <= End(req[c])
    BY LoopBounds, GeometryAssumption
  <2> QED
    BY <2>1, RunningBounds DEF ExportInv, ExportTypeOK
<1>2. req[c].off \in Nat /\ End(req[c]) \in Nat
  <2>1. req[c] \in Request /\ Refusal(req[c]) = "ok"
    BY LoopBounds, RunningBounds
  <2> QED
    BY <2>1, AcceptedRequest
<1> QED
  BY <1>1, <1>2 DEF Advance

LEMMA ReadChunkInv ==
  ASSUME ExportInv, NEW c \in Conn, ReadChunk(c)
  PROVE  ExportInv'
<1>. DEFINE r == req[c]
            buf == [i \in DOMAIN out[c] |->
                      LET x == r.off + i
                      IN  IF pos[c] <= x /\ x < pos[c] + N(c)
                            THEN Resolve(Blk(c))[At(c) + (x - pos[c])]
                            ELSE out[c][i]]
<1>1. /\ InLoop(c) /\ r.cmd = "READ" /\ bufKept /\ Advance(c)
      /\ UNCHANGED <<diskVars, lockVars, st, req, code, sealVars, optVars, faults>>
  BY DEF ReadChunk
<1>2. out' = [out EXCEPT ![c] = buf]
  BY DEF ReadChunk
<1>3. /\ st[c] = "running" /\ r \in Request /\ Refusal(r) = "ok" /\ r.cmd # "FLUSH"
      /\ pos[c] \in Nat /\ N(c) \in Nat
      /\ pos[c] + N(c) <= VirtualSize
  <2>1. /\ st[c] = "running" /\ r.cmd # "FLUSH" /\ N(c) \in Nat
        /\ pos[c] + N(c) <= VirtualSize
    BY <1>1, LoopBounds, GeometryAssumption
  <2> QED
    BY <2>1, RunningBounds
<1>4. /\ r.off \in Nat /\ r.len \in Nat /\ r.len <= VirtualSize
      /\ r.off + r.len <= VirtualSize
  BY <1>3, AcceptedRequest, VirtualSizeNat
<1>5. Accepted(c) /\ Progress(c)
  BY <1>1, <1>3 DEF ExportInv, CallInv, LoopInv
<1>6. out[c] \in [0 .. r.len - 1 -> Byte]
  BY <1>1, <1>5 DEF Accepted, Data
<1>7. ASSUME NEW i \in 0 .. r.len - 1, pos[c] <= r.off + i, r.off + i < pos[c] + N(c)
      PROVE  /\ Resolve(Blk(c))[At(c) + ((r.off + i) - pos[c])] = Content[r.off + i]
             /\ Content[r.off + i] = before[r.off + i]
             /\ Content[r.off + i] \in Byte
  <2>. DEFINE x == r.off + i
  <2>1. x \in Address /\ InChunk(c, x)
    BY <1>4, <1>7, VirtualSizeNat DEF Address, InChunk
  <2>2. BlockOf(x) = Blk(c) /\ BlockOffset(x) = At(c) + (x - pos[c])
    BY <1>1, <2>1, ChunkAddress
  <2>3. Content[x] = Resolve(BlockOf(x))[BlockOffset(x)]
    BY <2>1 DEF Content
  <2>4. Content[x] = before[x]
    BY <1>1, <1>5, <2>1 DEF Progress, Changed, Changing
  <2>5. Content[x] \in Byte
    BY <2>1, ContentType DEF ExportInv
  <2> QED
    BY <2>2, <2>3, <2>4, <2>5
<1>8. /\ buf \in [0 .. r.len - 1 -> Byte]
      /\ \A i \in 0 .. r.len - 1 :
           /\ pos[c] <= r.off + i /\ r.off + i < pos[c] + N(c) => buf[i] = before[r.off + i]
           /\ r.off + i < pos[c] => buf[i] = out[c][i]
  <2>1. DOMAIN out[c] = 0 .. r.len - 1 /\ \A i \in 0 .. r.len - 1 : out[c][i] \in Byte
    BY <1>6
  <2>2. ASSUME NEW i \in 0 .. r.len - 1
        PROVE  /\ buf[i] = IF pos[c] <= r.off + i /\ r.off + i < pos[c] + N(c)
                             THEN Resolve(Blk(c))[At(c) + ((r.off + i) - pos[c])]
                             ELSE out[c][i]
    BY <2>1
  <2>3. buf = [i \in 0 .. r.len - 1 |-> buf[i]]
    BY <2>1
  <2>. HIDE DEF buf
  <2>4. ASSUME NEW i \in 0 .. r.len - 1
        PROVE  /\ buf[i] \in Byte
               /\ pos[c] <= r.off + i /\ r.off + i < pos[c] + N(c) => buf[i] = before[r.off + i]
               /\ r.off + i < pos[c] => buf[i] = out[c][i]
    <3>1. CASE pos[c] <= r.off + i /\ r.off + i < pos[c] + N(c)
      <4>1. ~(r.off + i < pos[c])
        BY <1>3, <1>4, <3>1
      <4>2. buf[i] = Content[r.off + i]
        BY <1>7, <2>2, <3>1
      <4> QED
        BY <1>7, <3>1, <4>1, <4>2
    <3>2. CASE ~(pos[c] <= r.off + i /\ r.off + i < pos[c] + N(c))
      BY <2>1, <2>2, <3>2
    <3> QED
      BY <3>1, <3>2
  <2> QED
    BY <2>3, <2>4
<1>. HIDE DEF buf
<1>9. buf \in Data(r.len) /\ buf \in Buffer
  <2>1. buf \in Data(r.len)
    BY <1>8 DEF Data
  <2>2. r.len \in 0 .. VirtualSize
    BY <1>4, VirtualSizeNat
  <2> QED
    BY <2>1, <2>2 DEF Buffer
<1>10. /\ pos' \in [Conn -> Nat]
       /\ pos'[c] = pos[c] + N(c)
       /\ pos'[c] \in r.off .. End(r)
       /\ \A d \in Conn \ {c} : pos'[d] = pos[d]
  BY <1>1, AdvanceFacts
<1>11. ExportTypeOK'
  BY <1>1, <1>2, <1>9, <1>10
  DEF ExportInv, ExportTypeOK, diskVars, lockVars, sealVars, optVars
<1>12. out'[c] = buf /\ \A d \in Conn \ {c} : Unmoved(d)
  BY <1>1, <1>2, <1>10 DEF ExportInv, ExportTypeOK, Unmoved
<1>13. Accepted(c)'
  BY <1>1, <1>3, <1>9, <1>10, <1>12 DEF Accepted, Refusal, End, optVars
<1>14. SlotsDistinct'
  BY <1>1 DEF ExportInv, SlotsDistinct, diskVars
<1>15. Content' = Content
  BY <1>1, ContentKept DEF diskVars
<1>16. ASSUME NEW x \in Address
       PROVE  ~Changed(req[c], pos[c], x) /\ ~Changed(req[c], pos'[c], x)
  BY <1>1 DEF Changed, Changing
<1>17. ASSUME NEW i \in 0 .. r.len - 1, r.off + i < pos'[c]
       PROVE  buf[i] = before[r.off + i]
  <2>1. CASE r.off + i < pos[c]
    BY <1>1, <1>5, <1>8, <2>1 DEF Progress
  <2>2. CASE ~(r.off + i < pos[c])
    <3>1. pos[c] <= r.off + i /\ r.off + i < pos[c] + N(c)
      BY <1>3, <1>4, <1>10, <1>17, <2>2
    <3> QED
      BY <1>8, <3>1
  <2> QED
    BY <2>1, <2>2
<1>18. Progress(c)'
  <2>1. req'[c] = r /\ before' = before /\ out'[c] = buf
    BY <1>1, <1>12 DEF lockVars
  <2>2. \A x \in Address : ~Changed(req[c], pos[c], x)' /\ Content'[x] = before'[x]
    BY <1>1, <1>5, <1>15, <1>16, <2>1 DEF Progress, Changed
  <2> QED
    BY <1>17, <2>1, <2>2 DEF Progress
<1> QED
  BY <1>1, <1>3, <1>11, <1>12, <1>13, <1>14, <1>18, InsideMutex DEF diskVars, optVars

\* An iteration that changes the scratch.
LEMMA ChangeInv ==
  ASSUME ExportInv, NEW c \in Conn, InLoop(c), req[c].cmd \in Changing, Advance(c),
         UNCHANGED <<lower, bufKept, lockVars, st, req, out, code, sealVars, optVars, faults>>,
         log' \in Seq(Payload), DOMAIN index' \subseteq Block,
         \A a \in DOMAIN index' : index'[a] \in 0 .. Len(log'),
         SlotsDistinct', bufKept => Carried(c)
  PROVE  ExportInv'
<1>1. /\ pos' \in [Conn -> Nat]
      /\ pos'[c] \in req[c].off .. End(req[c])
      /\ \A d \in Conn \ {c} : pos'[d] = pos[d]
  BY AdvanceFacts
<1>2. ExportTypeOK'
  BY <1>1 DEF ExportInv, ExportTypeOK, lockVars, sealVars, optVars
<1>3. \A d \in Conn \ {c} : Unmoved(d)
  BY <1>1 DEF Unmoved
<1>4. st[c] = "running" /\ Accepted(c)
  BY LoopBounds DEF ExportInv, CallInv
<1>5. Accepted(c)'
  BY <1>1, <1>4 DEF Accepted, Refusal, End, optVars
<1>6. bufKept => Progress(c)'
  BY ProgressStep DEF lockVars
<1> QED
  BY <1>2, <1>3, <1>4, <1>5, <1>6, InsideMutex DEF optVars

LEMMA MergedInv ==
  ASSUME ExportInv, NEW c \in Conn, InLoop(c), req[c].cmd \in Changing, Advance(c),
         WriteBlock(Blk(c), Merged(c)),
         UNCHANGED <<lower, bufKept, lockVars, st, req, out, code, sealVars, optVars, faults>>
  PROVE  ExportInv'
<1>1. Blk(c) \in Block /\ Merged(c) \in Payload
  BY LoopBounds, MergedType
<1>2. /\ log' \in Seq(Payload)
      /\ DOMAIN index' \subseteq Block
      /\ \A a \in DOMAIN index' : index'[a] \in 0 .. Len(log')
      /\ bufKept =>
           /\ \A a \in DOMAIN index' : index'[a] < Len(log')
           /\ \A a, d \in DOMAIN index' : index'[a] = index'[d] => a = d
  BY <1>1, WriteBlockEffect
<1>3. SlotsDistinct'
  BY <1>2 DEF SlotsDistinct
<1>4. bufKept => Carried(c)
  BY MergedCarried
<1> QED
  BY <1>2, <1>3, <1>4, ChangeInv

LEMMA WriteChunkInv ==
  ASSUME ExportInv, NEW c \in Conn, WriteChunk(c)
  PROVE  ExportInv'
  BY MergedInv DEF WriteChunk, Changing

LEMMA ZeroChunkInv ==
  ASSUME ExportInv, NEW c \in Conn, ZeroChunk(c)
  PROVE  ExportInv'
  BY MergedInv DEF ZeroChunk, Changing

LEMMA ZeroNothingInv ==
  ASSUME ExportInv, NEW c \in Conn, ZeroNothing(c)
  PROVE  ExportInv'
<1>1. /\ InLoop(c) /\ req[c].cmd \in Changing /\ Advance(c) /\ ~bufKept
      /\ UNCHANGED <<lower, log, bufKept, lockVars, st, req, out, code, sealVars, optVars, faults>>
  BY DEF ZeroNothing, Changing
<1>2. index' = [x \in DOMAIN index \union {Blk(c)} |->
                  IF x = Blk(c) THEN Len(log) ELSE index[x]]
  BY DEF ZeroNothing
<1>3. /\ Blk(c) \in Block /\ log \in Seq(Payload) /\ DOMAIN index \subseteq Block
      /\ \A a \in DOMAIN index : index[a] \in 0 .. Len(log)
  BY <1>1, LoopBounds DEF ExportInv, ExportTypeOK
<1>4. /\ log' \in Seq(Payload) /\ DOMAIN index' \subseteq Block
      /\ \A a \in DOMAIN index' : index'[a] \in 0 .. Len(log')
  BY <1>1, <1>2, <1>3
<1>5. SlotsDistinct'
  BY <1>1 DEF SlotsDistinct
<1> QED
  BY <1>1, <1>4, <1>5, ChangeInv

LEMMA TrimChunkInv ==
  ASSUME ExportInv, NEW c \in Conn, TrimChunk(c)
  PROVE  ExportInv'
<1>1. /\ InLoop(c) /\ req[c].cmd = "TRIM" /\ req[c].cmd \in Changing /\ Advance(c)
      /\ UNCHANGED <<lower, bufKept, lockVars, st, req, out, code, sealVars, optVars, faults>>
  BY DEF TrimChunk, Changing
<1>2. CASE Whole(c) /\ ForgetBlock(Blk(c))
  <2>1. Blk(c) \in Block
    BY <1>1, LoopBounds
  <2>2. /\ log' \in Seq(Payload) /\ DOMAIN index' \subseteq Block
        /\ \A a \in DOMAIN index' : index'[a] \in 0 .. Len(log')
        /\ SlotsDistinct'
    BY <1>1, <1>2, <2>1, ForgetBlockEffect DEF ExportInv
  <2>3. Carried(c)
    BY <1>1, <1>2, ForgetCarried
  <2> QED
    BY <1>1, <2>2, <2>3, ChangeInv
<1>3. CASE WriteBlock(Blk(c), Merged(c))
  BY <1>1, <1>3, MergedInv
<1> QED
  BY <1>2, <1>3 DEF TrimChunk

LEMMA ZeroDiskType == ZeroDisk \in [Address -> Byte]
  BY GeometryAssumption DEF ZeroDisk

LEMMA UnlockFacts ==
  ASSUME ExportTypeOK, NEW c \in Conn, NEW e \in ReplyCode, Unlock(c, e)
  PROVE  /\ holder' = NoConn /\ before' \in [Address -> Byte]
         /\ st' \in [Conn -> ConnState] /\ code' \in [Conn -> ReplyCode]
         /\ st'[c] = "reply" /\ code'[c] = e
         /\ \A d \in Conn \ {c} : Unmoved(d) /\ code'[d] = code[d]
         /\ UNCHANGED <<poisoned, req, pos, out>>
  BY ZeroDiskType DEF ExportTypeOK, Unlock, SetState, Unmoved, ConnState

\* The holder answers its request and drops the guard.
LEMMA UnlockInv ==
  ASSUME ExportInv, NEW c \in Conn, st[c] = "running",
         NEW e \in ReplyCode, Unlock(c, e),
         UNCHANGED <<lower, log, index, sealVars, optVars>>,
         bufKept' \in BOOLEAN, bufKept' => bufKept, faults' \in 0 .. MaxFaults
  PROVE  ExportInv'
<1>1. ExportTypeOK'
  BY UnlockFacts DEF ExportInv, ExportTypeOK, sealVars, optVars
<1>2. req'[c] # NoRequest /\ (poisoned' => ~bufKept')
  BY UnlockFacts DEF ExportInv, CallInv, PoisonInv
<1> QED
  BY <1>1, <1>2, UnlockFacts, LeaveMutex DEF ExportInv, optVars

LEMMA ChunkFailsInv ==
  ASSUME ExportInv, NEW c \in Conn, ChunkFails(c)
  PROVE  ExportInv'
<1>1. /\ st[c] = "running" /\ Unlock(c, "EIO") /\ "EIO" \in ReplyCode
      /\ UNCHANGED <<lower, log, index, sealVars, optVars>>
  BY DEF ChunkFails, InLoop, ReplyCode
<1>2. bufKept \in BOOLEAN /\ faults \in 0 .. MaxFaults /\ MaxFaults \in Nat
  BY ExportAssumption DEF ExportInv, ExportTypeOK
<1>3. bufKept' \in BOOLEAN /\ (bufKept' => bufKept)
  <2>1. bufKept' = bufKept \/ bufKept' = FALSE
    BY DEF ChunkFails
  <2>2. CASE bufKept' = bufKept
    BY <1>2, <2>2
  <2>3. CASE bufKept' = FALSE
    BY <2>3
  <2> QED
    BY <2>1, <2>2, <2>3
<1>4. faults' \in 0 .. MaxFaults
  BY <1>2 DEF ChunkFails
<1> QED
  BY <1>1, <1>3, <1>4, UnlockInv

LEMMA FinishInv ==
  ASSUME ExportInv, NEW c \in Conn, Finish(c)
  PROVE  ExportInv'
<1>1. /\ st[c] = "running" /\ UNCHANGED <<lower, log, index, sealVars, optVars>>
      /\ bufKept' = bufKept /\ bufKept \in BOOLEAN
  BY DEF Finish, diskVars, ExportInv, ExportTypeOK
<1>2. faults \in 0 .. MaxFaults /\ MaxFaults \in Nat
  BY ExportAssumption DEF ExportInv, ExportTypeOK
<1>3. faults' \in 0 .. MaxFaults
  BY <1>2 DEF Finish
<1>4. PICK e \in ReplyCode : Unlock(c, e)
  BY DEF Finish, ReplyCode
<1> QED
  BY <1>1, <1>3, <1>4, UnlockInv

LEMMA ChunkPanicsInv ==
  ASSUME ExportInv, NEW c \in Conn, ChunkPanics(c)
  PROVE  ExportInv'
<1>1. /\ st[c] = "running" /\ ~bufKept /\ poisoned' = TRUE
      /\ holder' = NoConn /\ before' = ZeroDisk
      /\ Forget(c, "closed") /\ "closed" \in ConnState
      /\ UNCHANGED <<diskVars, sealVars, optVars, faults>>
  BY DEF ChunkPanics, InLoop, ConnState
<1>2. ExportTypeOK'
  BY <1>1, ForgetTypes, ZeroDiskType DEF ExportInv, ExportTypeOK, diskVars, sealVars, optVars
<1>3. /\ st'[c] = "closed" /\ req'[c] = NoRequest
      /\ \A d \in Conn \ {c} : Unmoved(d)
  BY <1>1, ForgetTypes DEF ExportInv
<1> QED
  BY <1>1, <1>2, <1>3, LeaveMutex DEF diskVars, optVars

\* The layer that sealing the scratch makes of its live blocks.
LEMMA SealedLayer ==
  ASSUME ExportTypeOK, \A b \in DOMAIN index : index[b] < Len(log)
  PROVE  [b \in DOMAIN index |-> log[index[b] + 1]] \in Layer
<1>1. /\ log \in Seq(Payload) /\ Len(log) \in Nat /\ DOMAIN index \in SUBSET Block
      /\ \A b \in DOMAIN index : index[b] \in 0 .. Len(log)
  BY DEF ExportTypeOK
<1>2. ASSUME NEW b \in DOMAIN index
      PROVE  log[index[b] + 1] \in Payload
  <2>1. index[b] + 1 \in 1 .. Len(log)
    BY <1>1
  <2> QED
    BY <1>1, <2>1
<1>3. [b \in DOMAIN index |-> log[index[b] + 1]] \in [DOMAIN index -> Payload]
  BY <1>2
<1> QED
  BY <1>1, <1>3 DEF Layer

LEMMA SealScratchInv ==
  ASSUME ExportInv, SealScratch
  PROVE  ExportInv'
<1>1. /\ staged' = <<[b \in DOMAIN index |-> log[index[b] + 1]]>>
      /\ \A b \in DOMAIN index : index[b] < Len(log)
      /\ UNCHANGED <<diskVars, lockVars, connVars, stored, optVars, faults>>
  BY DEF SealScratch
<1>2. [b \in DOMAIN index |-> log[index[b] + 1]] \in Layer
  BY <1>1, SealedLayer DEF ExportInv
<1>3. staged' \in Seq(Layer)
  BY <1>1, <1>2
<1>4. ExportTypeOK'
  BY <1>1, <1>3 DEF ExportInv, ExportTypeOK, diskVars, lockVars, connVars, optVars
<1> QED
  BY <1>1, <1>4, ProcessStep DEF optVars

LEMMA RecordFrozenLayerInv ==
  ASSUME ExportInv, RecordFrozenLayer
  PROVE  ExportInv'
<1>1. /\ stored' = lower \o staged
      /\ UNCHANGED <<diskVars, lockVars, connVars, staged, optVars, faults>>
  BY DEF RecordFrozenLayer
<1>2. stored' \in Seq(Layer)
  BY <1>1 DEF ExportInv, ExportTypeOK
<1>3. ExportTypeOK'
  BY <1>1, <1>2 DEF ExportInv, ExportTypeOK, diskVars, lockVars, connVars, optVars
<1> QED
  BY <1>1, <1>3, ProcessStep DEF optVars

LEMMA ShutdownInv ==
  ASSUME ExportInv, Shutdown
  PROVE  ExportInv'
<1>1. ExportTypeOK'
  BY DEF Shutdown, ExportInv, ExportTypeOK, diskVars, lockVars, connVars, sealVars
<1> QED
  BY <1>1, ProcessStep DEF Shutdown

\* A server process that starts: all threads, the mutex and the scratch are new.
Fresh ==
  /\ log = <<>> /\ index = [b \in {} |-> 0]
  /\ bufKept = TRUE /\ poisoned = FALSE /\ holder = NoConn
  /\ st = [c \in Conn |-> "closed"]
  /\ req = [c \in Conn |-> NoRequest]
  /\ pos = [c \in Conn |-> 0]
  /\ out = [c \in Conn |-> NoData]
  /\ code = [c \in Conn |-> "ok"]
  /\ before = ZeroDisk

LEMMA FreshInv ==
  ASSUME Fresh, lower \in Seq(Layer), stored \in Seq(Layer), staged = <<>>,
         accepting \in BOOLEAN, readOnly \in BOOLEAN, faults \in 0 .. MaxFaults
  PROVE  ExportInv
<1>1. log \in Seq(Payload) /\ staged \in Seq(Layer) /\ DOMAIN index = {}
  BY DEF Fresh
<1>2. ExportTypeOK
  BY <1>1, NoDataIsBuffer, ZeroDiskType DEF Fresh, ExportTypeOK, ConnState, ReplyCode
<1>3. \A c \in Conn : st[c] = "closed" /\ req[c] = NoRequest
  BY DEF Fresh
<1>4. MutexInv /\ CallInv /\ PoisonInv /\ LoopInv
  BY <1>3 DEF Fresh, MutexInv, CallInv, PoisonInv, LoopInv
<1>5. SlotsDistinct
  BY <1>1 DEF SlotsDistinct
<1> QED
  BY <1>2, <1>4, <1>5 DEF ExportInv

LEMMA InitInv == Init => ExportInv
<1> SUFFICES ASSUME Init PROVE ExportInv
  OBVIOUS
<1>1. Fresh
  BY DEF Init, Fresh
<1>2. /\ lower \in Seq(Layer) /\ stored \in Seq(Layer) /\ staged = <<>>
      /\ accepting \in BOOLEAN /\ readOnly \in BOOLEAN /\ faults \in 0 .. MaxFaults
  BY ExportAssumption DEF Init
<1> QED
  BY <1>1, <1>2, FreshInv

LEMMA ServeScratchInv ==
  ASSUME ExportInv, ServeScratch
  PROVE  ExportInv'
<1>1. Fresh'
  BY DEF ServeScratch, Fresh, ZeroDisk, NoData
<1>2. /\ lower' \in Seq(Layer) /\ stored' \in Seq(Layer) /\ staged' = <<>>
      /\ accepting' \in BOOLEAN /\ readOnly' \in BOOLEAN /\ faults' \in 0 .. MaxFaults
  BY DEF ServeScratch, ExportInv, ExportTypeOK
<1>3. ( /\ Fresh /\ lower \in Seq(Layer) /\ stored \in Seq(Layer) /\ staged = <<>>
        /\ accepting \in BOOLEAN /\ readOnly \in BOOLEAN /\ faults \in 0 .. MaxFaults
        => ExportInv )'
  BY FreshInv, PTL
<1> QED
  BY <1>1, <1>2, <1>3

LEMMA StutterInv == ExportInv /\ UNCHANGED vars => ExportInv'
<1> SUFFICES ASSUME ExportInv, UNCHANGED vars PROVE ExportInv'
  OBVIOUS
<1>1. UNCHANGED <<diskVars, lockVars, connVars, sealVars, optVars, faults>>
  BY DEF vars
<1>2. ExportTypeOK'
  BY <1>1 DEF ExportInv, ExportTypeOK, diskVars, lockVars, connVars, sealVars, optVars
<1> QED
  BY <1>1, <1>2, ProcessStep DEF optVars

LEMMA NextInv == ExportInv /\ [Next]_vars => ExportInv'
<1> SUFFICES ASSUME ExportInv, [Next]_vars PROVE ExportInv'
  OBVIOUS
<1>1. ASSUME NEW c \in Conn,
             Connect(c) \/ Disconnect(c) \/ Receive(c) \/ Refuse(c) \/ Lock(c) \/ Reply(c)
      PROVE  ExportInv'
  BY <1>1, ConnectInv, DisconnectInv, ReceiveInv, RefuseInv, LockInv, ReplyInv
<1>2. ASSUME NEW c \in Conn,
             \/ ReadChunk(c) \/ WriteChunk(c) \/ ZeroChunk(c) \/ ZeroNothing(c) \/ TrimChunk(c)
             \/ ChunkFails(c) \/ ChunkPanics(c) \/ Finish(c)
      PROVE  ExportInv'
  BY <1>2, ReadChunkInv, WriteChunkInv, ZeroChunkInv, ZeroNothingInv, TrimChunkInv,
     ChunkFailsInv, ChunkPanicsInv, FinishInv
<1>3. CASE SealScratch \/ RecordFrozenLayer \/ Shutdown \/ ServeScratch
  BY <1>3, SealScratchInv, RecordFrozenLayerInv, ShutdownInv, ServeScratchInv
<1>4. CASE UNCHANGED vars
  BY <1>4, StutterInv
<1> QED
  BY <1>1, <1>2, <1>3, <1>4 DEF Next

\* The export's state keeps its types: whatever offsets and lengths clients send,
\* only blocks of the disk are indexed, every indexed position lies in the append
\* log or at its end, and no read buffer is longer than the disk.
THEOREM ExportTypeCorrect == Spec => []ExportTypeOK
<1>1. ExportInv => ExportTypeOK
  BY DEF ExportInv
<1> QED
  BY <1>1, InitInv, NextInv, PTL DEF Spec

\* As long as block_buf is in place, every block of the scratch has a payload of
\* its own in the append log.
THEOREM LogSlotsDistinct == Spec => []SlotsDistinct
<1>1. ExportInv => SlotsDistinct
  BY DEF ExportInv
<1> QED
  BY <1>1, InitInv, NextInv, PTL DEF Spec

=============================================================================
