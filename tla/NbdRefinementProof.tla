-------------------------- MODULE NbdRefinementProof --------------------------
(***************************************************************************)
(* Proofs about NbdExport, part 3: it implements FlatDisk.  What FlatDisk  *)
(* sees of a state, and which of its steps every action is.                *)
(***************************************************************************)
EXTENDS NbdExportProof

Shown == IF holder # NoConn THEN before ELSE Content
Snap == IF staged = <<>> THEN NoSnap ELSE LayerContent(lower \o staged)
ReplyOf(c) ==
  IF st[c] = "reply"
    THEN [code |-> code[c], data |-> IF code[c] = "ok" THEN out[c] ELSE NoData]
    ELSE NoReply
Replies == [c \in Conn |-> ReplyOf(c)]

\* Pending requests and replies as FlatDisk defines them.
LEMMA PendingCall ==
  ASSUME NEW c \in Conn, req[c] # NoRequest, st[c] # "reply"
  PROVE  Disk!Pending(c)
  BY DEF Disk!Pending

LEMMA AnswerStep ==
  ASSUME NEW c \in Conn, NEW e, NEW d,
         Replies' = [Replies EXCEPT ![c] = [code |-> e, data |-> d]],
         UNCHANGED <<lower, staged, stored, req>>
  PROVE  Disk!Answer(c, e, d)
<1>1. LayerContent(lower)' = LayerContent(lower) /\ LayerContent(stored)' = LayerContent(stored)
  BY DEF LayerContent
<1>2. Snap' = Snap
  BY DEF Snap
<1> QED
  BY <1>1, <1>2 DEF Disk!Answer, Replies, ReplyOf, Snap

\* Steps FlatDisk does not see.
LEMMA Unseen ==
  ASSUME UNCHANGED <<lower, staged, stored, req, bufKept>>,
         Shown' = Shown, Replies' = Replies
  PROVE  UNCHANGED Disk!diskVars
<1>1. LayerContent(lower)' = LayerContent(lower) /\ LayerContent(stored)' = LayerContent(stored)
  BY DEF LayerContent
<1>2. Snap' = Snap
  BY DEF Snap
<1> QED
  BY <1>1, <1>2 DEF Disk!diskVars, Shown, Replies, ReplyOf, Snap

\* Once block_buf is lost nothing but the layers below is promised.
LEMMA BrokenStep ==
  ASSUME ~bufKept, ~bufKept', UNCHANGED lower
  PROVE  Disk!Next
<1>1. LayerContent(lower)' = LayerContent(lower)
  BY DEF LayerContent
<1> QED
  BY <1>1 DEF Disk!Next, Disk!Undefined

\* The replies when thread c answers, and when no reply comes or goes.
LEMMA RepliesSet ==
  ASSUME NEW c \in Conn, st'[c] = "reply",
         \A d \in Conn \ {c} : st'[d] = st[d] /\ code'[d] = code[d] /\ out'[d] = out[d]
  PROVE  Replies' = [Replies EXCEPT ![c] =
                       [code |-> code'[c], data |-> IF code'[c] = "ok" THEN out'[c] ELSE NoData]]
<1>1. ReplyOf(c)' = [code |-> code'[c], data |-> IF code'[c] = "ok" THEN out'[c] ELSE NoData]
  BY DEF ReplyOf, NoData
<1>2. \A d \in Conn \ {c} : ReplyOf(d)' = ReplyOf(d)
  BY DEF ReplyOf, NoData
<1>3. Replies' = [d \in Conn |-> ReplyOf(d)']
  BY DEF Replies
<1> QED
  BY <1>1, <1>2, <1>3 DEF Replies

LEMMA RepliesKept ==
  ASSUME \A d \in Conn : /\ st'[d] = "reply" <=> st[d] = "reply"
                         /\ st[d] = "reply" => code'[d] = code[d] /\ out'[d] = out[d]
  PROVE  Replies' = Replies
<1>1. \A d \in Conn : ReplyOf(d)' = ReplyOf(d)
  BY DEF ReplyOf, NoData
<1> QED
  BY <1>1 DEF Replies

LEMMA ConnectDisk ==
  ASSUME ExportInv, NEW c \in Conn, Connect(c)
  PROVE  UNCHANGED Disk!diskVars
<1>1. /\ st' = [st EXCEPT ![c] = "open"] /\ st[c] = "closed"
      /\ UNCHANGED <<lower, log, index, bufKept, holder, before, req, out, code, staged, stored>>
  BY DEF Connect, SetState, diskVars, lockVars, sealVars
<1>2. Replies' = Replies
  BY <1>1, RepliesKept DEF ExportInv, ExportTypeOK
<1>3. Shown' = Shown
  BY <1>1, ContentKept DEF Shown
<1> QED
  BY <1>1, <1>2, <1>3, Unseen

LEMMA DisconnectDisk ==
  ASSUME ExportInv, NEW c \in Conn, Disconnect(c)
  PROVE  UNCHANGED Disk!diskVars
<1>1. /\ st[c] = "open" /\ Forget(c, "closed") /\ "closed" \in ConnState
      /\ UNCHANGED <<lower, log, index, bufKept, holder, before, staged, stored>>
  BY DEF Disconnect, ConnState, diskVars, lockVars, sealVars
<1>2. req[c] = NoRequest
  BY <1>1 DEF ExportInv, CallInv
<1>3. req' = req
  BY <1>1, <1>2 DEF Forget, ExportInv, ExportTypeOK
<1>4. Replies' = Replies
  BY <1>1, RepliesKept DEF Forget, SetState, ExportInv, ExportTypeOK
<1>5. Shown' = Shown
  BY <1>1, ContentKept DEF Shown
<1> QED
  BY <1>1, <1>3, <1>4, <1>5, Unseen

LEMMA ReceiveDisk ==
  ASSUME ExportInv, NEW c \in Conn, Receive(c)
  PROVE  Disk!Ask(c)
<1>1. PICK r \in Request : req' = [req EXCEPT ![c] = r]
  BY DEF Receive
<1>2. /\ st' = [st EXCEPT ![c] = "queued"] /\ st[c] = "open"
      /\ UNCHANGED <<lower, log, index, bufKept, holder, before, out, code, staged, stored>>
  BY DEF Receive, SetState, diskVars, lockVars, sealVars
<1>3. Replies' = Replies
  BY <1>2, RepliesKept DEF ExportInv, ExportTypeOK
<1>4. Shown' = Shown
  BY <1>2, ContentKept DEF Shown
<1>5. req[c] = NoRequest
  BY <1>2 DEF ExportInv, CallInv
<1>6. Snap' = Snap
  BY <1>2 DEF Snap
<1>7. LayerContent(lower)' = LayerContent(lower) /\ LayerContent(stored)' = LayerContent(stored)
  BY <1>2 DEF LayerContent
<1> QED
  BY <1>1, <1>2, <1>3, <1>4, <1>5, <1>6, <1>7 DEF Disk!Ask, Shown, Replies, ReplyOf, Snap

LEMMA RefuseDisk ==
  ASSUME ExportInv, NEW c \in Conn, Refuse(c)
  PROVE  Disk!Refuse(c)
<1>. DEFINE r == req[c]
<1>1. /\ st' = [st EXCEPT ![c] = "reply"] /\ st[c] = "queued"
      /\ code' = [code EXCEPT ![c] = Refusal(r)] /\ Refusal(r) # "ok"
      /\ UNCHANGED <<lower, log, index, bufKept, holder, before, req, out, staged, stored>>
  BY DEF Refuse, SetState, diskVars, lockVars, sealVars
<1>2. r # NoRequest /\ r \in Request
  BY <1>1 DEF ExportInv, CallInv, ExportTypeOK
<1>3. /\ st'[c] = "reply" /\ code'[c] = Refusal(r)
      /\ \A d \in Conn \ {c} : st'[d] = st[d] /\ code'[d] = code[d] /\ out'[d] = out[d]
  BY <1>1 DEF ExportInv, ExportTypeOK
<1>4. Replies' = [Replies EXCEPT ![c] = [code |-> Refusal(r), data |-> NoData]]
  BY <1>1, <1>3, RepliesSet
<1>5. Disk!Answer(c, Refusal(r), NoData)
  BY <1>1, <1>4, AnswerStep
<1>6. Disk!Pending(c)
  BY <1>1, <1>2, PendingCall
<1>7. Shown' = Shown
  BY <1>1, ContentKept DEF Shown
<1>8. r.off \in Nat /\ r.len \in Nat /\ VirtualSize <= MaxU64 /\ MaxU64 \in Nat
  BY <1>2, ExportAssumption
<1>9. \/ r.cmd \in Changing /\ Refusal(r) = "EPERM"
      \/ /\ \/ r.cmd \notin Command
            \/ r.cmd # "FLUSH" /\ OutOfBounds(r.off, r.len)
            \/ r.cmd = "READ" /\ r.len > MaxRequestLen
         /\ Refusal(r) = "EINVAL"
  BY <1>1 DEF Refusal
<1>10. OutOfBounds(r.off, r.len) => ~(r.off + r.len <= VirtualSize)
  BY <1>8, VirtualSizeNat DEF OutOfBounds
<1> QED
  BY <1>1, <1>5, <1>6, <1>7, <1>9, <1>10
  DEF Disk!Refuse, Disk!InRange, Disk!Changing, Disk!NoData, NoData, Changing, Command, Shown

LEMMA LockDisk ==
  ASSUME ExportInv, NEW c \in Conn, bufKept, Lock(c)
  PROVE  UNCHANGED Disk!diskVars
<1>1. ~poisoned
  BY DEF ExportInv, PoisonInv
<1>2. /\ st[c] = "queued" /\ holder = NoConn /\ holder' = c /\ before' = Content
      /\ st' = [st EXCEPT ![c] = "running"]
      /\ \A d \in Conn \ {c} : out'[d] = out[d]
      /\ UNCHANGED <<req, code, lower, log, index, bufKept, staged, stored>>
  BY <1>1 DEF Lock, SetState, ExportInv, ExportTypeOK, diskVars, sealVars
<1>3. Replies' = Replies
  BY <1>2, RepliesKept DEF ExportInv, ExportTypeOK
<1>4. Shown' = Shown
  BY <1>2, ExportAssumption DEF Shown
<1> QED
  BY <1>2, <1>3, <1>4, Unseen

LEMMA ReplyDisk ==
  ASSUME ExportInv, NEW c \in Conn, Reply(c)
  PROVE  Disk!Done(c)
<1>1. PICK s \in {"open", "closed"} : Forget(c, s)
  BY DEF Reply
<1>2. /\ st[c] = "reply"
      /\ UNCHANGED <<lower, log, index, bufKept, holder, before, staged, stored>>
  BY DEF Reply, diskVars, lockVars, sealVars
<1>3. /\ req' = [req EXCEPT ![c] = NoRequest] /\ st'[c] = s
      /\ \A d \in Conn \ {c} : st'[d] = st[d] /\ code'[d] = code[d] /\ out'[d] = out[d]
  BY <1>1 DEF Forget, SetState, ExportInv, ExportTypeOK
<1>4. ReplyOf(c)' = NoReply
  BY <1>3 DEF ReplyOf
<1>5. \A d \in Conn \ {c} : ReplyOf(d)' = ReplyOf(d)
  BY <1>3 DEF ReplyOf, NoData
<1>6. Replies' = [Replies EXCEPT ![c] = NoReply]
  BY <1>4, <1>5 DEF Replies
<1>7. Replies[c] # NoReply
  <2>1. ReplyOf(c) \in [code : ReplyCode, data : Buffer]
    BY <1>2, NoDataIsBuffer DEF ReplyOf, ExportInv, ExportTypeOK
  <2> QED
    BY <2>1, ExportAssumption DEF Replies
<1>8. Shown' = Shown
  BY <1>2, ContentKept DEF Shown
<1>9. Snap' = Snap
  BY <1>2 DEF Snap
<1>10. LayerContent(lower)' = LayerContent(lower) /\ LayerContent(stored)' = LayerContent(stored)
  BY <1>2 DEF LayerContent
<1> QED
  BY <1>2, <1>3, <1>6, <1>7, <1>8, <1>9, <1>10 DEF Disk!Done, Shown, Replies, ReplyOf, Snap

\* While the mutex is held FlatDisk still shows what was there when it was taken.
LEMMA LoopDisk ==
  ASSUME ExportInv, NEW c \in Conn, InLoop(c),
         UNCHANGED <<lower, bufKept, lockVars, st, req, code, sealVars>>,
         \A d \in Conn \ {c} : out'[d] = out[d]
  PROVE  UNCHANGED Disk!diskVars
<1>1. st[c] = "running" /\ holder = c /\ holder # NoConn
  BY RunningBounds, ExportAssumption DEF InLoop
<1>2. Replies' = Replies
  BY <1>1, RepliesKept
<1>3. Shown' = Shown
  BY <1>1 DEF Shown, lockVars
<1> QED
  BY <1>2, <1>3, Unseen DEF sealVars

LEMMA ChunkDisk ==
  ASSUME ExportInv, NEW c \in Conn,
         \/ ReadChunk(c) \/ WriteChunk(c) \/ ZeroChunk(c) \/ ZeroNothing(c) \/ TrimChunk(c)
  PROVE  UNCHANGED Disk!diskVars
<1>1. /\ InLoop(c) /\ UNCHANGED <<lower, bufKept, lockVars, st, req, code, sealVars>>
      /\ \A d \in Conn \ {c} : out'[d] = out[d]
  <2>1. CASE ReadChunk(c)
    BY <2>1 DEF ReadChunk, diskVars, ExportInv, ExportTypeOK
  <2>2. CASE WriteChunk(c) \/ ZeroChunk(c) \/ ZeroNothing(c) \/ TrimChunk(c)
    BY <2>2 DEF WriteChunk, ZeroChunk, ZeroNothing, TrimChunk
  <2> QED
    BY <2>1, <2>2
<1> QED
  BY <1>1, LoopDisk

\* The holder answers: the request takes effect, as far as its loop has come.
LEMMA UnlockDisk ==
  ASSUME ExportInv, NEW c \in Conn, st[c] = "running", bufKept,
         NEW e \in {"ok", "EIO"}, Unlock(c, e),
         UNCHANGED <<lower, log, index, sealVars>>,
         e = "ok" => pos[c] = End(req[c]),
         bufKept' \in BOOLEAN, ~bufKept' => e = "EIO" /\ req[c].cmd = "WRITE"
  PROVE  Disk!Read(c) \/ Disk!Flush(c) \/ Disk!Change(c)
<1>. DEFINE r == req[c]
            done == pos[c] - r.off
<1>1. /\ holder = c /\ holder # NoConn /\ r \in Request /\ Refusal(r) = "ok"
      /\ pos[c] \in Nat /\ r.off <= pos[c] /\ pos[c] <= End(r)
  BY RunningBounds, ExportAssumption
<1>2. /\ r.cmd \in Command /\ r.off \in Nat /\ r.len \in Nat
      /\ r.cmd = "FLUSH" => End(r) = r.off
      /\ r.cmd # "FLUSH" => End(r) = r.off + r.len /\ End(r) <= VirtualSize
  BY <1>1, AcceptedRequest
<1>3. Progress(c) /\ Accepted(c) /\ r # NoRequest
  BY DEF ExportInv, LoopInv, CallInv
<1>4. /\ holder' = NoConn /\ UNCHANGED <<req, out, staged, stored>>
      /\ st'[c] = "reply" /\ code'[c] = e
      /\ \A d \in Conn \ {c} : st'[d] = st[d] /\ code'[d] = code[d] /\ out'[d] = out[d]
  BY UnlockFacts DEF ExportInv, Unmoved, sealVars, ReplyCode
<1>5. Shown = before /\ Shown' = Content
  BY <1>1, <1>4, ContentKept DEF Shown
<1>6. before \in [Address -> Byte] /\ Content \in [Address -> Byte]
  BY ContentType DEF ExportInv, ExportTypeOK
<1>7. PICK data : /\ data = IF e = "ok" THEN out[c] ELSE NoData
                  /\ Replies' = [Replies EXCEPT ![c] = [code |-> e, data |-> data]]
  BY <1>4, RepliesSet
<1>8. Disk!Pending(c)
  BY <1>3, PendingCall
<1>9. Disk!Answer(c, e, data)
  BY <1>4, <1>7, AnswerStep
<1>10. r.cmd # "READ" => data = NoData
  BY <1>3, <1>7 DEF Accepted
<1>11. ASSUME r.cmd \notin Changing PROVE Shown' = Shown /\ bufKept' = bufKept
  <2>1. \A x \in Address : Content[x] = before[x]
    BY <1>3, <1>11 DEF Progress, Changed
  <2>2. bufKept'
    BY <1>11 DEF Changing
  <2> QED
    BY <1>5, <1>6, <2>1, <2>2
<1>12. CASE r.cmd = "READ"
  <2>1. Shown' = Shown /\ bufKept' = bufKept
    BY <1>11, <1>12 DEF Changing
  <2>2. CASE e = "ok"
    <3>1. out[c] \in [0 .. r.len - 1 -> Byte]
      BY <1>3, <1>12 DEF Accepted, Data
    <3>2. \A i \in 0 .. r.len - 1 : out[c][i] = Shown[r.off + i]
      <4>1. \A i \in 0 .. r.len - 1 : r.off + i < pos[c]
        BY <1>2, <1>12, <2>2
      <4>2. \A i \in 0 .. r.len - 1 : r.off + i < pos[c] => out[c][i] = before[r.off + i]
        BY <1>3, <1>12 DEF Progress
      <4> QED
        BY <1>5, <4>1, <4>2
    <3>3. data = [i \in 0 .. r.len - 1 |-> Shown[r.off + i]]
      BY <1>7, <2>2, <3>1, <3>2
    <3>4. Disk!InRange(r)
      BY <1>2, <1>12 DEF Disk!InRange
    <3> QED
      BY <1>8, <1>9, <1>12, <2>1, <2>2, <3>3, <3>4 DEF Disk!Read, Disk!Answer, Shown
  <2>3. CASE e = "EIO"
    <3>1. data = Disk!NoData
      BY <1>7, <2>3 DEF Disk!NoData, NoData
    <3> QED
      BY <1>8, <1>9, <1>12, <2>1, <2>3, <3>1 DEF Disk!Read, Shown
  <2> QED
    BY <2>2, <2>3
<1>13. CASE r.cmd = "FLUSH"
  <2>1. Shown' = Shown /\ bufKept' = bufKept
    BY <1>11, <1>13 DEF Changing
  <2>2. data = Disk!NoData
    BY <1>10, <1>13 DEF Disk!NoData, NoData
  <2> QED
    BY <1>8, <1>9, <1>13, <2>1, <2>2 DEF Disk!Flush, Shown
<1>14. CASE r.cmd \in Changing
  <2>. r.cmd # "READ" /\ r.cmd # "FLUSH"
    BY <1>14 DEF Changing
  <2>1. data = Disk!NoData
    BY <1>10 DEF Disk!NoData, NoData
  <2>2. done \in 0 .. r.len /\ (e = "ok" => done = r.len) /\ r.off + done = pos[c]
    BY <1>1, <1>2
  <2>3. Disk!InRange(r)
    BY <1>2 DEF Disk!InRange
  <2>4. ASSUME NEW x \in Address
        PROVE  IF r.off <= x /\ x < r.off + done
                 THEN Shown'[x] \in Leaves(r, x) ELSE Shown'[x] = Shown[x]
    BY <1>3, <1>5, <1>14, <2>2 DEF Progress, Changed
  <2>5. \A x \in Address : Leaves(r, x) = Disk!Effect(r, x)
    BY DEF Leaves, Disk!Effect
  <2>6. Shown' \in [Address -> Byte]
    BY <1>5, <1>6
  <2>7. ~bufKept' => e = "EIO" /\ r.cmd = "WRITE"
    OBVIOUS
  <2>8. (~bufKept)' \in BOOLEAN
    OBVIOUS
  <2>. HIDE DEF done
  <2>9. r.cmd \in Disk!Changing
    BY <1>14 DEF Disk!Changing, Changing
  <2>10. Disk!Answer(c, e, Disk!NoData)
    BY <1>9, <2>1
  <2> QED
    BY <1>8, <2>2, <2>3, <2>4, <2>5, <2>6, <2>7, <2>8, <2>9, <2>10
    DEF Disk!Change, Shown, Address
<1> QED
  BY <1>2, <1>12, <1>13, <1>14 DEF Command

LEMMA ChunkFailsDisk ==
  ASSUME ExportInv, NEW c \in Conn, bufKept, ChunkFails(c)
  PROVE  Disk!Read(c) \/ Disk!Flush(c) \/ Disk!Change(c)
<1>1. /\ st[c] = "running" /\ Unlock(c, "EIO")
      /\ UNCHANGED <<lower, log, index, sealVars>>
      /\ UNCHANGED bufKept \/ (req[c].cmd = "WRITE" /\ bufKept' = FALSE)
  BY DEF ChunkFails, InLoop
<1>2. bufKept \in BOOLEAN
  BY DEF ExportInv, ExportTypeOK
<1>3. CASE UNCHANGED bufKept
  BY <1>1, <1>2, <1>3, UnlockDisk
<1>4. CASE req[c].cmd = "WRITE" /\ bufKept' = FALSE
  BY <1>1, <1>4, UnlockDisk
<1> QED
  BY <1>1, <1>3, <1>4

LEMMA FinishDisk ==
  ASSUME ExportInv, NEW c \in Conn, bufKept, Finish(c)
  PROVE  Disk!Read(c) \/ Disk!Flush(c) \/ Disk!Change(c)
<1>1. /\ st[c] = "running" /\ pos[c] = End(req[c])
      /\ UNCHANGED <<lower, log, index, bufKept, sealVars>>
  BY DEF Finish, diskVars
<1>2. bufKept \in BOOLEAN
  BY DEF ExportInv, ExportTypeOK
<1>3. PICK e \in {"ok", "EIO"} : Unlock(c, e)
  BY DEF Finish
<1> QED
  BY <1>1, <1>2, <1>3, UnlockDisk

\* The sealed layer on top of the stack reads like the scratch did.
LEMMA SealedContent ==
  ASSUME ExportInv, \A b \in DOMAIN index : index[b] < Len(log)
  PROVE  LayerContent(lower \o <<[b \in DOMAIN index |-> log[index[b] + 1]]>>) = Content
<1>. DEFINE L == [b \in DOMAIN index |-> log[index[b] + 1]]
<1>1. L \in Layer /\ lower \in Seq(Layer)
  BY SealedLayer DEF ExportInv, ExportTypeOK
<1>2. \A b : b \in DOMAIN L <=> b \in DOMAIN index
  OBVIOUS
<1>3. \A b \in DOMAIN index : L[b] = log[index[b] + 1]
  OBVIOUS
<1>. HIDE DEF L
<1>4. \A b : LowerBlock(lower \o <<L>>, b) = Resolve(b)
  BY <1>1, <1>2, <1>3, LowerBlockOnTop DEF Resolve
<1>5. LayerContent(lower \o <<L>>) = Content
  BY <1>4 DEF LayerContent, Content
<1> QED
  BY <1>5 DEF L

LEMMA SealScratchDisk ==
  ASSUME ExportInv, SealScratch
  PROVE  Disk!Snapshot
<1>1. /\ holder = NoConn /\ staged = <<>>
      /\ \A b \in DOMAIN index : index[b] < Len(log)
      /\ staged' = <<[b \in DOMAIN index |-> log[index[b] + 1]]>>
      /\ UNCHANGED <<lower, log, index, bufKept, holder, before, st, req, out, code, stored>>
  BY DEF SealScratch, diskVars, lockVars, connVars
<1>2. staged' # <<>>
  BY <1>1
<1>3. Snap = NoSnap /\ Snap' = Content
  <2>1. LayerContent(lower \o staged)' = LayerContent(lower \o staged')
    BY <1>1 DEF LayerContent
  <2> QED
    BY <1>1, <1>2, <2>1, SealedContent DEF Snap
<1>4. Shown' = Shown /\ Shown = Content
  BY <1>1, ContentKept DEF Shown
<1>5. Replies' = Replies
  BY <1>1, RepliesKept
<1>6. LayerContent(lower)' = LayerContent(lower) /\ LayerContent(stored)' = LayerContent(stored)
  BY <1>1 DEF LayerContent
<1> QED
  BY <1>1, <1>3, <1>4, <1>5, <1>6 DEF Disk!Snapshot, Shown, Replies, ReplyOf, Snap

LEMMA RecordFrozenLayerDisk ==
  ASSUME ExportInv, RecordFrozenLayer
  PROVE  Disk!Commit
<1>1. /\ staged # <<>> /\ stored' = lower \o staged
      /\ UNCHANGED <<lower, log, index, bufKept, holder, before, st, req, out, code, staged>>
  BY DEF RecordFrozenLayer, diskVars, lockVars, connVars
<1>2. Snap = LayerContent(lower \o staged) /\ Snap' = Snap
  BY <1>1 DEF Snap
<1>3. Snap # NoSnap
  <2>1. lower \o staged \in Seq(Layer)
    BY DEF ExportInv, ExportTypeOK
  <2>2. LayerContent(lower \o staged) \in [Address -> Byte]
    BY <2>1, LayerContentType
  <2> QED
    BY <1>2, <2>2, ExportAssumption
<1>4. LayerContent(stored)' = Snap
  BY <1>1, <1>2 DEF LayerContent
<1>5. Shown' = Shown
  BY <1>1, ContentKept DEF Shown
<1>6. Replies' = Replies
  BY <1>1, RepliesKept
<1>7. LayerContent(lower)' = LayerContent(lower)
  BY <1>1 DEF LayerContent
<1> QED
  BY <1>1, <1>3, <1>4, <1>2, <1>5, <1>6, <1>7 DEF Disk!Commit, Shown, Replies, ReplyOf, Snap

LEMMA ShutdownDisk ==
  ASSUME UNCHANGED <<diskVars, lockVars, connVars, sealVars>>
  PROVE  UNCHANGED Disk!diskVars
<1>1. UNCHANGED <<lower, log, index, bufKept, holder, before, st, req, out, code, staged, stored>>
  BY DEF diskVars, lockVars, connVars, sealVars
<1>2. Shown' = Shown
  BY <1>1, ContentKept DEF Shown
<1>3. Replies' = Replies
  BY <1>1, RepliesKept
<1> QED
  BY <1>1, <1>2, <1>3, Unseen

\* What FlatDisk sees of a server process that starts.
LEMMA FreshView ==
  ASSUME Fresh, staged = <<>>
  PROVE  /\ Shown = LayerContent(lower) /\ Snap = NoSnap
         /\ Replies = [c \in Conn |-> NoReply]
  BY EmptyScratch DEF Fresh, Shown, Snap, Replies, ReplyOf

LEMMA ServeScratchDisk ==
  ASSUME ExportInv, ServeScratch
  PROVE  Disk!Restart
<1>1. Fresh' /\ staged' = <<>>
  BY DEF ServeScratch, Fresh, ZeroDisk, NoData
<1>2. ( Fresh /\ staged = <<>> => /\ Shown = LayerContent(lower) /\ Snap = NoSnap
                                  /\ Replies = [c \in Conn |-> NoReply] )'
  BY FreshView, PTL
<1>3. /\ Shown' = LayerContent(lower)' /\ Snap' = NoSnap
      /\ Replies' = [c \in Conn |-> NoReply]
  BY <1>1, <1>2
<1>4. lower' = stored /\ stored' = stored /\ req' = [c \in Conn |-> NoRequest] /\ bufKept' = TRUE
  BY DEF ServeScratch
<1>5. LayerContent(lower)' = LayerContent(stored) /\ LayerContent(stored)' = LayerContent(stored)
  BY <1>4 DEF LayerContent
<1> QED
  BY <1>3, <1>4, <1>5 DEF Disk!Restart, Shown, Replies, ReplyOf, Snap

LEMMA InitDisk == Init => Disk!Init
<1> SUFFICES ASSUME Init PROVE Disk!Init
  OBVIOUS
<1>1. Fresh /\ staged = <<>> /\ lower = stored /\ lower \in Seq(Layer)
  BY ExportAssumption DEF Init, Fresh
<1>2. /\ Shown = LayerContent(lower) /\ Snap = NoSnap
      /\ Replies = [c \in Conn |-> NoReply]
  BY <1>1, FreshView
<1>3. LayerContent(lower) \in [Address -> Byte]
  BY <1>1, LayerContentType
<1>4. req = [c \in Conn |-> NoRequest] /\ bufKept = TRUE
  BY DEF Init
<1> QED
  BY <1>1, <1>2, <1>3, <1>4 DEF Disk!Init, Shown, Replies, ReplyOf, Snap, Address

LEMMA NextDisk == ExportInv /\ [Next]_vars => [Disk!Next]_(Disk!diskVars)
<1> SUFFICES ASSUME ExportInv, [Next]_vars
             PROVE  Disk!Next \/ UNCHANGED Disk!diskVars
  OBVIOUS
<1>1. CASE UNCHANGED vars
  BY <1>1, ShutdownDisk DEF vars
<1>2. ASSUME NEW c \in Conn,
             Connect(c) \/ Disconnect(c) \/ Receive(c) \/ Refuse(c) \/ Reply(c)
      PROVE  Disk!Next \/ UNCHANGED Disk!diskVars
  BY <1>2, ConnectDisk, DisconnectDisk, ReceiveDisk, RefuseDisk, ReplyDisk DEF Disk!Next
<1>3. ASSUME NEW c \in Conn, Lock(c)
      PROVE  Disk!Next \/ UNCHANGED Disk!diskVars
  <2>1. CASE bufKept
    BY <1>3, <2>1, LockDisk
  <2>2. CASE ~bufKept
    BY <1>3, <2>2, BrokenStep DEF Lock, diskVars
  <2> QED
    BY <2>1, <2>2
<1>4. ASSUME NEW c \in Conn,
             \/ ReadChunk(c) \/ WriteChunk(c) \/ ZeroChunk(c) \/ ZeroNothing(c) \/ TrimChunk(c)
      PROVE  Disk!Next \/ UNCHANGED Disk!diskVars
  BY <1>4, ChunkDisk
<1>5. ASSUME NEW c \in Conn, ChunkFails(c)
      PROVE  Disk!Next \/ UNCHANGED Disk!diskVars
  <2>1. CASE bufKept
    BY <1>5, <2>1, ChunkFailsDisk DEF Disk!Next
  <2>2. CASE ~bufKept
    <3>1. UNCHANGED lower /\ (bufKept' = bufKept \/ bufKept' = FALSE)
      BY <1>5 DEF ChunkFails
    <3> QED
      BY <2>2, <3>1, BrokenStep
  <2> QED
    BY <2>1, <2>2
<1>6. ASSUME NEW c \in Conn, ChunkPanics(c)
      PROVE  Disk!Next
  BY <1>6, BrokenStep DEF ChunkPanics, diskVars
<1>7. ASSUME NEW c \in Conn, Finish(c)
      PROVE  Disk!Next \/ UNCHANGED Disk!diskVars
  <2>1. CASE bufKept
    BY <1>7, <2>1, FinishDisk DEF Disk!Next
  <2>2. CASE ~bufKept
    BY <1>7, <2>2, BrokenStep DEF Finish, diskVars
  <2> QED
    BY <2>1, <2>2
<1>8. CASE SealScratch \/ RecordFrozenLayer \/ ServeScratch
  BY <1>8, SealScratchDisk, RecordFrozenLayerDisk, ServeScratchDisk DEF Disk!Next
<1>9. CASE Shutdown
  BY <1>9, ShutdownDisk DEF Shutdown
<1> QED
  BY <1>1, <1>2, <1>3, <1>4, <1>5, <1>6, <1>7, <1>8, <1>9 DEF Next

\* Block loops over an append log and a stack of layers, run by threads behind a
\* mutex, with I/O errors, seals and restarts, are a flat disk on which every
\* request takes effect at one instant.
THEOREM DiskRefinement == Spec => ImplementsFlatDisk
<1>1. Spec => []ExportInv
  BY InitInv, NextInv, PTL DEF Spec
<1> QED
  BY <1>1, InitDisk, NextDisk, PTL DEF Spec, ImplementsFlatDisk, Disk!Spec

=============================================================================
