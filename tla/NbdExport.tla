------------------------------ MODULE NbdExport ------------------------------
(***************************************************************************)
(* One exported disk of petri-nbd: LayeredDisk over immutable layers and a *)
(* ScratchLayer (stack.rs, layer.rs), shared behind a mutex by the         *)
(* connection threads of the NBD server (server.rs), sealed by auto_freeze *)
(* and started again by serve_scratch (crates/petri/src/image.rs).         *)
(*                                                                         *)
(* Each iteration of the block loops is a step.  Any step's file I/O may   *)
(* fail; a thread that panics poisons the mutex.                           *)
(***************************************************************************)
EXTENDS LayerStack, FiniteSets

CONSTANTS Conn, NoConn,
          Request,        \* the requests clients send: [cmd, fua, off, len, data]
          NoRequest, NoReply, NoSnap,
          InitialStack,   \* the layers the first server process finds
          MaxRequestLen,  \* MAX_REQUEST_LEN
          MaxU64,         \* the largest offset a u64 holds
          MaxLog,         \* blocks that fit on the host disk
          MaxLayers,      \* bound on the number of layers
          MaxFaults       \* bound on failing file I/O

Changing == {"WRITE", "WRITE_ZEROES", "TRIM"}
Command == Changing \union {"READ", "FLUSH"}

\* Client payloads are indexed like the code's buffers, from 0.
Data(n) == [0 .. n - 1 -> Byte]
Buffer == UNION {Data(n) : n \in 0 .. VirtualSize}

ReplyCode == {"ok", "EIO", "EINVAL", "EPERM"}

ASSUME ExportAssumption ==
  /\ NoConn \notin Conn
  /\ NoRequest \notin Request
  /\ NoReply \notin [code : ReplyCode, data : Buffer]
  /\ NoSnap \notin [Address -> Byte]
  /\ InitialStack \in Seq(Layer)
  /\ MaxRequestLen \in Nat /\ MaxU64 \in Nat /\ VirtualSize <= MaxU64
  /\ MaxLog \in Nat /\ MaxLayers \in Nat /\ MaxFaults \in Nat
  /\ \A r \in Request :
       /\ r.cmd \in STRING /\ r.fua \in BOOLEAN
       /\ r.off \in 0 .. MaxU64 /\ r.len \in Nat
       /\ r.cmd = "WRITE" => r.data \in Data(r.len)

VARIABLES
  lower,      \* the immutable layers, bottom first
  log, index, \* ScratchLayer: payloads appended so far, and the position of a
              \* block's payload among them
  bufKept,    \* LayeredDisk.block_buf is one block long (else it is empty)
  poisoned,   \* a thread panicked while it held the mutex
  holder,     \* the connection thread that holds the mutex, or NoConn
  accepting,  \* the accept loop runs
  readOnly,   \* ServeOpts.read_only
  st, req, pos, out, code,  \* per connection: control state, request, loop
                            \* position, read buffer and error of the reply
  staged,     \* the layer sealed by this process, as a sequence of at most one
  stored,     \* the layers serve_scratch will find
  before,     \* history: the content when the holder took the mutex
  faults

diskVars == <<lower, log, index, bufKept>>
lockVars == <<poisoned, holder, before>>
connVars == <<st, req, pos, out, code>>
sealVars == <<staged, stored>>
optVars == <<accepting, readOnly>>
vars == <<diskVars, lockVars, connVars, sealVars, optVars, faults>>

ZeroDisk == [x \in Address |-> 0]
NoData == [i \in {} |-> 0]

ConnState == {"closed", "open", "queued", "running", "reply"}

-----------------------------------------------------------------------------
\* resolve_block.  A position at the end of the log has no payload yet; zeroes
\* stand for the read that fails there.
Resolve(b) ==
  IF b \notin DOMAIN index THEN LowerBlock(lower, b)
  ELSE IF index[b] < Len(log) THEN log[index[b] + 1] ELSE ZeroPayload

Content == [x \in Address |-> Resolve(BlockOf(x))[BlockOffset(x)]]

ExportTypeOK ==
  /\ lower \in Seq(Layer) /\ stored \in Seq(Layer) /\ staged \in Seq(Layer)
  /\ log \in Seq(Payload)
  /\ DOMAIN index \subseteq Block /\ \A b \in DOMAIN index : index[b] \in 0 .. Len(log)
  /\ bufKept \in BOOLEAN /\ poisoned \in BOOLEAN
  /\ holder \in Conn \union {NoConn}
  /\ accepting \in BOOLEAN /\ readOnly \in BOOLEAN
  /\ st \in [Conn -> ConnState]
  /\ req \in [Conn -> Request \union {NoRequest}]
  /\ pos \in [Conn -> Nat]
  /\ code \in [Conn -> ReplyCode]
  /\ out \in [Conn -> Buffer]
  /\ before \in [Address -> Byte]
  /\ faults \in 0 .. MaxFaults

\* The export of a freshly started server.
Init ==
  /\ lower = InitialStack /\ stored = InitialStack /\ staged = <<>>
  /\ log = <<>> /\ index = [b \in {} |-> 0]
  /\ bufKept = TRUE /\ poisoned = FALSE /\ holder = NoConn
  /\ accepting = TRUE /\ readOnly \in BOOLEAN
  /\ st = [c \in Conn |-> "closed"]
  /\ req = [c \in Conn |-> NoRequest]
  /\ pos = [c \in Conn |-> 0]
  /\ out = [c \in Conn |-> NoData]
  /\ code = [c \in Conn |-> "ok"]
  /\ before = ZeroDisk
  /\ faults = 0

-----------------------------------------------------------------------------
(***************************************************************************)
(* Connections: serve_connection and the outer part of transmission.       *)
(***************************************************************************)

SetState(c, s) == st' = [st EXCEPT ![c] = s]

\* The thread is done with its request: it waits for the next one or ends.
Forget(c, s) ==
  /\ SetState(c, s)
  /\ req' = [req EXCEPT ![c] = NoRequest]
  /\ pos' = [pos EXCEPT ![c] = 0]
  /\ out' = [out EXCEPT ![c] = NoData]
  /\ code' = [code EXCEPT ![c] = "ok"]

\* A client connects and negotiates the export; the thread takes the mutex for
\* the virtual size and panics if it is poisoned, which closes the connection.
Connect(c) ==
  /\ st[c] = "closed" /\ accepting
  /\ holder = NoConn /\ ~poisoned
  /\ SetState(c, "open")
  /\ UNCHANGED <<diskVars, lockVars, req, pos, out, code, sealVars, optVars, faults>>

\* DISC, a closed socket, a malformed header, or a write that is too large.
Disconnect(c) ==
  /\ st[c] = "open"
  /\ Forget(c, "closed")
  /\ UNCHANGED <<diskVars, lockVars, sealVars, optVars, faults>>

\* read_request and, for a write, its payload.
Receive(c) ==
  /\ st[c] = "open"
  /\ \E r \in Request :
       /\ r.cmd = "WRITE" => r.len <= MaxRequestLen
       /\ req' = [req EXCEPT ![c] = r]
  /\ SetState(c, "queued")
  /\ UNCHANGED <<diskVars, lockVars, pos, out, code, sealVars, optVars, faults>>

\* Mutant: offset + length wraps around.
OutOfBoundsWrapping(off, len) == (off + len) % (MaxU64 + 1) > VirtualSize

\* out_of_bounds: a checked_add that overflows is out of bounds.
OutOfBounds(off, len) == off + len > MaxU64 \/ off + len > VirtualSize

\* The error with which transmission answers before it takes the mutex.
Refusal(r) ==
  IF r.cmd \in Changing /\ readOnly THEN "EPERM"
  ELSE IF \/ r.cmd \notin Command
          \/ r.cmd # "FLUSH" /\ OutOfBounds(r.off, r.len)
          \/ r.cmd = "READ" /\ r.len > MaxRequestLen
       THEN "EINVAL"
  ELSE "ok"

Refuse(c) ==
  /\ st[c] = "queued" /\ Refusal(req[c]) # "ok"
  /\ code' = [code EXCEPT ![c] = Refusal(req[c])]
  /\ SetState(c, "reply")
  /\ UNCHANGED <<diskVars, lockVars, req, pos, out, sealVars, optVars, faults>>

\* disk.lock().expect(..): granted when the mutex is free; the thread panics if
\* it is poisoned.
Lock(c) ==
  /\ st[c] = "queued" /\ Refusal(req[c]) = "ok" /\ holder = NoConn
  /\ \/ /\ ~poisoned
        /\ holder' = c /\ before' = Content
        /\ SetState(c, "running")
        /\ pos' = [pos EXCEPT ![c] = req[c].off]
        /\ out' = [out EXCEPT ![c] = IF req[c].cmd = "READ"
                                       THEN [i \in 0 .. req[c].len - 1 |-> 0] ELSE NoData]
        /\ UNCHANGED <<req, code>>
     \/ /\ poisoned
        /\ Forget(c, "closed")
        /\ UNCHANGED <<holder, before>>
  /\ UNCHANGED <<diskVars, poisoned, sealVars, optVars, faults>>

\* The reply is written, or the connection breaks.
Reply(c) ==
  /\ st[c] = "reply"
  /\ \E s \in {"open", "closed"} : Forget(c, s)
  /\ UNCHANGED <<diskVars, lockVars, sealVars, optVars, faults>>

-----------------------------------------------------------------------------
(***************************************************************************)
(* The block loops of read_at, write_at, write_zeroes and trim, run by the *)
(* holder of the mutex.                                                    *)
(***************************************************************************)

End(r) == IF r.cmd = "FLUSH" THEN r.off ELSE r.off + r.len

InLoop(c) == st[c] = "running" /\ pos[c] < End(req[c])

\* block, in_block and n of the iteration.
Blk(c) == BlockOf(pos[c])
At(c) == BlockOffset(pos[c])
N(c) == ChunkLen(pos[c], End(req[c]))
Whole(c) == At(c) = 0 /\ N(c) = BlockSize

\* The byte request r puts at address x.
NewByte(r, x) == IF r.cmd = "WRITE" THEN r.data[x - r.off] ELSE 0

\* Read-modify-write: the resolved block with the chunk put over it.
Merged(c) ==
  [i \in InBlock |->
     IF At(c) <= i /\ i < At(c) + N(c)
       THEN NewByte(req[c], pos[c] + (i - At(c)))
       ELSE Resolve(Blk(c))[i]]

Advance(c) == pos' = [pos EXCEPT ![c] = @ + N(c)]

\* Mutant: the index takes the tail after the append.
WriteBlockPastTail(b, payload) ==
  /\ Len(log) < MaxLog
  /\ log' = Append(log, payload)
  /\ index' = [x \in DOMAIN index \union {b} |-> IF x = b THEN Len(log) + 1 ELSE index[x]]

\* ScratchLayer::write_block: append the payload, then point the index at it.
WriteBlock(b, payload) ==
  /\ Len(log) < MaxLog
  /\ log' = Append(log, payload)
  /\ index' = [x \in DOMAIN index \union {b} |-> IF x = b THEN Len(log) ELSE index[x]]

\* ScratchLayer::forget_block.
ForgetBlock(b) ==
  /\ index' = [x \in DOMAIN index \ {b} |-> index[x]]
  /\ UNCHANGED log

ReadChunk(c) ==
  /\ InLoop(c) /\ req[c].cmd = "READ" /\ bufKept
  /\ out' = [out EXCEPT ![c] =
               [i \in DOMAIN @ |->
                  LET x == req[c].off + i
                  IN  IF pos[c] <= x /\ x < pos[c] + N(c)
                        THEN Resolve(Blk(c))[At(c) + (x - pos[c])]
                        ELSE @[i]]]
  /\ Advance(c)
  /\ UNCHANGED <<diskVars, lockVars, st, req, code, sealVars, optVars, faults>>

\* Only whole blocks can do without block_buf.
WriteChunk(c) ==
  /\ InLoop(c) /\ req[c].cmd = "WRITE"
  /\ Whole(c) \/ bufKept
  /\ WriteBlock(Blk(c), Merged(c))
  /\ Advance(c)
  /\ UNCHANGED <<lower, bufKept, lockVars, st, req, out, code, sealVars, optVars, faults>>

ZeroChunk(c) ==
  /\ InLoop(c) /\ req[c].cmd = "WRITE_ZEROES" /\ bufKept
  /\ WriteBlock(Blk(c), Merged(c))
  /\ Advance(c)
  /\ UNCHANGED <<lower, bufKept, lockVars, st, req, out, code, sealVars, optVars, faults>>

\* A whole block of zeroes from an empty block_buf (release build): nothing is
\* appended, and the index points at whatever the next write appends.
ZeroNothing(c) ==
  /\ InLoop(c) /\ req[c].cmd = "WRITE_ZEROES" /\ ~bufKept /\ Whole(c)
  /\ index' = [x \in DOMAIN index \union {Blk(c)} |-> IF x = Blk(c) THEN Len(log) ELSE index[x]]
  /\ Advance(c)
  /\ UNCHANGED <<lower, log, bufKept, lockVars, st, req, out, code, sealVars, optVars, faults>>

TrimChunk(c) ==
  /\ InLoop(c) /\ req[c].cmd = "TRIM"
  /\ \/ Whole(c) /\ ForgetBlock(Blk(c))
     \/ ~Whole(c) /\ bufKept /\ WriteBlock(Blk(c), Merged(c))
  /\ Advance(c)
  /\ UNCHANGED <<lower, bufKept, lockVars, st, req, out, code, sealVars, optVars, faults>>

\* The operation ends with an error code and the guard is dropped.
Unlock(c, e) ==
  /\ holder' = NoConn /\ before' = ZeroDisk
  /\ code' = [code EXCEPT ![c] = e]
  /\ SetState(c, "reply")
  /\ UNCHANGED <<poisoned, req, pos, out>>

\* File I/O fails, writes always so when the host disk is full.  The `?` behind
\* write_block leaves write_at before block_buf is put back.
ChunkFails(c) ==
  /\ InLoop(c)
  /\ req[c].cmd = "TRIM" => ~Whole(c)
  /\ bufKept \/ (req[c].cmd = "WRITE" /\ Whole(c))
  /\ IF Len(log) = MaxLog /\ req[c].cmd # "READ" THEN UNCHANGED faults
     ELSE faults < MaxFaults /\ faults' = faults + 1
  /\ Unlock(c, "EIO")
  /\ \/ UNCHANGED bufKept
     \/ req[c].cmd = "WRITE" /\ ~Whole(c) /\ bufKept' = FALSE
  /\ UNCHANGED <<lower, log, index, sealVars, optVars>>

\* Slicing an empty block_buf panics with the guard alive; so does the
\* debug_assert of write_block on an empty payload in a debug build.
ChunkPanics(c) ==
  /\ InLoop(c) /\ ~bufKept
  /\ req[c].cmd \in {"WRITE", "TRIM"} => ~Whole(c)
  /\ poisoned' = TRUE
  /\ holder' = NoConn /\ before' = ZeroDisk
  /\ Forget(c, "closed")
  /\ UNCHANGED <<diskVars, sealVars, optVars, faults>>

\* The loop is over.  FLUSH, and WRITE with FUA, sync the scratch file, which
\* may fail.
Finish(c) ==
  /\ st[c] = "running" /\ pos[c] = End(req[c])
  /\ \/ Unlock(c, "ok") /\ UNCHANGED faults
     \/ /\ req[c].cmd = "FLUSH" \/ (req[c].cmd = "WRITE" /\ req[c].fua)
        /\ faults < MaxFaults /\ faults' = faults + 1
        /\ Unlock(c, "EIO")
  /\ UNCHANGED <<diskVars, sealVars, optVars>>

-----------------------------------------------------------------------------
(***************************************************************************)
(* The process: auto_freeze once the VM has stopped, the end of the        *)
(* process at any time, and serve_scratch in the next one.                 *)
(***************************************************************************)

\* Mutant: sealing drops the blocks that read as zeroes.
SealScratchSparse ==
  /\ holder = NoConn /\ ~poisoned /\ staged = <<>> /\ Len(lower) < MaxLayers
  /\ \A b \in DOMAIN index : index[b] < Len(log)
  /\ staged' = <<[b \in {x \in DOMAIN index : log[index[x] + 1] # ZeroPayload} |->
                    log[index[b] + 1]]>>
  /\ UNCHANGED <<diskVars, lockVars, connVars, stored, optVars, faults>>

\* NbdHandle::seal_scratch: the live blocks, read under the mutex.
SealScratch ==
  /\ holder = NoConn /\ ~poisoned /\ staged = <<>> /\ Len(lower) < MaxLayers
  /\ \A b \in DOMAIN index : index[b] < Len(log)
  /\ staged' = <<[b \in DOMAIN index |-> log[index[b] + 1]]>>
  /\ UNCHANGED <<diskVars, lockVars, connVars, stored, optVars, faults>>

\* adopt_sealed and record_frozen_layer: the layer becomes the parent of the
\* next scratch.
RecordFrozenLayer ==
  /\ staged # <<>> /\ stored = lower
  /\ stored' = lower \o staged
  /\ UNCHANGED <<diskVars, lockVars, connVars, staged, optVars, faults>>

\* NbdHandle::stop ends the accept loop; the connection threads go on.
Shutdown ==
  /\ accepting
  /\ accepting' = FALSE
  /\ UNCHANGED <<diskVars, lockVars, connVars, sealVars, readOnly, faults>>

\* The process ends, and with it its threads and the scratch index; the next
\* one serves an empty scratch over the recorded layers.
ServeScratch ==
  /\ lower' = stored /\ staged' = <<>> /\ UNCHANGED stored
  /\ log' = <<>> /\ index' = [b \in {} |-> 0]
  /\ bufKept' = TRUE /\ poisoned' = FALSE /\ holder' = NoConn
  /\ accepting' = TRUE /\ UNCHANGED readOnly
  /\ st' = [c \in Conn |-> "closed"]
  /\ req' = [c \in Conn |-> NoRequest]
  /\ pos' = [c \in Conn |-> 0]
  /\ out' = [c \in Conn |-> NoData]
  /\ code' = [c \in Conn |-> "ok"]
  /\ before' = ZeroDisk
  /\ UNCHANGED faults

Next ==
  \/ \E c \in Conn :
       \/ Connect(c) \/ Disconnect(c) \/ Receive(c) \/ Refuse(c) \/ Lock(c) \/ Reply(c)
       \/ ReadChunk(c) \/ WriteChunk(c) \/ ZeroChunk(c) \/ ZeroNothing(c) \/ TrimChunk(c)
       \/ ChunkFails(c) \/ ChunkPanics(c) \/ Finish(c)
  \/ SealScratch \/ RecordFrozenLayer \/ Shutdown \/ ServeScratch

Spec == Init /\ [][Next]_vars

-----------------------------------------------------------------------------
(***************************************************************************)
(* Properties.                                                             *)
(***************************************************************************)

\* The append log keeps blocks apart: as long as block_buf is in place every
\* indexed block has a payload of its own, so that no write, failed or not, can
\* change what another block reads.
SlotsDistinct ==
  bufKept =>
    /\ \A b \in DOMAIN index : index[b] < Len(log)
    /\ \A a, b \in DOMAIN index : index[a] = index[b] => a = b

\* The export is a flat disk: requests of all connections take effect at one
\* instant each, failed ones on a prefix of their range at most, reads return
\* what is there, and sealing followed by a restart preserves every byte.
Disk == INSTANCE FlatDisk WITH
  content <- IF holder # NoConn THEN before ELSE Content,
  base <- LayerContent(lower),
  snap <- IF staged = <<>> THEN NoSnap ELSE LayerContent(lower \o staged),
  checkpoint <- LayerContent(stored),
  call <- req,
  reply <- [c \in Conn |->
              IF st[c] = "reply"
                THEN [code |-> code[c], data |-> IF code[c] = "ok" THEN out[c] ELSE NoData]
                ELSE NoReply],
  broken <- ~bufKept
ImplementsFlatDisk == Disk!Spec

\* Expected by LayeredDisk's field (stack.rs:85): block_buf is one block of
\* scratch space, also after an operation that failed.
BlockBufKept == bufKept

=============================================================================
