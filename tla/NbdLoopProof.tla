----------------------------- MODULE NbdLoopProof -----------------------------
(***************************************************************************)
(* Proofs about NbdExport, for every geometry, stack of layers, set of     *)
(* connections and set of requests, part 1: the arithmetic of the block    *)
(* loops, the resolution of a block in a stack of layers, the invariant,   *)
(* and what one iteration of a block loop does to the disk.                *)
(***************************************************************************)
EXTENDS NbdExport, WellFoundedInduction, SequenceTheorems, TLAPS

-----------------------------------------------------------------------------
(***************************************************************************)
(* Block arithmetic.                                                       *)
(***************************************************************************)

\* Multiplication by a natural number is monotone.
LEMMA MultMono ==
  ASSUME NEW a \in Nat, NEW b \in Nat, NEW k \in Nat, a <= b
  PROVE  a * k <= b * k
  BY SMT

\* An address is its block number times the block size plus its offset.
LEMMA BlockSplit ==
  ASSUME NEW x \in Nat
  PROVE  /\ BlockOf(x) \in Nat
         /\ BlockOffset(x) \in InBlock
         /\ x = BlockOf(x) * BlockSize + BlockOffset(x)
  BY GeometryAssumption, SMT DEF BlockOf, BlockOffset, InBlock

\* There is only one way to split an address into a block and an offset.
LEMMA BlockUnique ==
  ASSUME NEW x \in Nat, NEW q \in Nat, NEW r \in InBlock, x = q * BlockSize + r
  PROVE  BlockOf(x) = q /\ BlockOffset(x) = r
<1>. DEFINE p == BlockOf(x)
            s == BlockOffset(x)
            k == BlockSize
<1>1. /\ p \in Nat /\ s \in 0 .. k - 1 /\ r \in 0 .. k - 1 /\ k \in Nat
      /\ p * k + s = q * k + r
  BY BlockSplit, GeometryAssumption DEF InBlock
<1>. HIDE DEF p, s, k
<1>2. ASSUME NEW a \in Nat, NEW b \in Nat, a < b, NEW i \in 0 .. k - 1, NEW j \in 0 .. k - 1
      PROVE  a * k + i # b * k + j
  <2>1. (a + 1) * k <= b * k
    BY <1>1, <1>2, MultMono
  <2>2. (a + 1) * k = a * k + k
    BY <1>1, <1>2
  <2>3. a * k \in Int /\ b * k \in Int
    BY <1>1, <1>2
  <2> QED
    BY <1>1, <1>2, <2>1, <2>2, <2>3
<1>3. ~(p < q) /\ ~(q < p)
  BY <1>1, <1>2
<1>4. p = q
  BY <1>1, <1>3
<1>5. q * k \in Int
  BY <1>1
<1>6. s = r
  BY <1>1, <1>4, <1>5
<1> QED
  BY <1>4, <1>6 DEF p, s

\* Every address of the disk lies in one of its blocks.
LEMMA AddressInBlock ==
  ASSUME NEW x \in Address
  PROVE  x \in Nat /\ BlockOf(x) \in Block
<1>1. x \in Nat /\ VirtualSize \in Nat /\ x < VirtualSize
  BY GeometryAssumption DEF Address, VirtualSize
<1>2. BlockOf(x) \in Nat /\ BlockOffset(x) \in InBlock /\ x = BlockOf(x) * BlockSize + BlockOffset(x)
  BY <1>1, BlockSplit
<1>3. ASSUME BlockCount <= BlockOf(x)
      PROVE  FALSE
  <2>1. BlockCount * BlockSize <= BlockOf(x) * BlockSize
    BY <1>2, <1>3, MultMono, GeometryAssumption
  <2>2. BlockOf(x) * BlockSize \in Nat /\ BlockOffset(x) \in Nat
    BY <1>2, GeometryAssumption DEF InBlock
  <2> QED
    BY <1>1, <1>2, <2>1, <2>2 DEF VirtualSize
<1> QED
  BY <1>1, <1>2, <1>3, GeometryAssumption DEF Block

\* The bytes of one iteration: those of its block from its offset on, n of them.
LEMMA ChunkBounds ==
  ASSUME NEW p \in Nat, NEW end \in Nat, p < end
  PROVE  /\ ChunkLen(p, end) \in 1 .. BlockSize
         /\ p + ChunkLen(p, end) <= end
         /\ BlockOffset(p) + ChunkLen(p, end) <= BlockSize
<1>1. BlockOffset(p) \in 0 .. BlockSize - 1 /\ BlockSize \in Nat
  BY BlockSplit, GeometryAssumption DEF InBlock
<1> QED
  BY <1>1 DEF ChunkLen

LEMMA ChunkBytes ==
  ASSUME NEW p \in Nat, NEW n \in Nat, BlockOffset(p) + n <= BlockSize, NEW x \in Nat
  PROVE  /\ p <= x /\ x < p + n =>
              /\ BlockOf(x) = BlockOf(p)
              /\ BlockOffset(x) = BlockOffset(p) + (x - p)
         /\ BlockOf(x) = BlockOf(p) => x - p = BlockOffset(x) - BlockOffset(p)
<1>1. /\ BlockOf(p) \in Nat /\ BlockOffset(p) \in InBlock
      /\ p = BlockOf(p) * BlockSize + BlockOffset(p)
      /\ BlockOf(x) \in Nat /\ BlockOffset(x) \in InBlock
      /\ x = BlockOf(x) * BlockSize + BlockOffset(x)
  BY BlockSplit
<1>. DEFINE m == BlockOf(p) * BlockSize
<1>2. m \in Nat
  BY <1>1, GeometryAssumption
<1>3. ASSUME p <= x, x < p + n
      PROVE  /\ BlockOf(x) = BlockOf(p)
             /\ BlockOffset(x) = BlockOffset(p) + (x - p)
  <2>1. BlockOffset(p) + (x - p) \in InBlock
    BY <1>1, <1>3, GeometryAssumption DEF InBlock
  <2>2. x = m + (BlockOffset(p) + (x - p))
    BY <1>1, <1>2, GeometryAssumption DEF InBlock
  <2> QED
    BY <1>1, <2>1, <2>2, BlockUnique
<1>4. ASSUME BlockOf(x) = BlockOf(p)
      PROVE  x - p = BlockOffset(x) - BlockOffset(p)
  <2>1. x = m + BlockOffset(x) /\ p = m + BlockOffset(p)
    BY <1>1, <1>4
  <2>. HIDE DEF m
  <2> QED
    BY <1>1, <1>2, <2>1, GeometryAssumption DEF InBlock
<1> QED
  BY <1>3, <1>4

-----------------------------------------------------------------------------
(***************************************************************************)
(* Resolution of a block in a stack of layers.                             *)
(***************************************************************************)

\* A nonempty set of positions of a sequence has a greatest element.
LEMMA HasGreatest ==
  ASSUME NEW n \in Nat, NEW S \in SUBSET (1 .. n), S # {}
  PROVE  \E i \in S : \A j \in S : j <= i
<1>. DEFINE T == {n - i : i \in S}
<1>1. T # {}
  OBVIOUS
<1>2. ASSUME NEW t \in T PROVE t \in Nat
  <2>1. PICK i \in S : t = n - i
    OBVIOUS
  <2> QED
    BY <2>1
<1>3. \E x \in T : \A y \in T : ~(<<y, x>> \in OpToRel(<, Nat))
  BY <1>1, <1>2, NatLessThanWellFounded, WFMin, Zenon
<1>4. PICK x \in T : \A y \in T : ~(<<y, x>> \in OpToRel(<, Nat))
  BY <1>3
<1>5. \A y \in T : ~(y < x)
  BY <1>2, <1>4 DEF OpToRel
<1>6. PICK i \in S : x = n - i
  OBVIOUS
<1>7. \A j \in S : n - j \in T
  OBVIOUS
<1>8. \A j \in S : j <= i
  BY <1>5, <1>6, <1>7
<1> QED
  BY <1>8

\* The positions of the layers of a stack that populate a block, and the layer
\* resolve_block takes among them.
Populating(stack, b) == {i \in DOMAIN stack : b \in DOMAIN stack[i]}
IsTop(i, S) == i \in S /\ \A j \in S : j <= i
Top(S) == CHOOSE i \in S : \A j \in S : j <= i

LEMMA TopIsTop ==
  ASSUME NEW stack \in Seq(Layer), NEW b, Populating(stack, b) # {}
  PROVE  IsTop(Top(Populating(stack, b)), Populating(stack, b))
<1>1. Len(stack) \in Nat /\ Populating(stack, b) \in SUBSET (1 .. Len(stack))
  BY DEF Populating
<1>2. \E i \in Populating(stack, b) : \A j \in Populating(stack, b) : j <= i
  BY <1>1, HasGreatest
<1> QED
  BY <1>2 DEF IsTop, Top

LEMMA TopUnique ==
  ASSUME NEW S \in SUBSET Nat, NEW i, NEW j, IsTop(i, S), IsTop(j, S)
  PROVE  i = j
  BY DEF IsTop

LEMMA LowerBlockValue ==
  ASSUME NEW stack, NEW b
  PROVE  /\ Populating(stack, b) = {} => LowerBlock(stack, b) = ZeroPayload
         /\ Populating(stack, b) # {} => LowerBlock(stack, b) = stack[Top(Populating(stack, b))][b]
  BY DEF LowerBlock, Populating, Top

LEMMA ZeroIsPayload == ZeroPayload \in Payload
  BY GeometryAssumption DEF ZeroPayload, Payload

\* What a layer holds for a block it populates is a payload.
LEMMA LayerPayload ==
  ASSUME NEW L \in Layer, NEW b \in DOMAIN L
  PROVE  L[b] \in Payload
<1>1. PICK S \in SUBSET Block : L \in [S -> Payload]
  BY DEF Layer
<1> QED
  BY <1>1

LEMMA LowerBlockType ==
  ASSUME NEW stack \in Seq(Layer), NEW b
  PROVE  LowerBlock(stack, b) \in Payload
<1>1. CASE Populating(stack, b) = {}
  BY <1>1, LowerBlockValue, ZeroIsPayload
<1>2. CASE Populating(stack, b) # {}
  <2>. DEFINE i == Top(Populating(stack, b))
  <2>1. i \in Populating(stack, b)
    BY <1>2, TopIsTop DEF IsTop
  <2>2. i \in 1 .. Len(stack) /\ b \in DOMAIN stack[i]
    BY <2>1 DEF Populating
  <2>3. stack[i] \in Layer
    BY <2>2
  <2>4. stack[i][b] \in Payload
    BY <2>2, <2>3, LayerPayload
  <2> QED
    BY <1>2, <2>4, LowerBlockValue
<1> QED
  BY <1>1, <1>2

\* A disk made of layers has a byte at every address.
LEMMA LayerContentType ==
  ASSUME NEW stack \in Seq(Layer)
  PROVE  LayerContent(stack) \in [Address -> Byte]
<1>1. ASSUME NEW x \in Address
      PROVE  LowerBlock(stack, BlockOf(x))[BlockOffset(x)] \in Byte
  <2>1. LowerBlock(stack, BlockOf(x)) \in [InBlock -> Byte]
    BY LowerBlockType DEF Payload
  <2>2. BlockOffset(x) \in InBlock
    BY AddressInBlock, BlockSplit
  <2> QED
    BY <2>1, <2>2
<1> QED
  BY <1>1 DEF LayerContent

\* A layer put on top of a stack hides the stack where it populates a block, and
\* nowhere else.
LEMMA LowerBlockOnTop ==
  ASSUME NEW stack \in Seq(Layer), NEW L \in Layer, NEW b
  PROVE  LowerBlock(stack \o <<L>>, b) =
           IF b \in DOMAIN L THEN L[b] ELSE LowerBlock(stack, b)
<1>. DEFINE big == stack \o <<L>>
            n == Len(stack)
<1>1. /\ big \in Seq(Layer) /\ n \in Nat
      /\ DOMAIN big = 1 .. n + 1 /\ DOMAIN stack = 1 .. n
      /\ big[n + 1] = L
      /\ \A i \in 1 .. n : big[i] = stack[i]
  OBVIOUS
<1>. HIDE DEF big, n
<1>2. Populating(big, b) \in SUBSET Nat /\ Populating(stack, b) \in SUBSET Nat
  BY <1>1 DEF Populating
<1>3. CASE b \in DOMAIN L
  <2>1. IsTop(n + 1, Populating(big, b))
    BY <1>1, <1>3 DEF IsTop, Populating
  <2>2. Populating(big, b) # {}
    BY <2>1 DEF IsTop
  <2>3. Top(Populating(big, b)) = n + 1
    BY <1>1, <1>2, <2>1, <2>2, TopIsTop, TopUnique
  <2>4. LowerBlock(big, b) = big[n + 1][b]
    BY <2>2, <2>3, LowerBlockValue
  <2> QED
    BY <1>1, <1>3, <2>4 DEF big
<1>4. CASE b \notin DOMAIN L
  <2>1. Populating(big, b) = Populating(stack, b)
    BY <1>1, <1>4 DEF Populating
  <2>2. CASE Populating(stack, b) = {}
    BY <1>4, <2>1, <2>2, LowerBlockValue DEF big
  <2>3. CASE Populating(stack, b) # {}
    <3>1. Top(Populating(stack, b)) \in 1 .. n
      BY <1>1, <2>3, TopIsTop DEF IsTop, Populating
    <3>2. LowerBlock(big, b) = big[Top(Populating(stack, b))][b]
      BY <2>1, <2>3, LowerBlockValue
    <3>3. LowerBlock(stack, b) = stack[Top(Populating(stack, b))][b]
      BY <2>3, LowerBlockValue
    <3> QED
      BY <1>1, <1>4, <3>1, <3>2, <3>3 DEF big
  <2> QED
    BY <2>2, <2>3
<1> QED
  BY <1>3, <1>4

-----------------------------------------------------------------------------
(***************************************************************************)
(* The invariant.                                                          *)
(***************************************************************************)

\* The mutex: the thread in a block loop is the one that holds it.
MutexInv ==
  /\ holder # NoConn => st[holder] = "running"
  /\ \A c \in Conn : st[c] = "running" => holder = c

\* What a thread in a block loop knows about its own request.
Accepted(c) ==
  /\ Refusal(req[c]) = "ok"
  /\ pos[c] \in req[c].off .. End(req[c])
  /\ IF req[c].cmd = "READ" THEN out[c] \in Data(req[c].len) ELSE out[c] = NoData

CallInv ==
  \A c \in Conn :
    /\ st[c] \in {"closed", "open"} <=> req[c] = NoRequest
    /\ st[c] = "running" => Accepted(c)

\* Threads panic only for want of block_buf.
PoisonInv == poisoned => ~bufKept

\* What request r leaves at address x: TRIM zeroes it or uncovers the layers.
Leaves(r, x) == IF r.cmd = "WRITE" THEN {r.data[x - r.off]}
                ELSE IF r.cmd = "TRIM" THEN {0, LayerContent(lower)[x]} ELSE {0}

Changed(r, p, x) == r.cmd \in Changing /\ r.off <= x /\ x < p

\* The block loops: behind the loop position the request has been carried out,
\* everywhere else the disk is what it was when the mutex was taken, and what
\* has been read is what was there.
Progress(c) ==
  /\ \A x \in Address :
       /\ Changed(req[c], pos[c], x) => Content[x] \in Leaves(req[c], x)
       /\ ~Changed(req[c], pos[c], x) => Content[x] = before[x]
  /\ req[c].cmd = "READ" =>
       \A i \in 0 .. req[c].len - 1 :
         req[c].off + i < pos[c] => out[c][i] = before[req[c].off + i]

LoopInv == bufKept => \A c \in Conn : st[c] = "running" => Progress(c)

ExportInv ==
  /\ ExportTypeOK
  /\ MutexInv
  /\ CallInv
  /\ PoisonInv
  /\ SlotsDistinct
  /\ LoopInv

-----------------------------------------------------------------------------
(***************************************************************************)
(* Facts about single states.                                              *)
(***************************************************************************)

\* The scratch over the layers resolves every block to a payload.
LEMMA ResolveType ==
  ASSUME ExportTypeOK, NEW b
  PROVE  Resolve(b) \in Payload
<1>1. CASE b \notin DOMAIN index
  BY <1>1, LowerBlockType DEF ExportTypeOK, Resolve
<1>2. CASE b \in DOMAIN index /\ index[b] < Len(log)
  <2>1. index[b] + 1 \in 1 .. Len(log) /\ log \in Seq(Payload)
    BY <1>2 DEF ExportTypeOK
  <2>2. log[index[b] + 1] \in Payload
    BY <2>1
  <2> QED
    BY <1>2, <2>2 DEF Resolve
<1>3. CASE b \in DOMAIN index /\ ~(index[b] < Len(log))
  BY <1>3, ZeroIsPayload DEF Resolve
<1> QED
  BY <1>1, <1>2, <1>3

LEMMA ContentType ==
  ASSUME ExportTypeOK
  PROVE  Content \in [Address -> Byte]
<1>1. ASSUME NEW x \in Address
      PROVE  Resolve(BlockOf(x))[BlockOffset(x)] \in Byte
  <2>1. Resolve(BlockOf(x)) \in [InBlock -> Byte]
    BY ResolveType DEF Payload
  <2>2. BlockOffset(x) \in InBlock
    BY AddressInBlock, BlockSplit
  <2> QED
    BY <2>1, <2>2
<1> QED
  BY <1>1 DEF Content

LEMMA EmptyScratch ==
  ASSUME index = [b \in {} |-> 0]
  PROVE  Content = LayerContent(lower)
  BY DEF Content, Resolve, LayerContent

LEMMA VirtualSizeNat == VirtualSize \in Nat
  BY GeometryAssumption DEF VirtualSize

LEMMA NoDataIsBuffer == NoData \in Data(0) /\ NoData \in Buffer
<1>1. NoData \in Data(0)
  BY DEF NoData, Data
<1> QED
  BY <1>1, VirtualSizeNat DEF Buffer

\* A request that is not refused is a known one and, but for FLUSH, in range.
LEMMA AcceptedRequest ==
  ASSUME NEW r \in Request, Refusal(r) = "ok"
  PROVE  /\ r.cmd \in Command /\ r.off \in Nat /\ r.len \in Nat
         /\ End(r) \in Nat /\ r.off <= End(r)
         /\ r.cmd = "FLUSH" => End(r) = r.off
         /\ r.cmd # "FLUSH" => End(r) = r.off + r.len /\ End(r) <= VirtualSize
         /\ r.cmd = "WRITE" => r.data \in Data(r.len)
<1>1. r.off \in Nat /\ r.len \in Nat /\ (r.cmd = "WRITE" => r.data \in Data(r.len))
  BY ExportAssumption
<1>2. r.cmd \in Command /\ (r.cmd # "FLUSH" => ~OutOfBounds(r.off, r.len))
  BY DEF Refusal
<1> QED
  BY <1>1, <1>2, VirtualSizeNat DEF End, OutOfBounds

\* A thread that has a request to run: its bounds, and those of its iteration.
LEMMA RunningBounds ==
  ASSUME ExportInv, NEW c \in Conn, st[c] = "running"
  PROVE  /\ holder = c
         /\ req[c] \in Request /\ Refusal(req[c]) = "ok"
         /\ pos[c] \in Nat /\ req[c].off <= pos[c] /\ pos[c] <= End(req[c])
<1>1. Accepted(c) /\ req[c] # NoRequest /\ holder = c
  BY DEF ExportInv, CallInv, MutexInv
<1>2. req[c] \in Request /\ pos[c] \in Nat
  BY <1>1 DEF ExportInv, ExportTypeOK
<1>3. req[c].off \in Nat /\ End(req[c]) \in Nat
  BY <1>1, <1>2, AcceptedRequest DEF Accepted
<1> QED
  BY <1>1, <1>2, <1>3 DEF Accepted

LEMMA LoopBounds ==
  ASSUME ExportInv, NEW c \in Conn, InLoop(c)
  PROVE  /\ st[c] = "running"
         /\ req[c].cmd # "FLUSH"
         /\ N(c) \in 1 .. BlockSize
         /\ pos[c] + N(c) <= End(req[c])
         /\ pos[c] + N(c) <= VirtualSize
         /\ At(c) + N(c) <= BlockSize
         /\ At(c) \in InBlock
         /\ Blk(c) \in Block
<1>1. st[c] = "running" /\ pos[c] < End(req[c])
  BY DEF InLoop
<1>2. /\ req[c] \in Request /\ Refusal(req[c]) = "ok"
      /\ pos[c] \in Nat /\ req[c].off <= pos[c] /\ pos[c] <= End(req[c])
  BY <1>1, RunningBounds
<1>3. /\ End(req[c]) \in Nat /\ req[c].off \in Nat
      /\ req[c].cmd = "FLUSH" => End(req[c]) = req[c].off
      /\ req[c].cmd # "FLUSH" => End(req[c]) <= VirtualSize
  BY <1>2, AcceptedRequest
<1>4. req[c].cmd # "FLUSH"
  BY <1>1, <1>2, <1>3
<1>5. /\ N(c) \in 1 .. BlockSize
      /\ pos[c] + N(c) <= End(req[c])
      /\ At(c) + N(c) <= BlockSize
  BY <1>1, <1>2, <1>3, ChunkBounds DEF N, At
<1>6. pos[c] \in Address
  BY <1>1, <1>2, <1>3, <1>4, VirtualSizeNat DEF Address
<1>7. Blk(c) \in Block /\ At(c) \in InBlock
  BY <1>2, <1>6, AddressInBlock, BlockSplit DEF Blk, At
<1>8. pos[c] + N(c) <= VirtualSize
  BY <1>2, <1>3, <1>4, <1>5, VirtualSizeNat, GeometryAssumption
<1> QED
  BY <1>1, <1>4, <1>5, <1>7, <1>8

-----------------------------------------------------------------------------
(***************************************************************************)
(* One iteration of a block loop.                                          *)
(***************************************************************************)

InChunk(c, x) == pos[c] <= x /\ x < pos[c] + N(c)

\* The addresses of an iteration are those of its block from its offset on.
LEMMA ChunkAddress ==
  ASSUME ExportInv, NEW c \in Conn, InLoop(c), NEW x \in Address
  PROVE  /\ InChunk(c, x) <=> /\ BlockOf(x) = Blk(c)
                              /\ At(c) <= BlockOffset(x) /\ BlockOffset(x) < At(c) + N(c)
         /\ BlockOf(x) = Blk(c) => x = pos[c] + (BlockOffset(x) - At(c))
         /\ InChunk(c, x) => BlockOffset(x) = At(c) + (x - pos[c])
<1>1. /\ pos[c] \in Nat /\ N(c) \in Nat /\ x \in Nat
      /\ At(c) \in Nat /\ BlockOffset(x) \in Nat
      /\ At(c) + N(c) <= BlockSize
  BY LoopBounds, RunningBounds, AddressInBlock, BlockSplit, GeometryAssumption DEF InBlock
<1>2. /\ pos[c] <= x /\ x < pos[c] + N(c) =>
           BlockOf(x) = Blk(c) /\ BlockOffset(x) = At(c) + (x - pos[c])
      /\ BlockOf(x) = Blk(c) => x - pos[c] = BlockOffset(x) - At(c)
  BY <1>1, ChunkBytes DEF Blk, At
<1> QED
  BY <1>1, <1>2 DEF InChunk

\* The byte a change puts at an address of its range.
LEMMA NewByteLeft ==
  ASSUME ExportInv, NEW c \in Conn, InLoop(c), req[c].cmd \in Changing,
         NEW x \in Address, InChunk(c, x)
  PROVE  NewByte(req[c], x) \in Byte /\ NewByte(req[c], x) \in Leaves(req[c], x)
<1>1. /\ req[c] \in Request /\ Refusal(req[c]) = "ok" /\ req[c].cmd # "FLUSH"
      /\ pos[c] \in Nat /\ req[c].off <= pos[c] /\ N(c) \in Nat
      /\ pos[c] + N(c) <= End(req[c])
  BY LoopBounds, RunningBounds, GeometryAssumption
<1>2. /\ req[c].off \in Nat /\ req[c].len \in Nat /\ End(req[c]) = req[c].off + req[c].len
      /\ req[c].cmd = "WRITE" => req[c].data \in Data(req[c].len)
  BY <1>1, AcceptedRequest
<1>3. x \in Nat /\ x - req[c].off \in 0 .. req[c].len - 1
  BY <1>1, <1>2, AddressInBlock DEF InChunk
<1>4. CASE req[c].cmd = "WRITE"
  BY <1>2, <1>3, <1>4 DEF NewByte, Leaves, Data
<1>5. CASE req[c].cmd # "WRITE"
  BY <1>5, GeometryAssumption DEF NewByte, Leaves
<1> QED
  BY <1>4, <1>5

\* The merged block holds the request's bytes inside the chunk and the disk's
\* outside of it.
LEMMA MergedBytes ==
  ASSUME ExportInv, NEW c \in Conn, InLoop(c), NEW x \in Address, BlockOf(x) = Blk(c)
  PROVE  Merged(c)[BlockOffset(x)] =
           IF InChunk(c, x) THEN NewByte(req[c], x) ELSE Content[x]
<1>1. /\ BlockOffset(x) \in InBlock
      /\ InChunk(c, x) <=> At(c) <= BlockOffset(x) /\ BlockOffset(x) < At(c) + N(c)
      /\ x = pos[c] + (BlockOffset(x) - At(c))
  BY ChunkAddress, AddressInBlock, BlockSplit
<1>2. Content[x] = Resolve(Blk(c))[BlockOffset(x)]
  BY DEF Content
<1> QED
  BY <1>1, <1>2 DEF Merged

LEMMA MergedType ==
  ASSUME ExportInv, NEW c \in Conn, InLoop(c), req[c].cmd \in Changing
  PROVE  Merged(c) \in Payload
<1>1. /\ pos[c] \in Nat /\ N(c) \in Nat /\ At(c) \in Nat
      /\ pos[c] + N(c) <= VirtualSize /\ VirtualSize \in Nat
  BY LoopBounds, RunningBounds, VirtualSizeNat, GeometryAssumption DEF InBlock
<1>2. ASSUME NEW i \in InBlock, At(c) <= i, i < At(c) + N(c)
      PROVE  NewByte(req[c], pos[c] + (i - At(c))) \in Byte
  <2>. DEFINE x == pos[c] + (i - At(c))
  <2>1. i \in Nat
    BY GeometryAssumption DEF InBlock
  <2>2. x \in Address /\ InChunk(c, x)
    BY <1>1, <1>2, <2>1 DEF Address, InChunk
  <2> QED
    BY <2>2, NewByteLeft
<1>3. Resolve(Blk(c)) \in [InBlock -> Byte]
  BY ResolveType DEF Payload, ExportInv
<1> QED
  BY <1>2, <1>3 DEF Merged, Payload

\* Appending a payload changes one block of the disk and keeps the slots apart.
LEMMA WriteBlockEffect ==
  ASSUME ExportInv, NEW b \in Block, NEW payload \in Payload,
         WriteBlock(b, payload), UNCHANGED lower
  PROVE  /\ log' \in Seq(Payload) /\ Len(log') = Len(log) + 1
         /\ DOMAIN index' \subseteq Block
         /\ \A a \in DOMAIN index' : index'[a] \in 0 .. Len(log')
         /\ bufKept =>
              /\ \A a \in DOMAIN index' : index'[a] < Len(log')
              /\ \A a, d \in DOMAIN index' : index'[a] = index'[d] => a = d
              /\ \A x \in Address : Content'[x] = IF BlockOf(x) = b
                                                    THEN payload[BlockOffset(x)]
                                                    ELSE Content[x]
<1>1. /\ log \in Seq(Payload) /\ Len(log) \in Nat
      /\ DOMAIN index \subseteq Block /\ \A a \in DOMAIN index : index[a] \in 0 .. Len(log)
  BY DEF ExportInv, ExportTypeOK
<1>2. /\ log' = Append(log, payload)
      /\ index' = [x \in DOMAIN index \union {b} |-> IF x = b THEN Len(log) ELSE index[x]]
  BY DEF WriteBlock
<1>3. /\ log' \in Seq(Payload) /\ Len(log') = Len(log) + 1
      /\ log'[Len(log) + 1] = payload
      /\ \A i \in 1 .. Len(log) : log'[i] = log[i]
  BY <1>1, <1>2
<1>4. /\ DOMAIN index' = DOMAIN index \union {b}
      /\ index'[b] = Len(log)
      /\ \A a \in DOMAIN index : a # b => index'[a] = index[a]
  BY <1>2
<1>5. \A a \in DOMAIN index' : index'[a] \in 0 .. Len(log')
  BY <1>1, <1>3, <1>4
<1>6. ASSUME bufKept
      PROVE  /\ \A a \in DOMAIN index' : index'[a] < Len(log')
             /\ \A a, d \in DOMAIN index' : index'[a] = index'[d] => a = d
             /\ \A x \in Address : Content'[x] = IF BlockOf(x) = b
                                                   THEN payload[BlockOffset(x)]
                                                   ELSE Content[x]
  <2>1. /\ \A a \in DOMAIN index : index[a] < Len(log)
        /\ \A a, d \in DOMAIN index : index[a] = index[d] => a = d
    BY <1>6 DEF ExportInv, SlotsDistinct
  <2>2. \A a \in DOMAIN index' : index'[a] < Len(log')
    BY <1>1, <1>3, <1>4, <2>1
  <2>3. ASSUME NEW a \in DOMAIN index', NEW d \in DOMAIN index', index'[a] = index'[d]
        PROVE  a = d
    BY <1>1, <1>4, <2>1, <2>3
  <2>4. Resolve(b)' = payload
    BY <1>1, <1>3, <1>4 DEF Resolve
  <2>5. ASSUME NEW a, a # b
        PROVE  Resolve(a)' = Resolve(a)
    <3>1. CASE a \in DOMAIN index
      <4>1. index'[a] = index[a] /\ index[a] < Len(log) /\ index[a] + 1 \in 1 .. Len(log)
        BY <1>1, <1>4, <2>1, <2>5, <3>1
      <4>2. a \in DOMAIN index' /\ index'[a] < Len(log')
        BY <1>4, <2>2, <3>1
      <4> QED
        BY <1>3, <3>1, <4>1, <4>2 DEF Resolve
    <3>2. CASE a \notin DOMAIN index
      BY <1>4, <2>5, <3>2 DEF Resolve
    <3> QED
      BY <3>1, <3>2
  <2>6. \A x \in Address : /\ Content'[x] = Resolve(BlockOf(x))'[BlockOffset(x)]
                           /\ Content[x] = Resolve(BlockOf(x))[BlockOffset(x)]
    BY DEF Content
  <2>7. \A x \in Address : Content'[x] = IF BlockOf(x) = b THEN payload[BlockOffset(x)]
                                                           ELSE Content[x]
    BY <2>4, <2>5, <2>6
  <2> QED
    BY <2>2, <2>3, <2>7
<1> QED
  BY <1>1, <1>3, <1>4, <1>5, <1>6

\* Forgetting a block uncovers the layers there and nowhere else.
LEMMA ForgetBlockEffect ==
  ASSUME ExportInv, NEW b \in Block, ForgetBlock(b), UNCHANGED lower
  PROVE  /\ log' \in Seq(Payload)
         /\ DOMAIN index' \subseteq Block
         /\ \A a \in DOMAIN index' : index'[a] \in 0 .. Len(log')
         /\ SlotsDistinct /\ bufKept' = bufKept => SlotsDistinct'
         /\ \A x \in Address : Content'[x] = IF BlockOf(x) = b
                                               THEN LayerContent(lower)[x]
                                               ELSE Content[x]
<1>1. /\ log' = log /\ DOMAIN index' = DOMAIN index \ {b}
      /\ \A a \in DOMAIN index' : index'[a] = index[a]
  BY DEF ForgetBlock
<1>2. /\ log \in Seq(Payload)
      /\ DOMAIN index \subseteq Block /\ \A a \in DOMAIN index : index[a] \in 0 .. Len(log)
  BY DEF ExportInv, ExportTypeOK
<1>3. ASSUME SlotsDistinct, bufKept' = bufKept
      PROVE  SlotsDistinct'
  BY <1>1, <1>3 DEF SlotsDistinct
<1>4. Resolve(b)' = LowerBlock(lower, b)
  BY <1>1 DEF Resolve
<1>5. \A a : a # b => Resolve(a)' = Resolve(a)
  BY <1>1 DEF Resolve
<1>6. \A x \in Address : /\ Content'[x] = Resolve(BlockOf(x))'[BlockOffset(x)]
                         /\ Content[x] = Resolve(BlockOf(x))[BlockOffset(x)]
                         /\ LayerContent(lower)[x] = LowerBlock(lower, BlockOf(x))[BlockOffset(x)]
  BY DEF Content, LayerContent
<1>7. \A x \in Address : Content'[x] = IF BlockOf(x) = b THEN LayerContent(lower)[x]
                                                         ELSE Content[x]
  BY <1>4, <1>5, <1>6
<1> QED
  BY <1>1, <1>2, <1>3, <1>7

\* A whole-block iteration covers its block and nothing else.
LEMMA WholeChunk ==
  ASSUME ExportInv, NEW c \in Conn, InLoop(c), Whole(c), NEW x \in Address
  PROVE  BlockOf(x) = Blk(c) <=> InChunk(c, x)
<1>1. BlockOffset(x) \in 0 .. BlockSize - 1 /\ BlockSize \in Nat
  BY AddressInBlock, BlockSplit, GeometryAssumption DEF InBlock
<1>2. At(c) = 0 /\ N(c) = BlockSize
  BY DEF Whole
<1> QED
  BY <1>1, <1>2, ChunkAddress

\* What the iteration puts on the disk is what the request leaves there.
Carried(c) ==
  \A x \in Address : /\ InChunk(c, x) => Content'[x] \in Leaves(req[c], x)
                     /\ ~InChunk(c, x) => Content'[x] = Content[x]

LEMMA MergedCarried ==
  ASSUME ExportInv, NEW c \in Conn, InLoop(c), req[c].cmd \in Changing, bufKept,
         WriteBlock(Blk(c), Merged(c)), UNCHANGED lower
  PROVE  Carried(c)
<1> SUFFICES ASSUME NEW x \in Address
             PROVE  /\ InChunk(c, x) => Content'[x] \in Leaves(req[c], x)
                    /\ ~InChunk(c, x) => Content'[x] = Content[x]
  BY DEF Carried
<1>1. Content'[x] = IF BlockOf(x) = Blk(c) THEN Merged(c)[BlockOffset(x)] ELSE Content[x]
  BY LoopBounds, MergedType, WriteBlockEffect
<1>2. InChunk(c, x) => BlockOf(x) = Blk(c)
  BY ChunkAddress
<1>3. InChunk(c, x) => NewByte(req[c], x) \in Leaves(req[c], x)
  BY NewByteLeft
<1>4. BlockOf(x) = Blk(c) =>
        Merged(c)[BlockOffset(x)] = IF InChunk(c, x) THEN NewByte(req[c], x) ELSE Content[x]
  BY MergedBytes
<1> QED
  BY <1>1, <1>2, <1>3, <1>4

LEMMA ForgetCarried ==
  ASSUME ExportInv, NEW c \in Conn, InLoop(c), req[c].cmd = "TRIM", Whole(c),
         ForgetBlock(Blk(c)), UNCHANGED lower
  PROVE  Carried(c)
<1> SUFFICES ASSUME NEW x \in Address
             PROVE  /\ InChunk(c, x) => Content'[x] \in Leaves(req[c], x)
                    /\ ~InChunk(c, x) => Content'[x] = Content[x]
  BY DEF Carried
<1>1. Content'[x] = IF BlockOf(x) = Blk(c) THEN LayerContent(lower)[x] ELSE Content[x]
  BY LoopBounds, ForgetBlockEffect
<1>2. BlockOf(x) = Blk(c) <=> InChunk(c, x)
  BY WholeChunk
<1> QED
  BY <1>1, <1>2 DEF Leaves

\* An iteration that carries out its part of the request takes the progress of
\* the loop one chunk further.
LEMMA ProgressStep ==
  ASSUME ExportInv, NEW c \in Conn, InLoop(c), req[c].cmd \in Changing, bufKept,
         Carried(c), Advance(c), UNCHANGED <<lower, before, req>>
  PROVE  Progress(c)'
<1>1. /\ Progress(c) /\ req[c].off \in Nat
      /\ pos[c] \in Nat /\ req[c].off <= pos[c] /\ N(c) \in Nat
  <2>1. st[c] = "running" /\ N(c) \in Nat
    BY LoopBounds, GeometryAssumption
  <2>2. /\ req[c] \in Request /\ Refusal(req[c]) = "ok"
        /\ pos[c] \in Nat /\ req[c].off <= pos[c]
    BY <2>1, RunningBounds
  <2>3. req[c].off \in Nat
    BY <2>2, AcceptedRequest
  <2>4. Progress(c)
    BY <2>1 DEF ExportInv, LoopInv
  <2> QED
    BY <2>1, <2>2, <2>3, <2>4
<1>2. pos'[c] = pos[c] + N(c)
  BY DEF Advance, ExportInv, ExportTypeOK
<1>3. ASSUME NEW x \in Address
      PROVE  Changed(req[c], pos'[c], x) <=> Changed(req[c], pos[c], x) \/ InChunk(c, x)
  <2>1. x \in Nat
    BY AddressInBlock
  <2> QED
    BY <1>1, <1>2, <2>1 DEF Changed, InChunk
<1>4. ASSUME NEW x \in Address
      PROVE  /\ Changed(req[c], pos'[c], x) => Content'[x] \in Leaves(req[c], x)
             /\ ~Changed(req[c], pos'[c], x) => Content'[x] = before[x]
  BY <1>1, <1>3 DEF Progress, Carried
<1>5. req[c].cmd # "READ"
  BY DEF Changing
<1>6. \A x : Leaves(req[c], x)' = Leaves(req[c], x)
  BY DEF Leaves
<1>7. \A x : Changed(req[c], pos[c], x)' = Changed(req[c], pos'[c], x)
  BY DEF Changed
<1> QED
  BY <1>4, <1>5, <1>6, <1>7 DEF Progress

=============================================================================
