------------------------------ MODULE LayerStack ------------------------------
(***************************************************************************)
(* The data of petri-nbd (crates/petri-nbd/src/{stack,layer}.rs): the      *)
(* geometry shared by all layers of a disk, immutable layers, the scratch  *)
(* overlay's append log and index, and top-down read resolution.           *)
(***************************************************************************)
EXTENDS Integers, Sequences

CONSTANTS BlockSize, BlockCount,
          Byte             \* the values of a byte; 0 is one of them

ASSUME GeometryAssumption ==
  /\ BlockSize \in Nat \ {0}
  /\ BlockCount \in Nat \ {0}
  /\ 0 \in Byte

\* Geometry: virtual_size is a multiple of block_size.
VirtualSize == BlockCount * BlockSize
Block == 0 .. BlockCount - 1
Address == 0 .. VirtualSize - 1
InBlock == 0 .. BlockSize - 1

\* Loop arithmetic of read_at, write_at, write_zeroes and trim: the block an
\* address lies in, its offset there, and how many of the bytes from pos up to
\* (excluding) end lie in that block.
BlockOf(pos) == pos \div BlockSize
BlockOffset(pos) == pos % BlockSize
ChunkLen(pos, end) ==
  LET rest == BlockSize - BlockOffset(pos)
  IN  IF rest <= end - pos THEN rest ELSE end - pos

Payload == [InBlock -> Byte]
ZeroPayload == [i \in InBlock |-> 0]

\* An ImmutableLayer: the blocks it populates and their bytes.  A raw base
\* populates a prefix of the blocks, a sealed layer any set of them.
Layer == UNION {[S -> Payload] : S \in SUBSET Block}

\* resolve_block below the scratch: the highest layer of the stack (bottom
\* first) that populates the block wins, and a hole reads as zeroes.
LowerBlock(stack, b) ==
  LET has == {i \in DOMAIN stack : b \in DOMAIN stack[i]}
  IN  IF has = {} THEN ZeroPayload
      ELSE stack[CHOOSE i \in has : \A j \in has : j <= i][b]

\* What a disk made of the layers alone reads.
LayerContent(stack) ==
  [x \in Address |-> LowerBlock(stack, BlockOf(x))[BlockOffset(x)]]

=============================================================================
