----------------------------- MODULE MCNbdExport -----------------------------
(***************************************************************************)
(* NbdExport on two blocks of two bytes: block 0 is in both layers, block 1 *)
(* is a hole.                                                              *)
(***************************************************************************)
EXTENDS NbdExport, TLC

Pair(x, y) == [i \in InBlock |-> IF i = 0 THEN x ELSE y]

Stack == << 0 :> Pair(2, 2), 0 :> Pair(1, 2) >>

Req(cmd, off, len) == [cmd |-> cmd, fua |-> FALSE, off |-> off, len |-> len, data |-> NoData]
WriteReq(off, len, fua) ==
  [cmd |-> "WRITE", fua |-> fua, off |-> off, len |-> len, data |-> [i \in 0 .. len - 1 |-> 1]]

\* Whole, partial and several blocks; empty, too long, out of range and
\* wrapping ranges; a command the server does not know.
Requests ==
  { WriteReq(1, 3, FALSE), WriteReq(0, 2, TRUE), WriteReq(5, 2, FALSE),
    Req("READ", 1, 2), Req("READ", 0, 4), Req("WRITE_ZEROES", 0, 3),
    Req("TRIM", 1, 3), Req("FLUSH", 0, 0), Req("BLOCK_STATUS", 0, 0) }

\* A process that serves a stack with a frozen layer is followed until its first
\* request takes the mutex: from there on it is like the first one.
FirstProcess == lower = InitialStack \/ holder = NoConn

Symmetry == Permutations(Conn)

=============================================================================
