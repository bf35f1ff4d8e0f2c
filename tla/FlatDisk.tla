------------------------------- MODULE FlatDisk -------------------------------
(***************************************************************************)
(* What the clients of an NBD export may rely on: a flat array of bytes on *)
(* which every request takes effect at one instant between its arrival and *)
(* its reply, with checkpoints to which the disk returns when the server   *)
(* process is replaced.  NbdExport implements this specification.          *)
(*                                                                         *)
(* A request that fails with EIO may have changed a prefix of its range.   *)
(* A failed write may also break the export, after which nothing but the   *)
(* layers below is promised until the process is replaced.                 *)
(***************************************************************************)
EXTENDS Integers

CONSTANTS Conn, Request, NoRequest, NoReply, NoSnap, VirtualSize, Byte,
          MaxRequestLen

VARIABLES content,     \* the bytes of the disk
          base,        \* the bytes to which discarded blocks fall back
          snap,        \* a snapshot taken but not committed, or NoSnap
          checkpoint,  \* the bytes the next server process starts with
          call,        \* [Conn -> Request \union {NoRequest}]
          reply,       \* [Conn -> replies \union {NoReply}]
          broken

diskVars == <<content, base, snap, checkpoint, call, reply, broken>>

Init ==
  /\ content \in [0 .. VirtualSize - 1 -> Byte]
  /\ base = content /\ checkpoint = content /\ snap = NoSnap
  /\ call = [c \in Conn |-> NoRequest]
  /\ reply = [c \in Conn |-> NoReply]
  /\ broken = FALSE

Changing == {"WRITE", "WRITE_ZEROES", "TRIM"}

InRange(r) == r.off + r.len <= VirtualSize

Pending(c) == call[c] # NoRequest /\ reply[c] = NoReply

Answer(c, code, data) ==
  /\ reply' = [reply EXCEPT ![c] = [code |-> code, data |-> data]]
  /\ UNCHANGED <<base, snap, checkpoint, call>>

NoData == [i \in {} |-> 0]

Ask(c) ==
  /\ call[c] = NoRequest
  /\ \E r \in Request : call' = [call EXCEPT ![c] = r]
  /\ UNCHANGED <<content, base, snap, checkpoint, reply, broken>>

\* The request is refused without effect: EPERM for changes to a read-only
\* export, EINVAL for unknown commands and for ranges that do not fit.
Refuse(c) ==
  /\ Pending(c)
  /\ \/ call[c].cmd \in Changing /\ Answer(c, "EPERM", NoData)
     \/ /\ \/ call[c].cmd \notin Changing \union {"READ", "FLUSH"}
           \/ call[c].cmd # "FLUSH" /\ ~InRange(call[c])
           \/ call[c].cmd = "READ" /\ call[c].len > MaxRequestLen
        /\ Answer(c, "EINVAL", NoData)
  /\ UNCHANGED <<content, broken>>

Read(c) ==
  /\ Pending(c)
  /\ \/ /\ call[c].cmd = "READ" /\ InRange(call[c])
        /\ Answer(c, "ok", [i \in 0 .. call[c].len - 1 |-> content[call[c].off + i]])
     \/ call[c].cmd = "READ" /\ Answer(c, "EIO", NoData)
  /\ UNCHANGED <<content, broken>>

Flush(c) ==
  /\ Pending(c)
  /\ call[c].cmd = "FLUSH"
  /\ \E code \in {"ok", "EIO"} : Answer(c, code, NoData)
  /\ UNCHANGED <<content, broken>>

\* What request r may leave at address x.
Effect(r, x) == IF r.cmd = "WRITE" THEN {r.data[x - r.off]}
                ELSE IF r.cmd = "TRIM" THEN {0, base[x]} ELSE {0}

\* A request that changes bytes: all of its range, or a prefix when it fails.
Change(c) ==
  LET r == call[c]
  IN  /\ Pending(c)
      /\ r.cmd \in Changing /\ InRange(r)
      /\ \E done \in 0 .. r.len, code \in {"ok", "EIO"} :
           /\ code = "ok" => done = r.len
           /\ content' \in [0 .. VirtualSize - 1 -> Byte]
           /\ \A x \in 0 .. VirtualSize - 1 :
                IF r.off <= x /\ x < r.off + done
                  THEN content'[x] \in Effect(r, x)
                  ELSE content'[x] = content[x]
           /\ Answer(c, code, NoData)
           /\ broken' => broken \/ (code = "EIO" /\ r.cmd = "WRITE")
           /\ broken' \in BOOLEAN

\* The reply reaches the client or is lost with the connection.
Done(c) ==
  /\ reply[c] # NoReply
  /\ call' = [call EXCEPT ![c] = NoRequest]
  /\ reply' = [reply EXCEPT ![c] = NoReply]
  /\ UNCHANGED <<content, base, snap, checkpoint, broken>>

Snapshot ==
  /\ snap = NoSnap
  /\ snap' = content
  /\ UNCHANGED <<content, base, checkpoint, call, reply, broken>>

Commit ==
  /\ snap # NoSnap
  /\ checkpoint' = snap
  /\ UNCHANGED <<content, base, snap, call, reply, broken>>

Restart ==
  /\ content' = checkpoint /\ base' = checkpoint
  /\ snap' = NoSnap
  /\ call' = [c \in Conn |-> NoRequest]
  /\ reply' = [c \in Conn |-> NoReply]
  /\ broken' = FALSE
  /\ UNCHANGED checkpoint

\* A broken export may do anything but touch the layers below.
Undefined == broken /\ broken' /\ UNCHANGED base

Next ==
  \/ \E c \in Conn : Ask(c) \/ Refuse(c) \/ Read(c) \/ Flush(c) \/ Change(c) \/ Done(c)
  \/ Snapshot \/ Commit \/ Restart \/ Undefined

Spec == Init /\ [][Next]_diskVars

=============================================================================
