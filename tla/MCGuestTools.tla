---------------------------- MODULE MCGuestTools ----------------------------
(* A small instance of GuestTools.  stdout carries the bytes of a two-byte *)
(* character in any order, stderr plain bytes, and stdin outgrows its pipe. *)
(* There is one file that a server opens, and one for each way a request   *)
(* can end before it reaches a server.                                     *)
EXTENDS GuestTools, TLC

CONSTANTS f1, big, gone, out, txt, away

MCBytesOn == ("stdout" :> {"l", "t"}) @@ ("stderr" :> {"a"})

MCFiles == {f1, big, gone, out, txt, away}
MCFileClass == (f1 :> "ok") @@ (big :> "too_large") @@ (gone :> "missing") @@ (out :> "outside")
               @@ (txt :> "unknown_language") @@ (away :> "no_workspace")
=============================================================================
