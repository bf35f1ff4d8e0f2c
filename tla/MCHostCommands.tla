--------------------------- MODULE MCHostCommands ---------------------------
(* Small instances of HostCommands, given by their configurations.         *)
EXTENDS HostCommands
=============================================================================
