---------------------------- MODULE HostCommands ----------------------------
(***************************************************************************)
(* The three families of commands on one host: the calls that drive an     *)
(* instance (HostBackend), by any number of processes, and the commands of *)
(* one operator, those of the image registry and the sandboxes             *)
(* (SandboxDisk) and those that build images (BuilderBundle).              *)
(***************************************************************************)
EXTENDS HostBackend, SandboxDisk, BuilderBundle

HostVars == <<vars, imageVars, buildVars>>

\* The instance of the drivers, when no driver is called.
Undriven == Init /\ json.pid \in VzPid

\* Bound: a behaviour runs the commands of one family.  The families share no
\* file, and SandboxDisk and BuilderBundle take each outcome a call to the
\* backend can have, so that running several reaches no other state of any.
HostCommandsNext ==
    \/ RegistryInit /\ BundleInit /\ Next /\ UNCHANGED <<imageVars, buildVars>>
    \/ Undriven /\ RegistryInit /\ BuilderNext /\ UNCHANGED <<vars, imageVars>>
    \/ Undriven /\ BundleInit /\ DiskNext /\ UNCHANGED <<vars, buildVars>>

HostCommandsInit == Init /\ RegistryInit /\ BundleInit

HostCommandsSpec ==
    HostCommandsInit /\ [][HostCommandsNext]_HostVars /\ Fairness /\ DiskFairness
=============================================================================
