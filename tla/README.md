# A TLA+ verification of petri

Petri runs an agent's tool calls inside a microVM. This directory holds TLA+
modules that model its stateful parts, TLC configurations that check them on
small instances, and proofs checked by TLAPS for all instances. `PROJECT.json`
maps every definition to the lines of `src/` it models.

## The system and its parts

| Part | Source | Module | State |
|---|---|---|---|
| Instance lifecycle | `petri/src/instance.rs` | `Lifecycle`, `StateRecord` | modelled |
| Host backend: lock, record, dispatch, stop, teardown | `petri/src/backend.rs`, `error.rs` | `HostBackend`, `HostBackendProof` | modelled, proved |
| Instance creation | `petri/src/backend.rs` | `HostCreate`, `HostCreateProof` | modelled, proved |
| VM helper | `petri-vz/Sources/petri-vz/main.swift` | its states in `HostBackend` and `HostCreate`, its boot, poll and dispatch in `GuestServer` | partly |
| Layered disk | `petri-nbd/src/{stack,layer}.rs` | `LayerStack`, `NbdExport`, `FlatDisk`, `NbdLoopProof`, `NbdExportProof`, `NbdRefinementProof` | modelled, proved |
| NBD server | `petri-nbd/src/{server,protocol}.rs` | `NbdExport` | modelled but for option haggling and framing |
| Freezing and serving a scratch | `petri/src/image.rs` | `NbdExport` | partly |
| Layer store | `petri-nbd/src/store.rs` | `ImageRegistry` | what the program calls |
| Image registry | `petri/src/image.rs` | `ImageRegistry`, `NbdExport` | modelled |
| Host CLI: sandboxes, NBD daemon, nocloud builder, builder bundle, image builds | `petri/src/cli.rs` | `ImageRegistry`, `SandboxDisk`, `BuilderBundle`, `HostCommands` | partly: the commands that change state |
| Policy | `petri-protocol/src/policy.rs` | `Policy` | modelled |
| Guest agent: connections and dispatch | `petri-guest/src/server.rs` | `DispatchFrame`, `GuestServer`, `GuestExec`, `GuestTools`, `GuestServerProof`, `GuestExecProof` | modelled, proved |
| Guest agent: modes, nftables, DNS proxy | `petri-guest/src/{netfilter,netstate,dnsproxy}.rs` | `NetFilter`, `GuestServer`, `GuestServerProof` | modelled, proved |
| Guest agent: language servers | `petri-guest/src/lsp/` | `LspClient`, `GuestTools` | modelled |
| Wire types | `petri-protocol/src/lib.rs` | `DispatchFrame` | the fields the handlers test |
| SDK, policy templates, client libraries | `petri/src/{sdk,dispatch,policy}.rs`, `clients/` | | not modelled |

How they interact: a CLI process (or several) calls the host backend, which
keeps one directory per instance with `instance.json` and `instance.lock`,
spawns a `petri-vz` helper per VM, and talks to it over a control socket. The
helper forwards dispatch frames to `petri-guest` over vsock. The agent answers
them one at a time, from the policy it read when it started: it changes levels,
runs a command, or asks a language server. A thread beside it answers DNS
queries and admits their addresses to the nft table. The VM's disk may be an NBD
export: immutable layers with a scratch on top, served by a daemon that the CLI
starts and that outlives it. The image registry keeps the layers, and a builder
VM, itself prepared by the CLI, makes the images.

## The modules

### Lifecycle, StateRecord: the promise

`Lifecycle` is the table of `can_transition_to`. `StateRecord` says what the
callers of one instance may rely on, however many there are: the recorded
lifecycle moves along the table, TornDown is final, a record is removed only
when it says TornDown or does not parse, and it does not come back.

### HostBackend: several processes, one instance

A *driver* is a host process inside `dispatch`, `stop` or `teardown`. `pc` is
its place in the code, `mem` the `RuntimeState` it loaded, `fd` the inode of
the lock file it opened. Every system call another process can observe is a
step: `create_dir_all`, `open`, `flock`, the read of the record, the truncation
and the write of `fs::write`, the exchange with the helper, the signal, and
each `unlink` of `remove_dir_all`.

Files are inodes. A lock is held on an inode, and teardown unlinks
`instance.lock` while it holds it, so two calls may hold "the" lock at once.
That the drivers serialize all the same is the central claim.

`json.life` is the last complete content, `json.torn` says that the file is
truncated or damaged. `Crash` kills a driver anywhere, `WriteFails` makes a
write of the record fail. `MaxFaults` bounds both.

A child process is in `VzPid` (real VM, control socket) or in `LoopbackPid`
(guest run directly, TCP). Its status is `HelperState` as the socket shows it.

### HostCreate: creation without a lock

`create` takes no lock. `CreatePrepare`, `CreateRealVm` or `CreateLoopback`
lead to a write of Booting, `WaitReady` polls, Ready or Failed is written from
memory over whatever the record has become, and `Reap` terminates the child of
a failed create. `HelperListens` and `BootEnds` are the helper's side; the end
of a boot overwrites a stop that came first, as `setState` does.

### LayerStack, NbdExport, FlatDisk: the disk

`LayerStack` has the geometry, the layers as functions from blocks to payloads
and the top-down resolution. `NbdExport` is one server process: connection
threads that receive requests, refuse them or take the mutex, and then run the
block loops of `read_at`, `write_at`, `write_zeroes` and `trim`, one iteration
a step. `log` and `index` are the scratch's append log. `bufKept` says whether
`block_buf` is still there: a failed append of a sub-block write loses it, and
what follows from that (panics, a poisoned mutex, an index entry without
payload) is part of the model. `SealScratch`, `RecordFrozenLayer` and
`ServeScratch` are the freeze and the next process. `before` is a history
variable: the content at the moment the mutex was taken.

`FlatDisk` is the promise: an array of bytes; each request takes effect at one
instant; a failed one changes at most a prefix of its range; sealing takes a
snapshot, recording it makes it the state to which a restart returns. Once the
block buffer is lost nothing is promised until the restart, except for the
layers below.

### Policy, NetFilter, DispatchFrame: the agent's decisions

Pure operators. `Policy` has the levels and their order, the validation of a
policy document and what a level allows. `NetFilter` has the plan of rules for
a level, and what the kernel lets pass under a table. `DispatchFrame` has the
checks of `handle_frame` in the order of the code; `Refusal` is the reply of
the first that fails. A request's timeout is compared with
`max_runtime_secs * 1000`, which wraps in a release build: `U64` is that width.

### GuestServer: the agent in its VM

`agent` is the place of the agent's one thread: it loads and validates the
policy, installs the boot rules, starts the DNS proxy, accepts a connection,
reads a frame, commits a level, runs a tool, writes the reply. A vsock
connection is a dispatch thread of the helper with one frame; a TCP client
sends several and may hang up in between. An I/O error ends the agent and its
workload, and systemd starts it again in the same kernel, where the old table
still is. `nft` may fail. The proxy thread reads the shared level,
resolves, and admits the answer in separate steps, so a `set_mode` may come
between them. The helper's readiness poll and a stop of the VM run beside all
this.

### GuestExec: one command

`execute_command` by the system calls others can see: spawn, the write of stdin
before any reader exists, the two reader threads, the polling loop against the
timeout, kill and wait, the join of the readers. The workload is arbitrary: it
writes what it likes, reads or ignores stdin, closes its streams, and leaves
descendants that hold them. A reader ends at the end of its stream or by a failed
read. `AppendOutput` cuts at the cap the two streams share,
and `BytesToString` keeps what precedes the first invalid byte. `Drop` and `Root`
are the two settings on which the identity of the workload depends.

### LspClient: a language server

`LspManager` for one language: classification of the file, start and
initialization, `didOpen`, the request, the wait for its response or for
diagnostics, and the replacement of a server that failed. The server is
arbitrary: it answers late or never, sends what does not parse, asks questions of
its own, stops reading, closes its stdin or its stdout, or dies while a descendant
holds its pipes. Writes to it block without a deadline (`stuck`). The reader
thread passes on what it reads and ends with the stream, which may outlive the
server's process.

`GuestTools` composes the two: a connection runs one handler at a time.

### ImageRegistry, SandboxDisk: images and their daemons

One operator runs commands; every file operation of a command is a step, and
the command may be cut off before any of them (`MaxAborts`). An image is its
directory, `meta.json` (tags, layers, scratch, serving mark), the stored
layers, the scratch and lock inodes, and the port and pid files. A layer is
named by the chain of contents below it, so equal contents have equal ids.
`SandboxDisk` adds `sandbox create` from a base, `sandbox kill`, `stop` and
`teardown`, which end the VM and leave its daemon, and the detached
`internal serve-nbd` processes: they lock, publish a port, serve, and end some
time after a signal. `vm` says what became of a sandbox's VM: a create that fails
may leave one (`stray`), a stopped one keeps its daemon. `calm` is a history
variable: no command was cut off and no error ignored, no image in use was
stopped or built, and no daemon got a pid that the `nbd.pid` of another sandbox
still names.

### BuilderBundle: the builder and the images it builds

`prepare-builder`, `image build` and the nocloud builder, a step for each
command they run on the host (download, checksum, `hdiutil`, mount, VM, rename).
Each may fail, and each error path is the code's: what is undone, what is
ignored (`job.ignored`) and which VM is left (`left`). `bundle` and `backup` are
the two directories of `atomic_replace_dir`.

`HostCommands` puts the three families of commands side by side: the calls that
drive an instance (`HostBackend`), the image and sandbox commands, and these.

## The runs

| Run | What it asks | Result |
|---|---|---|
| `host_commands` | *drivers*, two of them, both transports, two faults: do calls serialize, is no update lost, is teardown always possible and does no VM leak without faults, does the record implement `StateRecord`, does every call return; *images, sandboxes and their daemons*, a command fails or is cut off anywhere: are layers stored before they are listed, do daemons exclude each other, is every daemon that is left accounted for by a sandbox and by `nbd.pid`, does every command return; *builder*: is only a finished bundle published, is a disk not in two hands, which VMs are left, is a completed build whole | holds |
| `create_safety` | a create beside another driver, two real VMs or a loopback guest, one fault: is Ready recorded only for a booted helper | holds, but for a helper that answers in the place of another |
| `host_stranded` | `NeverStranded`, from the comment on `dispatch` | violated: a dispatch that dies, or whose last write fails, leaves RunningDispatch, which nothing can leave |
| `host_leak` | `TeardownRemovesVm`, from ADR 0001 | violated: a torn record makes teardown remove the directory and leave the VM |
| `create_recreate` | `DriversSerialize` when the id is created again | violated: an old waiter holds the unlinked lock file, a new call the new one |
| `nbd_safety` | two connections, a full disk, a failed I/O, seal and restart: does the export implement `FlatDisk` | holds |
| `nbd_blockbuf` | `BlockBufKept`, from the comment on the field | violated: `?` behind `write_block` in `write_at` loses the buffer |
| `guest_agent` | two clients, mode switches, a failing nft, restarts, the DNS proxy: can a workload reach more than its level and ceiling, do the rules agree with the level, does a command start only within the level its own connection was told and run within both caps, does a refusal change nothing, does every dispatch return | holds |
| `tools` | one command, then requests to a language server: does a result carry all output or say that it does not, is it made only once the child has ended, does the child end in time, is a reply the one to this request, is a document opened before it is asked about, does a request to a server return | holds |
| `command_timeout` | `CommandAnswered`, from `docs/vsock-dispatch-protocol.md:265` | violated: at the timeout the agent may still be writing stdin, or joins readers whose pipes a descendant holds |
| `bundle_replaced` | `BundleInPlace`, from `docs/base-vm-images.md:123` | violated: killed between its two renames, `atomic_replace_dir` leaves no bundle under its name |
| `image_orphan` | `ParentsKept`, from the comment on `delete_layer` | violated: once a tag is frozen again, the layer its old entry rested on can be deleted under it |

### Bounds

*Host.* Of two drivers one can hold the unlinked lock of a removed instance while
the other holds its successor, and a driver that has returned is the next
newcomer; the safety properties are also proved for any number of them. Two
faults allow a crash of a writer and one of its repairer. Nine inodes (ten with create) are more than are ever
in use at once. In `create_safety` one driver creates, so an instance is also
created over an existing one; `OneTransport` keeps the choice of transport
fixed per behaviour, as it is a setting of the host, and `SecondAlone` starts
the second VM only while nobody else calls, which keeps the instance small (the
run without it has 49 million states and holds too). Two VMs are needed: with
one, no helper can answer for another. In the create and violation runs drivers are symmetric.

*NBD.* Two blocks of two bytes give whole, partial and straddling ranges.
Block 0 is in both layers, so that trimming uncovers the upper one; block 1 is
a hole. `MaxLog` = 2 fills the host disk in the middle of a request. `MaxU64`
= 5 lies above the end of the disk, so `WriteReq(5, 2)` overflows. A process that
serves a stack with a frozen layer is followed to its first lock
(`FirstProcess`). Connections are symmetric. The scratch is sealed once per
process, as bootstrap does.

*Guest agent.* Eight policy documents cover the legacy list, both tables, each
order of default and ceiling, and documents that do not validate. Three
addresses are one on the allowlist, one admitted through a name and one that no
rule names. Two clients with two frames and two starts let one client change a
level between another's grant and its command, and let a restart find the rules
of the first start. A second is four ticks and `U64` is 10, so the runtime cap
wraps.

*Tools.* The cap and the pipes hold two bytes, stdin has three, so that writing it
blocks. The bytes on stdout are the halves of one character in any order. There
is one file for each way a request can end before it reaches a server. Two
requests and one unasked message let a late answer meet the next request, and one
of the server's own ids is an id the client will use.

*Images.* An image and two sandboxes on it, chains of two layers, two daemons, four
commands of which one is cut off or ignores an error: enough for a freeze, two
boots and a kill, for a stop or a purge and a creation under the same name while
the old daemon still runs or ends, and for a stale `nbd.pid` that names another
sandbox's daemon. `image_orphan` needs two tags, chains of three and two contents,
and no sandbox. A behaviour runs the commands of one of the three families; they
share no file, and the outcomes of a call to the backend are those `HostBackend`
and `HostCreate` show.

### What the properties had to except

Some properties hold only with an exception, which the property itself states.
Each is behaviour of the code that a reader should know of:

- a helper left by a create that died, or one of a concurrent create, may bind
  the control socket late and answer `wait_for_helper_ready` for another, so
  Ready is recorded for a helper that still boots (`backend.rs:1453`);
- `Rpc::request` takes any message with the id it waits for, a question of the
  server's included (`jsonrpc.rs:145`);
- `terminate_process` signals a child and does not wait for it
  (`backend.rs:1689`); that a helper ends on SIGTERM is taken for granted in
  `HostBackend`, and `NoLeakedVm` rests on it;
- a helper that does not answer holds its caller, and whoever waits for the
  caller's lock, for good: the control socket is read without a timeout
  (`backend.rs:1630`; `CallsReturn`, `CommandsReturn`);
- dropping a connection joins a reader that ends only with the server's stdout
  (`jsonrpc.rs:292`), and a write to a server that has stopped reading blocks
  (`jsonrpc.rs:269`; `LspReturns`);
- output is cut at the first byte that is not UTF-8, and after a failed read,
  without `output_truncated`, which `docs/vsock-dispatch-protocol.md:220` defines
  for the cut at the cap (`OutputComplete`);
- after a create that was cut off, or could not write `nbd.pid`, a daemon may live
  that no `nbd.pid` names, and an image created again may get a second one with
  another lock file; `serve_scratch` takes no lock, and a stop of an image in use
  clears its mark; an `nbd.pid` that a failed create leaves may name a later
  daemon of another sandbox, which kill then ends (all through `calm`);
- `prepare-builder` leaves its VM running when the package installation or the
  validation fails; errors of a teardown or of a detach before the next boot
  are ignored (`BootsDetached`, `BuildVmGone`).

Behaviour met on the way that no property is about: a truncated download stays
in the cache and fails every later preparation until it is removed; `image
build` boots the bundle's disk in place, so its checksums are stale afterwards;
a failing removal of the backup is reported as a failure although the new
bundle is in place; a failing `cloud-init clean` goes unnoticed; a create cut off before `meta.json` is written leaves a
directory that neither create nor delete accepts; a failed nocloud provision
powers off and is sealed like a good one; `image stop` says that there is no
persistent daemon, which is no longer so; delete does not see that the layers of
one image are the base of another.

### Fairness

*host_commands.* `WF(Step(d) /\ ~AwaitsAnswer(d))`: a running process keeps running;
nothing makes a helper answer, and `CallsReturn` names that wait as its exception.
`SF(Flock(d))`: the kernel serves the waiters of an flock in turn. An operator's
command that runs goes on as well, its wait for a daemon having a deadline of 20
seconds, except while it waits for a helper (`AwaitsHelper`): `backend.create`,
stop, teardown and the bootstrap builder read the control socket without a
timeout. The wait for a nocloud build ends after an hour. Nothing is assumed of
the daemons. Crashes and new calls are not fair.

*guest_agent.* The agent's thread and the helper's dispatch threads run; no
connection has to fail. That a
command or a language server returns is the subject of `tools`.

*tools.* The connection thread and the readers run and time passes. Nothing is
assumed of the workload, nor of the server. Where a server can hold the thread for
good, `LspReturns` names it: a full stdin, and a stdout that stays open while the
connection is dropped. `command_timeout` is under the same fairness.

## The proofs

`HostBackendProof` proves, for any sets of drivers, processes and inodes and
any number of faults:

- `TypeCorrect`, `Serialization`, `NoUpdateIsLost`: `Spec => []TypeOK`,
  `[]DriversSerialize`, `[]NoLostUpdate`;
- `TeardownPossible`, `NoVmLeaks`: `[]TeardownAlwaysPossible`, `[]NoLeakedVm`;
- `RecordRefinement`: `Spec => Record!Spec`.

`HostBackendProof` assumes only `HostAssumption` (the two kinds of processes are
disjoint, inodes are numbers, `NoInode` and `NoPid` are none of them).

`DriversSerialize` is not inductive, since mutual exclusion of the flock holds
per inode only. The invariant turns on `Doomed`: the record is gone, says
TornDown, or is torn with nobody writing it. While it is not doomed
(`LiveLock`), everyone who has the lock file open has the inode that the path
names, so the flock excludes. Once it is doomed (`DoomedIsIdle`) the lock may
split, but no holder gets past `load_state` with a record to rewrite, and no
step brings a doomed record back. `ActiveIsCurrent` adds what an active call
knows of the record. `SettledInv` carries the two fault-free properties.

`NbdExportProof` and `NbdRefinementProof` prove, for any geometry, stack of
layers, set of connections, set of requests, log size and number of faults:

- `ExportTypeCorrect`, `LogSlotsDistinct`: `Spec => []ExportTypeOK`,
  `[]SlotsDistinct`;
- `DiskRefinement`: `Spec => ImplementsFlatDisk`.

They assume `GeometryAssumption` (sizes are positive, 0 is a byte) and
`ExportAssumption` (requests are well-typed, the disk is no larger than the
offset type, the `No...` constants are none of the values they stand beside).

The inductive invariant is `ExportInv`. `MutexInv`: the thread in a block loop
holds the mutex. `CallInv`: it runs a request that was not refused and its
position lies in the request's range. `PoisonInv`: a poisoned mutex means that
`block_buf` is lost. `SlotsDistinct`. `LoopInv` is the heart: behind the loop
position the disk holds what the request puts there, everywhere else what was
there when the mutex was taken, and the part already read is what was there.
`NbdLoopProof` shows that one iteration carries `LoopInv` one chunk further;
this rests on the arithmetic of `ChunkLen`, on distinct slots (an append changes
one block only), and on the resolution through the stack. At the end of a
request `LoopInv` is the effect that `FlatDisk` demands, with the loop position
as the length of the prefix. A seal is a snapshot because the sealed layer on
top of the stack reads like the scratch (`SealedContent`). Once `block_buf` is
lost, every step is `FlatDisk`'s `Undefined`, until the next process.

`HostCreateProof` proves, for any creators among any drivers, `CreateTypes` and
`BootBeforeReady` (`CreateSpec => []CreateTypeOK`, `[]ReadyOnlyAfterBoot`),
assuming also `CreatorAssumption` (creators are drivers). The record alone is not
inductive: `BootInv` follows the claim through what a call has read and is about
to write (`RecordVouched`, `CallVouched`), and has to say whose answer a create
hears. Without faults and a second creator, a helper that does not listen yet
belongs to the create in progress, so nobody else can bind the socket while that
create waits (`SocketIsOwn`). No step takes a helper back to its boot, so what
was vouched for stays so.

`GuestServerProof` proves, for any policies, names, frames, clients and number
of restarts, `Egress`, `Ruleset`, `Launches`, `Caps` and `Refusals`
(`Spec => []EgressContained`, `[]RulesetAgrees`, `[]LaunchWithinGrant`,
`[]NoRunOverCap` and `RefusalChangesNothing`). It assumes `FrameAssumption`,
`FramesAssumption` and `PoliciesAssumption`, which type the inputs. The nft
script is run before the level is stored, so the table and the level disagree in
between; `ServerInv` therefore speaks of the level after the commit (`LevelOf`).
`Tables`: from the boot rules on the table is within that level, and whatever the
proxy still holds, asked under an older level, is resolvable from the allowlist,
so admitting it late does no harm; a table without the set takes nothing.
`Starts`: until a restart the table is exactly the plan but for resolved
addresses. `Pendings`: a level is never above the ceiling. `Grants`: what the
connection was told is the level its next command is checked at.
`GuestServerLemmas` has the invariant and the lemmas on the operators.

`GuestExecProof` proves, for any cap, pipe size, input and bytes, `Completeness`
and `Ended` (`ExecSpec => []OutputComplete`, `[]ResultMeansEnded`), assuming
`ExecAssumption`. The heart is `Capture`: until the cap is exceeded, what was
written to a stream is what was captured followed by what is in the pipe. A
reader is done only when the pipe is empty and nobody holds it (`Control`), so at
the join the two are equal; one that failed has captured a first part.

Only model-checked: all liveness properties (`CallsReturn`, `DispatchReturns`,
`ChildEndsInTime`, `LspReturns`, `CommandsReturn`), which the prover cannot
state; `LspClient`, `ImageRegistry`, `SandboxDisk` and `BuilderBundle`; and the
type invariants of the guest agent.

## Not modelled

- Parsing of arguments and of TOML and JSON text, printing, and the commands
  that only read (`list`, `inspect`, `show-provision`).
- `image freeze`, which always refuses; `sandbox exec` and `connect`, which call
  the backend.
- Validation of image bundles. `run_bootstrap_builder`, one helper run without a
  record, is one step of `ImageRegistry` that succeeds, fails or never returns.
- `sandbox kill --all`, one kill after the other. A DNS query with several
  questions, of which the proxy matches the first.
- Byte framing and checksums of layer files; the NBD option phase beyond success
  or failure; `gc` and `seal_into` of the layer store, which the program does not
  call.
- Several operators at once on one registry: `meta.json` has no lock.
- The configuration of the virtual machine in `petri-vz` and the callbacks of
  the virtualization framework.
- Reuse of a helper's pid, and of a daemon's by a process that is none. The kernel's packet filter accepts what the table says.
- Several languages at once in `LspManager`, whose entries are independent.
- Policy templates and the client libraries: no state of their own. The SDK: its
  handle owns an NBD export in its own process and a scratch directory
  (`sdk.rs:265-274`); the export is the one of `NbdExport`.

## Running

    tlc -workers 2 -config MCHostCommands_run.cfg MCHostCommands
    tlapm HostBackendProof.tla

`PROJECT.json` lists the module and the configuration of every run. The proof
modules are `HostBackendProof`, `HostCreateProof`, `NbdLoopProof`,
`NbdExportProof`, `NbdRefinementProof`, `GuestServerLemmas`, `GuestServerProof`
and `GuestExecProof`; tlapm checks the theorems of the module it is given, and
not those of the modules it builds on.
