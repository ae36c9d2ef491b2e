# Plasmosome: TLA+ models and proofs

Plasmosome is a capability kernel for AI agents. A controller (`plasmosomed`)
runs *cells*, each a microVM with one host-side supervisor (`membraned`), and
attaches *plasmids* (plugins) to them. What the code promises above all is exact
reversal and recovery: everything a plugin was granted is written down, can be
withdrawn and accounted for, and a crash of any process leaves durable state
that the next one reads correctly.

The modules here model the durable state and the concurrent protocols that
promise rests on. TLC checks them on small instances; TLAPS proves the most
important properties for every instance.

## 1. Inventory

Eleven Rust crates. The components that carry logic of their own, what state they
keep, what is done to it, what makes them hard, and when they are correct:

| Component (crate) | State | Operations | Hard behaviour | Correct when | Module |
| --- | --- | --- | --- | --- | --- |
| Cell journal history (ledger) | last generation, open transaction, committed attachments, identities of addresses | `check`, `apply` of prepare, commit, abort, finish records | long record sequences; generation limit | what is held and what is recorded never disagree; commit cannot panic | `CellHistory` |
| Effect ledger (ledger) | effects with inverses, cursor, phase | `push`, `close`, `detach`, `detach_forced`, `unseal` | a detach fails half way and is retried, perhaps for another cell | a finished detach reversed exactly its effects | `EffectLedger` |
| Plugin log (ledger) | lines of a file | `append_to_file`, `open_file` | writes that come up short; a second writer | only a torn last record is ever lost | `PluginLog` |
| Enforcement backend (backend) | standing objects, issued records, unfinished operations | `grant`, `apply`, `revoke`, `apply_removal`, faults | operations fail after their first effect | the account is always acceptable, holdings never change hands | `EnforcementBackend` |
| Paged observations (backend) | one frozen account per connection, callers' assembled pages | `CaptureSlot`, `PageAssembler` | callers replace each other's capture; accounts change between pages; deadlines; altered pages | what a caller gets is one account of one moment, or nothing | `ObservationPaging`, `AtomicObservation` |
| Lifetimes (backend, core) | a bound on three clocks, its owner's fence | `limit`, `earlier`, `passed`, `remaining_ms`, `wait_deadline` | the wall clock is set, reads are refused, boots and sleeps | a bound that has passed stays passed | `LifetimeBound` |
| Software trees (backend) | a directory tree and the package's list | `pin` | the tree is swapped while it is walked | what is pinned is what is listed | `SoftwarePin` |
| Denials (core) | counted denials, a bounded queue of lines | `record`, `page`, `forget` | lost replies, failing appends, restarts of either side | no denial is dropped or counted twice | `DenialBook` |
| Kill budget (core) | one deadline, the shares used | the share of each step | rounding, late steps, instants at their limit | the lock's reserve is kept | `KillBudget` |
| Attachment closure (core) | who requires whom | `attach`, `stranded_by`, `removal_closure` | order of attachment; named and unnamed plugins | the removal is the least clean one | `AttachmentGraph` |
| Supervisor lock (core) | `supervisor.lock` and its flock | create, probe, test, drop | callers race between any two system calls | whoever is given the lock holds the named file | `SupervisorLock` |
| Cell directories (core) | `cells/`, `retired/`, writer lock | lock, allocate, create, open, retire | crashes and power loss; retire races allocate | a number is never given twice, a directory never lost | `CellDirectories` |
| Session log (core) | the log file, its lock, `LogState` | open, append, drop | failed writes and syncs, power loss, waiters on a poisoned log | an acknowledged event is kept, in order | `SessionLog` |
| Launched marker, supervisor check (core) | `launched`, `launched.tmp` | create, mark stopped, remove, read, `decide` | power loss between system calls | the marker is whole or absent, a running cell is not retired | `LaunchedMarker` |
| Supervisor start (core, membrane) | lock, report pipe, config pipe, two forks | `start_supervisor`, `read_config`, `adopt_lock` | concurrent forks copy each other's descriptors; children die; deadlines | each result tells the truth about `membraned` | `SupervisorStart` |
| Private sockets (core) | directory, temporary and published names, lock | `PrivateDir`, `PrivateListener::bind`, publish, accept, close, drop | only bind goes by path, and the path may move; two daemons; kills | a name that is found is ready; nobody else's socket is removed | `PrivateSocket` |
| Controller daemon (core) | the socket, one connection | `run`, `serve`, `converse`, `serve_connection` | clients that never send or read; a panicking handler; shutdown | replies in order, shutdown is honoured | `ControllerDaemon` |
| Trusted files (core) | a path's directories and their modes | `TrustedFile::open` over the no-follow walk | another user renames between two steps | what is read nobody else could have changed | `TrustedFile` |
| Mount sources (core) | directory tree with firmlinks | `Guard`, `Probes` | two parents of one directory; renames | no mount source contains what decides about it | `MountSources` |
| Pinned artifacts, writable root (core, membrane) | the image, a private copy | `verify_artifact`, `reconfirm`, `WritableRoot` create, remove, drop | a writer from before the lock; steps that fail; names replaced | the copy is the pinned image, a refusal leaves nothing | `RootImage` |
| VMM child (membrane) | child's number and lifecycle | `spawn`, `state`, `kill`, drop | process numbers are reused; signals fail; waits are interrupted | no stranger is signalled, nothing is left, calls end | `VmmChild` |
| Launch of the VMM helper (membrane) | descriptor tables, the spawn lock, connections, the transcript | `HelperExec::prepare`, spawn, the handshake, `DiagnosticTranscript` | forks beside each other; strangers connect first; the helper dies; time runs out | no end of a pipe leaks, the outcome is true, the transcript is complete | `HelperLaunch`, `HelperHandshake`, `DiagnosticTranscript`, `VmmLaunch` |
| Membrane daemon (membrane) | socket file, listener, brokers, one connection, the status under way | `run_with`, `serve`, `converse`, `status_with`, `probe` | late answers, one allowance for all probes, requests in pieces, a path that is replaced, shutdown at any point | answers are true and in order, the teardown is exact, a shutdown ends it | `MembraneDaemon` |
| The rest: manifests, registry, operator declarations, recipe, configuration, journal reader, composite backend, helper's image and confinement, command lines, tests | data, or none | parse, validate, format | - | see section 6 | - |

How they interact: the controller publishes its socket (`PrivateSocket`,
`ControllerDaemon`), reads declarations that only its operator can change
(`TrustedFile`, `MountSources`), holds the instance's writer lock
(`CellDirectories`), allocates a cell directory, creates the cell's supervisor
lock in it (`SupervisorLock`), starts `membraned` with the lock's descriptor
(`SupervisorStart`), and `membraned` verifies and copies the root image
(`RootImage`), launches the VMM helper and shakes hands with it (`VmmLaunch`),
watches it (`VmmChild`) and keeps the `launched` marker (`LaunchedMarker`) that a
later controller decides from. Grants go through the enforcement backend
(`EnforcementBackend`), end by their lifetimes (`LifetimeBound`), are observed page
by page (`ObservationPaging`), written to the cell's journal (`CellHistory`) and
withdrawn by the effect ledger (`EffectLedger`, `PluginLog`), in an order that the
closure gives (`AttachmentGraph`) and a kill's budget bounds (`KillBudget`). What a
cell was refused (`DenialBook`) and the controller's own events go to the session
log (`SessionLog`).

In the source of this commit some of these parts are libraries that no daemon
calls yet: `membraned` refuses its cell mode, and the marker, the supervisor check,
the kill budget and the effect ledger's log have tests as their only callers. They
are modelled as their functions and documentation say they are composed.

## 2. Modules

Each `X.tla` is a component, `MCX.tla` and `MCX.cfg` its instance for TLC (`MCRules` and
`MCJournals` take several components, each alone), `X_proofs.tla` the theorems about it
or, in `Journals_proofs`, `Supervisor_proofs`, `Rules_proofs` and `Vmm_proofs`, about
several components. An action is one operation or, where other processes can act in
between, one system call of it. A mutant (`name_Something`, before the definition it
varies) is a plausible bug that the property named in `PROJECT.json` catches.

Grants and their ledgers:

- **CellHistory**: variables are the fields of `CellHistory`; one action per
  record kind that `check` admits and `apply` folds in. A refused record changes
  nothing and is a stutter. `MaxGeneration` stands for `u64::MAX`.
- **EnforcementBackend**: `objects`, `grants`, `incomplete` are the state of
  `FakeBackend`; one action per outcome that changes it, and one per fault that
  the conformance suite can arm.
- **EffectLedger** extends EnforcementBackend: the ledger replays its inverses on
  the modelled backend, so refusals, time-outs and half-failures are the
  backend's own. `pending` is the cursor; each replayed effect is one step.
- **PluginLog**: the file as lines, each the records or parts of records that
  stand on it and its LF. `open_file` is an operator, the set of its possible
  results, which the property looks at in every state.
- **ObservationPaging**: the slot, the callers that share it, replies in flight and
  a clock. **AtomicObservation** is what it promises: one action reads a whole
  account. `Atomic!Spec`, liveness included, is a PROPERTY of the paging.
- **LifetimeBound**, **KillBudget**: the arithmetic of the code on small clocks,
  with the saturation and rounding it has, driven by an owner (or a kill) that acts
  at any reading.
- **DenialBook**: the membrane's book and the controller that fetches,
  appends and acknowledges, over replies that are lost.
- **AttachmentGraph**: `removal_closure` with its two loops, against the least
  removal that leaves nobody stranded and takes nobody that was asked for.

Durable state of the controller:

- **SupervisorLock**: names point at inodes, flocks belong to open files; one
  action per system call of `create_supervisor_lock`, `probe_supervisor_lock` and
  `test_supervisor_lock`; callers may die.
- **CellDirectories**: `disk` is the sequence of directory states since the last
  sync, so a power loss returns to any of them. Directory operations are taken to
  reach the disk in order, as on a local journalling file system.
  `create_cell_dir` with a number of the caller's choice is used by tests only,
  and is modelled too.
- **SessionLog**: the file as lines that are whole or torn; `durable` and
  `dropped` say what a sync covered and what a failed sync lost. Threads share a
  value's mutex, values share the flock.
- **LaunchedMarker**: one action per system call of the marker's three writers,
  the set of directory states a power loss may leave, and `decide` as an operator.
- **TrustedFile**: one action per open of the walk, beside another user who does
  what the modes allow. **MountSources**: the identities along two walks of a
  directory tree in which a firmlink gives a directory two parents.
- **RootImage**: the image's facts, bytes and stamp, the verification, the copy and
  its removal, one action per system call. **SoftwarePin**: the walk of a package's
  tree, one action per open, listing and hash. `pin` lists directories by path: when
  one is swapped for a link and back during the listing, an extra file in it may be
  missed; the property therefore asks for no extra file only of a tree left alone.

Processes and daemons:

- **SupervisorStart**: for every start, who has its lock, report pipe and config
  pipe open. A fork copies every descriptor of the controller, other starts'
  included; children fail, are killed or are slow; on Darwin a pipe may leak to
  another spawn (`Leaky`).
- **VmmChild**: a process table whose numbers are reused; one action per `waitid`
  and `kill` of `state`, `kill` and drop. The documented contract is kept (a group
  signal reaches every member; nobody else waits) but for one loosening: with
  `Thief`, another waiter may consume a status, though not between a wait of a
  call and the signal it leads to, and the number is then not given to another
  child of this process.
- **HelperLaunch**: the descriptor table of the supervisor and of each child, with
  the lowest free number given first, and a preparation refused where none is free;
  threads prepare helpers and spawn commands at once under the spawn lock. **HelperHandshake** extends it with the host's side of
  the handshake, **DiagnosticTranscript** with the thread that reads the helper's
  diagnostics; **VmmLaunch** composes the three on one process table.
- **PrivateSocket**: directories as inodes, a path that moves between them, and one
  action per call of a bind, publish and drop. **ControllerDaemon** extends it with
  the serving of connections.
- **MembraneDaemon**: one thread, a step wherever it looks at the shutdown flag,
  the clock, the connection, a broker or the socket's name. A request line comes
  in two pieces. The allowance of a status is a flag that a tick sets at any time;
  a broker tells the truth about itself, but when it likes. The source relies on a
  coordinated namespace (nobody replaces the socket between bind and capture or
  between the check and the unlink), and so does the model. At any other time the name
  may be taken away or given to something else. A socket keeps its inode number while
  it is open or at the name; any other number is free for the next entry, that of a
  removed socket included, as on most file systems. By the time `BoundSocket` compares
  numbers `serve` has closed the listener, so the number may be another socket's:
  section 3 has the consequence.

## 3. Runs

| Run | Instance | Shows |
| --- | --- | --- |
| `journals` | two parts, each alone: the cell journal with 2 plugins, 2 addresses, 2 payloads, up to 2 effects, 3 generations; the session log with 2 log values, 2 threads, 4 numbers, 6 events | `HistoryAgrees`, `IdentityIsForLife`: identities and attachments agree after every record sequence; two plugins are enough for an address to be contested, three generations for reuse after retirement and for the limit. `AckedIsDurable`, `WritesAreSound`: acknowledged events kept in order, nobody writes beside the file's owner; numbers reach their limit |
| `supervisor_lock` | 3 callers, 4 inodes | `HeldIsNamed`, `NeverFreshAndFree`: the lock is that of the named file whatever races; three callers, because a third can act between a creator and a prober |
| `cell_directories` | 3 threads in 2 processes, 2 numbers, 3 directories, 2 attempts | `IdentitiesAreKept`: numbers unique and directories kept through crashes, power loss and retire racing allocate; the numbers run out |
| `effect_ledger` | 3 addresses, 2 cells, 3 effects, 1 fault at a time | `DetachIsExact`, `Resumable`, `NothingElseMoves`, `AccountIsAccepted`, `WithdrawnLeavesNothing`: exact and resumable reversal, across retries in another cell and unsealing, on an account that stays acceptable |
| `observation_paging` | 2 callers with a scope each on one connection, accounts of 2 bytes in pages of 1, 2 snapshot numbers, offsets to 3, 2 ticks | `PagingIsAtomic`: paging implements the atomic read, liveness included; snapshot numbers and offsets reach their limits |
| `rules` | ten parts, each alone (below) | one property per part |
| `supervisor_start` | 2 starts, records of 2 pieces, a pipe of 1; a pipe of one start may leak while the other has not begun | `ReportIsTrue`, `LockFollows`, `StartEnds`: each result is true, the lock is never free while a `membraned` may run and goes with it, `read_config` reaches its end and the start returns |
| `vmm_child` | 2 handles, 2 numbers, a stranger, 1 worker, another waiter | `NeverSignalsAStranger`, `EndsLeaveNothing`, `CallEnds` |
| `vmm_launch` | four beginnings: two helpers at once; a helper beside a command, with every set of low descriptors open; the handshake with an honest guest and two strangers, or a guest that says anything; a transcript | `EndsStayHome`, `OutcomeIsTrue`, `TranscriptIsComplete`, `HandshakeEnds` |
| `controller_daemon` | two daemons at one path over three directories, one not private, with a left-over temporary and 2 moves; or one daemon with a client of its own user and one of another | `PublishedIsReady`, `SocketsAreExact`, `RepliesInOrder`, `ShutdownHonored` |
| `membrane_daemon` | no broker, 1, 2, 2 on one socket, 1 that cannot run, a refused configuration; 2 connections of 2 requests, 2 inodes | `AnswersAreTrue`, `TeardownIsExact`, `ShutdownEnds`: "serving" is said on every broker's own answer, replies match requests, the teardown leaves nothing of its own and touches nothing else that the recorded number can tell from it; two brokers so that one can fail while the other is asked, two requests so that one is behind a half-read one, two inode numbers because no more than the listener's and one at the name are in use |
| `membrane_name` | the same instance (`MCMembraneName.cfg`) | `RemovesItsOwn` is violated, as the finding below tells |

The parts of `rules`: the marker over 3 boot sessions (`MarkerIsTrue`); a bound with
2 ns to the millisecond, so that a part of one is lost, limits of 0 to 2 ms and 2 boot
sessions (`BoundIsKept`); a book with every limit between 1 and 3, 2 books, 4 denials
(`DenialsAccounted`); kills with deadlines below the reserve, below and above both caps
(`ReserveIsKept`); every graph of 4 plugins, in some of which a closure needs several
rounds (`RemovalIsLeast`); a path of two components with another user's directory
beside it (`ReadIsTrusted`); a tree with two firmlinks, in which `Guard` meets all of
its requests while `Probes`' is one, and the reverse (`NothingShared`); an image of two
chunks with 2 writes and 1 change of names (`RootIsPinned`); a tree of a file and a
directory with 2 swaps (`PinnedIsListed`); a log with 2 writers, ledgers of up to 2
effects and 3 appends, so that a torn one can be followed by a refused and raced by
another (`LogIsWhole`).

**The finding.** `membrane_name` is expected to fail. The doc of `run` (daemon.rs:333-335)
says that the socket path is removed "only when the entry still at that name is the socket
this daemon bound: a no-follow device-and-inode match". TLC's counterexample has four
steps after the daemon serves: `serve` returns and drops the listener; another program
removes the name, which frees the inode; it binds a socket of its own there, which is
given the same number; `BoundSocket`'s drop finds a socket with its device and number and
unlinks it. `docs/specs/001-control-protocol.md:196-197` has the limit the comment lacks:
device and inode distinguish a later socket "only while the original inode stays
allocated", and that condition ends before the teardown looks. `TeardownIsExact` is what
does hold: the exception is only for sockets, and only once the listener is closed, so a
start that fails after its bind, which still has its listener, removes its own socket or
nothing.

Bounds are constants named in their modules (`MaxInodes`, `MaxDirectories`,
`MaxEvents`, `MaxBoots`, `MaxWorkers`, `MaxEffects`, `MaxFaults`, `MaxRequests`,
`MaxConnections`, `MaxMoves`, `MaxLines`, `MaxPieces`, `MaxWritten`, `MaxTime`,
`MaxWall`, `MaxSessions`, `MaxBooks`, `MaxDenials`, `MaxElapsed`, `MaxWrites`,
`MaxMeddling`, `MaxSwaps`, `MaxPushed`, `MaxAppends`). Limits of the code
(`MaxGeneration`, `MaxSeq`, `MaxNumber`, `Attempts`, `MaxSnapshot`, `MaxOffset`,
`U64Max`, `CountMax`, `LatestInstant`, `Draws`, `TranscriptCap`, `PipeSize`,
`MaxResponse`) are constants whose limit the run reaches; `FirstKept` is 4 where the
code has 10, which is still above every number that a child is given.

Deadlock is not checked where the program may stop: starts that have all returned, handles that have all been dropped, a daemon
that has gone down, a call that has returned. In `journals` a history whose numbers are
used up has a step that changes nothing, so that a deadlock of the session log shows.

**Fairness.** Safety needs none. Where liveness is checked:

- `SupervisorStart`: the scheduler runs each process of a start, and time passes;
  nothing of strangers, failures or kills.
- `VmmChild`: the owner of a handle goes on with its call, one wait is not interrupted
  for ever, and a process that was sent SIGKILL dies; whether a leader ever exits by
  itself is left open.
- `MembraneDaemon`: the daemon's thread runs (its reads, accepts, waits and writes all
  have time-outs, so each is a step that ends) and time passes; clients and brokers
  may stay silent for ever.
- `ControllerDaemon`: each daemon's thread runs; its waits on the listener and on a
  client have time-outs. Clients need not send or read.
- `VmmLaunch`: the host's thread runs and its allowance runs out; nothing of the
  helper, its guest and strangers.
- `ObservationPaging`: a caller reads a reply that has come and gives up at its
  deadline, and time passes; the responder may stop for ever.

## 4. Theorems

All are proved by TLAPS for every value of the constants, from the modules' own
`ASSUME`s, which every run that extends the module evaluates. A proof module holds the
proofs of components that belong together; each section of it starts with its
invariant.

| Module | Theorems | Inductive invariant, and why it is needed |
| --- | --- | --- |
| `Journals_proofs` (CellHistory) | HistoryInvariant, StandingTheorem, TypeTheorem, NoCommitPanic, AgreeingHistory, ForLifeTheorem | `IInv`: commit makes what the open transaction names stand, so what it names must be recorded, for the right plugin, since the prepare |
| `Journals_proofs` (SessionLog) | SessionLogInvariant, AckedTheorem, OrderTheorem, DurableTheorem, WriterTheorem, ReadableTheorem, SoundWrites | `SInv`: flock, log state, mutex and thread position tied together; the file under an open log is readable and numbered to `next_seq` |
| `Supervisor_proofs` (SupervisorLock) | LockInvariant, LockIsNamed, AtMostOneSupervisor, NeverFresh | `LInv`: the property speaks of returned calls; a caller past its flock holds its file's flock, a caller past its check has the named file open, and the name stays. `FInv`: while creating calls have not overlapped, the temporary is the one creator's |
| `Supervisor_proofs` (SupervisorStart) | StartInvariant, TrueReport, LockWithSupervisor | `SInv`: how far the call, the intermediate and the child of a start are, what the silence of the report pipe stands for, and whose every open copy of a lock may be: a fork of one start copies the descriptors of all others, so the holder of a copy is judged by the start it belongs to |
| `CellDirectories_proofs` | DirectoriesInvariant, IdentitiesTheorem | `DInv`: an issued directory is under its number in one of the two places, in every directory state since the last sync; between the two listings a cell can only move into the one still to be listed, so the number an allocation goes for is above all that were allocated |
| `EffectLedger_proofs` (EnforcementBackend) | AccountTheorem, WithdrawalTheorem, HandsTheorem | `BInv`: inductive with the types; the action properties follow from it |
| `EffectLedger_proofs` (EffectLedger) | LedgerInvariant, ExactDetach, ResumableDetach, LedgerUsesBackend, NothingElse | `LedgerInv`: the cursor splits the effects into those undone, of which nothing stands, and those whose inverse still finds what it needs; one owner was bound for the detach |
| `EffectLedger_proofs` (ObservationPaging) | AtomicPaging | `PInv`: a caller asks for a page after the first exactly when it has the first, and what is being collected is for a caller that asked for a first page; the hash of the first page then fixes the account that `finish` can yield |
| `Rules_proofs` (LaunchedMarker) | MarkerInvariant, ReadableMarker, AckedMarker, RunningMarker, TrueMarker | `MInv`: how far the call is; a file is whole and synced before it has the name, on every state a power loss may leave |
| `Rules_proofs` (LifetimeBound) | KeptBound | `LInv`: a fenced bound is of this boot session, its continuous deadline has passed and waiting for it ends by the fence's deadline, since sleep only brings it nearer |
| `Rules_proofs` (DenialBook) | AccountedDenials | `DenialInv`: the lines issued carry, with what the book still counts, every denial, up to saturation; their numbers are those up to `last_seq`, and a line before what the controller holds or acknowledges is in the log |
| `Rules_proofs` (KillBudget) | KeptReserve | `KInv`: a share that was asked for and its limit end before the reserve, but for the one millisecond that a stop always has |
| `Rules_proofs` (AttachmentGraph) | LeastRemovals | `GInv`: who is required is attached; the work is in the lemmas, that each loop has reached its fixed point after as many rounds as there are plugins and that the fixed points together are the least clean removal |
| `Rules_proofs` (RootImage) | PinnedRoot | `RInv`: what was read of a file whose times have not moved is what was there at the check, a file that passed was the pinned one, and the copy is what was read |
| `Rules_proofs` (PluginLog) | WholeLog | `LogInv`: unless calls raced, the file holds what was put, line by line, and perhaps a part of one more record; who is about to write found it whole and its plugin's |
| `Rules_proofs` (TrustedFile) | TrustInvariant, ReadTrusted | `TrustInv`: the walk's checks are of different moments, so each needs that what it saw could not change since: a directory that only root or the user can write keeps its name but for the owner's update, and a file of the user's that nobody else can write keeps its bytes; while nothing has changed every fact is the tree's own |
| `Rules_proofs` (SoftwarePin) | PinInvariant, PinnedListed | `PinInv`: what is left to visit is at most two names deep, so what opens on macOS can be followed name by name; what was pinned is listed; while nothing was swapped a visit still leads to the file that is not listed |
| `Vmm_proofs` (VmmChild) | VmmInvariant, NeverSignals, FinishedIsGone, DroppedIsReaped, EndedHandles | `VInv`: an unfinished handle's number is its child's or no child's; a handle about to signal has its child under its number |
| `Vmm_proofs` (HelperLaunch) | LaunchInvariant, DescriptorsStayHome | `LaunchInv`: which descriptors a launch has at each step and which it no longer has; a descriptor that would be inherited is there only under the spawn lock, during which nobody forks, so what a child may have of another's closes when it executes |
| `Vmm_proofs` (DiagnosticTranscript) | TranscriptInvariant, TranscriptComplete | `TranscriptInv`: what was written is what was taken and what is in the pipe, what was taken is what was kept and what was counted, at each place of the reader and of `finish` |
| `Vmm_proofs` (HelperHandshake) | ShakeInvariant, HandshakeIsTrue | `ShakeInv`: whose the connection is that the host holds, what it has asked and heard on it, and that the parts read and those in the stream are together what an honest guest has sent, so that its answer is complete where the host judges it |
| `ControllerDaemon_proofs` | SocketInvariant, ReadySockets, ExactSockets, OrderedReplies | `SocketInv`: at each place of bind, publish and close what a process has bound, made private and shown; a name that another program left stays taken in every directory, so a name that was bound is the process's own. `TalkInv`: the lines of a connection are those answered, those read and those in the stream |
| `MembraneDaemon_proofs` | TeardownInvariant, ExactTeardown, AnswersInvariant, TrueAnswers | `Owned` and `Fleet`: at each place of `run_with` whose the entry at the socket's name is, and which brokers are there. The number recorded tells the daemon's own entry always, and any other from it only while the listener is open (`Recorded`). `Heard` and `Spoken`: which brokers have said Ready in the status under way, and the place of every piece of a request among those sent |

The theorems that state a property of a run:

| Theorem | Property | Theorem | Property |
| --- | --- | --- | --- |
| AgreeingHistory | `HistoryAgrees` | KeptBound | `BoundIsKept` |
| ForLifeTheorem | `IdentityIsForLife` | KeptReserve | `ReserveIsKept` |
| LockIsNamed | `HeldIsNamed` | LeastRemovals | `RemovalIsLeast` |
| NeverFresh | `NeverFreshAndFree` | AccountedDenials | `DenialsAccounted` |
| IdentitiesTheorem | `IdentitiesAreKept` | PinnedRoot | `RootIsPinned` |
| AccountTheorem | `AccountIsAccepted` | WholeLog | `LogIsWhole` |
| WithdrawalTheorem | `WithdrawnLeavesNothing` | TrueReport | `ReportIsTrue` |
| ExactDetach | `DetachIsExact` | LockWithSupervisor | `LockFollows` |
| ResumableDetach | `Resumable` | NeverSignals | `NeverSignalsAStranger` |
| NothingElse | `NothingElseMoves` | EndedHandles | `EndsLeaveNothing` |
| DurableTheorem | `AckedIsDurable` | ReadySockets | `PublishedIsReady` |
| SoundWrites | `WritesAreSound` | ExactSockets | `SocketsAreExact` |
| TrueMarker | `MarkerIsTrue` | OrderedReplies | `RepliesInOrder` |
| TrueAnswers | `AnswersAreTrue` | ExactTeardown | `TeardownIsExact` |
| DescriptorsStayHome | `EndsStayHome` | TranscriptComplete | `TranscriptIsComplete` |
| HandshakeIsTrue | `OutcomeIsTrue` | ReadTrusted | `ReadIsTrusted` |
| PinnedListed | `PinnedIsListed` | | |

The others are their parts, the inductive invariants, and three that say more.
`LedgerUsesBackend` is a refinement: the ledger, its host and the bystanders implement
the backend's specification, so that AccountTheorem, WithdrawalTheorem and HandsTheorem
hold of the composition. `AtomicPaging` is the safety half of `PagingIsAtomic`: every
behaviour of the paging, fairness apart, is one of `AtomicObservation` under the
refinement mapping. `AtMostOneSupervisor` follows from LockIsNamed.

**Assumptions.** Limits and bounds are natural numbers, not zero where the code has a
nonzero limit. The null values (`None`, `NoOne`, `NoBound`, `Nothing`, `NoAddress`,
`Unrecorded`) are none of the values they stand beside, as an `Option`'s `None` is no
value; the nodes and users of `TrustedFile` are pairwise different; a helper's kept
descriptors start above 3 (`FirstKept`; the code has 10), and the lengths in
`HelperHandshake` are natural numbers; in `PrivateSocket` the names that other programs leave are not those of the
processes. `Configs` of `MembraneDaemon` are records of a flag and a sequence.
`Plugins` of a graph are finitely many.

**Induction.** The library's induction theorems take an operator as a parameter and
cannot be used. Where a proof is by induction over a number or the size of a set it
takes a least counterexample instead (`LeastNat`, from the well-foundedness of `<` on
the naturals). In this way the recursive functions of `AttachmentGraph` and
`KillBudget` and the sums of `DenialBook` are proved about.

**Only model-checked.**

- The liveness properties `StartEnds`, `CallEnds`, `ShutdownEnds`, `HandshakeEnds`,
  `ShutdownHonored` and the fairness in `PagingIsAtomic`: out of the prover's reach.
- `NothingShared`: `MountSources` fixes the tree of macOS, with six layouts, and has no
  number to be taken larger; TLC visits every state there is, so a theorem would say
  no more.

## 5. State of the plan

The plan was the core of recovery first (journal, lock, directories, ledger), then the
processes (start, session log, sockets, daemons, the VMM), then the rules, and a proof of
each safety property once a run had it. It is done: every safety property of the passing
runs but `NothingShared` is a theorem. What the code has beyond is listed below; when
`MountSources` gets trees of any depth, `NothingShared` is the next theorem, from the
fact that a directory below another has it on the chain of one of its two spellings.

## 6. Not modelled

More than half of the repository's Rust lines are tests: test modules inside the source
files, the test kit with its conformance suite, the guards and the lanes that boot a
guest. Much of the rest reads, checks or writes text, in one pass and by one process.
A model of either would be a transliteration, so the modules cover the smaller part
that has state over which steps, processes or failures interleave:

- manifests, the registry, operator declarations, recipes and configurations:
  validation of text, without steps; the files are read as `TrustedFile` says and the
  mount sources checked as `MountSources` says;
- the cell journal's reader and parser: `read_records` admits each line by
  `CellHistory`'s rule, and the repository has no writer whose crash it would meet;
- the composite backend: a product of backends over disjoint addresses, with no state
  of its own; digests, wire layouts and the guest protocol's messages are data;
- the reconciler (one set difference), the plugin life cycle (one transition table),
  the gatekeeper (a map behind a lock), `after_query` (a function of one answer):
  no caller takes steps with them at this commit;
- the helper's image, confinement profile and calls of `libkrun`, and the reading of
  ELF and Mach-O files: formats of other programs;
- the command flags and `check_names` of software trees; ACLs and volumes without
  ownership in `TrustedFile`; a guarded directory right at the read-only system volume in
  `MountSources`;
- JSON, help and error texts everywhere; command lines; the maintainers' tools; the
  reserved SDK and the placeholder crate.
