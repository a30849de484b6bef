# SurfaceLoom in TLA+

SurfaceLoom tests AI agents against browsers and native desktops. A Case drives
a surface, compares what the agent did with what it claimed, cleans up, and
ends in one conservative verdict. Its hard part is not any one check but the
orchestration around them: who owns the desktop, what a deadline leaves behind,
what may be said of a request whose answer never came, what survives a crash.
This directory specifies that orchestration in TLA+, checks it with TLC on
small instances, and proves the main safety properties with TLAPS for every
instance.

Paths below are relative to `src/`. `PROJECT.json` maps every definition that
models code to the lines it models, lists the runs, the mutants (the deliberate
bugs each property is shown to catch), the hazards and the theorems.

Contents: [1 the system](#1-the-system) · [2 the modules](#2-the-modules) ·
[3 the runs](#3-the-runs) · [4 fairness](#4-fairness) ·
[5 the proofs](#5-the-proofs) · [6 divergences](#6-divergences) ·
[7 limits](#7-limits) · [8 what is left](#8-what-is-left)

## 1 The system

The dependency direction is product scenario → adapter → component → Core
contract → backend. A test run, seen from the top:

    agent ── MCP / facade ──> run service ──> executor ──> suite runner (v3)
                              │   │                          │
                     run store┘   └ workspace leases         ├ execution gate ── desktop lease
                                                             ├ Case kernel ── deadline task
                                                             │     └ resources, surfaces ── native client ── host process
                                                             ├ sealed evidence ── judge
                                                             └ report bundle

### Components, their state and operations

| Component | State | Operations | Correct when |
|---|---|---|---|
| Interactive-session lease (`packages/test/src/interactive-session*.ts`) | a directory `<name>.lease` holding `owner.json`, retired directories that are never removed | acquire (poll, observe the owner, retire a dead owner's lease, publish), release | one live owner; a live owner's lease is never taken; a dead owner's is in the end |
| GUI execution gate (`execution-gate*.ts`, `runner-v3-gate.ts`) | `active-<token>.json` files beside the lease; the barrier's view of the GUI acquisition | acquire, release, quarantine, observe, recover; startGui, completeGui, observeExecution, finalize | no run starts on a desktop that may be dirty; every quarantine can be lifted and only for a clean desktop |
| Run store (`packages/service/src/stores/file-run-store.ts`) | `runs.json`, two maps, a promise chain | reserve, get, getByRequest, markRunning, markCancelling, finish, interrupt, attachArtifact, recoverInterrupted | what a caller was told is durable; a request names one run for ever; terminal records are final |
| Run service, facade (`persistent-service.ts`, `agent-service.ts`) | active dispatches with their cancel promises, snapshot ownership | prepare, start, dispatch, cancel, create | a request is executed at most once; a cancelled run ends; evidence decides about the workspace; a caller is told of its own run |
| Workspace leases (`workspaces/snapshot-lifecycle.ts`) | per snapshot: active lease, quarantine, release token | acquire, completeLease, release | a workspace is used by one executor and never removed under a process |
| Workspace provider (`workspaces/local-git-provider.ts`) | the snapshot root, the source work tree | prepare | what is handed out is the commit that was asked for, whatever happens to the source |
| Command executor (`executors/command-*.ts`, `process-*.ts`) | per run: promise, abort, process observer, streams | execute, cancel, cleanup | a receipt says confirmed only when nothing is left |
| v3 executor, artifact store, report bundle (`executors/surfaceloom-v3-executor.ts`, `stores/file-artifact-store.ts`, `packages/reporter/src/v3`) | the run's directories, blobs and manifests, `complete.json` last | execute; put, get, list; writeReportV3Bundle | a marker or manifest implies every file it names |
| Deadline task (`packages/test/src/deadline*.ts`) | cancellation, acknowledgment, settlement, outcome, timer | start, requestCancellation, acknowledge, complete, remainingMs, throwIfCancelled | the first cause wins; late is never in time; "stopped" means stopped; the wait is bounded |
| Case kernel, resource scope (`execute.ts`, `execution-dispatch.ts`, `recorder.ts`, `resources*.ts`) | recorder, pending steps and dispatches, accepting flag, registered resources | fixtures, body, three drains, coverage, reverse cleanup, report | a pass means verified, idle and clean; a publishable result no longer changes |
| v3 runner (`runner-v3*.ts`, `evidence-*.ts`, `judge-*.ts`) | claims on directories, the staging directory, the sealed evidence | one attempt, from the claims to the word on the gate | an outcome is earned: evidence complete, judges asked about what they may see, files as they were sealed |
| Surface controllers, native binding (`surfaces/browser*.ts`, `native-binding/*.ts`) | calls with budget and boundary, layers of cleanup | acquire, invoke, clean up | the lease of the desktop is given back only over a closed surface |
| Native client, its transport (`packages/native/src`) | connection, pending requests, late-response ids, sessions and handles; child process, write admission, framer, exit receipt | connect, dispatch, receive, cancel, disconnect, close, forget; open, write, close, fail | what the caller is told of a side effect is true; one disconnect notice; admitted bytes are never called unsent |
| Windows controller and session (`packages/native/src/windows`) | acquisition, memoised end, mailbox of late answers | launch, attach, end, release, close | cleanup is told as it was |
| Windows host (C#, `native/windows-host`) | queue, operation ids, sessions with handles, launched targets | one NDJSON request at a time, with cancellation and budgets | at most one execution per operation id; truthful answers |
| Browser sessions (`packages/browser-playwright`) | browser, context, page, two bounded closes; subscriptions; artifact files | launch, operate, observe, export, release | whatever was launched is closed once, also after an abort |
| Core (`packages/core`) | fixture runtime, guarded actions, evidence context | setup, teardown, act, define | teardown in reverse; a guard precedes its action; no cycle is accepted |
| Judge (`packages/llm-judge`) | one classification at a time along a route | classify | the answer is that of the last candidate asked, and grounded |
| Report rules (`packages/reporter`) | input, redacted report, stored file, import | validate, redact, write, import | what is published was validated and holds no credential |
| Sample products (`examples/*`, `scripts/clipboard-transfer`, `native/windows-fixture/scripts`) | a reference agent, a login service and its page, a pasted transfer, a live run of the gate | their own | what a test may conclude from them is so |

### How they interact

* **Files shared by processes.** The lease and the gate are protocols over one
  directory: no server, only `rename`, `lstat` and reads that other processes
  may invalidate between two awaits. Exports, snapshots and the clipboard
  receiver share directories in the same way.
* **Awaits inside one process.** The store, the service, the kernel and the
  client are single-threaded, but every `await` is a point where the state a
  handler read may have changed. Each such gap is a step boundary in the
  modules; what runs without an await is one action.
* **Calls that never return.** Case code, executors and hosts may hold a promise
  for ever. The code never relies on them: it waits with a deadline, records
  what is unconfirmed, and goes on.
* **Callbacks in one turn.** Deadline, external signal, clock failure and the
  callback's completion may all happen in one turn and call into each other
  synchronously; the task's operators are functions on the task for that reason.

### What is hard

Interleavings over files (a directory replaced between the check and the
rename); crashes between two file operations; a process id that is reused; a
failed write after the maps were changed; a cancel deadline that overtakes a
result, or a result that overtakes it; a late receipt; a settlement observed at
the deadline; a clock that breaks; a response that arrives after its caller
left; a session name given twice; a child that exits before its pipes end. The
`hazards` of `PROJECT.json` list them, each at the line where it bites, with the
properties that would fail.

## 2 The modules

| Module | Models | Composed with |
|---|---|---|
| `ExclusiveLease` | abstract: what the lease promises | implemented by `InteractiveSession`, used by `ExecutionGate` |
| `InteractiveSession` | the lease's files and callers | `MCInteractiveSession` |
| `ExecutionGate` | gate, barrier, recovery | instantiates `ExclusiveLease` as its lease |
| `RunLedger` | abstract: what a run store promises | implemented by `FileRunStore`, used by `PersistentRunService` |
| `FileRunStore` | maps, file, promise chain | implements `RunLedger` |
| `PersistentRunService` | start, dispatch, cancel, workspace leases | instantiates `RunLedger` as its store; `MCPersistentRunService` |
| `CaseExecution` | deadline task, Case kernel with resource scope | — |
| `NativeClient` | client over its transport to a truthful host | — |
| `ReportBundle`, `FileArtifactStore` | a bundle's publication; the queue of puts with gets beside it | instantiated by `SurfaceLoomV3Executor` |
| `SurfaceLoomV3Executor` | one v3 run over both | `MCV3Executor` |
| `CommandExecutor`, `NodeTransport` | the two owners of a child process | `Components` |
| `FixtureRuntime`, `GuardedActions`, `EvidenceContext` | Core | `Components` |
| `OwnedBrowser`, `BrowserArtifacts` | the browser's life; exports to one path | `Components` |
| `LocalGitWorkspace`, `AgentService` | the snapshot provider; the facade over a run store | `Components` |
| `WindowsSession` | the controller and its session | `Components` |
| `BrowserSurface`, `NativeBinding` | a Case's browser with its lease; the binding with its cleanup layers | `Components` |
| `BrowserObservations`, `WindowsHost` | subscriptions; the host process | `Components` |
| `JudgeRouter` | routes over judges | `Components` |
| `CaseRunner` | attempts over promises, one or several at once | `Components` |
| `LiveGateRun` | a live run of the gate, its children and its ledger | `Components` |
| `ReportRules` | what a report may say | `MCComponents` |
| `ReferenceAgent`, `LoginFixture`, `ClipboardReceiver`, `ClipboardOutbox` | the sample products and scripts with a protocol of their own | `MCComponents` |
| `Components` | the components above that are proved about, for any constants | `MCComponents` |
| `…Proofs` | theorems about the module of that name; `V3RunProofs` about the gate and the v3 executor, `ComponentProofs` and `WindowsProofs` (the Windows session and host) about `Components` | — |

Two abstract modules are joints of the project. `InteractiveSession`
implements `ExclusiveLease`, so the gate can be checked over a lease that is
granted and ended in one step each; `FileRunStore` implements `RunLedger`, so
the service can be checked over one-step stores instead of promise chains. Both
implementations are checked by TLC and proved. `CaseRunner` uses the kernel, the
gate and the report writer through what their modules promise.

`Components` composes components that do *not* interact: a behaviour picks one of
them and takes its steps, and they share the variables `v1` … `v17`, so that a run
explores their sum and not their product. Its constants are theirs, with the
assumptions their properties need, each named. `MCComponents` gives the
constants values, adds the other instances, and is the module of two runs.
What each module is about is said at its head; the ones whose correspondence with
the code is not obvious follow.

### InteractiveSession

A lease generation is its random token. `lock` is the token inside the lease
directory, `retired[t]` what lies in `<name>.lease.retired-t`, `owner[t]` the
process identity `owner.json` names, `id[h]` the identity (pid and creation
marker) process `h` runs under, `born` the identities used up. Each caller has a
place `pc`, the helper call it is inside (`use`) and that call's locals.

| Action | Code |
|---|---|
| `Begin`, `Look`, `TimeOut` | head of the acquire loop: abort, deadline, next cycle |
| `ReadDirectory`, `ReadMetadata`, `CheckGeneration` | `readLease`: directory, `owner.json`, the directory once more |
| `Observe` | `observeProcessIdentity` and `isDefinitelyStale`; an unknown observation is never stale |
| `CheckProof`, `RenameToProof`, `VerifyProof` | `moveLeaseToProof` |
| `Publish` | `publishLease`: the pending directory renamed onto the path |
| `Release` | `releaseInteractiveSessionLease` |
| `Crash`, `Boot` | the operating system; a pid may return, a marker with the same pid not |

Abstracted: the wait between cycles, the contents of `owner.json` beyond token
and identity, the pending directory's own name.

### ExecutionGate

`active` is the set of generations with a state file, `doc[a]` the generation
an actor publishes or retires, `want[a]` the generation its recovery proof
names, `gui`/`confirmed` the two fields of `RunnerV3GateBarrier`. `dirty` is the
world's truth, which the code never sees: generations whose GUI resources may
be alive. `AcquireLease`, `ReadState`, `Recheck`, `Publish`, `Refused` are acquire
and recover; `StartGui`, `CompleteGui`, `ObserveExecution`, `Throw`, `Finalize` the
barrier; `Released`, `Quarantined`, `ReleaseFails`, `RetireCheck`, `Retire` the end,
the lease first and the state file after it. An operator's proof (`IssueProof`)
is issued only for a clean generation: that is the meaning of the document,
whose truth the code cannot check.

### FileRunStore

`byRun`, `byReq` are the maps, `backup` the copies a mutation keeps, `tail` the
chain as a sequence of callers, `phase` how far the head of the chain is. `Call`
appends, `Read`, `Reject`, `Mutate`, `Write`, `Fail`, `Return` are the links, `Boot`
is `open` with the recovery the service asks for first. `told` remembers what a
caller was given, so that `AnswersHold` can compare it with the file after any
crash. `preparing` and `cancelled` records behave as `queued` and `failed` ones here and
are folded into them.

### PersistentRunService

`dispatch[r]` is the place of `#dispatch`, from `mark` through `execute`, `examine`,
`release` and `finish`, with `abandon` for its catch. `lease`, `quarantined` and
`removing` are the registry. `live` is the world's truth: runs whose processes
may be alive; it outlives a crash of the service. `result[r].safe` stands for a
cleanup receipt that confirms; the executor is taken at its word here, and
`CommandExecutor` shows that its word is true. `Submit`/`Reserve`/`Reuse`/`ReserveFails`
split `start` at its await of `reserve`; `Reserve` includes the synchronous start of
`#dispatch` and the lease, as the code does. `cancel[r]` follows the one cancel
promise of a run. `StoreFault` names the steps in which the store failed a mutation.

### CaseExecution

`task` is what `startDeadlineTask` closes over, a record; `Requested`, `ClockFailed`,
`Remaining`, `Completed`, `Acknowledged` map a task to the task after that
synchronous call, and actions apply them; `TaskSpec` is the task alone. `clock` is
good, past the deadline or broken (it throws or runs backwards). The Case adds the
producer's places (`fixture`, `body`, three drains, `cleanup`), the recorder
(`work`, `covered`, `failure`), and the resource scope. The code of a Case is an
adversary with the context in hand: it may begin work, register resources,
acknowledge or never return, until `accepting` is false.

### NativeClient and NodeTransport

`pending`, `phase`, `awaiting` and `answer` are the requests; `sessions`, `seen`
and `handles` the tracking; `link` and `frame` what the transport did; `done`,
`replied` and `wire` the host, which executes a request at most once and says
truthfully what it did, while the wire may also carry `MaxNoise` frames that
break the protocol. `Connect`, `TransportOpens`, `ShakeHands`, `ConnectReturns`,
`ConnectThrows` split `connect` at its awaits. The connection epoch is left out
because `state` never returns to "connecting"; cancel frames are left out because
the client sends them on a best-effort basis and infers nothing from them.
`NodeTransport` is the real transport: `write[f]` follows a frame through
admission, the stream and its callback, `outstanding` is the byte account,
`exit` the receipt, `proc` the world's truth about the child.

### CommandExecutor

`pc` is the place in `#run`, `trigger` the first of exit, failure, abort and
timeout, `proc`, `kin` and `written` the world: the child, its descendants and what
the pipes were given. Events of the child come late, in any order, or never;
`tree` is what the tree controller said and `contained` what it may say.
`ResultIsTrue` compares the receipt with the world.

### SurfaceLoomV3Executor

Composes `ReportBundle` (directory, copies, three concurrent writes, marker,
removal after a failure) with `FileArtifactStore` (a queue of puts done one after
the other, each step of a put an action; gets and listings beside them; blobs that
are damaged). A client of the store works at the same time, and the process may
stop at any step. `todo`, `mine` and the record follow what `#publish` still has to
put, what was put and what the run's record says.

### The rest of the suite

| Module | What its state stands for | Where its promise lies |
|---|---|---|
| `FixtureRuntime` | `queue` is the coordinator's chain of uses and closes, `doing`/`stack` the resolution under way, `order` what each runtime has set up, `mark` its snapshot for a rollback | `DependentsFirst` |
| `GuardedActions` | per action its place, what was `verified`, how often it passed and was submitted, the answer | `RefusedIsUntouched` |
| `EvidenceContext` | the graph under check; `indegree`, `ready`, `visited` of the count | `AcceptedIsFounded` |
| `OwnedBrowser` | `launch` of browser, context and page, `handle` what each of them is, `session` the close, `act` the actions | `HandedOverOrClosed`, `SubmittedOnOpen` |
| `BrowserArtifacts` | the name `.partial` and which export made it, what the path shows; an export that removed a file it had not made is `erased` | `PreviousOrNew` |
| `LocalGitWorkspace` | per call its place, its directory and what git answered; the source's head and edits | `SnapshotsStandAlone` |
| `AgentService` | catalog, snapshots with owners, runs of the store; a call's place between look and reservation | `RequestIsKept` |
| `BrowserObservations` | subscribers with ring buffers over shared listeners | `BatchIsWhole` |
| `WindowsSession` | the host's requests, what late answers wait in the mailbox, the memoised end, the target | `CleanupIsTrue` |
| `BrowserSurface`, `NativeBinding` | calls with a boundary, layers of cleanup with budget and clock, the lease | `SurfaceIsGivenBack`, `ApplicationIsGivenBack` |
| `CaseRunner` | claims, staging, evidence, judgements, bundle, gate of one or two attempts | `RunIsEarned` |
| `JudgeRouter` | the race of a provider with one deadline and one abort, along a route | `RouteIsAnswered` |
| `ReportRules` | an input, its redacted report, its stored form and the import | `ReportIsTrue` |
| `ReferenceAgent`, `LoginFixture` | the sample products and what a test concludes from them | `SamplesAreHonest` |
| `ClipboardReceiver`, `ClipboardOutbox` | files of a transfer under one root; the outbox and its bootstrap commands | `TransferIsSound` |
| `LiveGateRun` | runner, contender, their pipe, the ledger of the gate's events | `LiveRunIsProven` |
| `WindowsHost` | reader, queue and consumer; sessions, handles, operation ids; the launched targets with their names, disposed of one after the other | `HostIsTrue` |

## 3 The runs

State counts are distinct states; each run ends within three minutes with two
workers on an ordinary machine.

| Run | Instance | Properties | States |
|---|---|---|---|
| `lease` | 2 processes, 2 pids, 2 markers, 3 generations | `LeaseIsTrue`, `ImplementsExclusiveLease` | 454,308 |
| `lease_liveness` | the same with 1 generation, fair | `LeaseMovesOn` | 114,464 |
| `gate` | 2 actors, 3 generations, fair | `DesktopIsSafe`, `QuarantineLifted` | 83,968 |
| `store` | 2 callers, 2 runs, 1 request, 2 intents, 1 artifact, fair | `AnswersHold`, `ImplementsRunLedger`, `CallsReturn` | 155,156 |
| `service` | 2 callers, 2 requests, 2 runs, 2 workspaces, `Bounded`, fair | `WorkspaceIsSafe`, `ExecutedOnce`, `CancelEnds` | 118,136 |
| `service_interrupted` | 1 run | `InterruptedKeepsWorkspace`, violated (section 6) | 178 |
| `case` | 2 pieces of work, 1 resource beside the fixtures, fair | `CaseIsInOrder`, `ReadyIsFinal`, `TaskStands`, `ReportComes` | 111,936 |
| `native_client` | handshake, 2 calls, 1 session name, 2 handles, 1 frame of noise, fair | `CallersAreNotMisled`, `EveryCallSettles` | 226,641 |
| `child_processes` | one command; one host connection with 3 frames; fair | `ResultIsTrue`, `ConnectionIsTrue`, `ProcessesEnd` | 203,488 |
| `publication` | 1 run, 1 piece of evidence, a client with 1 artifact, `Bounded` | `FilesAreWhole`, `RecordIsTrue`, `DirectoriesAreKept` | 412,503 |
| `artifact_descriptors` | 3 exports, no descriptor left | `ReaderSeesWhole`, violated (section 6) | about 1,500 |
| `components` | twenty components, one per behaviour | the seventeen of the last table of section 2 | 900,471 |

A property may be the conjunction of named parts that its module defines beside
it (`LeaseIsTrue` of the holder's and the healthy caller's, `CaseIsInOrder` of what a
pass, a failure and a cleanup mean, `SamplesAreHonest`, `TransferIsSound` and
`SurfacesAreGivenBack` of their two or three modules'). Every property of a passing
run has a mutant in `PROJECT.json`: a plausible bug in one mapped definition under
which TLC finds the property violated in the same run. They stand next to the
definitions they change and carry the changed definition's name with a suffix.

Type invariants are not checked by a run of their own: where one is needed it is
part of an inductive invariant, and proved (section 5).

### Why these bounds

* **Lease.** A bad mover needs an owner that dies, a contender that has read the
  old generation and another that publishes a new one: two processes and three
  generations. Two markers with two pids allow each way of reusing a pid.
* **Gate.** A stale proof needs the generation it names, a newer quarantine and
  the lease of the recovery: three tokens, two actors. For liveness `Recycle`
  returns tokens nobody remembers, since a finite supply of UUIDs would end
  every behaviour.
* **Store.** One caller at work and one that waits show every order on the
  chain; two runs under one request with two intents show every conflict of the
  index.
* **Service.** Two runs on one or two workspaces show every reuse; the second
  caller is needed for the window of `reserve`. `Bounded` lets one caller retry
  one request while the others contend for one workspace. Run ids bound the
  number of reservations, as UUIDs would not.
* **Case.** A step that dispatches while the recorder drains needs two pieces of
  work; reverse order and independent failure need one resource beside the
  fixtures.
* **Client.** Two calls show every order of answers, writes and losses; two
  handles let a name come back with another root. `MaxNoise` counts frames the
  host sends beyond its answers: the connection does not survive the first
  malformed one.
* **Child processes.** One byte on each pipe tells read from unread. Two frames of
  one byte and one of two, with a maximum of two, fill, overfill and drain the
  account.
* **Publication.** One piece of evidence, which the Case captures or not, makes a
  bundle of three files; the client's artifact under the same run has its bytes, so
  that a blob is shared. `Bounded` lets the client begin while a complete report is
  published and lets one stored file be damaged after a pass. That a report may hold
  more than one piece, and that evidence may be captured without being required, is
  left to the proofs.
* **Components.** Each has the smallest instance in which its hazard occurs; a
  comment at the constants of `MCComponents` says which. Fixtures: a diamond over
  a worker's fixture, one ill-formed dependency, a queue of two. Exports: three,
  since a third must create the partial file that a second one removed. Facade: two
  requests on one snapshot, three calls, one restart. Workspace: two providers with
  one identifier left. `CaseRunner` starts with the options of one run in detail or of
  two runs in directories that meet. The host's client sends two to four frames: a
  launch or an attach with a search, an action or an end after it, ids and operations
  repeated, a cancel or a malformed frame between them, two launches of one name and
  of two; its registry has room for three handles and two operations, which fills
  both. `ReportRules` is checked on inputs with one flaw at
  a time, beside all combinations of results, policies and runs.

Deadlock is not checked: in each of these systems a state with nothing left to
do is a proper end (all callers done, all generations used, the client closed).
What must not stop is stated as liveness instead.

## 4 Fairness

Fairness is assumed only of what Node, timers and the operating system do, never
of an executor, a Case, a host or a caller.

| Specification | Fair | Not fair |
|---|---|---|
| lease | each started call runs on; an observation of a process is not unknown for ever (strong fairness of `Observe(c, TRUE)`) | begin, abort, release, crash, boot |
| gate | started calls run on, a run ends by its deadline, a process stuck with a failed release exits, leftovers end, an operator keeps trying to recover; crashes and failed releases happen finitely often | GUI steps, runs starting |
| store | the chain moves and a file operation ends one way or the other | callers, crash and restart |
| service | ready dispatches and timers run, the host restarts the service, a cancelled run found open is cancelled again, the store fails finitely often | the executor's return, the removal's end |
| task and Case | time passes, timers and turns are delivered, a receipt is waited for no longer than its timeout | fixtures, bodies, steps, dispatches |
| client | timers, promise continuations, the transport's close | the host, the pipe, the caller |
| command | the executor's own turns and timers (`Run`, `Expire`) | the child, its descendants, its pipes, events of the child |
| transport | timers, events of the child and its streams that have happened, arrival of what was written | the child's exit, the caller |
| components, publication | none: only safety is checked | — |

Two assumptions deserve a comment. `QuarantineLifted` and `CancelEnds` hold only if
crashes or store failures stop: the code retries nothing by itself after either,
and under failures that never stop nothing could. And `QuarantineLifted` needs a
persistent operator, because a proof of cleanup comes from outside the program.

## 5 The proofs

All theorems hold for every value of the constants under the named `ASSUME`s of
the modules, which only say that `None` is nobody's value, that the special ids
(`Recovery`, `Handshake`, `Fixtures`) are not ordinary ones, that `HostOf` maps
callers to processes, that `Grace` is a truth value and `MaxNoise` a number, and, in
`Components`, what configurations the code accepts: exit codes that are not both
passed and failed, frames with sizes, dependencies among fixtures, a finite set of
relations, a buffer of observations with room for one, a `None` that no cleanup layer
says, no judge stops for and no run exits or fails with and that is no export, session,
answer or handle, surfaces that are counted, routes and criteria that are sequences, and
clients of the host that send frames of the calls it has. They use neither fairness nor
finiteness otherwise. TLC evaluates every one of these assumptions in the runs.

Each part has the same shape: an inductive invariant as a conjunction of named
parts, a lemma that `Init` establishes it, one lemma per action (or group of
actions) that keeps it, with a step per conjunct, and the theorems a reader wants as
consequences. Each invariant was checked by TLC before it was proved.

| Module | Theorems | What makes it inductive |
|---|---|---|
| `InteractiveSessionProofs` | `TypeCorrect`, `OwnerKeepsLease`, `Exclusion`, `ProofsAreFaithful`, `HealthyCallsSucceed`, `LeaseHolds`, `Refinement` | `Generations` (an issued token is at the path or in its own proof, never both), `Identities` (none is used twice), `Holders`, and `Movers`: whoever is about to retire a stale lease names one whose owner is gone for good. So a mover that acts late finds its own generation or none |
| `V3RunProofs`, the gate | `TypeCorrect`, `QuarantineIsDurable`, `DesktopIsExclusive`, `GenerationIsUnique`, `RunIsNamed`, `OnlyCleanIsLifted`, `DesktopStaysSafe` | `LeaseOwner`, `Documents` (no two runs share a generation), `Proofs` (a proved generation is clean and nobody is busy with it), `Marked` and `Clean`, which say what the file means at every place between publishing and retiring |
| `FileRunStoreProofs` | `TypeCorrect`, `MapsAreTheFile`, `RequestsAreUnique`, `AnswersAreDurable`, `AnswersStand`, `Refinement` | `Pending`: while a mutation is at work the maps are one ledger step ahead of the file and the backup is the file. The step `Moves` is the abstract next-state relation as a relation between tables |
| `PersistentRunServiceProofs` | `TypeCorrect`, `WorkspaceIsUsedOnce`, `WorkspaceIsExclusive`, `RequestIsExecutedOnce`, `RemovalIsSafe`, `UntaintedMeansClean`, `WorkspaceStaysSafe` | `Launches`: a workspace somebody has worked in is leased by him still or spent for ever; `ClosedTainted`: a run closed under its own dispatch is tainted; `Evidence`: what a dispatch is about to report is so |
| `CaseExecutionProofs` | `StopIsTrue`, `FirstCauseIsKept`, `LateIsNotInTime`, `SettledStands`, `TypeCorrect`, `CleanupIsAlone`, `PassedMeansDone`, `BusinessMeansInOrder`, `HonestReport`, `OrderIsKept`, `PublishedIsFinal`, `ReportClosesContext` | lemmas on the task's operators (`Sound`, `Settled`, `Moves`) reused for both specifications; `HeldIsRegistered`: unless tainted, whatever is held has its cleanup still to come |
| `NativeClientProofs` | `TypeCorrect`, `CallersAreToldTheTruth`, `ConnectionLeavesNothing`, `SessionNamesAreStable`, `NobodyIsMisled` | `Lifecycle`, `Waiting`, `Requested` (untouched, waiting, settled) and `Answering`: every response on the wire tells what the host did |
| `V3RunProofs`, the v3 executor | `ExecutorIsTyped`, `FilesStayWhole`, `RecordStaysTrue`, `DirectoriesStay` | the bundle's and the store's invariants, each kept by its own steps and carried through the other's; `PutsFit` links a queued put to what its caller wants, `RunFits` says that what the run has still to put and what it has put make up the whole bundle, and that what was acknowledged or harmed only grows |
| `ComponentProofs`, `WindowsProofs` | below | below |

`Refinement` in the lease and the store is the full step simulation: initial
states map to initial states, and each step maps to an abstract step or a
stutter under the mapping in the module.

`ComponentProofs` and `WindowsProofs` are about `Components`. A section names the shared variables as its
component does (`order == v1`, hidden again at its end), proves its component's
invariant for `Init`, `Next` and stuttering, and ends with a theorem about every
behaviour of the suite.

| Theorem | States | What makes it inductive |
|---|---|---|
| `CommandIsTyped`, `ResultStaysTrue` | `ResultIsTrue` | an exit receipt is true and there before the tree is cleaned; a tree confirmed after the exit leaves no kin; a pipe that ended without a failure was read whole |
| `ConnectionStaysTrue` | `ConnectionIsTrue` | the account is the cardinality of the bytes of writes the stream still has; a notice is given in one transition of the state only |
| `DependentsStopFirst` | `DependentsFirst` | the queue: the runtime of a waiting call is not closed, nothing waits behind its own runtime's close, a worker closes after its tests; and what a rollback in the worker leaves is what the tests' fixtures rest on |
| `RefusalIsFinal` | `RefusedIsUntouched` | what is verified at each place between resolution and submission |
| `CountingFindsCycles` | `AcceptedIsFounded` | `indegree` is the number of relations from nodes not visited; every set of visited nodes that is not empty has one that no relation of the set leads to (a first visited one) |
| `ActionsMeetOpenSessions` | `SubmittedOnOpen` | what each handle is at each place of the launch, with and without the abort |
| `SurfacesStayGivenBack` | `SurfacesAreGivenBack` | three invariants: of the browser's owner, that of the row above (`BrowserInv`); of the browser surface, what backend, close and lease may be at each place of the cleanup, and that a call that is told to stop has not crossed its boundary; of the binding, that each layer has exactly the turn its cleanup reached, that an acquisition not yet settled keeps the lease, and that an owned target ends only through its layer |
| `CleanupStaysTrue` | `CleanupIsTrue` | what is under way at the host (`RequestInv`), that nothing is left of what was not asked for or not executed (`AcquireInv`), and that an end is asked for again only when it is known to have done nothing (`EndInv`) |
| `ReaderFindsWhole` | `PreviousOrNew` | as long as no export is `erased`, an export at work is the one that made the partial file; whatever else keeps a create from succeeding |
| `BatchStaysWhole` | `BatchIsWhole` | what a subscriber has drained, what its buffer holds and what it has dropped make up, in order, what it was sent since it subscribed; the buffer is never longer than its limit |
| `HandedOutStandsAlone` | `SnapshotsStandAlone` | a directory is made once by a call at its place and carries what the steps so far did as long as it is that call's |
| `RequestsAreKept` | `RequestIsKept` | the owner of an unfailed snapshot is whoever has or reserves a run on it, unless the process that knew is gone |
| `RouteStaysAnswered` | `RouteIsAnswered` | `AskedInv` (only the candidate at its turn has a call under way, and the next is asked only when that call has settled), `SignalInv` (a call its judge has left was told to stop, and why), `FoundedInv` (a race that was decided by a value holds what the model said) |
| `LiveRunStaysProven` | `LiveRunIsProven` | what the job at work and the pipe are at each await; the owner is in the gate until it is said to let go; a contender that entered holds the gate until it releases or quarantines it, and one that exited with 0 has left; every frame that was read was written before |
| `HostStaysTrue` | `HostIsTrue` | frames are taken in their order, and only what was taken has left traces; whatever is accepted and not answered is registered; for each request what an answer may say of it (`Sound`), kept by every step of the world; at each place of the consumer what its request has done so far (`WorkInv`); a running target has a session or the launch at work, and two have two names |
| `RunStaysEarned` | `RunIsEarned` | per run: whoever uses its directories has its claim, and claims are on directories that do not meet; what may be alive is what was acquired and at most one more while an acquisition is not known; what the kernel's result says of the worker and of cleanup, at each place after it; the gate goes back only over a confirmed cleanup or no acquisition; a criterion passed selects what is required, and what is required is in the bundle of a run that has an exit code |

**Only model-checked.** All liveness (`LeaseMovesOn`, `QuarantineLifted`,
`CallsReturn`, `CancelEnds`, `ReportComes`, `EveryCallSettles`, `ProcessesEnd`):
fairness and `ENABLED` are beyond TLAPS. And of the run `components`:

| Property | Why it has no theorem |
|---|---|
| `TransferIsSound` | it is about what quotients over sequences of chunks compute, which is induction over data |
| `ReportIsTrue` | it compares what two pure validators and a redaction compute on one input; a proof would repeat their definitions |
| `SamplesAreHonest` | it counts calls in a sequence, which is induction over data |

## 6 Divergences

`service_interrupted` finds that the workspace of an interrupted run can be
removed. `run-lifecycle.ts:34` records an interrupted run with the receipt
"Owned process cleanup was not confirmed; workspace must remain quarantined.",
and `docs/FRAMEWORK_SSOT.md:325` says that unconfirmed cleanup does not release the
workspace. But the deadline that writes this record
(`packages/service/src/persistent-service.ts:140`) may pass when the executor has
returned with confirmed cleanup and the removal of the workspace is at work:
`#releaseReady` (`workspaces/snapshot-lifecycle.ts:103`) goes on and removes it. The
record then claims more caution than the registry practises. It is not a
safety problem by itself: `WorkspaceIsSafe` holds, the removed workspace had
confirmed cleanup. It is a record that does not say what happened.

`artifact_descriptors` finds a reader of a half-written export. The comments of
`packages/browser-playwright/src/artifact.ts` (50 and 62) say that the exclusive
partial file is this call's and that a reader sees the old file or a whole new one.
When the exclusive create fails for another reason than `EEXIST`, as it does when a
process is out of descriptors, line 72 removes the `.partial` all the same, which may be
another export's; a third export then creates the name again, and the one whose name
was taken away renames the third's file while it is being written. Until an export has
removed a file that way the promise holds, whatever else fails, and is proved
(`ReaderFindsWhole`).

Four observations on the Windows host have no run. `NativeV1Dispatcher.cs:148` says "A consumed operation
id is a durable replay verdict", but the contract is validated before the id is
registered, so that a close, terminate or release that is sent again is answered
session_not_found, not executed and safe to retry. `native/windows-host/README.md:89`
says that an id is owned until its terminal frame is written; the code gives it free
shortly after. Once `OperationRegistryLimit` is reached (`NativeV1Dispatcher.cs:323`), an
operation that was done and is sent again is refused for want of room before it is
looked up, and the refusal says not executed, safe to retry; nothing comes of the retry,
which is refused in the same way (`Hopeless` in `OperationIsDoneOnce`). And
`native/windows-host/README.md:152` says that a host that ends cleans up "best-effort" the
targets it launched, as does the comment in `OwnedProcessController.Dispose`. That method
catches two kinds of error (line 181), while a kill of a process tree of which a part
could not be ended raises a third, `AggregateException`; `RequestDispatcher.Dispose`
(49–52) disposes of the sessions in one loop without a catch, so that the targets that
come later are not tried. `DisposeSession` has this error, and `TargetsAreKept` promises
nothing of a disposal that it has ended.

## 7 Limits

* **Files.** `rename` is atomic and has POSIX semantics. On Windows a rename onto an
  existing directory reports `EPERM`, which `isDestinationOccupied`
  (`interactive-session-storage.ts:235`) does not recognise; the module does not
  have error codes. Power loss is not modelled: `writeAtomicFile` does not flush
  (`stores/atomic-file.ts:14`), so the crash of a process is covered and that of
  the machine is not.
* **One process per store.** The service's documentation restricts a store to
  one process, and so does `FileRunStore`.
* **Markers.** A process creation marker is unique per pid. On macOS it has a
  granularity of one second; a pid reused within that second is outside.
* **Data.** JSON shapes, names, byte limits, formatting and redaction are
  modelled only in `ReportRules`, by traits of texts. A malformed file or frame
  appears elsewhere only as the refusal it causes.
* **Truthful parties.** Operators' proofs, hosts' outcomes and backends' close proofs
  are true in the modules. What the code does when no word comes, or a word that
  breaks the protocol, is modelled.
* **Case kernel.** One acceptance criterion, no suspension of a worker process,
  and the cleanup stop signal is not distinguished from the timeout.
* **Service, facade.** `putArtifact` and the reads are not modelled. Process exit is
  a single step. After a failed first submission two requests can have runs on one
  snapshot, one after the other; `RequestIsKept` says so.
* **Child processes.** A `kill` that fails before the spawn event is read as a child
  that was not spawned (`process-observer.ts:50`).
* **Windows.** Two acquisitions at once on one controller, the legacy 0.2 protocol,
  desktop sessions, `element.get`, doctor, capabilities and the classification of
  searches are not modelled; RuntimeIds are taken not to recur, and budgets expire
  nondeterministically at the two checks of the code. The journaled desktop session
  and the macOS host are not modelled.
* **Native binding, surfaces.** `registerHostResource: false` with an owned host and
  `native.ts` are not modelled. The kernel drains dispatches before cleanup; the
  browser's controller does not rely on it, nor does its module.
* **v3 runner.** Staged files change only between turns; redaction, retention, budgets
  and authority of evidence, and a run without a gate, are not modelled. `skipped` and
  `unsupported` never come from the kernel, and the kernel's own report is taken to pass its
  validation (`execute.ts:177`). The gate is released although fixture
  code may still run when no GUI acquisition began: the code decides so.
* **Judge.** Nested routes, the fake provider's `reset` and the command line's
  temporary directory are not modelled.
* **Reports.** One flaw per input, one edit of the stored file (a consistent forgery
  among them), integers for timestamps, getters in a result only. Version 3 is not
  validated again after redaction, as in the code. Renderers are not modelled.
* **Samples.** Reference agent: one run; `settle` only within the cases. Login: one run
  of two attempts, five clicks, one load of the page. Clipboard: one chunk, four calls,
  one kill; a killed add leaves a temporary file that blocks finalize, as in the code;
  preparations end before the first paste, which loses nothing since nothing takes an
  outbox away; the directory of chunks is removed in one step; one command is cut off. Live run: an overlap whose line is read after the
  release is recorded cannot be told by the run, and the property does not ask for it.
* **Not modelled at all.** See the components of `PROJECT.json`: rendering,
  command lines, traces and operating-system calls are either pure functions or
  input and output.

## 8 What is left

* The journaled desktop session and the macOS host are not modelled.
