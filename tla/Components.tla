----------------------------- MODULE Components -----------------------------
(***************************************************************************)
(* Components that do not meet, for any constants.  A behaviour picks one   *)
(* of them and takes its steps, so that a run explores each of them and not *)
(* their product; they share the variables for that reason.                 *)
(***************************************************************************)
EXTENDS Integers, FiniteSets, Sequences

CONSTANT None

CONSTANTS
  Passed, Failed, Code, MaxBytes,                     \* CommandExecutor
  HostFrame, Size, Maximum, Replies,                  \* NodeTransport
  Fixture, WorkerFixture, DependsOn, TestScope, Worker, MaxQueue,  \* FixtureRuntime
  Action, Kind, ForcedAction, Additional, Supported,  \* GuardedActions
  Nodes, Relations,                                   \* EvidenceContext
  Inspecting,                                         \* OwnedBrowser
  Subscriber, PageRequest, BufferLimit, Emitted, MaxEvents,  \* BrowserObservations
  Export, OpenErrors,                                 \* BrowserArtifacts
  GitCall, GitProvider, OpId, Uuid, GitCommit,        \* LocalGitWorkspace
  Client, Snapshot, RequestId, StartRequested, Sensitive, ForeignTest, MaxRestarts,  \* AgentService
  AuthorOp,                                           \* BrowserSurface
  RouterConfig, JudgeRequest, ModelDecision, FakeScript, \* JudgeRouter
  RunCalls, ImageArtifact,                            \* CaseRunner
  HostScripts, HostElement, RootElement, MaxIdentity, HandleLimit, OperationLimit  \* WindowsHost

VARIABLE picked  \* the component whose behaviour this is

\* Its variables; what it has no use for stays None.
VARIABLES v1, v2, v3, v4, v5, v6, v7, v8, v9, v10, v11, v12, v13, v14, v15, v16, v17

allVars == <<picked, v1, v2, v3, v4, v5, v6, v7, v8, v9, v10, v11, v12, v13, v14, v15,
             v16, v17>>

\* One registered command of the service.
Command == INSTANCE CommandExecutor WITH
  signal <- v1, late <- v2, pc <- v3, exit <- v4, spawned <- v5, proc <- v6,
  trigger <- v7, code <- v8, kin <- v9, written <- v10, failure <- v11, out <- v12,
  contained <- v13, tree <- v14, result <- v15

\* The connection to one native host.
Transport == INSTANCE NodeTransport WITH
  Frame <- HostFrame, notified <- v1, opened <- v2, state <- v3, exit <- v4,
  spawned <- v5, proc <- v6, closing <- v7, closed <- v8, exited <- v9, ended <- v10,
  accepting <- v11, outstanding <- v12, write <- v13, framing <- v14, delivered <- v15,
  sent <- v16, silent <- v17

Fixtures == INSTANCE FixtureRuntime WITH
  Test <- TestScope, order <- v1, mode <- v2, queue <- v3, doing <- v4, stack <- v5,
  mark <- v6

Guarded == INSTANCE GuardedActions WITH
  Force <- ForcedAction, at <- v1, late <- v2, aborted <- v3, verified <- v4,
  passes <- v5, submits <- v6, answer <- v7

Graph == INSTANCE EvidenceContext WITH
  graph <- v1, indegree <- v2, ready <- v3, visited <- v4, verdict <- v5

Browser == INSTANCE OwnedBrowser WITH
  signal <- v1, listening <- v2, launch <- v3, stopped <- v4, handle <- v5,
  session <- v6, act <- v7, matches <- v8, submitted <- v9

Observations == INSTANCE BrowserObservations WITH
  Request <- PageRequest, Limit <- BufferLimit, observing <- v1, bindings <- v2,
  listeners <- v3, requestIds <- v4, nextRequestId <- v5, ring <- v6, batch <- v7,
  seen <- v8, shut <- v9

Artifacts == INSTANCE BrowserArtifacts WITH
  phase <- v1, partial <- v2, target <- v3, whole <- v4

Workspace == INSTANCE LocalGitWorkspace WITH
  Call <- GitCall, Provider <- GitProvider, Commit <- GitCommit, at <- v1, asked <- v2,
  record <- v3, reserved <- v4, resolved <- v5, directory <- v6, source <- v7

Facade == INSTANCE AgentService WITH
  Call <- Client, Asked <- StartRequested, Foreign <- ForeignTest, catalog <- v1,
  snapshots <- v2, owners <- v3, runs <- v4, call <- v5, told <- v6, failed <- v7,
  restarts <- v8

Windows == INSTANCE WindowsSession WITH
  host <- v1, late <- v2, target <- v3, ownership <- v4, acquiring <- v5,
  recoverable <- v6, mail <- v7, held <- v8, removed <- v9, memo <- v10,
  request <- v11, released <- v12, ends <- v13, proofs <- v14, result <- v15

Surface == INSTANCE BrowserSurface WITH
  Op <- AuthorOp, signal <- v1, late <- v2, aborted <- v3, stopped <- v4, call <- v5,
  backend <- v6, lease <- v7, browser <- v8, submitted <- v9, cleaning <- v10,
  close <- v11, scope <- v12

Binding == INSTANCE NativeBinding WITH
  host <- v1, options <- v2, target <- v3, acquire <- v4, acquisition <- v5,
  session <- v6, lease <- v7, coming <- v8, layer <- v9, reason <- v10, turn <- v11,
  begun <- v12, barrier <- v13

Router == INSTANCE JudgeRouter WITH
  Config <- RouterConfig, Request <- JudgeRequest, Decision <- ModelDecision,
  Script <- FakeScript, at <- v1, late <- v2, aborted <- v3, route <- v4, call <- v5,
  index <- v6, signalled <- v7, said <- v8, race <- v9, outcome <- v10, request <- v11,
  attempts <- v12, cursor <- v13, child <- v14, sentLate <- v15

Live == INSTANCE LiveGateRun WITH
  at <- v1, leaky <- v2, gate <- v3, job <- v4, contender <- v5, pipe <- v6,
  lines <- v7, seen <- v8, waiter <- v9, got <- v10, lost <- v11, observed <- v12,
  started <- v13, events <- v14, evidence <- v15

Runner == INSTANCE CaseRunner WITH
  Calls <- RunCalls, Image <- ImageArtifact, at <- v1, options <- v2, gate <- v3,
  claims <- v4, disk <- v5, told <- v6, alive <- v7, worker <- v8, submitted <- v9,
  acquired <- v10, execution <- v11, staged <- v12, barrier <- v13, judged <- v14,
  required <- v15, bundle <- v16

WinHost == INSTANCE WindowsHost WITH
  Scripts <- HostScripts, Element <- HostElement, Root <- RootElement,
  Capacity <- HandleLimit, host <- v1, script <- v2, next <- v3, reader <- v4,
  inbound <- v5, cancelled <- v6, consumer <- v7, used <- v8, sessions <- v9,
  process <- v10, identity <- v11, outstanding <- v12, answers <- v13, effect <- v14

-----------------------------------------------------------------------------
(* What a component takes for granted of its constants                     *)

\* A command's allowlists are of exit codes and do not overlap.
ASSUME AllowlistAssumption ==
  /\ Passed \subseteq Code /\ Failed \subseteq Code
  /\ Passed \cap Failed = {}
ASSUME BytesAssumption == MaxBytes \in Nat
ASSUME CommandNoneAssumption ==
  None \notin Code /\ None \notin Command!Exit \cup Command!Trigger \cup Command!Cleanup
  /\ None \notin Command!Result

\* Frames have sizes, and the account of the bytes underway a maximum.
ASSUME TransportAssumption ==
  /\ Size \in [HostFrame -> Nat] /\ Maximum \in Nat
  /\ None \notin {"exited", "notSpawned", "confirmed"}

\* Fixtures depend on fixtures; a worker is none of its tests.
ASSUME FixtureAssumption ==
  /\ Worker \notin TestScope /\ Fixtures!Nobody \notin TestScope \cup {Worker} \cup Fixture
  /\ WorkerFixture \subseteq Fixture /\ DependsOn \in [Fixture -> Seq(Fixture)]

\* What an action asks for beyond the essential checks is a set of checks.
ASSUME GuardedAssumption == Additional \in [Action -> SUBSET Guarded!Check]

\* A case's evidence is finite.
ASSUME GraphAssumption == \A R \in Relations : IsFiniteSet(R)

\* A buffer of observations has room for one.
ASSUME ObservationAssumption == BufferLimit \in Nat \ {0}

\* No export is what the path showed before.
ASSUME ArtifactAssumption == None \notin Export

\* Calls are told from whoever is no call, and there is a commit to ask for.
ASSUME WorkspaceAssumption == "nobody" \notin GitCall /\ "another" \notin GitCall /\ GitCommit # {}

\* Requests ask for snapshots, and every one of them amounts to an intent.
ASSUME RequestAssumption ==
  /\ \A q \in StartRequested : q.id \in RequestId /\ q.snapshot \in Snapshot /\ Facade!Intent(q) # None
  /\ None \notin RequestId /\ None \notin StartRequested

\* None is no value of a layer or a barrier.
ASSUME BindingAssumption == None \notin {"released", "unconfirmed", "notApplicable"}

\* A route is a sequence of candidates, and None is no reason to stop.
ASSUME RouterAssumption ==
  /\ \A config \in RouterConfig : config.route \in Seq({config.route[i] : i \in DOMAIN config.route})
  /\ None \notin {"aborted", "deadlineExceeded"}

\* None is no exit code and no word of the run.
ASSUME LiveAssumption == None \notin {0, 1} /\ None \notin {"failure", "fair", "early", "quarantine"}

\* A call asks for a number of surfaces and has its criteria in order; None is no outcome.
ASSUME RunnerAssumption ==
  /\ \A calls \in RunCalls : \A r \in DOMAIN calls :
       calls[r].surfaces \in Nat /\ calls[r].criteria \in Seq({calls[r].criteria[i] : i \in DOMAIN calls[r].criteria})
  /\ None \notin {"rejected", "publication", "exit0", "exit1"}

\* A client sends frames one after the other, and requests of known calls; a session has
\* room for its window.
ASSUME HostAssumption ==
  /\ \A frames \in HostScripts :
       /\ frames \in Seq({frames[i] : i \in DOMAIN frames})
       /\ \A i \in DOMAIN frames : frames[i].type = "request" =>
            frames[i].call \in {"launch", "attach", "end", "releaseSession", "find", "act"}
  /\ RootElement \in HostElement /\ HandleLimit \in Nat \ {0}
  /\ None \notin [owner : {"owned", "borrowed"}, registry : Seq([place : HostElement, id : Nat])]
  /\ None \notin [ok : BOOLEAN, outcome : {"none", "executed", "notExecuted", "unknown"}, retry : {"safe", "never"}]

-----------------------------------------------------------------------------
(* The behaviours                                                          *)

\* The variables from the n-th on, which a component has no use for.
NoneFrom17 == v17 = None
NoneFrom16 == v16 = None /\ NoneFrom17
NoneFrom15 == v15 = None /\ NoneFrom16
NoneFrom14 == v14 = None /\ NoneFrom15
NoneFrom13 == v13 = None /\ NoneFrom14
NoneFrom12 == v12 = None /\ NoneFrom13
NoneFrom11 == v11 = None /\ NoneFrom12
NoneFrom10 == v10 = None /\ NoneFrom11
NoneFrom9 == v9 = None /\ NoneFrom10
NoneFrom8 == v8 = None /\ NoneFrom9
NoneFrom7 == v7 = None /\ NoneFrom8
NoneFrom6 == v6 = None /\ NoneFrom7
NoneFrom5 == v5 = None /\ NoneFrom6

Init ==
  \/ picked = "command"      /\ Command!Init      /\ NoneFrom16
  \/ picked = "transport"    /\ Transport!Init
  \/ picked = "fixtures"     /\ Fixtures!Init     /\ NoneFrom7
  \/ picked = "guarded"      /\ Guarded!Init      /\ NoneFrom8
  \/ picked = "evidence"     /\ Graph!Init        /\ NoneFrom6
  \/ picked = "browser"      /\ Browser!Init      /\ NoneFrom10
  \/ picked = "observations" /\ Observations!Init /\ NoneFrom10
  \/ picked = "artifacts"    /\ Artifacts!Init    /\ NoneFrom5
  \/ picked = "workspace"    /\ Workspace!Init    /\ NoneFrom8
  \/ picked = "facade"       /\ Facade!Init       /\ NoneFrom9
  \/ picked = "windows"      /\ Windows!Init      /\ NoneFrom16
  \/ picked = "surface"      /\ Surface!Init      /\ NoneFrom13
  \/ picked = "binding"      /\ Binding!Init      /\ NoneFrom14
  \/ picked = "judge"        /\ Router!Init       /\ NoneFrom16
  \/ picked = "live"         /\ Live!Init         /\ NoneFrom16
  \/ picked = "runner"       /\ Runner!Init       /\ NoneFrom17
  \/ picked = "host"         /\ WinHost!Init      /\ NoneFrom15

Step ==
  \/ picked = "command"      /\ Command!Next      /\ UNCHANGED <<v16, v17>>
  \/ picked = "transport"    /\ Transport!Next
  \/ picked = "fixtures"     /\ Fixtures!Next     /\ UNCHANGED <<v7, v8, v9, v10, v11, v12, v13, v14, v15, v16, v17>>
  \/ picked = "guarded"      /\ Guarded!Next      /\ UNCHANGED <<v8, v9, v10, v11, v12, v13, v14, v15, v16, v17>>
  \/ picked = "evidence"     /\ Graph!Next        /\ UNCHANGED <<v6, v7, v8, v9, v10, v11, v12, v13, v14, v15, v16, v17>>
  \/ picked = "browser"      /\ Browser!Next      /\ UNCHANGED <<v10, v11, v12, v13, v14, v15, v16, v17>>
  \/ picked = "observations" /\ Observations!Next /\ UNCHANGED <<v10, v11, v12, v13, v14, v15, v16, v17>>
  \/ picked = "artifacts"    /\ Artifacts!Next    /\ UNCHANGED <<v5, v6, v7, v8, v9, v10, v11, v12, v13, v14, v15, v16, v17>>
  \/ picked = "workspace"    /\ Workspace!Next    /\ UNCHANGED <<v8, v9, v10, v11, v12, v13, v14, v15, v16, v17>>
  \/ picked = "facade"       /\ Facade!Next       /\ UNCHANGED <<v9, v10, v11, v12, v13, v14, v15, v16, v17>>
  \/ picked = "windows"      /\ Windows!Next      /\ UNCHANGED <<v16, v17>>
  \/ picked = "surface"      /\ Surface!Next      /\ UNCHANGED <<v13, v14, v15, v16, v17>>
  \/ picked = "binding"      /\ Binding!Next      /\ UNCHANGED <<v14, v15, v16, v17>>
  \/ picked = "judge"        /\ Router!Next       /\ UNCHANGED <<v16, v17>>
  \/ picked = "live"         /\ Live!Next         /\ UNCHANGED <<v16, v17>>
  \/ picked = "runner"       /\ Runner!Next       /\ UNCHANGED <<v17>>
  \/ picked = "host"         /\ WinHost!Next      /\ UNCHANGED <<v15, v16, v17>>
Next == Step /\ UNCHANGED picked

Spec == Init /\ [][Next]_allVars
-----------------------------------------------------------------------------
(* Properties: each is its component's                                     *)

\* A result says no more than what is known of the process: confirmed only when it and its
\* descendants are gone, passed or failed only over everything that was written (results.ts).
ResultIsTrue == picked = "command" => Command!ResultIsTrue

\* A native connection keeps true accounts of its bytes, also after a write that timed out,
\* and of its process, and tells the client of its end once (node-child-process-transport.ts).
AccountsAreTrue == picked = "transport" => Transport!AccountIsExact /\ Transport!ReceiptIsTrue
LossIsToldOnce == [][picked = "transport" => Transport!Told]_allVars
ConnectionIsTrue == []AccountsAreTrue /\ LossIsToldOnce

\* A fixture is there while one that is built on it is, in its own runtime or
\* the worker's, whatever fails or closes in between (fixture-runtime.ts,
\* resolve and rollback).
DependentsFirst == picked = "fixtures" => Fixtures!DependentsFirst

\* A refused caller has had nothing done to its element, and what was submitted
\* was submitted once, on an element found unique and attached (guarded-
\* actions.ts, execute).
RefusedIsUntouched == [][picked = "guarded" => Guarded!Untouched]_allVars

\* A relation graph is accepted only with its parents and without a cycle, and
\* called cyclic only if it has one (evidence-context.ts, defineEvidenceGraph).
AcceptedIsFounded == picked = "evidence" => Graph!AcceptedIsFounded

\* An action whose element was found while the session was open is not
\* submitted once the session closes (v3-session-operations.ts,
\* invokeSurfaceAction).
SubmittedOnOpen == [][picked = "browser" => Browser!OnOpen]_allVars

\* A batch is the end of what was emitted while its subscriber observed, each
\* event once, in order (observations.ts, observe and stop).
BatchIsWhole == picked = "observations" => Observations!BatchIsWhole

\* A reader of an export's path sees the previous file or one complete export,
\* until an export that found no descriptor has removed the file of another
\* (artifact.ts, writeSensitiveArtifactFile).
PreviousOrNew == picked = "artifacts" => Artifacts!PreviousOrNew

\* A snapshot that was taken stays as it is, whatever another preparation or
\* provider does (local-git-provider.ts).
SnapshotsStandAlone == [][picked = "workspace" => Workspace!StandAlone]_allVars

\* Whoever was told of a run was told of the one run of its request, and a
\* sensitive test has none that nobody acknowledged (agent-service.ts,
\* startRun).
RequestIsKept == picked = "facade" => Facade!RequestIsKept

\* What a cleanup says of the windows, the session and the host was proved,
\* whatever answers came late (windows-session.ts, cleanup).
CleanupIsTrue == picked = "windows" => Windows!CleanupIsTrue

\* The candidates of a route are asked in turn, the stop reaches them, and a
\* classification is founded on evidence (judge-router.ts, judge).
RouteIsAnswered == picked = "judge" => Router!RouteIsAnswered

\* The evidence of the live run is written for a successor that entered after
\* the release, and the desktop is not given away under the tests (run-live-
\* with-gate.mjs).
LiveRunIsProven == picked = "live" => Live!LiveRunIsProven

\* A run that exits with 0 was earned, and the desktop it gives back is clean
\* (runner-v3.ts, runCaseV3). Two runs never work in directories that meet
\* (runner-v3-paths.ts, claimRunPaths).
RunIsEarned == picked = "runner" => Runner!RunIsEarned

\* What the Windows host answers is what was done, once, to the element that
\* was meant, and its targets are kept (native/windows-host).
HostIsTrue == picked = "host" => WinHost!HostIsTrue

\* A browser that a launch acquired is handed over or is being closed, wherever
\* the abort comes (owned-browser.ts, launchOwnedBrowser). A browser is given
\* back only when there is none and none can come, an acquired one is closed,
\* and a call told to be stopped was not submitted (surfaces/browser-
\* controller.ts, browser.ts, call-context.ts). The desktop is given back when
\* nothing the Case owns is left and no launch or attach can still bring any,
\* and a borrowed application is not ended (native-binding/resources.ts,
\* binding.ts).
SurfacesAreGivenBack ==
  /\ picked = "browser" => Browser!HandedOverOrClosed
  /\ picked = "surface" => Surface!SurfaceIsGivenBack
  /\ picked = "binding" => Binding!ApplicationIsGivenBack
=============================================================================
