---------------------------- MODULE CaseExecution ----------------------------
(***************************************************************************)
(* packages/test executeCaseKernel: one Case under one DeadlineTask.  Its  *)
(* fixtures are set up, its body runs, what the body started is drained,   *)
(* its resources are cleaned up in reverse order, and a report is given    *)
(* when the task is over or can no longer be waited for.                   *)
(*                                                                         *)
(* The code of a Case is not under control: its promises may be ignored,   *)
(* and detached code may call its context at any time.                     *)
(*                                                                         *)
(* The task comes first (startDeadlineTask, TaskSpec): a callback that     *)
(* cannot be preempted, bounded by a deadline, an external signal, a       *)
(* caller's cancel and a clock that may fail.  Its operators map a task to *)
(* the task after a synchronous call, so that calls compose as in the code.*)
(***************************************************************************)
EXTENDS Integers, Sequences

CONSTANTS Grace,   \* whether a cancelled callback is granted time to stop
          None

ASSUME GraceAssumption == Grace \in BOOLEAN

VARIABLES task,    \* what startDeadlineTask closes over
          clock,   \* the monotonic clock: good, past the deadline, or broken
          running  \* the callback is at work

taskVars == <<task, clock, running>>

Cause == {"deadline", "clockFailed", "external", "requested"}
Settlement == {"notStarted", "fulfilled", "rejected"}
Outcome == [status : {"settled", "timedOut", "clockFailed", "cancelled"},
            stop : {"unconfirmed", "notStarted", "cooperativeStopped", "settled"}]

ASSUME NoneAssumption == None \notin Cause \cup Settlement \cup Outcome

TaskType == [started : BOOLEAN, settling : BOOLEAN, acknowledged : BOOLEAN,
             clockFailure : BOOLEAN, cancellation : Cause \cup {None},
             settlement : Settlement \cup {None}, outcome : Outcome \cup {None},
             armed : {"none", "deadline", "grace"}]

TaskTypeOK == /\ task \in TaskType
              /\ clock \in {"good", "past", "broken"}
              /\ running \in BOOLEAN

Fresh == [started |-> FALSE, settling |-> FALSE, acknowledged |-> FALSE,
          clockFailure |-> FALSE, cancellation |-> None, settlement |-> None,
          outcome |-> None, armed |-> "none"]
-----------------------------------------------------------------------------
(* The calls                                                               *)

StatusOf(t) == CASE t.cancellation = None -> "settled"
                 [] t.cancellation = "deadline" -> "timedOut"
                 [] t.cancellation = "clockFailed" -> "clockFailed"
                 [] OTHER -> "cancelled"

StopOf(t) == CASE t.settlement = None -> "unconfirmed"
               [] t.settlement = "notStarted" -> "notStarted"
               [] OTHER -> IF t.cancellation # None /\ t.acknowledged THEN "cooperativeStopped" ELSE "settled"

\* finish: the outcome is told once.
Finished(t) == IF t.outcome # None THEN t
               ELSE [t EXCEPT !.armed = "none",
                              !.outcome = [status |-> StatusOf(t), stop |-> StopOf(t)]]

\* Mutant: a later cause replaces the first.
Requested_LastWins(t, cause) ==
  IF t.settlement # None THEN t ELSE [t EXCEPT !.cancellation = cause, !.armed = "grace"]

\* requestCancellation; arming the grace timer reads the clock.
Requested(t, cause) ==
  LET c == [t EXCEPT !.cancellation = cause, !.armed = "none"] IN
  CASE t.cancellation # None \/ t.settlement # None -> t
    [] OTHER ->
       CASE ~c.started -> Finished([c EXCEPT !.settlement = "notStarted"])
         [] c.started /\ c.settling -> c
         [] c.started /\ ~c.settling /\ (~Grace \/ c.clockFailure) -> Finished(c)
         [] c.started /\ ~c.settling /\ Grace /\ ~c.clockFailure ->
              IF clock = "broken" THEN Finished([c EXCEPT !.clockFailure = TRUE])
                                  ELSE [c EXCEPT !.armed = "grace"]

\* clockFailed: there is no grace a broken clock could measure.
ClockFailed(t) ==
  LET c == Requested([t EXCEPT !.clockFailure = TRUE], "clockFailed") IN
  IF c.settling THEN c ELSE Finished(c)

Sampled(t) == IF clock = "broken" THEN ClockFailed(t) ELSE t

\* remainingMs, also of throwIfCancelled.
Remaining(t) == IF clock = "past" THEN Requested(t, "deadline") ELSE Sampled(t)

\* throwIfCancelled throws: the signal's reason, or a failure of the clock.
Throws(t) == clock = "broken" \/ Remaining(t).cancellation # None

\* Mutant: the settlement is not compared with the deadline.
Completed_Unmeasured(t, how) ==
  IF t.settlement # None THEN t ELSE Finished([t EXCEPT !.settlement = how])

\* complete: a settlement counts when it is observed before the deadline.
Completed(t, how) ==
  IF t.settlement # None THEN t
  ELSE Finished([Remaining([t EXCEPT !.settling = TRUE])
                   EXCEPT !.settlement = how, !.settling = FALSE])

Acknowledged(t) ==
  IF t.cancellation = None \/ t.settlement # None THEN t ELSE [t EXCEPT !.acknowledged = TRUE]

\* What startDeadlineTask has done when it comes to start the callback.
Begun(aborted) ==
  CASE aborted -> Requested(Sampled(Fresh), "external")
    [] ~aborted /\ clock = "good" -> [Fresh EXCEPT !.armed = "deadline"]
    [] ~aborted /\ clock # "good" -> Remaining(Fresh)
-----------------------------------------------------------------------------
(* What happens to a task                                                  *)

\* Time passes; a provider's clock stops, or goes backwards.
Expire == /\ clock = "good"
          /\ clock' = "past"
          /\ UNCHANGED <<task, running>>

Break == /\ clock # "broken"
         /\ clock' = "broken"
         /\ UNCHANGED <<task, running>>

\* Mutant: a failing clock is ignored by its timer.
DeadlineFires_NoFailure == /\ task.armed = "deadline"
                           /\ clock = "past"
                           /\ task' = Remaining(task)
                           /\ UNCHANGED <<clock, running>>

DeadlineFires == /\ task.armed = "deadline"
                 /\ clock # "good"
                 /\ task' = Remaining(task)
                 /\ UNCHANGED <<clock, running>>

GraceFires == /\ task.armed = "grace"
              /\ task' = IF clock = "broken" THEN ClockFailed(task) ELSE Finished(task)
              /\ UNCHANGED <<clock, running>>

\* The signal's listener is removed with the first cancellation and at the end.
ExternalAbort == /\ task.started
                 /\ task.cancellation = None /\ task.outcome = None
                 /\ task' = Requested(Sampled(task), "external")
                 /\ UNCHANGED <<clock, running>>

Cancel == /\ task.started
          /\ task.cancellation = None /\ task.settlement = None
          /\ task' = Requested(Sampled(task), "requested")
          /\ UNCHANGED <<clock, running>>

Acknowledge == /\ running
               /\ Acknowledged(task) # task
               /\ task' = Acknowledged(task)
               /\ UNCHANGED <<clock, running>>

Measure == /\ task.started
           /\ Remaining(task) # task
           /\ task' = Remaining(task)
           /\ UNCHANGED <<clock, running>>

CallbackEnds(how) == /\ running
                     /\ running' = FALSE
                     /\ task' = Completed(task, how)
                     /\ clock' = clock

TaskInit == \E aborted \in BOOLEAN :
              /\ clock \in {"good", "past", "broken"}
              /\ LET t == Begun(aborted) IN
                   /\ task = [t EXCEPT !.started = t.cancellation = None]
                   /\ running = (t.cancellation = None)

TaskNext == \/ Expire \/ Break
            \/ DeadlineFires \/ GraceFires \/ ExternalAbort \/ Cancel
            \/ Acknowledge \/ Measure
            \/ \E how \in {"fulfilled", "rejected"} : CallbackEnds(how)

TaskSpec == TaskInit /\ [][TaskNext]_taskVars

-----------------------------------------------------------------------------
(* Properties                                                              *)

\* A task that counts as stopped has stopped: a caller who goes on does not race
\* a callback at work.
StopIsConfirmed ==
  task.outcome # None /\ task.outcome.stop # "unconfirmed" => ~running

\* A task that settles at or past its deadline, or on a broken clock, does not
\* count as settled in time.
NeverSettledLate ==
  [][task.settlement = None /\ task'.settlement \in {"fulfilled", "rejected"} /\ clock # "good"
       => task'.outcome.status # "settled"]_taskVars

\* The first cause of a cancellation stays the one that is reported, and what the
\* caller was told stays what the record says.
FirstCauseWins ==
  [][/\ task.cancellation # None => task'.cancellation = task.cancellation
     /\ task.outcome # None => /\ task'.outcome = task.outcome
                               /\ task'.cancellation = task.cancellation]_taskVars

\* What a task settled stands: a completion past the deadline is none, and neither the
\* outcome nor the first cause of its cancellation changes (deadline.ts).
TaskStands == NeverSettledLate /\ FirstCauseWins
-----------------------------------------------------------------------------
(* The case                                                                *)

CONSTANTS Work,      \* steps, criteria and dispatches of the Case
          Resource,  \* what the Case registers
          Fixtures   \* the fixture runtimes, registered by the kernel

ASSUME FixturesAssumption == Fixtures \notin Resource

VARIABLES
  pc,         \* where the producer is
  accepting,  \* the context accepts work
  recording,  \* the recorder is open
  work,       \* work[w]: not started, pending as its kind, or over
  covered,    \* the acceptance criterion is verified
  failure,    \* the origin of the recorded failure
  scope,      \* the ResourceScope: state, order, outcomes, tainted
  calling,    \* the cleanup callback of the resource being cleaned up has begun
  held,       \* registered resources the world still holds for the Case
  cleanup,    \* cleanupResult
  report      \* what executeCaseWithRunnerContext returns

producer == <<pc, accepting>>
recorder == <<recording, work, covered, failure>>
resources == <<scope, calling, held, cleanup>>
vars == <<task, clock, running, producer, recorder, resources, report>>

Kind == {"step", "criterion", "dispatch"}
Origin == {"business", "infrastructure"}
Owner == Resource \cup {Fixtures}
CleanupOutcome == {"borrowed", "released", "failed", "unconfirmed"}
Reports == [status : {"passed", "failed", "timedOut"}, origin : Origin \cup {None}, ready : BOOLEAN]

ASSUME NoneIsNoRecord == None \notin Origin \cup Reports \cup {"passed", "failed"}

TypeOK ==
  /\ TaskTypeOK
  /\ pc \in {"start", "enter", "fixture", "body", "drainDispatches", "drainSteps",
             "drainAgain", "cleanup", "returned", "threw", "over"}
  /\ accepting \in BOOLEAN
  /\ recording \in BOOLEAN
  /\ work \in [Work -> {"new", "over"} \cup Kind]
  /\ covered \in BOOLEAN
  /\ failure \in Origin \cup {None}
  /\ scope.state \in {"none", "open", "closing", "closed"}
  /\ scope.tainted \in BOOLEAN
  /\ Len(scope.outcomes) <= Len(scope.order)
  /\ \A i \in DOMAIN scope.order : scope.order[i].id \in Owner
  /\ \A i \in DOMAIN scope.outcomes : scope.outcomes[i] \in CleanupOutcome
  /\ calling \in BOOLEAN
  /\ held \subseteq Owner
  /\ cleanup \in {None, "passed", "failed"}
  /\ report \in Reports \cup {None}

Init == /\ task = Fresh
        /\ clock = "good"
        /\ running = FALSE
        /\ pc = "start"
        /\ accepting = FALSE
        /\ recording = TRUE
        /\ work = [w \in Work |-> "new"]
        /\ covered = FALSE
        /\ failure = None
        /\ scope = [state |-> "none", order |-> <<>>, outcomes |-> <<>>, tainted |-> FALSE]
        /\ calling = FALSE
        /\ held = {}
        /\ cleanup = None
        /\ report = None
-----------------------------------------------------------------------------
Pending(kinds) == {w \in Work : work[w] \in kinds}
Registered == {scope.order[i].id : i \in DOMAIN scope.order}

\* Mutant: the first failure names the origin.
Merged_FirstWins(f, origin) == IF f = None THEN origin ELSE f

\* mergeFailureOrigins: infrastructure outweighs business.
Merged(f, origin) == IF "infrastructure" \in {f, origin} THEN "infrastructure" ELSE "business"

\* A thrown error is recorded unless it is the reason of the cancellation, which
\* the clock's own failure never is.
FailureOfCheck == IF clock = "broken" THEN Merged(failure, "infrastructure") ELSE failure

\* registerResource, and acquiring what it stands for.
Owned(id) == [id |-> id, owned |-> TRUE]
-----------------------------------------------------------------------------
(* The producer                                                            *)

\* startDeadlineTask, with a signal that may be aborted already.
Start == /\ pc = "start"
         /\ \E aborted \in BOOLEAN :
              LET t == Begun(aborted)
                  begins == t.cancellation = None
              IN /\ task' = [t EXCEPT !.started = begins]
                 /\ running' = begins
                 /\ pc' = IF begins THEN "enter" ELSE "over"
         /\ UNCHANGED <<clock, accepting, recorder, resources, report>>

\* The callback up to its first await: the scope takes its deadline from the
\* task, the fixture runtimes are registered, and the first check is passed or not.
Enter == /\ pc = "enter"
         /\ task' = Remaining(task)
         /\ IF clock = "broken"
            THEN pc' = "threw" /\ UNCHANGED <<accepting, scope, held>>
            ELSE /\ pc' = IF Throws(task) THEN "drainDispatches" ELSE "fixture"
                 /\ accepting' = TRUE
                 /\ scope' = [scope EXCEPT !.state = "open", !.order = <<Owned(Fixtures)>>]
                 /\ held' = {Fixtures}
         /\ UNCHANGED <<clock, running, recorder, calling, cleanup, report>>

\* A fixture is set up, or fails, and the deadline is checked before the body.
FixtureSettles(ok) ==
  /\ pc = "fixture"
  /\ IF ok THEN /\ task' = Remaining(task)
                /\ failure' = FailureOfCheck
                /\ pc' = IF Throws(task) THEN "drainDispatches" ELSE "body"
           ELSE /\ failure' = Merged(failure, "infrastructure")
                /\ pc' = "drainDispatches"
                /\ task' = task
  /\ UNCHANGED <<clock, running, accepting, recording, work, covered, resources, report>>

\* The body returns, rethrows what is recorded already or the reason of the
\* cancellation, or throws an error of its own.
BodyEnds == /\ pc = "body"
            /\ pc' = "drainDispatches"
            /\ failure' \in {failure, Merged(failure, "infrastructure")}
            /\ UNCHANGED <<task, clock, running, accepting, recording, work, covered, resources, report>>

DispatchesDrained == /\ pc = "drainDispatches"
                     /\ Pending({"dispatch"}) = {}
                     /\ pc' = "drainSteps"
                     /\ UNCHANGED <<task, clock, running, accepting, recorder, resources, report>>

\* recorder.drain closes the recorder when no step is pending.
StepsDrained == /\ pc = "drainSteps"
                /\ Pending({"step", "criterion"}) = {}
                /\ recording' = FALSE
                /\ pc' = "drainAgain"
                /\ UNCHANGED <<task, clock, running, accepting, work, covered, failure, resources, report>>

Closing == /\ accepting' = FALSE
           /\ scope' = [scope EXCEPT !.state = "closing"]
           /\ pc' = "cleanup"

\* Mutant: what a pending step dispatched is not waited for.
Drained_Once == /\ pc = "drainAgain"
                /\ task' = Remaining(task)
                /\ failure' = IF Throws(task) THEN FailureOfCheck
                              ELSE IF failure = None /\ ~covered THEN "infrastructure" ELSE failure
                /\ Closing
                /\ UNCHANGED <<clock, running, recording, work, covered, calling, held, cleanup, report>>

\* The second drain of dispatches, checkCoverage unless cancelled, and close.
Drained == /\ pc = "drainAgain"
           /\ Pending({"dispatch"}) = {}
           /\ task' = Remaining(task)
           /\ failure' = IF Throws(task) THEN FailureOfCheck
                         ELSE IF failure = None /\ ~covered THEN "infrastructure" ELSE failure
           /\ Closing
           /\ UNCHANGED <<clock, running, recording, work, covered, calling, held, cleanup, report>>

\* The resource whose turn it is, in reverse order of registration.
Next1 == scope.order[Len(scope.order) - Len(scope.outcomes)]
Cleaning == scope.state = "closing" /\ Len(scope.outcomes) < Len(scope.order)

BorrowedIsLeft == /\ Cleaning
                  /\ ~Next1.owned
                  /\ scope' = [scope EXCEPT !.outcomes = Append(@, "borrowed")]
                  /\ UNCHANGED <<task, clock, running, producer, recorder, calling, held, cleanup, report>>

CleanupBegins == /\ Cleaning
                 /\ Next1.owned /\ ~calling
                 /\ calling' = TRUE
                 /\ UNCHANGED <<task, clock, running, producer, recorder, scope, held, cleanup, report>>

\* Mutant: a receipt that does not come is not a failure.
CleanupEnds_Lenient(outcome) ==
  /\ calling
  /\ calling' = FALSE
  /\ scope' = [scope EXCEPT !.outcomes = Append(@, outcome),
                            !.tainted = @ \/ outcome = "failed"]
  /\ held' = IF outcome = "released" THEN held \ {Next1.id} ELSE held
  /\ UNCHANGED <<task, clock, running, producer, recorder, cleanup, report>>

\* cleanupResource: a receipt in time, a rejection, an unconfirmed or late receipt.
CleanupEnds(outcome) ==
  /\ calling
  /\ calling' = FALSE
  /\ scope' = [scope EXCEPT !.outcomes = Append(@, outcome),
                            !.tainted = @ \/ outcome # "released"]
  /\ held' = IF outcome = "released" THEN held \ {Next1.id} ELSE held
  /\ UNCHANGED <<task, clock, running, producer, recorder, cleanup, report>>

\* drain is over: its snapshot is the cleanupResult.
ScopeCloses == /\ scope.state = "closing"
               /\ Len(scope.outcomes) = Len(scope.order)
               /\ scope' = [scope EXCEPT !.state = "closed"]
               /\ cleanup' = IF scope.tainted THEN "failed" ELSE "passed"
               /\ pc' = "returned"
               /\ UNCHANGED <<task, clock, running, accepting, recorder, calling, held, report>>

CallbackSettles ==
  /\ pc \in {"returned", "threw"}
  /\ running' = FALSE
  /\ task' = Completed(task, IF pc = "returned" THEN "fulfilled" ELSE "rejected")
  /\ pc' = "over"
  /\ UNCHANGED <<clock, accepting, recorder, resources, report>>
-----------------------------------------------------------------------------
(* The code of the Case                                                    *)

\* step, criterion and dispatch begin if the context and the recorder accept.
Begins(w, kind) == /\ accepting /\ recording
                   /\ work[w] = "new"
                   /\ work' = [work EXCEPT ![w] = kind]
                   /\ UNCHANGED <<task, clock, running, producer, recording, covered, failure, resources, report>>

Passes(w) == /\ work[w] \in Kind
             /\ work' = [work EXCEPT ![w] = "over"]
             /\ covered' = (covered \/ work[w] = "criterion")
             /\ UNCHANGED <<task, clock, running, producer, recording, failure, resources, report>>

\* Only a criterion fails for the product's sake.
Fails(w, origin) ==
  /\ work[w] \in Kind
  /\ origin = "business" => work[w] = "criterion"
  /\ work' = [work EXCEPT ![w] = "over"]
  /\ failure' = Merged(failure, origin)
  /\ UNCHANGED <<task, clock, running, producer, recording, covered, resources, report>>

\* registerResource while accepting; a duplicate taints the scope.
Registers(x, owned) ==
  /\ accepting /\ recording
  /\ scope.state = "open"
  /\ IF x \in Registered
     THEN scope' = [scope EXCEPT !.tainted = TRUE] /\ held' = held
     ELSE /\ scope' = [scope EXCEPT !.order = Append(@, [id |-> x, owned |-> owned])]
          /\ held' = IF owned THEN held \cup {x} ELSE held
  /\ UNCHANGED <<task, clock, running, producer, recorder, calling, cleanup, report>>

\* registerResource once the scope is closing: rejected, and never forgotten.
RegistersLate == /\ ~accepting
                 /\ scope.state \in {"closing", "closed"}
                 /\ scope' = [scope EXCEPT !.tainted = TRUE]
                 /\ UNCHANGED <<task, clock, running, producer, recorder, calling, held, cleanup, report>>

ContextAcknowledges == /\ accepting /\ recording
                       /\ task' = Acknowledged(task)
                       /\ UNCHANGED <<clock, running, producer, recorder, resources, report>>

ContextMeasures == /\ accepting /\ recording
                   /\ task' = Remaining(task)
                   /\ UNCHANGED <<clock, running, producer, recorder, resources, report>>
-----------------------------------------------------------------------------
(* The report                                                              *)

WorkerState == CASE task.settlement = None -> "unconfirmed"
                 [] task.settlement = "notStarted" -> "notStarted"
                 [] OTHER -> IF task.acknowledged /\ task.cancellation # None
                             THEN "cooperativeStopped" ELSE "settled"

\* What the lifecycle and the cleanup add to the recorded failure.
FinalFailure == IF task.cancellation # None \/ cleanup = "failed"
                THEN Merged(failure, "infrastructure") ELSE failure

\* Mutant: a result is publishable when the caller's wait is over.
Ready_Outcome == task.outcome # None

\* publicationReady: the producer has settled and its scope is closed.
Ready == /\ WorkerState \in {"settled", "cooperativeStopped"}
         /\ scope.state = "closed"

\* The kernel goes on when the outcome is told.
Report == /\ task.outcome # None
          /\ report = None
          /\ accepting' = FALSE
          /\ failure' = FinalFailure
          /\ report' = [status |-> IF task.cancellation = "deadline" THEN "timedOut"
                                   ELSE IF FinalFailure = None THEN "passed" ELSE "failed",
                        origin |-> FinalFailure,
                        ready |-> Ready]
          /\ UNCHANGED <<task, clock, running, pc, recording, work, covered, resources>>
-----------------------------------------------------------------------------
\* The clock and the signals, while no turn of the producer is half done.
Surroundings == /\ \/ Expire \/ Break
                   \/ pc \notin {"start", "enter"} /\ (DeadlineFires \/ GraceFires \/ ExternalAbort)
                /\ UNCHANGED <<producer, recorder, resources, report>>

Producer == \/ Start \/ Enter
            \/ DispatchesDrained \/ StepsDrained \/ Drained
            \/ BorrowedIsLeft \/ CleanupBegins \/ ScopeCloses \/ CallbackSettles

Next == \/ Surroundings
        \/ Producer
        \/ \E ok \in BOOLEAN : FixtureSettles(ok)
        \/ BodyEnds
        \/ \E outcome \in {"released", "failed", "unconfirmed"} : CleanupEnds(outcome)
        \/ \E w \in Work :
             \/ \E kind \in Kind : Begins(w, kind)
             \/ Passes(w)
             \/ \E origin \in Origin : Fails(w, origin)
        \/ \E x \in Resource, owned \in BOOLEAN : Registers(x, owned)
        \/ RegistersLate \/ ContextAcknowledges \/ ContextMeasures
        \/ Report

Spec == Init /\ [][Next]_vars

\* Timers and turns are delivered, and a cleanup receipt is waited for no longer
\* than its timeout.  Nothing makes a fixture, a body, a step or a dispatch end.
FairSpec == /\ Spec
            /\ WF_vars(Expire /\ UNCHANGED <<producer, recorder, resources, report>>)
            /\ WF_vars(DeadlineFires /\ UNCHANGED <<producer, recorder, resources, report>>)
            /\ WF_vars(GraceFires /\ UNCHANGED <<producer, recorder, resources, report>>)
            /\ WF_vars(Producer)
            /\ WF_vars(CleanupEnds("unconfirmed"))
            /\ WF_vars(Report)
-----------------------------------------------------------------------------
(* Properties                                                              *)

\* A Case that passes has verified its criterion, has nothing at work, and has
\* given everything back.
PassedIsDone ==
  report # None /\ report.status = "passed" =>
    covered /\ Pending(Kind) = {} /\ held = {} /\ ~running

\* No resource is cleaned up while something the Case started may use it.
NoCleanupUnderWork ==
  scope.state \in {"closing", "closed"} => Pending(Kind) = {}

\* A verdict about the product needs a run that was itself in order.
BusinessIsPure ==
  report # None /\ report.origin = "business" =>
    /\ task.outcome.status = "settled"
    /\ cleanup = "passed"
    /\ held = {}

\* A report that says passed, or that the product failed, is honest: everything was done and
\* nothing else was out of order (execute.ts, failure-origin.ts).
ReportIsHonest == PassedIsDone /\ BusinessIsPure

\* A Case keeps its order: cleanup has the Case to itself, and the report is honest
\* about what came before it (execute.ts, resources.ts).
CaseIsInOrder == ReportIsHonest /\ NoCleanupUnderWork

\* After a publishable result nothing of the Case goes on; a late registration
\* may taint the scope and changes no record.
ReadyIsFinal ==
  [][report # None /\ report.ready =>
       /\ UNCHANGED <<work, covered, failure, recording, pc, calling, held, cleanup>>
       /\ scope'.outcomes = scope.outcomes]_vars

\* After any report nothing new begins and nothing new is registered.
NothingBeginsAfterReport ==
  [][report # None =>
       /\ \A w \in Work : work[w] = "new" => work'[w] = "new"
       /\ scope.state # "none" => scope'.order = scope.order]_vars

\* A report comes, whatever the code of the Case does.
ReportComes == <>(report # None)

\* A cleanup that has begun ends, whatever its callbacks do.
CleanupCloses == (scope.state = "closing") ~> (scope.state = "closed")
=============================================================================
