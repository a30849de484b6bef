--------------------------- MODULE ReferenceAgent ---------------------------
(***************************************************************************)
(* examples/reference-agent: an agent that asks for approval and then runs  *)
(* one tool, with checkpoints at which its executor can be held or failed,  *)
(* a stop that answers at once with a receipt, a ledger of the tool's calls *)
(* that is closed when the run ends, and the cases of the fault matrix,     *)
(* which judge a run by the ledger and the effects read over HTTP.          *)
(***************************************************************************)
EXTENDS Naturals, FiniteSets, Sequences

CONSTANTS Entry,        \* the cases: decision, fault, checkpoint, stubborn, expected
          MaxControls,  \* bound: checkpoints that a client holds or fails
          None

VARIABLES
  run,      \* the run, with its checkpoints, its task, its ledger and its effects
  closed,   \* the engine is closed
  closing,  \* what close answers
  entry,    \* the case that drives the run, or None: any client does
  pc,       \* where the case is
  seen,     \* the ledger as the case read it
  verdict,
  controls  \* counts against MaxControls

vars == <<run, closed, closing, entry, pc, seen, verdict, controls>>

Faults == {"none", "deny-but-execute", "duplicate-business-effect", "incomplete-ledger",
           "missing-ledger", "truncated-ledger"}
Checkpoint == {"before-submit", "after-submit", "after-effect"}

\* engine.mjs createRun, with a fresh ledger in which the call is requested
NewRun(fault) ==
  [fault |-> fault, decision |-> None, status |-> "awaiting-approval", ended |-> FALSE,
   submitted |-> FALSE, applied |-> FALSE, operation |-> "none", aborted |-> FALSE, receipt |-> None,
   points |-> [c \in Checkpoint |-> [pause |-> FALSE, passed |-> FALSE, failure |-> FALSE,
                                     onCancel |-> TRUE, onClose |-> TRUE]],
   waits |-> None, released |-> None,
   events |-> <<[call |-> "call-1", phase |-> "requested"]>>, boundary |-> None, effects |-> <<>>]

Init == /\ run = None /\ closed = FALSE /\ closing = None
        /\ entry = None /\ pc = "new" /\ seen = None /\ verdict = None /\ controls = 0

-----------------------------------------------------------------------------
(* The ledger                                                               *)

\* ledger.mjs createToolLedger
Log(r, call, phase) == [r EXCEPT !.events = Append(@, [call |-> call, phase |-> phase])]
Finish(r) == IF r.boundary # None \/ r.fault = "incomplete-ledger" THEN r
             ELSE [r EXCEPT !.boundary = Len(r.events)]

Duplicated(r) == r.fault = "duplicate-business-effect"

-----------------------------------------------------------------------------
(* The checkpoints                                                          *)

\* checkpoints.mjs release
Release(r, c) == IF r.waits # c THEN r
                 ELSE [r EXCEPT !.waits = None, !.released = [at |-> c, failed |-> FALSE],
                                !.points[c].pause = FALSE]
\* The signal of the task: a checkpoint that listens to it lets go.
Abort(r) ==
  LET a == [r EXCEPT !.aborted = TRUE]
  IN  IF r.waits # None /\ r.points[r.waits].onCancel THEN Release(a, r.waits) ELSE a

-----------------------------------------------------------------------------
(* The executor runs on until a checkpoint holds it.                        *)

\* executor.mjs finishCancelled, finishCompleted, finishFailed
Ended(r, status) == [r EXCEPT !.status = status, !.ended = TRUE, !.operation = "returned"]
FinishCancelled(r, submitted) ==
  IF submitted THEN Ended(r, "cancelled") ELSE Finish(Ended(r, "cancelled"))
FinishCompleted(r) ==
  Finish(Ended(r, IF r.decision = "approve" THEN "completed" ELSE "denied"))
FinishFailed(r) == IF r.submitted THEN Ended(r, "failed") ELSE Finish(Ended(r, "failed"))

\* checkpoints.mjs arrive
Arrive(r, c, GoOn(_)) ==
  LET passed == [r EXCEPT !.points[c].passed = TRUE]
      waiting == [r EXCEPT !.waits = c]
  IN  CASE r.points[c].failure -> FinishFailed(passed)
        [] ~r.points[c].failure /\ ~r.points[c].pause -> GoOn(passed)
        [] OTHER -> IF r.aborted /\ r.points[c].onCancel THEN Release(waiting, c) ELSE waiting

\* As if the executor did not look for a stop.
Cancelled_Never(r) == FALSE

\* executor.mjs sampledCancellation, with the stop and the closed engine
Cancelled(r) == r.aborted \/ r.receipt # None \/ closed

\* executor.mjs advanceAfterCheckpoint, by its phase
AfterEffect(r) ==
  LET c == Log(r, "call-1", "completed")
  IN  FinishCompleted(IF Duplicated(r) THEN Log(c, "call-2", "completed") ELSE c)
\* As if the stop were not looked for once the call is submitted.
AfterSubmit_Deaf(r) ==
  Arrive([r EXCEPT !.applied = TRUE,
                   !.effects = @ \o (IF Duplicated(r) THEN <<"call-1", "call-2">> ELSE <<"call-1">>)],
         "after-effect", AfterEffect)

AfterSubmit(r) ==
  IF Cancelled(r) THEN FinishCancelled(r, TRUE)
  ELSE Arrive([r EXCEPT !.applied = TRUE,
                        !.effects = @ \o (IF Duplicated(r) THEN <<"call-1", "call-2">> ELSE <<"call-1">>)],
              "after-effect", AfterEffect)
BeforeSubmit(r) ==
  LET s == Log([r EXCEPT !.submitted = TRUE], "call-1", "started")
  IN  IF Cancelled(r) THEN FinishCancelled(r, FALSE)
      ELSE Arrive(IF Duplicated(r) THEN Log(Log(s, "call-2", "requested"), "call-2", "started") ELSE s,
                  "after-submit", AfterSubmit)

\* executor.mjs startAppendNoteOperation: the task runs its callback at once
StartOperation(r) == Arrive([r EXCEPT !.operation = "running"], "before-submit", BeforeSubmit)

Running == run # None /\ run.operation = "running"

\* The executor goes on after a checkpoint that held it.
Continue ==
  /\ Running /\ run.released # None
  /\ LET c == run.released.at
         r == [run EXCEPT !.released = None]
         p == [r EXCEPT !.points[c].passed = TRUE]
     IN  run' = CASE run.released.failed -> FinishFailed(r)
                  [] ~run.released.failed /\ c = "before-submit" -> BeforeSubmit(p)
                  [] ~run.released.failed /\ c = "after-submit" -> AfterSubmit(p)
                  [] OTHER -> AfterEffect(p)
  /\ UNCHANGED <<closed, closing, entry, pc, seen, verdict, controls>>

\* The deadline of the task aborts its signal.
Deadline ==
  /\ Running /\ ~run.aborted /\ run' = Abort(run)
  /\ UNCHANGED <<closed, closing, entry, pc, seen, verdict, controls>>

\* startDeadlineTask: the settlement is recorded a turn after the callback's end.
TaskSettles ==
  /\ run # None /\ run.operation = "returned" /\ run' = [run EXCEPT !.operation = "settled"]
  /\ UNCHANGED <<closed, closing, entry, pc, seen, verdict, controls>>

-----------------------------------------------------------------------------
(* The engine                                                               *)

\* engine.mjs decide
Decided(r, decision) ==
  IF r.decision # None \/ r.receipt # None THEN r
  ELSE IF decision = "approve" \/ r.fault = "deny-but-execute"
    THEN StartOperation([r EXCEPT !.decision = decision,
                                  !.status = IF decision = "approve" THEN "executing" ELSE "denied"])
    ELSE Finish([r EXCEPT !.decision = decision, !.status = "denied", !.ended = TRUE])

Receipt(r) ==
  [outcome |-> IF r.applied THEN "executed" ELSE IF r.submitted THEN "unknown" ELSE "notExecuted",
   submitted |-> r.submitted, effectObserved |-> r.applied,
   settled |-> r.operation \in {"none", "settled"},
   cancellationRequested |-> r.operation # "none" /\ ~r.ended]
StoppedRun(r) ==
  LET s == [r EXCEPT !.receipt = Receipt(r)]
  IN  CASE r.receipt # None -> r
        [] r.receipt = None /\ r.ended -> s
        [] r.receipt = None /\ ~r.ended /\ r.operation = "none" -> Finish([s EXCEPT !.status = "cancelled", !.ended = TRUE])
        [] OTHER -> Abort([s EXCEPT !.status = "stopping"])

\* checkpoints.mjs pause, resume, fail
Paused(r, c, onCancel, onClose) ==
  IF r.points[c].passed THEN r
  ELSE [r EXCEPT !.points[c] = [@ EXCEPT !.pause = TRUE, !.onCancel = onCancel, !.onClose = onClose]]
Resumed(r, c) == [Release(r, c) EXCEPT !.points[c].pause = FALSE]
FailedAt(r, c) ==
  CASE r.points[c].passed -> r
    [] ~r.points[c].passed /\ r.waits = c ->
         [r EXCEPT !.points[c].failure = TRUE, !.waits = None, !.released = [at |-> c, failed |-> TRUE]]
    [] OTHER -> [r EXCEPT !.points[c].failure = TRUE]

\* checkpoints.mjs releaseForClose
ReleaseForClose(r) == IF r.waits # None /\ r.points[r.waits].onClose THEN Release(r, r.waits) ELSE r

\* engine.mjs close
Close ==
  /\ run # None /\ ~closed /\ closed' = TRUE
  /\ run' = ReleaseForClose(IF run.ended THEN run ELSE StoppedRun(run))
  /\ closing' = IF run'.operation \in {"none", "settled"} THEN "confirmed" ELSE "waiting"
CloseEnds ==
  /\ closing = "waiting"
  /\ closing' \in {"unconfirmed"} \cup (IF run.operation = "settled" THEN {"confirmed"} ELSE {})
  /\ UNCHANGED <<run, closed, entry, pc, seen, verdict, controls>>

\* server.mjs: what a client may ask for, with its own checks
Request ==
  /\ pc = "any"
  /\ \/ /\ \/ ~closed /\ \E d \in {"approve", "deny"} : run' = Decided(run, d)
           \/ run' = StoppedRun(run)
           \/ \E c \in Checkpoint : run' = Resumed(run, c)
        /\ UNCHANGED <<closed, closing, controls>>
     \/ /\ ~closed /\ controls < MaxControls /\ controls' = controls + 1
        /\ \E c \in Checkpoint : \/ \E on \in BOOLEAN : run' = Paused(run, c, on, on)
                                \/ run' = FailedAt(run, c)
        /\ UNCHANGED <<closed, closing>>
     \/ Close /\ UNCHANGED controls
  /\ UNCHANGED <<entry, pc, seen, verdict>>

-----------------------------------------------------------------------------
(* What is read over HTTP                                                   *)

\* engine.mjs readLedger
ReadLedger(r) ==
  CASE r.fault = "missing-ledger" -> None
    [] r.fault = "truncated-ledger" -> [events |-> SubSeq(r.events, 1, Len(r.events) - 1), boundary |-> r.boundary]
    [] OTHER -> [events |-> r.events, boundary |-> r.boundary]

\* ledger.mjs inspectToolCalls: a closed interval without a gap, in which every call
\* that started has completed
Phases(events, call) ==
  LET mine == SelectSeq(events, LAMBDA e : e.call = call) IN [i \in DOMAIN mine |-> mine[i].phase]
InspectToolCalls(ledger) ==
  /\ ledger # None /\ ledger.boundary # None /\ ledger.boundary = Len(ledger.events)
  /\ \A i \in DOMAIN ledger.events :
       Phases(ledger.events, ledger.events[i].call) \in {<<"requested">>, <<"requested", "started", "completed">>}

\* adapter/reference-agent-browser.mjs readToolCall
ExecutedOnce(ledger) == InspectToolCalls(ledger) /\ Len(Phases(ledger.events, "call-1")) = 3
NeverExecuted(ledger) == InspectToolCalls(ledger) /\ Len(Phases(ledger.events, "call-1")) = 1
\* readLocalEffects counts only under a complete ledger; readRawLocalEffects always
LocalEffects(ledger, count) == InspectToolCalls(ledger) /\ Len(run.effects) = count
RawLocalEffects(count) == Len(run.effects) = count

-----------------------------------------------------------------------------
(* The cases                                                                *)

\* fault-matrix/cases.mjs createFaultMatrixCase: the run is created and held at the
\* checkpoint of the entry before the browser opens it
CreateRun ==
  /\ pc = "new"
  /\ \/ \E f \in Faults : run' = NewRun(f) /\ entry' = None /\ pc' = "any"
     \/ \E e \in Entry : /\ entry' = e /\ pc' = "clicked"
                         /\ run' = IF e.checkpoint = None THEN NewRun(e.fault)
                                   ELSE Paused(NewRun(e.fault), e.checkpoint, ~e.stubborn, ~e.stubborn)
  /\ UNCHANGED <<closed, closing, seen, verdict, controls>>

Go(from, to) == pc = from /\ pc' = to

\* The decision that the browser clicked arrives.
Decide ==
  /\ Go("clicked", IF entry.checkpoint = None THEN "terminal" ELSE "reaching")
  /\ run' = Decided(run, entry.decision)
  /\ UNCHANGED <<closed, closing, entry, seen, verdict, controls>>

\* fault-matrix/assertions.mjs waitForCheckpoint, and the stop, or the end of a case
\* whose cleanup is to fail
StopAtCheckpoint ==
  /\ run # None /\ run.waits # None /\ Go("reaching", IF entry.stubborn THEN "cleanup" ELSE "settling")
  /\ run' = IF entry.stubborn THEN run ELSE StoppedRun(run)
  /\ UNCHANGED <<closed, closing, entry, seen, verdict, controls>>

\* The work is settled; a run held before its submission is resumed and stopped again.
Settled ==
  /\ Go("settling", "terminal") /\ run.operation = "settled"
  /\ run' = IF entry.checkpoint = "before-submit" THEN StoppedRun(Resumed(run, entry.checkpoint)) ELSE run
  /\ UNCHANGED <<closed, closing, entry, seen, verdict, controls>>

\* fault-matrix/cases.mjs terminalStatus
Terminal ==
  /\ Go("terminal", "reading")
  /\ run.status = CASE entry.decision = "deny" -> "denied"
                    [] entry.decision = "approve" /\ entry.checkpoint \in {"before-submit", "after-submit"} -> "cancelled"
                    [] OTHER -> "completed"
  /\ UNCHANGED <<run, closed, closing, entry, seen, verdict, controls>>
Read ==
  /\ Go("reading", "judging") /\ seen' = ReadLedger(run)
  /\ UNCHANGED <<run, closed, closing, entry, verdict, controls>>

\* fault-matrix/cases.mjs stopCriteria, normalCriteria, and the two cases of approval-cases.mjs
StopCriteria ==
  CASE entry.checkpoint = "before-submit" -> /\ run.receipt.outcome = "notExecuted" /\ NeverExecuted(seen)
                                             /\ LocalEffects(seen, 0) /\ RawLocalEffects(0)
    [] entry.checkpoint = "after-submit" -> /\ run.receipt.outcome # "unknown" /\ ExecutedOnce(seen)
                                            /\ LocalEffects(seen, 0)
    [] OTHER -> run.receipt.outcome = "executed" /\ ExecutedOnce(seen) /\ LocalEffects(seen, 1)
\* As if the effects themselves were not counted.
NormalCriteria_Ledger ==
  IF entry.decision = "deny" THEN NeverExecuted(seen) /\ LocalEffects(seen, 0) ELSE ExecutedOnce(seen)

NormalCriteria ==
  CASE entry.decision = "deny" -> NeverExecuted(seen) /\ LocalEffects(seen, 0)
    [] entry.decision = "approve" /\ entry.fault \in {"none", "duplicate-business-effect"} ->
         ExecutedOnce(seen) /\ LocalEffects(seen, 1)
    [] OTHER -> RawLocalEffects(1) /\ ExecutedOnce(seen)
Judge ==
  /\ Go("judging", "done")
  /\ verdict' = IF IF entry.checkpoint = None THEN NormalCriteria ELSE StopCriteria THEN "passed" ELSE "failed"
  /\ UNCHANGED <<run, closed, closing, entry, seen, controls>>

\* fault-matrix/cases.mjs registerRunWork: cleanup stops the run and waits a moment;
\* then the engine is closed
Cleanup ==
  /\ Go("cleanup", "closing") /\ run' = StoppedRun(run)
  /\ UNCHANGED <<closed, closing, entry, seen, verdict, controls>>
CleanupEnds ==
  /\ Go("closing", "done") /\ verdict' = IF run.operation = "settled" THEN "passed" ELSE "failed"
  /\ Close /\ UNCHANGED <<entry, seen, controls>>

\* A wait of the case runs out.
TimesOut ==
  /\ pc \in {"reaching", "settling", "terminal", "reading", "judging"} /\ pc' = "done" /\ verdict' = "failed"
  /\ UNCHANGED <<run, closed, closing, entry, seen, controls>>

\* fault-matrix/cases.mjs recoverLateWork, and the end of the engine after every case
Recover ==
  /\ Go("done", "over") /\ run' = IF entry.checkpoint = None THEN run ELSE Resumed(run, entry.checkpoint)
  /\ UNCHANGED <<closed, closing, entry, seen, verdict, controls>>

Next == \/ CreateRun \/ Continue \/ Deadline \/ TaskSettles \/ CloseEnds \/ Request \/ Decide
        \/ StopAtCheckpoint \/ Settled \/ Terminal \/ Read \/ Judge \/ Cleanup \/ CleanupEnds
        \/ TimesOut \/ Recover
Spec == Init /\ [][Next]_vars

-----------------------------------------------------------------------------
(* Properties                                                               *)

\* What a stop says of the effect stays true for ever, though the executor is at work
\* when it answers; a run that is denied does nothing unless that is its fault.
StopIsHonest ==
  /\ run.receipt # None => /\ run.receipt.effectObserved = (run.effects # <<>>)
                           /\ run.receipt.outcome = "notExecuted" => run.effects = <<>>
  /\ run.decision = "deny" /\ run.fault # "deny-but-execute" => run.effects = <<>>
\* A ledger that can be counted has as many completed calls as there are effects, and
\* nothing is written after its end; a ledger with a fault is not counted.
LedgerIsHonest ==
  /\ run.boundary \in {None, Len(run.events)}
  /\ InspectToolCalls(ReadLedger(run)) =>
       /\ Cardinality({i \in DOMAIN run.events : run.events[i].phase = "completed"}) = Len(run.effects)
       /\ run.ended /\ run.fault \notin {"missing-ledger", "incomplete-ledger"}
\* A close that is confirmed leaves nothing at work.
CloseIsHonest == closing = "confirmed" => run.operation \in {"none", "settled"} /\ run.ended
\* No case of the matrix passes over the fault it is there to find.
FaultsAreFound == verdict = "passed" => entry.expected = "passed"

AgentIsHonest == run # None => StopIsHonest /\ LedgerIsHonest /\ CloseIsHonest /\ FaultsAreFound
=============================================================================
