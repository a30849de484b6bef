------------------------- MODULE CaseExecutionProofs -------------------------
(***************************************************************************)
(* Safety of one deadline task, whatever its callback, caller and clock    *)
(* do, and of one Case on top of it, for any number of pieces of work and  *)
(* of resources and with or without a cancellation grace.                  *)
(***************************************************************************)
EXTENDS CaseExecution, SequenceTheorems, TLAPS

\* What an outcome says of the task it was told of, and goes on saying.
Sound(t) ==
  /\ t \in TaskType
  /\ t.armed = "grace" => t.cancellation # None
  /\ t.outcome # None => /\ t.armed = "none"
                         /\ t.cancellation = None => t.settlement # None
                         /\ t.outcome.stop # "unconfirmed" => t.settlement # None
                         /\ t.outcome.status = "settled" => t.settlement # None
                         /\ t.cancellation = None => t.outcome.status = "settled"

\* A task between two turns: its settlement, if any, has been told.
Settled(t) == /\ Sound(t)
              /\ ~t.settling
              /\ t.settlement # None => t.outcome # None

\* What a synchronous call may do to a task it does not settle.
Moves(t, u) ==
  /\ u.started = t.started /\ u.settling = t.settling
  /\ u.settlement = t.settlement
  /\ t.cancellation # None => u.cancellation = t.cancellation
  /\ t.outcome # None => u.outcome = t.outcome /\ u.cancellation = t.cancellation

\* The inductive invariant of a task on its own.
TaskInv == /\ TaskTypeOK
           /\ Settled(task)
           /\ running => task.started /\ task.settlement = None
           /\ ~task.started => task.settlement # None

ScopeType == [state : {"none", "open", "closing", "closed"},
              order : Seq([id : Owner, owned : BOOLEAN]),
              outcomes : Seq(CleanupOutcome), tainted : BOOLEAN]

\* Where the producer is and what its task knows of it.
TaskFits ==
  /\ Settled(task)
  /\ pc = "start" => task = Fresh /\ ~running
  /\ pc = "over" => ~running /\ task.settlement # None
  /\ pc \notin {"start", "over"} => running /\ task.started /\ task.settlement = None
  /\ pc = "enter" => task.outcome = None
  /\ pc = "threw" => task.cancellation # None
  /\ pc = "over" /\ scope.state # "closed" => task.cancellation # None

\* Whatever is held and not known to be lost has its cleanup still to come.
HeldIsRegistered ==
  ~scope.tainted =>
    \A x \in held : \E i \in 1..(Len(scope.order) - Len(scope.outcomes)) :
                       scope.order[i].id = x /\ scope.order[i].owned

\* How far the scope is when the producer is where it is.
ScopeFits ==
  /\ scope \in ScopeType
  /\ HeldIsRegistered
  /\ pc \in {"start", "enter", "threw"} => scope.state = "none"
  /\ pc \in {"fixture", "body", "drainDispatches", "drainSteps", "drainAgain"} => scope.state = "open"
  /\ pc = "cleanup" => scope.state = "closing"
  /\ pc = "returned" => scope.state = "closed"
  /\ pc = "over" => scope.state \in {"none", "closed"}
  /\ scope.state \in {"none", "open"} => scope.outcomes = <<>>
  /\ scope.state = "none" => held = {} /\ scope.order = <<>>
  /\ calling => scope.state = "closing" /\ Len(scope.outcomes) < Len(scope.order) /\ Next1.owned
  /\ scope.state # "closed" => cleanup = None
  /\ scope.state = "closed" => cleanup \in {"passed", "failed"}
  /\ cleanup = "passed" => held = {}

\* Who still accepts, and what is over when the cleanup begins.
WorkFits ==
  /\ accepting => scope.state = "open"
  /\ ~recording => Pending({"step", "criterion"}) = {}
  /\ pc = "drainAgain" => ~recording
  /\ scope.state \in {"closing", "closed"} =>
       (task.cancellation = None /\ failure = None => covered)

\* What stays true of a report.
ReportFits ==
  report # None =>
    /\ task.outcome # None
    /\ ~accepting
    /\ report.ready => pc = "over" /\ scope.state = "closed"
    /\ report.status = "passed" => covered /\ held = {} /\ pc = "over" /\ scope.state = "closed"
    /\ report.origin = "business" => /\ task.outcome.status = "settled"
                                     /\ cleanup = "passed" /\ held = {}
                                     /\ pc = "over" /\ scope.state = "closed"

IInv == /\ TypeOK
        /\ TaskFits
        /\ ScopeFits
        /\ WorkFits
        /\ NoCleanupUnderWork
        /\ ReportFits
-----------------------------------------------------------------------------
(* The calls on a task                                                     *)

LEMMA NoneIsNone ==
  None \notin Cause /\ None \notin Settlement /\ None \notin Outcome
BY NoneAssumption

LEMMA FinishedIsSound ==
  ASSUME NEW t, Sound(t), t.cancellation # None \/ t.settlement # None
  PROVE  /\ Sound(Finished(t)) /\ Finished(t).outcome # None
         /\ Moves(t, Finished(t))
         /\ Finished(t).acknowledged = t.acknowledged
         /\ t.cancellation = Finished(t).cancellation
<1>1. CASE t.outcome # None
  BY <1>1 DEF Finished, Sound, Moves
<1>2. CASE t.outcome = None
  <2> DEFINE o == [status |-> StatusOf(t), stop |-> StopOf(t)]
             u == [t EXCEPT !.armed = "none", !.outcome = o]
  <2>1. t \in TaskType /\ Finished(t) = u
    BY <1>2 DEF Finished, Sound
  <2>2. StatusOf(t) \in {"settled", "timedOut", "clockFailed", "cancelled"}
    BY DEF StatusOf
  <2>3. StopOf(t) \in {"unconfirmed", "notStarted", "cooperativeStopped", "settled"}
    BY DEF StopOf
  <2>4. o \in Outcome
    BY <2>2, <2>3 DEF Outcome
  <2>5. u \in TaskType /\ u.outcome = o /\ u.settlement = t.settlement
        /\ u.cancellation = t.cancellation /\ u.started = t.started /\ u.armed = "none"
        /\ u.settling = t.settling /\ u.acknowledged = t.acknowledged
    BY <2>1, <2>4 DEF TaskType
  <2>6. o # None
    BY <2>4, NoneIsNone
  <2>7. o.stop # "unconfirmed" => t.settlement # None
    <3>1. StopOf(t) # "unconfirmed" => t.settlement # None
      BY NoneIsNone DEF StopOf, Settlement
    <3> QED BY <3>1
  <2>8. o.status = "settled" => t.cancellation = None
    BY <2>1, NoneIsNone DEF StatusOf, TaskType, Cause
  <2>9. t.cancellation = None => o.status = "settled"
    <3>1. t.cancellation = None => StatusOf(t) = "settled"
      BY NoneIsNone DEF StatusOf, Cause
    <3> QED BY <3>1
  <2> HIDE DEF o, u
  <2> QED BY <1>2, <2>1, <2>5, <2>6, <2>7, <2>8, <2>9 DEF Sound, Moves
<1> QED BY <1>1, <1>2

\* A task at work is cancelled; it counts as over only when no grace is given.
LEMMA RequestedIsSound ==
  ASSUME NEW t, NEW cause \in Cause, Sound(t), t.started
  PROVE  /\ Sound(Requested(t, cause)) /\ Moves(t, Requested(t, cause))
         /\ t.settlement = None => Requested(t, cause).cancellation # None
<1> DEFINE c == [t EXCEPT !.cancellation = cause, !.armed = "none"]
           b == [c EXCEPT !.clockFailure = TRUE]
           g == [c EXCEPT !.armed = "grace"]
           u == Requested(t, cause)
<1>1. CASE t.cancellation # None \/ t.settlement # None
  <2>1. u = t
    BY <1>1 DEF Requested
  <2> HIDE DEF u
  <2> QED BY <1>1, <2>1 DEF Moves, u
<1>2. CASE t.cancellation = None /\ t.settlement = None
  <2>1. t \in TaskType /\ t.outcome = None
    BY <1>2 DEF Sound
  <2>2. /\ c \in TaskType /\ c.armed = "none" /\ c.cancellation = cause /\ c.settlement = None /\ c.outcome = None
        /\ c.started = t.started /\ c.settling = t.settling /\ c.clockFailure = t.clockFailure
    BY <1>2, <2>1 DEF TaskType
  <2>3. /\ b \in TaskType /\ b.armed = "none" /\ b.cancellation = cause /\ b.settlement = None /\ b.outcome = None
        /\ b.started = t.started /\ b.settling = t.settling
    BY <2>2 DEF TaskType
  <2>4. /\ g \in TaskType /\ g.cancellation = cause /\ g.settlement = None /\ g.outcome = None
        /\ g.started = t.started /\ g.settling = t.settling
    BY <2>2 DEF TaskType
  <2>5. cause # None
    BY NoneIsNone
  <2>6. Sound(c) /\ Sound(b) /\ Sound(g)
    BY <2>2, <2>3, <2>4, <2>5 DEF Sound
  <2>7. u \in {c, Finished(c), Finished(b), g}
    BY <1>2, <2>2 DEF Requested
  <2> HIDE DEF c, b, g, u
  <2>8. /\ Sound(Finished(c)) /\ Moves(c, Finished(c)) /\ Finished(c).cancellation = cause
        /\ Sound(Finished(b)) /\ Moves(b, Finished(b)) /\ Finished(b).cancellation = cause
    BY <2>2, <2>3, <2>5, <2>6, FinishedIsSound
  <2>9. Sound(u) /\ u.cancellation = cause
    BY <2>2, <2>4, <2>6, <2>7, <2>8
  <2>10. u.started = t.started /\ u.settling = t.settling /\ u.settlement = None
    BY <2>2, <2>3, <2>4, <2>7, <2>8 DEF Moves
  <2> QED BY <1>2, <2>1, <2>5, <2>9, <2>10 DEF Moves, u
<1> QED BY <1>1, <1>2

LEMMA ClockFailedIsSound ==
  ASSUME NEW t, Sound(t), t.started
  PROVE  /\ Sound(ClockFailed(t)) /\ Moves(t, ClockFailed(t))
         /\ t.settlement = None => ClockFailed(t).cancellation # None
<1> DEFINE b == [t EXCEPT !.clockFailure = TRUE]
           c == Requested(b, "clockFailed")
<1>1. /\ b \in TaskType /\ b.armed = t.armed /\ b.started = t.started /\ b.settling = t.settling
      /\ b.settlement = t.settlement /\ b.cancellation = t.cancellation /\ b.outcome = t.outcome
  BY DEF Sound, TaskType
<1>2. Sound(b)
  BY <1>1 DEF Sound
<1> HIDE DEF b
<1>3. /\ Sound(c) /\ Moves(b, c)
      /\ t.settlement = None => c.cancellation # None
  BY <1>1, <1>2, RequestedIsSound DEF Cause
<1>4. ClockFailed(t) = IF c.settling THEN c ELSE Finished(c)
  BY DEF ClockFailed, b
<1> HIDE DEF c
<1>5. c.settlement = t.settlement
  BY <1>1, <1>3 DEF Moves
<1>6. Sound(Finished(c)) /\ Moves(c, Finished(c))
  BY <1>3, <1>5, FinishedIsSound
<1>7. CASE c.settling
  BY <1>1, <1>3, <1>4, <1>7 DEF Moves
<1>8. CASE ~c.settling
  BY <1>1, <1>3, <1>4, <1>5, <1>6, <1>8 DEF Moves
<1> QED BY <1>7, <1>8

LEMMA RemainingIsSound ==
  ASSUME NEW t, Sound(t), t.started
  PROVE  /\ Sound(Sampled(t)) /\ Moves(t, Sampled(t))
         /\ Sound(Remaining(t)) /\ Moves(t, Remaining(t))
         /\ t.settlement = None /\ clock \in {"past", "broken"} => Remaining(t).cancellation # None
<1>1. Moves(t, t)
  BY DEF Moves
<1>2. /\ Sound(ClockFailed(t)) /\ Moves(t, ClockFailed(t))
      /\ t.settlement = None => ClockFailed(t).cancellation # None
  BY ClockFailedIsSound
<1>3. /\ Sound(Requested(t, "deadline")) /\ Moves(t, Requested(t, "deadline"))
      /\ t.settlement = None => Requested(t, "deadline").cancellation # None
  BY RequestedIsSound DEF Cause
<1> QED BY <1>1, <1>2, <1>3 DEF Sampled, Remaining

\* A task between two turns stays one.
LEMMA MovesSettled ==
  ASSUME NEW t, NEW u, Settled(t), Sound(u), Moves(t, u)
  PROVE  Settled(u)
BY DEF Settled, Sound, Moves

\* The settlement of a callback: what was told stays told, what is told now is
\* told of a task that no clock has failed.
LEMMA CompletedIsSettled ==
  ASSUME NEW t, NEW how \in {"fulfilled", "rejected"}, Settled(t), t.started, t.settlement = None
  PROVE  /\ Settled(Completed(t, how))
         /\ Completed(t, how).settlement = how /\ Completed(t, how).started
         /\ t.cancellation # None => Completed(t, how).cancellation = t.cancellation
         /\ t.outcome # None => /\ Completed(t, how).outcome = t.outcome
                                /\ Completed(t, how).cancellation = t.cancellation
         /\ clock \in {"past", "broken"} => Completed(t, how).outcome.status # "settled"
         /\ Completed(t, how).outcome # None
<1> DEFINE s == [t EXCEPT !.settling = TRUE]
           m == Remaining(s)
           d == [m EXCEPT !.settlement = how, !.settling = FALSE]
           u == Completed(t, how)
<1>1. /\ s \in TaskType /\ s.armed = t.armed /\ s.started = t.started /\ s.settlement = t.settlement
      /\ s.cancellation = t.cancellation /\ s.outcome = t.outcome
  BY DEF Settled, Sound, TaskType
<1>2. Sound(s)
  BY <1>1 DEF Settled, Sound
<1>3. u = Finished(d)
  BY DEF Completed
<1> HIDE DEF s, u
<1>4. /\ Sound(m) /\ Moves(s, m)
      /\ clock \in {"past", "broken"} => m.cancellation # None
  BY <1>1, <1>2, RemainingIsSound
<1> HIDE DEF m
<1>5. how # None /\ how \in Settlement
  BY NoneIsNone DEF Settlement
<1>6. /\ d \in TaskType /\ d.armed = m.armed /\ d.started = m.started /\ d.settlement = how /\ d.settling = FALSE
      /\ d.cancellation = m.cancellation /\ d.outcome = m.outcome
  BY <1>4, <1>5 DEF Sound, TaskType
<1>7. Sound(d)
  BY <1>4, <1>5, <1>6 DEF Sound
<1>8. m.outcome # None => m.outcome.status # "settled"
  BY <1>1, <1>4 DEF Sound, Moves
<1> HIDE DEF d
<1>9. /\ Sound(u) /\ u.outcome # None /\ Moves(d, u) /\ u.cancellation = d.cancellation
  BY <1>3, <1>5, <1>6, <1>7, FinishedIsSound
<1>10. Settled(u) /\ u.settlement = how /\ u.started
  BY <1>1, <1>4, <1>6, <1>9 DEF Settled, Moves
<1>11. /\ t.cancellation # None => u.cancellation = t.cancellation
       /\ t.outcome # None => u.outcome = t.outcome /\ u.cancellation = t.cancellation
  BY <1>1, <1>4, <1>6, <1>9 DEF Moves
<1>12. ASSUME clock \in {"past", "broken"} PROVE u.outcome.status # "settled"
  <2>1. CASE m.outcome # None
    BY <1>6, <1>8, <1>9, <2>1 DEF Moves
  <2>2. CASE m.outcome = None
    <3>1. d.outcome = None /\ d.cancellation # None /\ d.cancellation \in Cause
      BY <1>4, <1>6, <1>12, <2>2 DEF TaskType
    <3>2. u = [d EXCEPT !.armed = "none", !.outcome = [status |-> StatusOf(d), stop |-> StopOf(d)]]
      BY <1>3, <3>1 DEF Finished
    <3>3. u.outcome.status = StatusOf(d)
      BY <1>6, <3>2 DEF TaskType
    <3> QED BY <3>1, <3>3 DEF StatusOf, Cause
  <2> QED BY <2>1, <2>2
<1> QED BY <1>9, <1>10, <1>11, <1>12 DEF u

LEMMA AcknowledgedIsSettled ==
  ASSUME NEW t, Settled(t)
  PROVE  Settled(Acknowledged(t)) /\ Moves(t, Acknowledged(t))
BY DEF Acknowledged, Settled, Sound, Moves, TaskType

\* A task that is cancelled before it begins is over before its callback could run.
LEMMA NeverBegun ==
  ASSUME NEW t, NEW cause \in Cause, Sound(t), ~t.started, ~t.settling,
         t.cancellation = None, t.settlement = None
  PROVE  /\ Settled(Requested(t, cause))
         /\ Requested(t, cause).outcome # None /\ Requested(t, cause).settlement # None
         /\ Requested(t, cause).cancellation = cause
         /\ Requested(t, cause).started = FALSE
<1> DEFINE c == [[t EXCEPT !.cancellation = cause, !.armed = "none"] EXCEPT !.settlement = "notStarted"]
           u == Requested(t, cause)
<1>1. u = Finished(c)
  BY DEF Requested, Sound, TaskType
<1>2. /\ c \in TaskType /\ c.armed = "none" /\ c.started = FALSE /\ c.settling = FALSE
      /\ c.settlement = "notStarted" /\ c.cancellation = cause /\ c.outcome = None
  BY DEF Sound, TaskType, Settlement
<1>3. cause # None /\ "notStarted" # None
  BY NoneIsNone DEF Settlement
<1>4. Sound(c)
  BY <1>2 DEF Sound
<1> HIDE DEF c, u
<1>5. Sound(u) /\ u.outcome # None /\ Moves(c, u)
  BY <1>1, <1>3, <1>2, <1>4, FinishedIsSound
<1>6. u.cancellation = cause
  BY <1>1, <1>2, <1>3, <1>4, FinishedIsSound
<1>7. u.started = FALSE /\ u.settling = FALSE /\ u.settlement = "notStarted"
  BY <1>2, <1>5 DEF Moves
<1>8. Settled(u)
  BY <1>5, <1>7 DEF Settled
<1> QED BY <1>3, <1>5, <1>6, <1>7, <1>8 DEF u

LEMMA FreshIsSettled ==
  /\ Settled(Fresh) /\ ~Fresh.started /\ Fresh.cancellation = None
  /\ Fresh.settlement = None /\ Fresh.outcome = None
BY DEF Fresh, Settled, Sound, TaskType

\* What startDeadlineTask returns: a task at work, or one that is over.
LEMMA BegunIsSettled ==
  ASSUME NEW aborted \in BOOLEAN, clock \in {"good", "past", "broken"},
         NEW t, t = Begun(aborted), NEW u, u = [t EXCEPT !.started = (t.cancellation = None)]
  PROVE  /\ Settled(u)
         /\ t.cancellation = None => u.outcome = None /\ u.settlement = None
         /\ t.cancellation # None => u.outcome # None /\ u.settlement # None
         /\ u.started = (t.cancellation = None) /\ u.cancellation = t.cancellation
<1> DEFINE a == [Fresh EXCEPT !.armed = "deadline"]
           b == [Fresh EXCEPT !.clockFailure = TRUE]
           Over(v) == /\ Settled(v) /\ v.outcome # None /\ v.settlement # None
                      /\ v.cancellation # None /\ v.started = FALSE
<1>1. /\ Settled(Fresh) /\ Sound(Fresh) /\ ~Fresh.settling /\ ~Fresh.started
      /\ Fresh.cancellation = None /\ Fresh.settlement = None
  BY FreshIsSettled DEF Settled
<1>2. /\ Settled(a) /\ a.cancellation = None /\ a.outcome = None /\ a.settlement = None
  BY DEF Fresh, Settled, Sound, TaskType
<1>3. /\ Sound(b) /\ ~b.settling /\ ~b.started /\ b.cancellation = None /\ b.settlement = None
  BY DEF Fresh, Sound, TaskType
<1>4. \A cause \in Cause : cause # None
  BY NoneIsNone
<1>5. Over(Requested(Fresh, "deadline")) /\ Over(Requested(Fresh, "external"))
  BY <1>1, <1>4, NeverBegun DEF Cause
<1>6. Over(Requested(b, "clockFailed"))
  BY <1>3, <1>4, NeverBegun DEF Cause
<1>7. Over(ClockFailed(Fresh))
  <2> DEFINE c == Requested(b, "clockFailed")
  <2>1. ClockFailed(Fresh) = IF c.settling THEN c ELSE Finished(c)
    BY DEF ClockFailed
  <2>2. Finished(c) = c
    BY <1>6 DEF Finished
  <2> HIDE DEF c
  <2> QED BY <1>6, <2>1, <2>2 DEF c
<1>8. ASSUME Over(ClockFailed(Fresh)) PROVE Requested(ClockFailed(Fresh), "external") = ClockFailed(Fresh)
  BY <1>8 DEF Requested
<1>9. t = a \/ Over(t)
  <2> HIDE DEF a, b, Over
  <2>1. CASE aborted
    BY <2>1, <1>5, <1>7, <1>8 DEF Begun, Sampled
  <2>2. CASE ~aborted
    BY <2>2, <1>5, <1>7 DEF Begun, Remaining, Sampled, a
  <2> QED BY <2>1, <2>2
<1>10. CASE t = a
  <2>1. /\ u \in TaskType /\ u.armed = "deadline" /\ u.cancellation = None /\ u.outcome = None /\ u.settlement = None
        /\ u.started = TRUE /\ u.settling = FALSE
    BY <1>2, <1>10 DEF Settled, Sound, TaskType
  <2> HIDE DEF a
  <2> QED BY <1>2, <1>10, <2>1 DEF Settled, Sound
<1>11. CASE Over(t)
  <2>1. t \in TaskType /\ (t.cancellation = None) = FALSE /\ t.started = FALSE
    BY <1>11 DEF Settled, Sound
  <2>2. u = t
    BY <2>1 DEF TaskType
  <2> QED BY <1>11, <2>1, <2>2
<1> QED BY <1>9, <1>10, <1>11
-----------------------------------------------------------------------------
(* One task on its own                                                     *)

LEMMA TaskInitEstablishes == TaskInit => TaskInv
<1> SUFFICES ASSUME TaskInit PROVE TaskInv
  OBVIOUS
<1>1. PICK aborted \in BOOLEAN :
        LET t == Begun(aborted) IN
          /\ task = [t EXCEPT !.started = t.cancellation = None]
          /\ running = (t.cancellation = None)
  BY DEF TaskInit
<1>2. clock \in {"good", "past", "broken"}
  BY DEF TaskInit
<1> DEFINE t == Begun(aborted)
<1>3. task = [t EXCEPT !.started = (t.cancellation = None)] /\ running = (t.cancellation = None)
  BY <1>1
<1>4. /\ Settled(task)
      /\ t.cancellation = None => task.outcome = None /\ task.settlement = None
      /\ t.cancellation # None => task.outcome # None /\ task.settlement # None
      /\ task.started = (t.cancellation = None) /\ task.cancellation = t.cancellation
  BY <1>2, <1>3, BegunIsSettled
<1> HIDE DEF t
<1> QED BY <1>2, <1>3, <1>4 DEF TaskInv, TaskTypeOK, Settled, Sound

\* What a step does to the task: it goes from one settled record to another and
\* neither undoes a cancellation nor an outcome.
Advances(t, u) ==
  /\ Settled(u) /\ u.started = t.started
  /\ t.settlement # None => u.settlement = t.settlement
  /\ t.cancellation # None => u.cancellation = t.cancellation
  /\ t.outcome # None => u.outcome = t.outcome /\ u.cancellation = t.cancellation

LEMMA MovesAdvance ==
  ASSUME NEW t, NEW u, Settled(t), Sound(u), Moves(t, u)
  PROVE  Advances(t, u) /\ u.settlement = t.settlement
BY MovesSettled DEF Advances, Moves

\* What the clock, the timers, the signal and the calls of the context do.
LEMMA TimerAdvances ==
  ASSUME Settled(task), task.started,
         DeadlineFires \/ GraceFires \/ ExternalAbort \/ Cancel \/ Acknowledge \/ Measure
  PROVE  Advances(task, task') /\ task'.settlement = task.settlement
<1>1. Sound(task)
  BY DEF Settled
<1>2. /\ Sound(Sampled(task)) /\ Moves(task, Sampled(task))
      /\ Sound(Remaining(task)) /\ Moves(task, Remaining(task))
  BY <1>1, RemainingIsSound
<1>3. CASE DeadlineFires \/ Measure
  BY <1>2, <1>3, MovesAdvance DEF DeadlineFires, Measure
<1>4. CASE ExternalAbort \/ Cancel
  <2>1. PICK cause \in Cause : task' = Requested(Sampled(task), cause)
    BY <1>4 DEF ExternalAbort, Cancel, Cause
  <2>2. Sampled(task).started
    BY <1>2 DEF Moves
  <2>3. Sound(task') /\ Moves(Sampled(task), task')
    BY <1>2, <2>1, <2>2, RequestedIsSound
  <2>4. Moves(task, task')
    BY <1>2, <2>3 DEF Moves
  <2> QED BY <2>3, <2>4, MovesAdvance
<1>5. CASE Acknowledge
  BY <1>5, AcknowledgedIsSettled, MovesAdvance DEF Acknowledge, Settled
<1>6. CASE GraceFires
  <2>1. CASE clock = "broken"
    BY <1>1, <1>6, <2>1, ClockFailedIsSound, MovesAdvance DEF GraceFires
  <2>2. CASE clock # "broken"
    <3>1. task' = Finished(task)
      BY <1>6, <2>2 DEF GraceFires
    <3>2. task.cancellation # None \/ task.settlement # None
      BY <1>6 DEF GraceFires, Settled, Sound
    <3> QED BY <1>1, <3>1, <3>2, FinishedIsSound, MovesAdvance
  <2> QED BY <2>1, <2>2
<1> QED BY <1>3, <1>4, <1>5, <1>6

LEMMA CallbackAdvances ==
  ASSUME TaskInv, NEW how \in {"fulfilled", "rejected"}, CallbackEnds(how)
  PROVE  /\ Advances(task, task') /\ task'.settlement = how /\ task'.outcome # None
         /\ clock # "good" => task'.outcome.status # "settled"
<1>1. Settled(task) /\ task.started /\ task.settlement = None /\ clock \in {"good", "past", "broken"}
  BY DEF TaskInv, TaskTypeOK, CallbackEnds
<1>2. task' = Completed(task, how)
  BY DEF CallbackEnds
<1> QED BY <1>1, <1>2, CompletedIsSettled DEF Advances

LEMMA TaskStep ==
  ASSUME TaskInv, [TaskNext]_taskVars
  PROVE  TaskInv' /\ Advances(task, task')
<1> USE DEF TaskInv, TaskTypeOK
<1>1. CASE UNCHANGED taskVars
  BY <1>1 DEF taskVars, Advances, Settled, Sound
<1>2. CASE Expire \/ Break
  BY <1>2 DEF Expire, Break, Advances, Settled, Sound
<1>3. CASE DeadlineFires \/ GraceFires \/ ExternalAbort \/ Cancel \/ Acknowledge \/ Measure
  <2>1. task.started
    <3>1. ~task.started => task.settlement # None /\ task.armed = "none"
      BY DEF Settled, Sound
    <3>2. running => task.started
      OBVIOUS
    <3> QED BY <1>3, <3>1, <3>2 DEF DeadlineFires, GraceFires, ExternalAbort, Cancel, Acknowledge, Measure
  <2>2. Advances(task, task') /\ task'.settlement = task.settlement
    BY <1>3, <2>1, TimerAdvances
  <2>3. clock' = clock /\ running' = running
    BY <1>3 DEF DeadlineFires, GraceFires, ExternalAbort, Cancel, Acknowledge, Measure
  <2> QED BY <2>1, <2>2, <2>3 DEF Advances, Settled, Sound
<1>4. CASE \E how \in {"fulfilled", "rejected"} : CallbackEnds(how)
  <2>1. PICK how \in {"fulfilled", "rejected"} : CallbackEnds(how)
    BY <1>4
  <2>2. Advances(task, task') /\ task'.settlement = how
    BY <2>1, CallbackAdvances
  <2>3. clock' = clock /\ running' = FALSE /\ how # None
    BY <2>1, NoneIsNone DEF CallbackEnds, Settlement
  <2> QED BY <2>2, <2>3 DEF Advances, Settled, Sound
<1> QED BY <1>1, <1>2, <1>3, <1>4 DEF TaskNext

LEMMA TaskInvariant == TaskSpec => []TaskInv
<1>1. TaskInv /\ [TaskNext]_taskVars => TaskInv'
  BY TaskStep
<1> QED BY TaskInitEstablishes, <1>1, PTL DEF TaskSpec

\* Who is told that a callback has stopped is told the truth, under every clock
\* and every caller (startDeadlineTask's stopStatus).
THEOREM StopIsTrue == TaskSpec => []StopIsConfirmed
<1>1. TaskInv => StopIsConfirmed
  BY DEF TaskInv, StopIsConfirmed, Settled, Sound
<1> QED BY TaskInvariant, <1>1, PTL

\* A cancellation and an outcome are told once and for all (requestCancellation,
\* finish).
THEOREM FirstCauseIsKept == TaskSpec => FirstCauseWins
<1>1. TaskInv /\ [TaskNext]_taskVars =>
        [/\ task.cancellation # None => task'.cancellation = task.cancellation
         /\ task.outcome # None => /\ task'.outcome = task.outcome
                                   /\ task'.cancellation = task.cancellation]_taskVars
  BY TaskStep DEF Advances
<1> QED BY TaskInvariant, <1>1, PTL DEF TaskSpec, FirstCauseWins

\* A callback that settles at its deadline, later, or while no clock can tell,
\* has not settled in time (complete).
THEOREM LateIsNotInTime == TaskSpec => NeverSettledLate
<1>1. ASSUME TaskInv, [TaskNext]_taskVars
      PROVE  [task.settlement = None /\ task'.settlement \in {"fulfilled", "rejected"} /\ clock # "good"
                => task'.outcome.status # "settled"]_taskVars
  <2>1. CASE UNCHANGED taskVars
    BY <2>1
  <2>2. CASE \E how \in {"fulfilled", "rejected"} : CallbackEnds(how)
    BY <1>1, <2>2, CallbackAdvances
  <2>3. CASE Expire \/ Break
    BY <2>3, NoneIsNone DEF Expire, Break, Settlement
  <2>4. CASE DeadlineFires \/ GraceFires \/ ExternalAbort \/ Cancel \/ Acknowledge \/ Measure
    <3>1. ~task.started => task.settlement # None
      BY <1>1 DEF TaskInv
    <3>2. CASE task.started
      <4>1. task'.settlement = task.settlement
        BY <1>1, <2>4, <3>2, TimerAdvances DEF TaskInv
      <4> QED BY <4>1, NoneIsNone DEF Settlement
    <3> QED BY <3>1, <3>2
  <2> QED BY <1>1, <2>1, <2>2, <2>3, <2>4 DEF TaskNext
<1> QED BY TaskInvariant, <1>1, PTL DEF TaskSpec, NeverSettledLate
-----------------------------------------------------------------------------
(* A Case                                                                  *)

Places == {"start", "enter", "fixture", "body", "drainDispatches", "drainSteps",
           "drainAgain", "cleanup", "returned", "threw", "over"}

LEMMA NoneIsNoValue ==
  /\ \A o \in Origin : o # None
  /\ \A r \in Reports : r # None
  /\ "passed" # None /\ "failed" # None
BY NoneIsNoRecord

LEMMA MergedIsAnOrigin == \A f, o : Merged(f, o) \in Origin
BY DEF Merged, Origin

\* How work that is still at work is told apart.
LEMMA PendingParts ==
  /\ Pending(Kind) = {} => Pending({"dispatch"}) = {} /\ Pending({"step", "criterion"}) = {}
  /\ Pending({"dispatch"}) = {} /\ Pending({"step", "criterion"}) = {} => Pending(Kind) = {}
BY DEF Pending, Kind

LEMMA CaseInitEstablishes == Init => IInv
<1> SUFFICES ASSUME Init PROVE IInv
  OBVIOUS
<1> USE DEF Init
<1>1. Settled(task) /\ task.started = FALSE /\ task.outcome = None
  BY FreshIsSettled
<1>2. scope \in ScopeType /\ scope.state = "none" /\ scope.order = <<>> /\ scope.outcomes = <<>>
  BY DEF ScopeType
<1>3. TypeOK
  <2>1. TaskTypeOK
    BY <1>1 DEF TaskTypeOK, Settled, Sound
  <2>2. /\ DOMAIN scope.order = {} /\ DOMAIN scope.outcomes = {}
        /\ Len(scope.outcomes) <= Len(scope.order)
        /\ scope.state = "none" /\ scope.tainted = FALSE
    OBVIOUS
  <2>3. work \in [Work -> {"new", "over"} \cup Kind]
    OBVIOUS
  <2> QED BY <2>1, <2>2, <2>3 DEF TypeOK
<1>4. TaskFits
  BY <1>1 DEF TaskFits
<1>5. ScopeFits
  BY <1>2 DEF ScopeFits, HeldIsRegistered
<1>6. WorkFits /\ NoCleanupUnderWork /\ ReportFits
  BY <1>2 DEF WorkFits, NoCleanupUnderWork, ReportFits
<1> QED BY <1>3, <1>4, <1>5, <1>6 DEF IInv

\* A step that leaves everything but the task and the clock, while a callback is
\* at work, keeps the invariant.
LEMMA TaskAdvancesPreserves ==
  ASSUME IInv, Advances(task, task'), task'.settlement = task.settlement,
         clock' \in {"good", "past", "broken"}, running' = running,
         pc \in Places \ {"start", "enter", "over"} \/ task' = task,
         UNCHANGED <<producer, recorder, resources, report>>
  PROVE  IInv'
<1> USE DEF IInv, producer, recorder, resources
<1>1. TypeOK'
  BY DEF TypeOK, TaskTypeOK, Advances, Settled, Sound
<1>2. TaskFits'
  BY DEF TaskFits, Advances, Places
<1>3. ScopeFits'
  BY DEF ScopeFits, HeldIsRegistered, Next1
<1>4. WorkFits' /\ NoCleanupUnderWork'
  BY DEF WorkFits, NoCleanupUnderWork, Pending, Advances
<1>5. ReportFits'
  BY DEF ReportFits, Advances
<1> QED BY <1>1, <1>2, <1>3, <1>4, <1>5

LEMMA SurroundingsPreserve ==
  ASSUME IInv, Surroundings
  PROVE  IInv'
<1>1. CASE Expire \/ Break
  <2>1. Advances(task, task') /\ task' = task
    BY <1>1 DEF Expire, Break, Advances, IInv, TaskFits
  <2> QED BY <1>1, <2>1, TaskAdvancesPreserves DEF Expire, Break, Surroundings
<1>2. CASE pc \notin {"start", "enter"} /\ (DeadlineFires \/ GraceFires \/ ExternalAbort)
  <2>1. pc # "over"
    BY <1>2 DEF IInv, TaskFits, Settled, Sound, DeadlineFires, GraceFires, ExternalAbort
  <2>2. pc \in Places \ {"start", "enter", "over"}
    BY <1>2, <2>1 DEF IInv, TypeOK, Places
  <2>3. Settled(task) /\ task.started
    BY <2>2 DEF IInv, TaskFits, Places
  <2>4. Advances(task, task') /\ task'.settlement = task.settlement
    BY <1>2, <2>3, TimerAdvances
  <2>5. clock' \in {"good", "past", "broken"} /\ running' = running
    BY <1>2 DEF DeadlineFires, GraceFires, ExternalAbort, IInv, TypeOK, TaskTypeOK
  <2> QED BY <1>2, <2>2, <2>4, <2>5, TaskAdvancesPreserves DEF Surroundings
<1> QED BY <1>1, <1>2 DEF Surroundings

\* Whoever calls the context while it accepts has the producer at work.
LEMMA AcceptingIsAtWork ==
  ASSUME IInv, accepting
  PROVE  /\ pc \in {"fixture", "body", "drainDispatches", "drainSteps", "drainAgain"}
         /\ scope.state = "open"
         /\ Settled(task) /\ task.started /\ task.settlement = None
BY DEF IInv, TypeOK, TaskFits, ScopeFits, WorkFits

LEMMA ContextAcknowledgesPreserves ==
  ASSUME IInv, ContextAcknowledges
  PROVE  IInv'
<1>1. pc \in Places \ {"start", "enter", "over"} /\ Settled(task)
  BY AcceptingIsAtWork DEF ContextAcknowledges, Places
<1>2. Advances(task, task') /\ task'.settlement = task.settlement
  BY <1>1, AcknowledgedIsSettled, MovesAdvance DEF ContextAcknowledges, Settled
<1>3. clock' \in {"good", "past", "broken"} /\ running' = running
      /\ UNCHANGED <<producer, recorder, resources, report>>
  BY DEF ContextAcknowledges, IInv, TypeOK, TaskTypeOK
<1> QED BY <1>1, <1>2, <1>3, TaskAdvancesPreserves

LEMMA ContextMeasuresPreserves ==
  ASSUME IInv, ContextMeasures
  PROVE  IInv'
<1>1. pc \in Places \ {"start", "enter", "over"} /\ Settled(task) /\ task.started
  BY AcceptingIsAtWork DEF ContextMeasures, Places
<1>2. Advances(task, task') /\ task'.settlement = task.settlement
  BY <1>1, RemainingIsSound, MovesAdvance DEF ContextMeasures, Settled
<1>3. clock' \in {"good", "past", "broken"} /\ running' = running
      /\ UNCHANGED <<producer, recorder, resources, report>>
  BY DEF ContextMeasures, IInv, TypeOK, TaskTypeOK
<1> QED BY <1>1, <1>2, <1>3, TaskAdvancesPreserves
-----------------------------------------------------------------------------
(* The steps of the producer                                               *)

LEMMA StartPreserves ==
  ASSUME IInv, Start
  PROVE  IInv'
<1> USE DEF IInv, recorder, resources
<1>1. PICK aborted \in BOOLEAN :
        LET t == Begun(aborted)
            begins == t.cancellation = None
        IN /\ task' = [t EXCEPT !.started = begins]
           /\ running' = begins
           /\ pc' = IF begins THEN "enter" ELSE "over"
  BY DEF Start
<1> DEFINE t == Begun(aborted)
<1>2. /\ task' = [t EXCEPT !.started = (t.cancellation = None)]
      /\ running' = (t.cancellation = None)
      /\ pc' = IF t.cancellation = None THEN "enter" ELSE "over"
  BY <1>1
<1>3. clock \in {"good", "past", "broken"}
  BY DEF TypeOK, TaskTypeOK
<1>4. /\ Settled(task')
      /\ t.cancellation = None => task'.outcome = None /\ task'.settlement = None
      /\ t.cancellation # None => task'.outcome # None /\ task'.settlement # None
      /\ task'.started = (t.cancellation = None) /\ task'.cancellation = t.cancellation
  BY <1>2, <1>3, BegunIsSettled
<1> HIDE DEF t
<1>5. UNCHANGED <<clock, accepting, recorder, resources, report>> /\ pc = "start"
  BY DEF Start
<1>6. TypeOK'
  BY <1>2, <1>4, <1>5 DEF TypeOK, TaskTypeOK, Settled, Sound
<1>7. TaskFits'
  BY <1>2, <1>4, <1>5 DEF TaskFits
<1>8. ScopeFits'
  BY <1>2, <1>5 DEF ScopeFits, HeldIsRegistered
<1>9. WorkFits' /\ NoCleanupUnderWork'
  BY <1>2, <1>5 DEF WorkFits, NoCleanupUnderWork, ScopeFits, Pending
<1>10. ReportFits'
  BY <1>5, FreshIsSettled DEF ReportFits, TaskFits
<1> QED BY <1>6, <1>7, <1>8, <1>9, <1>10

\* What a call of the task makes of it while the producer is at work.
LEMMA RemainingAdvances ==
  ASSUME IInv, pc \notin {"start", "over"}
  PROVE  /\ Settled(task) /\ task.started /\ task.settlement = None
         /\ Advances(task, Remaining(task)) /\ Remaining(task).settlement = None
         /\ Remaining(task).started
         /\ clock # "good" => Remaining(task).cancellation # None
         /\ Throws(task) => Remaining(task).cancellation # None
<1>1. Settled(task) /\ task.started /\ task.settlement = None /\ clock \in {"good", "past", "broken"}
  BY DEF IInv, TaskFits, TypeOK, TaskTypeOK
<1>2. /\ Advances(task, Remaining(task)) /\ Remaining(task).settlement = None
      /\ clock \in {"past", "broken"} => Remaining(task).cancellation # None
  BY <1>1, RemainingIsSound, MovesAdvance DEF Settled
<1> QED BY <1>1, <1>2 DEF Throws, Advances

LEMMA EnterPreserves ==
  ASSUME IInv, Enter
  PROVE  IInv'
<1> USE DEF IInv, recorder
<1>1. /\ pc = "enter" /\ task.outcome = None /\ report = None
      /\ scope.state = "none" /\ scope.order = <<>> /\ scope.outcomes = <<>> /\ held = {}
      /\ ~calling /\ cleanup = None /\ scope \in ScopeType /\ running
  BY DEF Enter, TaskFits, ScopeFits, ReportFits, TypeOK
<1>2. /\ Settled(task') /\ task'.started /\ task'.settlement = None
      /\ clock = "broken" => task'.cancellation # None
  BY <1>1, RemainingAdvances DEF Enter, Advances
<1>3. UNCHANGED <<clock, running, recorder, calling, cleanup, report>>
  BY DEF Enter
<1>4. CASE clock = "broken"
  <2>1. pc' = "threw" /\ UNCHANGED <<accepting, scope, held>>
    BY <1>4 DEF Enter
  <2>2. TypeOK'
    BY <1>2, <1>3, <2>1 DEF TypeOK, TaskTypeOK, Settled, Sound
  <2>3. TaskFits'
    BY <1>1, <1>2, <1>3, <1>4, <2>1 DEF TaskFits
  <2>4. ScopeFits'
    BY <1>1, <1>3, <2>1 DEF ScopeFits, HeldIsRegistered
  <2>5. WorkFits' /\ NoCleanupUnderWork'
    BY <1>1, <1>3, <2>1 DEF WorkFits, NoCleanupUnderWork, Pending
  <2>6. ReportFits'
    BY <1>1, <1>3 DEF ReportFits
  <2> QED BY <2>2, <2>3, <2>4, <2>5, <2>6
<1>5. CASE clock # "broken"
  <2>1. /\ pc' \in {"drainDispatches", "fixture"} /\ accepting' = TRUE
        /\ scope' = [scope EXCEPT !.state = "open", !.order = <<Owned(Fixtures)>>]
        /\ held' = {Fixtures}
    BY <1>5 DEF Enter
  <2>2. Owned(Fixtures) \in [id : Owner, owned : BOOLEAN]
        /\ Owned(Fixtures).id = Fixtures /\ Owned(Fixtures).owned = TRUE
    BY DEF Owned, Owner
  <2>3. /\ scope' \in ScopeType /\ scope'.state = "open" /\ scope'.outcomes = <<>>
        /\ scope'.order = <<Owned(Fixtures)>> /\ Len(scope'.order) = 1
        /\ scope'.order[1] = Owned(Fixtures)
    <3> DEFINE o == <<Owned(Fixtures)>>
    <3>1. o \in Seq([id : Owner, owned : BOOLEAN]) /\ Len(o) = 1 /\ o[1] = Owned(Fixtures)
      BY <2>2
    <3>2. scope' = [scope EXCEPT !.state = "open", !.order = o]
      BY <2>1
    <3> HIDE DEF o
    <3>3. /\ scope' \in ScopeType /\ scope'.state = "open" /\ scope'.outcomes = <<>>
          /\ scope'.order = o
      BY <1>1, <3>1, <3>2 DEF ScopeType
    <3> QED BY <3>1, <3>3 DEF o
  <2>4. TypeOK'
    <3>1. TaskTypeOK'
      BY <1>2, <1>3 DEF TypeOK, TaskTypeOK, Settled, Sound
    <3>2. Len(<<>>) = 0 /\ DOMAIN <<>> = {} /\ DOMAIN scope'.order = {1}
      BY <2>3 DEF ScopeType
    <3>3. held' \subseteq Owner
      BY <2>1 DEF Owner
    <3> QED BY <1>3, <2>1, <2>2, <2>3, <3>1, <3>2, <3>3 DEF TypeOK, ScopeType
  <2>5. TaskFits'
    BY <1>1, <1>2, <1>3, <2>1 DEF TaskFits
  <2>6. HeldIsRegistered'
    BY <2>1, <2>2, <2>3 DEF HeldIsRegistered
  <2>7. ScopeFits'
    BY <1>1, <1>3, <2>1, <2>3, <2>6, NoneIsNoValue DEF ScopeFits
  <2>8. WorkFits' /\ NoCleanupUnderWork'
    BY <1>3, <2>1, <2>3 DEF WorkFits, NoCleanupUnderWork, Pending
  <2>9. ReportFits'
    BY <1>1, <1>3 DEF ReportFits
  <2> QED BY <2>4, <2>5, <2>7, <2>8, <2>9
<1> QED BY <1>4, <1>5

\* A step of the producer between two awaits before the cleanup.
LEMMA WorkingPreserves ==
  ASSUME IInv, pc \in {"fixture", "body", "drainDispatches", "drainSteps"},
         pc' \in {"body", "drainDispatches", "drainSteps", "drainAgain"},
         pc' = "drainAgain" => ~recording',
         ~recording' => Pending({"step", "criterion"}) = {},
         recording' \in BOOLEAN,
         Settled(task'), Advances(task, task'), task'.started, task'.settlement = None,
         failure' \in Origin \cup {None},
         UNCHANGED <<clock, running, accepting, work, covered, resources, report>>
  PROVE  IInv'
<1> USE DEF IInv, resources
<1>1. TypeOK'
  BY DEF TypeOK, TaskTypeOK, Settled, Sound
<1>2. TaskFits'
  BY DEF TaskFits
<1>3. ScopeFits'
  BY DEF ScopeFits, HeldIsRegistered
<1>4. scope.state = "open" /\ scope'.state = "open"
  BY DEF ScopeFits
<1>5. WorkFits' /\ NoCleanupUnderWork'
  BY <1>4 DEF WorkFits, NoCleanupUnderWork, Pending
<1>6. ReportFits'
  BY DEF ReportFits, Advances
<1> QED BY <1>1, <1>2, <1>3, <1>5, <1>6

LEMMA FixtureSettlesPreserves ==
  ASSUME IInv, NEW ok \in BOOLEAN, FixtureSettles(ok)
  PROVE  IInv'
<1>1. /\ Settled(task) /\ task.started /\ task.settlement = None
      /\ Advances(task, Remaining(task)) /\ Remaining(task).settlement = None
      /\ Remaining(task).started
  BY RemainingAdvances DEF FixtureSettles
<1>2. Settled(task') /\ Advances(task, task') /\ task'.started /\ task'.settlement = None
  BY <1>1 DEF FixtureSettles, Advances
<1>3. failure' \in Origin \cup {None}
  BY MergedIsAnOrigin DEF FixtureSettles, FailureOfCheck, IInv, TypeOK
<1>4. pc' \in {"body", "drainDispatches"} /\ recording' = recording
  BY DEF FixtureSettles
<1>5. (~recording => Pending({"step", "criterion"}) = {}) /\ recording \in BOOLEAN
  BY DEF IInv, WorkFits, TypeOK
<1> QED BY <1>2, <1>3, <1>4, <1>5, WorkingPreserves DEF FixtureSettles

LEMMA BodyEndsPreserves ==
  ASSUME IInv, BodyEnds
  PROVE  IInv'
<1>1. Settled(task) /\ task.started /\ task.settlement = None /\ task' = task
  BY RemainingAdvances DEF BodyEnds
<1>2. Advances(task, task')
  BY <1>1 DEF Advances
<1>3. failure' \in Origin \cup {None}
  BY MergedIsAnOrigin DEF BodyEnds, IInv, TypeOK
<1>4. (~recording => Pending({"step", "criterion"}) = {}) /\ recording \in BOOLEAN
  BY DEF IInv, WorkFits, TypeOK
<1> QED BY <1>1, <1>2, <1>3, <1>4, WorkingPreserves DEF BodyEnds

LEMMA DispatchesDrainedPreserves ==
  ASSUME IInv, DispatchesDrained
  PROVE  IInv'
<1>1. Settled(task) /\ task.started /\ task.settlement = None /\ task' = task
  BY RemainingAdvances DEF DispatchesDrained
<1>2. Advances(task, task')
  BY <1>1 DEF Advances
<1>3. (~recording => Pending({"step", "criterion"}) = {}) /\ recording \in BOOLEAN
      /\ failure \in Origin \cup {None}
  BY DEF IInv, WorkFits, TypeOK
<1> QED BY <1>1, <1>2, <1>3, WorkingPreserves DEF DispatchesDrained, recorder

LEMMA StepsDrainedPreserves ==
  ASSUME IInv, StepsDrained
  PROVE  IInv'
<1>1. Settled(task) /\ task.started /\ task.settlement = None /\ task' = task
  BY RemainingAdvances DEF StepsDrained
<1>2. Advances(task, task')
  BY <1>1 DEF Advances
<1>3. failure \in Origin \cup {None}
  BY DEF IInv, TypeOK
<1> QED BY <1>1, <1>2, <1>3, WorkingPreserves DEF StepsDrained

LEMMA DrainedPreserves ==
  ASSUME IInv, Drained
  PROVE  IInv'
<1> USE DEF IInv
<1>1. /\ pc = "drainAgain" /\ pc' = "cleanup" /\ accepting' = FALSE
      /\ scope' = [scope EXCEPT !.state = "closing"]
      /\ UNCHANGED <<clock, running, recording, work, covered, calling, held, cleanup, report>>
  BY DEF Drained, Closing
<1>2. /\ Settled(task) /\ task.started /\ task.settlement = None
      /\ Advances(task, task') /\ task'.settlement = None /\ task'.started
      /\ Throws(task) => task'.cancellation # None
  BY <1>1, RemainingAdvances DEF Drained
<1>3. /\ scope \in ScopeType /\ scope.state = "open" /\ ~recording /\ ~calling
      /\ Pending({"step", "criterion"}) = {}
  BY <1>1 DEF ScopeFits, WorkFits, TypeOK
<1>4. /\ scope' \in ScopeType /\ scope'.state = "closing" /\ scope'.order = scope.order
      /\ scope'.outcomes = scope.outcomes /\ scope'.tainted = scope.tainted
  BY <1>1, <1>3 DEF ScopeType
<1>5. failure' \in Origin \cup {None}
  BY MergedIsAnOrigin DEF Drained, FailureOfCheck, TypeOK, Origin
<1>6. Throws(task) \/ failure' # None \/ covered
  BY NoneIsNoValue DEF Drained, Origin
<1>7. Pending(Kind) = {}
  BY <1>3, PendingParts DEF Drained
<1>8. TypeOK'
  BY <1>1, <1>2, <1>4, <1>5 DEF TypeOK, TaskTypeOK, Advances, Settled, Sound
<1>9. TaskFits'
  BY <1>1, <1>2 DEF TaskFits, Advances
<1>10. ScopeFits'
  <2>1. HeldIsRegistered /\ held' = held
    BY <1>1 DEF ScopeFits
  <2>2. HeldIsRegistered'
    BY <1>4, <2>1 DEF HeldIsRegistered
  <2> QED BY <1>1, <1>3, <1>4, <2>2, NoneIsNoValue DEF ScopeFits
<1>11. WorkFits' /\ NoCleanupUnderWork'
  BY <1>1, <1>2, <1>3, <1>4, <1>6, <1>7 DEF WorkFits, NoCleanupUnderWork, Pending
<1>12. ReportFits'
  BY <1>1, <1>2 DEF ReportFits, Advances
<1> QED BY <1>8, <1>9, <1>10, <1>11, <1>12
-----------------------------------------------------------------------------
(* The cleanup                                                             *)

\* The outcome of one resource is recorded: the resources whose turn is still to
\* come are all the scope holds, unless it is tainted.
LEMMA OutcomePreserves ==
  ASSUME IInv, scope.state = "closing", Len(scope.outcomes) < Len(scope.order),
         NEW outcome \in CleanupOutcome, NEW b \in BOOLEAN,
         scope' = [scope EXCEPT !.outcomes = Append(@, outcome), !.tainted = b],
         held' \subseteq held, calling' = FALSE,
         ~b => ~scope.tainted /\ (Next1.id \notin held' \/ ~Next1.owned),
         UNCHANGED <<task, clock, running, producer, recorder, cleanup, report>>
  PROVE  IInv'
<1> USE DEF IInv, producer, recorder
<1>1. scope \in ScopeType
  BY DEF ScopeFits
<1> DEFINE n == Len(scope.outcomes)
           o == Append(scope.outcomes, outcome)
<1>2. /\ scope.outcomes \in Seq(CleanupOutcome) /\ n \in Nat /\ Len(scope.order) \in Nat
      /\ scope.order \in Seq([id : Owner, owned : BOOLEAN])
  BY <1>1 DEF ScopeType
<1>3. o \in Seq(CleanupOutcome) /\ Len(o) = n + 1
      /\ \A i \in DOMAIN o : o[i] \in CleanupOutcome
  <2>1. o \in Seq(CleanupOutcome) /\ Len(o) = n + 1
    BY <1>2, AppendProperties
  <2> HIDE DEF o
  <2> QED BY <2>1
<1> HIDE DEF o
<1>4. /\ scope' \in ScopeType /\ scope'.state = "closing" /\ scope'.order = scope.order
      /\ scope'.outcomes = o /\ scope'.tainted = b
  BY <1>1, <1>3 DEF ScopeType, o
<1>5. TypeOK'
  <2>1. n + 1 <= Len(scope.order)
    BY <1>2
  <2>2. held' \subseteq Owner /\ calling' \in BOOLEAN /\ TaskTypeOK'
    BY DEF TypeOK, TaskTypeOK
  <2> HIDE DEF n
  <2> QED BY <1>3, <1>4, <2>1, <2>2 DEF TypeOK
<1>6. TaskFits'
  BY <1>4 DEF TaskFits
<1>7. HeldIsRegistered'
  <2>1. SUFFICES ASSUME ~b, NEW x \in held'
                 PROVE  \E i \in 1..(Len(scope.order) - (n + 1)) :
                           scope.order[i].id = x /\ scope.order[i].owned
    BY <1>3, <1>4 DEF HeldIsRegistered
  <2>2. PICK i \in 1..(Len(scope.order) - n) : scope.order[i].id = x /\ scope.order[i].owned
    BY <2>1 DEF ScopeFits, HeldIsRegistered
  <2>3. i # Len(scope.order) - n
    BY <2>1, <2>2 DEF Next1
  <2>4. i \in 1..(Len(scope.order) - (n + 1))
    <3>1. \A k, m \in Nat : \A j \in 1..(k - m) : j # k - m => j \in 1..(k - (m + 1))
      OBVIOUS
    <3> HIDE DEF n
    <3> QED BY <1>2, <2>2, <2>3, <3>1
  <2> QED BY <2>2, <2>4
<1>8. cleanup = None /\ pc = "cleanup" /\ report' = report
  BY DEF ScopeFits, TypeOK
<1>9. ScopeFits'
  BY <1>4, <1>7, <1>8, NoneIsNoValue DEF ScopeFits
<1>10. WorkFits' /\ NoCleanupUnderWork'
  BY <1>4 DEF WorkFits, NoCleanupUnderWork, Pending
<1>11. ReportFits'
  BY <1>8 DEF ReportFits
<1> QED BY <1>5, <1>6, <1>9, <1>10, <1>11

LEMMA BorrowedIsLeftPreserves ==
  ASSUME IInv, BorrowedIsLeft
  PROVE  IInv'
<1>1. /\ scope.state = "closing" /\ Len(scope.outcomes) < Len(scope.order) /\ ~Next1.owned
      /\ scope \in ScopeType /\ calling \in BOOLEAN /\ (calling => Next1.owned)
  BY DEF BorrowedIsLeft, Cleaning, IInv, ScopeFits, TypeOK
<1>2. scope' = [scope EXCEPT !.outcomes = Append(@, "borrowed"), !.tainted = scope.tainted]
  BY <1>1 DEF BorrowedIsLeft, ScopeType
<1>3. scope.tainted \in BOOLEAN /\ "borrowed" \in CleanupOutcome
  BY <1>1 DEF ScopeType, CleanupOutcome
<1>4. held' \subseteq held /\ calling' = FALSE
  BY <1>1 DEF BorrowedIsLeft
<1> QED BY <1>1, <1>2, <1>3, <1>4, OutcomePreserves DEF BorrowedIsLeft

LEMMA CleanupEndsPreserves ==
  ASSUME IInv, NEW outcome \in {"released", "failed", "unconfirmed"}, CleanupEnds(outcome)
  PROVE  IInv'
<1>1. /\ scope.state = "closing" /\ Len(scope.outcomes) < Len(scope.order)
      /\ scope.tainted \in BOOLEAN
  BY DEF CleanupEnds, IInv, ScopeFits, TypeOK
<1>2. outcome \in CleanupOutcome /\ (scope.tainted \/ outcome # "released") \in BOOLEAN
  BY DEF CleanupOutcome
<1>3. scope' = [scope EXCEPT !.outcomes = Append(@, outcome),
                             !.tainted = scope.tainted \/ outcome # "released"]
  BY DEF CleanupEnds
<1>4. held' \subseteq held /\ calling' = FALSE
  BY DEF CleanupEnds
<1>5. ~(scope.tainted \/ outcome # "released") => ~scope.tainted /\ Next1.id \notin held'
  BY DEF CleanupEnds
<1>6. UNCHANGED <<task, clock, running, producer, recorder, cleanup, report>>
  BY DEF CleanupEnds
<1> QED BY <1>1, <1>2, <1>3, <1>4, <1>5, <1>6, OutcomePreserves

LEMMA CleanupBeginsPreserves ==
  ASSUME IInv, CleanupBegins
  PROVE  IInv'
<1> USE DEF IInv, CleanupBegins, Cleaning, producer, recorder
<1>1. TypeOK'
  BY DEF TypeOK, TaskTypeOK
<1>2. TaskFits'
  BY DEF TaskFits
<1>3. HeldIsRegistered' /\ Next1' = Next1
  BY DEF ScopeFits, HeldIsRegistered, Next1
<1>4. ScopeFits'
  BY <1>3 DEF ScopeFits
<1>5. WorkFits' /\ NoCleanupUnderWork'
  BY DEF WorkFits, NoCleanupUnderWork, Pending
<1>6. ReportFits'
  BY DEF ReportFits
<1> QED BY <1>1, <1>2, <1>4, <1>5, <1>6

LEMMA ScopeClosesPreserves ==
  ASSUME IInv, ScopeCloses
  PROVE  IInv'
<1> USE DEF IInv, recorder
<1>1. /\ scope.state = "closing" /\ pc = "cleanup" /\ pc' = "returned"
      /\ scope \in ScopeType /\ ~calling /\ Len(scope.order) - Len(scope.outcomes) = 0
  BY DEF ScopeCloses, ScopeFits, ScopeType, TypeOK
<1>2. /\ scope' \in ScopeType /\ scope'.state = "closed" /\ scope'.order = scope.order
      /\ scope'.outcomes = scope.outcomes /\ scope'.tainted = scope.tainted
  BY <1>1 DEF ScopeCloses, ScopeType
<1>3. /\ cleanup' = IF scope.tainted THEN "failed" ELSE "passed"
      /\ UNCHANGED <<task, clock, running, accepting, recorder, calling, held, report>>
  BY DEF ScopeCloses
<1>4. ~scope.tainted => held = {}
  BY <1>1 DEF ScopeFits, HeldIsRegistered
<1>5. TypeOK'
  BY <1>1, <1>2, <1>3 DEF TypeOK, TaskTypeOK
<1>6. TaskFits'
  BY <1>1, <1>2, <1>3 DEF TaskFits
<1>7. ScopeFits'
  <2>1. HeldIsRegistered'
    BY <1>2, <1>3, <1>4 DEF HeldIsRegistered
  <2> QED BY <1>1, <1>2, <1>3, <1>4, <2>1 DEF ScopeFits
<1>8. WorkFits' /\ NoCleanupUnderWork'
  BY <1>1, <1>2, <1>3 DEF WorkFits, NoCleanupUnderWork, Pending
<1>9. ReportFits'
  BY <1>1, <1>3 DEF ReportFits
<1> QED BY <1>5, <1>6, <1>7, <1>8, <1>9

LEMMA CallbackSettlesPreserves ==
  ASSUME IInv, CallbackSettles
  PROVE  IInv'
<1> USE DEF IInv, recorder, resources
<1>1. /\ pc \in {"returned", "threw"} /\ pc' = "over" /\ running' = FALSE
      /\ UNCHANGED <<clock, accepting, recorder, resources, report>>
  BY DEF CallbackSettles
<1>2. PICK how \in {"fulfilled", "rejected"} : task' = Completed(task, how)
  BY DEF CallbackSettles
<1>3. Settled(task) /\ task.started /\ task.settlement = None
  BY <1>1, RemainingAdvances
<1>4. /\ Settled(task') /\ task'.settlement = how /\ task'.outcome # None
      /\ Advances(task, task')
  BY <1>2, <1>3, CompletedIsSettled DEF Advances
<1>5. task'.settlement # None
  BY <1>4, NoneIsNone DEF Settlement
<1>6. TypeOK'
  <2>1. TaskTypeOK'
    BY <1>1, <1>4 DEF TypeOK, TaskTypeOK, Settled, Sound
  <2> QED BY <1>1, <2>1 DEF TypeOK
<1>7. TaskFits'
  BY <1>1, <1>4, <1>5 DEF TaskFits, ScopeFits, Advances
<1>8. ScopeFits'
  BY <1>1 DEF ScopeFits, HeldIsRegistered, Next1
<1>9. WorkFits' /\ NoCleanupUnderWork'
  BY <1>1, <1>4 DEF WorkFits, NoCleanupUnderWork, Pending, Advances
<1>10. ReportFits'
  BY <1>1, <1>4 DEF ReportFits, Advances
<1> QED BY <1>6, <1>7, <1>8, <1>9, <1>10
-----------------------------------------------------------------------------
(* The code of the Case, and the report                                    *)

LEMMA BeginsPreserves ==
  ASSUME IInv, NEW w \in Work, NEW kind \in Kind, Begins(w, kind)
  PROVE  IInv'
<1> USE DEF IInv, Begins, producer, resources
<1>1. scope.state = "open"
  BY AcceptingIsAtWork
<1>2. TypeOK'
  BY DEF TypeOK, TaskTypeOK
<1>3. TaskFits'
  BY DEF TaskFits
<1>4. ScopeFits'
  BY DEF ScopeFits, HeldIsRegistered, Next1
<1>5. WorkFits' /\ NoCleanupUnderWork'
  BY <1>1 DEF WorkFits, NoCleanupUnderWork
<1>6. ReportFits'
  BY DEF ReportFits
<1> QED BY <1>2, <1>3, <1>4, <1>5, <1>6

\* Work that ends leaves less to wait for.
LEMMA EndsPreserves ==
  ASSUME IInv, NEW w \in Work, work[w] \in Kind, work' = [work EXCEPT ![w] = "over"],
         covered => covered', covered' \in BOOLEAN,
         failure' \in Origin \cup {None}, failure' = None => failure = None,
         UNCHANGED <<task, clock, running, producer, recording, resources, report>>
  PROVE  IInv'
<1> USE DEF IInv, producer, resources
<1>1. \A k \in {Kind, {"step", "criterion"}} : Pending(k)' \subseteq Pending(k)
  BY DEF Pending, Kind, TypeOK
<1>2. TypeOK'
  BY DEF TypeOK, TaskTypeOK
<1>3. TaskFits'
  BY DEF TaskFits
<1>4. ScopeFits'
  BY DEF ScopeFits, HeldIsRegistered, Next1
<1>5. WorkFits' /\ NoCleanupUnderWork'
  BY <1>1 DEF WorkFits, NoCleanupUnderWork
<1>6. ReportFits'
  BY DEF ReportFits
<1> QED BY <1>2, <1>3, <1>4, <1>5, <1>6

LEMMA PassesPreserves ==
  ASSUME IInv, NEW w \in Work, Passes(w)
  PROVE  IInv'
<1>1. covered \in BOOLEAN /\ covered' \in BOOLEAN /\ (covered => covered')
  BY DEF Passes, IInv, TypeOK
<1>2. failure' \in Origin \cup {None} /\ failure' = failure
  BY DEF Passes, IInv, TypeOK
<1> QED BY <1>1, <1>2, EndsPreserves DEF Passes

LEMMA FailsPreserves ==
  ASSUME IInv, NEW w \in Work, NEW origin \in Origin, Fails(w, origin)
  PROVE  IInv'
<1>1. covered' \in BOOLEAN /\ (covered => covered')
  BY DEF Fails, IInv, TypeOK
<1>2. failure' \in Origin /\ failure' # None
  BY MergedIsAnOrigin, NoneIsNoValue DEF Fails
<1> QED BY <1>1, <1>2, EndsPreserves DEF Fails

LEMMA RegistersPreserves ==
  ASSUME IInv, NEW x \in Resource, NEW owned \in BOOLEAN, Registers(x, owned)
  PROVE  IInv'
<1> USE DEF IInv, producer, recorder
<1>1. /\ scope.state = "open" /\ scope \in ScopeType /\ scope.outcomes = <<>> /\ ~calling
      /\ scope.order \in Seq([id : Owner, owned : BOOLEAN])
      /\ pc \in {"fixture", "body", "drainDispatches", "drainSteps", "drainAgain"}
  BY AcceptingIsAtWork DEF Registers, ScopeFits, ScopeType, TypeOK
<1>2. UNCHANGED <<task, clock, running, producer, recorder, calling, cleanup, report>>
  BY DEF Registers
<1> DEFINE e == [id |-> x, owned |-> owned]
           o == Append(scope.order, e)
<1>3. e \in [id : Owner, owned : BOOLEAN] /\ e.id = x /\ e.owned = owned
  BY DEF Owner
<1> HIDE DEF e
<1>4. /\ o \in Seq([id : Owner, owned : BOOLEAN]) /\ Len(o) = Len(scope.order) + 1
      /\ \A i \in 1..Len(scope.order) : o[i] = scope.order[i]
      /\ o[Len(scope.order) + 1] = e
  BY <1>1, <1>3, AppendProperties
<1> HIDE DEF o
<1>5. /\ scope' \in ScopeType /\ scope'.state = "open" /\ scope'.outcomes = <<>>
      /\ \/ scope'.order = scope.order /\ scope'.tainted = TRUE /\ held' = held
         \/ /\ scope'.order = o /\ scope'.tainted = scope.tainted
            /\ held' = IF owned THEN held \cup {x} ELSE held
  <2>1. CASE x \in Registered
    <3>1. scope' = [scope EXCEPT !.tainted = TRUE] /\ held' = held
      BY <2>1 DEF Registers
    <3> QED BY <1>1, <3>1 DEF ScopeType
  <2>2. CASE x \notin Registered
    <3>1. scope' = [scope EXCEPT !.order = o] /\ held' = IF owned THEN held \cup {x} ELSE held
      BY <2>2 DEF Registers, o, e
    <3> QED BY <1>1, <1>4, <3>1 DEF ScopeType
  <2> QED BY <2>1, <2>2
<1>6. Len(scope.order) \in Nat /\ Len(<<>>) = 0
  BY <1>1
<1>7. TypeOK'
  <2>1. TaskTypeOK' /\ held' \subseteq Owner
    BY <1>2, <1>5 DEF TypeOK, TaskTypeOK, Owner
  <2>2. /\ Len(scope'.outcomes) <= Len(scope'.order)
        /\ \A i \in DOMAIN scope'.order : scope'.order[i].id \in Owner
        /\ \A i \in DOMAIN scope'.outcomes : scope'.outcomes[i] \in CleanupOutcome
    <3>1. Len(scope'.order) \in Nat /\ DOMAIN scope'.outcomes = {}
      BY <1>1, <1>4, <1>5, <1>6
    <3>2. scope'.order \in Seq([id : Owner, owned : BOOLEAN])
      <4>1. scope' \in ScopeType
        BY <1>5
      <4> QED BY <4>1 DEF ScopeType
    <3>3. \A i \in DOMAIN scope'.order : scope'.order[i].id \in Owner
      <4>1. DOMAIN scope'.order = 1..Len(scope'.order)
        BY <3>2, LenProperties
      <4>2. \A i \in 1..Len(scope'.order) : scope'.order[i] \in [id : Owner, owned : BOOLEAN]
        BY <3>2, ElementOfSeq
      <4> QED BY <4>1, <4>2
    <3>4. Len(scope'.outcomes) = 0
      BY <1>5, <1>6
    <3> QED BY <3>1, <3>3, <3>4
  <2> QED BY <1>2, <1>5, <2>1, <2>2 DEF TypeOK, ScopeType
<1>8. TaskFits'
  BY <1>1, <1>2 DEF TaskFits
<1>9. HeldIsRegistered'
  <2>1. SUFFICES ASSUME ~scope'.tainted, NEW y \in held'
                 PROVE  \E i \in 1..(Len(scope'.order) - Len(scope'.outcomes)) :
                           scope'.order[i].id = y /\ scope'.order[i].owned
    BY DEF HeldIsRegistered
  <2>2. /\ scope'.order = o /\ scope'.tainted = scope.tainted
        /\ held' = IF owned THEN held \cup {x} ELSE held
    BY <1>5, <2>1
  <2>3. Len(scope'.order) - Len(scope'.outcomes) = Len(scope.order) + 1
    BY <1>4, <1>5, <1>6, <2>2
  <2>4. CASE y \in held
    <3>1. PICK i \in 1..(Len(scope.order) - Len(scope.outcomes)) :
                 scope.order[i].id = y /\ scope.order[i].owned
      BY <2>1, <2>2, <2>4 DEF ScopeFits, HeldIsRegistered
    <3>2. i \in 1..Len(scope.order) /\ i \in 1..(Len(scope.order) + 1)
      BY <1>1, <1>6, <3>1
    <3>3. scope'.order[i] = scope.order[i]
      BY <1>4, <2>2, <3>2
    <3> QED BY <2>3, <3>1, <3>2, <3>3
  <2>5. CASE y = x /\ owned
    <3>1. Len(scope.order) + 1 \in 1..(Len(scope.order) + 1)
      BY <1>6
    <3>2. scope'.order[Len(scope.order) + 1] = e
      BY <1>4, <2>2
    <3> QED BY <1>3, <2>3, <2>5, <3>1, <3>2
  <2> QED BY <2>1, <2>2, <2>4, <2>5
<1>10. ScopeFits'
  BY <1>1, <1>2, <1>5, <1>9, NoneIsNoValue DEF ScopeFits
<1>11. WorkFits' /\ NoCleanupUnderWork'
  BY <1>1, <1>2, <1>5 DEF WorkFits, NoCleanupUnderWork, Pending
<1>12. ReportFits'
  BY <1>1, <1>2 DEF ReportFits, Registers
<1> QED BY <1>7, <1>8, <1>10, <1>11, <1>12

LEMMA RegistersLatePreserves ==
  ASSUME IInv, RegistersLate
  PROVE  IInv'
<1> USE DEF IInv, producer, recorder
<1>1. UNCHANGED <<task, clock, running, producer, recorder, calling, held, cleanup, report>>
  BY DEF RegistersLate
<1>2. /\ scope' \in ScopeType /\ scope'.state = scope.state /\ scope'.order = scope.order
      /\ scope'.outcomes = scope.outcomes /\ scope'.tainted /\ scope'.tainted \in BOOLEAN
  BY DEF RegistersLate, ScopeFits, ScopeType
<1>3. TypeOK'
  <2>1. TaskTypeOK'
    BY <1>1 DEF TypeOK, TaskTypeOK
  <2> QED BY <1>1, <1>2, <2>1 DEF TypeOK
<1>4. TaskFits'
  BY <1>1, <1>2 DEF TaskFits
<1>5. HeldIsRegistered' /\ Next1' = Next1
  BY <1>1, <1>2 DEF HeldIsRegistered, Next1
<1>6. ScopeFits'
  BY <1>1, <1>2, <1>5 DEF ScopeFits
<1>7. WorkFits' /\ NoCleanupUnderWork'
  BY <1>1, <1>2 DEF WorkFits, NoCleanupUnderWork, Pending
<1>8. ReportFits'
  BY <1>1, <1>2 DEF ReportFits
<1> QED BY <1>3, <1>4, <1>6, <1>7, <1>8

\* What is settled when a task is over and nothing was cancelled.
LEMMA InOrder ==
  ASSUME IInv, task.outcome # None, task.cancellation = None
  PROVE  /\ task.settlement # None /\ task.outcome.status = "settled"
         /\ pc = "over" /\ scope.state = "closed" /\ ~running
         /\ Pending(Kind) = {}
<1>1. task.settlement # None /\ task.outcome.status = "settled"
  BY DEF IInv, TaskFits, Settled, Sound
<1>2. pc = "over"
  BY <1>1, FreshIsSettled DEF IInv, TaskFits
<1> QED BY <1>1, <1>2 DEF IInv, TaskFits, NoCleanupUnderWork

LEMMA ReportPreserves ==
  ASSUME IInv, Report
  PROVE  IInv'
<1> USE DEF IInv, resources
<1>1. /\ task.outcome # None /\ report = None /\ accepting' = FALSE
      /\ failure' = FinalFailure
      /\ UNCHANGED <<task, clock, running, pc, recording, work, covered, resources>>
  BY DEF Report
<1>2. /\ report' \in Reports /\ report'.ready = Ready /\ report'.origin = FinalFailure
      /\ report'.status = "passed" => FinalFailure = None /\ task.cancellation # "deadline"
  <2>1. FinalFailure \in Origin \cup {None}
    BY MergedIsAnOrigin DEF FinalFailure, TypeOK
  <2> QED BY <2>1 DEF Report, Reports, Ready
<1>3. failure' \in Origin \cup {None} /\ (failure' = None => failure = None)
  BY <1>1, MergedIsAnOrigin, NoneIsNoValue DEF FinalFailure, TypeOK
<1>4. FinalFailure \in {None, "business"} =>
        task.cancellation = None /\ cleanup # "failed" /\ (FinalFailure = None => failure = None)
  BY NoneIsNoValue DEF FinalFailure, Merged, Origin
<1>5. FinalFailure \in {None, "business"} =>
        /\ pc = "over" /\ scope.state = "closed" /\ cleanup = "passed" /\ held = {}
        /\ task.outcome.status = "settled"
  BY <1>1, <1>4, InOrder DEF ScopeFits
<1>6. FinalFailure = None => covered
  BY <1>4, <1>5 DEF WorkFits
<1>7. Ready => pc = "over" /\ scope.state = "closed"
  BY <1>1, FreshIsSettled DEF Ready, WorkerState, TaskFits
<1>8. TypeOK'
  <2>1. TaskTypeOK'
    BY <1>1 DEF TypeOK, TaskTypeOK
  <2> QED BY <1>1, <1>2, <1>3, <2>1 DEF TypeOK
<1>9. TaskFits'
  BY <1>1 DEF TaskFits
<1>10. ScopeFits'
  BY <1>1 DEF ScopeFits, HeldIsRegistered, Next1
<1>11. WorkFits' /\ NoCleanupUnderWork'
  BY <1>1, <1>3 DEF WorkFits, NoCleanupUnderWork, Pending
<1>12. ReportFits'
  BY <1>1, <1>2, <1>5, <1>6, <1>7 DEF ReportFits
<1> QED BY <1>8, <1>9, <1>10, <1>11, <1>12
-----------------------------------------------------------------------------
LEMMA StepPreserves ==
  ASSUME IInv, [Next]_vars
  PROVE  IInv'
<1>1. CASE UNCHANGED vars
  <2>1. UNCHANGED <<task, clock, running, pc, accepting, recording, work, covered, failure,
                    scope, calling, held, cleanup, report>>
    BY <1>1 DEF vars, producer, recorder, resources
  <2> QED BY <2>1 DEF IInv, TypeOK, TaskTypeOK, TaskFits, ScopeFits, HeldIsRegistered, Next1,
               WorkFits, NoCleanupUnderWork, Pending, ReportFits
<1>2. CASE Surroundings
  BY <1>2, SurroundingsPreserve
<1>3. CASE Producer
  BY <1>3, StartPreserves, EnterPreserves, DispatchesDrainedPreserves, StepsDrainedPreserves,
     DrainedPreserves, BorrowedIsLeftPreserves, CleanupBeginsPreserves, ScopeClosesPreserves,
     CallbackSettlesPreserves DEF Producer
<1>4. CASE \E ok \in BOOLEAN : FixtureSettles(ok)
  BY <1>4, FixtureSettlesPreserves
<1>5. CASE BodyEnds
  BY <1>5, BodyEndsPreserves
<1>6. CASE \E outcome \in {"released", "failed", "unconfirmed"} : CleanupEnds(outcome)
  BY <1>6, CleanupEndsPreserves
<1>7. CASE \E w \in Work : \/ \E kind \in Kind : Begins(w, kind)
                           \/ Passes(w)
                           \/ \E origin \in Origin : Fails(w, origin)
  BY <1>7, BeginsPreserves, PassesPreserves, FailsPreserves
<1>8. CASE \E x \in Resource, owned \in BOOLEAN : Registers(x, owned)
  BY <1>8, RegistersPreserves
<1>9. CASE RegistersLate \/ ContextAcknowledges \/ ContextMeasures
  BY <1>9, RegistersLatePreserves, ContextAcknowledgesPreserves, ContextMeasuresPreserves
<1>10. CASE Report
  BY <1>10, ReportPreserves
<1> QED BY <1>1, <1>2, <1>3, <1>4, <1>5, <1>6, <1>7, <1>8, <1>9, <1>10 DEF Next

LEMMA Invariance == Spec => []IInv
BY CaseInitEstablishes, StepPreserves, PTL DEF Spec

\* Every variable of a Case keeps its type (executeCaseKernel and what it owns).
THEOREM TypeCorrect == Spec => []TypeOK
BY Invariance, PTL DEF IInv

\* The resources of a Case are cleaned up when nothing it started is at work: the
\* three drains of executeCaseKernel leave no gap.
THEOREM CleanupIsAlone == Spec => []NoCleanupUnderWork
BY Invariance, PTL DEF IInv

\* A Case that passes is verified, over, and has given back what it held
\* (executeCaseKernel's status).
THEOREM PassedMeansDone == Spec => []PassedIsDone
<1>1. IInv => PassedIsDone
  <2> SUFFICES ASSUME IInv, report # None, report.status = "passed"
               PROVE  covered /\ Pending(Kind) = {} /\ held = {} /\ ~running
    BY DEF PassedIsDone
  <2> QED BY DEF IInv, ReportFits, TaskFits, NoCleanupUnderWork
<1> QED BY Invariance, <1>1, PTL

\* A failure is put down to the product only when the run was itself in order
\* (mergeFailureOrigins over what the lifecycle and the cleanup report).
THEOREM BusinessMeansInOrder == Spec => []BusinessIsPure
<1>1. IInv => BusinessIsPure
  BY DEF IInv, ReportFits, BusinessIsPure
<1> QED BY Invariance, <1>1, PTL

\* Once nothing accepts, and no callback of a cleanup is at work, what is left is
\* a registration that comes too late and what the clock does.
LEMMA OverIsOver ==
  ASSUME IInv, report # None, report.ready, [Next]_vars
  PROVE  /\ UNCHANGED <<work, covered, failure, recording, pc, calling, held, cleanup>>
         /\ scope'.outcomes = scope.outcomes
<1>1. /\ pc = "over" /\ scope.state = "closed" /\ ~accepting /\ ~calling
      /\ \A w \in Work : work[w] \notin Kind
  BY DEF IInv, ReportFits, ScopeFits, NoCleanupUnderWork, Pending, TypeOK
<1>2. scope \in ScopeType
  BY DEF IInv, ScopeFits
<1> USE DEF producer, recorder, resources
<1>3. CASE UNCHANGED vars
  BY <1>3 DEF vars
<1>4. CASE Surroundings
  BY <1>4 DEF Surroundings
<1>5. CASE RegistersLate
  BY <1>2, <1>5 DEF RegistersLate, ScopeType
<1>6. CASE Producer
  BY <1>1, <1>6 DEF Producer, Start, Enter, DispatchesDrained, StepsDrained, Drained, BorrowedIsLeft,
       CleanupBegins, ScopeCloses, CallbackSettles, Cleaning
<1>7. CASE \/ \E ok \in BOOLEAN : FixtureSettles(ok)
           \/ BodyEnds
           \/ \E outcome \in {"released", "failed", "unconfirmed"} : CleanupEnds(outcome)
  BY <1>1, <1>7 DEF FixtureSettles, BodyEnds, CleanupEnds
<1>8. CASE \E w \in Work : \/ \E kind \in Kind : Begins(w, kind)
                           \/ Passes(w)
                           \/ \E origin \in Origin : Fails(w, origin)
  BY <1>1, <1>8 DEF Begins, Passes, Fails
<1>9. CASE \/ \E x \in Resource, owned \in BOOLEAN : Registers(x, owned)
           \/ ContextAcknowledges \/ ContextMeasures \/ Report
  BY <1>1, <1>9 DEF Registers, ContextAcknowledges, ContextMeasures, Report
<1> QED BY <1>3, <1>4, <1>5, <1>6, <1>7, <1>8, <1>9 DEF Next

\* Nothing of a Case goes on once its result may be published
\* (executeCaseWithRunnerContext's publicationReady).
THEOREM PublishedIsFinal == Spec => ReadyIsFinal
<1>1. ASSUME IInv, [Next]_vars
      PROVE  [report # None /\ report.ready =>
                /\ UNCHANGED <<work, covered, failure, recording, pc, calling, held, cleanup>>
                /\ scope'.outcomes = scope.outcomes]_vars
  BY <1>1, OverIsOver
<1> QED BY Invariance, <1>1, PTL DEF Spec, ReadyIsFinal

\* A context that has been closed by a report begins and registers nothing
\* (assertActive, registerResource).
THEOREM ReportClosesContext == Spec => NothingBeginsAfterReport
<1>1. ASSUME IInv, [Next]_vars, report # None
      PROVE  /\ \A w \in Work : work[w] = "new" => work'[w] = "new"
             /\ scope.state # "none" => scope'.order = scope.order
  <2>1. ~accepting /\ pc # "start" /\ pc # "enter" /\ scope \in ScopeType
    BY <1>1, FreshIsSettled DEF IInv, ReportFits, TaskFits, ScopeFits
  <2> USE DEF producer, recorder, resources
  <2>2. CASE UNCHANGED vars
    BY <2>2 DEF vars
  <2>3. CASE Surroundings \/ Report \/ ContextAcknowledges \/ ContextMeasures
    BY <2>3 DEF Surroundings, Report, ContextAcknowledges, ContextMeasures
  <2>4. CASE RegistersLate
    BY <2>1, <2>4 DEF RegistersLate, ScopeType
  <2>5. CASE Producer
    BY <2>1, <2>5 DEF Producer, Start, Enter, DispatchesDrained, StepsDrained, Drained, Closing,
         BorrowedIsLeft, CleanupBegins, ScopeCloses, CallbackSettles, ScopeType
  <2>6. CASE \/ \E ok \in BOOLEAN : FixtureSettles(ok)
             \/ BodyEnds
             \/ \E outcome \in {"released", "failed", "unconfirmed"} : CleanupEnds(outcome)
    BY <2>1, <2>6 DEF FixtureSettles, BodyEnds, CleanupEnds, ScopeType
  <2>7. CASE \E w \in Work : \/ \E kind \in Kind : Begins(w, kind)
                             \/ Passes(w)
                             \/ \E origin \in Origin : Fails(w, origin)
    <3>1. \A w, v \in Work : work[v] \in Kind /\ work[w] = "new" => w # v
      BY DEF Kind
    <3>2. work \in [Work -> {"new", "over"} \cup Kind]
      BY <1>1 DEF IInv, TypeOK
    <3> QED BY <2>1, <2>7, <3>1, <3>2 DEF Begins, Passes, Fails
  <2>8. CASE \E x \in Resource, owned \in BOOLEAN : Registers(x, owned)
    BY <2>1, <2>8 DEF Registers
  <2> QED BY <1>1, <2>2, <2>3, <2>4, <2>5, <2>6, <2>7, <2>8 DEF Next
<1>2. IInv /\ [Next]_vars =>
        [report # None =>
           /\ \A w \in Work : work[w] = "new" => work'[w] = "new"
           /\ scope.state # "none" => scope'.order = scope.order]_vars
  BY <1>1
<1> QED BY Invariance, <1>2, PTL DEF Spec, NothingBeginsAfterReport

\* A report that says passed, or that the product failed, is honest.
THEOREM HonestReport == Spec => []ReportIsHonest
<1>1. PassedIsDone /\ BusinessIsPure => ReportIsHonest
  BY DEF ReportIsHonest
<1> QED BY <1>1, PassedMeansDone, BusinessMeansInOrder, PTL

\* A Case keeps its order.
THEOREM OrderIsKept == Spec => []CaseIsInOrder
<1>1. ReportIsHonest /\ NoCleanupUnderWork => CaseIsInOrder
  BY DEF CaseIsInOrder
<1> QED BY <1>1, HonestReport, CleanupIsAlone, PTL

\* What a task settled stands.
THEOREM SettledStands == TaskSpec => TaskStands
<1>1. QED BY FirstCauseIsKept, LateIsNotInTime, PTL DEF TaskStands
=============================================================================
