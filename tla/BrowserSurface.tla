--------------------------- MODULE BrowserSurface ---------------------------
(***************************************************************************)
(* packages/test surfaces: a Case's browser, from its launch through a      *)
(* backend to the lease of its desktop.  Each call has a budget and a       *)
(* boundary the backend crosses at most once; what the caller is told       *)
(* depends on whether it was crossed.  Cleanup closes the session once,     *)
(* under a deadline and a stop signal, and only then is the lease given     *)
(* back.                                                                    *)
(*                                                                          *)
(* The backend is truthful: it starts nothing before the boundary, and a    *)
(* matching close proof means that the browser is gone.  The context is any *)
(* SurfaceSetupContext, which may let calls begin while it cleans up.       *)
(***************************************************************************)
EXTENDS Naturals

CONSTANTS Op  \* the operations of the author; the launch is a call as well

Launch == "launch"
Call == Op \cup {Launch}

VARIABLES
  signal,     \* the context's signal is aborted
  call,       \* call[c]: where its caller is, or what he was told
  submitted,  \* the calls that crossed the boundary
  aborted,    \* the calls whose own signal is aborted
  late,       \* the calls whose budget is spent
  backend,    \* backend[c]: the promise the backend returned
  browser,    \* the browser in the world
  cleaning,   \* the controller's cleanup
  close,      \* the one promise of session.close
  stopped,    \* the cleanup's deadline has passed or its scope has stopped
  scope,      \* the resource scope: the turn, and whether its callback runs
  lease       \* the desktop's lease, if there is one

surfaceVars == <<signal, call, submitted, aborted, late, backend, browser, cleaning, close, stopped, scope, lease>>
calls == <<signal, call, submitted, aborted, late>>
closing == <<cleaning, close, stopped>>

Told == {"done", "failed", "aborted", "deadline", "unknownOutcome"}

TypeOK ==
  /\ signal \in BOOLEAN /\ stopped \in BOOLEAN
  /\ call \in [Call -> {"new", "waiting"} \cup Told]
  /\ submitted \cup aborted \cup late \subseteq Call
  /\ backend \in [Call -> {"none", "running", "resolved", "rejected"}]
  /\ browser \in {"none", "alive", "gone"}
  /\ cleaning \in {"no", "settling", "closing", "released", "unconfirmed"}
  /\ close \in {"none", "running", "proved", "mismatched", "failed"}
  /\ scope \in [turn : {"none", "open", "session", "lease", "over"}, calling : BOOLEAN]
  /\ lease \in {"none", "held", "asked", "releasing", "released", "kept"}

Init == /\ signal = FALSE
        /\ call = [c \in Call |-> "new"]
        /\ submitted = {} /\ aborted = {} /\ late = {}
        /\ backend = [c \in Call |-> "none"]
        /\ browser = "none"
        /\ cleaning = "no" /\ close = "none" /\ stopped = FALSE
        /\ scope = [turn |-> "none", calling |-> FALSE]
        /\ lease \in {"none", "held"}
-----------------------------------------------------------------------------
(* SurfaceCallContext                                                      *)

\* stopError: what a stopped caller may be told.
Stopped(c, why) == IF c \in submitted THEN "unknownOutcome" ELSE why

\* A call begins: the constructor refuses one without budget, the resources of a
\* launch are registered, and the dispatch is refused at once or returns a promise.
Begin(c) ==
  /\ call[c] = "new"
  /\ IF c = Launch THEN scope.turn = "none" ELSE call[Launch] = "done"
  /\ IF signal \/ c \in late
     THEN /\ call' = [call EXCEPT ![c] = IF signal THEN "aborted" ELSE "deadline"]
          /\ UNCHANGED <<backend, scope>>
     ELSE /\ \E dispatched \in BOOLEAN :
               /\ call' = [call EXCEPT ![c] = IF dispatched THEN "waiting" ELSE "failed"]
               /\ backend' = [backend EXCEPT ![c] = IF dispatched THEN "running" ELSE "none"]
          /\ scope' = IF c = Launch THEN [scope EXCEPT !.turn = "open"] ELSE scope
  /\ UNCHANGED <<signal, submitted, aborted, late, browser, closing, lease>>

\* Mutant: only the clock is looked at.
MaySubmit_Deaf(c) == c \notin late

\* beforeSubmit: what keeps the backend from crossing the boundary.
MaySubmit(c) == ~signal /\ c \notin aborted /\ c \notin late

BeforeSubmit(c) == /\ backend[c] = "running"
                   /\ c \notin submitted
                   /\ MaySubmit(c)
                   /\ submitted' = submitted \cup {c}
                   /\ UNCHANGED <<signal, call, aborted, late, backend, browser, closing, scope, lease>>

\* The context is cancelled: the calls that wait hear it.
Abort == /\ ~signal
         /\ signal' = TRUE
         /\ aborted' = aborted \cup {c \in Call : call[c] = "waiting"}
         /\ UNCHANGED <<call, submitted, late, backend, browser, closing, scope, lease>>

Late(c) == /\ c \notin late
           /\ late' = late \cup {c}
           /\ UNCHANGED <<signal, call, submitted, aborted, backend, browser, closing, scope, lease>>

\* wait, stopped by the signal or by the timer, which also aborts the backend.
Stop(c) == /\ call[c] = "waiting"
           /\ \/ /\ c \in aborted
                 /\ call' = [call EXCEPT ![c] = Stopped(c, "aborted")]
                 /\ UNCHANGED aborted
              \/ /\ c \in late
                 /\ call' = [call EXCEPT ![c] = Stopped(c, "deadline")]
                 /\ aborted' = aborted \cup {c}
           /\ UNCHANGED <<signal, submitted, late, backend, browser, closing, scope, lease>>

\* wait, when the backend's promise settles: a value that came too late is none,
\* and one without a boundary, with a wrong identity or evidence that is refused fails.
Answer(c) ==
  /\ call[c] = "waiting"
  /\ backend[c] \in {"resolved", "rejected"}
  /\ call' = [call EXCEPT ![c] = IF backend[c] = "rejected" THEN "failed"
                                 ELSE IF c \in aborted THEN Stopped(c, "aborted")
                                 ELSE IF c \in late THEN Stopped(c, "deadline") ELSE "done"]
  /\ UNCHANGED <<signal, submitted, aborted, late, backend, browser, closing, scope, lease>>

Misfits(c) == /\ call[c] = "waiting"
              /\ backend[c] = "resolved" /\ c \notin aborted \cup late
              /\ call' = [call EXCEPT ![c] = "failed"]
              /\ UNCHANGED <<signal, submitted, aborted, late, backend, browser, closing, scope, lease>>
-----------------------------------------------------------------------------
(* The backend                                                             *)

Opens == /\ backend[Launch] = "running" /\ Launch \in submitted
         /\ browser = "none"
         /\ browser' = "alive"
         /\ UNCHANGED <<calls, backend, closing, scope, lease>>

\* Mutant: a session that arrives under a cleanup is left to it.
Observed_Left == close

\* watch: a session that arrives when cleanup has begun is closed on arrival.
Observed == IF cleaning # "no" /\ close = "none" THEN "running" ELSE close

Resolves(c) == /\ backend[c] = "running" /\ c \in submitted
               /\ c = Launch => browser = "alive"
               /\ backend' = [backend EXCEPT ![c] = "resolved"]
               /\ close' = IF c = Launch THEN Observed ELSE close
               /\ UNCHANGED <<calls, browser, cleaning, stopped, scope, lease>>

Rejects(c) == /\ backend[c] = "running"
              /\ backend' = [backend EXCEPT ![c] = "rejected"]
              /\ UNCHANGED <<calls, browser, closing, scope, lease>>

CloseEnds(outcome) == /\ close = "running"
                      /\ close' = outcome
                      /\ browser' \in IF outcome = "proved" THEN {"gone"} ELSE {browser, "gone"}
                      /\ UNCHANGED <<calls, backend, cleaning, stopped, scope, lease>>
-----------------------------------------------------------------------------
(* BrowserAcquisitionController                                            *)

Settled == backend[Launch] # "running"
StartClose == close' = IF close = "none" /\ backend[Launch] = "resolved" THEN "running" ELSE close

\* The deadline of the cleanup passes, or its scope stops for a reason of its own.
Expire == /\ cleaning # "no" /\ ~stopped
          /\ stopped' = TRUE
          /\ UNCHANGED <<calls, backend, browser, cleaning, close, scope, lease>>

\* Mutant: a launch that failed has started nothing.
NothingStarted_Hoped == TRUE

NothingStarted == Launch \notin submitted

\* cleanupOnce up to the settlement: stopped, or nothing was acquired, or it is
\* unknown whether anything was, or the session is closed.
CleanupSettles ==
  /\ cleaning = "settling"
  /\ Settled \/ stopped
  /\ IF stopped THEN cleaning' = "unconfirmed" /\ StartClose
     ELSE IF backend[Launch] = "resolved" THEN cleaning' = "closing" /\ StartClose
     ELSE /\ cleaning' = IF NothingStarted THEN "released" ELSE "unconfirmed"
          /\ UNCHANGED close
  /\ UNCHANGED <<calls, backend, browser, stopped, scope, lease>>

\* The rest of cleanupOnce: a proof that matches, in time, and recorded as evidence.
CleanupEnds ==
  /\ cleaning = "closing"
  /\ close # "running" \/ stopped
  /\ cleaning' \in IF close = "proved" /\ ~stopped THEN {"released", "unconfirmed"} ELSE {"unconfirmed"}
  /\ UNCHANGED <<calls, backend, browser, close, stopped, scope, lease>>
-----------------------------------------------------------------------------
(* The resource scope, and registerResources                               *)

Over == [turn |-> "over", calling |-> FALSE]

\* The scope closes: the session was registered last and is cleaned up first.
SessionCleanup == /\ scope.turn = "open"
                  /\ scope' = [turn |-> "session", calling |-> TRUE]
                  /\ cleaning' = "settling"
                  /\ UNCHANGED <<calls, backend, browser, close, stopped, lease>>

\* The session's receipt comes, or is waited for no longer; the scope stops unless
\* it says released.  Then it is the lease's turn.
SessionReceipt ==
  /\ scope.turn = "session"
  /\ \E receipt \in {"released", "unconfirmed"} :
       /\ receipt = "released" => cleaning = "released"
       /\ stopped' = (stopped \/ receipt # "released")
  /\ scope' = IF lease = "none" THEN Over ELSE [turn |-> "lease", calling |-> TRUE]
  /\ lease' = IF lease = "none" THEN lease ELSE "asked"
  /\ UNCHANGED <<calls, backend, browser, cleaning, close>>

\* leaseReleaseAllowed: a released receipt, and the boundary has not passed since.
LeaseReleaseAllowed == cleaning = "released" /\ ~stopped

LeaseDecided == /\ lease = "asked"
                /\ cleaning \in {"released", "unconfirmed"}
                /\ lease' = IF LeaseReleaseAllowed THEN "releasing" ELSE "kept"
                /\ UNCHANGED <<calls, backend, browser, closing, scope>>

LeaseReleased == /\ lease = "releasing"
                 /\ lease' = "released"
                 /\ UNCHANGED <<calls, backend, browser, closing, scope>>

\* The lease's receipt comes, or the scope stops waiting for it.
LeaseReceipt == /\ scope.turn = "lease"
                /\ scope' = Over
                /\ stopped' = (stopped \/ lease # "released")
                /\ UNCHANGED <<calls, backend, browser, cleaning, close, lease>>

Next == \/ \E c \in Call : Begin(c) \/ BeforeSubmit(c) \/ Late(c) \/ Stop(c) \/ Answer(c) \/ Misfits(c)
                           \/ Resolves(c) \/ Rejects(c)
        \/ Abort \/ Opens \/ \E outcome \in {"proved", "mismatched", "failed"} : CloseEnds(outcome)
        \/ Expire \/ CleanupSettles \/ CleanupEnds
        \/ SessionCleanup \/ SessionReceipt \/ LeaseDecided \/ LeaseReleased \/ LeaseReceipt

Spec == Init /\ [][Next]_surfaceVars
-----------------------------------------------------------------------------
(* Properties                                                              *)

NoneToCome == browser # "alive" /\ backend[Launch] # "running"

\* The desktop is given back, and a cleanup called released, only when there is no
\* browser and none can come; one that was acquired is closed whatever the cleanup
\* could confirm; and a caller who is told that his call was stopped before the
\* boundary has had, and will have, nothing submitted (browser-controller.ts,
\* cleanup; call-context.ts, wait).
SurfaceIsGivenBack ==
  /\ cleaning = "released" \/ lease \in {"releasing", "released"} => NoneToCome
  /\ cleaning = "unconfirmed" /\ backend[Launch] = "resolved" => close # "none"
  /\ \A c \in Call : call[c] \in {"aborted", "deadline"} => c \notin submitted
=============================================================================
