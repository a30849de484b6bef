---------------------------- MODULE LiveGateRun ----------------------------
(***************************************************************************)
(* native/windows-fixture/scripts: the live conformance run.  One process   *)
(* takes the GUI execution gate, starts a contender that waits for it, lets *)
(* the live tests work on the desktop, releases the gate and sees the       *)
(* contender enter; only then does it write that ownership was serialised.  *)
(* The contender speaks in lines over a pipe, and its exit may overtake     *)
(* them.  The gate is packages/test's, taken by its promise, or one that    *)
(* lets two in: finding that out is what the run is for.                    *)
(***************************************************************************)
EXTENDS Naturals, Sequences

CONSTANT None

VARIABLES
  leaky,     \* whether the gate lets a second owner in
  gate,      \* its owners; "nobody" who may come back holds it in quarantine
  at,        \* the run's await
  job,       \* runChecked's child: its part, exit code, and whether something holds its output
  contender, \* the contender: where it is, its exit code, what it was sent
  pipe,      \* lines it wrote that JsonLineChild has not read
  lines,     \* #lines: read, not asked for
  waiter,    \* #waiters: the next that is pending
  got,       \* what a pending next was given, its continuation still to run
  lost,      \* #failure
  seen,      \* the last of the contender's exit and close events
  observed,  \* what observeSuccessorAcquisition found
  started,   \* releaseState.started
  events,    \* the event ledger
  evidence   \* the evidence file

child == <<pipe, lines, waiter, got, lost, seen>>
ledger == <<observed, started, events>>
runVars == <<leaky, gate, at, job, contender, child, ledger, evidence>>

Init == /\ leaky \in BOOLEAN /\ gate = {} /\ at = "contracts" /\ evidence = FALSE
        /\ job = [part |-> "contracts", code |-> None, held |-> TRUE]
        /\ contender = [at |-> "none", code |-> None, sent |-> None]
        /\ pipe = <<>> /\ lines = <<>> /\ waiter = FALSE /\ got = None /\ lost = FALSE /\ seen = "nothing"
        /\ observed = None /\ started = FALSE /\ events = <<>>

\* Microtasks run before the next event: an event finds no continuation waiting.
Event == got = None /\ at \notin {"done", "failed"}
Recorded(type) == \E i \in DOMAIN events : events[i] = type
Moves(place) == at' = place
-----------------------------------------------------------------------------
(* runChecked                                                              *)

\* The direct child exits; a descendant may still hold its output.
JobExits(code, held) ==
  /\ Event /\ job.code = None
  /\ job' = [job EXCEPT !.code = code, !.held = held]
  /\ UNCHANGED <<leaky, gate, at, contender, child, ledger, evidence>>

OutputEnds ==
  /\ job.code # None /\ job.held /\ job' = [job EXCEPT !.held = FALSE]
  /\ UNCHANGED <<leaky, gate, at, contender, child, ledger, evidence>>

\* Mutant: the exit grace hands the exit result over as if the output had ended.
Succeeded_AtExit == job.code = 0

\* Only a close with code 0 is a success; the exit grace and the deadline throw.
Succeeded == job.code = 0 /\ ~job.held

\* The result of the contracts, which have to be complete, and then of the live tests.
JobReturns(complete) ==
  /\ Event /\ at \in {"contracts", "live"}
  /\ at' = CASE Succeeded /\ complete /\ at = "live" -> "report"
             [] Succeeded /\ complete /\ at = "contracts" -> "acquiring"
             [] OTHER -> IF at = "live" THEN "catch" ELSE "failed"
  /\ UNCHANGED <<leaky, gate, job, contender, child, ledger, evidence>>
-----------------------------------------------------------------------------
(* The contender                                                           *)

Writes(line) == pipe' = Append(pipe, line)
Gone(code) == contender' = [contender EXCEPT !.at = "gone", !.code = code]

ContenderAsks ==
  /\ contender.at = "spawned" /\ contender' = [contender EXCEPT !.at = "asking"] /\ Writes("waiting")
  /\ UNCHANGED <<leaky, gate, at, job, lines, waiter, got, lost, seen, ledger, evidence>>

ContenderEnters ==
  /\ contender.at = "asking" /\ (gate = {} \/ (leaky /\ gate = {"owner"}))
  /\ gate' = gate \cup {"contender"} /\ Writes("acquired")
  /\ contender' = [contender EXCEPT !.at = "holding"]
  /\ UNCHANGED <<leaky, at, job, lines, waiter, got, lost, seen, ledger, evidence>>

\* Its wait of 60 seconds is over, or the scope is under quarantine.
ContenderRefused ==
  /\ contender.at = "asking" /\ Gone(1)
  /\ UNCHANGED <<leaky, gate, at, job, child, ledger, evidence>>

ContenderReleases(confirmed) ==
  /\ contender.at = "holding" /\ contender.sent = "release"
  /\ IF confirmed THEN gate' = gate \ {"contender"} /\ Writes("released") /\ Gone(0)
                  ELSE Gone(1) /\ UNCHANGED <<gate, pipe>>
  /\ UNCHANGED <<leaky, at, job, lines, waiter, got, lost, seen, ledger, evidence>>

\* It was told to, or its stdin was closed: by expectExit, or by the end of the run.
ContenderQuarantines ==
  /\ contender.at = "holding" /\ (contender.sent = "quarantine" \/ at \in {"leaving", "failed"})
  /\ gate' = (gate \ {"contender"}) \cup {"nobody"} /\ Gone(1)
  /\ UNCHANGED <<leaky, at, job, child, ledger, evidence>>
-----------------------------------------------------------------------------
(* JsonLineChild                                                           *)

\* A line goes to the pending next or into the queue; one chunk may hold several.
Consume ==
  /\ pipe # <<>> /\ at \notin {"done", "failed"} /\ pipe' = Tail(pipe)
  /\ IF waiter THEN got' = Head(pipe) /\ waiter' = FALSE /\ UNCHANGED lines
               ELSE lines' = Append(lines, Head(pipe)) /\ UNCHANGED <<got, waiter>>
  /\ UNCHANGED <<leaky, gate, at, job, contender, lost, seen, ledger, evidence>>

\* The exit is told as soon as it is known, the close once the pipe is empty.
Told ==
  /\ Event /\ contender.at = "gone"
  /\ \/ seen = "nothing" /\ seen' = "exit" /\ lost' = TRUE
        /\ waiter' = FALSE /\ got' = IF waiter THEN "failure" ELSE None
     \/ seen = "exit" /\ pipe = <<>> /\ seen' = "close" /\ UNCHANGED <<lost, waiter, got>>
  /\ UNCHANGED <<leaky, gate, at, job, contender, pipe, lines, ledger, evidence>>

NextExpires ==
  /\ Event /\ waiter /\ waiter' = FALSE /\ got' = "timeout"
  /\ UNCHANGED <<leaky, gate, at, job, contender, pipe, lines, lost, seen, ledger, evidence>>

\* nextObserved: a queued line at once, then the failure, then a waiter.
Asks == IF lines # <<>> THEN got' = Head(lines) /\ lines' = Tail(lines) /\ UNCHANGED waiter
        ELSE UNCHANGED lines /\ IF lost THEN got' = "failure" /\ UNCHANGED waiter ELSE waiter' = TRUE /\ got' = None
-----------------------------------------------------------------------------
(* The run                                                                 *)

Acquire(granted) ==
  /\ Event /\ at = "acquiring"
  /\ IF granted THEN /\ gate = {} /\ gate' = {"owner"} /\ events' = <<"ownerAcquired">>
                     /\ contender' = [contender EXCEPT !.at = "spawned"] /\ Asks /\ Moves("waiting")
                ELSE Moves("catch") /\ UNCHANGED <<gate, events, contender, waiter, got, lines>>
  /\ UNCHANGED <<leaky, job, pipe, lost, seen, observed, started, evidence>>

\* The frame "waiting"; then nothing may come for 150 ms.
Waiting ==
  /\ at = "waiting" /\ got # None
  /\ IF got = "waiting" THEN events' = Append(events, "contenderWaiting") /\ Asks /\ Moves("still")
                        ELSE Moves("catch") /\ got' = None /\ UNCHANGED <<events, waiter, lines>>
  /\ UNCHANGED <<leaky, gate, job, contender, pipe, lost, seen, observed, started, evidence>>

\* assertStillWaiting, then the live tests start and the next frame is watched.
Still ==
  /\ at = "still" /\ got # None
  /\ IF got = "timeout" THEN Asks /\ Moves("live") /\ job' = [part |-> "live", code |-> None, held |-> TRUE]
                        ELSE Moves("catch") /\ got' = None /\ UNCHANGED <<waiter, lines, job>>
  /\ UNCHANGED <<leaky, gate, contender, pipe, lost, seen, ledger, evidence>>

\* observeSuccessorAcquisition, and guardAgainstOwnerOverlap, which the live tests and
\* the reading of their report race with.
Observe ==
  /\ at \in {"live", "report", "releasing", "successor", "catch", "leaving"} /\ got # None /\ observed = None
  /\ got' = None
  /\ observed' = IF got # "acquired" THEN "failure" ELSE IF started THEN "fair" ELSE "early"
  /\ events' = IF got = "acquired" THEN Append(events, "successorAcquired") ELSE events
  /\ at' = IF at \in {"live", "report"} /\ observed' # "fair" THEN "catch" ELSE at
  /\ UNCHANGED <<leaky, gate, job, contender, pipe, lines, waiter, lost, seen, started, evidence>>

\* validateLiveReport; then the release is under way.
Report(valid) ==
  /\ Event /\ at = "report"
  /\ IF valid THEN events' = Append(events, "cleanupConfirmed") /\ started' = TRUE /\ Moves("releasing")
              ELSE Moves("catch") /\ UNCHANGED <<events, started>>
  /\ UNCHANGED <<leaky, gate, job, contender, child, observed, evidence>>

\* The gate is given back inside release, some time before its receipt is here.
LetGo ==
  /\ at = "releasing" /\ "owner" \in gate /\ gate' = gate \ {"owner"}
  /\ UNCHANGED <<leaky, at, job, contender, child, ledger, evidence>>

Released(status) ==
  /\ Event /\ at = "releasing" /\ (status = "released" => "owner" \notin gate)
  /\ IF status = "released" THEN events' = Append(events, "ownerReleased") /\ Moves("successor")
                            ELSE Moves("catch") /\ UNCHANGED events
  /\ UNCHANGED <<leaky, gate, job, contender, child, observed, started, evidence>>

Successor ==
  /\ Event /\ at = "successor" /\ observed # None
  /\ IF observed = "fair" THEN contender' = [contender EXCEPT !.sent = "release"] /\ Asks /\ Moves("goodbye")
                          ELSE Moves("catch") /\ UNCHANGED <<contender, waiter, got, lines>>
  /\ UNCHANGED <<leaky, gate, job, pipe, lost, seen, ledger, evidence>>

Goodbye ==
  /\ at = "goodbye" /\ got # None /\ got' = None
  /\ IF got = "released" THEN events' = Append(events, "successorReleased") /\ Moves("ending")
                         ELSE Moves("catch") /\ UNCHANGED events
  /\ UNCHANGED <<leaky, gate, job, contender, pipe, lines, waiter, lost, seen, observed, started, evidence>>

Place(type) == IF ~Recorded(type) THEN 0
               ELSE CHOOSE i \in DOMAIN events : events[i] = type /\ \A j \in 1 .. i - 1 : events[j] # type

\* deriveGateConcurrency: the order of the ledger, by the time each frame was read.
Serialised == /\ Place("cleanupConfirmed") > 0 /\ Place("ownerReleased") > Place("cleanupConfirmed")
              /\ Place("successorAcquired") > Place("ownerReleased")

\* expectExit(0), with the output closed in time, and the evidence, which must be new.
Ending(written) ==
  /\ Event /\ at = "ending"
  /\ evidence' = (written /\ seen = "close" /\ contender.code = 0 /\ Serialised)
  /\ Moves(IF evidence' THEN "done" ELSE "catch")
  /\ UNCHANGED <<leaky, gate, job, contender, child, ledger>>

\* The catch: what was not released is put under quarantine, which may fail and leaves
\* the gate as it is then; a successor that entered is told to do the same.
Catch(done) ==
  /\ Event /\ at = "catch" /\ Moves("leaving")
  /\ gate' = IF Recorded("ownerAcquired") /\ ~Recorded("ownerReleased") /\ done THEN (gate \ {"owner"}) \cup {"nobody"} ELSE gate
  /\ contender' = IF Recorded("successorAcquired") THEN [contender EXCEPT !.sent = "quarantine"] ELSE contender
  /\ UNCHANGED <<leaky, job, child, ledger, evidence>>

\* expectExit(1), and a kill when it did not exit.
Leave ==
  /\ Event /\ at = "leaving" /\ Moves("failed")
  /\ IF contender.at \in {"none", "gone"} THEN UNCHANGED contender ELSE Gone(None)
  /\ UNCHANGED <<leaky, gate, job, child, ledger, evidence>>

Next ==
  \/ \E code \in {0, 1}, held \in BOOLEAN : JobExits(code, held)
  \/ OutputEnds \/ ContenderAsks \/ ContenderEnters \/ ContenderRefused \/ ContenderQuarantines
  \/ Consume \/ Told \/ NextExpires \/ Waiting \/ Still \/ Observe \/ LetGo \/ Successor \/ Goodbye \/ Leave
  \/ \E yes \in BOOLEAN : \/ JobReturns(yes) \/ ContenderReleases(yes) \/ Acquire(yes) \/ Report(yes)
                          \/ Ending(yes) \/ Catch(yes)
  \/ \E status \in {"released", "unconfirmed"} : Released(status)
-----------------------------------------------------------------------------
(* Properties                                                              *)

\* Nobody is let in by the run while something of the live tests holds their output:
\* the gate is given up only for tests that have wholly ended.
DesktopIsHeld == (job.part = "live" /\ job.held) => gate \cap {"owner", "nobody"} # {}

\* The evidence that owners were serialised says so of a contender that was read to
\* have entered after the release was confirmed, that has left again, and nothing is left shut.
EvidenceIsEarned == evidence => /\ Recorded("successorReleased") /\ gate = {} /\ contender.code = 0
                                /\ Place("successorAcquired") > Place("ownerReleased")

\* README.md of the fixture: the evidence is written only after the gate is released
\* and a successor proves entry; and the desktop is never given away under the tests.
LiveRunIsProven == DesktopIsHeld /\ EvidenceIsEarned
=============================================================================
