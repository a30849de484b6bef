------------------------------ MODULE CaseRunner ------------------------------
(***************************************************************************)
(* packages/test, runCaseV3: one attempt of a Case from the claim on its    *)
(* two directories over surfaces, evidence, judge and bundle to the word on *)
(* the desktop gate.  The kernel, the gate and the report writer are used   *)
(* through what CaseExecution, ExecutionGate and the report bundle promise; *)
(* files in the staging directory may be changed by others at any await.    *)
(***************************************************************************)
EXTENDS Naturals, FiniteSets, Sequences, TLC

CONSTANTS Calls,  \* what one process may call runCaseV3 with, in options of the shape below
          Image,  \* the artifacts that are images, which have a collector of their own
          None

VARIABLES
  at,         \* at[r]: where the call is
  claims,     \* activeClaims
  disk,       \* the directories of a run that exist
  barrier,    \* RunnerV3GateBarrier
  gate,       \* gate[r]: what became of the execution gate
  alive,      \* alive[r]: surfaces that exist, whatever the program knows of them
  worker,     \* worker[r]: the Case's own code
  acquired,   \* acquired[r]: surfaces whose setup returned
  execution,  \* execution[r]: what the kernel returned
  submitted,  \* submitted[r]: the evidence and whether it is complete
  staged,     \* staged[r]: artifact -> its bytes are those that were "written", or "other"
  judged,     \* judged[r]: the outcomes so far
  required,   \* required[r]: artifacts whose digest the bundle has to match
  bundle,     \* bundle[r]: the artifacts of the bundle
  told,       \* told[r]: what the caller got
  options     \* options[r]: the snapshot of what the call r was made with

vars == <<at, claims, disk, barrier, gate, alive, worker, acquired, execution, submitted,
          staged, judged, required, bundle, told, options>>
\* The calls, and of each: staging, output: paths, as sequences of names; surfaces: how many
\* it asks for; evidence: the artifacts its Case may submit; policy: [artifact, complete], what
\* the report must hold; criteria: for each judge criterion the artifacts it selects; exposed:
\* bound, the staged files somebody else may change.
Run == DOMAIN options
paths == <<claims, disk>>
desktop == <<barrier, gate, alive>>
kernel == <<options, worker, acquired, execution>>
files == <<submitted, staged, judged, required, bundle>>

Outcome == {"pass", "otherLabel", "insufficient", "providerFailure"}
Phase == {"new", "preflight", "fixtures", "setup", "acquiring", "body", "ended", "materialize", "judge",
          "asked", "prepared", "finalize", "over"}
ToldOf == {None, "rejected", "kernelStop", "surfaceAcquisition", "evidence", "materialization",
           "adaptation", "publication", "exit0", "exit1"}

TypeOK ==
  /\ at \in [Run -> Phase] /\ claims \subseteq Run /\ disk \subseteq Run \X {"staging", "output"}
  /\ barrier \in [Run -> [started : BOOLEAN, unknown : BOOLEAN, confirmed : BOOLEAN]]
  /\ gate \in [Run -> {"held", "released", "stuck", "quarantined"}]
  /\ \A r \in Run : alive[r] \subseteq 1..options[r].surfaces /\ acquired[r] \in 0..options[r].surfaces
  /\ worker \in [Run -> {"notStarted", "running", "ended"}]
  /\ told \in [Run -> ToldOf]

Init == /\ options \in Calls
        /\ at = [r \in Run |-> "new"] /\ claims = {} /\ disk = {}
        /\ barrier = [r \in Run |-> [started |-> FALSE, unknown |-> FALSE, confirmed |-> FALSE]]
        /\ gate = [r \in Run |-> "held"] /\ alive = [r \in Run |-> {}]
        /\ worker = [r \in Run |-> "notStarted"] /\ acquired = [r \in Run |-> 0]
        /\ execution = [r \in Run |-> None]
        /\ submitted = [r \in Run |-> <<>>] /\ staged = [r \in Run |-> <<>>]
        /\ judged = [r \in Run |-> <<>>] /\ required = [r \in Run |-> {}]
        /\ bundle = [r \in Run |-> None] /\ told = [r \in Run |-> None]

Goes(r, place) == at' = [at EXCEPT ![r] = place]
\* An error on the way: the claim goes unless it sticks, then the gate is asked.
Throws(r, phase) == Goes(r, "finalize") /\ told' = [told EXCEPT ![r] = phase]
Ends(r, phase) == Throws(r, phase) /\ claims' = claims \ {r} /\ UNCHANGED disk
-----------------------------------------------------------------------------
(* The claim on the directories                                            *)

Within(p, q) == Len(p) <= Len(q) /\ SubSeq(q, 1, Len(p)) = p
Overlap(p, q) == Within(p, q) \/ Within(q, p)
PlacesOf(r) == {options[r].staging, options[r].output}

\* Mutant: a directory inside another run's is taken for a place of its own.
Meet_Equal(r, q) == PlacesOf(r) \cap PlacesOf(q) # {}
Meet(r, q) == \E p \in PlacesOf(r), o \in PlacesOf(q) : Overlap(p, o)

\* Options that are refused, directories that overlap, or those of an active run.
Claim(r) ==
  /\ at[r] = "new"
  /\ \/ /\ ~Overlap(options[r].staging, options[r].output) /\ \A q \in claims : ~Meet(r, q)
        /\ claims' = claims \cup {r} /\ Goes(r, "preflight") /\ UNCHANGED told
     \/ Throws(r, "rejected") /\ UNCHANGED claims
  /\ UNCHANGED <<disk, desktop, kernel, files>>

\* A directory of the run that exists, or that a run made inside it, is refused; so are a call
\* for no surface and a Case that the kernel does not begin.
Exists(r, which) ==
  \E made \in disk : Within(options[r][which], options[made[1]][made[2]])
Preflight(r) ==
  /\ at[r] = "preflight"
  /\ \/ Ends(r, "rejected")
     \/ /\ ~Exists(r, "staging") /\ ~Exists(r, "output") /\ options[r].surfaces > 0
        /\ Goes(r, "fixtures") /\ UNCHANGED <<paths, told>>
  /\ UNCHANGED <<desktop, kernel, files>>
-----------------------------------------------------------------------------
(* The kernel runs the Case                                                *)

\* The fixtures are set up, then the runner's body begins.
Fixtures(r) ==
  /\ at[r] = "fixtures" /\ worker' = [worker EXCEPT ![r] = "running"]
  /\ IF worker[r] = "running" THEN Goes(r, "setup") ELSE UNCHANGED at
  /\ UNCHANGED <<options, paths, desktop, acquired, execution, files, told>>

\* The gate hears of an acquisition before it begins.
Acquire(r) ==
  /\ at[r] = "setup" /\ acquired[r] < options[r].surfaces /\ Goes(r, "acquiring")
  /\ barrier' = [barrier EXCEPT ![r].started = TRUE, ![r].unknown = TRUE]
  /\ UNCHANGED <<paths, gate, alive, kernel, files, told>>

Acquired(r) ==
  /\ at[r] = "acquiring" /\ Goes(r, "setup")
  /\ alive' = [alive EXCEPT ![r] = @ \cup {acquired[r] + 1}]
  /\ acquired' = [acquired EXCEPT ![r] = @ + 1]
  /\ barrier' = [barrier EXCEPT ![r].unknown = FALSE]
  /\ UNCHANGED <<options, paths, gate, worker, execution, files, told>>

\* A setup that throws, or is given up, may have brought its surface, or may yet.
Comes(r) ==
  /\ barrier[r].unknown /\ alive' = [alive EXCEPT ![r] = @ \cup {acquired[r] + 1}]
  /\ UNCHANGED <<at, paths, barrier, gate, kernel, files, told>>

Body(r) == /\ at[r] = "setup" /\ acquired[r] = options[r].surfaces /\ Goes(r, "body")
           /\ UNCHANGED <<paths, desktop, kernel, files, told>>

\* The Case, or code of it that goes on, submits until the seal.
Submit(r, a, complete) ==
  /\ at[r] \in {"body", "ended"} /\ a \in options[r].evidence \ DOMAIN submitted[r]
  /\ submitted' = [submitted EXCEPT ![r] = [x \in DOMAIN @ \cup {a} |-> IF x = a THEN complete ELSE @[x]]]
  /\ UNCHANGED <<at, paths, desktop, kernel, staged, judged, required, bundle, told>>

\* What the kernel promises: it cleans up after the Case's code has settled or agreed
\* to stop, and a cleanup that passed has ended what was acquired.
Stops == [worker : {"notStarted"}, clean : {"notStarted"}, status : {"failed", "timedOut"}]
         \cup [worker : {"unconfirmed"}, clean : {"notStarted"}, status : {"failed", "timedOut"}]
         \cup [worker : {"settled", "cooperativeStopped"}, clean : {"passed", "failed", "notStarted"}, status : {"failed", "timedOut"}]
         \cup [worker : {"settled"}, clean : {"passed"}, status : {"passed"}]
OriginOf(status) == IF status = "passed" THEN {"none"} ELSE {"business", "infrastructure"}
Executed(r) ==
  \E e \in Stops : \E origin \in OriginOf(e.status) :
    /\ at[r] \in {"fixtures", "setup", "acquiring", "body"}
    /\ e.status = "passed" => at[r] = "body"
    /\ e.worker = "notStarted" <=> worker[r] = "notStarted"
    /\ execution' = [execution EXCEPT ![r] = [worker |-> e.worker, clean |-> e.clean,
                                              status |-> e.status, origin |-> origin]]
    /\ worker' = [worker EXCEPT ![r] = CASE e.worker = "notStarted" -> @
                                         [] e.worker = "unconfirmed" -> "running"
                                         [] OTHER -> "ended"]
    /\ alive' = [alive EXCEPT ![r] = IF e.clean = "passed" THEN @ \ (1..acquired[r]) ELSE @]
    /\ Goes(r, "ended")
    /\ UNCHANGED <<options, paths, barrier, gate, acquired, files, told>>

Settled(e) == e.worker \in {"settled", "cooperativeStopped"}
PublicationReady(e) == Settled(e) /\ e.clean \in {"passed", "failed"}

\* Mutant: a cleanup that passed is enough, whatever an acquisition may yet bring.
Confirmed_Passed(r, e) == PublicationReady(e) /\ e.clean = "passed"
Confirmed(r, e) == ~barrier[r].unknown /\ PublicationReady(e) /\ e.clean = "passed"

\* Mutant: the paths go back whatever the worker does.
Sticks_Never(e) == FALSE
Sticks(e) == ~PublicationReady(e) /\ e.worker # "notStarted"

\* observeExecution, the kernel's word, and the seal, in one turn.
Observed(r) ==
  LET e == execution[r] IN
  /\ at[r] = "ended"
  /\ barrier' = [barrier EXCEPT ![r].confirmed = Confirmed(r, e)]
  /\ IF ~PublicationReady(e)
       THEN Throws(r, "kernelStop") /\ claims' = (IF Sticks(e) THEN claims ELSE claims \ {r}) /\ UNCHANGED disk
     ELSE IF acquired[r] = 0 THEN Ends(r, "surfaceAcquisition")
     ELSE \/ Goes(r, "materialize") /\ UNCHANGED <<paths, told>>
          \/ Ends(r, "evidence")
  /\ UNCHANGED <<gate, alive, kernel, files>>
-----------------------------------------------------------------------------
(* Evidence and judge                                                      *)

Graph == "evidence.graph"
Written(r) == DOMAIN submitted[r] \cup {Graph}
Complete(r, a) == IF a = Graph THEN \A x \in DOMAIN submitted[r] \ Image : submitted[r][x] ELSE submitted[r][a]
ResultFile(k) == "judge." \o ToString(k)

\* The directory is made and every file written; or one of the writes fails.
Materialize(r) ==
  /\ at[r] = "materialize" /\ disk' = disk \cup {<<r, "staging">>}
  /\ \/ /\ staged' = [staged EXCEPT ![r] = [a \in Written(r) |-> "written"]]
        /\ Goes(r, "judge") /\ UNCHANGED <<claims, told>>
     \/ Throws(r, "materialization") /\ claims' = claims \ {r} /\ UNCHANGED staged
  /\ UNCHANGED <<desktop, kernel, submitted, judged, required, bundle>>

\* Somebody else changes a file.
Changes(r, a) ==
  /\ at[r] \in {"judge", "asked", "prepared"} /\ a \in DOMAIN staged[r] \cap options[r].exposed
  /\ staged' = [staged EXCEPT ![r][a] = "other"]
  /\ UNCHANGED <<at, paths, desktop, kernel, submitted, judged, required, bundle, told>>

AssertMaterialized(r, of) == \A a \in of : staged[r][a] = "written"

\* selectEvidence: what a criterion names has been submitted in this attempt.
Selectable(r, k) == options[r].criteria[k] \subseteq Written(r)
Turn(r) == Len(judged[r]) + 1
Whole(r, k) == \A a \in options[r].criteria[k] : Complete(r, a)

\* The bytes are compared before the first criterion and before each that asks the
\* provider; a criterion of evidence that is not there ends the run.
Ask(r) ==
  LET k == Turn(r) IN
  /\ at[r] = "judge" /\ k <= Len(options[r].criteria)
  /\ IF ~Selectable(r, k) \/ ((k = 1 \/ Whole(r, k)) /\ ~AssertMaterialized(r, Written(r)))
       THEN Ends(r, "evidence") /\ UNCHANGED required
       ELSE /\ required' = [required EXCEPT ![r] = @ \cup options[r].criteria[k]]
            /\ Goes(r, "asked") /\ UNCHANGED <<paths, told>>
  /\ UNCHANGED <<desktop, kernel, submitted, staged, judged, bundle>>

\* Mutant: the provider is asked about what is not complete.
Insufficient_Ask(r, k) == FALSE
Insufficient(r, k) == ~Whole(r, k)

\* The provider's outcome, or that of a stop or the deadline, is written beside;
\* of evidence that is incomplete the provider was not asked.
Answers(r, outcome) ==
  LET k == Turn(r) IN
  /\ at[r] = "asked"
  /\ Insufficient(r, k) => outcome = "insufficient"
  /\ \/ /\ judged' = [judged EXCEPT ![r] = Append(@, outcome)]
        /\ staged' = [staged EXCEPT ![r] = [a \in DOMAIN @ \cup {ResultFile(k)} |-> IF a = ResultFile(k) THEN "written" ELSE @[a]]]
        /\ required' = [required EXCEPT ![r] = @ \cup {ResultFile(k)}]
        /\ Goes(r, "judge") /\ UNCHANGED <<paths, told>>
     \/ Ends(r, "evidence") /\ UNCHANGED <<staged, judged, required>>
  /\ UNCHANGED <<desktop, kernel, submitted, bundle>>

\* Mutant: the judge's word replaces the kernel's.
Status_Judge(r) == IF \E i \in DOMAIN judged[r] : judged[r][i] # "pass" THEN "failed"
                   ELSE IF judged[r] # <<>> THEN "passed" ELSE execution[r].status
\* mergeJudgeResultV3: a failure of the kernel stays first.
Status(r) == IF execution[r].status = "passed" /\ \E i \in DOMAIN judged[r] : judged[r][i] # "pass"
               THEN "failed" ELSE execution[r].status

\* mergeFailureOrigins, normalizeFailureOrigin
JudgeOrigin(o) == CASE o = "pass" -> "none" [] o = "otherLabel" -> "business"
                    [] o = "insufficient" -> "insufficient" [] OTHER -> "infrastructure"
Merged(all) == IF "infrastructure" \in all THEN "infrastructure" ELSE IF "business" \in all THEN "business"
               ELSE IF "insufficient" \in all THEN "insufficient" ELSE "none"
Origin(r) ==
  LET all == {execution[r].origin} \cup {JudgeOrigin(judged[r][i]) : i \in DOMAIN judged[r]}
  IN IF Status(r) = "passed" THEN "none"
     ELSE IF Status(r) = "timedOut" \/ Merged(all) = "none" THEN "infrastructure" ELSE Merged(all)

\* validateRequiredEvidence, which knows of text evidence alone.
Satisfied(r, q) == q.artifact \in Written(r) \ Image /\ (q.complete => Complete(r, q.artifact))
\* createReportV3Attempt: the bytes of the text evidence once more, then what is
\* required of it.
Adapt(r) ==
  /\ at[r] = "judge" /\ Len(judged[r]) = Len(options[r].criteria)
  /\ IF AssertMaterialized(r, Written(r) \ Image) /\ \A q \in options[r].policy : Satisfied(r, q)
       THEN /\ required' = [required EXCEPT ![r] = @ \cup {q.artifact : q \in options[r].policy}]
            /\ Goes(r, "prepared") /\ UNCHANGED <<paths, told>>
       ELSE Ends(r, "adaptation") /\ UNCHANGED required
  /\ UNCHANGED <<desktop, kernel, submitted, staged, judged, bundle>>
-----------------------------------------------------------------------------
(* The bundle and the gate                                                 *)

\* Mutant: only the policy's artifacts have their digest compared.
Demanded_Policy(r) == {q.artifact : q \in options[r].policy}
Demanded(r) == required[r]

\* publishPreparedCaseV3: the claim goes whatever became of the bundle.
Publish(r) ==
  /\ at[r] = "prepared" /\ claims' = claims \ {r} /\ Goes(r, "finalize")
  /\ \/ /\ \A a \in Demanded(r) : staged[r][a] = "written"
        /\ bundle' = [bundle EXCEPT ![r] = staged[r]] /\ disk' = disk \cup {<<r, "output">>}
        /\ told' = [told EXCEPT ![r] = IF Status(r) = "passed" THEN "exit0" ELSE "exit1"]
     \/ /\ told' = [told EXCEPT ![r] = "publication"] /\ UNCHANGED bundle
        /\ disk' = disk \cup {<<r, "output">>} \/ UNCHANGED disk
  /\ UNCHANGED <<desktop, kernel, submitted, staged, judged, required>>

\* finalize; what it throws masks no error, but a result.
Finalize(r) ==
  /\ at[r] = "finalize" /\ Goes(r, "over")
  /\ gate' = [gate EXCEPT ![r] = IF ~barrier[r].started \/ barrier[r].confirmed THEN "released" ELSE "quarantined"]
  /\ UNCHANGED <<paths, barrier, alive, kernel, files, told>>
FinalizeFails(r) ==
  /\ at[r] = "finalize" /\ Goes(r, "over") /\ gate' = [gate EXCEPT ![r] = "stuck"]
  /\ told' = [told EXCEPT ![r] = IF @ \in {"exit0", "exit1"} THEN "publication" ELSE @]
  /\ UNCHANGED <<paths, barrier, alive, kernel, files>>

\* Code that never settled may still end.
WorkerEnds(r) == /\ at[r] = "over" /\ worker[r] = "running" /\ worker' = [worker EXCEPT ![r] = "ended"]
                 /\ UNCHANGED <<options, at, paths, desktop, acquired, execution, files, told>>

Next == \E r \in Run :
          \/ Claim(r) \/ Preflight(r) \/ Fixtures(r) \/ Acquire(r) \/ Acquired(r) \/ Comes(r) \/ Body(r)
          \/ \E a \in options[r].evidence, complete \in BOOLEAN : Submit(r, a, complete)
          \/ Executed(r) \/ Observed(r) \/ Materialize(r) \/ Ask(r) \/ Adapt(r)
          \/ \E a \in DOMAIN staged[r] : Changes(r, a)
          \/ \E o \in Outcome : Answers(r, o)
          \/ Publish(r) \/ Finalize(r) \/ FinalizeFails(r) \/ WorkerEnds(r)
-----------------------------------------------------------------------------
(* RunIsEarned                                                             *)
(* A caller is told 0 only of a Case whose code settled, whose surfaces are *)
(* gone and whose gate is free, in a bundle where what had to be there, and *)
(* what the judge passed, is complete and byte for byte what was collected. *)
ExitIsEarned == \A r \in Run : told[r] = "exit0" /\ at[r] = "over" =>
  /\ execution[r].status = "passed" /\ worker[r] = "ended" /\ alive[r] = {} /\ gate[r] = "released"
  /\ Len(judged[r]) = Len(options[r].criteria) /\ \A i \in DOMAIN judged[r] : judged[r][i] = "pass"
  /\ \A i \in DOMAIN options[r].criteria : \A a \in options[r].criteria[i] : Complete(r, a) /\ bundle[r][a] = "written"
  /\ \A q \in options[r].policy : bundle[r][q.artifact] = "written"
(* The desktop is given to the next run only when no surface of this one is *)
(* left on it, or comes later.                                             *)
GateIsEarned == \A r \in Run : gate[r] = "released" => alive[r] = {}
(* Two runs never work in directories that meet, the one whose code never   *)
(* settled included.                                                       *)
Working(r) == r \in claims \/ at[r] \in {"fixtures", "setup", "acquiring", "body", "ended", "materialize", "judge", "asked", "prepared"}
              \/ (worker[r] = "running" /\ at[r] # "new")
PathsAreOwn == \A r, q \in Run : r # q /\ Working(r) /\ Working(q) =>
                 \A p \in PlacesOf(r), o \in PlacesOf(q) : ~Within(p, o)
(* A failure is the product's only if no part of the runner failed.         *)
BlameIsFair == \A r \in Run : told[r] = "exit1" =>
  (Origin(r) \in {"business", "insufficient"} =>
     execution[r].origin # "infrastructure" /\ \A i \in DOMAIN judged[r] : judged[r][i] # "providerFailure")
RunIsEarned == ExitIsEarned /\ GateIsEarned /\ PathsAreOwn /\ BlameIsFair
=============================================================================
