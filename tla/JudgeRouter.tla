---------------------------- MODULE JudgeRouter ----------------------------
(***************************************************************************)
(* packages/llm-judge: a route asks its candidates in turn whether the      *)
(* evidence of a run shows what a rubric asks.  Every candidate is raced    *)
(* against one deadline and one abort signal, which reach the provider only *)
(* through a controller of that call; the next candidate is asked only when *)
(* a provider was busy.  A provider answers late, wrongly, or about         *)
(* evidence it was not given.                                               *)
(***************************************************************************)
EXTENDS Naturals, FiniteSets, Sequences

CONSTANTS Config,    \* router configurations that are tried
          Request,   \* requests that are made: evidence, labels, what is wrong with them
          Decision,  \* what a model may write
          Script,    \* the steps of the fake provider
          None

VARIABLES
  route,      \* the prepared candidates
  request,    \* the normalised request
  late,       \* Date.now() >= deadlineAt
  aborted,    \* the caller's signal
  at,         \* where classify is
  index,      \* the candidate it is at
  call,       \* call[i]: how far the provider call of candidate i is
  signalled,  \* signalled[i]: the controller of candidate i is aborted
  said,       \* said[i]: the decision its model wrote
  race,       \* what settled the race of the current candidate
  outcome, attempts,
  cursor,     \* FakeJudgeProvider.#cursor
  child,      \* child[i]: the process of a command line provider
  sentLate    \* a request was sent to a model after the stop

vars == <<route, request, late, aborted, at, index, call, signalled, said, race, outcome,
          attempts, cursor, child, sentLate>>
Candidates == 1..Len(route)

Failure(kind, retryable) == [status |-> "providerFailure", kind |-> kind, retryable |-> retryable]

-----------------------------------------------------------------------------
(* Configuration.  A profile is of a vendor with its models, or names a     *)
(* registered provider; a candidate is a profile and a model of it.         *)

\* router-config.ts normalizeRegisteredProviders, normalizeProfile
Provider(profile) == profile.provider \in {"vendor", "fake", "command"}
NormalizeProfile(profile) == IF profile.provider = "vendor" THEN profile.models # {}
                             ELSE Provider(profile) /\ profile.models = {}

\* providers/provider-runtime.ts normalizeProviderOptions
NormalizeProviderOptions(profile) == profile.wrong = "nothing"

\* router-config.ts prepareCandidate
PrepareCandidate(config, candidate) ==
  /\ candidate.profile \in DOMAIN config.profiles
  /\ LET profile == config.profiles[candidate.profile]
     IN  IF profile.provider = "vendor" THEN candidate.model \in profile.models
         ELSE candidate.model = None

\* router-config.ts normalizeRouter
NormalizeRouter(config) ==
  /\ \A p \in DOMAIN config.profiles : /\ NormalizeProfile(config.profiles[p])
                                       /\ NormalizeProviderOptions(config.profiles[p])
  /\ config.route # <<>>
  /\ \A i \in DOMAIN config.route : PrepareCandidate(config, config.route[i])
  /\ \A i, j \in DOMAIN config.route : config.route[i] = config.route[j] => i = j

\* validation-primitives.ts: the data is plain, within its budget and of its keys
PlainData(q) == q.wrong # "data"
\* request-validation.ts: the evidence is of this run, and its images are what they say
NormalizeEvidence(q) == q.wrong \notin {"otherRun", "bytes"}
NormalizeJudgeRequest(q) == /\ PlainData(q) /\ NormalizeEvidence(q)
                            /\ q.labels # {} /\ q.wrong \notin {"duplicate", "total"}
\* invocation.ts: the deadline is a number and the signal a signal
SnapshotInvocation(q) == q.wrong # "invocation"

-----------------------------------------------------------------------------
(* What a provider's outcome has to be                                      *)

\* outcome-validation.ts refs, facts, hypotheses, support
Refs(refs, permitted) == refs \subseteq permitted
Facts(facts, refs) == \A f \in facts : f # {} /\ f \subseteq refs
Hypotheses(hypotheses, refs) == \A h \in hypotheses : h \subseteq refs
Support(o, required) ==
  /\ Refs(o.refs, request.evidence)
  /\ Facts(o.facts, o.refs) /\ Hypotheses(o.hypotheses, o.refs)
  /\ required => o.refs # {} /\ o.facts # {}

\* outcome-validation.ts normalizeProviderOutcome
NormalizeProviderOutcome(o) ==
  \/ o.status = "classified" /\ request.evidence # {} /\ o.label \in request.labels /\ Support(o, TRUE)
  \/ o.status = "insufficient" /\ Support(o, FALSE)
  \/ o.status = "providerFailure"

\* providers/structured-output.ts bindStructuredDecision
BindStructuredDecision(d) ==
  IF \/ d.status = "classified" /\ d.reason = None
     \/ d.status = "insufficient" /\ d.label = None THEN d
  ELSE Failure("invalidResponse", FALSE)

\* providers/provider-runtime.ts throwMappedProviderError
ThrowMappedProviderError(status) ==
  CASE status \in {401, 403} -> Failure("authentication", FALSE)
    [] status = 429 -> Failure("rateLimited", TRUE)
    [] status \in 500..599 -> Failure("server", TRUE)
    [] OTHER -> Failure("provider", status = None)

Init ==
  /\ route = <<>> /\ request = None /\ late = FALSE /\ aborted = FALSE /\ at = "new" /\ index = 0
  /\ call = <<>> /\ signalled = <<>> /\ said = <<>> /\ race = None /\ outcome = None
  /\ attempts = <<>> /\ cursor = 0 /\ child = <<>> /\ sentLate = FALSE

\* The fake provider may have gone through some of its script for an earlier router.
CreateJudgeRouter ==
  /\ at = "new"
  /\ \E config \in Config :
       IF NormalizeRouter(config)
       THEN LET all(v) == [i \in DOMAIN config.route |-> v]
            IN  /\ at' = "ready"
                /\ route' = [i \in DOMAIN config.route |-> config.profiles[config.route[i].profile].provider]
                /\ call' = all("none") /\ signalled' = all(FALSE) /\ said' = all(None) /\ child' = all("none")
                /\ cursor' \in IF \E i \in DOMAIN route' : route'[i] = "fake" THEN 0 .. Len(Script) ELSE {0}
       ELSE at' = "refused" /\ UNCHANGED <<route, call, signalled, said, child, cursor>>
  /\ UNCHANGED <<request, late, aborted, index, race, outcome, attempts, sentLate>>

\* router.ts classify, up to its loop
Classify ==
  /\ at = "ready"
  /\ \E q \in Request :
       IF q.wrong # "route" /\ NormalizeJudgeRequest(q) /\ SnapshotInvocation(q)
       THEN at' = "judging" /\ request' = q /\ index' = 1
       ELSE at' = "refused" /\ UNCHANGED <<request, index>>
  /\ UNCHANGED <<route, late, aborted, call, signalled, said, race, outcome, attempts, cursor, child, sentLate>>

-----------------------------------------------------------------------------
(* judge                                                                    *)

\* judge.ts currentStop: the abort is named before the deadline
CurrentStop == IF aborted THEN "aborted" ELSE IF late THEN "deadlineExceeded" ELSE None
Stopped(reason) == Failure(reason, FALSE)

\* judge.ts judge, up to the race: the listener, the timer and the call are set up
Judge ==
  /\ at = "judging"
  /\ IF CurrentStop # None
     THEN at' = "judged" /\ outcome' = Stopped(CurrentStop) /\ UNCHANGED <<call, race>>
     ELSE at' = "racing" /\ call' = [call EXCEPT ![index] = "due"] /\ race' = None /\ UNCHANGED outcome
  /\ UNCHANGED <<route, request, late, aborted, index, signalled, said, attempts, cursor, child, sentLate>>

\* The first to settle the race decides it; a call that is over says nothing.
Settle(i, result) == race' = IF i = index /\ at = "racing" /\ race = None THEN result ELSE race
SettledWith(i, result) ==
  /\ call' = [call EXCEPT ![i] = "settled"]
  /\ Settle(i, IF CurrentStop # None THEN [kind |-> "stop", reason |-> CurrentStop] ELSE result)

\* The process of a command line provider is told to end when its call is aborted.
StopChild(i) == child' = IF child[i] = "running" THEN [child EXCEPT ![i] = "stopping"] ELSE child
Signal(reason) ==
  /\ signalled' = [signalled EXCEPT ![index] = TRUE]
  /\ Settle(index, [kind |-> "stop", reason |-> reason])
  /\ StopChild(index)

\* judge.ts onAbort, with the caller's abort
OnAbort ==
  /\ ~aborted /\ aborted' = TRUE /\ request # None /\ at # "done"
  /\ IF at = "racing" THEN Signal("aborted") ELSE UNCHANGED <<signalled, race, child>>
  /\ UNCHANGED <<route, request, late, at, index, call, said, outcome, attempts, cursor, sentLate>>

\* The deadline passes; the timer that notices comes later.
Clock ==
  /\ ~late /\ late' = TRUE /\ at \in {"judging", "racing", "judged"}
  /\ UNCHANGED <<route, request, aborted, at, index, call, signalled, said, race, outcome, attempts,
                 cursor, child, sentLate>>

\* judge.ts reachDeadline
ReachDeadline ==
  /\ late /\ at = "racing" /\ ~signalled[index] /\ Signal("deadlineExceeded")
  /\ UNCHANGED <<route, request, late, aborted, at, index, call, said, outcome, attempts, cursor, sentLate>>

\* judge.ts providerCall, up to the provider
Dispatch(i) ==
  /\ call[i] = "due"
  /\ IF CurrentStop # None THEN SettledWith(i, None)
     ELSE call' = [call EXCEPT ![i] = "called"] /\ UNCHANGED race
  /\ UNCHANGED <<route, request, late, aborted, at, index, signalled, said, outcome, attempts, cursor, child, sentLate>>

-----------------------------------------------------------------------------
(* The providers                                                            *)

Thrown(failure) == [kind |-> "error", failure |-> failure]
Value(value) == [kind |-> "value", value |-> value]

\* providers/provider-runtime.ts apiKeyFromEnvironment
ApiKey(i) ==
  /\ call[i] = "called" /\ route[i] = "vendor"
  /\ \/ call' = [call EXCEPT ![i] = "importing"] /\ UNCHANGED race
     \/ SettledWith(i, Thrown(Failure("authentication", FALSE)))
  /\ UNCHANGED <<route, request, late, aborted, at, index, signalled, said, outcome, attempts, cursor, child, sentLate>>

\* As if the import were not followed by another look at the signal.
CanDispatch_Always(i) == TRUE

\* providers/provider-runtime.ts ensureProviderCanDispatch
CanDispatch(i) == ~signalled[i] /\ ~late

\* A vendor's judge, after its library was imported: the request goes out or not.
Create(i) ==
  /\ call[i] = "importing"
  /\ IF CanDispatch(i)
     THEN /\ call' = [call EXCEPT ![i] = "sent"] /\ UNCHANGED race
          /\ sentLate' = (sentLate \/ aborted \/ late)
     ELSE SettledWith(i, Thrown(ThrowMappedProviderError(None))) /\ UNCHANGED sentLate
  /\ UNCHANGED <<route, request, late, aborted, at, index, signalled, said, outcome, attempts, cursor, child>>

\* A model's decision, as the provider hands it on.
Says(i, d) == /\ said' = [said EXCEPT ![i] = d]
              /\ SettledWith(i, Value(BindStructuredDecision(d)))
Fails(i, failure) == SettledWith(i, Thrown(failure)) /\ UNCHANGED said

\* A vendor's judge, after the answer: a decision, an unfinished one, or an error.
Respond(i) ==
  /\ call[i] = "sent"
  /\ \/ \E d \in Decision : Says(i, d)
     \/ SettledWith(i, Value(Failure("invalidResponse", FALSE))) /\ UNCHANGED said
     \/ \E status \in {401, 429, 500, 400, None} : Fails(i, ThrowMappedProviderError(status))
  /\ UNCHANGED <<route, request, late, aborted, at, index, signalled, outcome, attempts, cursor, child, sentLate>>

\* fake-provider.ts: the next step of the script
Fake(i) ==
  /\ call[i] = "called" /\ route[i] = "fake" /\ cursor' = cursor + 1
  /\ LET step == IF cursor < Len(Script) THEN Script[cursor + 1] ELSE [kind |-> "exhausted"]
     IN  \/ step.kind = "return" /\ said' = [said EXCEPT ![i] = step.output] /\ SettledWith(i, Value(step.output))
         \/ step.kind = "throw" /\ Fails(i, step.failure)
         \/ step.kind = "exhausted" /\ Fails(i, Failure("provider", FALSE))
         \/ step.kind = "waitForAbort" /\ call' = [call EXCEPT ![i] = "waiting"] /\ UNCHANGED <<race, said>>
  /\ UNCHANGED <<route, request, late, aborted, at, index, signalled, outcome, attempts, child, sentLate>>
FakeRejects(i) ==
  /\ call[i] = "waiting" /\ signalled[i] /\ Fails(i, None)
  /\ UNCHANGED <<route, request, late, aborted, at, index, signalled, outcome, attempts, cursor, child, sentLate>>

\* As if the process were not told of a stop that came before it.
Spawn_Deaf(i) ==
  /\ call[i] = "called" /\ route[i] = "command" /\ call' = [call EXCEPT ![i] = "process"]
  /\ child' = [child EXCEPT ![i] = "running"]
  /\ UNCHANGED <<route, request, late, aborted, at, index, signalled, said, race, outcome, attempts, cursor, sentLate>>

\* examples/codex-exec-provider.ts: the process is started after some awaits, and told
\* to end at once when the call was stopped in the meantime.
Spawn(i) ==
  /\ call[i] = "called" /\ route[i] = "command" /\ call' = [call EXCEPT ![i] = "process"]
  /\ child' = [child EXCEPT ![i] = IF signalled[i] \/ late THEN "stopping" ELSE "running"]
  /\ UNCHANGED <<route, request, late, aborted, at, index, signalled, said, race, outcome, attempts, cursor, sentLate>>
DeadlineTimer(i) ==
  /\ late /\ child[i] = "running" /\ StopChild(i)
  /\ UNCHANGED <<route, request, late, aborted, at, index, call, signalled, said, race, outcome, attempts, cursor, sentLate>>
Closed(i) ==
  /\ call[i] = "process" /\ child' = [child EXCEPT ![i] = "closed"]
  /\ \/ child[i] = "running" /\ \E d \in Decision : Says(i, d)
     \/ Fails(i, Failure("provider", FALSE))
  /\ UNCHANGED <<route, request, late, aborted, at, index, signalled, outcome, attempts, cursor, sentLate>>

-----------------------------------------------------------------------------
(* The end of judge and of a turn of the route                              *)

\* judge.ts providerErrorData: what a provider threw counts only when it says what it is
ProviderErrorData(failure) ==
  IF failure = None THEN Failure("provider", FALSE) ELSE Failure(failure.kind, failure.retryable)

\* judge.ts judge, after the race; the stop is looked for before and after the
\* validation, which does not wait, so the later look decides
Settled ==
  /\ at = "racing" /\ race # None /\ at' = "judged"
  /\ \/ race.kind = "stop" /\ outcome' = Stopped(race.reason)
     \/ /\ race.kind = "error"
        /\ outcome' = IF race.failure = None \/ CurrentStop = None THEN ProviderErrorData(race.failure)
                      ELSE Stopped(CurrentStop)
     \/ /\ race.kind = "value"
        /\ outcome' = IF CurrentStop # None THEN Stopped(CurrentStop)
                      ELSE IF NormalizeProviderOutcome(race.value) THEN race.value
                      ELSE Failure("invalidResponse", FALSE)
  /\ UNCHANGED <<route, request, late, aborted, index, call, signalled, said, race, attempts, cursor, child, sentLate>>

\* As if every failure that may be retried went to the next candidate.
ShouldFallback_Retryable(o) == o.status = "providerFailure" /\ o.retryable

\* router.ts shouldFallback
ShouldFallback(o) == o.status = "providerFailure" /\ o.retryable /\ o.kind \in {"rateLimited", "server"}

\* router.ts classify, after judge
Turn ==
  /\ at = "judged"
  /\ LET failed == outcome.status = "providerFailure"
         fallback == index < Len(route) /\ ShouldFallback(outcome)
     IN  /\ attempts' = Append(attempts,
              [disposition |-> IF fallback THEN "fallback" ELSE IF failed THEN "failed" ELSE "selected",
               failure |-> IF failed THEN outcome.kind ELSE None])
         /\ IF fallback THEN index' = index + 1 /\ at' = "judging"
            ELSE at' = "done" /\ UNCHANGED index
  /\ UNCHANGED <<route, request, late, aborted, call, signalled, said, race, outcome, cursor, child, sentLate>>

Next == \/ CreateJudgeRouter \/ Classify \/ Judge \/ OnAbort \/ Clock \/ ReachDeadline \/ Settled \/ Turn
        \/ \E i \in Candidates : \/ Dispatch(i) \/ ApiKey(i) \/ Create(i) \/ Respond(i) \/ Fake(i)
                                 \/ FakeRejects(i) \/ Spawn(i) \/ DeadlineTimer(i) \/ Closed(i)
Spec == Init /\ [][Next]_vars

-----------------------------------------------------------------------------
(* Properties                                                               *)

Working(i) == call[i] \in {"called", "importing", "sent", "waiting", "process"}

\* A candidate is asked only after every earlier one was busy and has settled, the
\* record of the attempts says so, and it ends with the outcome.
InTurn == /\ \A i \in DOMAIN attempts : i < index =>
               attempts[i].disposition = "fallback" /\ attempts[i].failure \in {"rateLimited", "server"}
          /\ \A i \in Candidates : Working(i) => i = index
          /\ at = "done" => /\ Len(attempts) = index
                            /\ (attempts[index].disposition = "selected") = (outcome.status # "providerFailure")
\* A call that goes on without its judge was told to stop, its process too, and
\* nothing was sent to a model after the stop.
StopsReach == /\ \A i \in Candidates : Working(i) => at = "racing" \/ signalled[i]
              /\ \A i \in Candidates : signalled[i] => child[i] # "running"
              /\ ~sentLate
\* A classification is what the model of the last candidate wrote, with observed
\* evidence of this request under it.
Founded == outcome # None /\ outcome.status = "classified" =>
             /\ outcome = said[index] /\ outcome.label \in request.labels
             /\ outcome.refs # {} /\ outcome.refs \subseteq request.evidence /\ outcome.facts # {}
RouteIsAnswered == InTurn /\ StopsReach /\ Founded
=============================================================================
