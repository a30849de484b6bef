----------------------------- MODULE WindowsHost -----------------------------
(***************************************************************************)
(* native/windows-host: the process at the other end of NativeClient.  A    *)
(* reader takes frames from the input while one consumer executes requests, *)
(* one after the other, on sessions with remembered elements.  Requests may *)
(* be cancelled, run out of their budget, be sent again or find their       *)
(* target gone; the answer says what was done about a side effect.          *)
(*                                                                          *)
(* A run of the host is told by the frames its client sends; a session and  *)
(* its target are named by the request that made them, a handle by its      *)
(* place in the registry.  RuntimeIds are taken not to come back.           *)
(***************************************************************************)
EXTENDS Naturals, Sequences, FiniteSets, Functions

CONSTANTS
  None,
  Scripts,     \* what clients send: sequences of frames
  Element,     \* places in the tree of windows
  Root,        \* the one of an application's window
  MaxIdentity, \* bound: RuntimeIds a place has one after the other
  Capacity,    \* ElementHandleLimit
  OperationLimit \* OperationRegistryLimit

VARIABLES
  script,      \* the frames of this run
  next,        \* the frame that comes next
  reader,      \* the thread of ReadFrames
  inbound,     \* the queue between the threads
  outstanding, \* requests that are registered
  cancelled,   \* those whose source was cancelled
  consumer,    \* where the main thread is, for which frame, and what it has in hand
  used,        \* usedOperationIds
  sessions,    \* the sessions of the dispatcher
  process,     \* the targets the host has launched
  identity,    \* the RuntimeId of what is at a place now
  answers,     \* what was written
  effect,      \* what a request did, in the world
  host         \* Run: running, interrupted, or out of its loop

hostVars == <<script, next, reader, inbound, outstanding, cancelled, consumer, used,
              sessions, process, identity, answers, effect, host>>
world == <<process, identity, effect>>

Frame == DOMAIN script
Observes(f) == script[f].call = "find"
Idle == [at |-> "idle", frame |-> 0, reply |-> None, seen |-> <<>>]

Init == /\ script \in Scripts
        /\ next = 1 /\ reader = "reading" /\ inbound = <<>>
        /\ outstanding = {} /\ cancelled = {}
        /\ consumer = Idle /\ used = {}
        /\ sessions = [f \in Frame |-> None]
        /\ process = [f \in Frame |-> "none"]
        /\ identity = [e \in Element |-> 1]
        /\ answers = [f \in Frame |-> None]
        /\ effect = [f \in Frame |-> "nothing"]
        /\ host = "running"
-----------------------------------------------------------------------------
(* The reader                                                              *)

IsOutstanding(id) == \E f \in outstanding : script[f].id = id

\* A malformed frame under an id in use is answered with an error of its own.
Unanswerable_Malformed(f) == 
  script[f].type = "unroutable" \/ (script[f].type = "request" /\ IsOutstanding(script[f].id))

\* A frame that no answer can be sent to, or whose id is in use, ends the intake.
Unanswerable(f) == script[f].type = "unroutable" \/ IsOutstanding(script[f].id)

\* The next line, in a host that has not begun to stop.
ReadFrame ==
  /\ reader = "reading" /\ next <= Len(script)
  /\ next' = next + 1
  /\ IF host # "running" \/ Unanswerable(next)
     THEN reader' = "ended" /\ UNCHANGED <<inbound, outstanding, cancelled>>
     ELSE \/ /\ script[next].type = "malformed"
             /\ inbound' = Append(inbound, next)
             /\ reader' = "ended"
             /\ UNCHANGED <<outstanding, cancelled>>
          \/ /\ script[next].type = "cancel"
             /\ cancelled' = cancelled \cup {f \in outstanding : script[f].id = script[next].of}
             /\ UNCHANGED <<reader, inbound, outstanding>>
          \/ /\ script[next].type = "request"
             /\ outstanding' = outstanding \cup {next}
             /\ reader' = "adding"
             /\ UNCHANGED <<inbound, cancelled>>
  /\ UNCHANGED <<script, consumer, used, sessions, world, answers, host>>

\* What was prepared is queued, or released when the queue is complete.
Enqueue ==
  /\ reader = "adding"
  /\ IF host = "running"
     THEN inbound' = Append(inbound, next - 1) /\ reader' = "reading" /\ UNCHANGED outstanding
     ELSE outstanding' = outstanding \ {next - 1} /\ reader' = "ended" /\ UNCHANGED inbound
  /\ UNCHANGED <<script, next, cancelled, consumer, used, sessions, world, answers, host>>

EndOfInput ==
  /\ reader = "reading" /\ next > Len(script) /\ reader' = "ended"
  /\ UNCHANGED <<script, next, inbound, outstanding, cancelled, consumer, used, sessions,
                 world, answers, host>>
-----------------------------------------------------------------------------
(* Answers                                                                 *)

Reply(ok, outcome, retry) == [ok |-> ok, outcome |-> outcome, retry |-> retry]

Success(f) == Reply(TRUE, IF Observes(f) THEN "none" ELSE "executed", "never")

\* Every error that did nothing may be retried.
Failure_Replay(f, submitted, reused) ==
  LET outcome == IF Observes(f) THEN "none" ELSE IF submitted THEN "unknown" ELSE "notExecuted"
  IN  Reply(FALSE, outcome, IF outcome = "notExecuted" THEN "safe" ELSE "never")

Failure(f, submitted, reused) ==
  LET outcome == IF Observes(f) THEN "none" ELSE IF submitted THEN "unknown" ELSE "notExecuted"
  IN  Reply(FALSE, outcome, IF outcome = "notExecuted" /\ ~reused THEN "safe" ELSE "never")

\* The failure is told as one that came before the submission.
OutboundFailure_Fresh(reply) == Failure(consumer.frame, FALSE, FALSE)

\* The answer could not be sent as it was: what it says of the operation stays.
OutboundFailure(reply) == [reply EXCEPT !.ok = FALSE]

Built(reply) == consumer' = [consumer EXCEPT !.at = "built", !.reply = reply, !.seen = <<>>]
Goes(at) == consumer' = [consumer EXCEPT !.at = at]
Now == consumer.frame
Call == script[Now]
On == sessions[Call.on]
Throws == Built(Failure(Now, TRUE, FALSE))
Returns == Built(Success(Now))
Keeps == UNCHANGED <<script, next, reader, inbound, outstanding, cancelled, used, answers, host>>

\* The answer, or what is sent when it is too large or its budget is spent by now.
Construct ==
  /\ consumer.at = "built"
  /\ \E sent \in {consumer.reply, OutboundFailure(consumer.reply)} :
       consumer' = [consumer EXCEPT !.at = "write", !.reply = sent]
  /\ Keeps /\ UNCHANGED <<sessions, world>>

Write ==
  /\ consumer.at = "write"
  /\ answers' = [answers EXCEPT ![Now] = consumer.reply]
  /\ Goes("release")
  /\ UNCHANGED <<script, next, reader, inbound, outstanding, cancelled, used, sessions, world, host>>

ReleaseOutstanding ==
  /\ consumer.at = "release"
  /\ outstanding' = outstanding \ {Now}
  /\ cancelled' = cancelled \ {Now}
  /\ consumer' = Idle
  /\ UNCHANGED <<script, next, reader, inbound, used, sessions, world, answers, host>>
-----------------------------------------------------------------------------
(* The consumer, up to the submission                                      *)

Take ==
  /\ consumer.at = "idle" /\ inbound # <<>> /\ host = "running"
  /\ inbound' = Tail(inbound)
  /\ consumer' = LET f == Head(inbound)
                 IN  IF script[f].type = "malformed"
                     THEN [Idle EXCEPT !.at = "write", !.frame = f, !.reply = Reply(FALSE, "none", "never")]
                     ELSE [Idle EXCEPT !.at = "taken", !.frame = f]
  /\ UNCHANGED <<script, next, reader, outstanding, cancelled, used, sessions, world, answers, host>>

\* ValidateDispatchContract: the session is there, and so is the handle; only an owned
\* target may be ended.
Contract ==
  Call.call \notin {"launch", "attach"} =>
    /\ Call.on \in Frame /\ On # None
    /\ Call.call \in {"find", "act"} => Call.handle \in DOMAIN On.registry
    /\ Call.call = "end" => On.owner = "owned"

\* OperationRegistryLimit
Full == Cardinality(used) >= OperationLimit

\* Nothing was consumed that stops before the submission.
Admit_AtSubmission ==
  /\ consumer.at = "taken"
  /\ UNCHANGED used
  /\ IF ~Contract THEN Built(Failure(Now, FALSE, FALSE))
     ELSE IF ~Observes(Now) /\ Call.operation \in used THEN Built(Failure(Now, FALSE, TRUE))
     ELSE Goes("admitted")
  /\ UNCHANGED <<script, next, reader, inbound, outstanding, cancelled, sessions, world, answers, host>>

\* RegisterOperationId: an identifier is consumed before anything can stop the request.
Admit ==
  /\ consumer.at = "taken"
  /\ \/ /\ ~Contract \/ (~Observes(Now) /\ Full)
        /\ Built(Failure(Now, FALSE, FALSE)) /\ UNCHANGED used
     \/ /\ Contract /\ ~Observes(Now) /\ ~Full
        /\ Call.operation \in used
        /\ Built(Failure(Now, FALSE, TRUE)) /\ UNCHANGED used
     \/ /\ Contract /\ ~Observes(Now) /\ ~Full
        /\ Call.operation \notin used
        /\ used' = used \cup {Call.operation} /\ Goes("admitted")
     \/ Contract /\ Observes(Now) /\ Goes("admitted") /\ UNCHANGED used
  /\ UNCHANGED <<script, next, reader, inbound, outstanding, cancelled, sessions, world, answers, host>>

\* A request that was cancelled, has spent its budget, or checks its target under a root it
\* has no handle of, stops here; then the dispatcher is called.
Submit ==
  /\ consumer.at = "admitted"
  /\ \/ Built(Failure(Now, FALSE, FALSE))
     \/ /\ Now \notin cancelled
        /\ Call.call = "act" => Call.root \in DOMAIN On.registry
        /\ Goes(Call.call)
  /\ Keeps /\ UNCHANGED <<sessions, world>>
-----------------------------------------------------------------------------
(* Sessions and their targets                                              *)

Running == {s \in Frame : process[s] \in {"running", "left"}}

\* The same-name check looks at the targets of sessions.
NameIsFree_InSessions(name) == \A s \in Running : sessions[s] # None => script[s].name # name

\* RejectRunningTarget: no process of that name runs, whoever launched it.
NameIsFree(name) == \A s \in Running : script[s].name # name

\* OwnedProcessController.Dispose: what runs is killed, or left when that fails.
Killed(s) == process[s] = "running" /\ \E end \in {"gone", "left"} : process' = [process EXCEPT ![s] = end]
Disposed(s) == Killed(s) \/ (process[s] # "running" /\ UNCHANGED process)

Session(owner) == [owner |-> owner, registry |-> <<[place |-> Root, id |-> identity[Root]]>>]

\* Refused, or started when no target of that name runs.
Launch ==
  /\ consumer.at = "launch"
  /\ \/ Throws /\ UNCHANGED <<process, effect>>
     \/ /\ NameIsFree(Call.name)
        /\ process' = [process EXCEPT ![Now] = "running"]
        /\ effect' = [effect EXCEPT ![Now] = "begun"]
        /\ Goes("window")
  /\ Keeps /\ UNCHANGED <<sessions, identity>>

Abandoned_Never(s) == UNCHANGED process

\* What a launch leaves behind when its window does not come.
Abandoned(s) == Disposed(s)

\* The window of the new target is found and remembered, or the target is not kept.
Window ==
  /\ consumer.at = "window"
  /\ \/ Throws /\ Abandoned(Now) /\ UNCHANGED <<sessions, effect>>
     \/ /\ sessions' = [sessions EXCEPT ![Now] = Session("owned")]
        /\ effect' = [effect EXCEPT ![Now] = "done"]
        /\ Returns /\ UNCHANGED process
  /\ Keeps /\ UNCHANGED identity

Attach ==
  /\ consumer.at = "attach"
  /\ \/ Throws /\ UNCHANGED <<sessions, effect>>
     \/ /\ sessions' = [sessions EXCEPT ![Now] = Session("borrowed")]
        /\ effect' = [effect EXCEPT ![Now] = "done"]
        /\ Returns
  /\ Keeps /\ UNCHANGED <<process, identity>>

\* The session is over: removed, disposed and answered.
Over == /\ sessions' = [sessions EXCEPT ![Call.on] = None]
        /\ effect' = [effect EXCEPT ![Now] = "done"]
        /\ Returns

\* session.close and session.terminate: a target that is gone already, or one that is
\* asked or killed, if it can be.
End ==
  /\ consumer.at = "end"
  /\ \/ process[Call.on] # "running" /\ Over
     \/ process[Call.on] = "running" /\ Throws /\ UNCHANGED <<sessions, effect>>
     \/ /\ process[Call.on] = "running"
        /\ effect' = [effect EXCEPT ![Now] = "begun"]
        /\ Goes("ending") /\ UNCHANGED sessions
  /\ Keeps /\ UNCHANGED <<process, identity>>

\* The wait is not looked at.
Ended_Asked(s) == TRUE

Ended(s) == process[s] # "running"

\* WaitForExit
Ending ==
  /\ consumer.at = "ending"
  /\ \/ Ended(Call.on) /\ Over
     \/ Throws /\ UNCHANGED <<sessions, effect>>
  /\ Keeps /\ UNCHANGED <<process, identity>>

\* session.release gives no running target away.
Release ==
  /\ consumer.at = "releaseSession"
  /\ IF On.owner = "owned" /\ process[Call.on] = "running"
     THEN Throws /\ UNCHANGED <<sessions, effect>>
     ELSE Over
  /\ Keeps /\ UNCHANGED <<process, identity>>
-----------------------------------------------------------------------------
(* Elements                                                                *)

Entry(e) == [place |-> e, id |-> identity[e]]
Current(entry) == identity[entry.place] = entry.id
Matches == UNION {[1 .. n -> Element \ {Root}] : n \in 0 .. 2}

\* element.find, element.findAll and element.queryBatch: matches under a root that is
\* still what it was, each captured with its RuntimeId.
Find ==
  /\ consumer.at = "find"
  /\ \/ Throws
     \/ /\ Current(On.registry[Call.handle])
        /\ \E found \in Matches :
             consumer' = [consumer EXCEPT !.at = "commit",
                                          !.seen = [i \in DOMAIN found |-> Entry(found[i])]]
  /\ Keeps /\ UNCHANGED <<sessions, world>>

\* As if what has a handle got another.
Remembered_Twice(registry, seen) == registry \o seen

\* TryRememberBatch: a handle for each RuntimeId that has none yet.
InSomeOrder(S) == CHOOSE s \in [1 .. Cardinality(S) -> S] : IsInjective(s)
Remembered(registry, seen) == registry \o InSomeOrder(Range(seen) \ Range(registry))

\* Nothing has changed since it was captured, and there is room for what is new.
Commit ==
  /\ consumer.at = "commit"
  /\ LET registry == Remembered(On.registry, consumer.seen)
     IN  IF /\ \A entry \in Range(consumer.seen) : Current(entry)
            /\ Current(On.registry[Call.handle])
            /\ Len(registry) <= Capacity
         THEN sessions' = [sessions EXCEPT ![Call.on].registry = registry] /\ Returns
         ELSE Throws /\ UNCHANGED sessions
  /\ Keeps /\ UNCHANGED world

\* PerformCheckedAction up to the guard: target and root are what was remembered.
Check ==
  /\ consumer.at = "act"
  /\ \/ Throws
     \/ /\ Current(On.registry[Call.handle]) /\ Current(On.registry[Call.root])
        /\ Goes("perform")
  /\ Keeps /\ UNCHANGED <<sessions, world>>

\* The pattern is called on whatever is there now, and may fail before or after it acted.
Perform ==
  /\ consumer.at = "perform"
  /\ \/ Throws /\ UNCHANGED effect
     \/ /\ effect' = [effect EXCEPT ![Now] = IF Current(On.registry[Call.handle]) THEN "done" ELSE "astray"]
        /\ Throws \/ Goes("observe")
  /\ Keeps /\ UNCHANGED <<sessions, process, identity>>

Stable_Assumed(entry) == TRUE

\* The target is looked at once more.
Stable(entry) == Current(entry)

ObserveAfter ==
  /\ consumer.at = "observe"
  /\ Throws \/ (Stable(On.registry[Call.handle]) /\ Returns)
  /\ Keeps /\ UNCHANGED <<sessions, world>>
-----------------------------------------------------------------------------
(* The end of the host, and the world                                      *)

Interrupt ==
  /\ host = "running" /\ host' = "interrupted"
  /\ UNCHANGED <<script, next, reader, inbound, outstanding, cancelled, consumer, used,
                 sessions, world, answers>>

\* Run leaves its loop: the input is over and the queue empty, it was interrupted between two
\* requests, or an answer cannot be written.  The dispatcher is disposed.
Stop ==
  /\ \/ consumer.at = "idle" /\ (host = "interrupted" \/ (host = "running" /\ reader = "ended" /\ inbound = <<>>))
     \/ consumer.at = "write"
  /\ host' = "stopped"
  /\ consumer' = [Idle EXCEPT !.at = "disposing"]
  /\ inbound' = <<>> /\ outstanding' = {} /\ cancelled' = {}
  /\ UNCHANGED <<script, next, reader, used, sessions, world, answers>>

\* One session after the other.  A kill of a tree of which a part could not be ended raises
\* what Dispose does not catch, and the sessions that come later stay as they are.
DisposeSession(s) ==
  /\ consumer.at = "disposing" /\ sessions[s] # None
  /\ sessions' = [sessions EXCEPT ![s] = None]
  /\ \/ Disposed(s) /\ UNCHANGED consumer
     \/ Killed(s) /\ Goes("failed")
  /\ Keeps /\ UNCHANGED <<identity, effect>>

DisposeEnds ==
  /\ consumer.at = "disposing" /\ \A s \in Frame : sessions[s] = None
  /\ Goes("ended") /\ used' = {}
  /\ UNCHANGED <<script, next, reader, inbound, outstanding, cancelled, sessions, world, answers, host>>

Exits(s) ==
  /\ consumer.at \notin {"ended", "failed"} /\ process[s] \in {"running", "left"}
  /\ process' = [process EXCEPT ![s] = "gone"]
  /\ Keeps /\ UNCHANGED <<consumer, sessions, identity, effect>>

\* What was at a place is gone and something else is there; before it was looked at,
\* nobody can tell.
Remembers(entries, e) == \E entry \in Range(entries) : entry.place = e

Changes(e) ==
  /\ identity[e] < MaxIdentity
  /\ \/ Remembers(consumer.seen, e)
     \/ \E s \in Frame : sessions[s] # None /\ Remembers(sessions[s].registry, e)
  /\ identity' = [identity EXCEPT ![e] = @ + 1]
  /\ Keeps /\ UNCHANGED <<consumer, sessions, process, effect>>

Next ==
  \/ ReadFrame \/ Enqueue \/ EndOfInput
  \/ Take \/ Admit \/ Submit \/ Construct \/ Write \/ ReleaseOutstanding
  \/ Launch \/ Window \/ Attach \/ End \/ Ending \/ Release
  \/ Find \/ Commit \/ Check \/ Perform \/ ObserveAfter
  \/ Interrupt \/ Stop \/ DisposeEnds
  \/ \E f \in Frame : DisposeSession(f) \/ Exits(f)
  \/ \E e \in Element : Changes(e)

Spec == Init /\ [][Next]_hostVars
-----------------------------------------------------------------------------
(* Properties                                                              *)

Answered == {f \in Frame : answers[f] # None}
Requests == {f \in Frame : script[f].type = "request"}
Accepted == outstanding \cup Range(inbound) \cup {consumer.frame} \cup Answered

\* An answer tells what was done: notExecuted means nothing was, and executed that it was
\* done, and to the element that was meant, however big or overdue the answer has become
\* and whatever has changed meanwhile.  (ExecuteOutbound, PerformCheckedAction)
OutcomeIsTrue ==
  \A f \in Answered \cap Requests :
    /\ answers[f].outcome = "notExecuted" => effect[f] = "nothing"
    /\ answers[f].outcome = "executed" => effect[f] = "done"
    /\ answers[f].ok /\ ~Observes(f) => answers[f].outcome = "executed"

\* A request sent again, and why a host would not do it even if it had not been done:
\* its session is gone, no operation is taken any more, or the host has stopped.
Repeats(f, g) == \A field \in {"operation", "call", "on", "handle"} : script[f][field] = script[g][field]
Hopeless(f) == \/ script[f].call \notin {"launch", "attach"} /\ sessions[script[f].on] = None
               \/ Full
               \/ host = "stopped"

\* An operation is done at most once, and who sends it again when it was done is invited to
\* retry only where nothing would come of it.  (ValidateDispatchContract, RegisterOperationId)
OperationIsDoneOnce ==
  \A g, f \in Requests :
    g < f /\ script[g].operation # None /\ script[f].operation = script[g].operation /\ effect[g] # "nothing" =>
      /\ effect[f] = "nothing"
      /\ f \in Answered /\ Repeats(f, g) /\ answers[f].retry = "safe" => Hopeless(f)

\* What is accepted under an id was preceded by the answer to what came under it before.
\* (IngestNativeFrame)
IdHasOneAnswer ==
  \A g, f \in Accepted \ {0} : g < f /\ script[g].id = script[f].id => g \in Answered

\* A target that runs is one of a session or of a launch at work, those of one name are not
\* two, none runs when its end was told, and the host leaves none that it has not tried to
\* kill, unless a kill raised and ended the disposal.  (OwnedProcessController, RequestDispatcher)
TargetsAreKept ==
  /\ \A s \in Frame : process[s] = "running" => sessions[s] # None \/ consumer.frame = s
  /\ \A s, t \in Running : script[s].name = script[t].name => s = t
  /\ \A f \in Answered \cap Requests : answers[f].ok /\ script[f].call = "end" => process[script[f].on] # "running"
  /\ consumer.at = "ended" => \A s \in Frame : process[s] # "running"

\* A RuntimeId has one handle of a session, and there are no more than its registry holds.
\* (ElementHandleRegistry)
HandlesAreOne ==
  \A s \in Frame : sessions[s] # None =>
    IsInjective(sessions[s].registry) /\ Len(sessions[s].registry) <= Capacity

HostIsTrue == OutcomeIsTrue /\ OperationIsDoneOnce /\ IdHasOneAnswer /\ TargetsAreKept /\ HandlesAreOne
=============================================================================
