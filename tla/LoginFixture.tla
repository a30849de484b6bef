---------------------------- MODULE LoginFixture ----------------------------
(***************************************************************************)
(* examples/login-testing: a login service in memory, the interface that    *)
(* tests drive it by, and its browser page.  The page sends a request per   *)
(* click; requests are served, and their answers come back, in any order,   *)
(* while another account is started, the run is reset or the fixture closed.*)
(***************************************************************************)
EXTENDS Naturals, Sequences, FiniteSets

CONSTANTS Account,      \* "new" and "existing"
          Settings,     \* the faults a test sets: [subset of Fault -> BOOLEAN]
          MaxRuns, MaxAttempts,  \* bounds: runs, attempts of a run
          MaxClicks,    \* bound: clicks on the page
          MaxCalls,     \* bound: calls of the tests
          None

VARIABLES
  engine,   \* createLoginEngine: its runs, attempts, codes given, and whether it is closed
  page,     \* the page's run, attempt and generation, and what it shows
  request,  \* the page's requests, by click
  calls,    \* calls the tests made
  born,     \* what an attempt was created with, and by which start of the page
  read      \* the attempts whose mail was read, with the code in it

fixtureVars == <<engine, page, request, calls, born, read>>

Fault == {"misroute", "omit"}
NoFaults == [f \in Fault |-> FALSE]

\* What of the page clearAttemptUi empties; screen, status and panels go with the observation.
Nothing == [id |-> None, observation |-> None, count |-> 0, input |-> None, session |-> None, error |-> None]

NewRun(faults) == [faults |-> faults, next |-> 1, resets |-> 0]

\* The page is opened on no run, or on one the tests have created.
Init == /\ \E runs \in {<<>>, <<NewRun(NoFaults)>>} :
             /\ engine = [runs |-> runs, attempts |-> <<>>, codes |-> 0, closed |-> FALSE]
             /\ page = [run |-> IF runs = <<>> THEN None ELSE 1, attempt |-> None, token |-> 0, shown |-> Nothing]
        /\ request = <<>> /\ calls = 0 /\ born = <<>> /\ read = {}
-----------------------------------------------------------------------------
(* The engine: what an operation leaves and answers                        *)

Refused(e, error) == [error |-> error, engine |-> e, value |-> None]
Answers(e, value) == [error |-> None, engine |-> e, value |-> value]
Set(f, x, y) == [z \in DOMAIN f \cup {x} |-> IF z = x THEN y ELSE f[z]]
Changed(e, a, attempt) == [e EXCEPT !.attempts = Set(@, a, attempt)]
Known(e, a) == a \in DOMAIN e.attempts

\* What getObservation, and every step of an attempt, answers: a copy.
Observation(e, a) ==
  LET t == e.attempts[a] IN
  [of |-> a, account |-> t.account, screen |-> t.screen, flow |-> t.flow, stage |-> t.status,
   mails |-> Len(t.mail), hasSession |-> t.session # None, effects |-> t.effects,
   settled |-> t.status \in {"authenticated", "reset", "cancelled"}]

GetRun(e, r) == [of |-> r, faults |-> e.runs[r].faults, resets |-> e.runs[r].resets,
                 attempts |-> {a \in DOMAIN e.attempts : a.run = r}]

\* normalizeFaults, not partial: the switches that are not named are off.
CreateRun(e, setting) ==
  LET r == Len(e.runs) + 1
      after == [e EXCEPT !.runs = Append(@, NewRun([f \in Fault |-> f \in DOMAIN setting /\ setting[f]]))]
  IN IF e.closed THEN Refused(e, "closed") ELSE Answers(after, GetRun(after, r))

Merged(old, setting) == [f \in Fault |-> IF f \in DOMAIN setting THEN setting[f] ELSE old[f]]

SetFaults(e, r, setting) ==
  LET after == [e EXCEPT !.runs[r].faults = Merged(@, setting)] IN
  IF e.closed THEN Refused(e, "closed") ELSE Answers(after, GetRun(after, r))

\* The attempt takes the run's switches as they are now, and a code of its own.  An
\* input of an unknown entry point, account or address uses up no number.
CreateAttempt(e, r, account, valid) ==
  LET a == [run |-> r, n |-> e.runs[r].next]
      attempt == [account |-> account, faults |-> e.runs[r].faults, status |-> "awaiting-test-captcha",
                  flow |-> None, code |-> e.codes + 1, mail |-> <<>>, session |-> None,
                  screen |-> "test-captcha", effects |-> <<"attempt.created">>]
      after == [Changed(e, a, attempt) EXCEPT !.runs[r].next = @ + 1, !.codes = @ + 1]
  IN IF e.closed THEN Refused(e, "closed")
     ELSE IF ~valid THEN Refused(e, "input")
     ELSE Answers(after, Observation(after, a))

\* Mutant: the switches of the run as they are by now.
FaultsFor_Run(e, a) == e.runs[a.run].faults

FaultsFor(e, a) == e.attempts[a].faults

FlowOf(account, faults) == IF account = "new" \/ faults["misroute"] THEN "registration" ELSE "sign-in"

CompleteCaptcha(e, a, right) ==
  LET old == e.attempts[a]
      flow == FlowOf(old.account, FaultsFor(e, a))
      omit == FaultsFor(e, a)["omit"]
      after == Changed(e, a, [old EXCEPT
                 !.flow = flow, !.status = "awaiting-verification-code",
                 !.screen = IF flow = "registration" THEN "registration-code" ELSE "sign-in-code",
                 !.mail = IF omit THEN @ ELSE Append(@, old.code),
                 !.effects = @ \o <<"flow.selected">> \o (IF omit THEN <<>> ELSE <<"email.delivered">>)])
  IN IF e.closed THEN Refused(e, "closed")
     ELSE IF ~Known(e, a) THEN Refused(e, "attempt")
     ELSE IF old.status # "awaiting-test-captcha" THEN Refused(e, "state")
     ELSE IF ~right THEN Refused(e, "captcha")
     ELSE Answers(after, Observation(after, a))

VerifyCode(e, a, code) ==
  LET old == e.attempts[a]
      after == Changed(e, a, [old EXCEPT
                 !.status = "authenticated", !.code = None, !.screen = "account-home",
                 !.session = [of |-> a, account |-> old.account, flow |-> old.flow],
                 !.effects = Append(@, "session.created")])
  IN IF e.closed THEN Refused(e, "closed")
     ELSE IF ~Known(e, a) THEN Refused(e, "attempt")
     ELSE IF old.status # "awaiting-verification-code" THEN Refused(e, "state")
     ELSE IF code # old.code THEN Refused(e, "code")
     ELSE Answers(after, Observation(after, a))

GetMailbox(e, a) == IF Known(e, a) THEN Answers(e, [of |-> a, codes |-> e.attempts[a].mail])
                    ELSE Refused(e, "attempt")
GetSession(e, a) == IF ~Known(e, a) THEN Refused(e, "attempt")
                    ELSE IF e.attempts[a].session = None THEN Refused(e, "session")
                    ELSE Answers(e, e.attempts[a].session)

\* The attempts are gone, the switches are off; numbers and codes go on.
ResetRun(e, r) ==
  LET after == [e EXCEPT !.attempts = [a \in {b \in DOMAIN @ : b.run # r} |-> @[a]],
                         !.runs[r].faults = NoFaults, !.runs[r].resets = @ + 1]
  IN IF e.closed THEN Refused(e, "closed") ELSE Answers(after, GetRun(after, r))

\* Mutant: the close leaves the sessions.
Closed_Sessions(attempt) == [attempt EXCEPT !.code = None, !.mail = <<>>]

Closed(attempt) == [attempt EXCEPT !.status = IF @ = "authenticated" THEN @ ELSE "cancelled", !.code = None,
                                   !.mail = <<>>, !.session = None, !.screen = "closed"]

Close(e) == IF e.closed THEN Answers(e, None)
            ELSE Answers([e EXCEPT !.closed = TRUE, !.attempts = [a \in DOMAIN @ |-> Closed(@[a])]], None)
-----------------------------------------------------------------------------
(* The tests, through the interface                                        *)

Attempts == DOMAIN engine.attempts
CodesRead == {r.code : r \in read}
InBounds(e) == Len(e.runs) <= MaxRuns /\ \A r \in DOMAIN e.runs : e.runs[r].next <= MaxAttempts + 1

\* Mail that is read, and what an attempt that is created was born with.
Reads(answer) == read' = IF answer.error # None THEN read
                         ELSE read \cup {[of |-> answer.value.of, code |-> answer.value.codes[i]] : i \in DOMAIN answer.value.codes}
Births(e, token) ==
  born' = [a \in DOMAIN born \cup DOMAIN e.attempts |->
             IF a \in DOMAIN born THEN born[a] ELSE [token |-> token, faults |-> engine.runs[a.run].faults]]

Called(answer) == InBounds(answer.engine) /\ engine' = answer.engine /\ Births(answer.engine, None) /\ UNCHANGED read

Test ==
  /\ calls < MaxCalls /\ calls' = calls + 1
  /\ \/ \E f \in Settings : Called(CreateRun(engine, f))
     \/ \E r \in DOMAIN engine.runs :
          \/ \E f \in Settings : Called(SetFaults(engine, r, f))
          \/ \E account \in Account, valid \in BOOLEAN : Called(CreateAttempt(engine, r, account, valid))
          \/ Called(ResetRun(engine, r))
     \/ \E a \in Attempts :
          \/ \E right \in BOOLEAN : Called(CompleteCaptcha(engine, a, right))
          \/ \E c \in CodesRead \cup {None} : Called(VerifyCode(engine, a, c))
          \/ Reads(GetMailbox(engine, a)) /\ UNCHANGED <<engine, born>>
     \/ Called(Close(engine))
  /\ UNCHANGED <<page, request>>
-----------------------------------------------------------------------------
(* The page                                                                *)

Stage == IF page.shown.observation = None THEN None ELSE page.shown.observation.stage
Sends(kind, token, account, code) ==
  /\ Len(request) < MaxClicks
  /\ request' = Append(request, [kind |-> kind, token |-> token, run |-> page.run, attempt |-> page.attempt,
                                 account |-> account, code |-> code, answer |-> None, value |-> None])

\* An account is chosen: a new generation, and everything of the old one is cleared.
ClickAccount(account) ==
  /\ page' = [page EXCEPT !.token = @ + 1, !.shown = Nothing]
  /\ Sends(IF page.run = None THEN "run" ELSE "attempt", page.token + 1, account, None)
  /\ UNCHANGED <<engine, calls, born, read>>

\* The panels show what can be clicked.
Click(kind) ==
  /\ Stage = (IF kind = "captcha" THEN "awaiting-test-captcha" ELSE "awaiting-verification-code")
  /\ Sends(kind, page.token, None, page.shown.input)
  /\ page' = [page EXCEPT !.shown.error = None]
  /\ UNCHANGED <<engine, calls, born, read>>

Answer(q) ==
  CASE q.kind = "run" -> CreateRun(engine, <<>>)
    [] q.kind = "attempt" -> CreateAttempt(engine, q.run, q.account, TRUE)
    [] q.kind = "captcha" -> CompleteCaptcha(engine, q.attempt, TRUE)
    [] q.kind = "mailbox" -> GetMailbox(engine, q.attempt)
    [] q.kind = "verify" -> VerifyCode(engine, q.attempt, q.code)
    [] q.kind = "session" -> GetSession(engine, q.attempt)

Asked(i) == request[i].kind # "over" /\ request[i].answer = None
Told(i, answer) == request' = [request EXCEPT ![i].answer = [error |-> answer.error, value |-> answer.value]]

Serve(i) ==
  LET q == request[i] answer == Answer(q) IN
  /\ Asked(i) /\ ~engine.closed /\ InBounds(answer.engine)
  /\ Told(i, answer)
  /\ engine' = answer.engine
  /\ IF q.kind = "mailbox" THEN Reads(answer) ELSE UNCHANGED read
  /\ Births(answer.engine, q.token)
  /\ UNCHANGED <<page, calls>>

\* The close destroys the connections, also under an answer that is on its way.
Disconnect(i) ==
  /\ engine.closed /\ request[i].kind # "over"
  /\ Told(i, Refused(engine, "connection"))
  /\ UNCHANGED <<engine, page, calls, born, read>>

\* Mutant: the answer of an attempt is shown as long as the page has not gone to another.
Current_Attempt(q) == q.kind \notin {"run", "attempt"} => page.run = q.run /\ page.attempt = q.attempt

\* isCurrent, and for a start the generation alone.
Current(q) == /\ q.token = page.token
              /\ q.kind \notin {"run", "attempt"} => page.run = q.run /\ page.attempt = q.attempt

\* request and requireIdentity: an answer that is no error and of what was asked for.
Accepted(q) == /\ q.answer.error = None
               /\ q.kind = "attempt" => q.answer.value.of.run = q.run
               /\ q.kind \notin {"run", "attempt"} => q.answer.value.of = q.attempt

Back(i) == request[i].kind # "over" /\ request[i].answer # None
Over(i) == request' = [request EXCEPT ![i] = [@ EXCEPT !.kind = "over", !.answer = None, !.value = None]]

\* An error is shown to the generation that met it.
Fails(i) ==
  /\ Back(i) /\ ~Accepted(request[i]) /\ Over(i)
  /\ page' = IF Current(request[i])
             THEN [page EXCEPT !.shown.error = [token |-> request[i].token, code |-> request[i].answer.error]] ELSE page
  /\ UNCHANGED <<engine, calls, born, read>>

Ignored(i) ==
  /\ Back(i) /\ Accepted(request[i]) /\ ~Current(request[i]) /\ Over(i)
  /\ UNCHANGED <<engine, page, calls, born, read>>

\* A run that was made gets its attempt, a verified attempt is asked for its session.
GoesOn(i) ==
  LET q == request[i] IN
  /\ Back(i) /\ Accepted(q) /\ Current(q)
  /\ \/ /\ q.kind = "run"
        /\ request' = [request EXCEPT ![i] = [q EXCEPT !.kind = "attempt", !.run = q.answer.value.of, !.answer = None]]
     \/ /\ q.kind = "verify"
        /\ request' = [request EXCEPT ![i] = [q EXCEPT !.kind = "session", !.value = q.answer.value, !.answer = None]]
  /\ UNCHANGED <<engine, page, calls, born, read>>

Shows(i) ==
  LET q == request[i] value == q.answer.value IN
  /\ Back(i) /\ Accepted(q) /\ Current(q) /\ Over(i)
  /\ \/ /\ q.kind = "attempt"
        /\ page' = [page EXCEPT !.run = q.run, !.attempt = value.of, !.shown.id = value.of, !.shown.observation = value]
     \/ q.kind = "captcha" /\ page' = [page EXCEPT !.shown.observation = value]
     \/ /\ q.kind = "mailbox"
        /\ page' = [page EXCEPT !.shown.count = Len(value.codes),
                                !.shown.input = IF value.codes = <<>> THEN None ELSE value.codes[1]]
     \/ q.kind = "session" /\ page' = [page EXCEPT !.shown.session = value, !.shown.observation = q.value]
  /\ UNCHANGED <<engine, calls, born, read>>

Next == \/ Test
        \/ \E account \in Account : ClickAccount(account)
        \/ \E kind \in {"captcha", "mailbox", "verify"} : Click(kind)
        \/ \E i \in DOMAIN request : Serve(i) \/ Disconnect(i) \/ Fails(i) \/ Ignored(i) \/ GoesOn(i) \/ Shows(i)
-----------------------------------------------------------------------------
(* Properties                                                              *)

\* README.md: delayed responses of a previous flow cannot refill the new flow's page.
\* Everything the page shows is of the attempt that the newest start created, the
\* code it offers came with that attempt's mail, and what it shows was so together.
PageIsCurrent ==
  LET s == page.shown
      shown == {s.id} \cup {x.of : x \in {s.observation, s.session} \ {None}} IN
  /\ \A a \in shown \ {None} : a = s.id /\ born[a].token = page.token
  /\ s.error # None => s.error.token = page.token
  /\ s.input # None => [of |-> s.id, code |-> s.input] \in read
  /\ s.session # None => s.observation.hasSession /\ s.session.flow = s.observation.flow

\* A session is held by a fixture that is open, on an attempt whose own mail was read, in
\* the flow of the switches its run had when the attempt was created.
SessionIsEarned ==
  /\ \A a \in Attempts : LET attempt == engine.attempts[a] IN
       /\ attempt.session # None => ~engine.closed /\ \E r \in read : r.of = a
       /\ attempt.flow # None => attempt.flow = FlowOf(attempt.account, born[a].faults)
       /\ attempt.session # None => attempt.session = [of |-> a, account |-> attempt.account, flow |-> attempt.flow]
  /\ \A r, s \in read : r.code = s.code => r.of = s.of

LoginIsTrue == PageIsCurrent /\ SessionIsEarned
=============================================================================
