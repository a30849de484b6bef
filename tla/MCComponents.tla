---------------------------- MODULE MCComponents ----------------------------
(***************************************************************************)
(* One run for the components that are small and do not meet.  A behaviour  *)
(* picks one of them and takes its steps, so that the run explores each of  *)
(* them and not their product; they share the variables for that reason.    *)
(***************************************************************************)
EXTENDS Components, TLC

-----------------------------------------------------------------------------
(* Values for the constants of Components                                  *)

\* Two frames of one byte and one of two.
MCSize == [f \in HostFrame |-> IF f = "f3" THEN 2 ELSE 1]

\* A page needs a server and a session, both need the database; a worker fixture
\* must not need one of a test.
MCFixture == {"db", "server", "page", "session", "odd"}
MCDependsOn == [f \in MCFixture |-> CASE f = "server" -> <<"db">>
                                 [] f = "page" -> <<"server", "session">>
                                 [] f = "session" -> <<"db">>
                                 [] f = "odd" -> <<"session">>
                                 [] OTHER -> <<>>]

\* One action that is forced and one that asks for more.

MCKind == [a1 |-> "typeText", a2 |-> "invoke"]

MCAdditional == [a1 |-> {"stable"}, a2 |-> {}]

\* Two steps, a run, a tool call and a file of one attempt, and relations that
\* join them well, wrongly, twice, or in a circle.
Ref(kind, attempt, run, id) == [kind |-> kind, case |-> "c1", attempt |-> attempt, run |-> run, id |-> id]
case == Ref("caseExecution", "none", "none", "c1")
a1 == Ref("attempt", "a1", "none", "a1")
s1 == Ref("step", "a1", "none", "s1")
s2 == Ref("step", "a1", "none", "s2")
r1 == Ref("agentRun", "a1", "r1", "r1")
t1 == Ref("toolCall", "a1", "r1", "t1")
f1 == Ref("artifact", "a1", "none", "f1")
Node(ref) == [ref |-> ref, source |-> "runner"]
Edge(id, relation, from, to) == [id |-> id, relation |-> relation, from |-> from, to |-> to]
Full == {Node(ref) : ref \in {case, a1, s1, s2, r1, t1, f1}}
NodeSets == {Full, Full \ {Node(r1)}, Full \ {Node(case)}, Full \cup {[ref |-> s1, source |-> "agent"]}}
RelationSets ==
  SUBSET {Edge(1, "contains", case, a1), Edge(3, "produced", s1, f1), Edge(4, "attachedTo", f1, t1),
          Edge(5, "declaredCause", t1, s1), Edge(6, "declaredCause", f1, r1), Edge(7, "declaredCause", r1, t1),
          Edge(8, "declaredCause", r1, t1), Edge(1, "declaredCause", s1, s2), Edge(9, "produced", a1, f1)}

\* Two requests that want one snapshot, one of them with two parameters, the other
\* with and without the acknowledgement that the test needs.
StartRequest(id, supplied, acknowledged, wrong) ==
  [id |-> id, snapshot |-> "s1", test |-> "sensitive", supplied |-> supplied,
   acknowledged |-> acknowledged, wrong |-> wrong]
StartRequests == {StartRequest("r1", "absent", TRUE, "nothing"), StartRequest("r1", "other", TRUE, "nothing"),
                  StartRequest("r2", "absent", TRUE, "nothing"), StartRequest("r2", "absent", FALSE, "nothing")}

\* A vendor, a command line and a fake provider in routes of two, and a route that names
\* no model; one piece of evidence, and a request without any.
Profile(provider, models, wrong) == [provider |-> provider, models |-> models, wrong |-> wrong]
Profiles == [vendor |-> Profile("vendor", {"m1", "m2"}, "nothing"), command |-> Profile("command", {}, "nothing"),
             fake |-> Profile("fake", {}, "nothing")]
Candidate(profile, model) == [profile |-> profile, model |-> model]
Configs == [profiles : {Profiles},
            route : {<<Candidate("vendor", "m1"), Candidate("command", None)>>,
                     <<Candidate("fake", None), Candidate("vendor", "m2")>>,
                     <<Candidate("vendor", None)>>}]
JudgeRequests == [evidence : {{"e1"}, {}}, labels : {{"yes"}}, wrong : {"nothing"}]
                 \cup [evidence : {{"e1"}}, labels : {{"yes"}}, wrong : {"otherRun"}]
Written(status, label, refs, facts) == [status |-> status, label |-> label, refs |-> refs, facts |-> facts,
                                        hypotheses |-> {}, reason |-> None]
Decisions == {Written("classified", "yes", {"e1"}, {{"e1"}}), Written("classified", "yes", {"e2"}, {{"e2"}}),
              Written("classified", "odd", {"e1"}, {{"e1"}}), Written("insufficient", None, {}, {})}
Steps == <<[kind |-> "throw", failure |-> [status |-> "providerFailure", kind |-> "rateLimited", retryable |-> TRUE]],
           [kind |-> "return", output |-> Written("classified", "yes", {"e1"}, {{"e1"}})], [kind |-> "waitForAbort"]>>

\* One run of two surfaces, an image, a text and two criteria; and two runs, the second of
\* which publishes into the first one's staging directory.
Directories(a, b) == [staging |-> a, output |-> b]
CallOf(places, surfaces, evidence, policy, criteria, exposed) ==
  [staging |-> places.staging, output |-> places.output, surfaces |-> surfaces, evidence |-> evidence,
   policy |-> policy, criteria |-> criteria, exposed |-> exposed]
PlainCall(places, surfaces) == CallOf(places, surfaces, {}, {}, <<>>, {})
OneCall == CallOf(Directories(<<"s1">>, <<"o1">>), 2, {"shot", "log"}, {[artifact |-> "log", complete |-> TRUE]},
                  <<{"shot", "log"}, {"shot"}>>, {"shot", "judge.1"})
CallsOfRuns == {[r1 |-> OneCall],
                [r1 |-> PlainCall(Directories(<<"t", "s1">>, <<"t", "o1">>), 1),
                 r2 |-> PlainCall(Directories(<<"t", "s2">>, <<"t", "s1", "o2">>), 0)]}

\* What clients send to the Windows host: a cancelled action on an element that was found;
\* an operation sent again, also when no other is taken; two launches of one name and of two;
\* more elements than there are handles; and frames that end the intake.
HostCall(id, operation, call, on, handle) ==
  [type |-> "request", id |-> id, operation |-> operation, call |-> call, on |-> on, handle |-> handle, root |-> 1,
   name |-> "app"]
HostLaunch(id, operation, name) == [HostCall(id, operation, "launch", 0, 0) EXCEPT !.name = name]
OtherFrame(type, id, of) == [type |-> type, id |-> id, of |-> of, operation |-> None, call |-> "none"]
Conversations ==
  {<<HostCall("i1", "o1", "attach", 0, 0), HostCall("i2", None, "find", 1, 1), HostCall("i3", None, "find", 1, 1)>>,
   <<HostCall("i1", "o1", "attach", 0, 0), HostCall("i2", None, "find", 1, 1),
     HostCall("i3", "o2", "act", 1, 2), OtherFrame("cancel", "i4", "i3")>>,
   <<HostLaunch("i1", "o1", "app"), HostLaunch("i2", "o1", "app"), HostCall("i3", "o2", "end", 1, 0)>>,
   <<HostLaunch("i1", "o1", "app"), HostLaunch("i2", "o2", "app"), HostCall("i3", "o3", "end", 1, 0)>>,
   <<HostLaunch("i1", "o1", "app"), HostLaunch("i2", "o2", "other")>>,
   <<HostLaunch("i1", "o1", "app"), HostCall("i1", "o2", "releaseSession", 1, 0)>>,
   <<HostCall("i1", "o1", "attach", 0, 0), HostCall("i2", "o1", "act", 1, 1), OtherFrame("malformed", "i2", None)>>,
   <<HostCall("i1", "o1", "attach", 0, 0), OtherFrame("unroutable", "i2", None)>>,
   <<HostCall("i1", "o1", "attach", 0, 0), HostCall("i2", "o2", "act", 1, 1), HostCall("i3", "o2", "act", 1, 1)>>}

-----------------------------------------------------------------------------
(* ReportRules                                                             *)

\* A case in Chinese and one of the first days; results of every status, well and badly
\* founded; evidence that is captured, failed or related to another piece; tags that only a
\* credential tells apart; and inputs of either version with one flaw.
Ink == {"ink"}
Han == {"ink", "han"}
Spoken == {"ink", "han", "secret"}
Hidden == {"ink", "hidden", "secret"}
Clause(id, text) == [id |-> id, text |-> text]
CaseOf(id, locale, platforms) ==
  [id |-> id, locale |-> locale, platforms |-> platforms, suite |-> [id |-> "suite", name |-> Spoken], name |-> Han,
   sourceName |-> None, intent |-> Spoken, preconditions |-> <<Clause("p1", Spoken)>>, criteria |-> <<Clause("k1", Spoken)>>,
   sideEffect |-> "readOnly", tags |-> <<{"ink", "secret"}>>]
ReportCases ==
  {CaseOf("t1", "zh", None), CaseOf("credential", "en", <<"web">>), CaseOf("t1", "odd", <<"web">>), CaseOf("t1", "en", <<"macos">>),
   [CaseOf("t1", "zh", <<"web">>) EXCEPT !.intent = Hidden], [CaseOf("t1", "zh", <<"web">>) EXCEPT !.criteria[1].text = Ink],
   [CaseOf("t1", "en", <<"web">>) EXCEPT !.criteria[1].text = Ink], [CaseOf("t1", "en", <<"web">>) EXCEPT !.criteria = <<>>],
   [CaseOf("t1", "en", <<"web">>) EXCEPT !.tags = <<{"ink", "secret", "this"}, {"ink", "secret", "that"}>>],
   [CaseOf("t1", "en", <<"web">>) EXCEPT !.suite.id = "credential"], [CaseOf("t1", "en", <<"web">>) EXCEPT !.preconditions = <<>>],
   [CaseOf("t1", "en", <<"web">>) EXCEPT !.preconditions = <<Clause("p1", Ink), Clause("p1", Han)>>]}
StepOf(id, status, covers) == [id |-> id, status |-> status, covers |-> covers, title |-> Spoken, notes |-> {Hidden}, length |-> 1]
PieceOf(id, kind, type, status, related) ==
  [id |-> id, kind |-> kind, phase |-> "step", title |-> Han, type |-> type, time |-> 1, priority |-> None, step |-> "s1",
   description |-> Hidden, length |-> 0, related |-> related, status |-> status,
   why |-> IF status = "captured" THEN None ELSE Spoken, path |-> IF status = "captured" THEN Ink ELSE None]
Pieces == <<PieceOf("f1", "screenshot", "image/png", "captured", {}), PieceOf("f2", "log", "text/plain", "captureFailed", {"f1"})>>
ErrorOf(message) == [category |-> Ink, message |-> message, traces |-> {Spoken}]
ResultOf(status, steps, error, reason) ==
  [status |-> status, start |-> 1, length |-> 1, steps |-> steps, error |-> error, reason |-> reason, artifacts |-> Pieces]
Good == ResultOf("passed", <<StepOf("s1", "passed", <<"k1">>)>>, None, None)
Bad == ResultOf("failed", <<StepOf("s1", "failed", <<"k1">>)>>, ErrorOf(Spoken), None)
Late == ResultOf("timedOut", <<StepOf("s1", "passed", <<"k1">>)>>, ErrorOf(Ink), None)
NotRun(reason) == ResultOf("skipped", <<StepOf("s1", "skipped", <<>>)>>, None, reason)
ReportResults == {Good, Bad, Late, NotRun(Han), NotRun(Hidden), NotRun(Ink), NotRun(None),
                  ResultOf("passed", <<StepOf("s1", "passed", <<>>)>>, None, None),
                  ResultOf("passed", <<StepOf("s1", "passed", <<"k1">>), StepOf("s2", "skipped", <<>>)>>, None, None),
                  ResultOf("unsupported", <<StepOf("s1", "failed", <<"k1">>)>>, None, Han),
                  [Good EXCEPT !.length = 9], [Good EXCEPT !.steps[1].covers = <<"k1", "k2">>],
                  [Good EXCEPT !.artifacts[1].related = {"f9"}], [Good EXCEPT !.artifacts[1].type = "text/plain"],
                  [Good EXCEPT !.artifacts[2].why = None], [Good EXCEPT !.artifacts[2].phase = "odd"],
                  [Good EXCEPT !.artifacts[1].step = "s9"], [Good EXCEPT !.artifacts = <<>>], [Bad EXCEPT !.error.message = {}]}
AppOf(id) == [id |-> id, name |-> Spoken]
Run2 == [id |-> "run", title |-> Spoken, app |-> AppOf("app"), notes |-> {Spoken, Hidden}, start |-> 0, finish |-> 4, platform |-> "web"]
Test2(spec, result) == [spec |-> spec, result |-> result]
Report2(run, ts, policy, flaw, later) ==
  [version |-> 2, run |-> run, tests |-> ts, policy |-> policy, flaw |-> flaw, later |-> later, required |-> {}]
NoPolicy == [p \in {} |-> "off"]
Plain2 == Report2(Run2, <<Test2(CaseOf("t1", "zh", <<"web">>), Good)>>, NoPolicy, None, None)
Getter == [at |-> "result", field |-> "status", kind |-> "getter"]
Reports2 ==
  {[Plain2 EXCEPT !.tests[1].result = r, !.policy = p] :
     r \in ReportResults, p \in {NoPolicy, [screenshots |-> "always"], [screenshots |-> "off"]}}
  \cup {[Plain2 EXCEPT !.tests[1].spec = spec] : spec \in ReportCases}
  \cup {[Plain2 EXCEPT !.tests = <<Test2(CaseOf("t1", "zh", None), r), Test2(CaseOf(id, "en", <<"web">>), q)>>] :
          r, q \in {Good, Bad, Late, NotRun(Han)}, id \in {"t1", "t2"}}
  \cup {[Plain2 EXCEPT !.flaw = Getter, !.later = <<Test2(CaseOf("t1", "zh", <<"web">>), r)>>] : r \in ReportResults}
  \cup {[Plain2 EXCEPT !.run.platform = "linux"], [Plain2 EXCEPT !.run.app.id = "unstable"], [Plain2 EXCEPT !.run.finish = -1],
         [Plain2 EXCEPT !.policy = [logs |-> "on-failure"]], [Plain2 EXCEPT !.policy = [sound |-> "off"]], [Plain2 EXCEPT !.tests = <<>>]}
KnownAs(v) == [known |-> TRUE, value |-> v]
UnknownFor(reason, detail) == [known |-> FALSE, reason |-> reason, detail |-> detail]
AttemptOf(id, n, host, r) == [id |-> id, ordinal |-> n, platforms |-> <<"web", "macos">>, host |-> host,
                              surfaces |-> KnownAs(<<"w2", "w1">>), result |-> r]
AttemptsOf(final, items) == [known |-> TRUE, final |-> final, items |-> items]
HostOf(id, os, names) == [id |-> id, os |-> os, names |-> names]
SurfaceOf(id, host, capabilities) == [id |-> id, kind |-> "browser", host |-> host, name |-> Spoken, capabilities |-> capabilities]
Native == [kind |-> "native", schema |-> None, platform |-> None, limitations |-> <<>>]
Imported == [kind |-> "imported-v2", schema |-> "v2", platform |-> "web", limitations |-> <<"hostNotRecorded", "surfacesNotRecorded", "attemptsNotRecorded">>]
Run3(provenance, hosts, surfaces) ==
  [id |-> "run", title |-> Spoken, app |-> AppOf("app"), notes |-> {Hidden}, start |-> 0, finish |-> 4, provenance |-> provenance,
   hosts |-> hosts, surfaces |-> surfaces]
TwoHosts == KnownAs(<<HostOf("h2", "macos", {Spoken}), HostOf("h1", "linux", {})>>)
TwoSurfaces(host, capabilities) == KnownAs(<<SurfaceOf("w2", host, capabilities), SurfaceOf("w1", KnownAs("h1"), <<>>)>>)
Run3s == {Run3(Native, TwoHosts, TwoSurfaces(KnownAs("h2"), <<"c2", "c1">>)), Run3(Native, TwoHosts, TwoSurfaces(KnownAs("h9"), <<>>)),
          Run3(Native, TwoHosts, TwoSurfaces(UnknownFor("redacted", Spoken), <<"c1", "c1">>)),
          Run3(Native, KnownAs(<<HostOf("h1", "plan9", {})>>), UnknownFor("notRecorded", None)),
          Run3(Native, TwoHosts, UnknownFor("forgotten", None)),
          Run3(Imported, UnknownFor("unavailable", Spoken), UnknownFor("notRecorded", None)),
          Run3([Imported EXCEPT !.limitations = <<"hostNotRecorded">>], UnknownFor("unavailable", None), UnknownFor("notRecorded", None))}
Case3 == CaseOf("t1", "zh", <<"macos", "web">>)
Report3(run, attempts, flaw) ==
  [version |-> 3, run |-> run, tests |-> <<[spec |-> Case3, attempts |-> attempts]>>, policy |-> NoPolicy, flaw |-> flaw,
   later |-> None, required |-> {<<"a1", "f1">>}]
Plain3 == Report3(Run3(Native, TwoHosts, TwoSurfaces(KnownAs("h2"), <<"c2", "c1">>)),
                  AttemptsOf("a2", <<AttemptOf("a2", 2, KnownAs("h1"), Good), AttemptOf("a1", 1, UnknownFor("redacted", Spoken), Bad)>>), None)
Reports3 ==
  {Report3(run, AttemptsOf(f, <<AttemptOf("a2", 2, KnownAs("h1"), q), AttemptOf("a1", n, KnownAs(h), r)>>), None) :
     run \in Run3s, f \in {"a1", "a2"}, n \in {1, 3}, h \in {"h1", "h9"}, q \in {Good, Bad, NotRun(Hidden)}, r \in {Good, Bad}}
  \cup {[Report3(run, UnknownFor("notRecorded", Spoken) @@ [result |-> r], None) EXCEPT !.required = {}] : run \in Run3s, r \in ReportResults}
ReportEdits == {"status", "forged", "summary", "executed", "result", "step", "secret", "field", "policy", "trust", "file", "size", "sha256", "schema"}

Report == INSTANCE ReportRules WITH
  Inputs <- Reports2 \cup Reports3, Flawable <- {Plain2, Plain3}, Edits <- ReportEdits,
  MaxEdits <- 1, TextOrder <- <<"a1", "a2", "c1", "c2", "h1", "h2", "w1", "w2">>,
  phase <- v1, input <- v2, given <- v3, held <- v4, tests <- v5, stored <- v6,
  report <- v7, edited <- v8

-----------------------------------------------------------------------------
(* ReferenceAgent                                                          *)

\* The fault matrix, and the two cases without a fault.
Matrixed(decision, fault, checkpoint, stubborn, expected) ==
  [decision |-> decision, fault |-> fault, checkpoint |-> checkpoint, stubborn |-> stubborn, expected |-> expected]
Matrix ==
  {Matrixed("deny", "none", None, FALSE, "passed"), Matrixed("approve", "none", None, FALSE, "passed"),
   Matrixed("deny", "deny-but-execute", None, FALSE, "failed"),
   Matrixed("approve", "duplicate-business-effect", None, FALSE, "failed"),
   Matrixed("approve", "missing-ledger", None, FALSE, "failed"),
   Matrixed("approve", "truncated-ledger", None, FALSE, "failed"),
   Matrixed("approve", "none", "before-submit", FALSE, "passed"),
   Matrixed("approve", "none", "after-submit", FALSE, "failed"),
   Matrixed("approve", "none", "after-effect", FALSE, "passed"),
   Matrixed("approve", "none", "after-effect", TRUE, "failed")}

Agent == INSTANCE ReferenceAgent WITH
  Entry <- Matrix, MaxControls <- 2, run <- v1, closed <- v2, closing <- v3,
  entry <- v4, pc <- v5, seen <- v6, verdict <- v7, controls <- v8

-----------------------------------------------------------------------------
(* ClipboardReceiver                                                       *)

\* Two outboxes that were given one session, so that a frame of the one may reach the
\* session of the other; a paste may be cut off.
Frames == [index : {1}, spoilt : {"none"}, bytes : {"k1", "k2"}]
          \cup {[index |-> 1, spoilt |-> "length", bytes |-> "k1"]}
Pasted == [op : {"init", "status", "finalize", "cleanup"}, m : {"k1"}, frame : {None}]
          \cup [op : {"add"}, m : {"k1"}, frame : Frames] \cup [op : {"init"}, m : {"k2"}, frame : {None}]

Receiver == INSTANCE ClipboardReceiver WITH
  Caller <- {"c1", "c2", "c3"}, ProcessOf <- [c1 |-> "p1", c2 |-> "p1", c3 |-> "p2"],
  Manifest <- {"k1", "k2"}, SessionOf <- [k1 |-> "x1", k2 |-> "x1"], Index <- {1},
  Request <- Pasted, MaxCalls <- 4, MaxKills <- 1, session <- v1, manifest <- v2,
  chunks <- v3, chunk <- v4, temp <- v5, partial <- v6, target <- v7, calls <- v8,
  queue <- v9, kept <- v10, told <- v11, users <- v12, kills <- v13, started <- v14

-----------------------------------------------------------------------------
(* ClipboardOutbox                                                         *)

\* Two sources for one directory, the second cut smaller to fit; a name Windows reserves; a
\* limit that no chunk meets; and an empty file.
Source(name, length, chunk, limit, place) ==
  [name |-> name, length |-> length, chunk |-> chunk, limit |-> limit, directory |-> place]
Sources == [x1 |-> Source("leaf", 9, 6, 20, "d1"), x2 |-> Source("leaf", 9, 12, 16, "d1"), x3 |-> Source("reserved", 9, 6, 20, "d2"),
            x4 |-> Source("leaf", 9, 6, 11, "d2"), x5 |-> Source("leaf", 0, 12, 20, "d1")]

Outbox == INSTANCE ClipboardOutbox WITH
  Preparation <- {"x1", "x2", "x3", "x4", "x5"}, Input <- Sources, MinLimit <- 10,
  MaxLimit <- 40, MaxChunk <- 12, MaxTotal <- 9, MaxChunks <- 4, Header <- 8,
  Fixed <- 14, Loop <- 5, Part <- {"part1", "part2"}, MaxCuts <- 1, place <- v1,
  written <- v2, there <- v3, told <- v4, cuts <- v5

-----------------------------------------------------------------------------
(* LoginFixture                                                            *)

Login == INSTANCE LoginFixture WITH
  Account <- {"existing"},
  Settings <- {<<>>, [misroute |-> TRUE], [omit |-> TRUE, misroute |-> FALSE]},
  MaxRuns <- 1, MaxAttempts <- 2, MaxClicks <- 5, MaxCalls <- 1, engine <- v1,
  page <- v2, request <- v3, calls <- v4, born <- v5, read <- v6

-----------------------------------------------------------------------------
(* The behaviours of the run                                               *)

Children == {"command", "transport"}

AllInit ==
  \/ Init /\ picked \notin Children
  \/ picked = "report"   /\ Report!Init   /\ NoneFrom9
  \/ picked = "agent"    /\ Agent!Init    /\ NoneFrom9
  \/ picked = "receiver" /\ Receiver!Init /\ NoneFrom15
  \/ picked = "outbox"   /\ Outbox!Init   /\ NoneFrom6
  \/ picked = "login"    /\ Login!Init    /\ NoneFrom7

OtherStep ==
  \/ picked = "report"   /\ Report!Next   /\ UNCHANGED <<v9, v10, v11, v12, v13, v14, v15, v16, v17>>
  \/ picked = "agent"    /\ Agent!Next    /\ UNCHANGED <<v9, v10, v11, v12, v13, v14, v15, v16, v17>>
  \/ picked = "receiver" /\ Receiver!Next /\ UNCHANGED <<v15, v16, v17>>
  \/ picked = "outbox"   /\ Outbox!Next   /\ UNCHANGED <<v6, v7, v8, v9, v10, v11, v12, v13, v14, v15, v16, v17>>
  \/ picked = "login"    /\ Login!Next    /\ UNCHANGED <<v7, v8, v9, v10, v11, v12, v13, v14, v15, v16, v17>>
AllNext == Next \/ (OtherStep /\ UNCHANGED picked)

AllSpec == AllInit /\ [][AllNext]_allVars

\* The two that own a child process, with the fairness of each.
Of(owner, A) == picked = owner /\ A /\ UNCHANGED picked
ChildInit == Init /\ picked \in Children
ProcessSpec ==
  /\ ChildInit /\ [][Next]_allVars
  /\ WF_allVars(Of("command", Command!Run) /\ UNCHANGED <<v16, v17>>)
  /\ WF_allVars(Of("command", Command!Expire) /\ UNCHANGED <<v16, v17>>)
  /\ WF_allVars(Of("transport", Transport!Timers)) /\ WF_allVars(Of("transport", Transport!Events))
  /\ WF_allVars(Of("transport", Transport!FrameArrives))

\* Nobody waits for a child process for ever: execute returns, every open and every close
\* settles, and a dead host's connection ends.
ProcessesEnd == /\ picked = "command" => Command!ExecuteReturns
                /\ picked = "transport" => Transport!ConnectionEnds

-----------------------------------------------------------------------------
(* Properties of the other components                                      *)

\* What a report says was earned, was given, and may be told
\* (packages/reporter, writeReportBundle, writeReportV3Bundle, importReportV2).
ReportIsTrue == picked = "report" => Report!ReportIsTrue

\* Receipt, ledger, close and verdict of the reference agent stay true of what
\* it did (examples/reference-agent engine.mjs and cases). The page shows only
\* what the newest start created, and a session was earned with the attempt's
\* own mail (login-testing page.mjs and engine.mjs).
SamplesAreHonest ==
  /\ picked = "agent" => Agent!AgentIsHonest
  /\ picked = "login" => Login!LoginIsTrue

\* What the target and the chunks hold is what the answers said of them
\* (clipboard-transfer reference-receiver.mjs, add and finalize). What can be
\* seen of an outbox or of a pasted bootstrap is whole, and what was begun can
\* be ended (clipboard-transfer prepare.mjs and powershell.mjs).
TransferIsSound ==
  /\ picked = "receiver" => Receiver!TransferIsTrue
  /\ picked = "outbox" => Outbox!BootstrapIsSound
=============================================================================
