---------------------------- MODULE AgentService ----------------------------
(***************************************************************************)
(* packages/service AgentTestService and the MCP tools in front of it: a    *)
(* caller prepares a snapshot and starts a registered test on it under a    *)
(* request id, and asks again when an answer was lost.  Between the look    *)
(* for an earlier run and the reservation of a new one other calls go on.   *)
(* The run store under it reserves one run for a request id.                *)
(***************************************************************************)
EXTENDS Naturals, FiniteSets

CONSTANTS Call, Snapshot, RequestId,
          Asked,        \* the start requests that are made
          Sensitive,    \* tests with an effect that has to be acknowledged
          Foreign,      \* tests for another executor, platform or number of cases
          MaxRestarts,  \* bound: restarts of the service process
          None

\* A request: its id, snapshot, test, the parameter as it was supplied, the effect
\* it acknowledges, and what is wrong with it.
Test == {q.test : q \in Asked}

VARIABLES
  catalog,    \* TestCatalog: the registered tests
  snapshots,  \* snapshots[s]: none, in #preparations, ready in #snapshots, failed or lost
  owners,     \* #snapshotOwners
  runs,       \* the store: the intent of the run of a request id
  call,       \* call[c]: what it asked and where it is
  told,       \* told[c]: what the caller was answered
  failed,     \* the snapshots for which a submission was rejected
  restarts

serviceVars == <<catalog, snapshots, owners, runs, call, told, failed, restarts>>

Init == /\ catalog = {} /\ failed = {} /\ restarts = 0
        /\ snapshots = [s \in Snapshot |-> "none"]
        /\ owners = [s \in Snapshot |-> None]
        /\ runs = [r \in RequestId |-> None]
        /\ call = [c \in Call |-> [at |-> "new", asked |-> None, owned |-> FALSE]]
        /\ told = [c \in Call |-> "nothing"]
-----------------------------------------------------------------------------
(* What a definition and a request may fail                                *)

\* validateTestDefinition
Part == {"envelope", "identity", "caseSpecs", "coverage", "parameters", "runtime", "requirements", "output"}
PlainData(wrong) == "data" \notin wrong
ValidateTestDefinition(wrong) == PlainData(wrong) /\ wrong \cap Part = {}

\* The route, the tool's schema, plain data, the fields, the identities, the parameters.
Routed(q) == q.wrong # "route"
InputSchema(q) == q.wrong # "schema"
PlainRecord(q) == q.wrong # "data"
StartTestRequest(q) == q.wrong # "fields"
Identities(q) == q.wrong # "identity"
KnownParameter(q) == q.supplied # "foreign"
WellFormed(q) == /\ Routed(q) /\ InputSchema(q) /\ PlainRecord(q) /\ StartTestRequest(q)
                 /\ Identities(q) /\ KnownParameter(q)

\* normalizeParameters: what was not supplied has its default.
Normalized(q) == IF q.supplied = "absent" THEN "default" ELSE q.supplied

\* What a run is for; assertSameIntent compares it, and so does the fingerprint.
Intent(q) == [snapshot |-> q.snapshot, test |-> q.test, parameter |-> Normalized(q)]
Fingerprint(q) == Intent(q)

SnapshotSources(known) == known
Runnable(t) == t \notin Foreign
Acknowledged(q) == q.test \in Sensitive => q.acknowledged
-----------------------------------------------------------------------------
(* The catalog and the workspaces                                          *)

Register(t, wrong) ==
  /\ catalog' = IF ValidateTestDefinition(wrong) /\ t \notin catalog THEN catalog \cup {t} ELSE catalog
  /\ UNCHANGED <<snapshots, owners, runs, call, told, failed, restarts>>

Prepare(s, known) ==
  /\ snapshots[s] = "none" /\ SnapshotSources(known)
  /\ snapshots' = [snapshots EXCEPT ![s] = "preparing"]
  /\ UNCHANGED <<catalog, owners, runs, call, told, failed, restarts>>

Prepared(s, how) ==
  /\ snapshots[s] = "preparing"
  /\ snapshots' = [snapshots EXCEPT ![s] = how]
  /\ UNCHANGED <<catalog, owners, runs, call, told, failed, restarts>>
-----------------------------------------------------------------------------
(* start, from await to await                                              *)

Goes(c, place) == call' = [call EXCEPT ![c].at = place]
Answer(c, answer) == Goes(c, "over") /\ told' = [told EXCEPT ![c] = answer]

Start(c, q) ==
  /\ call[c].at = "new"
  /\ call' = [call EXCEPT ![c] = [at |-> IF WellFormed(q) /\ q.test \in catalog THEN "looking" ELSE "over",
                                  asked |-> q, owned |-> FALSE]]
  /\ told' = [told EXCEPT ![c] = IF WellFormed(q) /\ q.test \in catalog THEN "nothing" ELSE "refused"]
  /\ UNCHANGED <<catalog, snapshots, owners, runs, failed, restarts>>

\* getByRequestId finds a run: the request was made before.
Found(c) ==
  LET q == call[c].asked IN
  /\ call[c].at = "looking" /\ runs[q.id] # None
  /\ Answer(c, IF runs[q.id] = Intent(q) THEN "run" ELSE "refused")
  /\ UNCHANGED <<catalog, snapshots, owners, runs, failed, restarts>>

Mine(c) == owners[call[c].asked.snapshot] \in {None, call[c].asked.id}
Submittable(q) == snapshots[q.snapshot] = "ready" /\ Runnable(q.test) /\ Acknowledged(q)

\* Mutant: the owner is recorded once the reservation has succeeded.
Submit_LateOwner(c) ==
  LET q == call[c].asked IN
  /\ call[c].at = "looking" /\ runs[q.id] = None
  /\ IF Submittable(q) /\ Mine(c)
       THEN Goes(c, "reserving") /\ UNCHANGED told
       ELSE Answer(c, "refused")
  /\ UNCHANGED <<catalog, snapshots, owners, runs, failed, restarts>>

\* It finds none: the rest of the checks, and the snapshot is the request's.
Submit(c) ==
  LET q == call[c].asked IN
  /\ call[c].at = "looking" /\ runs[q.id] = None
  /\ IF Submittable(q) /\ Mine(c)
       THEN /\ owners' = [owners EXCEPT ![q.snapshot] = q.id]
            /\ call' = [call EXCEPT ![c].at = "reserving", ![c].owned = owners[q.snapshot] # None]
            /\ UNCHANGED told
       ELSE Answer(c, "refused") /\ UNCHANGED owners
  /\ UNCHANGED <<catalog, snapshots, runs, failed, restarts>>

\* The catch: who set the owner takes it back.
Rejected(c) ==
  LET s == call[c].asked.snapshot IN
  /\ Answer(c, "refused") /\ failed' = failed \cup {s}
  /\ owners' = IF call[c].owned THEN owners ELSE [owners EXCEPT ![s] = None]

\* Mutant: the run of the request is returned, whatever it is for.
Reserve_AnyIntent(c) ==
  LET q == call[c].asked IN
  /\ call[c].at = "reserving" /\ Answer(c, "run")
  /\ runs' = IF runs[q.id] = None THEN [runs EXCEPT ![q.id] = Intent(q)] ELSE runs
  /\ UNCHANGED <<catalog, snapshots, owners, failed, restarts>>

\* PersistentRunService.start: a run is created, or found with the same fingerprint.
Reserve(c) ==
  LET q == call[c].asked IN
  /\ call[c].at = "reserving"
  /\ IF runs[q.id] \in {None, Fingerprint(q)}
       THEN /\ runs' = [runs EXCEPT ![q.id] = Intent(q)]
            /\ Answer(c, "run") /\ UNCHANGED <<owners, failed>>
       ELSE Rejected(c) /\ UNCHANGED runs
  /\ UNCHANGED <<catalog, snapshots, restarts>>

StoreFails(c) == /\ call[c].at \in {"looking", "reserving"}
                 /\ IF call[c].at = "reserving" THEN Rejected(c)
                                               ELSE Answer(c, "refused") /\ UNCHANGED <<owners, failed>>
                 /\ UNCHANGED <<catalog, snapshots, runs, restarts>>

\* A run that was reserved may go on; calls and everything in memory are lost.
Restart == /\ restarts < MaxRestarts /\ restarts' = restarts + 1
           /\ catalog' = {}
           /\ snapshots' = [s \in Snapshot |-> IF snapshots[s] = "none" THEN "none" ELSE "lost"]
           /\ owners' = [s \in Snapshot |-> None]
           /\ call' = [c \in Call |-> IF call[c].at = "new" THEN call[c] ELSE [call[c] EXCEPT !.at = "over"]]
           /\ UNCHANGED <<runs, told, failed>>

Next == \/ \E t \in Test, wrong \in {{}, {"parameters"}} : Register(t, wrong)
        \/ \E s \in Snapshot : \/ \E known \in BOOLEAN : Prepare(s, known)
                             \/ \E how \in {"ready", "failed"} : Prepared(s, how)
        \/ \E c \in Call : \/ \E q \in Asked : Start(c, q)
                           \/ Found(c) \/ Submit(c) \/ Reserve(c) \/ StoreFails(c)
        \/ Restart
-----------------------------------------------------------------------------
(* Properties                                                              *)

\* Whoever was told of a run was told of the one run of its request, and that run
\* is for what it asked, in whatever order the calls of one request overlap and
\* whatever was lost on the way; no test with a sensitive effect has a run unless
\* somebody acknowledged it under that request; and a snapshot has runs of two
\* requests only after a submission of it was rejected.
AnswersMatch == \A c \in Call : told[c] = "run" => runs[call[c].asked.id] = Intent(call[c].asked)
EffectsAcknowledged ==
  \A r \in RequestId : runs[r] # None /\ runs[r].test \in Sensitive =>
    \E c \in Call : call[c].asked # None /\ call[c].asked.id = r /\ call[c].asked.acknowledged
OneRequestPerSnapshot ==
  \A r, s \in RequestId : r # s /\ None \notin {runs[r], runs[s]} /\ runs[r].snapshot = runs[s].snapshot =>
    runs[r].snapshot \in failed
RequestIsKept == AnswersMatch /\ EffectsAcknowledged /\ OneRequestPerSnapshot
=============================================================================
