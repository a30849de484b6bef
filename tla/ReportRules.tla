---------------------------- MODULE ReportRules ----------------------------
(***************************************************************************)
(* packages/reporter: what a report may say.  An input of version 2 or 3 is *)
(* validated, redacted, written test by test and summarised; a report of    *)
(* version 2 lies on disk, where it may be edited, and is imported as one    *)
(* of version 3.  The caller may change its input while it is being written, *)
(* and a getter in it may answer the sanitiser otherwise than the validator. *)
(***************************************************************************)
EXTENDS Integers, FiniteSets, Sequences
LOCAL INSTANCE SequencesExt
LOCAL INSTANCE TLC

CONSTANTS Inputs, Flawable, \* what is offered: reports of version 2 and of version 3, and
                           \* those of them that are offered with each flaw, too
          Edits, MaxEdits, \* the edits of a stored report, and how many of them
          TextOrder,       \* the identifiers in the order of their text
          None

VARIABLES phase,   \* of the one report: new, writing, stored, published, imported, refused, ...
          input,   \* what the caller holds
          given,   \* what it held when it called
          held,    \* the sanitised snapshot that is written
          tests,   \* the tests that are written so far
          stored,  \* the report of version 2 on disk
          report,  \* the report of version 3
          edited   \* the edits of the stored report

reportVars == <<phase, input, given, held, tests, stored, report, edited>>

Init == /\ phase = "new" /\ input = None /\ given = None /\ held = None /\ tests = <<>>
        /\ stored = None /\ report = None /\ edited = {}
-----------------------------------------------------------------------------
(* The shape of an input: the fields each record must and may have.  An input *)
(* has one flaw at most: a record of a class or with an unknown field, a      *)
(* field that is missing, not of its type, a getter or not enumerated, a list *)
(* with a hole or a property of its own, or data nested too deep.             *)

Fields(must, may) == [must |-> must, may |-> may]
OptionalPlaces == {"osName", "osVersion", "runnerName", "runnerVersion", "commit", "branch", "ci"}
SpecFields == {"id", "locale", "suite", "name", "intent", "sideEffect", "preconditions", "acceptanceCriteria"}
CommonSchema ==
  [app |-> Fields({"id", "name"}, {"version", "build"}),
   environment |-> Fields({}, OptionalPlaces),
   suite |-> Fields({"id", "name"}, {}),
   clause |-> Fields({"id", "text"}, {}),
   result |-> Fields({"status", "startedAt", "durationMs", "steps"}, {"artifacts", "error", "reason"}),
   step |-> Fields({"id", "title", "status", "durationMs"},
                   {"componentId", "action", "assertion", "diagnostic", "criterionIds"}),
   artifact |-> Fields({"id", "kind", "phase", "title", "captureStatus", "contentType", "capturedAt"},
                       {"sourcePath", "reviewPriority", "stepId", "description", "captureError", "sensitive",
                        "durationMs", "relatedArtifactIds"}),
   error |-> Fields({"category", "message"}, {"expected", "actual"})]
Schema2 == CommonSchema @@
  [input |-> Fields({"run", "tests"}, {}),
   run |-> Fields({"id", "title", "platform", "startedAt", "finishedAt", "app"}, {"environment"}),
   test |-> Fields({"spec", "result"}, {}),
   spec |-> Fields(SpecFields, {"platforms", "sourceName", "tags"})]
Schema3 == CommonSchema @@
  [input |-> Fields({"run", "tests"}, {}),
   run |-> Fields({"id", "title", "startedAt", "finishedAt", "app", "provenance", "hosts", "surfaces"}, {"environment"}),
   native |-> Fields({"kind"}, {}),
   importedV2 |-> Fields({"kind", "sourceSchemaVersion", "sourcePlatform", "limitations"}, {}),
   known |-> Fields({"state", "value"}, {}),
   unknown |-> Fields({"state", "reason"}, {"detail"}),
   host |-> Fields({"id", "os"}, {"name", "osVersion", "architecture"}),
   surface |-> Fields({"id", "kind", "hostId"}, {"name", "capabilities"}),
   test |-> Fields({"spec", "attempts"}, {}),
   attempts |-> Fields({"state", "finalAttemptId", "items"}, {}),
   unknownAttempts |-> Fields({"state", "reason", "result"}, {"detail"}),
   attempt |-> Fields({"id", "ordinal", "executionPlatforms", "runnerHostId", "surfaceIds", "result"}, {}),
   spec |-> Fields(SpecFields \cup {"platforms"}, {"sourceName", "tags"})]
Schema(version) == IF version = 2 THEN Schema2 ELSE Schema3

\* What may be wrong with an input; a field that the model carries is missing if it is None.
Lists == {"tests", "steps", "artifacts", "platforms", "preconditions", "acceptanceCriteria", "tags", "criterionIds",
          "relatedArtifactIds", "items", "executionPlatforms", "limitations", "capabilities"}
Traces == {"expected", "actual"}
Carried == {"platforms", "environment", "artifacts", "error", "reason", "criterionIds", "sourcePath", "captureError",
            "sourceName", "tags", "capabilities", "relatedArtifactIds", "reviewPriority", "stepId", "description"}
FlawsAt(place, fields) ==
  [at : {place}, field : {None}, kind : {"class", "unknown"}]
  \cup [at : {place}, field : fields.must, kind : {"missing", "getter", "unlisted"}]
  \cup [at : {place}, field : fields.may \ Carried, kind : {"missing"}]
  \cup [at : {place}, field : fields.must \cup fields.may, kind : {"mistyped"}]
  \cup [at : {place}, field : (fields.must \cup fields.may) \cap Lists, kind : {"hole", "property"}]
  \cup [at : {place}, field : fields.may \cap Traces, kind : {"hole", "deep"}]
Flaws(version) == UNION {FlawsAt(place, Schema(version)[place]) : place \in DOMAIN Schema(version)}

\* Version 3 takes plain data alone.  To version 2 a getter is a field like another, and so is
\* one that is not enumerated, but for the case, which is copied by enumeration; a property of a
\* list is not seen, and neither is a hole in the trace of an error.
HasShape(version, flaw) ==
  \/ flaw = None
  \/ flaw.kind = "missing" /\ flaw.field \in Schema(version)[flaw.at].may
  \/ version = 2 /\ flaw.kind \in {"getter", "property"}
  \/ version = 2 /\ flaw.kind = "unlisted" /\ flaw.at \notin {"spec", "suite", "clause"}
  \/ version = 2 /\ flaw.kind = "hole" /\ flaw.field \in Traces
-----------------------------------------------------------------------------
(* Texts, identifiers and times                                              *)

\* A text is the set of what matters of it: it is not blank (ink), it has Chinese characters
\* (han), and it has a credential (secret), which may have Chinese characters (hidden) or be
\* all that tells it from another text (this, that).
Credential == {"secret", "hidden", "this", "that"}
NotEmpty(text) == text # {}
Named(text) == text = None \/ NotEmpty(text)
IsHan(text) == text \cap {"han", "hidden"} # {}
\* Mutant: a text is redacted only if it is Chinese.
Redacted_Half(text) == IF text = None \/ "han" \notin text THEN text ELSE text \ Credential

Redacted(text) == IF text = None THEN None ELSE text \ Credential
RedactedAll(texts) == {Redacted(text) : text \in texts}

\* The case model takes an identifier that looks like a credential, the report does not.
Stable(id) == id \notin {"empty", "long", "unstable"}
Identified(id) == Stable(id) /\ id # "credential"
Timed(time) == time >= 0
Lasting(length) == length >= 0
Unique(s) == \A i, j \in DOMAIN s : s[i] = s[j] => i = j
Ids(items) == [i \in DOMAIN items |-> items[i].id]
Members(s) == {s[i] : i \in DOMAIN s}
Rank(id) == CHOOSE n \in DOMAIN TextOrder : TextOrder[n] = id
Sorted(ids) == SortSeq(ids, LAMBDA a, b : Rank(a) < Rank(b))
SortedById(items) == SortSeq(items, LAMBDA a, b : Rank(a.id) < Rank(b.id))
-----------------------------------------------------------------------------
(* The rules of one case                                                     *)

Platforms == <<"macos", "windows", "web">>
Platform == {"macos", "windows", "web"}
Status == {"passed", "failed", "timedOut", "skipped", "unsupported"}
Failing(status) == status \in {"failed", "timedOut"}
Excused(status) == status \in {"skipped", "unsupported"}

ClausesAreValid(clauses) ==
  Unique(Ids(clauses)) /\ \A c \in Members(clauses) : Stable(c.id) /\ NotEmpty(c.text)
TextsOfSpec(spec) == {spec.suite.name, spec.name, spec.intent}
                     \cup {c.text : c \in Members(spec.preconditions) \cup Members(spec.criteria)}
IsChinese(spec) == spec.locale = "zh"
SpecIsValid(spec) ==
  /\ Stable(spec.id) /\ spec.locale # "odd" /\ Stable(spec.suite.id)
  /\ spec.platforms # None
  /\ spec.platforms # <<>> /\ Unique(spec.platforms) /\ Members(spec.platforms) \subseteq Platform
  /\ NotEmpty(spec.suite.name) /\ NotEmpty(spec.name) /\ Named(spec.sourceName) /\ NotEmpty(spec.intent)
  /\ spec.sideEffect \in {"readOnly", "reversible", "writesLocal", "externalEffect", "securitySensitive"}
  /\ spec.criteria # <<>> /\ ClausesAreValid(spec.preconditions) /\ ClausesAreValid(spec.criteria)
  /\ Unique(spec.tags) /\ \A tag \in Members(spec.tags) : NotEmpty(tag)
  /\ IsChinese(spec) => \A text \in TextsOfSpec(spec) : IsHan(text)

Images == {"image/png", "image/jpeg", "image/webp"}
ContentTypes == [screenshot |-> Images, videoFrame |-> Images,
                 video |-> {"video/mp4", "video/webm", "video/quicktime"},
                 trace |-> {"application/json", "application/x-ndjson", "application/zip"},
                 agentLoop |-> {"text/html", "application/json"},
                 accessibilityTree |-> {"application/json", "text/plain"},
                 log |-> {"text/plain", "application/x-ndjson"},
                 diagnostics |-> {"application/json", "application/zip", "text/plain"}]
CaptureIsTrue(a) ==
  /\ (a.path # None) = (a.status = "captured")
  /\ a.status = "captured" => NotEmpty(a.path) /\ a.why = None
  /\ a.status = "captureFailed" => a.why # None
ArtifactIsValid(a, steps) ==
  /\ Identified(a.id) /\ NotEmpty(a.title)
  /\ a.status \in {"captured", "captureFailed", "unsupported", "notRequested"}
  /\ a.phase \in {"before", "step", "after", "failure"} /\ a.priority \in {None, "primary", "secondary"}
  /\ a.kind \in DOMAIN ContentTypes /\ a.type \in ContentTypes[a.kind]
  /\ CaptureIsTrue(a) /\ Timed(a.time) /\ Lasting(a.length)
  /\ a.step = None \/ a.step \in Members(Ids(steps))
  /\ \A id \in a.related : Identified(id)

StepIsValid(step, spec) ==
  /\ Identified(step.id) /\ NotEmpty(step.title) /\ step.status \in Status /\ Lasting(step.length)
  /\ Unique(step.covers) /\ \A id \in Members(step.covers) : Identified(id) /\ id \in Members(Ids(spec.criteria))

Covered(result) == UNION {Members(s.covers) : s \in {t \in Members(result.steps) : t.status = "passed"}}
\* Mutant: a criterion that no step covers is not missed.
StatusFits_Uncovered(spec, result) ==
  /\ result.status = "passed" => \A s \in Members(result.steps) : s.status = "passed"
  /\ Failing(result.status) \/ \A s \in Members(result.steps) : ~Failing(s.status)

StatusFits(spec, result) ==
  /\ result.status = "passed" => /\ \A s \in Members(result.steps) : s.status = "passed"
                                 /\ Members(Ids(spec.criteria)) \subseteq Covered(result)
  /\ Failing(result.status) \/ \A s \in Members(result.steps) : ~Failing(s.status)

ReasonFits(spec, result) ==
  /\ Failing(result.status) = (result.error # None)
  /\ result.error # None => NotEmpty(result.error.category) /\ NotEmpty(result.error.message)
  /\ Excused(result.status) = (result.reason # None)
  /\ result.reason # None => NotEmpty(result.reason) /\ (IsChinese(spec) => IsHan(result.reason))

InWindow(run, result) == /\ Timed(result.start) /\ Lasting(result.length)
                         /\ result.start \in run.start .. run.finish
                         /\ result.start + result.length <= run.finish

ResultIsValid(run, spec, result) ==
  /\ Identified(spec.id) /\ Identified(spec.suite.id)
  /\ \A c \in Members(spec.preconditions) \cup Members(spec.criteria) : Identified(c.id)
  /\ result.status \in Status /\ InWindow(run, result) /\ ReasonFits(spec, result)
  /\ Unique(Ids(result.steps)) /\ \A s \in Members(result.steps) : StepIsValid(s, spec)
  /\ StatusFits(spec, result)
  /\ Unique(Ids(result.artifacts))
  /\ \A a \in Members(result.artifacts) : /\ ArtifactIsValid(a, result.steps)
                                          /\ a.related \subseteq Members(Ids(result.artifacts))

RunIsValid(run) ==
  /\ Identified(run.id) /\ NotEmpty(run.title) /\ Identified(run.app.id) /\ NotEmpty(run.app.name)
  /\ Timed(run.start) /\ Timed(run.finish) /\ run.start <= run.finish

PolicyKeys == {"accessibilityTree", "logs", "screenshots", "trace", "video"}
PolicyIsValid(policy) ==
  /\ DOMAIN policy = PolicyKeys
  /\ \A key \in PolicyKeys : policy[key] \in {"off", "always"}
                               \cup IF key \in {"trace", "logs"} THEN {} ELSE {"on-failure"}
DefaultPolicy == [screenshots |-> "on-failure", video |-> "on-failure", trace |-> "always",
                  accessibilityTree |-> "on-failure", logs |-> "always"]
Policy(i) == i.policy @@ DefaultPolicy
-----------------------------------------------------------------------------
(* Version 2: one result for a test, on the platform of the run              *)

\* A case of the first days names no platform: it gets that of the run.
Normalised(i) ==
  [i EXCEPT !.tests = [k \in DOMAIN @ |-> [@[k] EXCEPT !.spec.platforms = IF @ = None THEN <<i.run.platform>> ELSE @]]]
TestsAreValid(run, ts) ==
  /\ ts # <<>> /\ Unique([k \in DOMAIN ts |-> ts[k].spec.id])
  /\ \A k \in DOMAIN ts : /\ SpecIsValid(ts[k].spec) /\ run.platform \in Members(ts[k].spec.platforms)
                          /\ ResultIsValid(run, ts[k].spec, ts[k].result)
InputIsValid(i) == /\ HasShape(2, i.flaw) /\ i.run.platform \in Platform /\ RunIsValid(i.run)
                   /\ TestsAreValid(i.run, Normalised(i).tests)

RedactedClauses(clauses) == [k \in DOMAIN clauses |-> [clauses[k] EXCEPT !.text = Redacted(@)]]
RedactedSpec(spec) ==
  [spec EXCEPT !.suite.name = Redacted(@), !.name = Redacted(@), !.sourceName = Redacted(@), !.intent = Redacted(@),
               !.preconditions = RedactedClauses(@), !.criteria = RedactedClauses(@),
               !.tags = [k \in DOMAIN @ |-> Redacted(@[k])]]
RedactedArtifact(a) == [a EXCEPT !.title = Redacted(@), !.why = Redacted(@), !.description = Redacted(@)]
RedactedError(error) == IF error = None THEN None
                        ELSE [category |-> Redacted(error.category), message |-> Redacted(error.message),
                              traces |-> RedactedAll(error.traces)]
RedactedStep(step) == [step EXCEPT !.title = Redacted(@), !.notes = RedactedAll(@)]
RedactedResult(result) ==
  [result EXCEPT !.error = RedactedError(@), !.reason = Redacted(@),
                 !.steps = [k \in DOMAIN @ |-> RedactedStep(@[k])],
                 !.artifacts = [k \in DOMAIN @ |-> RedactedArtifact(@[k])]]
RedactedRun(run) == [run EXCEPT !.title = Redacted(@), !.app.name = Redacted(@), !.notes = RedactedAll(@)]

\* What the sanitiser makes of the input: the case as it was copied, and the result as it is
\* now.  It copies the fields it knows, those that may be missing only if they are there.
Read(i) == IF i.later = None THEN i.tests ELSE i.later
Sanitised(i) ==
  [Normalised(i) EXCEPT !.run = RedactedRun(@), !.flaw = None,
     !.tests = [k \in DOMAIN @ |-> [spec |-> RedactedSpec(@[k].spec), result |-> RedactedResult(Read(i)[k].result)]]]
\* Mutant: what the sanitiser read is not validated.
Accepted_Once(i) == InputIsValid(i) /\ PolicyIsValid(Policy(i))

Accepted(i) == InputIsValid(i) /\ InputIsValid(Sanitised(i)) /\ PolicyIsValid(Policy(i))
-----------------------------------------------------------------------------
(* Version 3: attempts, hosts and surfaces, each of them known or not        *)

ContextIsValid(c) == c.known \/ /\ c.reason \in {"notRecorded", "unavailable", "redacted", "notApplicable"}
                                /\ Named(c.detail)
Catalog(c) == IF c.known THEN Members(Ids(c.value)) ELSE {}
ReferenceIsValid(c, catalog) == ContextIsValid(c) /\ (c.known => Identified(c.value) /\ c.value \in catalog)

HostIsValid(h) == /\ Identified(h.id) /\ h.os \in {"macos", "windows", "linux"}
                  /\ \A text \in h.names : NotEmpty(text)
HostsAreValid(hosts) == hosts.known => /\ hosts.value # <<>> /\ Unique(Ids(hosts.value))
                                       /\ \A h \in Members(hosts.value) : HostIsValid(h)
SurfaceIsValid(s, hosts) ==
  /\ Identified(s.id) /\ s.kind \in {"browser", "desktop", "system"} /\ ReferenceIsValid(s.host, Catalog(hosts))
  /\ Named(s.name) /\ Unique(s.capabilities) /\ \A c \in Members(s.capabilities) : Identified(c)
SurfacesAreValid(surfaces, hosts) ==
  surfaces.known => /\ surfaces.value # <<>> /\ Unique(Ids(surfaces.value))
                    /\ \A s \in Members(surfaces.value) : SurfaceIsValid(s, hosts)

\* What was imported claims nothing that version 2 does not record, and says so.
Limitations == <<"hostNotRecorded", "surfacesNotRecorded", "attemptsNotRecorded">>
ProvenanceIsValid(i) ==
  \/ i.run.provenance.kind = "native"
  \/ /\ i.run.provenance.kind = "imported-v2" /\ i.run.provenance.schema = "v2"
     /\ i.run.provenance.platform \in Platform /\ i.run.provenance.limitations = Limitations
     /\ ~i.run.hosts.known /\ ~i.run.surfaces.known /\ \A t \in Members(i.tests) : ~t.attempts.known

\* A result is validated as the one test of a report of version 2, on the case's first platform.
AsReport2(i, spec, result) ==
  [run |-> [id |-> i.run.id, title |-> i.run.title, app |-> i.run.app, start |-> i.run.start, finish |-> i.run.finish,
            notes |-> i.run.notes, platform |-> spec.platforms[1]],
   tests |-> <<[spec |-> spec, result |-> result]>>, flaw |-> None]

AttemptIsValid(i, spec, a) ==
  /\ Identified(a.id) /\ a.platforms # <<>> /\ Unique(a.platforms)
  /\ Members(a.platforms) \subseteq Platform \cap Members(spec.platforms)
  /\ ReferenceIsValid(a.host, Catalog(i.run.hosts))
  /\ ContextIsValid(a.surfaces)
  /\ a.surfaces.known => /\ a.surfaces.value # <<>> /\ Unique(a.surfaces.value)
                         /\ \A id \in Members(a.surfaces.value) :
                              Identified(id) /\ (i.run.surfaces.known => id \in Catalog(i.run.surfaces))
  /\ InputIsValid(AsReport2(i, spec, a.result))

\* Mutant: any attempt may be called the final one.
FinalIsLast_Any(attempts) == \E a \in Members(attempts.items) : a.id = attempts.final

FinalIsLast(attempts) == \E a \in Members(attempts.items) : a.id = attempts.final /\ a.ordinal = Len(attempts.items)

AttemptsAreValid(i, spec, attempts) ==
  IF ~attempts.known THEN ContextIsValid(attempts) /\ InputIsValid(AsReport2(i, spec, attempts.result))
  ELSE /\ attempts.items # <<>> /\ Identified(attempts.final) /\ Unique(Ids(attempts.items))
       /\ {a.ordinal : a \in Members(attempts.items)} = 1 .. Len(attempts.items)
       /\ \A a \in Members(attempts.items) : AttemptIsValid(i, spec, a)
       /\ FinalIsLast(attempts)

Accepted3(i) ==
  /\ HasShape(3, i.flaw) /\ RunIsValid(i.run) /\ i.tests # <<>> /\ ProvenanceIsValid(i)
  /\ ContextIsValid(i.run.hosts) /\ ContextIsValid(i.run.surfaces)
  /\ HostsAreValid(i.run.hosts) /\ SurfacesAreValid(i.run.surfaces, i.run.hosts)
  /\ Unique([k \in DOMAIN i.tests |-> i.tests[k].spec.id])
  /\ \A t \in Members(i.tests) : /\ SpecIsValid(t.spec) /\ Identified(t.spec.id)
                                 /\ AttemptsAreValid(i, t.spec, t.attempts)
  /\ PolicyIsValid(Policy(i))

\* What is known is put in order, and of what is not the detail is redacted.
SanitisedContext(c, value) == IF c.known THEN [c EXCEPT !.value = value] ELSE [c EXCEPT !.detail = Redacted(@)]
SanitisedHosts(hosts) == [n \in DOMAIN hosts |-> [SortedById(hosts)[n] EXCEPT !.names = RedactedAll(@)]]
SanitisedSurfaces(surfaces) ==
  [n \in DOMAIN surfaces |->
    [SortedById(surfaces)[n] EXCEPT !.host = SanitisedContext(@, @.value), !.name = Redacted(@), !.capabilities = Sorted(@)]]
SanitisedAttempt(a) ==
  [a EXCEPT !.platforms = SelectSeq(Platforms, LAMBDA p : p \in Members(a.platforms)),
            !.host = SanitisedContext(@, @.value), !.surfaces = SanitisedContext(@, Sorted(@.value)), !.result = RedactedResult(@)]
InOrder(items) == SortSeq(items, LAMBDA a, b : a.ordinal < b.ordinal)
SanitisedAttempts(attempts) ==
  IF attempts.known
    THEN [attempts EXCEPT !.items = [n \in DOMAIN @ |-> SanitisedAttempt(InOrder(@)[n])]]
    ELSE [attempts EXCEPT !.detail = Redacted(@), !.result = RedactedResult(@)]
Sanitised3(i) ==
  [i EXCEPT !.run = [RedactedRun(@) EXCEPT !.hosts = SanitisedContext(@, SanitisedHosts(@.value)),
                                           !.surfaces = SanitisedContext(@, SanitisedSurfaces(@.value))],
            !.tests = [k \in DOMAIN @ |-> [spec |-> RedactedSpec(@[k].spec), attempts |-> SanitisedAttempts(@[k].attempts)]]]

FinalResult(t) == IF ~t.attempts.known THEN t.attempts.result
                  ELSE (CHOOSE a \in Members(t.attempts.items) : a.id = t.attempts.final).result
AllResults(t) == IF t.attempts.known THEN [n \in DOMAIN t.attempts.items |-> t.attempts.items[n].result]
                 ELSE <<t.attempts.result>>
-----------------------------------------------------------------------------
(* The summary                                                               *)

Counted(results, status) == Cardinality({k \in DOMAIN results : results[k].status = status})
Evidence(results, status) ==
  Cardinality(UNION {{<<k, n>> : n \in {m \in DOMAIN results[k].artifacts : results[k].artifacts[m].status = status}} :
                     k \in DOMAIN results})
Summary(results, all) ==
  [discovered |-> Len(results), count |-> [s \in Status |-> Counted(results, s)],
   executed |-> Len(results) - Counted(results, "skipped"),
   evidence |-> [s \in {"captured", "captureFailed", "unsupported", "notRequested"} |-> Evidence(all, s)]]
\* Mutant: what was skipped does not make a run incomplete.
Overall_Skips(summary) == IF summary.count["failed"] > 0 THEN "failed"
                          ELSE IF summary.count["timedOut"] > 0 THEN "timedOut"
                          ELSE IF summary.count["unsupported"] > 0 THEN "incomplete" ELSE "passed"

Overall(summary) == IF summary.count["failed"] > 0 THEN "failed"
                    ELSE IF summary.count["timedOut"] > 0 THEN "timedOut"
                    ELSE IF summary.count["unsupported"] + summary.count["skipped"] > 0 THEN "incomplete"
                    ELSE "passed"

Results(ts) == [k \in DOMAIN ts |-> ts[k].result]
Finals(ts) == [k \in DOMAIN ts |-> FinalResult(ts[k])]
Summary2(ts) == Summary(Results(ts), Results(ts))
Summary3(ts) == Summary(Finals(ts), FlattenSeq([k \in DOMAIN ts |-> AllResults(ts[k])]))
Unattempted(ts) == Cardinality({k \in DOMAIN ts : ~ts[k].attempts.known})
Attempts(ts) == Len(FlattenSeq([k \in DOMAIN ts |-> AllResults(ts[k])])) - Unattempted(ts)
Report3(run, ts) == [run |-> run, tests |-> ts, attempts |-> Attempts(ts), unattempted |-> Unattempted(ts),
                     summary |-> Summary3(ts), status |-> Overall(Summary3(ts))]
-----------------------------------------------------------------------------
(* Writing                                                                   *)

\* What is kept of a result's evidence: what the policy keeps and, in version 3, what its runner
\* requires, <<attempt, piece>> by <<attempt, piece>>; and what becomes of a file that is lost.
PolicyOf == [screenshot |-> "screenshots", videoFrame |-> "screenshots", video |-> "video", trace |-> "trace",
             agentLoop |-> "trace", accessibilityTree |-> "accessibilityTree", log |-> "logs", diagnostics |-> "logs"]
Retained(a, status, policy) == \/ a.status # "captured" \/ policy[PolicyOf[a.kind]] = "always"
                               \/ policy[PolicyOf[a.kind]] = "on-failure" /\ Failing(status)
Kept(result, policy, forced) == SelectSeq(result.artifacts, LAMBDA a : a.id \in forced \/ Retained(a, result.status, policy))
File == [path |-> "evidence/t/01-step-log.txt", size |-> 1, sha256 |-> "hex"]
Facts(a) == [id |-> a.id, kind |-> a.kind, phase |-> a.phase, title |-> a.title, type |-> a.type, time |-> a.time,
             priority |-> a.priority, step |-> a.step, description |-> a.description, length |-> a.length,
             related |-> a.related, status |-> a.status, why |-> a.why]
\* Mutant: the evidence that is not kept is still referred to.
WithoutSource_Dangling(a, kept) ==
  [Facts(a) EXCEPT !.title = Redacted(@), !.description = Redacted(@), !.why = Redacted(@)] @@ [trust |-> "untrusted"]

WithoutSource(a, kept) ==
  [Facts(a) EXCEPT !.title = Redacted(@), !.description = Redacted(@), !.why = Redacted(@), !.related = @ \cap kept]
  @@ [trust |-> "untrusted"]
Stored(a, kept, lost) ==
  LET safe == WithoutSource(a, kept) IN
  IF a.status # "captured" THEN safe @@ [file |-> None]
  ELSE IF a.id \in lost THEN [safe EXCEPT !.status = "captureFailed", !.why = {"ink"}] @@ [file |-> None]
  ELSE safe @@ [file |-> File]
Written(result, policy, forced, lost) ==
  LET kept == Kept(result, policy, forced) IN
  [result EXCEPT !.artifacts = [k \in DOMAIN kept |-> Stored(kept[k], Members(Ids(kept)), lost)]]
Forced(required, attempt) == {r[2] : r \in {q \in required : q[1] = attempt}}
Written3(attempts, i, lost) ==
  IF attempts.known
    THEN [attempts EXCEPT !.items = [n \in DOMAIN @ |->
            [@[n] EXCEPT !.result = Written(@, Policy(i), Forced(i.required, attempts.items[n].id), lost)]]]
    ELSE [attempts EXCEPT !.result = Written(@, Policy(i), {}, lost)]

\* The caller asks for a report.
Offer(i) == /\ phase = "new" /\ given' = i /\ input' = i
            /\ IF IF i.version = 2 THEN Accepted(i) ELSE Accepted3(i)
                 THEN phase' = "writing" /\ held' = IF i.version = 2 THEN Sanitised(i) ELSE Sanitised3(i)
                 ELSE phase' = "refused" /\ UNCHANGED held
            /\ UNCHANGED <<tests, stored, report, edited>>
\* The caller makes its first test pass.
Change == /\ phase = "writing" /\ input = given /\ input.version = 2
          /\ input' = [input EXCEPT !.tests[1].result.status = "passed"]
          /\ UNCHANGED <<phase, given, held, tests, stored, report, edited>>

\* Mutant: a test is taken from the caller's input when its turn comes.
NextTest_Live(k) == IF given.version = 2 THEN Sanitised(input).tests[k] ELSE held.tests[k]

NextTest(k) == held.tests[k]
Captured(t) == {a.id : a \in UNION {Members(r.artifacts) : r \in
                  IF given.version = 2 THEN {t.result} ELSE Members(AllResults(t))}}
Materialise ==
  /\ phase = "writing" /\ Len(tests) < Len(held.tests)
  /\ LET t == NextTest(Len(tests) + 1) IN \E lost \in SUBSET Captured(t) :
       tests' = Append(tests, IF given.version = 2
                                THEN [t EXCEPT !.result = Written(@, Policy(given), {}, lost)]
                                ELSE [t EXCEPT !.attempts = Written3(@, given, lost)])
  /\ UNCHANGED <<phase, input, given, held, stored, report, edited>>
\* The output is there already, a file operation fails, or what is required is not there: what
\* was written is removed.
Abort == /\ phase = "writing" /\ phase' = "aborted" /\ tests' = <<>>
         /\ UNCHANGED <<input, given, held, stored, report, edited>>

Complete2 == /\ given.version = 2 /\ phase' = "stored" /\ UNCHANGED report
             /\ stored' = [run |-> held.run, schema |-> "v2", policy |-> Policy(given), tests |-> tests, flaw |-> None,
                           summary |-> Summary2(tests), status |-> Overall(Summary2(tests))]
RequiredIsThere(ts) ==
  \A r \in given.required : \E t \in Members(ts) :
    /\ t.attempts.known
    /\ \E a \in Members(t.attempts.items) : a.id = r[1] /\ \E e \in Members(a.result.artifacts) : e.id = r[2] /\ e.file # None
Complete3 == /\ given.version = 3 /\ RequiredIsThere(tests) /\ phase' = "published" /\ UNCHANGED stored
             /\ report' = Report3(held.run, tests)
Complete == /\ phase = "writing" /\ Len(tests) = Len(held.tests) /\ (Complete2 \/ Complete3)
            /\ UNCHANGED <<input, given, held, tests, edited>>
-----------------------------------------------------------------------------
(* The import                                                                *)

\* What somebody does to the file.
EditedArtifact(a, e) ==
  CASE e = "trust" -> [a EXCEPT !.trust = "trusted"]
    [] e = "file" -> [a EXCEPT !.file = [File EXCEPT !.path = "../outside"]]
    [] e = "size" -> IF a.file = None THEN a ELSE [a EXCEPT !.file.size = -1]
    [] OTHER -> IF a.file = None THEN a ELSE [a EXCEPT !.file.sha256 = "odd"]
Passing(r) == [r EXCEPT !.tests[1].result.status = "passed", !.tests[1].result.error = None]
Edited(r, e) ==
  CASE e = "status" -> [r EXCEPT !.status = "passed"]
    [] e = "forged" -> [Passing(r) EXCEPT !.summary = Summary2(Passing(r).tests), !.status = "passed"]
    [] e = "summary" -> [r EXCEPT !.summary.count["passed"] = Len(r.tests), !.summary.count["failed"] = 0]
    [] e = "executed" -> [r EXCEPT !.summary.executed = @ + 1]
    [] e = "result" -> Passing(r)
    [] e = "step" -> [r EXCEPT !.tests[1].result.steps = <<>>]
    [] e = "secret" -> [r EXCEPT !.tests[1].spec.name = @ \cup {"secret"}]
    [] e = "field" -> [r EXCEPT !.flaw = [at |-> "step", field |-> "rating", kind |-> "unknown"]]
    [] e = "policy" -> [r EXCEPT !.policy["logs"] = "on-failure"]
    [] e \in {"trust", "file", "size", "sha256"} ->
         [r EXCEPT !.tests[1].result.artifacts = [k \in DOMAIN @ |-> EditedArtifact(@[k], e)]]
    [] OTHER -> [r EXCEPT !.schema = "other"]
Edit(e) == /\ phase = "stored" /\ e \notin edited /\ Cardinality(edited) < MaxEdits
           /\ stored' = Edited(stored, e) /\ edited' = edited \cup {e}
           /\ UNCHANGED <<phase, input, given, held, tests, report>>

AsSource(a) == Facts(a) @@ [path |-> IF a.status = "captured" THEN {"ink"} ELSE None]
AsTest(t) == [t EXCEPT !.result.artifacts = [k \in DOMAIN @ |-> AsSource(@[k])]]
FileIsValid(file) == file # None /\ file.path # "../outside" /\ file.size >= 0 /\ file.sha256 = "hex"
ReportedIsValid(a) == /\ a.trust = "untrusted"
                      /\ IF a.status = "captured" THEN FileIsValid(a.file) ELSE a.file = None

\* Mutant: the summary of the file is believed.
CanonicalV2_Believed(r) ==
  /\ r.schema = "v2" /\ PolicyIsValid(r.policy)
  /\ InputIsValid([run |-> r.run, flaw |-> r.flaw, tests |-> [k \in DOMAIN r.tests |-> AsTest(r.tests[k])]])
  /\ \A t \in Members(r.tests) : \A a \in Members(t.result.artifacts) : ReportedIsValid(a)

CanonicalV2(r) ==
  /\ r.schema = "v2" /\ PolicyIsValid(r.policy)
  /\ InputIsValid([run |-> r.run, flaw |-> r.flaw, tests |-> [k \in DOMAIN r.tests |-> AsTest(r.tests[k])]])
  /\ \A t \in Members(r.tests) : \A a \in Members(t.result.artifacts) : ReportedIsValid(a)
  /\ r.summary = Summary2(r.tests) /\ r.status = Overall(Summary2(r.tests))

Unrecorded == [known |-> FALSE, reason |-> "notRecorded", detail |-> {"ink"}]
Reported(a) == RedactedArtifact(Facts(a)) @@ [trust |-> "untrusted", file |-> a.file]
ImportedTest(t) ==
  [spec |-> RedactedSpec(t.spec),
   attempts |-> Unrecorded @@ [result |->
     [RedactedResult([t.result EXCEPT !.artifacts = <<>>]) EXCEPT
        !.artifacts = [k \in DOMAIN t.result.artifacts |-> Reported(t.result.artifacts[k])]]]]
ImportedRun(run) ==
  LET safe == RedactedRun(run) IN
  [id |-> safe.id, title |-> safe.title, app |-> safe.app, notes |-> safe.notes, start |-> safe.start, finish |-> safe.finish,
   provenance |-> [kind |-> "imported-v2", schema |-> "v2", platform |-> safe.platform, limitations |-> Limitations],
   hosts |-> Unrecorded, surfaces |-> Unrecorded]
Import == /\ phase = "stored"
          /\ IF CanonicalV2(stored)
               THEN /\ phase' = "imported"
                    /\ report' = Report3(ImportedRun(stored.run), [k \in DOMAIN stored.tests |-> ImportedTest(stored.tests[k])])
               ELSE phase' = "notImported" /\ UNCHANGED report
          /\ UNCHANGED <<input, given, held, tests, stored, edited>>

Next == \/ \E i \in Inputs : Offer(i)
        \/ \E i \in Flawable : \E flaw \in Flaws(i.version) : Offer([i EXCEPT !.flaw = flaw])
        \/ \E e \in Edits : Edit(e)
        \/ Change \/ Materialise \/ Abort \/ Complete \/ Import
Spec == Init /\ [][Next]_reportVars
-----------------------------------------------------------------------------
(* Properties                                                              *)

\* The result that counts of a test of version 3, told by the ordinals alone.
LastResult(t) == IF ~t.attempts.known THEN t.attempts.result
                 ELSE (CHOOSE a \in Members(t.attempts.items) :
                         \A b \in Members(t.attempts.items) : b.ordinal <= a.ordinal).result
Lasts(ts) == [k \in DOMAIN ts |-> LastResult(ts[k])]

\* Every criterion of the case was met by a step that passed, and no step did not.
Proven(spec, result) ==
  /\ result.status = "passed" /\ \A s \in Members(result.steps) : s.status = "passed"
  /\ \A c \in Members(spec.criteria) : \E s \in Members(result.steps) : c.id \in Members(s.covers)
\* The status of a report is that of its last results, and a report that passed is proven in
\* every one of them.
Earned(r, results) ==
  /\ r.status = "passed" => \A k \in DOMAIN results : Proven(r.tests[k].spec, results[k])
  /\ r.status \in {"failed", "timedOut"} <=> \E k \in DOMAIN results : Failing(results[k].status)
  /\ r.summary.executed = r.summary.discovered - Cardinality({k \in DOMAIN results : results[k].status = "skipped"})
StatusIsEarned == /\ stored # None /\ edited = {} => Earned(stored, Results(stored.tests))
                  /\ report # None => Earned(report, Lasts(report.tests))

\* What is written is what was given, whatever the caller does to it meanwhile, and whatever
\* order it is put in.
Outcome(a) == <<a.id, a.result.status, Members(a.platforms), Ids(a.result.steps)>>
WrittenIsGiven ==
  /\ stored # None /\ edited = {} =>
       \A k \in DOMAIN stored.tests : /\ stored.tests[k].result.status = Read(given)[k].result.status
                                      /\ Ids(stored.tests[k].result.steps) = Ids(Read(given)[k].result.steps)
  /\ phase = "published" =>
       \A k \in DOMAIN report.tests :
         LET now == report.tests[k].attempts IN LET was == given.tests[k].attempts IN
         /\ Finals(report.tests)[k].status = Lasts(given.tests)[k].status
         /\ now.known => /\ {Outcome(a) : a \in Members(now.items)} = {Outcome(a) : a \in Members(was.items)}
                         /\ \A n \in DOMAIN now.items : now.items[n].ordinal = n

\* The import adds no fact, and what the reporter itself wrote can be imported.
ImportInventsNothing ==
  /\ phase = "imported" =>
       /\ report.status = stored.status /\ report.attempts = 0 /\ report.unattempted = Len(stored.tests)
       /\ report.summary = stored.summary /\ ~report.run.hosts.known /\ ~report.run.surfaces.known
       /\ ProvenanceIsValid(report)
       /\ \A t \in Members(report.tests) : \A a \in Members(t.attempts.result.artifacts) : a.trust = "untrusted"
  /\ phase = "notImported" => edited # {}

\* A piece of evidence has a file exactly if it was captured, and refers to pieces of its report.
EvidenceIsThere(results) ==
  \A r \in results : \A a \in Members(r.artifacts) : /\ (a.file # None) = (a.status = "captured")
                                                     /\ a.related \subseteq Members(Ids(r.artifacts))
EvidenceStands == /\ phase = "published" => RequiredIsThere(report.tests)
                  /\ stored # None /\ edited = {} => EvidenceIsThere(Members(Results(stored.tests)))
                  /\ report # None => \A t \in Members(report.tests) : EvidenceIsThere(Members(AllResults(t)))

TextsOfResult(r) ==
  {r.reason} \cup (IF r.error = None THEN {} ELSE {r.error.category, r.error.message} \cup r.error.traces)
  \cup UNION {{s.title} \cup s.notes : s \in Members(r.steps)}
  \cup UNION {{a.title, a.why, a.description} : a \in Members(r.artifacts)}
TextsOf(t, results) == TextsOfSpec(t.spec) \cup {t.spec.sourceName} \cup Members(t.spec.tags)
                       \cup UNION {TextsOfResult(r) : r \in results}
TextsOfRun(run) == {run.title, run.app.name} \cup run.notes
TextsOfContexts(run) ==
  (IF run.hosts.known THEN UNION {h.names : h \in Members(run.hosts.value)} ELSE {run.hosts.detail})
  \cup IF run.surfaces.known THEN {s.name : s \in Members(run.surfaces.value)} ELSE {run.surfaces.detail}
Clean(texts) == \A text \in texts : text = None \/ text \cap Credential = {}
NothingSecret ==
  /\ stored # None /\ edited = {} =>
       Clean(TextsOfRun(stored.run) \cup UNION {TextsOf(t, {t.result}) : t \in Members(stored.tests)})
  /\ report # None => Clean(TextsOfRun(report.run) \cup TextsOfContexts(report.run)
                            \cup UNION {TextsOf(t, Members(AllResults(t))) : t \in Members(report.tests)})

\* What a report says, written or imported, was earned, was given, and may be told
\* (packages/reporter writeReportBundle, writeReportV3Bundle, importReportV2).
ReportIsTrue == StatusIsEarned /\ WrittenIsGiven /\ ImportInventsNothing /\ EvidenceStands /\ NothingSecret
=============================================================================
