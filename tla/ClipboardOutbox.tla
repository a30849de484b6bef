-------------------------- MODULE ClipboardOutbox --------------------------
(***************************************************************************)
(* scripts/clipboard-transfer, the sender's half: preparations that publish  *)
(* an outbox, each in its own staging directory, and the commands of an       *)
(* outbox, pasted into a shell in any order, again, or not at all, which       *)
(* install the receiver engine that all sessions share.  The shell may be      *)
(* killed, or a write may fail, inside a command.                              *)
(***************************************************************************)
EXTENDS Integers, FiniteSets

CONSTANTS Preparation,
          Input,     \* Input[p]: what preparation p is asked for
          MinLimit, MaxLimit,          \* the command lengths that may be asked for
          MaxChunk, MaxTotal, MaxChunks,  \* the bounds of the protocol
          Header,    \* the length of a data frame without its payload
          Fixed,     \* the length of the longest initial or control command
          Loop,      \* the length of a frame of the loop
          Part,      \* the parts of the compressed engine
          MaxCuts    \* bound: commands that are cut off

VARIABLES place,     \* place[p]: where the files of preparation p are
          written,   \* written[p]: how many kinds of them are written
          there,     \* there[n]: what the state directory holds under the name n
          told,      \* the markers that were read in the terminal
          cuts

outboxVars == <<place, written, there, told, cuts>>

Work == {"gz.work", "raw.work"}
InBootstrap == {"listing", "gz", "bootTemp", "stray"} \cup Work \cup Part
InSession == {"manifest", "temp", "bootstrap", "chunks"}
Name == {"state", "session", "engine"} \cup InSession \cup InBootstrap

Init == /\ place = [p \in Preparation |-> "none"] /\ written = [p \in Preparation |-> 0]
        /\ there = [n \in Name |-> "absent"] /\ told = {} /\ cuts = 0
-----------------------------------------------------------------------------
(* prepareTransfer: chunks are made smaller until every command fits         *)

Ceil(n, d) == (n + d - 1) \div d
Larger(x, y) == IF x > y THEN x ELSE y

\* validateTargetName: one Windows file, and none of the receiver's own.
NameIsAllowed(name) == name \notin {"empty", "long", "composed", "dots", "trailing", "illegal", "reserved", "state"}

\* buildManifest, for a chunk of this size.
ManifestError(p, size) ==
  LET i == Input[p] IN
  CASE i.length > MaxTotal -> "INVALID_INPUT"
    [] i.length <= MaxTotal /\ size > MaxChunk -> "INVALID_CHUNK_SIZE"
    [] i.length <= MaxTotal /\ size <= MaxChunk /\ Ceil(i.length, size) > MaxChunks -> "TOO_MANY_CHUNKS"
    [] OTHER -> "none"

\* The first chunk is the longest; an empty file has none.
Longest(p, size) ==
  LET i == Input[p]
      raw == IF size < i.length THEN size ELSE i.length
      other == Larger(Fixed, Loop)
  IN IF i.length = 0 THEN other ELSE Larger(Header + 4 * Ceil(raw, 3), other)
\* Mutant: only the payload is measured.
Fits_Payload(p, size) == 4 * Ceil(size, 3) <= Input[p].limit

Fits(p, size) == Longest(p, size) <= Input[p].limit
Shrunk(p, size) == size - Larger(1, Ceil((Longest(p, size) - Input[p].limit) * 3, 4))

\* The plan from a size on.
Plan(p) ==
  LET from[size \in Int] ==
        IF size < 1 THEN [error |-> "COMMAND_LIMIT_TOO_SMALL", size |-> 0]
        ELSE IF ManifestError(p, size) # "none" THEN [error |-> ManifestError(p, size), size |-> 0]
        ELSE IF Fits(p, size) THEN [error |-> "none", size |-> size]
        ELSE IF Fixed > Input[p].limit THEN [error |-> "COMMAND_LIMIT_TOO_SMALL", size |-> 0]
        ELSE from[Shrunk(p, size)]
      asked == Input[p]
  IN IF ~NameIsAllowed(asked.name) THEN [error |-> "INVALID_TARGET_NAME", size |-> 0]
     ELSE IF asked.limit \notin MinLimit .. MaxLimit THEN [error |-> "INVALID_COMMAND_LIMIT", size |-> 0]
     ELSE IF asked.chunk < 1 THEN [error |-> "INVALID_CHUNK_SIZE", size |-> 0]
     ELSE from[asked.chunk]
-----------------------------------------------------------------------------
(* prepare.mjs: the outbox is staged beside its place and renamed to it      *)

Outboxes == {p \in Preparation : place[p] = "outbox"}
Rival(p) == {q \in Outboxes : Input[q].directory = Input[p].directory}
\* Nothing takes an outbox away, so that all preparations may as well end before a command is pasted.
Preparing == \E p \in Preparation : place[p] \in {"none", "staging"}
Goes(p, to) == place' = [place EXCEPT ![p] = to]
Rest == UNCHANGED <<there, told, cuts>>

Prepare(p) == /\ place[p] = "none" /\ Rest /\ UNCHANGED written
              /\ Goes(p, IF Plan(p).error = "none" /\ Rival(p) = {} THEN "staging" ELSE "over")
\* The frames, then the plan, then READY; each file is created exclusively.
Kinds == <<"frames", "plan", "READY">>
Write(p) == /\ place[p] = "staging" /\ written[p] < 3
            /\ written' = [written EXCEPT ![p] = @ + 1] /\ UNCHANGED place /\ Rest
\* Mutant: the outbox is renamed before its last file.
Publishable_Early(p) == written[p] = 2

Publishable(p) == written[p] = 3
\* A directory that is there is not empty, and rename refuses it.
Publish(p) == /\ place[p] = "staging" /\ Publishable(p) /\ Rival(p) = {} /\ Goes(p, "outbox")
              /\ UNCHANGED written /\ Rest
\* What fails takes the staging directory with it; what is killed, and what fails in that too,
\* leaves it under a name of its own.
Fail(p) == /\ place[p] = "staging" /\ Goes(p, "over") /\ written' = [written EXCEPT ![p] = 0] /\ Rest
-----------------------------------------------------------------------------
(* buildInitCommands: each command begins with the checks of its directories *)

Has(n) == there[n] # "absent"
With(names, content) == [n \in Name |-> IF n \in names THEN content ELSE there[n]]
Chain == {"state", "session"}
BootstrapChain == Chain \cup {"bootstrap"}

\* Only what is in an outbox is pasted, and only where its directories are does it go on.
Paste(directories) == ~Preparing /\ Outboxes # {} /\ (\A n \in directories : Has(n)) /\ UNCHANGED <<place, written>>
\* Of the markers, those are kept that something relies on.
Ends(marker) == told' = told \cup ({marker} \cap {"inventory", "gzip", "engine", "ready"}) /\ UNCHANGED cuts
Cut == cuts < MaxCuts /\ cuts' = cuts + 1 /\ UNCHANGED told

\* A directory that is there is left; both are made by the first command.
PrepareSession == Paste({}) /\ \/ there' = With(Chain, "directory") /\ Ends("prepare")
                               \/ there' = With({"state"}, "directory") /\ Cut

\* function w: the exact file is left alone, another is a conflict; else a temporary file is
\* written, hashed and moved.  Only a kill leaves the temporary file.
WriteExact(n, temp, marker) ==
  \/ there[n] \in {"absent", "whole"} /\ there' = With({n}, "whole") /\ Ends(marker)
  \/ there[n] = "absent" /\ there' = With({temp}, "torn") /\ Cut

StartManifest == Paste(Chain) /\ WriteExact("manifest", "temp", "manifest")
PrepareEngine == Paste(Chain) /\ there' = With({"bootstrap"}, "directory") /\ Ends("bootstrap")
StartEngine == Paste(BootstrapChain) /\ WriteExact("listing", "bootTemp", "stage")
PastePart(i) == Paste(BootstrapChain) /\ WriteExact(i, "bootTemp", "part")

Recover == Paste(BootstrapChain) /\ there' = With({"temp", "bootTemp"}, "absent") /\ Ends("recovery")

\* The names the inventory knows: a temporary file is not among them.
Inventoried == /\ there["listing"] = "whole" /\ \A i \in Part : Has(i)
               /\ {n \in InBootstrap : Has(n)} \subseteq {"listing", "gz"} \cup Work \cup Part
Inventory == Paste(BootstrapChain) /\ Inventoried /\ Ends("inventory") /\ UNCHANGED there

\* The old work file is removed, then the parts are read, then the new one is written in place:
\* a part that is missing stops it in between, and what cuts it off leaves a torn file.
Assemble ==
  /\ Paste(BootstrapChain)
  /\ \/ (\A i \in Part : Has(i)) /\ there' = With({"gz.work"}, "whole") /\ Ends("assemble")
     \/ (\E i \in Part : ~Has(i)) /\ there' = With({"gz.work"}, "absent") /\ UNCHANGED <<told, cuts>>
     \/ there' = With({"gz.work"}, "absent") /\ Cut
     \/ (\A i \in Part : Has(i)) /\ there' = With({"gz.work"}, "torn") /\ Cut

\* What is published is hashed first; the exact file, where it is, is left alone.
Moved(from, to) == [With({to}, there[from]) EXCEPT ![from] = "absent"]

PublishCompressed ==
  /\ Paste(BootstrapChain)
  /\ \/ there["gz"] = "whole" /\ UNCHANGED there
     \/ ~Has("gz") /\ there["gz.work"] = "whole" /\ there' = Moved("gz.work", "gz")
  /\ Ends("gzip")

\* The compressed engine is not hashed again.
Inflate ==
  /\ Paste(BootstrapChain \cup {"gz"})
  /\ \/ there["gz"] = "whole" /\ there' = With({"raw.work"}, "whole") /\ Ends("inflate")
     \/ \E content \in {"absent", "torn"} : there' = With({"raw.work"}, content) /\ Cut

\* Mutant: a work file that is there is taken for the engine.
RawIsEngine_Unhashed == Has("raw.work")

RawIsEngine == there["raw.work"] = "whole"

PublishEngine ==
  /\ Paste(BootstrapChain)
  /\ \/ there["engine"] = "whole" /\ UNCHANGED there
     \/ ~Has("engine") /\ RawIsEngine /\ there' = Moved("raw.work", "engine")
  /\ Ends("engine")

MakeChunks == Paste(Chain) /\ there' = With({"chunks"}, "directory") /\ Ends("chunks")

\* The last command hashes the manifest and the engine; it does not look for the chunks.
Ready == /\ Paste(Chain) /\ there["manifest"] = "whole" /\ there["engine"] = "whole"
         /\ Ends("ready") /\ UNCHANGED there
-----------------------------------------------------------------------------
(* abortInit, and what others do                                             *)

\* What is removed, in this order; the manifest is hashed and the names of the session are
\* looked at before anything is, those of the bootstrap directory as it is emptied.
AbortOrder == <<InBootstrap, {"bootstrap"}, {"temp"}, {"manifest"}, {"session"}>>
\* Mutant: the work files are not in the inventory.
BootstrapNames_NoWork == {"listing", "gz", "bootTemp"} \cup Part

BootstrapNames == {"listing", "gz", "bootTemp"} \cup Work \cup Part
Foreign == {n \in InBootstrap : Has(n)} \ BootstrapNames
Admitted == there["manifest"] \in {"absent", "whole"} /\ ~Has("chunks")
Gone(k, some) == With(UNION {AbortOrder[i] : i \in 1 .. k - 1} \cup some, "absent")

Abort ==
  /\ Paste(Chain) /\ Admitted
  /\ \/ Foreign = {} /\ there' = With(UNION {AbortOrder[i] : i \in 1 .. 5}, "absent") /\ told' = {} /\ UNCHANGED cuts
     \/ \* a foreign name ends it among the files of the bootstrap directory
        /\ Foreign # {} /\ told' = {} /\ UNCHANGED cuts
        /\ \E some \in SUBSET {n \in BootstrapNames : Has(n)} : there' = Gone(1, some)
     \/ /\ Foreign = {} /\ told' = {} /\ cuts < MaxCuts /\ cuts' = cuts + 1
        /\ \E k \in 1 .. 5 : \E some \in SUBSET {n \in AbortOrder[k] : Has(n)} : there' = Gone(k, some)

\* The control commands, and those of a chunk: the engine is hashed and then run.
Invoke == Paste({"state"}) /\ there["engine"] = "whole" /\ Ends("run") /\ UNCHANGED there

\* Another outbox with the same session id was begun here first; somebody leaves a file in
\* the bootstrap directory; the session of another outbox installs the same engine.
Others == /\ ~Preparing /\ Outboxes # {} /\ UNCHANGED <<place, written, told, cuts>>
          /\ \/ ~Has("session") /\ there' = [With(Chain, "directory") EXCEPT !["manifest"] = "other"]
             \/ Has("bootstrap") /\ there' = With({"stray"}, "other")
             \/ Has("state") /\ ~Has("engine") /\ there' = With({"engine"}, "whole")

Pastes == \/ PrepareSession \/ StartManifest \/ PrepareEngine \/ StartEngine \/ Recover \/ Inventory
          \/ Assemble \/ PublishCompressed \/ Inflate \/ PublishEngine \/ MakeChunks \/ Ready \/ Abort \/ Invoke
          \/ \E i \in Part : PastePart(i)
Next == \/ \E p \in Preparation : Prepare(p) \/ Write(p) \/ Publish(p) \/ Fail(p)
        \/ Pastes \/ Others
Spec == Init /\ [][Next]_outboxVars
-----------------------------------------------------------------------------
(* Properties                                                              *)

\* An outbox that can be seen has its READY, its chunks make up the input, all its commands
\* fit, and it is the only one of its directory; an input is refused for its limit only if no
\* size of a chunk fits.
OutboxIsWhole ==
  /\ \A p \in Outboxes :
       LET size == Plan(p).size count == Ceil(Input[p].length, size) IN
       /\ written[p] = 3 /\ Rival(p) = {p}
       /\ Longest(p, size) <= Input[p].limit /\ count \in 0 .. MaxChunks
       /\ size <= Input[p].chunk /\ count * size >= Input[p].length
  /\ \A p \in Preparation : Plan(p).error = "COMMAND_LIMIT_TOO_SMALL" =>
       \A size \in 1 .. Input[p].chunk : Longest(p, size) > Input[p].limit

\* What has a name of its own is never torn, and a marker that was read means what it says
\* until the session is aborted.
MarkersHold ==
  /\ \A n \in Name \ (Work \cup {"temp", "bootTemp"}) : there[n] # "torn"
  /\ "inventory" \in told => there["listing"] = "whole" /\ \A i \in Part : there[i] = "whole"
  /\ "gzip" \in told => there["gz"] = "whole"
  /\ told \cap {"engine", "ready"} # {} => there["engine"] = "whole"
  /\ "ready" \in told => there["manifest"] = "whole"

\* An initialisation that was interrupted anywhere can be taken back: the abort knows every
\* name the commands may have left.
AlwaysAbortable ==
  Has("session") /\ there["manifest"] # "other" /\ ~Has("chunks") /\ ~Has("stray") => Admitted /\ Foreign = {}

\* Whatever is pasted in whatever order and wherever the shell is killed, what can be seen is
\* whole and what was begun can be ended (prepare.mjs; lib/powershell.mjs buildInitCommands).
BootstrapIsSound == OutboxIsWhole /\ MarkersHold /\ AlwaysAbortable
=============================================================================
