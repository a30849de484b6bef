------------------------- MODULE ClipboardReceiver -------------------------
(***************************************************************************)
(* scripts/clipboard-transfer ReferenceReceiver: the calls of several        *)
(* processes that put a pasted artifact together under one root.  Calls of   *)
(* one process for one session run one after another; nothing keeps two      *)
(* processes apart but what the file system refuses.  A file has its name    *)
(* only after it was written whole (a hard link of a temporary file).        *)
(***************************************************************************)
EXTENDS Integers, FiniteSets, Sequences, FiniteSetsExt, SequencesExt

CONSTANTS Caller,
          ProcessOf,  \* the process each caller is of
          Manifest,
          SessionOf,  \* the session each manifest names; they all name one target
          Index,      \* the indexes of the chunks, of every manifest
          Request,    \* the calls that are made: operation, manifest, and the frame of an add
          MaxCalls, MaxKills,
          None

Session == {SessionOf[m] : m \in Manifest}
Process == {ProcessOf[c] : c \in Caller}

\* What the code can tell of a frame: its index, what a paste that was cut off or altered
\* has spoilt, and of which artifact its bytes are.
Decodes(f) == f.spoilt # "encoding"
HasItsLength(f) == f.index \in Index /\ f.spoilt # "length"
WellFormed(f) == Decodes(f) /\ HasItsLength(f) /\ f.spoilt # "hash"

VARIABLES session,   \* the sessions whose directory there is
          manifest,  \* manifest[s]: manifest.json
          chunks,    \* the sessions whose chunks directory there is
          chunk,     \* chunk[s][i]: the bytes in its file
          temp,      \* the temporary files: where, and of which caller (None for a dead one)
          partial,   \* partial[s]: the bytes of the partial file in the root
          target,    \* the bytes of the target
          calls,     \* calls[c]: what c is doing
          queue,     \* the callers that hold or wait for a session's lock, in each process
          kept,      \* the frames that were published or found, until a cleanup removes them
          told,      \* what the callers were told: of an artifact, or that something was in the way
          users, kills, started

receiverVars == <<session, manifest, chunks, chunk, temp, partial, target, calls, queue, kept,
                  told, users, kills, started>>
files == <<session, manifest, chunks, chunk, temp, partial, target>>

Empty == [i \in Index |-> None]
Whole(m) == [i \in Index |-> m]

Idle == [at |-> "idle", op |-> None, m |-> None, frame |-> None, bytes |-> Empty]
Init == /\ session = {} /\ manifest = [s \in Session |-> None] /\ chunks = {}
        /\ chunk = [s \in Session |-> Empty] /\ temp = {} /\ partial = [s \in Session |-> Empty]
        /\ target = Empty /\ calls = [c \in Caller |-> Idle]
        /\ queue = [key \in Process \X Session |-> <<>>] /\ kept = {} /\ told = {}
        /\ users = {} /\ kills = 0 /\ started = 0

SessionFor(c) == SessionOf[calls[c].m]
Key(c) == <<ProcessOf[c], SessionFor(c)>>

\* The callers of a process are alike: the first that is idle makes the next call.
Free(c) == c = CHOOSE d \in Caller : ProcessOf[d] = ProcessOf[c] /\ calls[d].at = "idle"

\* withSessionLock: a call waits for the call before it in its process.
Begin(c, r) ==
  /\ calls[c].at = "idle" /\ Free(c) /\ started < MaxCalls
  /\ calls' = [calls EXCEPT ![c] = [Idle EXCEPT !.at = "begin", !.op = r.op, !.m = r.m, !.frame = r.frame]]
  /\ queue' = [queue EXCEPT ![<<ProcessOf[c], SessionOf[r.m]>>] = Append(@, c)]
  /\ started' = started + 1 /\ users' = users \cup {ProcessOf[c]}
  /\ UNCHANGED <<files, kept, told, kills>>

\* Mutant: the calls of a session run beside one another.
Holds_Always(c) == TRUE

Holds(c) == Head(queue[Key(c)]) = c
At(c, place) == calls[c].at = place /\ Holds(c)

Goes(c, place) == calls' = [calls EXCEPT ![c].at = place] /\ UNCHANGED <<queue, told>>

\* The call settles, and the next one of its session may begin.
Residue == {"EEXIST", "ENOTEMPTY", "CHUNK_SET_CONFLICT", "CLEANUP_CONFLICT"}
Settles(c, answer) ==
  /\ calls' = [calls EXCEPT ![c] = Idle]
  /\ queue' = [queue EXCEPT ![Key(c)] = SelectSeq(@, LAMBDA d : d # c)]
  /\ told' = told \cup (IF answer \in Residue THEN {"residue"}
                       ELSE IF calls[c].op = "finalize" /\ answer \in {"created", "already-present"}
                       THEN {calls[c].m} ELSE {})
Counted == UNCHANGED <<users, kills, started>>

\* The file a call creates, and the directory of the temporary file before it: for a partial
\* file the root.
Place(c) == CASE calls[c].op = "init" -> <<SessionFor(c), "session">>
              [] calls[c].op = "add" -> <<SessionFor(c), "chunks">>
              [] OTHER -> <<None, "root">>
DirectoryIsThere(c) == CASE calls[c].op = "init" -> SessionFor(c) \in session
                         [] calls[c].op = "add" -> SessionFor(c) \in chunks
                         [] OTHER -> TRUE
NameIsTaken(c) == CASE calls[c].op = "init" -> manifest[SessionFor(c)] # None
                    [] calls[c].op = "add" -> chunk[SessionFor(c)][calls[c].frame.index] # None
                    [] OTHER -> partial[SessionFor(c)] # Empty

\* Another process made or removed a file between the look at it and the call that followed.
Overtaken(c, answer) == Cardinality(users) > 1 /\ Settles(c, answer)

\* #init: the directories, then the manifest of the session.
InitDirectories(c) ==
  LET s == SessionFor(c) IN
  /\ At(c, "begin") /\ calls[c].op = "init"
  /\ session' = session \cup {s}
  /\ \/ IF manifest[s] = None THEN Goes(c, "create")
        ELSE IF manifest[s] = calls[c].m THEN Goes(c, "created") ELSE Settles(c, "SESSION_CONFLICT")
     \/ Overtaken(c, "EEXIST")
  /\ UNCHANGED <<manifest, chunks, chunk, temp, partial, target, kept>> /\ Counted

\* #loadSession
Loaded(c) == /\ SessionFor(c) \in session \cap chunks
             /\ manifest[SessionFor(c)] = calls[c].m
NotLoaded(c) == IF SessionFor(c) \in session \cap chunks /\ manifest[SessionFor(c)] # None
                THEN "SESSION_CONFLICT" ELSE "ENOENT"
Refuse(c) == /\ At(c, "begin") /\ calls[c].op # "init" /\ ~Loaded(c)
             /\ Settles(c, NotLoaded(c)) /\ UNCHANGED <<files, kept>> /\ Counted

\* #add: a replay of the same frame is no conflict.
Keeps(c) == kept' = kept \cup {<<SessionFor(c), calls[c].frame.index, calls[c].frame.bytes>>}
Add(c) ==
  LET f == calls[c].frame
      existing == chunk[SessionFor(c)][f.index] IN
  /\ At(c, "begin") /\ calls[c].op = "add" /\ Loaded(c)
  /\ IF ~WellFormed(f) THEN Settles(c, "CHUNK_INTEGRITY_FAILED") /\ UNCHANGED kept
     ELSE IF existing = None THEN Goes(c, "create") /\ UNCHANGED kept
     ELSE IF existing = f.bytes THEN Settles(c, "already-present") /\ Keeps(c)
     ELSE Settles(c, "CHUNK_CONFLICT") /\ UNCHANGED kept
  /\ UNCHANGED files /\ Counted

\* #atomicCreate: the temporary file is written and synced before it gets the name.
WriteTemporary(c) ==
  /\ At(c, "create")
  /\ IF DirectoryIsThere(c) THEN temp' = temp \cup {<<Place(c), c>>} /\ Goes(c, "link")
                            ELSE Settles(c, "ENOENT") /\ UNCHANGED temp
  /\ UNCHANGED <<session, manifest, chunks, chunk, partial, target, kept>> /\ Counted

\* Mutant: the temporary file is renamed onto the name, whatever it led to.
Linkable_Renames(c) == <<Place(c), c>> \in temp

\* link refuses a name that is taken, and a temporary file that is gone.
Linkable(c) == <<Place(c), c>> \in temp /\ ~NameIsTaken(c)

Link(c) ==
  /\ At(c, "link")
  /\ IF Linkable(c)
     THEN /\ Goes(c, "created")
          /\ manifest' = IF calls[c].op = "init" THEN [manifest EXCEPT ![SessionFor(c)] = calls[c].m] ELSE manifest
          /\ chunk' = IF calls[c].op = "add"
                      THEN [chunk EXCEPT ![SessionFor(c)][calls[c].frame.index] = calls[c].frame.bytes] ELSE chunk
          /\ partial' = IF calls[c].op = "finalize" THEN [partial EXCEPT ![SessionFor(c)] = calls[c].bytes] ELSE partial
          /\ IF calls[c].op = "add" THEN Keeps(c) ELSE UNCHANGED kept
     ELSE Goes(c, "refused") /\ UNCHANGED <<manifest, chunk, partial, kept>>
  /\ UNCHANGED <<session, chunks, temp, target>> /\ Counted

\* The temporary file goes in either case.
RemoveTemporary(c) ==
  /\ temp' = temp \ {<<Place(c), c>>}
  /\ \/ At(c, "refused") /\ Settles(c, "EEXIST") /\ UNCHANGED chunks
     \/ At(c, "created") /\ calls[c].op = "add" /\ Settles(c, "stored") /\ UNCHANGED chunks
     \/ /\ At(c, "created") /\ calls[c].op = "init"
        /\ IF SessionFor(c) \in session
           THEN /\ chunks' = chunks \cup {SessionFor(c)}
                /\ Settles(c, "created-or-present") \/ Overtaken(c, "EEXIST")
           ELSE Settles(c, "ENOENT") /\ UNCHANGED chunks
     \/ At(c, "created") /\ calls[c].op = "finalize" /\ Goes(c, "reopen") /\ UNCHANGED chunks
  /\ UNCHANGED <<session, manifest, chunk, partial, target, kept>> /\ Counted

\* #status
Missing(s) == {i \in Index : chunk[s][i] = None}
Status(c) == /\ At(c, "begin") /\ calls[c].op = "status" /\ Loaded(c)
             /\ Settles(c, IF Missing(SessionFor(c)) = {} THEN "complete" ELSE "missing") /\ UNCHANGED <<files, kept>> /\ Counted

\* #finalize: the target that is there, the exact set of files, the hash of the whole.
Strays(s) == \E t \in temp : t[1] = <<s, "chunks">>
IsWhole(bytes, m) == bytes = Whole(m)

Gather(c) ==
  LET s == SessionFor(c) IN
  /\ At(c, "begin") /\ calls[c].op = "finalize" /\ Loaded(c)
  /\ IF target # Empty THEN Settles(c, IF target = Whole(calls[c].m) THEN "already-present" ELSE "TARGET_CONFLICT")
     ELSE IF Missing(s) # {} THEN Settles(c, "CHUNKS_MISSING")
     ELSE IF Strays(s) THEN Settles(c, "CHUNK_SET_CONFLICT")
     ELSE IF ~IsWhole(chunk[s], calls[c].m) THEN Settles(c, "FINAL_INTEGRITY_FAILED")
     ELSE /\ calls' = [calls EXCEPT ![c].at = "clear", ![c].bytes = chunk[s]] /\ UNCHANGED <<queue, told>>
  /\ UNCHANGED <<files, kept>> /\ Counted

\* A partial file of an earlier finalize is taken away.
ClearPartial(c) ==
  /\ At(c, "clear")
  /\ partial' = [partial EXCEPT ![SessionFor(c)] = Empty]
  /\ Goes(c, "create") \/ Overtaken(c, "ENOENT")
  /\ UNCHANGED <<session, manifest, chunks, chunk, temp, target, kept>> /\ Counted

Reopen(c) == /\ At(c, "reopen")
             /\ IF IsWhole(partial[SessionFor(c)], calls[c].m) THEN Goes(c, "publish")
                                                              ELSE Settles(c, "FINAL_INTEGRITY_FAILED")
             /\ UNCHANGED <<files, kept>> /\ Counted

\* The target is linked and never written over.
Publishable(c) == partial[SessionFor(c)] # Empty /\ target = Empty

Publish(c) == /\ At(c, "publish")
              /\ IF Publishable(c) THEN target' = partial[SessionFor(c)] /\ Goes(c, "tidy")
                                   ELSE UNCHANGED target /\ Goes(c, "raced")
              /\ UNCHANGED <<session, manifest, chunks, chunk, temp, partial, kept>> /\ Counted

\* The unlink of the partial file that another process took is read as a race for the target.
Tidy(c) == /\ At(c, "tidy")
           /\ IF partial[SessionFor(c)] = Empty THEN Goes(c, "raced") /\ UNCHANGED partial
              ELSE Settles(c, "created") /\ partial' = [partial EXCEPT ![SessionFor(c)] = Empty]
           /\ UNCHANGED <<session, manifest, chunks, chunk, temp, target, kept>> /\ Counted
Raced(c) == /\ At(c, "raced")
            /\ IF target = Whole(calls[c].m)
               THEN Settles(c, "already-present") /\ partial' = [partial EXCEPT ![SessionFor(c)] = Empty]
               ELSE Settles(c, "TARGET_CONFLICT") /\ UNCHANGED partial
            /\ UNCHANGED <<session, manifest, chunks, chunk, temp, target, kept>> /\ Counted

\* #cleanup: the partial file, then the exact inventory, before anything of the session goes.
Inventoried(s) == ~\E t \in temp : t[1] \in {<<s, "session">>, <<s, "chunks">>}
Inventory(c) ==
  LET s == SessionFor(c) IN
  /\ At(c, "begin") /\ calls[c].op = "cleanup" /\ Loaded(c)
  /\ partial' = [partial EXCEPT ![s] = Empty]
  /\ \/ IF Inventoried(s) THEN Goes(c, "chunks") ELSE Settles(c, "CLEANUP_CONFLICT")
     \/ Overtaken(c, "ENOENT")
  /\ UNCHANGED <<session, manifest, chunks, chunk, temp, target, kept>> /\ Counted

InDirectory(place) == {t \in temp : t[1] = place}
RemoveChunks(c) ==
  LET s == SessionFor(c) IN
  /\ At(c, "chunks")
  /\ IF s \in chunks THEN Goes(c, "manifest") ELSE Settles(c, "ENOENT")
  /\ chunks' = chunks \ {s} /\ chunk' = [chunk EXCEPT ![s] = Empty]
  /\ temp' = temp \ InDirectory(<<s, "chunks">>) /\ kept' = {k \in kept : k[1] # s}
  /\ UNCHANGED <<session, manifest, partial, target>> /\ Counted
RemoveManifest(c) ==
  LET s == SessionFor(c) IN
  /\ At(c, "manifest")
  /\ IF manifest[s] # None THEN Goes(c, "session") ELSE Settles(c, "ENOENT")
  /\ manifest' = [manifest EXCEPT ![s] = None]
  /\ UNCHANGED <<session, chunks, chunk, temp, partial, target, kept>> /\ Counted
\* rmdir refuses a directory another process has filled again.
RemoveSession(c) ==
  LET s == SessionFor(c)
      empty == s \notin chunks /\ manifest[s] = None /\ InDirectory(<<s, "session">>) = {} IN
  /\ At(c, "session")
  /\ IF s \in session /\ empty THEN session' = session \ {s} /\ Settles(c, "removed")
                               ELSE UNCHANGED session /\ Settles(c, "ENOTEMPTY")
  /\ UNCHANGED <<manifest, chunks, chunk, temp, partial, target, kept>> /\ Counted

\* A process is killed: what its calls have written stays, the temporary files too.
Kill(p) ==
  /\ kills < MaxKills /\ \E c \in Caller : ProcessOf[c] = p /\ calls[c].at # "idle"
  /\ kills' = kills + 1
  /\ calls' = [c \in Caller |-> IF ProcessOf[c] = p THEN Idle ELSE calls[c]]
  /\ queue' = [key \in Process \X Session |-> IF key[1] = p THEN <<>> ELSE queue[key]]
  /\ temp' = {<<t[1], IF t[2] # None /\ ProcessOf[t[2]] = p THEN None ELSE t[2]>> : t \in temp}
  /\ UNCHANGED <<session, manifest, chunks, chunk, partial, target, kept, told, users, started>>

Steps(c) == \/ \E r \in Request : Begin(c, r)
            \/ InitDirectories(c) \/ Refuse(c) \/ Add(c) \/ WriteTemporary(c) \/ Link(c)
            \/ RemoveTemporary(c) \/ Status(c) \/ Gather(c) \/ ClearPartial(c) \/ Reopen(c) \/ Publish(c)
            \/ Tidy(c) \/ Raced(c) \/ Inventory(c) \/ RemoveChunks(c) \/ RemoveManifest(c) \/ RemoveSession(c)

\* Somebody else puts a file under the target's name.
Foreign == [i \in Index |-> "foreign"]
Occupy == /\ target = Empty /\ target' = Foreign /\ told' = told \cup {"occupied"}
          /\ UNCHANGED <<session, manifest, chunks, chunk, temp, partial, calls, queue, kept, users, kills, started>>

Next == (\E c \in Caller : Steps(c)) \/ (\E p \in Process : Kill(p)) \/ Occupy
Spec == Init /\ [][Next]_receiverVars
-----------------------------------------------------------------------------
(* Properties                                                              *)

\* An artifact reported as there is there, whole, and so it stays, whoever else finalizes.
FinalIsWhole == \A m \in told \cap Manifest : target = Whole(m)
\* A file that is no artifact of a transfer is never written over.
OthersAreKept == "occupied" \in told => target = Foreign
\* A frame that was published, or found again, is what its file holds until a cleanup.
StoredIsKept == \A k \in kept : chunk[k[1]][k[2]] = k[3]
\* A single process that is never killed meets no half-made file of its own calls.
OneProcessConverges == Cardinality(users) <= 1 /\ kills = 0 => "residue" \notin told

\* What the target and the chunks hold is what the answers said of them, in any order of
\* calls of several processes (reference-receiver.mjs add, finalize, cleanup).
TransferIsTrue == FinalIsWhole /\ OthersAreKept /\ StoredIsKept /\ OneProcessConverges
=============================================================================
