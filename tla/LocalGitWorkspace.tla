------------------------- MODULE LocalGitWorkspace -------------------------
(***************************************************************************)
(* packages/service/src/workspaces LocalGitWorkspaceProvider: the prepare    *)
(* of a detached, read-only snapshot of a Git work tree.  Calls of several   *)
(* providers, in one process or in several, share the snapshot root; the     *)
(* source is edited and committed to meanwhile, any command may fail or be   *)
(* aborted, and something else may take the place of a directory between     *)
(* two steps: a step verifies the identity and acts, which is taken as one.  *)
(***************************************************************************)
EXTENDS Naturals, Sequences

CONSTANTS Call,     \* calls of prepare
          Provider, \* the provider objects
          OpId,     \* the operation ids of the requests
          Uuid,     \* what createUuid returns: a path under the snapshot root
          Commit    \* the commits of the source

VARIABLES
  at,        \* at[c]: the step the call is at
  asked,     \* asked[c]: its provider, operation id and uuid
  record,    \* record[p, o]: the status in #operations
  reserved,  \* reserved[p]: #reservedSnapshotIds
  resolved,  \* resolved[c]: the commit its revision was resolved to
  directory, \* directory[u]: whose it is, what is in it, and how
  source     \* the commit the revision names and whether the work tree is dirty

workspaceVars == <<at, asked, record, reserved, resolved, directory, source>>

Steps == <<"paths", "clean", "resolve", "mkdir", "clone", "checkout", "head", "tidy", "unmoved",
           "links", "readonly", "still">>
StepNames == {Steps[i] : i \in 1 .. Len(Steps)}
Following(s) == LET i == CHOOSE i \in 1 .. Len(Steps) : Steps[i] = s
                IN  IF i = Len(Steps) THEN "ready" ELSE Steps[i + 1]

Contents == {"none", "empty", "repository"} \cup Commit
Absent == [by |-> "nobody", content |-> "none", dirty |-> FALSE, links |-> FALSE, readonly |-> FALSE]

TypeOK ==
  /\ at \in [Call -> StepNames \cup {"new", "refused", "discard", "failed", "ready"}]
  /\ asked \in [Call -> (Provider \X OpId \X Uuid) \cup {<<>>}]
  /\ record \in [Provider \X OpId -> {"none", "preparing", "ready", "failed"}]
  /\ reserved \in [Provider -> SUBSET Uuid]
  /\ resolved \in [Call -> Commit \cup {"none"}]
  /\ directory \in [Uuid -> [by : Call \cup {"nobody", "another"}, content : Contents,
                             dirty : BOOLEAN, links : BOOLEAN, readonly : BOOLEAN]]
  /\ source \in [head : Commit, dirty : BOOLEAN]

Init == /\ at = [c \in Call |-> "new"] /\ asked = [c \in Call |-> <<>>]
        /\ record = [k \in Provider \X OpId |-> "none"] /\ reserved = [p \in Provider |-> {}]
        /\ resolved = [c \in Call |-> "none"] /\ directory = [u \in Uuid |-> Absent]
        /\ source = [head |-> CHOOSE k \in Commit : TRUE, dirty |-> FALSE]
-----------------------------------------------------------------------------
Place(c) == asked[c][3]
Key(c) == <<asked[c][1], asked[c][2]>>

\* readRequest, the conflict of operation ids, the locator, and the reservation of the uuid.
ReadRequest(defect) == defect # "request"
SourceAllowed(defect) == defect \notin {"provider", "locator"}

Prepare(c, p, o, u, defect) ==
  /\ at[c] = "new"
  /\ IF ~ReadRequest(defect) \/ record[<<p, o>>] # "none"
       THEN at' = [at EXCEPT ![c] = "refused"] /\ UNCHANGED <<asked, record, reserved>>
       ELSE /\ asked' = [asked EXCEPT ![c] = <<p, o, u>>]
            /\ IF SourceAllowed(defect) /\ u \notin reserved[p]
                 THEN /\ record' = [record EXCEPT ![<<p, o>>] = "preparing"]
                      /\ reserved' = [reserved EXCEPT ![p] = @ \cup {u}]
                      /\ at' = [at EXCEPT ![c] = "paths"]
                 ELSE /\ record' = [record EXCEPT ![<<p, o>>] = "failed"]
                      /\ at' = [at EXCEPT ![c] = "failed"] /\ UNCHANGED reserved
  /\ UNCHANGED <<resolved, directory, source>>

\* verifySnapshotDirectoryIdentity: what is at the path is what this call made there.
VerifySnapshotDirectoryIdentity(c) == directory[Place(c)].by = c
Mkdir(c) == directory[Place(c)] = Absent
RequireClean == ~source.dirty
RequireCleanSnapshot(c) == ~directory[Place(c)].dirty
RejectTreeSymlinks(c) == ~directory[Place(c)].links

\* What a step asks before it goes on.
Passes(c, s) ==
  /\ s = "mkdir" => Mkdir(c)
  /\ s \in {"clone", "checkout", "head", "tidy", "unmoved", "links", "readonly", "still"}
       => VerifySnapshotDirectoryIdentity(c)
  /\ s \in {"clean", "unmoved"} => RequireClean
  /\ s = "head" => directory[Place(c)].content = resolved[c]
  /\ s \in {"tidy", "still"} => RequireCleanSnapshot(c)
  /\ s = "links" => RejectTreeSymlinks(c)

\* A checkout may run filters that leave the tree dirty, or bring symbolic links with it.
Done(c, s, dirty, links) ==
  directory' = [directory EXCEPT ![Place(c)] =
    CASE s = "mkdir"    -> [Absent EXCEPT !.by = c, !.content = "empty"]
      [] s = "clone"    -> [@ EXCEPT !.content = "repository"]
      [] s = "checkout" -> [@ EXCEPT !.content = resolved[c], !.dirty = dirty, !.links = links]
      [] s = "readonly" -> [@ EXCEPT !.readonly = TRUE]
      [] OTHER          -> @]

Proceed(c, dirty, links) ==
  /\ at[c] \in StepNames /\ Passes(c, at[c])
  /\ Done(c, at[c], dirty, links)
  /\ resolved' = IF at[c] = "resolve" THEN [resolved EXCEPT ![c] = source.head] ELSE resolved
  /\ at' = [at EXCEPT ![c] = Following(at[c])]
  /\ record' = IF Following(at[c]) = "ready" THEN [record EXCEPT ![Key(c)] = "ready"] ELSE record
  /\ UNCHANGED <<asked, reserved, source>>

\* A command fails, the boundary was moved, or the signal is aborted.
Fails(c) == /\ at[c] \in StepNames /\ at' = [at EXCEPT ![c] = "discard"]
            /\ UNCHANGED <<asked, record, reserved, resolved, directory, source>>

\* destinationIdentity: this call has made the directory.
Made(c) == directory[Place(c)].by = c

\* Mutant: the directory is discarded by its path.
DiscardPreparationTree_ByPath(c) ==
  directory' = [directory EXCEPT ![Place(c)] = Absent]

\* Nothing is removed that is not this call's, and what cannot be removed is left.
DiscardPreparationTree(c) ==
  IF Made(c) THEN \/ directory' = [directory EXCEPT ![Place(c)] = Absent]
                  \/ UNCHANGED directory
             ELSE UNCHANGED directory

Discard(c) == /\ at[c] = "discard" /\ DiscardPreparationTree(c)
              /\ at' = [at EXCEPT ![c] = "failed"]
              /\ record' = [record EXCEPT ![Key(c)] = "failed"]
              /\ UNCHANGED <<asked, reserved, resolved, source>>

\* The people who work in the source.
Edit == source' = [source EXCEPT !.dirty = ~@] /\ UNCHANGED <<at, asked, record, reserved, resolved, directory>>
Commits(k) == source' = [head |-> k, dirty |-> FALSE]
              /\ UNCHANGED <<at, asked, record, reserved, resolved, directory>>

\* Another directory takes the place of a snapshot's.
Replace(u) == /\ directory[u].by \in Call
              /\ directory' = [directory EXCEPT ![u] = [Absent EXCEPT !.by = "another"]]
              /\ UNCHANGED <<at, asked, record, reserved, resolved, source>>

Next == \/ \E c \in Call, p \in Provider, o \in OpId, u \in Uuid,
               d \in {"nothing", "request", "provider", "locator"} : Prepare(c, p, o, u, d)
        \/ \E c \in Call, dirty, links \in BOOLEAN : Proceed(c, dirty, links)
        \/ \E c \in Call : Fails(c) \/ Discard(c)
        \/ Edit \/ \E k \in Commit : Commits(k)
        \/ \E u \in Uuid : Replace(u)
-----------------------------------------------------------------------------
(* SnapshotsStandAlone                                                     *)
(* A snapshot that is handed out is the commit its revision was resolved to, *)
(* whatever happened to the source since: clean, free of links, read-only,   *)
(* in a directory its own call made.  And the directory of one call is       *)
(* changed and removed by that call alone, also when two providers were      *)
(* given the same name for it.                                               *)
Whole(c) == directory[Place(c)] = [by |-> c, content |-> resolved[c], dirty |-> FALSE,
                                   links |-> FALSE, readonly |-> TRUE]
HandedOut(c) == at[c] # "ready" /\ at'[c] = "ready"
Touched(u) == directory'[u] # directory[u] /\ directory'[u].by # "another"
StandAlone ==
  /\ \A c \in Call : HandedOut(c) => Whole(c)' /\ Whole(c)
  /\ \A u \in Uuid : Touched(u) => \/ directory[u].by = "nobody"
                                   \/ \E c \in Call : directory[u].by = c /\ at'[c] # at[c]
SnapshotsStandAlone == [][StandAlone]_workspaceVars
=============================================================================
