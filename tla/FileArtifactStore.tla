------------------------- MODULE FileArtifactStore -------------------------
(***************************************************************************)
(* packages/service FileArtifactStore: artifacts as manifests that name a  *)
(* blob by its digest.  Puts are done one after the other; gets and lists  *)
(* read the directory at any time.  Files may be damaged and the process   *)
(* may stop between any two steps of a put.                                *)
(***************************************************************************)
EXTENDS Sequences

CONSTANTS Artifact,  \* identities: run, name, media type and digest
          Digest,    \* the digest is the blob's name
          DigestOf,
          Caller,
          None

DigestAssumption == DigestOf \in [Artifact -> Digest]

Reading == [artifact : Artifact, at : {"manifest", "blob", "data", "absent", "corrupt"}, due : BOOLEAN]
ReadingAssumption == None \notin Reading

VARIABLES
  manifest,  \* manifest[a]: the file that describes a
  blob,      \* blob[d]: the file that holds the bytes with digest d
  tail,      \* the puts that wait for their turn, the first one being done
  step,      \* what the first put does next
  known,     \* it found a manifest that describes the same artifact
  spoilt,    \* a file of the artifact was damaged while it was put
  get,       \* get[c]: the artifact c reads and how far it is
  put,       \* put[c]: how far c's put is
  acked,     \* artifacts whose put succeeded and whose files nobody damaged since
  harmed     \* artifacts a file of which was damaged since

files == <<manifest, blob>>
writer == <<tail, step, known, spoilt>>
calls == <<get, put>>
vars == <<files, writer, calls, acked, harmed>>

File == {"none", "good", "bad"}

TypeOK ==
  /\ manifest \in [Artifact -> File] /\ blob \in [Digest -> File]
  /\ tail \in Seq([by : Caller, artifact : Artifact])
  /\ step \in {"manifest", "discard", "blob", "replace", "write", "describe"}
  /\ known \in BOOLEAN /\ spoilt \in BOOLEAN
  /\ get \in [Caller -> Reading \cup {None}]
  /\ put \in [Caller -> {"none", "waiting", "stored", "failed"}]
  /\ acked \subseteq Artifact /\ harmed \subseteq Artifact

Init == /\ manifest = [a \in Artifact |-> "none"] /\ blob = [d \in Digest |-> "none"]
        /\ tail = <<>> /\ step = "manifest" /\ known = FALSE /\ spoilt = FALSE
        /\ get = [c \in Caller |-> None] /\ put = [c \in Caller |-> "none"]
        /\ acked = {} /\ harmed = {}
-----------------------------------------------------------------------------
(* put                                                                     *)

\* #writeTail: a put begins when the one before it has settled, either way.
Put(c, a) == /\ put[c] = "none"
             /\ put' = [put EXCEPT ![c] = "waiting"]
             /\ tail' = Append(tail, [by |-> c, artifact |-> a])
             /\ UNCHANGED <<files, step, known, spoilt, get, acked, harmed>>

\* The caller is told how its put ended.
Told(c, how) == /\ put[c] = how
                /\ put' = [put EXCEPT ![c] = "none"]
                /\ UNCHANGED <<files, writer, get, acked, harmed>>

Writing(s) == tail # <<>> /\ step = s
Wanted == Head(tail).artifact
Bytes == DigestOf[Wanted]

Settle(how) == /\ put' = [put EXCEPT ![Head(tail).by] = how]
               /\ tail' = Tail(tail) /\ step' = "manifest" /\ known' = FALSE /\ spoilt' = FALSE
               /\ UNCHANGED get
Goes(s) == step' = s /\ UNCHANGED <<tail, spoilt, calls, acked, harmed>>

Stored == /\ IF spoilt THEN UNCHANGED <<acked, harmed>>
                        ELSE acked' = acked \cup {Wanted} /\ harmed' = harmed \ {Wanted}
          /\ Settle("stored")

\* #readManifest: one that cannot be trusted is removed, whether or not that works.
FindManifest == /\ Writing("manifest")
                /\ known' = (manifest[Wanted] = "good")
                /\ Goes(IF manifest[Wanted] = "bad" THEN "discard" ELSE "blob")
                /\ UNCHANGED files

Discard == /\ Writing("discard")
           /\ manifest' \in {manifest, [manifest EXCEPT ![Wanted] = "none"]}
           /\ Goes("blob")
           /\ UNCHANGED <<blob, known>>

\* #ensureBlob: bytes with the right digest stay as they are.
\* Mutant: a manifest vouches for its blob.
FindBlob_Trusting ==
  /\ Writing("blob")
  /\ UNCHANGED files
  /\ IF known THEN Stored
              ELSE /\ Goes(IF blob[Bytes] = "good" THEN "describe" ELSE "replace")
                   /\ UNCHANGED known

FindBlob == /\ Writing("blob")
            /\ UNCHANGED files
            /\ \/ blob[Bytes] = "good" /\ known /\ Stored
               \/ /\ ~(blob[Bytes] = "good" /\ known)
                  /\ Goes(CASE blob[Bytes] = "good" -> "describe"
                            [] blob[Bytes] = "bad" -> "replace"
                            [] OTHER -> "write")
                  /\ UNCHANGED known

Replace == /\ Writing("replace")
           /\ blob' = [blob EXCEPT ![Bytes] = "none"]
           /\ Goes("write")
           /\ UNCHANGED <<manifest, known>>

\* writeAtomicFile: the file gets its name with all of its bytes.
WriteBlob == /\ Writing("write")
             /\ blob' = [blob EXCEPT ![Bytes] = "good"]
             /\ UNCHANGED manifest
             /\ IF known THEN Stored ELSE Goes("describe") /\ UNCHANGED known

\* The manifest comes last.
Describe == /\ Writing("describe")
            /\ manifest' = [manifest EXCEPT ![Wanted] = "good"]
            /\ UNCHANGED blob
            /\ Stored

PutFails == /\ tail # <<>> /\ step # "discard"
            /\ Settle("failed")
            /\ UNCHANGED <<files, acked, harmed>>
-----------------------------------------------------------------------------
(* get                                                                     *)

\* due: the artifact was stored when the call began and has not been damaged since.
Get(c, a) == /\ get[c] = None
             /\ get' = [get EXCEPT ![c] = [artifact |-> a, at |-> "manifest", due |-> a \in acked]]
             /\ UNCHANGED <<files, writer, put, acked, harmed>>

ReadManifest(c) ==
  /\ get[c] # None /\ get[c].at = "manifest"
  /\ get' = [get EXCEPT ![c].at = CASE manifest[get[c].artifact] = "good" -> "blob"
                                    [] manifest[get[c].artifact] = "none" -> "absent"
                                    [] OTHER -> "corrupt"]
  /\ UNCHANGED <<files, writer, put, acked, harmed>>

\* Sizes and digests are compared: what is answered are the artifact's bytes.
ReadBlob(c) ==
  /\ get[c] # None /\ get[c].at = "blob"
  /\ get' = [get EXCEPT ![c].at = IF blob[DigestOf[get[c].artifact]] = "good" THEN "data" ELSE "corrupt"]
  /\ UNCHANGED <<files, writer, put, acked, harmed>>

GetReturns(c) == /\ get[c] # None /\ get[c].at \in {"data", "absent", "corrupt"}
                 /\ get' = [get EXCEPT ![c] = None]
                 /\ UNCHANGED <<files, writer, put, acked, harmed>>

\* list: the artifacts of the manifests; one that is bad, whosever it is, and it fails.
Listed == IF \E a \in Artifact : manifest[a] = "bad" THEN None
                                                     ELSE {a \in Artifact : manifest[a] = "good"}
-----------------------------------------------------------------------------
(* Faults                                                                  *)

\* Damage is what a power loss leaves of a file that was never flushed, too.
Harms(broken) ==
  /\ harmed' = harmed \cup broken
  /\ acked' = acked \ broken
  /\ get' = [c \in Caller |-> IF get[c] # None /\ get[c].artifact \in broken
                                THEN [get[c] EXCEPT !.due = FALSE] ELSE get[c]]
  /\ spoilt' = (spoilt \/ (tail # <<>> /\ Wanted \in broken))
  /\ UNCHANGED <<tail, step, known, put>>

DamageManifest(a, f) == /\ f \in {"none", "bad"} \ {manifest[a]} /\ manifest[a] # "none"
                        /\ manifest' = [manifest EXCEPT ![a] = f]
                        /\ Harms({a}) /\ UNCHANGED blob

DamageBlob(d, f) == /\ f \in {"none", "bad"} \ {blob[d]} /\ blob[d] # "none"
                    /\ blob' = [blob EXCEPT ![d] = f]
                    /\ Harms({a \in Artifact : DigestOf[a] = d}) /\ UNCHANGED manifest

\* The process stops and the store is opened again: the files are what is left.
Crash == /\ tail' = <<>> /\ step' = "manifest" /\ known' = FALSE /\ spoilt' = FALSE
         /\ get' = [c \in Caller |-> None] /\ put' = [c \in Caller |-> "none"]
         /\ UNCHANGED <<files, acked, harmed>>

Work == \/ FindManifest \/ Discard \/ FindBlob \/ Replace \/ WriteBlob \/ Describe \/ PutFails
        \/ \E c \in Caller : ReadManifest(c) \/ ReadBlob(c) \/ GetReturns(c)

Damage == \/ \E a \in Artifact, f \in File : DamageManifest(a, f)
          \/ \E d \in Digest, f \in File : DamageBlob(d, f)

Next == \/ \E c \in Caller, a \in Artifact : Put(c, a) \/ Get(c, a)
        \/ \E c \in Caller, how \in {"stored", "failed"} : Told(c, how)
        \/ Work \/ Damage \/ Crash

Spec == Init /\ [][Next]_vars
-----------------------------------------------------------------------------
(* Properties                                                              *)

\* What was stored is read: a get that begins after an undisturbed put of the
\* artifact has succeeded answers with its bytes, whatever other puts do meanwhile, across
\* crashes, until a file of the artifact is damaged; and so again after the put
\* that repairs it.
StoredIsRead == \A c \in Caller : get[c] # None /\ get[c].due => get[c].at \notin {"absent", "corrupt"}
=============================================================================
