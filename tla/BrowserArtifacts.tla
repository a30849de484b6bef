-------------------------- MODULE BrowserArtifacts --------------------------
(***************************************************************************)
(* packages/browser-playwright writeSensitiveArtifactFile: exports of a     *)
(* storage state to one path, by calls of one process or of several.  Each  *)
(* creates the same <path>.partial exclusively, writes it and renames it    *)
(* onto the path.  A name leads to the file of the export that created it;  *)
(* a file lives on without its name while it is written.                    *)
(***************************************************************************)
CONSTANTS Export,
          OpenErrors,  \* why a file cannot be created, other than that it exists
          None

\* noPlace: the directory may not be written (EACCES, EROFS).
\* noDescriptor: the process has no descriptor left (EMFILE), found before any name is looked up.

VARIABLES phase,    \* phase[x]: where export x is
          partial,  \* the file <path>.partial leads to
          target,   \* the file <path> leads to, None for what was there before
          whole     \* the files that are completely written

artifactVars == <<phase, partial, target, whole>>

TypeOK == /\ phase \in [Export -> {"new", "prepared", "opened", "written", "clearing", "erasing",
                                    "published", "refused", "failed", "erased", "dead"}]
          /\ partial \in Export \cup {None} /\ target \in Export \cup {None} /\ whole \subseteq Export

Init == /\ phase = [x \in Export |-> "new"] /\ partial = None /\ target = None /\ whole = {}

Goes(x, to) == phase' = [phase EXCEPT ![x] = to]

\* saveStorageState: the path, its directory and the state come first.
Prepare(x) == /\ phase[x] = "new"
              /\ Goes(x, "prepared") \/ Goes(x, "failed")
              /\ UNCHANGED <<partial, target, whole>>

\* flag wx
Create(x) == /\ phase[x] = "prepared"
             /\ IF partial = None THEN Goes(x, "opened") /\ partial' = x
                                  ELSE Goes(x, "refused") /\ UNCHANGED partial
             /\ UNCHANGED <<target, whole>>

\* A file that exists is taken for a residue.
CreateFails_Residue(x) == /\ phase[x] = "prepared" /\ Goes(x, "clearing")
                          /\ UNCHANGED <<partial, target, whole>>

\* A directory that refuses the file refuses its removal as well.
CreateFails(x) == /\ phase[x] = "prepared"
                  /\ \E e \in OpenErrors : Goes(x, IF e = "noPlace" THEN "failed" ELSE "erasing")
                  /\ UNCHANGED <<partial, target, whole>>

Write(x) == /\ phase[x] = "opened"
            /\ \/ Goes(x, "written") /\ whole' = whole \cup {x}
               \/ Goes(x, "clearing") /\ UNCHANGED whole
            /\ UNCHANGED <<partial, target>>

\* rename moves whatever the name leads to.
Rename(x) == /\ phase[x] = "written"
             /\ \/ /\ partial # None /\ Goes(x, "published")
                   /\ target' = partial /\ partial' = None
                \/ Goes(x, "clearing") /\ UNCHANGED <<partial, target>>
             /\ UNCHANGED whole

\* removeQuietly
Clear(x) == /\ phase[x] = "clearing" /\ Goes(x, "failed")
            /\ partial' \in {None, partial}
            /\ UNCHANGED <<target, whole>>

\* removeQuietly, for an export that has created nothing: whose file it was is not asked.
Erase(x) == /\ phase[x] = "erasing"
            /\ \/ partial # None /\ partial' = None /\ Goes(x, "erased")
               \/ Goes(x, "failed") /\ UNCHANGED partial
            /\ UNCHANGED <<target, whole>>

\* The process dies; its partial file stays, and later exports are refused.
Dies(x) == /\ phase[x] \in {"opened", "written", "clearing", "erasing"} /\ Goes(x, "dead")
           /\ UNCHANGED <<partial, target, whole>>

Next == \E x \in Export : \/ Prepare(x) \/ Create(x) \/ CreateFails(x) \/ Write(x)
                          \/ Rename(x) \/ Clear(x) \/ Erase(x) \/ Dies(x)
Spec == Init /\ [][Next]_artifactVars
-----------------------------------------------------------------------------
(* Properties                                                              *)

NoneIsErased == \A x \in Export : phase[x] # "erased"

\* Until an export that could not create its file for want of something else has removed
\* the one of another, a reader of the path sees what was there before or one complete
\* export, and an export's file keeps its name while it is being written.
PreviousOrNew == NoneIsErased =>
  /\ target # None => target \in whole
  /\ \A x \in Export : phase[x] \in {"opened", "written"} => partial = x

\* The sentence on the write itself: a reader sees either the previous export or the
\* new one (artifact.ts, writeSensitiveArtifactFile).
ReaderSeesWhole == target # None => target \in whole
=============================================================================
