---------------------------- MODULE ReportBundle ----------------------------
(***************************************************************************)
(* packages/reporter writeReportV3Bundle: one report published into a       *)
(* directory of its own.  Evidence is copied first, then the three views    *)
(* are written, and a completion marker comes last.  Any step may fail, the *)
(* process may stop anywhere, somebody else may own the directory, and      *)
(* what a source file holds may have changed since it was captured.         *)
(***************************************************************************)
EXTENDS Naturals, Sequences

CONSTANTS Evidence,  \* the artifacts of the case, in the order they are reported
          Required,  \* those the runner demands (requiredArtifacts)
          None

Item == {Evidence[i] : i \in DOMAIN Evidence}
View == {"index.html", "ai-review.md", "report.json"}
Marker == "complete.json"

\* Every artifact once, in a directory below the views'.
EvidenceAssumption ==
  /\ Evidence \in Seq(Item)
  /\ \A i, j \in DOMAIN Evidence : Evidence[i] = Evidence[j] => i = j
  /\ Item \cap (View \cup {Marker}) = {}
  /\ None \notin {"intact", "changed", "written", "captured", "captureFailed", "notCaptured",
                 "published", "failed"}

VARIABLES
  source,   \* source[e]: what the file behind e holds now, or why there is none
  kept,     \* the captured evidence the retention policy keeps
  phase,    \* where the publication is
  next,     \* the index in Evidence it is about to materialize
  entry,    \* entry[e]: what the report says of e, None while it says nothing
  flight,   \* the view files being written
  file,     \* file[f]: what the directory holds under a name, None if nothing
  partial,  \* the temporary files in it
  dir,      \* whose the directory is: none, ours, foreign
  told      \* how the call ended

inputs == <<source, kept>>
vars == <<source, kept, phase, next, entry, flight, file, partial, dir, told>>

\* "intact" is the content whose size and digest the runner expects of e.
Source == {"intact", "changed", "gone", "notCaptured"}

TypeOK ==
  /\ source \in [Item -> Source] /\ kept \subseteq Item
  /\ phase \in {"start", "evidence", "naming", "views", "marker", "complete",
                "undo", "removing", "over"}
  /\ next \in 1 .. Len(Evidence) + 1
  /\ entry \in [Item -> {None, "captured", "captureFailed", "notCaptured"}]
  /\ flight \subseteq View
  /\ file \in [Item \cup View \cup {Marker} -> {None, "intact", "changed", "written"}]
  /\ partial \subseteq Item \cup View \cup {Marker}
  /\ dir \in {"none", "ours", "foreign"}
  /\ told \in {None, "published", "failed"}

Init ==
  /\ source \in [Item -> Source]
  /\ kept \in SUBSET Item
  /\ phase = "start" /\ next = 1 /\ entry = [e \in Item |-> None]
  /\ flight = {} /\ file = [f \in Item \cup View \cup {Marker} |-> None] /\ partial = {}
  /\ dir = "none" /\ told = None

Fails == phase' = "undo" /\ UNCHANGED <<inputs, next, entry, dir, told>>
-----------------------------------------------------------------------------
(* The directory                                                           *)

\* Mutant: what could not be created is removed all the same.
MakeDirectory_Owned ==
  /\ phase = "start"
  /\ phase' = IF dir = "none" THEN "evidence" ELSE "undo"
  /\ dir' = IF dir = "none" THEN "ours" ELSE dir
  /\ UNCHANGED <<inputs, next, entry, flight, file, partial, told>>

\* Nobody else's directory may be taken: mkdir fails if there is one.
MakeDirectory ==
  /\ phase = "start"
  /\ \/ dir = "none" /\ dir' = "ours" /\ phase' = "evidence" /\ told' = told
     \/ dir' = dir /\ phase' = "over" /\ told' = "failed"
  /\ UNCHANGED <<inputs, next, entry, flight, file, partial>>

\* Another publication takes the name first.
OtherPublishes == /\ phase = "start" /\ dir = "none" /\ dir' = "foreign"
                  /\ UNCHANGED <<inputs, phase, next, entry, flight, file, partial, told>>
-----------------------------------------------------------------------------
(* Evidence                                                                *)

\* What the policy drops is not reported, except what the runner demands.
Retained(e) == source[e] = "notCaptured" \/ e \in kept \/ e \in Required

Current == Evidence[next]

Skip == /\ phase = "evidence" /\ next \in DOMAIN Evidence
        /\ \/ ~Retained(Current) /\ entry' = entry
           \/ source[Current] = "notCaptured" /\ entry' = [entry EXCEPT ![Current] = "notCaptured"]
        /\ next' = next + 1
        /\ UNCHANGED <<inputs, phase, flight, file, partial, dir, told>>

\* The copy under a temporary name: what the source holds when it is read.
Copy == /\ phase = "evidence" /\ next \in DOMAIN Evidence
        /\ Retained(Current) /\ source[Current] \in {"intact", "changed"}
        /\ phase' = "naming" /\ partial' = partial \cup {Current}
        /\ UNCHANGED <<inputs, next, entry, flight, file, dir, told>>

Name == /\ phase = "naming"
        /\ phase' = "evidence" /\ next' = next + 1
        /\ partial' = partial \ {Current}
        /\ file' = [file EXCEPT ![Current] = source[Current]]
        /\ entry' = [entry EXCEPT ![Current] = "captured"]
        /\ UNCHANGED <<inputs, flight, dir, told>>

\* The copy or its renaming fails: the evidence is reported as not captured.  If
\* the temporary file cannot be removed the whole publication fails.
CopyFails ==
  /\ \/ phase = "evidence" /\ next \in DOMAIN Evidence
        /\ Retained(Current) /\ source[Current] # "notCaptured"
     \/ phase = "naming"
  /\ \/ /\ phase' = "evidence" /\ next' = next + 1
        /\ partial' = partial \ {Current}
        /\ entry' = [entry EXCEPT ![Current] = "captureFailed"]
        /\ UNCHANGED <<inputs, flight, file, dir, told>>
     \/ Fails /\ UNCHANGED <<flight, file, partial>>
-----------------------------------------------------------------------------
(* The views                                                               *)

\* Mutant: the bytes that were copied are not compared.
Published_Named(e) == e \in Item /\ entry[e] = "captured"

\* What the runner demands was captured, and what was copied is what it expects.
Published(e) == e \in Item /\ entry[e] = "captured" /\ file[e] = "intact"

\* assertRequiredArtifactsPublished, and the three writes begin together.
AssertRequired ==
  /\ phase = "evidence" /\ next \notin DOMAIN Evidence
  /\ IF \A e \in Required : Published(e)
       THEN /\ phase' = "views" /\ flight' = View
            /\ UNCHANGED <<inputs, next, entry, file, partial, dir, told>>
       ELSE Fails /\ UNCHANGED <<flight, file, partial>>

\* One of the writes ends.  The first to fail fails them all; the others go on.
ViewWritten(v) == /\ v \in flight /\ dir = "ours"
                  /\ flight' = flight \ {v} /\ partial' = partial \cup {v}
                  /\ UNCHANGED <<inputs, phase, next, entry, file, dir, told>>

ViewFails(v) == /\ v \in flight
                /\ flight' = flight \ {v}
                /\ IF phase = "views" THEN Fails
                                      ELSE UNCHANGED <<inputs, phase, next, entry, dir, told>>
                /\ UNCHANGED <<file, partial>>

\* Renamed one after the other, once all have been written.
Order == <<"index.html", "ai-review.md", "report.json">>
Rename(v) == /\ phase = "views" /\ flight = {}
             /\ \E i \in DOMAIN Order : /\ v = Order[i]
                                      /\ v \in partial
                                      /\ \A j \in 1 .. i - 1 : Order[j] \notin partial
             /\ file' = [file EXCEPT ![v] = "written"] /\ partial' = partial \ {v}
             /\ UNCHANGED <<inputs, phase, next, entry, flight, dir, told>>

Viewed == \A v \in View : file[v] = "written"

\* The marker names the views with their digests: it is the last file to get its name.
WriteMarker == /\ phase = "views" /\ flight = {} /\ Viewed
               /\ phase' = "marker" /\ partial' = partial \cup {Marker}
               /\ UNCHANGED <<inputs, next, entry, flight, file, dir, told>>

Complete == /\ phase = "marker"
            /\ phase' = "complete" /\ told' = "published"
            /\ file' = [file EXCEPT ![Marker] = "written"] /\ partial' = partial \ {Marker}
            /\ UNCHANGED <<inputs, next, entry, flight, dir>>

StepFails == /\ \/ phase = "views" /\ flight = {}
                \/ phase = "marker"
             /\ Fails /\ UNCHANGED <<flight, file, partial>>
-----------------------------------------------------------------------------
(* Failure                                                                 *)

\* rm removes what it finds, then the directory; a write still in flight may have
\* put a file there in between, and then the directory stays.
Empty == [f \in DOMAIN file |-> None]
Undo == /\ phase = "undo"
        /\ phase' = "removing" /\ file' = Empty /\ partial' = {}
        /\ UNCHANGED <<inputs, next, entry, flight, dir, told>>

Remove == /\ phase = "removing"
          /\ phase' = "over" /\ told' = "failed"
          /\ dir' = IF partial = {} THEN "none" ELSE dir
          /\ UNCHANGED <<inputs, next, entry, flight, file, partial>>

UndoFails == /\ phase \in {"undo", "removing"}
             /\ phase' = "over" /\ told' = "failed"
             /\ UNCHANGED <<inputs, next, entry, flight, file, partial, dir>>

Publishing == phase \notin {"start", "complete", "over"}

\* The process stops.  What it had begun is never told.
Crash == /\ Publishing
         /\ phase' = "over" /\ flight' = {}
         /\ UNCHANGED <<inputs, next, entry, file, partial, dir, told>>

Step == \/ MakeDirectory \/ OtherPublishes
        \/ Skip \/ Copy \/ Name \/ CopyFails
        \/ AssertRequired \/ WriteMarker \/ Complete \/ StepFails
        \/ \E v \in View : ViewWritten(v) \/ ViewFails(v) \/ Rename(v)
        \/ Undo \/ Remove \/ UndoFails

Next == Step \/ Crash

Spec == Init /\ [][Next]_vars
-----------------------------------------------------------------------------
(* Properties                                                              *)

\* A directory with a completion marker is a whole report: its three views, the
\* file behind every evidence the report calls captured, and what the runner
\* demands, byte for byte; and only such a directory is told to be published.
CompleteIsWhole ==
  /\ file[Marker] # None =>
       /\ \A v \in View : file[v] # None
       /\ \A e \in Item : entry[e] = "captured" => file[e] = source[e]
       /\ \A e \in Required : e \in Item /\ entry[e] = "captured" /\ file[e] = "intact"
  /\ told = "published" => file[Marker] # None

\* A failed publication removes its own directory and never somebody else's.
OthersKeepTheirs == [][dir = "foreign" => dir' = "foreign"]_vars
=============================================================================
