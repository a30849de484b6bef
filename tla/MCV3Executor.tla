--------------------------- MODULE MCV3Executor ---------------------------
(* One piece of evidence; the client's artifact has the same bytes.        *)
EXTENDS SurfaceLoomV3Executor

CONSTANTS Read,      \* the artifacts that are read
          Damaged    \* those that are damaged

MCEvidence == <<"shot">>
MCDigestOf == [a \in BundleFile \cup Extra |-> IF a \in Extra THEN "shot" ELSE a]
MCDigest == BundleFile

\* Bounds: calls of the client begin while the executor publishes a report with
\* captured evidence and a confirmed cleanup; a file of what was stored is damaged
\* when the executor has returned a pass, and not again before it is repaired.
Publishing == /\ place \in {"put", "putting", "list", "finally", "returned"}
              /\ cleanup = "confirmed" /\ entry["shot"] = "captured" /\ kept = {}
Bounded ==
  /\ client' # None => client # None \/ Publishing
  /\ get'["client"] # None =>
       get["client"] # None \/ (Publishing /\ get'["client"].artifact \in Read)
  /\ harmed' \ harmed # {} =>
       place = "returned" /\ result.passed /\ harmed = {} /\ harmed' \subseteq Damaged \cap acked
=============================================================================
