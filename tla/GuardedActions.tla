--------------------------- MODULE GuardedActions ---------------------------
(***************************************************************************)
(* packages/core GuardedElementActions: an element is resolved and checked  *)
(* by the backend, which may go on for as long as it likes; then the action *)
(* is submitted, once.  Between the two the caller may abort, the precheck  *)
(* deadline may pass and the element may change.                            *)
(***************************************************************************)
EXTENDS Naturals

CONSTANTS Action,      \* invocations
          Kind,        \* Kind[a]: "invoke", "setValue" or "typeText"
          Force,       \* the invocations that are forced
          Additional,  \* Additional[a]: the checks the caller asks for
          Supported    \* the checks the backend can enforce

VARIABLES
  at,        \* at[a]: where a is
  aborted,   \* its signal
  late,      \* its precheck deadline has passed
  verified,  \* the checks the backend made, None while it has not answered
  passes,    \* the checks its element passes now
  submits,   \* how often it was submitted
  answer     \* what the caller was told

guardVars == <<at, aborted, late, verified, passes, submits, answer>>

Check == {"attached", "unique", "visible", "stable", "enabled", "editable", "focusable", "receivesInput"}
Essential == {"attached", "unique"}
Default(kind) == Essential \cup {"visible", "enabled"}
                 \cup (IF kind = "invoke" THEN {} ELSE {"editable"})
                 \cup (IF kind = "typeText" THEN {"focusable"} ELSE {})

\* Kind[a] is "invoke", "setValue" or "typeText", Additional[a] and Supported are sets of checks.

TypeOK == /\ at \in [Action -> {"new", "resolving", "resolved", "submitting", "over"}]
          /\ aborted \subseteq Action /\ late \subseteq Action
          /\ verified \in [Action -> SUBSET Check] /\ passes \in [Action -> SUBSET Check]
          /\ submits \in [Action -> Nat]
          /\ answer \in [Action -> {"none", "done", "failed", "refused"}]

Init == /\ at = [a \in Action |-> "new"] /\ aborted = {} /\ late = {}
        /\ verified = [a \in Action |-> {}]
        /\ passes = [a \in Action |-> Check]
        /\ submits = [a \in Action |-> 0] /\ answer = [a \in Action |-> "none"]

\* resolveActionabilityChecks: force drops the defaults and never the essential ones.
Requested(a) == Essential \cup Additional[a] \cup (IF a \in Force THEN {} ELSE Default(Kind[a]))

Goes(a, place) == at' = [at EXCEPT ![a] = place]
Ends(a, how) == Goes(a, "over") /\ answer' = [answer EXCEPT ![a] = how]
Late(a) == a \in aborted \/ a \in late

\* resolve: an aborted call or one whose checks the backend cannot enforce ends here.
Invoke(a) == /\ at[a] = "new"
             /\ IF a \in aborted \/ ~(Requested(a) \subseteq Supported)
                  THEN Ends(a, "refused") ELSE Goes(a, "resolving") /\ UNCHANGED answer
             /\ UNCHANGED <<aborted, late, verified, passes, submits>>

\* The backend answers when the element passes what was requested; an answer that
\* comes after the deadline is not taken (awaitActionResolution).
Resolves(a) == /\ at[a] = "resolving" /\ Requested(a) \subseteq passes[a]
               /\ IF Late(a) THEN Ends(a, "refused") /\ UNCHANGED verified
                             ELSE /\ Goes(a, "resolved") /\ UNCHANGED answer
                                  /\ verified' = [verified EXCEPT ![a] = Requested(a)]
               /\ UNCHANGED <<aborted, late, passes, submits>>

ResolutionFails(a) == /\ at[a] = "resolving" /\ Ends(a, "refused")
                      /\ UNCHANGED <<aborted, late, verified, passes, submits>>

\* Mutant: what held when the resolution ended is taken to hold now.
Submit_Stale(a) == /\ at[a] = "resolved" /\ Goes(a, "submitting")
                   /\ submits' = [submits EXCEPT ![a] = @ + 1]
                   /\ UNCHANGED <<aborted, late, verified, passes, answer>>

\* assertInvocationMaySubmit: asked again, with the action submitted in the same turn.
Submit(a) == /\ at[a] = "resolved"
             /\ IF Late(a) THEN Ends(a, "refused") /\ UNCHANGED submits
                           ELSE /\ Goes(a, "submitting") /\ UNCHANGED answer
                                /\ submits' = [submits EXCEPT ![a] = @ + 1]
             /\ UNCHANGED <<aborted, late, verified, passes>>

Performed(a) == /\ at[a] = "submitting"
                /\ Ends(a, "done") \/ Ends(a, "failed")
                /\ UNCHANGED <<aborted, late, verified, passes, submits>>

Abort(a) == /\ a \notin aborted /\ aborted' = aborted \cup {a}
            /\ UNCHANGED <<at, late, verified, passes, submits, answer>>
DeadlinePasses(a) == /\ at[a] \notin {"new", "over"} /\ a \notin late /\ late' = late \cup {a}
                     /\ UNCHANGED <<at, aborted, verified, passes, submits, answer>>
Changes(a) == /\ passes' = [passes EXCEPT ![a] = IF @ = Check THEN Check \ {"enabled"} ELSE Check]
              /\ UNCHANGED <<at, aborted, late, verified, submits, answer>>

Next == \E a \in Action : \/ Invoke(a) \/ Resolves(a) \/ ResolutionFails(a) \/ Submit(a)
                          \/ Performed(a) \/ Abort(a) \/ DeadlinePasses(a) \/ Changes(a)
-----------------------------------------------------------------------------
(* Properties                                                              *)

\* A caller that was refused has had nothing done to its element, then or later; what
\* was submitted was submitted once, on an element the backend found unique and
\* attached however the call was forced, and neither aborted nor late.
Untouched ==
  \A a \in Action :
    /\ answer[a] # "none" => submits'[a] = submits[a] /\ answer'[a] = answer[a]
    /\ answer'[a] = "refused" => submits'[a] = 0
    /\ submits'[a] # submits[a] => /\ submits[a] = 0 /\ a \notin aborted \cup late
                                  /\ Essential \subseteq verified[a]
RefusedIsUntouched == [][Untouched]_guardVars
=============================================================================
