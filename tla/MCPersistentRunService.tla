----------------------- MODULE MCPersistentRunService -----------------------
(* A few requests on a few workspaces.                                     *)
EXTENDS PersistentRunService, TLC

CONSTANTS Retrier,  \* the caller who submits one request, with any workspace
          Retried,  \* that request
          Shared,   \* the workspace the other callers ask for
          Earlier   \* the run whose identifier is drawn first

\* Bounds on what is submitted: the retrier contends with the others for one
\* request, the requests contend for one workspace.  Run identifiers are
\* interchangeable, so the order in which they are drawn is fixed.
Bounded ==
  /\ start'[Retrier] # None => start'[Retrier].request = Retried
  /\ \A c \in Caller \ {Retrier} : start'[c] # None => start'[c].snapshot = Shared
  /\ (\A r \in Run : ledger'[r] = None) \/ ledger'[Earlier] # None
=============================================================================
