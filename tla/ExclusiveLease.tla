--------------------------- MODULE ExclusiveLease ---------------------------
(***************************************************************************)
(* What the interactive-session lease promises its callers, whatever files *)
(* it is made of: at most one generation is current, a generation is       *)
(* granted once, and it stops being current only because its owner gave it *)
(* up or because the owner's process is gone.                              *)
(***************************************************************************)
CONSTANTS Token,  \* lease generations (one random leaseToken each)
          None

VARIABLES
  current,   \* the generation in force, or None
  spent,     \* generations that have been in force and no longer are
  asked,     \* generations whose owner has started to give them up
  orphaned   \* generations whose owner's process no longer exists

vars == <<current, spent, asked, orphaned>>

Init == /\ current = None
        /\ spent = {}
        /\ asked = {}
        /\ orphaned = {}

\* A fresh generation comes into force while none is.
Grant(t) == /\ current = None
            /\ t \notin spent
            /\ current' = t
            /\ UNCHANGED <<spent, orphaned>>
            /\ asked' \subseteq asked \cup {t}

\* The current generation ends: its owner asked, or its owner is gone.
Expire == /\ current # None
          /\ current \in asked \cup orphaned
          /\ current' = None
          /\ spent' = spent \cup {current}
          /\ asked' \subseteq asked
          /\ UNCHANGED orphaned

\* The owner of the current generation starts (or abandons) giving it up.
Ask == /\ asked' \subseteq asked \cup {current}
       /\ UNCHANGED <<current, spent, orphaned>>

\* A process dies; what it was granted is orphaned for good.
Orphan == /\ orphaned \subseteq orphaned'
          /\ orphaned' \subseteq spent \cup {current}
          /\ asked' \subseteq asked
          /\ UNCHANGED <<current, spent>>

Next == \/ \E t \in Token : Grant(t)
        \/ Expire
        \/ Ask
        \/ Orphan

Spec == Init /\ [][Next]_vars
=============================================================================
