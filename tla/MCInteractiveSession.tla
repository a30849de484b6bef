------------------------ MODULE MCInteractiveSession ------------------------
(* Two processes, one of them running two acquisitions at once, compete    *)
(* for the desktop; pids are reused.                                       *)
EXTENDS InteractiveSession, TLC

CONSTANTS c1, c2, c3, h1, h2

TwoCallers == {c1, c2}
OnePerProcess == c1 :> h1 @@ c2 :> h2
ThreeCallers == {c1, c2, c3}
SharedProcess == c1 :> h1 @@ c2 :> h2 @@ c3 :> h2

Symmetric == Permutations(Token) \cup Permutations(Pid) \cup Permutations(Mark)
=============================================================================
