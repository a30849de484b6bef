\* Two processes that crash and restart, reusing pids, over three generations.
CONSTANTS
  c1 = c1  c2 = c2  c3 = c3  h1 = h1  h2 = h2
  Caller <- TwoCallers
  Host = {h1, h2}
  HostOf <- OnePerProcess
  Pid = {p1, p2}
  Mark = {m1, m2}
  Token = {t1, t2, t3}
  None = None
SPECIFICATION Spec
INVARIANTS LeaseIsTrue
PROPERTIES ImplementsExclusiveLease
SYMMETRY Symmetric
CHECK_DEADLOCK FALSE
