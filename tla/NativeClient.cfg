SPECIFICATION FairSpec
CONSTANTS
  Handshake = handshake
  CallIds = {r1, r2}
  SessionIds = {s1}
  HandleIds = {h1, h2}
  MaxNoise = 1
  None = None
PROPERTIES CallersAreNotMisled EveryCallSettles
CHECK_DEADLOCK FALSE
