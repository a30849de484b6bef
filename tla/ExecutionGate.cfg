\* Two processes, each a run or a recovery, over three generations.
CONSTANTS
  Actor = {a1, a2}
  Token = {t1, t2, t3}
  NoToken = NoToken
SPECIFICATION FairSpec
PROPERTIES DesktopIsSafe QuarantineLifted
CHECK_DEADLOCK FALSE
