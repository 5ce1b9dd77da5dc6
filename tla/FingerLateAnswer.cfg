\* Answers may come after the driver has given up.
SPECIFICATION MCSpec
CONSTANTS
  MaxRecv = 3
  MaxCmds = 7
  Unready = 0
  MaxIgnore = 0
  Timely = FALSE
  RxBlocking = FALSE
INVARIANT FingerMatched
