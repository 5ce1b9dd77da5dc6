\* Late answers and overruns, a buffer of one answer.
SPECIFICATION MCSpec
CONSTANTS
  MaxRecv = 3
  MaxCmds = 4
  MaxIgnore = 2
  Timely = FALSE
  RxBlocking = TRUE
INVARIANTS TypeOK BatchWillEnd
