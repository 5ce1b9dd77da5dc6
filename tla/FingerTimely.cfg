\* A module that answers in time or not at all: two sessions.
SPECIFICATION MCSpec
CONSTANTS
  MaxRecv = 4
  MaxCmds = 15
  Unready = 5
  MaxIgnore = 2
  Timely = TRUE
  RxBlocking = FALSE
INVARIANTS OwnAnswer FingerMatched
PROPERTY ShakeHandSucceeds
