SPECIFICATION Spec
CONSTANTS
  my_ms = 2
  Wrap = 8
  Asks = {1, 3, 4}
  MaxPieces = 3
  HandlerAsk = 2
  MaxPresses = 3
  KeysOfPad <- MCKeysOfPad
  MaxDown = 2
  MaxChanges = 3
  Cards = {c1, c2, c3}
  KeyedCards = {c1, c2}
  Mixed = mixed
  None = none
  MaxTries = 3
  MaxMoves = 4
  MaxNoise = 1
  UNLOCK <- MCUnlock
  LOCK <- MCLock
  CR = "CR"
  LF = "LF"
  Nul = "NUL"
  RxSize = 8
  MaxMeanwhile = 5
  MaxSends = 5
  Fingers = {f1, f2}
  NoFinger = nofinger
  Pages = {0, 1}
  KeyNumbers = {1, 7, 15}
  Sums = {0, 11}
  TriesWrap = 8
  MaxLost = 1
  MaxFingers = 3
  MaxCalls = 3
INVARIANTS DelayInv KeyInv CardInv BleInv EnrolInv
PROPERTIES DelayEnds EnrolledAccepted CalmWordsObeyed EnrolmentEnds
CHECK_DEADLOCK FALSE
