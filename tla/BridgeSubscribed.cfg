\* Is the bridge subscribed while it is connected?
SPECIFICATION FairSpec
CONSTANTS
  Kinds = {"open"}
  RxSize = 8
  MaxFrames = 1
  MaxPresses = 0
  MaxOutages = 1
  MaxCommands = 0
INVARIANT SubscribedWhileUp
