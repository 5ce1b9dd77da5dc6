\* Presses, outages and a buffer smaller than two frames.
SPECIFICATION FairSpec
CONSTANTS
  Kinds = {"open", "close", "plain", "debug"}
  RxSize = 7
  MaxFrames = 2
  MaxPresses = 1
  MaxOutages = 1
  MaxCommands = 0
INVARIANTS BridgeInv BackInSync
