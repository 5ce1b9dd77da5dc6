\* No press of the close key, a buffer that holds everything.
SPECIFICATION FairSpec
CONSTANTS
  Kinds = {"open", "close", "nums", "debug"}
  RxSize = 20
  MaxFrames = 3
  MaxPresses = 0
  MaxOutages = 1
  MaxCommands = 1
PROPERTIES StateChannelSpec StatesArrive
