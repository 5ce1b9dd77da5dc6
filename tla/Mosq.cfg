\* Losses of the connection at any point of the handshakes in both directions.
SPECIFICATION FairSpec
CONSTANTS
  MaxDrops = 2
  MaxInflight = 2
  MaxOut = 3
  MaxIn = 1
INVARIANTS OutInv InInv
PROPERTIES OutSettles InSettles
CHECK_DEADLOCK FALSE
