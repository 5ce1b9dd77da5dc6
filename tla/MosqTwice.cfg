\* Is on_message called twice for a QoS 2 message?
SPECIFICATION FairSpec
CONSTANTS
  MaxDrops = 2
  MaxInflight = 1
  MaxOut = 0
  MaxIn = 1
INVARIANT CallbackOnce
CHECK_DEADLOCK FALSE
