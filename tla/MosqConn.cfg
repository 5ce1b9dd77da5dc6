\* One thread, two threads, and TLS; two things go wrong.
SPECIFICATION FairSpec
CONSTANTS
  Modes <- AllModes
  Keepalive = 2
  Timeout = 2
  reconnect_delay = 1
  reconnect_delay_max = 2
  reconnect_exponential_backoff = TRUE
  ConnectTicks = 1
  MaxFaults = 2
  MaxPublishes = 1
  MaxPair = 3
INVARIANTS ConnInv WorkWakes NotSilent DeadNoticed
PROPERTIES PatientClose Backoff StaysStopped ComesBack
CHECK_DEADLOCK FALSE
