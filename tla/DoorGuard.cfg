\* Keys, fingers, cards and both keys of the board, in every order.
SPECIFICATION MCSpec
CONSTANTS
  k1 = k1
  k2 = k2
  k3 = k3
  k4 = k4
  Keys <- MCKeys
  One = k1
  Two = k2
  Three = k3
  NoKey = NoKey
  PwLen = 2
  Password1 <- MCPassword1
  Password2 <- MCPassword2
  CardTries = 2
  AlarmRounds = 2
INVARIANTS OpenOnlyGranted DeniedReadsClose
PROPERTIES DoorPolicySpec KeysComeAgain ShutUnlessHung
