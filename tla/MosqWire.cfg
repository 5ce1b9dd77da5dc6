SPECIFICATION Spec
CONSTANTS
  PacketLengths = {0, 1, 130}
  MaxPackets = 2
  MaxConnections = 2
  MaxUnread = 2
  MaxUsers = 2
  Texts <- MCTexts
  Unchecked <- MCUnchecked
  WillProperties <- MCWillProperties
  ByteValues <- MCByteValues
  Chars <- MCChars
  MaxSub = 5
  MaxTopic = 3
  Candidates <- MCCandidates
  MaxList = 3
  RawBytes <- MCRawBytes
  MaxRaw = 5
  Calls <- MCCalls
INVARIANTS TextsRight PropertiesRight LengthsRight StreamInv OptionsInv
CHECK_DEADLOCK FALSE
