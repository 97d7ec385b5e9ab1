SPECIFICATION FairSpec
CONSTANTS
  ByteBits = 2
  LimbBytes = 2
  MinPadding = 2
  Client <- MCClient
  SessionKey <- MCSessionKey
  PaddingByte = {0, 3}
  SerialCount = 3
  BadMessage = {1}
  MaxHandshake = 3
  MaxMessages = 4
INVARIANTS TypeOK OneWriteAtATime KeysAgree
PROPERTIES ServerToClient ClientToServer QueueDrains CallsHandled
CHECK_DEADLOCK FALSE
