SPECIFICATION Spec
CONSTANTS
  max_frame_payload = 9
  Payload <- MCPayload
  Text <- MCText
  ScalarSize = {1, 4}
  Malformed <- MCMalformed
  MaxFrames = 3
  MaxTexts = 1
INVARIANTS FramesRecovered ClosedByMalformed TextRelayedUnchanged
CHECK_DEADLOCK FALSE
