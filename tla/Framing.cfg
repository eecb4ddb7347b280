SPECIFICATION FairSpec
CONSTANTS
  Base = 4
  max_frame_payload_size = 6
  Payloads <- MCPayloads
  BadFrames <- MCBadFrames
  MaxFrames = 3
INVARIANTS
  StreamIsPreserved
PROPERTIES
  BadHeaderRefused
CHECK_DEADLOCK FALSE
