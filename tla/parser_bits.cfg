SPECIFICATION Spec
CONSTANTS
  Base = 2
  SOF = 1
  IdBytes = 2
  LenBytes = 2
  TypeBytes = 1
  MaxPayload = 2
  TimeoutTicks = 2
  TF_CksumAdd <- XorAdd
  TF_CksumEnd <- XorEnd
  Frames <- BitFrames
  Fork = FALSE
INVARIANTS TypeOK DeliveredIsFrame FrameDelivered SingleErrorCaught
