SPECIFICATION FrameSpec
CONSTANTS
  Base = 4
  Preamble = 2
  XorByte <- BitXor
  MaxDataLen = 6
  WireFrame <- MCFrames
  Noise <- MCNoise
  MaxFrames = 2
  Bad = Bad
INVARIANTS StreamIntact CodecSound
CHECK_DEADLOCK FALSE
