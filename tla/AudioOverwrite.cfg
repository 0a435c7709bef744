\* Three frames from one input buffer, as at 128 kbit/s.
CONSTANTS
  Fmts = {1}
  Supported = {1}
  FramesPerInput = 3
  MaxFrames = 6
  MaxPlays = 1
SPECIFICATION Spec
INVARIANTS NotOverwritten
