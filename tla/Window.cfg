\* The shortest frames the output ring can take, the longest libmad_buffer can
\* take, and 128 kbit/s at 44.1 kHz in between.
CONSTANTS
  FrameSizes = {256, 417, 418, 1049}
  MinFrame = 256
  MaxFrame = 1049

SPECIFICATION WindowSpec

INVARIANTS WindowInv WindowFits BurstFits
