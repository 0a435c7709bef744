\* Frames of two formats and bogus ones.  Five frames take the ring of four round,
\* and five from one input buffer fill it over; the second source finds the DMA
\* still busy with the first.
CONSTANTS
  Fmts = {0, 1, 2}
  Supported = {1, 2}
  FramesPerInput = 5
  MaxFrames = 5
  MaxPlays = 2

SPECIFICATION FairSpec

INVARIANTS AudioInv ProvidedIntact NoLostWakeup
PROPERTIES StartsInOrder ProvideReturns
