\* Two commands over the files; up to one frame more from one input buffer than the
\* output ring holds.  Reads, decoder and sound device may fail.
CONSTANTS
  Disk <- MCDisk
  Urls <- MCUrls
  Commands <- LiveCommands
  MaxCommands = 2
  MaxPackets = 5
  FramesPerInput = 5
  ReadFaults = TRUE
  NetFaults = FALSE
  DecoderFaults = TRUE
  SoundFaults = TRUE

SPECIFICATION FairSpec

INVARIANTS PlaybackInv RingsNotOverfull
PROPERTIES HeardInOrder Mp3Ends ConsoleReopens

\* The program may exit.
CHECK_DEADLOCK FALSE
