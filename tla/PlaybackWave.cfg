\* One Wave file is played, and nothing fails.
CONSTANTS
  Disk <- MCDisk
  Urls <- MCUrls
  Commands <- WaveOnly
  MaxCommands = 1
  MaxPackets = 5
  FramesPerInput = 1
  ReadFaults = FALSE
  NetFaults = FALSE
  DecoderFaults = FALSE
  SoundFaults = FALSE

SPECIFICATION FairSpec

PROPERTIES WaveHeard

\* The program may exit.
CHECK_DEADLOCK FALSE
