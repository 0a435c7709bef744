\* Any three commands over one file of every kind and a stream: as many as fs.c
\* has handles, so that they can run out.  Four packets fill the input ring, and
\* the song is one buffer longer than it.  The reads, the connection and the sound
\* device may fail at any time; a packet that recv failed to fill makes the decoder
\* fail as well.
CONSTANTS
  Disk <- MCDisk
  Urls <- MCUrls
  Commands <- AllCommands
  MaxCommands = 3
  MaxPackets = 4
  FramesPerInput = 1
  ReadFaults = TRUE
  NetFaults = TRUE
  DecoderFaults = FALSE
  SoundFaults = TRUE

SPECIFICATION Spec

INVARIANTS SourceOpen StoppedReleasesSource HandlesMatch EventsFit
PROPERTIES HeardInOrder QuietWhenStopped

\* The program may exit.
CHECK_DEADLOCK FALSE
