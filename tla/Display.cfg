\* A clock of 9 values and ticks of 2, so that the times before and after a
\* wrap differ in parity as they do in the program (2^32 is not a multiple of
\* 10).  Three commands are enough for both timers to run and one to be restarted.
CONSTANTS
  LOCAL_TIME_WRAP = 9
  SYSTEMTICK_PERIOD_MS = 2
  LCD_TIMEOUT = 4
  MaxLag = 1
  Volumes = {20}
  MaxCommands = 3

SPECIFICATION FairDisplay

INVARIANTS DisplayInv ErrorStays SourceShown AnnouncementsTimed
PROPERTIES AnnouncementEnds
