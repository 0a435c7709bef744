\* Lines of up to two characters; all but one of the events may be waiting, and
\* nine characters take the queue round.
CONSTANTS
  Chars = {"a"}
  MAX_CONSOLE_INPUT = 2
  Backlog = 7
  EarlyTyping = FALSE
  MaxTyped = 9

SPECIFICATION FairSpec

INVARIANTS ConsoleInv RunOnce LineIntact
PROPERTIES EventsInOrder Reopens
