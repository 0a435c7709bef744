\* A user who types faster than the main loop runs, from reset on: nine
\* characters are enough for the queue of eight events to overflow, with and
\* without its own full test noticing.  Only backspace and CR: a backspace at the
\* start of a line is pushed like any other character.
CONSTANTS
  Chars = {}
  MAX_CONSOLE_INPUT = 1
  Backlog = 10
  EarlyTyping = TRUE
  MaxTyped = 9

SPECIFICATION Spec

INVARIANTS LockHasInput
