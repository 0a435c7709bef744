\* Three slots, three distinguishable contents, seven pushes between resets:
\* the counters go round the ring more than twice.
CONSTANTS
  MaxBuffers = 3
  Blank = blank
  Content = {blank, a, b}
  MaxPushes = 7
SPECIFICATION Spec
INVARIANTS RingInv Partition
PROPERTIES ImplementsFifo PopsOldest
CHECK_DEADLOCK TRUE
