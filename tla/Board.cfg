\* Three plays over the two pcbs of lwipopts.h: the third one finds both pcbs in
\* use, both slots for requests taken, the name resolved or asked for.  A ring of
\* one buffer is full and empty in turn.
CONSTANTS
  Pcbs = {p1, p2}
  Hosts = {h1}
  Numeric = {}
  DNS_TABLE_SIZE = 2
  MAX_INPUT_BUFFERS = 1
  MaxPlays = 3

SPECIFICATION FairSpec

INVARIANTS BoardInv PoolIntact OneFeeder StreamNotMixed DecoderMemory
PROPERTIES ErrorStops
