\* One play of an address in dotted notation: no resolver is involved.
CONSTANTS
  Pcbs = {p1, p2}
  Hosts = {h1}
  Numeric = {h1}
  DNS_TABLE_SIZE = 2
  MAX_INPUT_BUFFERS = 2
  MaxPlays = 1

SPECIFICATION Spec

INVARIANTS ClosesOwnPcb
