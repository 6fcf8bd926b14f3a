SPECIFICATION Spec
CONSTANTS
  Byte = 8
  Garbage = Garbage
  Texts <- MCTexts
  Values <- MCValues
  Metadata = {"md"}
  Streams <- MCStreams
  Datagrams <- MCDatagrams
  Pieces = {1, 15, 24}
  MaxSent = 2
CHECK_DEADLOCK FALSE
INVARIANTS ReadBackAsSent NeededIsDue DatagramReadBack
