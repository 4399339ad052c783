CONSTANTS
  BufSize = 1
  MaxEvents = 3
  Conn <- AgainConn
  Prev <- AgainPrev
  None = "none"
  MaxHistory = 2
  SubBufSize = 2
SPECIFICATION FairSpec
CHECK_DEADLOCK FALSE
INVARIANTS ChannelsSafe DoneMeansAll
PROPERTIES FeedsInOrder StreamEnds
