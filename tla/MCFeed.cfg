SPECIFICATION FeedSpec
CONSTANTS
  SizeMod = 1073741824
  WordMod = 1073741824
  CharSigned = FALSE
  TopicMax = 3
  Identifiers = {5, 400}
  Streams <- MCStreams
  SplitsTopics = {}
  Wires <- MCWires
  Handlers <- MCHandlers
  HandlerBlocks = TRUE
  Modes = {"nonblocking"}
  Resume = {"handler_error"}
INVARIANTS
  InStep
  RemainingEndsPacket
  NoFalseAlarm
  NeverStuck
PROPERTIES
  Onward
  ImplementsPacketFeed
CHECK_DEADLOCK FALSE
