SPECIFICATION FeedSpec
CONSTANTS
  SizeMod = 1073741824
  WordMod = 1073741824
  CharSigned = FALSE
  TopicMax = 3
  Identifiers = {5, 400}
  Streams <- MCPublishStreams
  SplitsTopics = {}
  Wires <- MCWires
  Handlers <- MCHandlers
  HandlerBlocks = TRUE
  Modes = {"nonblocking"}
  Resume = {"handler_error"}
INVARIANT ReturnsProcessed
CHECK_DEADLOCK FALSE
