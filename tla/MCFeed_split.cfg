SPECIFICATION FeedSpec
CONSTANTS
  SizeMod = 1073741824
  WordMod = 1073741824
  CharSigned = FALSE
  TopicMax = 3
  Identifiers = {5, 400}
  Streams <- MCPublishStreams
  SplitsTopics = {"text"}
  Wires <- MCWires
  Handlers <- MCQuietHandlers
  HandlerBlocks = TRUE
  Modes = {"nonblocking"}
  Resume = {"handler_error"}
INVARIANT DeliversInOrder
CHECK_DEADLOCK FALSE
