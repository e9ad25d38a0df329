SPECIFICATION FeedSpec
CONSTANTS
  SizeMod = 1073741824
  WordMod = 1073741824
  CharSigned = FALSE
  TopicMax = 3
  Identifiers = {5, 400}
  Streams <- MCPublishStreams
  SplitsTopics = {}
  Wires <- MCWires
  Handlers <- MCPeekingHandlers
  HandlerBlocks = TRUE
  Modes = {"nonblocking"}
  Resume = {"handler_error"}
INVARIANT InStep
CHECK_DEADLOCK FALSE
