SPECIFICATION FeedSpec
CONSTANTS
  SizeMod = 1073741824
  WordMod = 1073741824
  CharSigned = FALSE
  TopicMax = 3
  Identifiers = {5, 400}
  Streams <- MCStreams
  SplitsTopics = {}
  Wires <- MCWires
  Handlers <- MCQuietHandlers
  HandlerBlocks = TRUE
  Modes = {"blocking"}
  Resume = {"handler_error"}
INVARIANT NoFalseAlarm
CHECK_DEADLOCK FALSE
