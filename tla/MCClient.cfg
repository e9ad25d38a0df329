SPECIFICATION MCSpec
CONSTANTS
  SizeMod = 1073741824
  WordMod = 1073741824
  CharSigned = TRUE
  TopicMax = 1
  Alphabet = {0, 1, 2, 48, 50, 64, 144}
  WireMax = 3
  Damage = {0, 3, 130}
  Wires <- MCWires
  Handlers <- MCHandlers
  HandlerBlocks = FALSE
  Modes = {"nonblocking", "blocking"}
  Resume = {"handler_error", "io_error", "bad_remaining_size", "bad_flags", "bad_payload", "bad_qos", "bad_return_code", "bad_packet_type", "not_enough_memory", "bad_variant_cast"}
INVARIANTS
  TypeOK
  HeaderMatchesType
  FreshBetweenPackets
  NeverBlocks
  VariableIntegerFits
  TopicFits
PROPERTIES
  Progresses
