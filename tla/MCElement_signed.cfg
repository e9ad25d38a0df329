SPECIFICATION ElementSpec
CONSTANTS
  SizeMod = 1073741824
  WordMod = 1073741824
  CharSigned = TRUE
  TopicMax = 0
  Uint16s <- MCUint16s
  VariableIntegers <- MCVariableIntegers
INVARIANT ReadsBack
CHECK_DEADLOCK FALSE
