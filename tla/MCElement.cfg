SPECIFICATION ElementSpec
CONSTANTS
  SizeMod = 1073741824
  WordMod = 1073741824
  CharSigned = FALSE
  TopicMax = 0
  Uint16s <- MCUint16s
  VariableIntegers <- MCVariableIntegers
INVARIANT ReadsBack
PROPERTY ReadsWhenThere
CHECK_DEADLOCK FALSE
