SPECIFICATION SessionSpec
CONSTANTS
  SizeMod = 1073741824
  WordMod = 536870912
  CharSigned = TRUE
  Inboxes <- MCInboxes
  Headers <- MCHeaders
  Filters <- MCFilters
  Publications <- MCPublications
  Rooms <- MCRooms
  MaxCalls = 3
  Reuses = TRUE
  TopicMax = 3
  CodesMax = 1
INVARIANTS
  EmptyMeansNoElements
CHECK_DEADLOCK FALSE
