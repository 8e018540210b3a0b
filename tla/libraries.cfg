CONSTANTS
  WordSize = 4
  AddressSize = 2
  ElementType = "address"
  KeyType = "uint256"
  ValueType = "address"
  WordLength = 6
  LengthStep = 2
  KeyLength = 3
  ValueLength = 1
  MaxBlock = 9

SPECIFICATION LibrariesSpec

INVARIANTS
  StorageOK
  ReadsAgree
  CastsAreExact
  SearchesAreExact
  HistoryIsExact

PROPERTIES
  CollectionSpec
  PastIsFixed

\* Past the last key a push to a history reverts, and MaxBlock bounds the blocks.
CHECK_DEADLOCK FALSE
