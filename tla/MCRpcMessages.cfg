SPECIFICATION Spec
CONSTANTS
  Strings <- MCStrings
  ByteVectors <- MCByteVectors
  Int8s <- MCInt8s
  Int32s <- MCInt32s
  Int64s <- MCInt64s
  InitialSizes <- MCInitialSizes
INVARIANTS TypeOK RoundTrip ReadsInBounds
PROPERTY OffsetsStayValid
CHECK_DEADLOCK FALSE
