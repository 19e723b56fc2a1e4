SPECIFICATION MetadataSpec
CONSTANTS
  Nil = Nil
  Malformed = Malformed
  Unit <- MCUnit
  MaxTimeout = 9
  MaxDuration = 2047
  Requests <- MCRequests
  Keys <- MCKeys
  Errors <- MCErrors
  Relayed = {"NotFound", "OK"}
  Named = {"zstd"}
  MaxInbound = 3
CONSTRAINT Explored
CHECK_DEADLOCK FALSE
INVARIANTS MetadataArrives RequestFaithful StatusArrives
