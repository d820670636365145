SPECIFICATION Spec
CONSTANTS
  Byte <- MCByte
  SeqNo = {0, 1, 2, 4}
  Payload <- MCPayload
  MaxPackets = 4
INVARIANTS CompleteIsContiguous
PROPERTIES ImplementsReassembly
CHECK_DEADLOCK FALSE
