SPECIFICATION RingsSpec
CHECK_DEADLOCK FALSE
CONSTANTS
  uint8_t = {1, 2}
  QueueSize = 3
  Chunks <- MCChunks
  MaxPushed = 5
  B = 4
  PROTOCOL_START_BYTE = 2
  PROTOCOL_STOP_BYTE = 3
  PROTOCOL_MAX_PAYLOAD = 8
  OutputSize = 8
  CrcLength = 4
  crc16_mcrf4xx_update <- MCUpdate
  crc16_mcrf4xx <- MCCrc
  Size = 6
  Symbols = 3
  Lengths = {0, 3}
  OutLengths = {1, 3}
  Terminals = {10, 16}
  NewModes = {0, 2}
  MaxCalls = 3
  SEGGER_RTT_MAX_NUM_UP_BUFFERS = 3
  SEGGER_RTT_MAX_NUM_DOWN_BUFFERS = 1
  Buffers = {"a", "b"}
  NewFlags = {2}
  EarlyInterrupts = FALSE
  MaxConfigs = 3
INVARIANTS
  InOrder
  WritesInBounds
  DeliversFrames
  AcceptsFrames
  BoundedLock
  RingIsFifo
  TextOnItsTerminal
  NonBlockingNeverWaits
  SlotsStayAllocated
PROPERTIES
  ImplementsFifo
  EveryCallReturns
