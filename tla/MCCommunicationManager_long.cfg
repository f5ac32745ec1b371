SPECIFICATION Spec
CONSTANTS
  B = 4
  PROTOCOL_START_BYTE = 2
  PROTOCOL_STOP_BYTE = 3
  PROTOCOL_MAX_PAYLOAD = 8
  OutputSize = 8
  CrcLength = 5
  crc16_mcrf4xx_update <- MCUpdate
  crc16_mcrf4xx <- MCCrc
  TxSize = 20
  RxSize = 15
  Messages <- MCLongMessages
  Copies = TRUE
  MaxChunk = 8
  MaxNesting = 0
  MaxSends = 1
INVARIANTS
  EveryFrameParses
