SPECIFICATION LayersSpec
CONSTANTS
  uint8_t = {1, 2}
  Size = 3
  Chunks <- MCChunks
  MaxBatch = 3
  MaxPushed = 5
  B = 4
  PACKER_START_BYTE = 2
  PACKER_END_BYTE = 3
  COM_MAX_PAYLOAD_SIZE = 3
  size_out = 3
  CrcLength = 5
  crc16_byte_cal <- MCByteCal
  crc16_cal <- MCCal
INVARIANTS
  SpaceIsKept
  WritesInBounds
  DeliversFrames
  AcceptsFrames
  StreamMatchesBatch
PROPERTIES
  ImplementsFifo
