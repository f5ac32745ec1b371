SPECIFICATION FairSpec
CONSTANTS
  B = 4
  PACKER_START_BYTE = 2
  PACKER_END_BYTE = 3
  COM_MAX_PAYLOAD_SIZE = 3
  size_out = 3
  CrcLength = 5
  crc16_byte_cal <- MCByteCal
  crc16_cal <- MCCal
  UART_TX_QUEUE_SIZE = 9
  UART_RX_QUEUE_SIZE = 6
  RxBatch = 3
  DropLimit = 3
  Messages <- MCNoMessages
  PeerMessages <- MCOneMessage
  ChunkSizes = {1, 4}
  MaxSends = 0
  MaxPeerSends = 2
INVARIANTS
  WholeChunks
  PeerInOrder
PROPERTIES
  DropIsReported
  PeerDelivered
