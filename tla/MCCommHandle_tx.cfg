SPECIFICATION FairSpec
CONSTANTS
  B = 4
  PACKER_START_BYTE = 2
  PACKER_END_BYTE = 3
  COM_MAX_PAYLOAD_SIZE = 3
  size_out = 3
  CrcLength = 5
  crc16_byte_cal <- MCByteCal
  crc16_cal <- MCCal
  UART_TX_QUEUE_SIZE = 15
  UART_RX_QUEUE_SIZE = 8
  RxBatch = 8
  DropLimit = 2
  Messages <- MCMessages
  PeerMessages <- MCOneMessage
  ChunkSizes = {1, 7}
  MaxSends = 2
  MaxPeerSends = 1
INVARIANTS
  QueuedOnce
  WireIsHanded
  BusyTracksTransfer
  IdleIsTrue
PROPERTIES
  EverythingSent
