INIT Init
NEXT Next
CHECK_DEADLOCK FALSE
CONSTANTS
  Corners = {0, 1, 128, 255}
  MaxMessage = 3
  Fields <- MCFields
  Hashes <- MCHashes
  Signatures <- MCSignatures
  Chunks <- MCChunks
  Reports <- MCReports
  Capacities = {19, 20, 28, 29}
  Slack <- MCSlack
  Pieces <- MCPieces
  MaxUpdates = 2
  Key <- MCKey
  Ivs <- MCIvs
  AadLengths = {0, 16, 20}
  TextLengths = {0, 1, 16, 33}
  LimbBits = 4
  NLIMBS = 2
  P = 251
  N = 229
  B = 58
  Gx = 4
  Gy = 19
  Tries = 4
  Streams <- MCStreams
  Digests <- MCDigests
  Offsets <- MCOffsets
  FieldBits = 5
  FieldLimbs = 4
  Low121665 = 20
  Privates = {0, 7, 300000, 524287, 1048575, 77777}
  Peers = {0, 1, 2, 18, 19, 524268, 524269, 524270, 524278, 524287, 524288, 1048575, 33333}
INVARIANTS
  CrcAgrees
  BootExchange
  DigestIsStandard
  GcmIsStandard
  EcdsaIsStandard
  X25519IsStandard
