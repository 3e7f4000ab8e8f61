\* Every nonce pattern of two cores and one external board; packets of three
\* bytes with pauses of any length and two lost bytes; two-byte nonces, and a
\* Writer that stops after MaxRounds getwork calls.
SPECIFICATION FairSpec
CONSTANTS
  SLAVES = 3
  SyncDelay <- MCSyncDelay
  MaxFinds <- MCMaxFinds
  BYTES = 3
  TIMEOUT = 5
  BYTETIME = 2
  PAUSE = 3
  UPeriod = 4
  PPeriod = 1
  MaxPackets = 4
  MaxLost = 2
  WORD = 2
  MaxRounds = 3
  MaxNonces = 3
INVARIANTS
  UplinkTypeOK
  WordsIntact
  NoByteDropped
  AtMostOnce
  Resynchronises
  NoMixPastQuiet
  WholeIfNoLoss
  OneLoadEach
  HostTypeOK
  WholeNonce
  NeverOlderBlock
PROPERTIES
  InOrder
  LossOnlyAtStart
  Drains
  GoldenServed
  FpgaFollows
