SPECIFICATION Spec
CONSTANTS
  ep0 = ep0
  ep1 = ep1
  b0 = b0
  b1 = b1
  b2 = b2
  NoBuf = NoBuf
  Endpoints <- MCEndpoints
  Enabled <- MCEndpoints
  Control <- OnlyEp0
  Iso <- MCEndpoints
  SetNak <- OnlyEp0
  Buffers <- MCBuffers
  AVSetupDepth = 1
  AVOutDepth = 2
  RXDepth = 2
SYMMETRY BufferSymmetry
INVARIANTS
  TypeOK
  SetupCoherent
  RxReserve
  OneOwner
  PacketWhole
  SetupOnlyToControl
  OnePacketPerEnable
