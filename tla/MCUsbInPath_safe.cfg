SPECIFICATION Spec
CONSTANTS
  e0 = e0
  e1 = e1
  b1 = b1
  b2 = b2
  Endpoints = {e0, e1}
  Enabled = {e0, e1}
  Control = {e0}
  Iso = {e1}
  Buffers = {b1, b2}
  NoEp = NoEp
  NoBuf = NoBuf
  MaxPkt = 2
  Size <- AllSizes
  MaxPackets = 2
  Lossy = TRUE
  EarlyToken = FALSE
  Retracting = TRUE
  Stalled = {e0}
INVARIANTS
  TypeOK
  PacketWhole
  InFlightMarked
  ToggleInSync
  NoneStale
PROPERTY
  IsChannel
SYMMETRY BufferSymmetry
