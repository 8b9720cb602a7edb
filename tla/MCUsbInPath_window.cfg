SPECIFICATION Spec
CONSTANTS
  e0 = e0
  e1 = e1
  b1 = b1
  b2 = b2
  Endpoints = {e1}
  Enabled = {e1}
  Control = {}
  Iso = {}
  Buffers = {b1}
  NoEp = NoEp
  NoBuf = NoBuf
  MaxPkt = 2
  Size <- AllSizes
  MaxPackets = 2
  Lossy = TRUE
  EarlyToken = TRUE
  Retracting = FALSE
  Stalled = {}
INVARIANT PacketWhole
