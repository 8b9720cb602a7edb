SPECIFICATION FairSpec
CONSTANTS
  e0 = e0
  e1 = e1
  b1 = b1
  b2 = b2
  Endpoints = {e0}
  Enabled = {e0}
  Control = {e0}
  Iso = {}
  Buffers = {b1}
  NoEp = NoEp
  NoBuf = NoBuf
  MaxPkt = 1
  Size <- FullSizes
  MaxPackets = 2
  Lossy = TRUE
  EarlyToken = FALSE
  Retracting = FALSE
  Stalled = {}
PROPERTY AllCollected
