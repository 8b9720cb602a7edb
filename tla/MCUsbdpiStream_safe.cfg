SPECIFICATION Spec
CONSTANTS
  t1 = t1
  t2 = t2
  t3 = t3
  t4 = t4
  t5 = t5
  NoTr = NoTr
  NStreams = 2
  Modes <- EveryMode
  Transfers <- MCTransfers5
  MaxRetries = 1
  MaxTries = 3
  MaxSkips = 1
SYMMETRY Symmetry5
INVARIANTS
  TypeOK
  PoolExclusive
  ReceivedInOrder
  LoopbackInOrder
  IsoInOrder
  NoFalseAlarm
PROPERTIES
  NoLeak
CHECK_DEADLOCK FALSE
