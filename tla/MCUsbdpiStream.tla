--------------------------- MODULE MCUsbdpiStream ---------------------------
(***************************************************************************)
(* Instances of UsbdpiStream for TLC.                                      *)
(***************************************************************************)
EXTENDS UsbdpiStream, TLC

CONSTANTS t1, t2, t3, t4, t5

MCTransfers4 == {t1, t2, t3, t4}
MCTransfers5 == {t1, t2, t3, t4, t5}

\* Descriptors are only compared and stored.
Symmetry4 == Permutations(MCTransfers4)
Symmetry5 == Permutations(MCTransfers5)

BulkInt == <<"bulk", "int">>
BulkIso == <<"bulk", "iso">>

\* The streams are numbered from 0.
TestOf(types, retrieve, send, retrying, faulty, packets, restarts) ==
  [type |-> [s \in Streams |-> types[s + 1]],
   retrieve |-> retrieve, send |-> send, retrying |-> retrying, faulty |-> faulty,
   packets |-> packets, restarts |-> restarts]

\* Packets go round; with an isochronous stream; the host makes up the packets;
\* the host only receives; the device misbehaves;
\* packets go round, but too few to exhaust the descriptors.
Loopback == TestOf(BulkInt, TRUE, TRUE, TRUE, FALSE, 3, 0)
WithIso  == TestOf(BulkIso, TRUE, TRUE, TRUE, FALSE, 3, 0)
MadeUp   == TestOf(BulkInt, FALSE, TRUE, TRUE, FALSE, 4, 1)
Sink     == TestOf(BulkInt, TRUE, FALSE, TRUE, FALSE, 4, 1)
Unruly   == TestOf(BulkInt, TRUE, TRUE, FALSE, TRUE, 2, 1)
Short    == TestOf(BulkInt, TRUE, TRUE, TRUE, FALSE, 2, 0)

EveryMode == {Loopback, WithIso, MadeUp, Sink, Unruly}
OnlyShort == {Short}
OnlyUnruly == {Unruly}

=============================================================================
