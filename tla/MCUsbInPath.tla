---------------------------- MODULE MCUsbInPath ----------------------------
(* Instances of UsbInPath for TLC.                                          *)
EXTENDS UsbInPath, TLC

\* Packets of every length from empty to the greatest, and of the greatest only.
AllSizes == [k \in 1..MaxPackets |-> k % (MaxPkt + 1)]
FullSizes == [k \in 1..MaxPackets |-> MaxPkt]

BufferSymmetry == Permutations(Buffers)

=============================================================================
