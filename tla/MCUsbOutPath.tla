---------------------------- MODULE MCUsbOutPath ----------------------------
(***************************************************************************)
(* Instances of UsbOutPath for TLC: one control and one other endpoint, a  *)
(* single SETUP buffer and fewer buffers than FIFO entries.                *)
(***************************************************************************)
EXTENDS UsbOutPath, TLC

CONSTANTS ep0, ep1, b0, b1, b2

MCEndpoints == {ep0, ep1}
MCBuffers == {b0, b1, b2}
OnlyEp0 == {ep0}

\* Buffer IDs are only compared and stored.
BufferSymmetry == Permutations(MCBuffers)

=============================================================================
