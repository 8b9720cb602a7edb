------------------------------ MODULE MCUsbLink ------------------------------
(* Instances of UsbLink for TLC.                                             *)
EXTENDS UsbLink

\* "ativo apos o bus reset, ainda sem SOF" (usbdev_env_pkg.sv:29): the link becomes
\* active after a bus reset, for which it waits in LinkPowered (line 26).
ActiveAfterReset == LinkActive => drove

=============================================================================
