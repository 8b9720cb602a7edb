---------------------------- MODULE MCUsbdpiHost ----------------------------
(* Instances of UsbdpiHost for TLC.                                          *)
EXTENDS UsbdpiHost

\* Both kinds of device, and every test but the isochronous and the mixed one, which
\* differ from the streaming test only in what follows.
AllDevices == {"prompt", "any"}
AllTests == {"smoke", "streams", "pincfg", "suspend"}

\* The device the host's tests were written for.
OnlyPrompt == {"prompt"}
OnlySmoke == {"smoke"}

=============================================================================
