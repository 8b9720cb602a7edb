----------------------------- MODULE UsbOutPath -----------------------------
(***************************************************************************)
(* Reception of OUT and SETUP transactions by the USB device:              *)
(*   - the transaction FSM of usb_fs_nb_out_pe.sv,                         *)
(*   - the buffer glue of usbdev_usbif.sv (which Available Buffer FIFO and *)
(*     which part of the RX FIFO a packet may use, the delayed pop),       *)
(*   - the three FIFOs and the rxenable_out / stall registers of           *)
(*     usbdev.sv, as software sees and changes them.                       *)
(*                                                                         *)
(* A step is one event of the 48MHz domain that changes this state: the    *)
(* end of a token or data packet, the start of a packet, one byte put into *)
(* a packet buffer, the response timeout, one of the single-cycle decision *)
(* states, the pop of a FIFO one cycle after the packet was accepted, a    *)
(* bus reset, or one register access by software.  The receiver            *)
(* (usb_fs_rx.sv) is the environment: it chooses which packets end, valid  *)
(* or not.  Packet contents are not modelled; the buffers in which the     *)
(* bytes of the packet landed are.                                         *)
(***************************************************************************)
EXTENDS Naturals, Sequences, FiniteSets

CONSTANTS
  Endpoints,    \* OUT endpoint numbers
  Enabled,      \* endpoints set in ep_out_enable
  Control,      \* endpoints set in rxenable_setup
  Iso,          \* endpoints set in out_iso
  SetNak,       \* endpoints set in set_nak_out
  Buffers,      \* packet buffer IDs
  NoBuf,        \* stands for "no buffer available"
  AVSetupDepth, \* depth of the Available SETUP Buffer FIFO
  AVOutDepth,   \* depth of the Available OUT Buffer FIFO
  RXDepth       \* depth of the RX FIFO

ASSUME ConfigAssumption ==
  /\ Enabled \subseteq Endpoints
  /\ Control \subseteq Endpoints
  /\ Iso \subseteq Endpoints
  /\ SetNak \subseteq Endpoints
  /\ Endpoints # {}
  /\ NoBuf \notin Buffers

ASSUME DepthAssumption ==
  /\ AVSetupDepth \in Nat \ {0}
  /\ AVOutDepth \in Nat \ {0}
  /\ RXDepth \in Nat \ {0}

VARIABLES
  xact,      \* out_xact_state
  current,   \* out_ep_current_o
  xactSetup, \* current_xact_setup_q
  nakXact,   \* nak_out_transaction
  rxEndp,    \* rx_endp_i, the endpoint field of the latest token on the bus
  epSetup,   \* out_ep_setup_o
  toggle,    \* data_toggle_q
  resp,      \* handshake put on the bus since the latest token
  av,        \* the Available SETUP ("setup") and OUT ("out") Buffer FIFOs
  pop,       \* which of them has rready asserted in the next cycle
  rx,        \* the RX FIFO
  rxen,      \* rxenable_out
  stall,     \* out_stall
  swBufs,    \* buffers held by software
  homes,     \* history: buffers to which bytes of this packet were written
  torn,      \* history: the FIFO was reset since the first byte of this packet
  taken      \* history: OUT packets accepted since software set rxenable_out

fsmVars == <<xact, current, xactSetup, nakXact, rxEndp, epSetup, toggle, resp, homes, torn>>
swVars  == <<rxen, stall, swBufs, taken>>
vars    == <<fsmVars, av, pop, rx, swVars>>

Kinds == {"setup", "out"}
Toggles == {0, 1}
States == {"Idle", "RcvdOut", "RcvdDataStart", "RcvdDataEnd", "RcvdIsoDataEnd"}
RxEntry == [ep : Endpoints, setup : BOOLEAN, buf : Buffers, whole : BOOLEAN]

AVDepth == [k \in Kinds |-> IF k = "setup" THEN AVSetupDepth ELSE AVOutDepth]

-----------------------------------------------------------------------------
(* Selection of the FIFOs by the transaction in progress (usbdev_usbif).   *)

\* Is the packet being received a SETUP DATA packet?
CurrentSetup == epSetup[current]

Kind(isSetup) == IF isSetup THEN "setup" ELSE "out"
AvSel   == av[Kind(CurrentSetup)]
AvValid == AvSel # <<>>

\* Only SETUP packets may use the final entry of the RX FIFO.
RxWreadyAll == Len(rx) < RXDepth
RxWready == Len(rx) < (IF CurrentSetup THEN RXDepth ELSE RXDepth - 1)

OutFull(e) == \/ ~RxWready
              \/ ~AvValid
              \/ ~epSetup[e] /\ ~rxen[e]

-----------------------------------------------------------------------------
TypeOK ==
  /\ xact \in States
  /\ current \in Endpoints /\ rxEndp \in Endpoints
  /\ xactSetup \in BOOLEAN /\ nakXact \in BOOLEAN
  /\ epSetup \in [Endpoints -> BOOLEAN]
  /\ toggle \in [Endpoints -> Toggles]
  /\ resp \in {"none", "ACK", "NAK", "STALL"}
  /\ av \in [Kinds -> Seq(Buffers)]
  /\ pop \in Kinds \cup {"none"}
  /\ rx \in Seq(RxEntry)
  /\ rxen \in [Endpoints -> BOOLEAN] /\ stall \in [Endpoints -> BOOLEAN]
  /\ swBufs \subseteq Buffers
  /\ homes \subseteq Buffers \cup {NoBuf} /\ torn \in BOOLEAN
  /\ taken \in [Endpoints -> 0..2]

Init ==
  /\ xact = "Idle" /\ xactSetup = FALSE /\ nakXact = FALSE
  /\ current \in Endpoints /\ rxEndp = current
  /\ epSetup = [e \in Endpoints |-> FALSE]
  /\ toggle = [e \in Endpoints |-> 0]
  /\ resp = "none"
  /\ av = [k \in Kinds |-> <<>>]
  /\ pop = "none"
  /\ rx = <<>>
  /\ rxen = [e \in Endpoints |-> FALSE]
  /\ stall = [e \in Endpoints |-> FALSE]
  /\ swBufs = Buffers
  /\ homes = {} /\ torn = FALSE
  /\ taken = [e \in Endpoints |-> 0]

-----------------------------------------------------------------------------
(* The transaction FSM (usb_fs_nb_out_pe).                                 *)

\* nak_out_transaction is cleared in StIdle and StRcvdOut.
Goto(s) ==
  /\ xact' = s
  /\ nakXact' = (nakXact /\ s \notin {"Idle", "RcvdOut"})
  /\ homes' = IF s \in {"Idle", "RcvdOut"} THEN {} ELSE homes
  /\ torn' = (torn /\ s # "Idle")

\* Only endpoints with rxenable_setup start a SETUP transaction.
StartsAny(pid, e) == xact = "Idle" /\ e \in Enabled /\ pid \in {"OUT", "SETUP"}
Starts(pid, e) ==
  /\ xact = "Idle"
  /\ e \in Enabled
  /\ pid = "OUT" \/ (pid = "SETUP" /\ e \in Control)

\* out_ep_setup_o: the kind of the latest token for each enabled endpoint.
SetupFlagSticky(pid, e) == IF e \in Enabled /\ pid = "SETUP"
                           THEN [epSetup EXCEPT ![e] = TRUE] ELSE epSetup
SetupFlag(pid, e) == IF e \in Enabled /\ pid # "OTHER"
                     THEN [epSetup EXCEPT ![e] = (pid = "SETUP")] ELSE epSetup

\* The end of a packet that carries a token.  "OTHER" stands for the tokens
\* that are not for this device or direction and for corrupted ones: they only
\* leave their endpoint number behind, and end a transaction that was waiting
\* for data.
TokenEnd(pid, e) ==
  /\ pop = "none"
  /\ xact \in {"Idle", "RcvdDataStart"}
  /\ rxEndp' = e
  /\ resp' = "none"
  /\ epSetup' = SetupFlag(pid, e)
  /\ toggle' = IF e \in Enabled /\ pid = "SETUP"
               THEN [toggle EXCEPT ![e] = 0] ELSE toggle
  /\ IF Starts(pid, e)
     THEN Goto("RcvdOut") /\ current' = e /\ xactSetup' = (pid = "SETUP")
     ELSE Goto("Idle") /\ UNCHANGED <<current, xactSetup>>
  /\ UNCHANGED <<av, pop, rx, swVars>>

\* A packet begins within the response time.
PacketStart ==
  /\ pop = "none"
  /\ xact = "RcvdOut"
  /\ Goto("RcvdDataStart")
  /\ UNCHANGED <<current, xactSetup, rxEndp, epSetup, toggle, resp, av, pop, rx, swVars>>

\* No packet begins within 18 bit times.
ResponseTimeout ==
  /\ pop = "none"
  /\ xact = "RcvdOut"
  /\ Goto("Idle")
  /\ UNCHANGED <<current, xactSetup, rxEndp, epSetup, toggle, resp, av, pop, rx, swVars>>

\* Once a byte finds the endpoint full the transaction stays refused.
NakNoLatch == nakXact
NakLatch   == nakXact \/ OutFull(current)

\* A byte is put: it goes to the buffer at the head of the selected FIFO, and
\* the whole transaction is refused if the endpoint is full at that moment.
DataPut ==
  /\ pop = "none"
  /\ xact = "RcvdDataStart"
  /\ nakXact' = NakLatch
  /\ homes' = IF nakXact' THEN {}
              ELSE homes \cup {IF AvValid THEN Head(AvSel) ELSE NoBuf}
  /\ UNCHANGED <<xact, current, xactSetup, rxEndp, epSetup, toggle, resp, torn, av, pop, rx, swVars>>

BadToggle(tog) == rxEndp \in Enabled /\ tog # toggle[rxEndp]

\* The valid end of a DATA0/DATA1 packet.  Even an empty one put its CRC bytes.
DataEnd(tog) ==
  /\ pop = "none"
  /\ xact = "RcvdDataStart"
  /\ homes # {} \/ nakXact
  /\ \/ /\ rxEndp \notin Control /\ current \in Iso
        /\ Goto("RcvdIsoDataEnd") /\ UNCHANGED resp
     \/ /\ rxEndp \in Control \/ current \notin Iso
        /\ IF BadToggle(tog) /\ ~stall[current]
           THEN Goto("Idle") /\ resp' = "ACK"
           ELSE Goto("RcvdDataEnd") /\ UNCHANGED resp
  /\ UNCHANGED <<current, xactSetup, rxEndp, epSetup, toggle, av, pop, rx, swVars>>

\* A packet ends that is corrupted, or is a handshake.
BadPacketEnd ==
  /\ pop = "none"
  /\ xact = "RcvdDataStart"
  /\ Goto("Idle")
  /\ UNCHANGED <<current, xactSetup, rxEndp, epSetup, toggle, resp, av, pop, rx, swVars>>

Refused == nakXact \/ OutFull(current)

\* clear_rxenable_out, for the endpoints with set_nak_out.
RxEnableAfterSetup == IF current \in SetNak /\ CurrentSetup
                      THEN [rxen EXCEPT ![current] = FALSE] ELSE rxen
RxEnableAfter == IF current \in SetNak THEN [rxen EXCEPT ![current] = FALSE] ELSE rxen

FlipWide(t) == t + 1
Flip(t) == 1 - t

\* The packet is described in the RX FIFO; the buffer is popped a cycle later.
Accept ==
  /\ rx' = Append(rx, [ep |-> current, setup |-> CurrentSetup, buf |-> Head(AvSel),
                       whole |-> torn \/ homes \subseteq {Head(AvSel)}])
  /\ pop' = Kind(CurrentSetup)
  /\ toggle' = [toggle EXCEPT ![current] = Flip(@)]
  /\ rxen' = RxEnableAfter
  /\ stall' = IF CurrentSetup THEN [stall EXCEPT ![current] = FALSE] ELSE stall
  /\ taken' = IF CurrentSetup \/ taken[current] = 2 THEN taken
              ELSE [taken EXCEPT ![current] = @ + 1]

Drop == UNCHANGED <<rx, pop, toggle, rxen, stall, taken>>

DecideSetup ==
  /\ xact = "RcvdDataEnd" /\ xactSetup
  /\ IF Refused THEN Drop /\ UNCHANGED resp
                ELSE Accept /\ resp' = "ACK"
  /\ Goto("Idle")
  /\ UNCHANGED <<current, xactSetup, rxEndp, epSetup, av, swBufs>>

DecideOut ==
  /\ xact = "RcvdDataEnd" /\ ~xactSetup
  /\ IF stall[current] THEN Drop /\ resp' = "STALL"
     ELSE IF Refused THEN Drop /\ resp' = "NAK"
     ELSE Accept /\ resp' = "ACK"
  /\ Goto("Idle")
  /\ UNCHANGED <<current, xactSetup, rxEndp, epSetup, av, swBufs>>

DecideIso ==
  /\ xact = "RcvdIsoDataEnd"
  /\ IF Refused THEN Drop ELSE Accept
  /\ Goto("Idle")
  /\ UNCHANGED <<current, xactSetup, rxEndp, epSetup, resp, av, swBufs>>

PopNothing ==
  /\ pop # "none"
  /\ pop' = "none"
  /\ UNCHANGED <<fsmVars, av, rx, swVars>>

\* The buffer leaves its FIFO after the write that used it.
PopBuffer ==
  /\ pop # "none"
  /\ av' = [av EXCEPT ![pop] = IF @ = <<>> THEN @ ELSE Tail(@)]
  /\ pop' = "none"
  /\ UNCHANGED <<fsmVars, rx, swVars>>

\* A bus reset: the toggles are cleared, the FIFOs and epSetup are not.
LinkReset ==
  /\ pop = "none"
  /\ Goto("Idle")
  /\ toggle' = [e \in Endpoints |-> 0]
  /\ UNCHANGED <<current, xactSetup, rxEndp, epSetup, resp, av, pop, rx, swVars>>

-----------------------------------------------------------------------------
(* Software: one register access each.  An access in the cycle of a pop    *)
(* has the same outcome as one just after it.                              *)

SwProvide(k, b) ==
  /\ pop = "none"
  /\ b \in swBufs
  /\ Len(av[k]) < AVDepth[k]
  /\ av' = [av EXCEPT ![k] = Append(@, b)]
  /\ swBufs' = swBufs \ {b}
  /\ UNCHANGED <<fsmVars, pop, rx, rxen, stall, taken>>

SwReadRx ==
  /\ pop = "none"
  /\ rx # <<>>
  /\ rx' = Tail(rx)
  /\ swBufs' = swBufs \cup {Head(rx).buf}
  /\ UNCHANGED <<fsmVars, av, pop, rxen, stall, taken>>

\* fifo_ctrl.avsetup_rst, avout_rst.  The reset is not synchronised with the
\* transaction: a packet may find other buffers at the head of the FIFO after it.
SwResetAv(k) ==
  /\ pop = "none"
  /\ av[k] # <<>>
  /\ av' = [av EXCEPT ![k] = <<>>]
  /\ swBufs' = swBufs \cup {av[k][i] : i \in 1..Len(av[k])}
  /\ torn' = (torn \/ (homes # {} /\ k = Kind(CurrentSetup)))
  /\ UNCHANGED <<xact, current, xactSetup, nakXact, rxEndp, epSetup, toggle, resp, homes,
                 pop, rx, rxen, stall, taken>>

SwResetRx ==
  /\ pop = "none"
  /\ rx # <<>>
  /\ rx' = <<>>
  /\ swBufs' = swBufs \cup {rx[i].buf : i \in 1..Len(rx)}
  /\ UNCHANGED <<fsmVars, av, pop, rxen, stall, taken>>

\* A write of rxenable_out that preserves every other endpoint.
SwWriteRxEnable(e, v) ==
  /\ pop = "none"
  /\ rxen[e] # v
  /\ rxen' = [rxen EXCEPT ![e] = v]
  /\ taken' = IF v THEN [taken EXCEPT ![e] = 0] ELSE taken
  /\ UNCHANGED <<fsmVars, av, pop, rx, stall, swBufs>>

SwWriteStall(e, v) ==
  /\ pop = "none"
  /\ stall[e] # v
  /\ stall' = [stall EXCEPT ![e] = v]
  /\ UNCHANGED <<fsmVars, av, pop, rx, rxen, swBufs, taken>>

SwWriteToggle(e, v) ==
  /\ pop = "none"
  /\ toggle[e] # v
  /\ toggle' = [toggle EXCEPT ![e] = v]
  /\ UNCHANGED <<xact, current, xactSetup, nakXact, rxEndp, epSetup, resp, homes, torn,
                 av, pop, rx, swVars>>

-----------------------------------------------------------------------------
Bus ==
  \/ \E e \in Endpoints, pid \in {"OUT", "SETUP", "OTHER"} : TokenEnd(pid, e)
  \/ PacketStart
  \/ ResponseTimeout
  \/ DataPut
  \/ \E tog \in Toggles : DataEnd(tog)
  \/ BadPacketEnd
  \/ LinkReset

Device == DecideSetup \/ DecideOut \/ DecideIso \/ PopBuffer

Software ==
  \/ \E k \in Kinds, b \in Buffers : SwProvide(k, b)
  \/ SwReadRx
  \/ \E k \in Kinds : SwResetAv(k)
  \/ SwResetRx
  \/ \E e \in Endpoints, v \in BOOLEAN : SwWriteRxEnable(e, v) \/ SwWriteStall(e, v)
  \/ \E e \in Endpoints, v \in Toggles : SwWriteToggle(e, v)

Next == Bus \/ Device \/ Software

Spec == Init /\ [][Next]_vars

-----------------------------------------------------------------------------
(* What the reception path promises.                                       *)

\* While a transaction is in progress the endpoint number seen by the receiver,
\* the endpoint latched by the FSM and the SETUP flag kept per endpoint agree:
\* the FSM decides by current_xact_setup_q, the buffer glue by out_ep_setup.
SetupCoherent ==
  xact # "Idle" => /\ rxEndp = current
                   /\ current \in Enabled
                   /\ epSetup[current] = xactSetup
                   /\ xactSetup => current \in Control

\* OUT traffic never takes the last entry of the RX FIFO, however slow software
\* is, and nothing is written to a full FIFO.
RxReserve ==
  /\ Len(rx) <= RXDepth
  /\ Len(rx) = RXDepth => rx[RXDepth].setup

\* The entries of an Available Buffer FIFO the hardware may still hand out.
AvLive(k) == IF pop = k THEN Tail(av[k]) ELSE av[k]

\* A buffer being popped is the one described by the newest RX FIFO entry.
PopsReported == pop # "none" => /\ av[pop] # <<>>
                                /\ rx # <<>>
                                /\ Head(av[pop]) = rx[Len(rx)].buf

\* Every packet buffer is in exactly one place: with software, in one of the
\* Available Buffer FIFOs or in the RX FIFO, once.  No packet can be written
\* over another one, and none is lost to both sides.
OneOwner ==
  LET places == {<<"sw", 0, b>> : b \in swBufs}
                \cup (UNION {{<<k, i, AvLive(k)[i]>> : i \in 1..Len(AvLive(k))} : k \in Kinds})
                \cup {<<"rx", i, rx[i].buf>> : i \in 1..Len(rx)}
  IN  \A b \in Buffers : Cardinality({p \in places : p[3] = b}) = 1

\* Every byte of a reported packet went to the buffer that is reported, even if
\* the FIFO was empty when its first bytes arrived and filled meanwhile.
PacketWhole == \A i \in 1..Len(rx) : rx[i].whole

\* Only endpoints with rxenable_setup ever report a SETUP packet.
SetupOnlyToControl == \A i \in 1..Len(rx) : rx[i].setup => rx[i].ep \in Control

\* With set_nak_out, an endpoint takes at most one OUT packet each time software
\* enables it.
OnePacketPerEnable ==
  \A e \in SetNak : taken[e] <= 1 /\ (taken[e] = 1 => ~rxen[e])

=============================================================================
