------------------------------ MODULE UsbInPath ------------------------------
(***************************************************************************)
(* Transmission of IN packets by the USB device:                           *)
(*   - the transaction FSM of usb_fs_nb_in_pe.sv,                          *)
(*   - the buffer glue of usbdev_usbif.sv (when a packet is at its end),   *)
(*   - the configin / in_sent / in_stall registers of usbdev.sv.           *)
(*                                                                         *)
(* A step is one event of the 48MHz domain that changes this state: a      *)
(* packet of the host that starts or ends, the choice of the response, one *)
(* byte of a packet, the end of a transmission, the response timeout, the  *)
(* acceptance of a SETUP packet by the OUT side, a bus reset, or one       *)
(* register access.                                                        *)
(*                                                                         *)
(* Two parties are the environment.  The host polls, keeps its own data    *)
(* toggles and acknowledges what it receives; packets are lost in both     *)
(* directions.  Software has one packet at a time armed on an endpoint and *)
(* gives its buffer back when the packet was sent or cancelled, or when,   *)
(* having cleared rdy, it finds that collection was not attempted.         *)
(*                                                                         *)
(* A packet is a serial number, the same for each of its bytes.            *)
(***************************************************************************)
EXTENDS Naturals

CONSTANTS
  Endpoints,    \* IN endpoint numbers
  Enabled,      \* endpoints set in ep_in_enable
  Control,      \* endpoints set in rxenable_setup
  Iso,          \* endpoints set in in_iso
  Buffers,      \* packet buffer IDs
  NoEp, NoBuf,  \* none of these
  MaxPkt,       \* MaxInPktSizeByte
  Size,         \* the length of each packet
  MaxPackets,   \* bound: packets software sends
  Lossy,        \* may packets get lost?
  EarlyToken,   \* may the host poll again while the device awaits a handshake?
  Retracting,   \* does software retract packets?
  Stalled       \* endpoints that software stalls

ASSUME InAssumption ==
  /\ Enabled \subseteq Endpoints /\ Control \subseteq Enabled /\ Iso \subseteq Endpoints
  /\ Stalled \subseteq Endpoints
  /\ NoEp \notin Endpoints /\ NoBuf \notin Buffers
  /\ MaxPkt \in Nat \ {0} /\ MaxPackets \in Nat
  /\ Size \in [1..MaxPackets -> 0..MaxPkt]
  /\ Lossy \in BOOLEAN /\ EarlyToken \in BOOLEAN /\ Retracting \in BOOLEAN

VARIABLES
  state,     \* in_xact_state
  cur,       \* in_ep_current_o
  hasData,   \* has_data_q
  addr,      \* in_ep_get_addr_o
  toggle,    \* data_toggle_q
  capt,      \* in_buf_q and in_size_q
  tx,        \* what the device is transmitting
  cfg,       \* configin.buffer and configin.size
  rdy, sending, pend,  \* the other fields of configin
  sent,      \* in_sent
  stall,     \* in_stall
  link,      \* link_active_o and link_reset_i
  setup,     \* endpoint of the SETUP packet the OUT side is receiving
  memory,    \* the packet in each buffer, 0 for none
  next,      \* the next packet of software
  armed,     \* the buffer software has given to each endpoint
  retract,   \* endpoints on which software is retracting its packet
  pkt,       \* what the host is transmitting
  await,     \* endpoint the host has polled
  ackDue,    \* the host owes a handshake
  hTog,      \* the host's data toggles
  hLast,     \* the packet the host accepted last from each endpoint
  hSetup,    \* endpoint to which the host must repeat a SETUP
  reported,  \* history: the packet last reported in in_sent
  cancelled  \* history: the packet last cancelled

fsmVars  == <<state, cur, hasData, addr, toggle, capt, tx, setup>>
regVars  == <<cfg, rdy, sending, pend, sent, stall>>
swVars   == <<memory, next, armed, retract>>
hostVars == <<pkt, await, ackDue, hTog, hLast, hSetup>>
histVars == <<reported, cancelled>>
vars     == <<fsmVars, regVars, swVars, hostVars, histVars, link>>

Serials == 0..MaxPackets
States == {"Idle", "RcvdIn", "SendData", "WaitTxEnd", "WaitAckStart", "WaitAck"}
NoTx == [kind |-> "none"]
NoPkt == [kind |-> "none"]
Descr == [buf : Buffers, size : 0..MaxPkt]
TxKinds == {NoTx} \cup [kind : {"NAK", "STALL"}]
DataTx == [kind : {"data"}, ep : Endpoints, tog : {0, 1}, k : Serials, bytes : SUBSET Serials,
           n : Nat, done : BOOLEAN]
PktKinds == {NoPkt, [kind |-> "ACK"], [kind |-> "OTHER"]}
            \cup [kind : {"IN", "SETUP"}, ep : Endpoints]

IsoEp(e) == e \in Iso /\ e \notin Control   \* in_ep_iso_not_control

Flags == [Endpoints -> BOOLEAN]

FsmTypeOK ==
  /\ state \in States /\ cur \in Endpoints /\ hasData \in BOOLEAN
  /\ addr \in 0..(MaxPkt - 1) /\ toggle \in [Endpoints -> {0, 1}]
  /\ capt \in Descr /\ tx \in TxKinds \cup DataTx /\ setup \in Endpoints \cup {NoEp}
  /\ link \in {"active", "suspended", "reset"}

RegTypeOK ==
  /\ cfg \in [Endpoints -> Descr]
  /\ rdy \in Flags /\ sending \in Flags /\ pend \in Flags /\ sent \in Flags /\ stall \in Flags
  /\ reported \in [Endpoints -> Serials] /\ cancelled \in [Endpoints -> Serials]

SwTypeOK ==
  /\ memory \in [Buffers -> Serials] /\ next \in 1..(MaxPackets + 1)
  /\ armed \in [Endpoints -> Buffers \cup {NoBuf}] /\ retract \in Flags

HostTypeOK ==
  /\ pkt \in PktKinds /\ await \in Endpoints \cup {NoEp} /\ ackDue \in BOOLEAN
  /\ hTog \in [Endpoints -> {0, 1}] /\ hLast \in [Endpoints -> Serials]
  /\ hSetup \in Endpoints \cup {NoEp}

TypeOK == FsmTypeOK /\ RegTypeOK /\ SwTypeOK /\ HostTypeOK

AllOff == [e \in Endpoints |-> FALSE]
AllZero == [e \in Endpoints |-> 0]

Init ==
  /\ state = "Idle" /\ cur \in Endpoints /\ hasData = FALSE /\ addr = 0
  /\ toggle = AllZero
  /\ \E b \in Buffers : capt = [buf |-> b, size |-> 0] /\ cfg = [e \in Endpoints |-> capt]
  /\ tx = NoTx /\ setup = NoEp
  /\ rdy = AllOff /\ sending = AllOff /\ pend = AllOff /\ sent = AllOff /\ stall = AllOff
  /\ link = "active"
  /\ memory = [b \in Buffers |-> 0] /\ next = 1
  /\ armed = [e \in Endpoints |-> NoBuf] /\ retract = AllOff
  /\ pkt = NoPkt /\ await = NoEp /\ ackDue = FALSE
  /\ hTog = AllZero /\ hLast = AllZero /\ hSetup = NoEp
  /\ reported = AllZero /\ cancelled = AllZero

-----------------------------------------------------------------------------
(* The transaction FSM.                                                    *)

\* in_ep_get_addr_o is cleared in StIdle, and only there.
Goto(s) ==
  /\ state' = s
  /\ addr' = IF s = "Idle" THEN 0 ELSE addr

CaptureLate(e) == UNCHANGED capt /\ sending' = [sending EXCEPT ![e] = TRUE]
CaptureUnmarked(e) == capt' = cfg[e] /\ UNCHANGED sending

\* in_xact_starting_o: the properties of the packet are captured and it is marked
\* as being collected.
Capture(e) ==
  /\ capt' = cfg[e]
  /\ sending' = [sending EXCEPT ![e] = TRUE]

\* An IN token for endpoint e.
InToken(e) ==
  /\ cur' = e /\ hasData' = rdy[e]
  /\ IF e \in Enabled /\ state \in {"Idle", "WaitAck"}
     THEN Capture(e)
     ELSE UNCHANGED <<capt, sending>>
  /\ Goto(IF e \in Enabled /\ link = "active" THEN "RcvdIn" ELSE "Idle")
  /\ UNCHANGED <<toggle, rdy, sent, reported, setup>>

ToggleKept(e) == toggle
ToggleOfSetup(e) == IF e \in Enabled THEN [toggle EXCEPT ![e] = 1] ELSE toggle

\* A SETUP token for endpoint e: the next packet of this endpoint is DATA1.
SetupToken(e) ==
  /\ toggle' = ToggleOfSetup(e)
  /\ setup' = e
  /\ Goto("Idle")
  /\ UNCHANGED <<cur, hasData, capt, sending, rdy, sent, reported>>

\* The packet was sent: in_sent is set, rdy and sending are cleared.
XactEnd(k) ==
  /\ sent' = [sent EXCEPT ![cur] = TRUE]
  /\ rdy' = [rdy EXCEPT ![cur] = FALSE]
  /\ sending' = [sending EXCEPT ![cur] = FALSE]
  /\ reported' = [reported EXCEPT ![cur] = k]

FlipNever(t) == t
FlipWide(t) == t + 1
Flip(t) == 1 - t

\* A valid ACK.  It matters only if it began within the response time.
AckReceived ==
  /\ IF state = "WaitAck"
     THEN /\ toggle' = [toggle EXCEPT ![cur] = Flip(@)]
          /\ XactEnd(memory[capt.buf])
     ELSE UNCHANGED <<toggle, sent, rdy, sending, reported>>
  /\ Goto("Idle")
  /\ UNCHANGED <<cur, hasData, capt, setup>>

\* Any other packet, or one that is not valid, abandons the transaction.
OtherEnd ==
  /\ Goto("Idle")
  /\ UNCHANGED <<cur, hasData, toggle, capt, setup, sending, sent, rdy, reported>>

\* A packet of the host ends, possibly damaged.
RxEnd ==
  /\ pkt # NoPkt
  /\ \/ pkt.kind = "IN" /\ InToken(pkt.ep)
     \/ pkt.kind = "SETUP" /\ SetupToken(pkt.ep)
     \/ pkt.kind = "ACK" /\ AckReceived
     \/ (pkt.kind = "OTHER" \/ Lossy) /\ OtherEnd
  /\ pkt' = NoPkt
  /\ UNCHANGED <<tx, cfg, pend, stall, swVars, await, ackDue, hTog, hLast, hSetup, cancelled, link>>

\* StRcvdIn: data, STALL or NAK.  The fields k, bytes, n and done of a
\* transmission are history: the packet meant, and what was taken from memory.
DataPacket(tog) ==
  [kind |-> "data", ep |-> cur, tog |-> tog, k |-> IF hasData THEN memory[capt.buf] ELSE 0,
   bytes |-> {}, n |-> 0, done |-> FALSE]

Respond ==
  /\ state = "RcvdIn"
  /\ \/ IsoEp(cur) /\ tx' = DataPacket(0) /\ Goto("SendData")
     \/ ~IsoEp(cur) /\ stall[cur] /\ tx' = [kind |-> "STALL"] /\ Goto("Idle")
     \/ ~IsoEp(cur) /\ ~stall[cur] /\ hasData /\ tx' = DataPacket(toggle[cur]) /\ Goto("SendData")
     \/ ~IsoEp(cur) /\ ~stall[cur] /\ ~hasData /\ tx' = [kind |-> "NAK"] /\ Goto("Idle")
  /\ UNCHANGED <<cur, hasData, toggle, capt, setup, regVars, swVars, hostVars, histVars, link>>

MoreData == hasData /\ addr # capt.size

\* The data of a packet is complete.  An isochronous one needs no handshake.
DataDone ==
  /\ IF IsoEp(cur)
     THEN /\ state' = "Idle"
          /\ IF hasData THEN XactEnd(tx.k) ELSE UNCHANGED <<sent, rdy, sending, reported>>
     ELSE state' = "WaitTxEnd" /\ UNCHANGED <<sent, rdy, sending, reported>>

\* The transmitter takes a byte.  A packet of the greatest length is complete
\* when the address is all ones.
TxByte ==
  /\ state = "SendData" /\ MoreData
  /\ tx' = [tx EXCEPT !.bytes = @ \cup {memory[capt.buf]}, !.n = @ + 1, !.done = (addr = MaxPkt - 1)]
  /\ addr' = (addr + 1) % MaxPkt
  /\ IF addr = MaxPkt - 1 THEN DataDone
     ELSE state' = state /\ UNCHANGED <<sent, rdy, sending, reported>>
  /\ UNCHANGED <<cur, hasData, toggle, capt, setup, cfg, pend, stall, swVars, hostVars,
                 cancelled, link>>

NoMoreData ==
  /\ state = "SendData" /\ ~MoreData
  /\ tx' = [tx EXCEPT !.done = TRUE]
  /\ DataDone
  /\ addr' = IF IsoEp(cur) THEN 0 ELSE addr
  /\ UNCHANGED <<cur, hasData, toggle, capt, setup, cfg, pend, stall, swVars, hostVars,
                 cancelled, link>>

\* The packet stays ready for the next poll.
RolledBackLost == [rdy EXCEPT ![cur] = FALSE]
RolledBack == rdy

\* No packet begins within the response time.
AckTimeout ==
  /\ state = "WaitAckStart"
  /\ ~ackDue \/ Lossy
  /\ Goto("Idle")
  /\ rdy' = RolledBack
  /\ UNCHANGED <<cur, hasData, toggle, capt, tx, setup, cfg, sending, pend, sent, stall, swVars,
                 hostVars, histVars, link>>

RdyKept(S) == rdy
RdyCleared(S) == [e \in Endpoints |-> rdy[e] /\ e \notin S]

\* rdy is cleared, and kept in pend; a cancelled packet is not being collected.
Cancel(S) ==
  /\ rdy' = RdyCleared(S)
  /\ pend' = [e \in Endpoints |-> IF e \in S THEN rdy[e] \/ pend[e] ELSE pend[e]]
  /\ sending' = [e \in Endpoints |-> sending[e] /\ e \notin S]
  /\ cancelled' = [e \in Endpoints |-> IF e \in S /\ rdy[e] THEN memory[cfg[e].buf] ELSE cancelled[e]]

\* The OUT side has received the SETUP packet.  If it had room for it the IN
\* packet of this endpoint is cancelled and the host gets an ACK, or the ACK is
\* lost; otherwise the host gets no response.
SetupAccepted ==
  /\ setup # NoEp /\ setup' = NoEp
  /\ Cancel({setup})
  /\ stall' = [stall EXCEPT ![setup] = FALSE]
  /\ \/ hTog' = [hTog EXCEPT ![setup] = 1] /\ hSetup' = NoEp
     \/ Lossy /\ UNCHANGED <<hTog, hSetup>>
  /\ UNCHANGED <<state, cur, hasData, addr, toggle, capt, tx, cfg, sent, swVars,
                 pkt, await, ackDue, hLast, reported, link>>

SetupRefused ==
  /\ setup # NoEp /\ setup' = NoEp
  /\ UNCHANGED <<state, cur, hasData, addr, toggle, capt, tx, regVars, swVars, hostVars,
                 histVars, link>>

\* A bus reset: every packet is cancelled, the toggles are cleared, and so is
\* the host's view of the device.
LinkReset ==
  /\ link' = "reset"
  /\ link # "reset"
  /\ Cancel(Endpoints)
  /\ Goto("Idle")
  /\ toggle' = AllZero
  /\ tx' = NoTx /\ setup' = NoEp
  /\ pkt' = NoPkt /\ await' = NoEp /\ ackDue' = FALSE /\ hTog' = AllZero /\ hSetup' = NoEp
  /\ UNCHANGED <<cur, hasData, capt, cfg, sent, stall, swVars, hLast, reported>>

\* The link is no longer active, after 3ms of silence.
Suspend ==
  /\ link = "active" /\ tx = NoTx /\ pkt = NoPkt /\ await = NoEp /\ setup = NoEp
  /\ state \in {"Idle", "WaitAck"} /\ ~ackDue
  /\ link' = "suspended"
  /\ Goto("Idle")
  /\ UNCHANGED <<cur, hasData, toggle, capt, tx, setup, regVars, swVars, hostVars, histVars>>

LinkActive ==
  /\ link # "active"
  /\ link' = "active"
  /\ UNCHANGED <<fsmVars, regVars, swVars, hostVars, histVars>>

-----------------------------------------------------------------------------
(* The host and the bus.                                                   *)

\* The end of a transmission by the device, and what the host makes of it:
\* it accepts data with the toggle it expects, acknowledges a repetition, and
\* hears nothing if the packet was damaged.
HostAccepts ==
  /\ tx.kind = "data"
  /\ IsoEp(tx.ep) \/ tx.tog = hTog[tx.ep]
  /\ hLast' = IF tx.k # 0 THEN [hLast EXCEPT ![tx.ep] = tx.k] ELSE hLast
  /\ hTog' = IF IsoEp(tx.ep) THEN hTog ELSE [hTog EXCEPT ![tx.ep] = 1 - @]
  /\ ackDue' = ~IsoEp(tx.ep)

HostRepeats ==
  /\ tx.kind = "data" /\ ~IsoEp(tx.ep) /\ tx.tog # hTog[tx.ep]
  /\ ackDue' = TRUE
  /\ UNCHANGED <<hTog, hLast>>

HostHearsNone == (tx.kind # "data" \/ Lossy) /\ UNCHANGED <<hTog, hLast, ackDue>>

TxEnd ==
  /\ tx # NoTx
  /\ tx.kind = "data" => tx.done
  /\ tx' = NoTx
  /\ IF state = "WaitTxEnd" THEN Goto("WaitAckStart") ELSE UNCHANGED <<state, addr>>
  /\ HostAccepts \/ HostRepeats \/ HostHearsNone
  /\ await' = NoEp
  /\ UNCHANGED <<cur, hasData, toggle, capt, setup, regVars, swVars, pkt, hSetup, histVars, link>>

\* rx_pkt_start_i: a packet of the host begins.
Begin(p) ==
  /\ pkt' = p
  /\ Goto(IF state = "WaitAckStart" THEN "WaitAck" ELSE state)
  /\ UNCHANGED <<cur, hasData, toggle, capt, tx, setup, regVars, swVars, hTog, hLast, histVars, link>>

HostAck ==
  /\ ackDue /\ pkt = NoPkt /\ tx = NoTx
  /\ ackDue' = FALSE
  /\ Begin([kind |-> "ACK"])
  /\ UNCHANGED <<await, hSetup>>

\* Between transactions.  A host that has seen no packet for 16 bit times may go
\* on with another one, which begins before the device's response time is over.
HostFree ==
  /\ link = "active" /\ pkt = NoPkt /\ tx = NoTx /\ await = NoEp /\ setup = NoEp /\ ~ackDue
  /\ state \in {"Idle", "WaitAckStart"}

HostPoll(e) ==
  /\ HostFree /\ hSetup # e
  /\ state = "Idle" \/ EarlyToken
  /\ await' = e
  /\ Begin([kind |-> "IN", ep |-> e])
  /\ UNCHANGED <<ackDue, hSetup>>

\* A SETUP is repeated until it is acknowledged.
HostSendsSetup(e) ==
  /\ HostFree
  /\ e \in Control /\ hSetup \in {e, NoEp}
  /\ hSetup' = e
  /\ Begin([kind |-> "SETUP", ep |-> e])
  /\ UNCHANGED <<await, ackDue>>

\* SOF, a token of another device, or an OUT token.
HostSendsOther ==
  /\ HostFree
  /\ Begin([kind |-> "OTHER"])
  /\ UNCHANGED <<await, ackDue, hSetup>>

\* The device has not responded.
HostTimeout ==
  /\ await # NoEp /\ pkt = NoPkt /\ tx = NoTx /\ state = "Idle"
  /\ await' = NoEp
  /\ UNCHANGED <<fsmVars, regVars, swVars, pkt, ackDue, hTog, hLast, hSetup, histVars, link>>

-----------------------------------------------------------------------------
(* Software: one register access each.                                     *)

Unused(b) == \A e \in Endpoints : armed[e] # b

\* The next packet is written to an unused buffer and handed to endpoint e.
SwArm(e, b) ==
  /\ next <= MaxPackets
  /\ armed[e] = NoBuf /\ Unused(b) /\ ~pend[e] /\ ~sent[e]
  /\ memory' = [memory EXCEPT ![b] = next]
  /\ next' = next + 1
  /\ cfg' = [cfg EXCEPT ![e] = [buf |-> b, size |-> Size[next]]]
  /\ rdy' = [rdy EXCEPT ![e] = TRUE]
  /\ armed' = [armed EXCEPT ![e] = b]
  /\ UNCHANGED <<fsmVars, sending, pend, sent, stall, retract, hostVars, reported, cancelled, link>>

Reclaim(e) ==
  /\ armed' = [armed EXCEPT ![e] = NoBuf]
  /\ retract' = [retract EXCEPT ![e] = FALSE]
  /\ UNCHANGED <<memory, next>>

\* in_sent is read and cleared.
SwSent(e) ==
  /\ sent[e]
  /\ sent' = [sent EXCEPT ![e] = FALSE]
  /\ Reclaim(e)
  /\ UNCHANGED <<fsmVars, cfg, rdy, sending, pend, stall, hostVars, histVars, link>>

\* configin.pend is read and cleared.
SwCancelled(e) ==
  /\ pend[e]
  /\ pend' = [pend EXCEPT ![e] = FALSE]
  /\ Reclaim(e)
  /\ UNCHANGED <<fsmVars, cfg, rdy, sending, sent, stall, hostVars, histVars, link>>

\* Retraction: rdy is cleared; the packet is withdrawn if it then shows as neither
\* being sent nor sent.
SwRetract(e) ==
  /\ Retracting /\ rdy[e]
  /\ rdy' = [rdy EXCEPT ![e] = FALSE]
  /\ retract' = [retract EXCEPT ![e] = TRUE]
  /\ UNCHANGED <<fsmVars, cfg, sending, pend, sent, stall, memory, next, armed, hostVars,
                 histVars, link>>

SwRetracted(e) ==
  /\ retract[e] /\ ~sending[e] /\ ~sent[e]
  /\ Reclaim(e)
  /\ UNCHANGED <<fsmVars, regVars, hostVars, histVars, link>>

SwWriteStall(e, v) ==
  /\ e \in Stalled /\ stall[e] # v
  /\ stall' = [stall EXCEPT ![e] = v]
  /\ UNCHANGED <<fsmVars, cfg, rdy, sending, pend, sent, swVars, hostVars, histVars, link>>

-----------------------------------------------------------------------------
Device == RxEnd \/ Respond \/ TxByte \/ NoMoreData \/ AckTimeout \/ TxEnd
          \/ SetupAccepted \/ SetupRefused \/ LinkReset \/ Suspend \/ LinkActive

HostSteps == \/ HostAck \/ HostSendsOther \/ HostTimeout
             \/ \E e \in Endpoints : HostPoll(e) \/ HostSendsSetup(e)

Software == \E e \in Endpoints :
  \/ \E b \in Buffers : SwArm(e, b)
  \/ SwSent(e) \/ SwCancelled(e) \/ SwRetract(e) \/ SwRetracted(e)
  \/ \E v \in BOOLEAN : SwWriteStall(e, v)

Next == Device \/ HostSteps \/ Software

Spec == Init /\ [][Next]_vars

\* The host polls every endpoint again and again and repeats what was lost; not
\* every repetition is lost; software handles what is reported and does not keep
\* an endpoint stalled.
Fairness ==
  /\ WF_vars(RxEnd) /\ WF_vars(Respond) /\ WF_vars(TxByte \/ NoMoreData) /\ WF_vars(TxEnd)
  /\ WF_vars(AckTimeout) /\ WF_vars(HostAck) /\ WF_vars(HostTimeout)
  /\ WF_vars(SetupAccepted \/ SetupRefused) /\ WF_vars(LinkActive)
  /\ SF_vars(HostAck /\ state = "WaitAckStart")
  /\ SF_vars(RxEnd /\ pkt.kind = "ACK" /\ state = "WaitAck" /\ AckReceived)
  /\ \A e \in Endpoints :
       /\ SF_vars(HostPoll(e)) /\ SF_vars(HostSendsSetup(e) /\ hSetup = e)
       /\ SF_vars(RxEnd /\ pkt = [kind |-> "SETUP", ep |-> e] /\ setup' = e)
       /\ SF_vars(SetupAccepted /\ setup = e /\ hSetup' = NoEp)
       /\ SF_vars(RxEnd /\ pkt = [kind |-> "IN", ep |-> e] /\ state' = "RcvdIn")
       /\ SF_vars(Respond /\ cur = e /\ state' = "SendData")
       /\ SF_vars(TxEnd /\ tx.kind = "data" /\ tx.ep = e /\ ackDue')
       /\ WF_vars(SwSent(e)) /\ WF_vars(SwCancelled(e))

FairSpec == Spec /\ Fairness

-----------------------------------------------------------------------------
(* What the transmission path promises.                                    *)

\* A packet on the bus is the packet that was armed: all of its bytes, and none
\* of another, whatever software does to configin or its buffers meanwhile.
PacketWhole ==
  tx.kind = "data" /\ tx.done /\ tx.k # 0 => tx.bytes \subseteq {tx.k} /\ tx.n = Size[tx.k]

\* A packet that is being collected shows as such in configin.sending, so that
\* software cannot take it for one that was retracted in time.
InFlightMarked == state # "Idle" /\ hasData => sending[cur] /\ memory[capt.buf] # 0 /\ capt.buf = armed[cur]

\* An endpoint with handshakes is a channel: whatever is lost, cancelled, retracted or
\* stalled, the host takes each packet at most once and in order, and only a packet the
\* host has taken is reported as sent.
Reliable == {e \in Endpoints : ~IsoEp(e)}
Offered == [e \in Reliable |-> IF armed[e] = NoBuf THEN 0 ELSE memory[armed[e]]]

Channel == INSTANCE UsbChannel WITH
  Endpoints <- Reliable, newest <- next - 1, offered <- Offered,
  taken <- [e \in Reliable |-> hLast[e]], reported <- [e \in Reliable |-> reported[e]]

IsChannel == Channel!Spec

\* Device and host disagree about a data toggle only while the host has accepted
\* a packet that is still armed, its handshake being lost or on its way (or, on a
\* control endpoint, while a SETUP is under way).
ToggleInSync ==
  \A e \in Enabled : ~IsoEp(e) /\ toggle[e] # hTog[e] =>
    \/ armed[e] # NoBuf /\ hLast[e] = memory[armed[e]] /\ sending[e] /\ ~sent[e]
    \/ hSetup = e

\* A packet cancelled by a SETUP packet or a bus reset is not sent any more.
NoneStale == tx.kind = "data" /\ tx.k # 0 => tx.k > cancelled[tx.ep]

\* Unless retracted, every packet is collected or cancelled in the end, whatever is
\* lost on the way.
AllCollected == \A e \in Enabled : armed[e] # NoBuf ~> armed[e] = NoBuf

=============================================================================
