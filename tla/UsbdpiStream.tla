---------------------------- MODULE UsbdpiStream ----------------------------
(***************************************************************************)
(* The streaming test of the DPI host (usbdpi_stream.c) and the pool of    *)
(* transfer descriptors it draws on (usb_transfer.c), with the parts of    *)
(* usbdpi.c that call them: the frame timer, the dispatch in ST_IDLE and   *)
(* the reception of packets from the device.                               *)
(*                                                                         *)
(* For each stream the host polls the device for IN packets, collects them *)
(* in a list, scrambles the oldest with an LFSR and sends it back OUT.     *)
(*                                                                         *)
(* A packet is its position in the stream: 0 is the signature that opens a *)
(* stream.  An LFSR is the number of packets it has been advanced over.    *)
(* usbdpi_bus_state_t repeats its states per transfer type; a stream only  *)
(* sets and compares those of its own type, so they are merged here.       *)
(*                                                                         *)
(* A step is one call of streams_service that changes something, the end   *)
(* of a transmission by the host, one packet from the device, a frame      *)
(* boundary, or the loss of the pull-up.  The device is the environment.   *)
(***************************************************************************)
EXTENDS Naturals, Sequences, FiniteSets

CONSTANTS
  NStreams,      \* ctx->nstreams
  Modes,         \* the kinds of test to consider, see LegalModes
  Transfers,     \* transfer_pool
  NoTr,          \* a NULL descriptor
  MaxRetries,    \* greatest value of nretries
  MaxTries,      \* USBDPI_MAX_TRIES
  MaxSkips       \* bound: packets by which an LFSR gets ahead of its stream

Streams == 0..(NStreams - 1)

\* The test configuration read from the device, whether the device may leave a packet
\* unanswered or stall; and two bounds: the packets of each stream and how often the
\* device restarts.  stream_data_gen has no support for "iso".
LegalModes ==
  {m \in [type : [Streams -> {"bulk", "int", "iso"}], retrieve : BOOLEAN, send : BOOLEAN,
           retrying : BOOLEAN, faulty : BOOLEAN, packets : Nat, restarts : Nat] :
     m.retrieve \/ \A s \in Streams : m.type[s] # "iso"}

ASSUME StreamAssumption ==
  /\ NStreams \in Nat \ {0}
  /\ Modes \subseteq LegalModes
  /\ NoTr \notin Transfers
  /\ MaxRetries \in Nat /\ MaxTries \in Nat
  /\ MaxSkips \in Nat

VARIABLES
  mode,      \* the kind of test
  step,      \* "enum" until the test configuration was read, then "stream"
  hostSt,    \* ctx->hostSt
  bus,       \* ctx->bus_state
  lastPid,   \* ctx->lastrxpid, once a response was awaited
  numTries,  \* ctx->num_tries
  streamIn, streamOut,
  free,      \* ctx->free
  sending, recving,
  packet,    \* the packet in ctx->recving
  received,  \* s->received of each stream, oldest first: descriptor and packet
  nextIn, nextOut,  \* next_data of the endpoints of each stream
  sigExp, tst, dpi, dpiRewind, nretries,
  failed,    \* the assertion that ended the simulation
  tx,        \* what the host is transmitting (ctx->state is not ST_IDLE)
  dev,       \* what the device owes the host
  devIn, devInTog, devOutTog,  \* the device's side of each stream
  got,       \* history: what the device accepted of each stream
  reconnects

poolVars   == <<free, sending, recving, packet, received>>
streamVars == <<nextIn, nextOut, sigExp, tst, dpi, dpiRewind, nretries>>
devVars    == <<dev, devIn, devInTog, devOutTog, got>>
ctlVars    == <<step, numTries, failed, reconnects>>
hostVars   == <<hostSt, bus, lastPid, streamIn, streamOut, tx>>
state      == <<ctlVars, hostVars, poolVars, streamVars, devVars>>
vars       == <<mode, state>>

Type     == mode.type      \* xfr_type of each stream
Retrieve == mode.retrieve  \* poll for IN packets?
Send     == mode.send      \* send OUT packets?
Retrying == mode.retrying  \* feign errors on IN packets?
Faulty   == mode.faulty    \* may the device leave a packet unanswered, or stall?
MaxPackets == mode.packets \* bound: packets of each stream

HostStates == {"STARTFRAME", "STREAMOUT", "WAITACK", "STREAMIN", "WAIT_PKT", "ACKIFDATA",
               "NEXTFRAME", "ERROR"}
Pids == {"none", "DATA0", "DATA1", "ACK", "NAK", "STALL"}
DataPid == [b \in {0, 1} |-> IF b = 0 THEN "DATA0" ELSE "DATA1"]
Zlp == MaxPackets + 1    \* a zero length packet
NoTx == [kind |-> "none"]
TxPackets == {NoTx, [kind |-> "sof"]} \cup [kind : {"in", "ack", "nak"}, s : Streams]
             \cup [kind : {"out"}, s : Streams, tog : {0, 1}, k : Nat, x : Nat]

Entry == [tr : Transfers, k : Nat]

Iso(s) == Type[s] = "iso"
AllZero == [s \in Streams |-> 0]

AdvanceWide(b) == b + 1
\* DATA_TOGGLE_ADVANCE
Advance(b) == 1 - b

NextStreamStuck(id) == IF id + 1 >= NStreams THEN id ELSE id + 1
NextStream(id) == IF id + 1 >= NStreams THEN 0 ELSE id + 1

-----------------------------------------------------------------------------
(* The descriptor pool.                                                    *)

Some(t) == {t} \ {NoTr}
Listed(s) == {received[s][i].tr : i \in 1..Len(received[s])}
Owned == free \cup Some(sending) \cup Some(recving) \cup UNION {Listed(s) : s \in Streams}

\* host_to_device makes sure of a descriptor in ctx->sending before it calls the
\* handler of the current step.
Held(t) == IF sending # NoTr THEN t = sending ELSE t \in free
KeepHeld == \E t \in Transfers : Held(t) /\ sending' = t /\ free' = free \ {t}

\* transfer_release of ctx->sending, which Held() has just provided.
CanHold == sending # NoTr \/ free # {}
UnsentLost == free
Unsent == free \cup Some(sending)

CtlTypeOK ==
  /\ step \in {"enum", "stream"}
  /\ numTries \in Nat /\ reconnects \in Nat
  /\ failed \in {"no", "pool", "error", "tries"}

HostTypeOK ==
  /\ hostSt \in HostStates
  /\ bus \in {"Idle", "Out", "OutAck", "InToken", "InData"}
  /\ lastPid \in Pids
  /\ streamIn \in Streams /\ streamOut \in Streams
  /\ tx \in TxPackets

PoolTypeOK ==
  /\ free \subseteq Transfers
  /\ sending \in Transfers \cup {NoTr} /\ recving \in Transfers \cup {NoTr}
  /\ packet \in Nat
  /\ received \in [Streams -> Seq(Entry)]

StreamTypeOK ==
  /\ nextIn \in [Streams -> {0, 1}] /\ nextOut \in [Streams -> {0, 1}]
  /\ sigExp \in [Streams -> BOOLEAN]
  /\ tst \in [Streams -> Nat] /\ dpi \in [Streams -> Nat] /\ dpiRewind \in [Streams -> Nat]
  /\ nretries \in [Streams -> Nat]

DevTypeOK ==
  /\ dev \in {"quiet", "in", "ACK", "NAK", "STALL"}
  /\ devIn \in [Streams -> Nat]
  /\ devInTog \in [Streams -> {0, 1}] /\ devOutTog \in [Streams -> {0, 1}]
  /\ got \in [Streams -> Seq(Nat \X Nat)]

TypeOK == mode \in Modes /\ CtlTypeOK /\ HostTypeOK /\ PoolTypeOK /\ StreamTypeOK /\ DevTypeOK

Init ==
  /\ mode \in Modes
  /\ step = "enum" /\ hostSt = "NEXTFRAME" /\ bus = "Idle" /\ lastPid = "none"
  /\ numTries = 0 /\ reconnects = 0 /\ failed = "no"
  /\ streamIn = 0 /\ streamOut = 0
  /\ free = Transfers /\ sending = NoTr /\ recving = NoTr
  /\ received = [s \in Streams |-> <<>>]
  /\ packet = 0
  /\ nextIn = AllZero /\ nextOut = AllZero
  /\ sigExp = [s \in Streams |-> FALSE]
  /\ tst = AllZero /\ dpi = AllZero /\ dpiRewind = AllZero /\ nretries = AllZero
  /\ tx = NoTx /\ dev = "quiet"
  /\ devIn = AllZero /\ devInTog = AllZero /\ devOutTog = AllZero
  /\ got = [s \in Streams |-> <<>>]

-----------------------------------------------------------------------------
(* Enumeration and disconnection.                                          *)

Running == failed = "no"
Idle == Running /\ step = "stream" /\ tx = NoTx

\* The enumeration sequence (not modelled here) needs one descriptor to send and
\* one to receive, and keeps them.  It ends with the test configuration, for
\* which streams_init forgets whatever had been received.
Configure ==
  /\ Running /\ step = "enum"
  /\ \E ts, tr \in Transfers :
       /\ IF sending # NoTr THEN ts = sending ELSE ts \in free
       /\ IF recving # NoTr THEN tr = recving ELSE tr \in free \ {ts}
       /\ sending' = ts /\ recving' = tr
       /\ free' = free \ {ts, tr}
  /\ step' = "stream"
  /\ hostSt' = "NEXTFRAME" /\ bus' = "Idle" /\ lastPid' = "none" /\ numTries' = 0
  /\ streamIn' = 0 /\ streamOut' = NStreams - 1
  /\ received' = [s \in Streams |-> <<>>]
  /\ sigExp' = [s \in Streams |-> TRUE]
  /\ tst' = AllZero /\ dpi' = AllZero /\ dpiRewind' = AllZero /\ nretries' = AllZero
  /\ UNCHANGED <<failed, reconnects, tx, packet, nextIn, nextOut, devVars>>

\* The device drops its pull-up and restarts: bus_reset.  The descriptors stay
\* where they are.
Disconnect ==
  /\ Running /\ step = "stream"
  /\ reconnects < mode.restarts
  /\ reconnects' = reconnects + 1
  /\ step' = "enum" /\ hostSt' = "NEXTFRAME" /\ bus' = "Idle" /\ tx' = NoTx
  /\ nextIn' = AllZero /\ nextOut' = AllZero
  /\ dev' = "quiet" /\ devIn' = AllZero /\ devInTog' = AllZero /\ devOutTog' = AllZero
  /\ got' = [s \in Streams |-> <<>>]
  /\ UNCHANGED <<lastPid, numTries, failed, streamIn, streamOut, poolVars,
                 sigExp, tst, dpi, dpiRewind, nretries>>

\* No descriptor is left where one is needed: an assertion fails.
Exhausted ==
  /\ Running
  /\ \/ Idle /\ ~CanHold
     \/ Idle /\ dev # "quiet" /\ recving = NoTr /\ free = {}
     \/ step = "enum" /\ Cardinality(Unsent \cup Some(recving)) < 2
  /\ failed' = "pool"
  /\ UNCHANGED <<step, numTries, reconnects, hostVars, poolVars, streamVars, devVars>>

-----------------------------------------------------------------------------
(* The frame timer (usbdpi_host_to_device).                                *)

\* A frame starts: SOF is sent with the descriptor in ctx->sending.
StartOfFrame ==
  /\ KeepHeld
  /\ tx' = [kind |-> "sof"]
  /\ hostSt' = "STARTFRAME"
  /\ UNCHANGED <<step, failed, reconnects, bus, lastPid, streamIn, streamOut,
                 recving, packet, received, streamVars, devVars>>

NextFrame ==
  /\ Idle /\ hostSt = "NEXTFRAME"
  /\ numTries' = 0
  /\ StartOfFrame

\* The timeout of a full-sized OUT packet is longer than the 800 bit times that
\* were left when it was sent, so the frame may end first.
FrameEndsEarly ==
  /\ Idle /\ hostSt = "WAITACK" /\ bus = "Out" /\ dev = "quiet"
  /\ ~Iso(streamOut) /\ dpi[streamOut] <= MaxPackets + MaxSkips
  /\ IF numTries + 1 >= MaxTries
     THEN /\ failed' = "tries" /\ numTries' = 0
          /\ UNCHANGED <<step, reconnects, hostVars, poolVars, streamVars, devVars>>
     ELSE numTries' = numTries + 1 /\ StartOfFrame

\* Less than 800 bit times are left.  Only at the start of a frame is there
\* always more.
TooLate ==
  /\ Idle /\ hostSt \in {"STREAMOUT", "STREAMIN"}
  /\ KeepHeld
  /\ hostSt' = "NEXTFRAME"
  /\ UNCHANGED <<ctlVars, bus, lastPid, streamIn, streamOut, tx, recving, packet, received,
                 streamVars, devVars>>

-----------------------------------------------------------------------------
(* OUT: send the oldest received packet, scrambled.                        *)

\* The descriptor of the last transmission is released before the reply is
\* constructed; on failure the LFSR can go back to where the packet began.
SendReply(s) ==
  /\ Send /\ received[s] # <<>>
  /\ CanHold
  /\ \E t \in Unsent :
       /\ sending' = t
       /\ free' = Unsent \ {t}
  /\ tx' = [kind |-> "out", s |-> s, tog |-> nextOut[s],
            k |-> Head(received[s]).k, x |-> dpi[s]]
  /\ dpiRewind' = [dpiRewind EXCEPT ![s] = dpi[s]]
  /\ dpi' = [dpi EXCEPT ![s] = @ + 1]
  /\ bus' = "Out" /\ lastPid' = "none"
  /\ hostSt' = "WAITACK"
  /\ UNCHANGED received

NothingToSend(s) ==
  /\ Send /\ received[s] = <<>>
  /\ KeepHeld
  /\ hostSt' = "STREAMIN"
  /\ UNCHANGED <<tx, dpi, dpiRewind, bus, lastPid, received>>

Discard(s) ==
  /\ ~Send
  /\ \E t \in Transfers : Held(t) /\ sending' = t /\ free' = (free \ {t}) \cup Listed(s)
  /\ received' = [received EXCEPT ![s] = <<>>]
  /\ hostSt' = "STREAMIN"
  /\ UNCHANGED <<tx, dpi, dpiRewind, bus, lastPid>>

StreamOut ==
  /\ Idle /\ hostSt \in {"STARTFRAME", "STREAMOUT"}
  /\ LET s == NextStream(streamOut)
     IN  /\ streamOut' = s
         /\ SendReply(s) \/ NothingToSend(s) \/ Discard(s)
  /\ UNCHANGED <<ctlVars, streamIn, recving, packet, nextIn, nextOut, sigExp, tst, nretries, devVars>>

RetiredNot(list) == list
RetiredNewest(list) == SubSeq(list, 1, Len(list) - 1)
Retired(list) == Tail(list)

\* The packet was accepted: its source leaves the list.
AckedOut(s) ==
  /\ (bus = "OutAck" /\ lastPid = "ACK") \/ Iso(s)
  /\ received' = [received EXCEPT ![s] = Retired(@)]
  /\ free' = Unsent \cup {Head(received[s]).tr}
  /\ nextOut' = IF Iso(s) THEN nextOut ELSE [nextOut EXCEPT ![s] = Advance(@)]
  /\ hostSt' = "STREAMIN"
  /\ UNCHANGED dpi

RewindNever(s) == dpi
Rewind(s) == [dpi EXCEPT ![s] = dpiRewind[s]]

NakedOut(s) ==
  /\ ~Iso(s) /\ bus = "OutAck" /\ lastPid = "NAK"
  /\ dpi' = Rewind(s)
  /\ free' = Unsent
  /\ hostSt' = "STREAMIN"
  /\ UNCHANGED <<received, nextOut>>

\* Another response, or none: the timeout leaves the device time to answer.
TimedOutEarly(b) == bus = b
TimedOut(b) == bus = b /\ dev = "quiet"

FailedOut(s) ==
  /\ ~Iso(s)
  /\ (bus = "OutAck" /\ lastPid \notin {"ACK", "NAK"}) \/ TimedOut("Out")
  /\ free' = Unsent
  /\ hostSt' = "ERROR"
  /\ UNCHANGED <<received, nextOut, dpi>>

\* Still waiting: the descriptor just sent is released at once.
AwaitOut(s) ==
  /\ ~Iso(s) /\ bus = "Out" /\ sending # NoTr
  /\ free' = Unsent
  /\ UNCHANGED <<received, nextOut, dpi, hostSt>>

WaitAck ==
  /\ Idle /\ hostSt = "WAITACK" /\ CanHold
  /\ sending' = NoTr
  /\ AckedOut(streamOut) \/ NakedOut(streamOut) \/ FailedOut(streamOut) \/ AwaitOut(streamOut)
  /\ UNCHANGED <<ctlVars, bus, lastPid, streamIn, streamOut, tx, recving, packet,
                 nextIn, sigExp, tst, dpiRewind, nretries, devVars>>

-----------------------------------------------------------------------------
(* IN: collect a packet from the device.                                   *)

Poll(s) ==
  /\ Retrieve
  /\ KeepHeld
  /\ tx' = [kind |-> "in", s |-> s]
  /\ bus' = "InToken" /\ lastPid' = "none"
  /\ hostSt' = "WAIT_PKT"
  /\ UNCHANGED <<received, nextIn, tst>>

\* Not polling: make up the packet the device would have sent, as soon as the
\* previous one was returned (a stream ends after MaxPackets).
Invent(s) ==
  /\ ~Retrieve
  /\ hostSt' = "STREAMOUT"
  /\ \E t \in Transfers :
       /\ Held(t) /\ sending' = t
       /\ IF Send /\ received[s] = <<>> /\ tst[s] < MaxPackets /\ free \ {t} # {}
          THEN \E r \in free \ {t} :
                 /\ received' = [received EXCEPT ![s] = <<[tr |-> r, k |-> tst[s]]>>]
                 /\ free' = free \ {t, r}
                 /\ tst' = [tst EXCEPT ![s] = @ + 1]
                 /\ nextIn' = [nextIn EXCEPT ![s] = Advance(@)]
          ELSE free' = free \ {t} /\ UNCHANGED <<received, tst, nextIn>>
  /\ UNCHANGED <<tx, bus, lastPid>>

StreamIn ==
  /\ Idle /\ hostSt = "STREAMIN"
  /\ LET s == NextStream(streamIn)
     IN  streamIn' = s /\ (Poll(s) \/ Invent(s))
  /\ UNCHANGED <<ctlVars, streamOut, recving, packet, nextOut, sigExp, dpi, dpiRewind, nretries, devVars>>

WaitPkt ==
  /\ Idle /\ hostSt = "WAIT_PKT"
  /\ hostSt' = "ACKIFDATA"
  /\ UNCHANGED <<ctlVars, bus, lastPid, streamIn, streamOut, tx, poolVars, streamVars, devVars>>

GotReply == bus = "InData" /\ recving # NoTr

InToggle(s) == lastPid = DataPid[nextIn[s]]

\* An error is feigned for the chosen number of times.
Feigned(s) == Retrying /\ nretries[s] > 0

Feign(s, r) ==
  /\ Feigned(s)
  /\ nretries' = [nretries EXCEPT ![s] = @ - 1]
  /\ free' = free \cup {r}
  /\ UNCHANGED <<received, nextIn, tst, sigExp>>

\* The number of times the next packet will be refused.
NewRetries(s) == \E n \in IF Retrying THEN 0..MaxRetries ELSE {0} :
                   nretries' = [nretries EXCEPT ![s] = n]

\* A stream opens with its signature, which is not kept.
TakeSignature(s, r) ==
  /\ ~Feigned(s) /\ NewRetries(s)
  /\ sigExp[s] /\ packet = 0
  /\ nextIn' = [nextIn EXCEPT ![s] = Advance(IF lastPid = "DATA1" THEN 1 ELSE 0)]
  /\ tst' = [tst EXCEPT ![s] = 1]
  /\ sigExp' = [sigExp EXCEPT ![s] = FALSE]
  /\ free' = free \cup {r}
  /\ UNCHANGED received

\* Data is taken if it has the expected toggle and is what the LFSR predicts.
TakeData(s, r) ==
  /\ ~Feigned(s) /\ NewRetries(s)
  /\ ~sigExp[s] /\ InToggle(s) /\ packet = tst[s]
  /\ nextIn' = [nextIn EXCEPT ![s] = Advance(@)]
  /\ tst' = [tst EXCEPT ![s] = @ + 1]
  /\ received' = [received EXCEPT ![s] = Append(@, [tr |-> r, k |-> packet])]
  /\ UNCHANGED <<sigExp, free>>

\* Anything else is refused.  The toggle advances even if only the data mismatched.
Refuse(s, r) ==
  /\ ~Feigned(s) /\ NewRetries(s)
  /\ IF sigExp[s] THEN packet # 0 ELSE ~(InToggle(s) /\ packet = tst[s])
  /\ nextIn' = IF ~sigExp[s] /\ InToggle(s) THEN [nextIn EXCEPT ![s] = Advance(@)] ELSE nextIn
  /\ free' = free \cup {r}
  /\ UNCHANGED <<sigExp, tst, received>>

\* Every isochronous packet carries a signature; packets may be missing.
TakeIso(s, r) ==
  /\ packet # Zlp /\ packet >= tst[s]
  /\ nextIn' = [nextIn EXCEPT ![s] = Advance(0)]
  /\ tst' = [tst EXCEPT ![s] = packet + 1]
  /\ received' = [received EXCEPT ![s] = Append(@, [tr |-> r, k |-> packet])]
  /\ UNCHANGED <<sigExp, nretries, free>>

RefuseIso(s, r) ==
  /\ packet = Zlp \/ packet < tst[s]
  /\ free' = free \cup {r}
  /\ UNCHANGED <<sigExp, nretries, nextIn, tst, received>>

\* A data packet: the stream steals ctx->recving and the host answers.
CollectData(s) ==
  /\ GotReply /\ lastPid \in {"DATA0", "DATA1"}
  /\ recving' = NoTr
  /\ LET r == recving
     IN  \/ /\ ~Iso(s)
            /\ \/ (TakeSignature(s, r) \/ TakeData(s, r)) /\ tx' = [kind |-> "ack", s |-> s]
               \/ (Feign(s, r) \/ Refuse(s, r)) /\ tx' = [kind |-> "nak", s |-> s]
         \/ Iso(s) /\ (TakeIso(s, r) \/ RefuseIso(s, r)) /\ UNCHANGED tx
  /\ hostSt' = "STREAMOUT"

\* A handshake keeps its descriptor in ctx->recving.
CollectHandshake(s) ==
  /\ GotReply /\ lastPid \notin {"DATA0", "DATA1"}
  /\ hostSt' = IF lastPid # "NAK" THEN "NEXTFRAME" ELSE IF Iso(s) THEN "ERROR" ELSE "STREAMOUT"
  /\ UNCHANGED <<tx, recving, free, received, nextIn, tst, sigExp, nretries>>

InTimeout ==
  /\ TimedOut("InToken")
  /\ hostSt' = "ERROR"
  /\ UNCHANGED <<tx, recving, free, received, nextIn, tst, sigExp, nretries>>

AckIfData ==
  /\ Idle /\ hostSt = "ACKIFDATA"
  /\ CollectData(streamIn) \/ CollectHandshake(streamIn) \/ InTimeout
  /\ UNCHANGED <<ctlVars, bus, lastPid, streamIn, streamOut, sending, packet,
                 nextOut, dpi, dpiRewind, devVars>>

\* HS_ERROR is an assertion.
Error ==
  /\ Idle /\ hostSt = "ERROR"
  /\ failed' = "error"
  /\ UNCHANGED <<step, numTries, reconnects, hostVars, poolVars, streamVars, devVars>>

-----------------------------------------------------------------------------
(* The bus and the device.                                                 *)

\* A handshake or SOF ends.  ACK retires the packet the device had sent.
HandshakeSent ==
  /\ tx.kind \in {"sof", "ack", "nak"}
  /\ IF tx.kind = "ack"
     THEN /\ devIn' = [devIn EXCEPT ![tx.s] = @ + 1]
          /\ devInTog' = [devInTog EXCEPT ![tx.s] = 1 - @]
     ELSE UNCHANGED <<devIn, devInTog>>
  /\ UNCHANGED <<dev, devOutTog, got>>

\* An IN token ends.
TokenSent ==
  /\ tx.kind = "in"
  /\ dev' \in {"in"} \cup (IF Faulty THEN {"quiet", "STALL"} ELSE {})
  /\ UNCHANGED <<devIn, devInTog, devOutTog, got>>

\* An OUT packet ends.  The device takes it, acknowledges it as a duplicate,
\* refuses it, or misbehaves.
OutTaken ==
  /\ tx.kind = "out"
  /\ dev' = IF Iso(tx.s) THEN "quiet" ELSE "ACK"
  /\ IF Iso(tx.s) \/ tx.tog = devOutTog[tx.s]
     THEN got' = [got EXCEPT ![tx.s] = Append(@, <<tx.k, tx.x>>)]
     ELSE UNCHANGED got
  /\ devOutTog' = IF Iso(tx.s) \/ tx.tog # devOutTog[tx.s] THEN devOutTog
                  ELSE [devOutTog EXCEPT ![tx.s] = 1 - @]
  /\ UNCHANGED <<devIn, devInTog>>

OutRefused ==
  /\ tx.kind = "out"
  /\ dev' \in IF Iso(tx.s) THEN {"quiet"}
              ELSE {"NAK"} \cup (IF Faulty THEN {"quiet", "STALL"} ELSE {})
  /\ UNCHANGED <<devIn, devInTog, devOutTog, got>>

TxEnd ==
  /\ Running /\ step = "stream"
  /\ HandshakeSent \/ TokenSent \/ OutTaken \/ OutRefused
  /\ tx' = NoTx
  /\ UNCHANGED <<ctlVars, hostSt, bus, lastPid, streamIn, streamOut, poolVars, streamVars>>

\* Any byte from the device goes to ctx->recving; the end of its packet advances
\* ctx->bus_state.
Reply(pid, k) ==
  /\ Idle
  /\ \E r \in Transfers :
       /\ IF recving # NoTr THEN r = recving ELSE r \in free
       /\ recving' = r
       /\ free' = free \ {r}
  /\ packet' = k
  /\ lastPid' = pid
  /\ bus' = IF bus = "InToken" THEN "InData" ELSE IF bus = "Out" THEN "OutAck" ELSE bus
  /\ dev' = "quiet"
  /\ UNCHANGED <<ctlVars, hostSt, streamIn, streamOut, tx, sending, received, streamVars,
                 devInTog, devOutTog, got>>

ReplyHandshake ==
  /\ dev \in {"ACK", "NAK", "STALL"}
  /\ Reply(dev, 0)
  /\ UNCHANGED devIn

ReplyData ==
  /\ dev = "in"
  /\ devIn[streamIn] < MaxPackets
  /\ Reply(DataPid[devInTog[streamIn]], devIn[streamIn])
  /\ devIn' = IF Iso(streamIn) THEN [devIn EXCEPT ![streamIn] = @ + 1] ELSE devIn

ReplyEmpty ==
  /\ dev = "in"
  /\ IF Iso(streamIn) THEN Reply("DATA0", Zlp) ELSE Reply("NAK", 0)
  /\ UNCHANGED devIn

-----------------------------------------------------------------------------
Host == \/ Configure \/ NextFrame \/ FrameEndsEarly \/ TooLate \/ StreamOut \/ WaitAck
        \/ StreamIn \/ WaitPkt \/ AckIfData \/ Error \/ Exhausted

Device == TxEnd \/ ReplyHandshake \/ ReplyData \/ ReplyEmpty \/ Disconnect

Next == (Host \/ Device) /\ UNCHANGED mode

Spec == Init /\ [][Next]_vars

\* The host runs on every bit; a frame has room for more than ten transactions, so
\* that polling is not always too late; a device that serves its endpoints supplies
\* and accepts a packet again and again.
Fairness ==
  /\ WF_state(Configure \/ NextFrame \/ StreamOut \/ WaitAck \/ WaitPkt \/ AckIfData)
  /\ WF_state(TxEnd) /\ WF_state(ReplyHandshake \/ ReplyEmpty)
  /\ SF_state(StreamIn)
  /\ \A s \in Streams : /\ SF_state(ReplyData /\ streamIn = s)
                        /\ SF_state(TxEnd /\ OutTaken /\ streamOut = s)

FairSpec == Spec /\ Fairness

-----------------------------------------------------------------------------
(* What the host promises.                                                 *)

\* Every descriptor is in at most one place, once: the free list, ctx->sending,
\* ctx->recving or the list of one stream.
PoolExclusive ==
  /\ sending \notin free /\ recving \notin free
  /\ sending = recving => sending = NoTr
  /\ \A s \in Streams : Listed(s) \cap (free \cup {sending, recving}) = {}
  /\ \A s1, s2 \in Streams :
       \A i \in 1..Len(received[s1]), j \in 1..Len(received[s2]) :
         received[s1][i].tr = received[s2][j].tr => s1 = s2 /\ i = j

\* While the host waits for the handshake of a packet, its source is still in the
\* list: "assert(rx)" when it is retired.
SourceKept == hostSt = "WAITACK" => received[streamOut] # <<>>

\* Nothing but the re-initialisation of the streams loses a descriptor.
NoLeak == [][Owned \subseteq Owned' \/ Configure]_vars

\* A list holds consecutive packets, the newest being the one before the next
\* expected, whatever was refused or repeated.
ReceivedInOrder ==
  \A s \in Streams : step = "stream" /\ ~Iso(s) =>
    \A i \in 1..Len(received[s]) : received[s][i].k + Len(received[s]) = tst[s] + i - 1

FirstData(s) == IF Retrieve /\ ~Iso(s) THEN 1 ELSE 0

\* The device gets back every packet it sent exactly once, in order, each
\* scrambled with the part of the LFSR sequence that follows the one before, and the
\* host gives up none that the device has not taken, as long as the device answers.
LoopbackInOrder ==
  \A s \in Streams : step = "stream" /\ ~Iso(s) /\ ~Faulty =>
    /\ \A i \in 1..Len(got[s]) : got[s][i] = <<i - 1 + FirstData(s), i - 1>>
    /\ Send /\ received[s] # <<>> => Head(received[s]).k <= Len(got[s]) + FirstData(s)

\* Isochronous packets may be lost, never repeated or reordered.
IsoInOrder ==
  \A s \in Streams : Iso(s) =>
    \A i, j \in 1..Len(got[s]) : i < j => got[s][i][1] < got[s][j][1] /\ got[s][i][2] < got[s][j][2]

\* "Keep a record of the LFSR, so that we may rewind in the event of a delivery
\* failure" (usbdpi_stream.c): unless a reply is on its way, the LFSR stands at
\* the oldest packet still to be returned.
LfsrAtOldest ==
  \A s \in Streams :
    /\ step = "stream" /\ ~Iso(s) /\ received[s] # <<>>
    /\ hostSt \notin {"WAITACK", "ERROR"}
    => dpi[s] + FirstData(s) = Head(received[s]).k

\* As long as the device answers everything in time, the host reports no error:
\* it never takes one answer for another or waits for one that was not due.
NoFalseAlarm == ~Faulty => failed \notin {"error", "tries"} /\ hostSt # "ERROR"

\* Every packet of every stream comes back, however often one is refused on the
\* way: no stream starves another.
AllReturned == <>(\A s \in Streams : Len(got[s]) + FirstData(s) = MaxPackets)

=============================================================================
