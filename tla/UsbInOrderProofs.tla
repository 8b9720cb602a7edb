--------------------------- MODULE UsbInOrderProofs ---------------------------
(***************************************************************************)
(* Proofs about the order in which the packets of UsbInPath reach the      *)
(* host: its endpoints with handshakes implement UsbChannel.  They hold    *)
(* whether or not the host waits for the device's response time.           *)
(***************************************************************************)
EXTENDS UsbInPathProofs

\* The packet of an endpoint may still be transmitted.
Live(e) == rdy[e] \/ (state # "Idle" /\ hasData /\ cur = e)

\* No packet is newer than the one software armed last.
Bounded ==
  /\ \A e \in Endpoints : hLast[e] < next /\ cancelled[e] < next
  /\ \A b \in Buffers : memory[b] < next
  /\ tx.kind = "data" => tx.k < next

\* A transmission with a handshake carries the packet that is being collected, and
\* the toggle the device has for it.
TxTrue ==
  /\ tx.kind = "data" /\ ~IsoEp(tx.ep) =>
       /\ state \in {"SendData", "WaitTxEnd"} /\ tx.ep = cur /\ hasData
       /\ tx.k = memory[capt.buf] /\ tx.tog = toggle[cur]
  /\ state = "WaitTxEnd" => ~IsoEp(tx.ep)

\* The host repeats a SETUP, and does not poll that endpoint meanwhile; the device sets
\* the toggle before it accepts the packet.
SetupTrue ==
  /\ hSetup # NoEp => hSetup \in Control
  /\ pkt.kind = "SETUP" => pkt.ep = hSetup
  /\ pkt.kind = "IN" => pkt.ep # hSetup
  /\ setup # NoEp => setup = hSetup /\ toggle[setup] = 1
  /\ state \in {"RcvdIn", "SendData", "WaitTxEnd"} => hSetup # cur

\* The handshake that the device waits for is about a packet the host has taken.
AckTrue ==
  (ackDue /\ state = "WaitAckStart") \/ (pkt.kind = "ACK" /\ state = "WaitAck") =>
    hasData /\ ~IsoEp(cur) /\ hSetup # cur /\ toggle[cur] # hTog[cur]

\* The toggles agree until the host has taken the packet, and again when the device
\* knows it.
InSync(e) == toggle[e] = hTog[e] /\ (Live(e) => hLast[e] < memory[armed[e]])

Ahead(e) ==
  /\ toggle[e] # hTog[e]
  /\ armed[e] # NoBuf /\ hLast[e] = memory[armed[e]] /\ sending[e] /\ ~sent[e] /\ ~pend[e]

Synced == \A e \in Endpoints : ~IsoEp(e) /\ hSetup # e => InSync(e) \/ Ahead(e)

\* What has been cancelled is older than what may still be sent.
Fresh == \A e \in Endpoints : Live(e) => cancelled[e] < memory[armed[e]]

OInv == Bounded /\ TxTrue /\ SetupTrue /\ AckTrue /\ Synced /\ Fresh /\ NoneStale

-----------------------------------------------------------------------------
(* What a step does to an endpoint.                                        *)

\* A packet becomes alive only when software arms it.
LEMMA LiveStep ==
  ASSUME IInv, [Next]_vars, NEW e \in Endpoints, Live(e)'
  PROVE  Live(e) \/ \E b \in Buffers : SwArm(e, b)
<1> USE DEF Live, fsmVars, regVars
<1>1. rdy \in Flags /\ sending \in Flags /\ sent \in Flags
  BY DEF IInv, TypeOK, RegTypeOK
<1>2. CASE RxEnd
  <2>1. CASE pkt.kind = "IN" /\ InToken(pkt.ep)
    BY <2>1 DEF InToken
  <2>2. CASE (pkt.kind = "SETUP" /\ SetupToken(pkt.ep)) \/ OtherEnd
    BY <2>2 DEF SetupToken, OtherEnd, Goto
  <2>3. CASE AckReceived
    BY <1>1, <2>3 DEF AckReceived, XactEnd, Goto, Flags
  <2> QED
    BY <1>2, <2>1, <2>2, <2>3 DEF RxEnd
<1>3. CASE TxByte \/ NoMoreData
  <2>1. rdy'[e] => rdy[e]
    BY <1>1, <1>3 DEF TxByte, NoMoreData, DataDone, XactEnd, Flags
  <2> QED
    BY <1>3, <2>1 DEF TxByte, NoMoreData
<1>4. CASE SetupAccepted \/ LinkReset
  <2>1. rdy'[e] => rdy[e]
    BY <1>4 DEF SetupAccepted, LinkReset, Cancel, RdyCleared
  <2> QED
    BY <1>4, <2>1 DEF SetupAccepted, LinkReset, Goto
<1>5. CASE Respond \/ AckTimeout \/ TxEnd \/ SetupRefused \/ Suspend \/ LinkActive \/ UNCHANGED vars
  BY <1>5 DEF Respond, AckTimeout, RolledBack, TxEnd, SetupRefused, Suspend, LinkActive, Goto, vars
<1>6. CASE HostSteps
  BY <1>6 DEF HostSteps, HostAck, HostPoll, HostSendsSetup, HostSendsOther, HostTimeout, Begin, Goto
<1>7. CASE Software
  <2>1. UNCHANGED <<state, cur, hasData>>
    BY <1>7 DEF Software, SwArm, SwSent, SwCancelled, SwRetract, SwRetracted, SwWriteStall
  <2>2. ASSUME NEW x \in Endpoints, NEW b \in Buffers, SwArm(x, b), rdy'[e]
        PROVE  rdy[e] \/ SwArm(e, b)
    BY <1>1, <2>2 DEF SwArm, Flags
  <2>3. ASSUME NEW x \in Endpoints, SwRetract(x), rdy'[e]
        PROVE  rdy[e]
    BY <1>1, <2>3 DEF SwRetract, Flags
  <2> QED
    BY <1>7, <2>1, <2>2, <2>3 DEF Software, SwSent, SwCancelled, SwRetracted, SwWriteStall
<1> QED
  BY <1>2, <1>3, <1>4, <1>5, <1>6, <1>7 DEF Next, Device

\* An armed packet stays until software reclaims its buffer.
LEMMA ArmedStep ==
  ASSUME IInv, [Next]_vars, NEW e \in Endpoints, armed[e] # NoBuf
  PROVE  \/ armed'[e] = armed[e] /\ memory'[armed[e]] = memory[armed[e]]
         \/ sent[e] \/ pend[e] \/ (retract[e] /\ ~sending[e])
<1> USE DEF swVars
<1>1. /\ armed \in [Endpoints -> Buffers \cup {NoBuf}] /\ memory \in [Buffers -> Serials]
      /\ armed[e] \in Buffers
  BY DEF IInv, TypeOK, SwTypeOK
<1>2. CASE Device \/ HostSteps \/ UNCHANGED vars
  BY <1>2 DEF Device, HostSteps, RxEnd, Respond, TxByte, NoMoreData, AckTimeout, TxEnd, SetupAccepted,
     SetupRefused, LinkReset, Suspend, LinkActive, HostAck, HostPoll, HostSendsSetup, HostSendsOther,
     HostTimeout, Begin, vars
<1>3. CASE Software
  <2>1. ASSUME NEW x \in Endpoints, NEW b \in Buffers, SwArm(x, b)
        PROVE  armed'[e] = armed[e] /\ memory'[armed[e]] = memory[armed[e]]
    BY <1>1, <2>1 DEF SwArm, Unused
  <2>2. ASSUME NEW x \in Endpoints, Reclaim(x), x # e
        PROVE  armed'[e] = armed[e] /\ memory'[armed[e]] = memory[armed[e]]
    BY <1>1, <2>2 DEF Reclaim
  <2> QED
    BY <1>3, <2>1, <2>2 DEF Software, SwSent, SwCancelled, SwRetract, SwRetracted, SwWriteStall
<1> QED
  BY <1>2, <1>3 DEF Next

\* What is alive is armed, and stays in its buffer.
LEMMA LiveKept ==
  ASSUME IInv, [Next]_vars, NEW e \in Endpoints, Live(e)
  PROVE  armed[e] \in Buffers /\ armed'[e] = armed[e] /\ memory'[armed[e]] = memory[armed[e]]
<1>1. armed[e] \in Buffers /\ ~sent[e] /\ ~pend[e] /\ (sending[e] \/ ~retract[e]) /\ armed[e] # NoBuf
  BY InAssumption DEF Live, IInv, ReadyIntact, CollectedIntact, RetractHeld
<1> QED
  BY <1>1, ArmedStep

-----------------------------------------------------------------------------
(* The invariant is kept.                                                  *)

\* The packet and the toggle of a transmission change only when it begins.
LEMMA TxStep ==
  ASSUME IInv, [Next]_vars
  PROVE  \/ tx'.kind # "data"
         \/ Respond
         \/ /\ tx.kind = "data" /\ tx'.ep = tx.ep /\ tx'.k = tx.k /\ tx'.tog = tx.tog
            /\ tx' = tx \/ (state = "SendData" /\ (TxByte \/ NoMoreData))
<1>1. CASE TxByte \/ NoMoreData
  <2>1. tx \in DataTx /\ tx.kind = "data"
    BY <1>1, TxShape DEF IInv, TypeOK, OneAtATime, TxByte, NoMoreData
  <2>2. tx'.ep = tx.ep /\ tx'.k = tx.k /\ tx'.tog = tx.tog
    BY <1>1, <2>1 DEF TxByte, NoMoreData, DataTx
  <2> QED
    BY <1>1, <2>1, <2>2 DEF TxByte, NoMoreData
<1>2. tx' = NoTx => tx'.kind # "data"
  BY DEF NoTx
<1>3. \/ UNCHANGED tx \/ tx' = NoTx \/ Respond \/ TxByte \/ NoMoreData
  BY DEF Next, Device, HostSteps, Software, RxEnd, AckTimeout, TxEnd, SetupAccepted, SetupRefused, LinkReset,
     Suspend, LinkActive, HostAck, HostPoll, HostSendsSetup, HostSendsOther, HostTimeout, Begin, SwArm, SwSent,
     SwCancelled, SwRetract, SwRetracted, SwWriteStall, vars, fsmVars
<1> QED
  BY <1>1, <1>2, <1>3

\* A history of the last packet: what it becomes.
LEMMA HistoryStep ==
  ASSUME IInv, [Next]_vars, NEW e \in Endpoints
  PROVE  /\ \/ hLast'[e] = hLast[e]
            \/ TxEnd /\ HostAccepts /\ tx.ep = e /\ hLast'[e] = tx.k
         /\ \/ cancelled'[e] = cancelled[e]
            \/ rdy[e] /\ ~Live(e)' /\ cancelled'[e] = memory[cfg[e].buf] /\ tx'.kind # "data"
<1> USE DEF hostVars, histVars
<1>1. hLast \in [Endpoints -> Serials]
  BY DEF IInv, TypeOK, HostTypeOK
<1>2. CASE TxEnd
  BY <1>1, <1>2 DEF TxEnd, HostAccepts, HostRepeats, HostHearsNone
<1>3. CASE SetupAccepted \/ LinkReset
  <2>1. PICK S : Cancel(S) /\ (SetupAccepted => S = {setup})
    BY <1>3 DEF SetupAccepted, LinkReset
  <2>2. tx'.kind # "data" /\ state' = "Idle"
    BY <1>3 DEF SetupAccepted, LinkReset, Goto, IInv, OneAtATime, NoTx
  <2>3. cancelled'[e] = cancelled[e] \/ (e \in S /\ rdy[e] /\ cancelled'[e] = memory[cfg[e].buf])
    BY <2>1 DEF Cancel
  <2>4. e \in S => ~Live(e)'
    BY <2>1, <2>2 DEF Cancel, RdyCleared, Live
  <2> QED
    BY <1>3, <2>2, <2>3, <2>4 DEF SetupAccepted, LinkReset
<1>4. CASE \/ RxEnd \/ Respond \/ TxByte \/ NoMoreData \/ AckTimeout \/ SetupRefused \/ Suspend \/ LinkActive
           \/ UNCHANGED vars
  BY <1>4 DEF RxEnd, Respond, TxByte, NoMoreData, AckTimeout, SetupRefused, Suspend, LinkActive, vars
<1>5. CASE HostSteps
  BY <1>5 DEF HostSteps, HostAck, HostPoll, HostSendsSetup, HostSendsOther, HostTimeout, Begin
<1>6. CASE Software
  BY <1>6 DEF Software, SwArm, SwSent, SwCancelled, SwRetract, SwRetracted, SwWriteStall
<1> QED
  BY <1>2, <1>3, <1>4, <1>5, <1>6 DEF Next, Device

\* No serial number from the future: only Arm uses a new one.
LEMMA BoundedStep == IInv /\ IInv' /\ Bounded /\ [Next]_vars => Bounded'
<1> SUFFICES ASSUME IInv, IInv', Bounded, [Next]_vars PROVE Bounded'
  OBVIOUS
<1> USE DEF Bounded
<1>1. next \in Nat /\ next' \in Nat /\ next >= 1 /\ next' >= next
      /\ \A b \in Buffers : memory[b] \in Nat /\ memory'[b] < next'
  <2>1. /\ next \in 1..(MaxPackets + 1) /\ next' \in 1..(MaxPackets + 1)
        /\ memory \in [Buffers -> 0..MaxPackets]
    BY DEF IInv, TypeOK, SwTypeOK, Serials
  <2>2. CASE UNCHANGED <<memory, next>>
    BY <2>1, <2>2, InAssumption
  <2>3. ASSUME NEW e \in Endpoints, NEW b \in Buffers, SwArm(e, b)
        PROVE  next' >= next /\ \A x \in Buffers : memory'[x] < next'
    BY <2>1, <2>3, InAssumption DEF SwArm
  <2> QED
    BY <2>1, <2>2, <2>3, InAssumption DEF Next, Device, HostSteps, Software, RxEnd, Respond, TxByte, NoMoreData,
       AckTimeout, TxEnd, SetupAccepted, SetupRefused, LinkReset, Suspend, LinkActive, HostAck, HostPoll,
       HostSendsSetup, HostSendsOther, HostTimeout, Begin, SwSent, SwCancelled, SwRetract, SwRetracted,
       SwWriteStall, Reclaim, vars, swVars
<1>2. tx.kind = "data" => tx.k \in Nat /\ tx.ep \in Endpoints
  BY TxShape DEF IInv, TypeOK, Serials
<1>3. ASSUME NEW e \in Endpoints
      PROVE  hLast'[e] < next' /\ cancelled'[e] < next'
  <2>1. hLast[e] \in Nat /\ cancelled[e] \in Nat
    BY DEF IInv, TypeOK, HostTypeOK, RegTypeOK, Serials
  <2>2. hLast'[e] < next'
    <3>1. tx.kind = "data" => tx.k < next'
      BY <1>1, <1>2
    <3> QED
      BY <1>1, <2>1, <3>1, HistoryStep DEF HostAccepts
  <2>3. cancelled'[e] < next'
    <3>1. cfg[e].buf \in Buffers
      BY DEF IInv, TypeOK, RegTypeOK, Descr
    <3> QED
      BY <1>1, <2>1, <3>1, HistoryStep
  <2> QED
    BY <2>2, <2>3
<1>4. tx'.kind = "data" => tx'.k < next'
  <2>1. capt.buf \in Buffers
    BY DEF IInv, TypeOK, FsmTypeOK, Descr
  <2>2. CASE Respond
    <3>1. CASE \E t : tx' = DataPacket(t)
      <4>1. tx'.k = memory[capt.buf] \/ tx'.k = 0
        BY <3>1 DEF DataPacket
      <4> QED
        BY <1>1, <2>1, <4>1
    <3>2. CASE tx'.kind # "data"
      BY <3>2
    <3> QED
      BY <2>2, <3>1, <3>2 DEF Respond
  <2> QED
    BY <1>1, <1>2, <2>2, TxStep
<1> QED
  BY <1>1, <1>3, <1>4

\* What is armed after a cancellation is newer than what was cancelled.
LEMMA FreshStep == IInv /\ IInv' /\ Bounded /\ Fresh /\ [Next]_vars => Fresh'
<1> SUFFICES ASSUME IInv, IInv', Bounded, Fresh, [Next]_vars,
                    NEW e \in Endpoints, Live(e)'
             PROVE  cancelled'[e] < memory'[armed'[e]]
  BY DEF Fresh
<1>1. cancelled'[e] = cancelled[e]
  BY HistoryStep
<1>2. CASE Live(e)
  BY <1>1, <1>2, LiveKept DEF Fresh
<1>3. ASSUME NEW b \in Buffers, SwArm(e, b)
      PROVE  cancelled'[e] < memory'[armed'[e]]
  <2>1. armed'[e] = b /\ memory'[b] = next
    BY <1>3 DEF SwArm, IInv, TypeOK, SwTypeOK
  <2> QED
    BY <1>1, <2>1 DEF Bounded
<1> QED
  BY <1>2, <1>3, LiveStep

\* What is on its way to the host has not been cancelled.
LEMMA NoneStaleStep == IInv /\ Fresh /\ NoneStale /\ [Next]_vars => NoneStale'
<1> SUFFICES ASSUME IInv, Fresh, NoneStale, [Next]_vars, tx'.kind = "data", tx'.k # 0
             PROVE  tx'.k > cancelled'[tx'.ep]
  BY DEF NoneStale
<1>1. CASE Respond
  <2>1. PICK t : tx' = DataPacket(t)
    BY <1>1 DEF Respond
  <2>2. hasData /\ tx'.k = memory[capt.buf] /\ tx'.ep = cur
    BY <2>1 DEF DataPacket
  <2>3. cur \in Endpoints /\ Live(cur) /\ capt.buf = armed[cur]
    BY <1>1, <2>2 DEF Respond, Live, IInv, CollectedIntact, TypeOK, FsmTypeOK
  <2>4. memory[armed[cur]] \in Nat /\ cancelled[cur] \in Nat
    BY <2>3, LiveKept DEF IInv, TypeOK, SwTypeOK, RegTypeOK, Serials
  <2> QED
    BY <1>1, <2>2, <2>3, <2>4 DEF Fresh, Respond, histVars
<1>2. CASE ~Respond
  <2>1. tx.kind = "data" /\ tx'.ep = tx.ep /\ tx'.k = tx.k
    BY <1>2, TxStep
  <2>2. tx.ep \in Endpoints
    BY <2>1, TxShape DEF IInv, TypeOK
  <2>3. cancelled'[tx.ep] = cancelled[tx.ep]
    BY <2>2, HistoryStep
  <2> QED
    BY <2>1, <2>3 DEF NoneStale
<1> QED
  BY <1>1, <1>2

\* The host polls no endpoint to which it owes a SETUP.
LEMMA SetupTrueStep == IInv /\ IInv' /\ SetupTrue /\ [Next]_vars => SetupTrue'
<1> SUFFICES ASSUME IInv, IInv', SetupTrue, [Next]_vars PROVE SetupTrue'
  OBVIOUS
<1> USE DEF SetupTrue, fsmVars, hostVars
<1>0. NoEp \notin Endpoints /\ Control \subseteq Endpoints /\ Control \subseteq Enabled
      /\ cur \in Endpoints /\ cur' \in Endpoints
  BY InAssumption DEF IInv, TypeOK, FsmTypeOK
<1>1. CASE RxEnd
  <2>1. setup = NoEp /\ hSetup' = hSetup /\ pkt' = NoPkt /\ NoPkt.kind = "none"
    BY <1>1 DEF RxEnd, IInv, OneAtATime, NoPkt
  <2>2. CASE pkt.kind = "IN" /\ InToken(pkt.ep)
    BY <1>0, <2>1, <2>2 DEF InToken, Goto
  <2>3. CASE pkt.kind = "SETUP" /\ SetupToken(pkt.ep)
    <3>1. pkt.ep \in Endpoints /\ pkt.ep = hSetup /\ pkt.ep \in Control
      BY <1>0, <2>3, PktShape DEF IInv, TypeOK
    <3>2. toggle'[pkt.ep] = 1
      BY <1>0, <2>3, <3>1 DEF SetupToken, ToggleOfSetup, IInv, TypeOK, FsmTypeOK
    <3> QED
      BY <2>1, <2>3, <3>1, <3>2 DEF SetupToken, Goto
  <2>4. CASE AckReceived \/ OtherEnd
    BY <2>1, <2>4 DEF AckReceived, OtherEnd, Goto
  <2> QED
    BY <1>1, <2>2, <2>3, <2>4 DEF RxEnd
<1>2. CASE Respond \/ TxByte \/ NoMoreData \/ AckTimeout
  <2>1. UNCHANGED <<hSetup, pkt, setup, toggle, cur>>
    BY <1>2 DEF Respond, TxByte, NoMoreData, AckTimeout
  <2>2. state' \in {"RcvdIn", "SendData", "WaitTxEnd"} => state \in {"RcvdIn", "SendData", "WaitTxEnd"}
    BY <1>2 DEF Respond, TxByte, NoMoreData, DataDone, AckTimeout, Goto
  <2> QED
    BY <2>1, <2>2
<1>3. CASE TxEnd
  BY <1>3 DEF TxEnd, Goto
<1>4. CASE SetupAccepted
  <2>1. setup' = NoEp /\ hSetup' \in {hSetup, NoEp} /\ pkt = NoPkt /\ pkt' = pkt /\ UNCHANGED <<state, cur>>
    BY <1>4 DEF SetupAccepted, IInv, OneAtATime
  <2> QED
    BY <1>0, <2>1 DEF NoPkt
<1>5. CASE LinkReset
  BY <1>0, <1>5 DEF LinkReset, NoPkt, Goto
<1>6. CASE SetupRefused \/ Suspend \/ LinkActive \/ UNCHANGED vars
  BY <1>6 DEF SetupRefused, Suspend, LinkActive, vars, Goto
<1>7. CASE Software
  BY <1>7 DEF Software, SwArm, SwSent, SwCancelled, SwRetract, SwRetracted, SwWriteStall
<1>8. CASE HostAck \/ HostSendsOther \/ HostTimeout
  BY <1>8 DEF HostAck, HostSendsOther, HostTimeout, Begin, Goto
<1>9. ASSUME NEW e \in Endpoints, HostPoll(e)
      PROVE  SetupTrue'
  BY <1>9 DEF HostPoll, HostFree, Begin, Goto
<1>10. ASSUME NEW e \in Endpoints, HostSendsSetup(e)
       PROVE  SetupTrue'
  BY <1>10 DEF HostSendsSetup, HostFree, Begin, Goto
<1> QED
  BY <1>1, <1>2, <1>3, <1>4, <1>5, <1>6, <1>7, <1>8, <1>9, <1>10 DEF Next, Device, HostSteps

\* While the device transmits, the bus and the FSM do nothing else.
LEMMA Transmitting ==
  ASSUME IInv, [Next]_vars, tx # NoTx
  PROVE  \/ TxByte \/ NoMoreData \/ TxEnd \/ LinkReset
         \/ /\ UNCHANGED <<fsmVars, hostVars>>
            /\ LinkActive \/ Software \/ UNCHANGED vars
<1>1. state \in {"Idle", "SendData", "WaitTxEnd"} /\ pkt = NoPkt /\ ~ackDue /\ setup = NoEp
  BY DEF IInv, OneAtATime, TypeOK, FsmTypeOK, States
<1>2. ~RxEnd /\ ~Respond /\ ~AckTimeout /\ ~SetupAccepted /\ ~SetupRefused /\ ~Suspend /\ ~HostSteps
  BY <1>1 DEF RxEnd, Respond, AckTimeout, SetupAccepted, SetupRefused, Suspend, HostSteps, HostAck, HostPoll,
     HostSendsSetup, HostSendsOther, HostFree, HostTimeout
<1>3. LinkActive \/ Software \/ UNCHANGED vars => UNCHANGED <<fsmVars, hostVars>>
  BY DEF LinkActive, Software, SwArm, SwSent, SwCancelled, SwRetract, SwRetracted, SwWriteStall, vars
<1> QED
  BY <1>2, <1>3 DEF Next, Device

\* A packet is sent as it was captured, with the toggle of its endpoint.
LEMMA TxTrueStep == IInv /\ IInv' /\ TxTrue /\ [Next]_vars => TxTrue'
<1> SUFFICES ASSUME IInv, IInv', TxTrue, [Next]_vars PROVE TxTrue'
  OBVIOUS
<1> USE DEF TxTrue, fsmVars, swVars
<1>1. CASE Respond
  <2>1. state' # "WaitTxEnd" /\ UNCHANGED <<cur, hasData, capt, memory, toggle>>
    BY <1>1 DEF Respond, Goto
  <2>2. ASSUME tx'.kind = "data", ~IsoEp(tx'.ep)
        PROVE  state' = "SendData" /\ tx'.ep = cur /\ hasData /\ tx'.k = memory[capt.buf] /\ tx'.tog = toggle[cur]
    <3>1. PICK t : tx' = DataPacket(t)
      BY <1>1, <2>2 DEF Respond
    <3>2. tx'.ep = cur /\ ~IsoEp(cur)
      BY <2>2, <3>1 DEF DataPacket
    <3>3. hasData /\ tx' = DataPacket(toggle[cur]) /\ state' = "SendData"
      BY <1>1, <2>2, <3>2 DEF Respond, Goto
    <3> QED
      BY <3>2, <3>3 DEF DataPacket
  <2> QED
    BY <2>1, <2>2 DEF IsoEp
<1>2. CASE TxByte \/ NoMoreData
  <2>1. tx.kind = "data" /\ tx'.ep = tx.ep /\ tx'.k = tx.k /\ tx'.tog = tx.tog /\ tx.ep = cur
    <3>1. tx'.kind = "data"
      BY <1>2, TxShape DEF IInv, TypeOK, OneAtATime, TxByte, NoMoreData, DataTx
    <3>2. ~Respond /\ state = "SendData"
      BY <1>2 DEF Respond, TxByte, NoMoreData
    <3> QED
      BY <3>1, <3>2, TxStep DEF IInv, OneAtATime
  <2>2. UNCHANGED <<cur, hasData, capt, memory, toggle>>
    BY <1>2 DEF TxByte, NoMoreData
  <2>3. /\ ~IsoEp(cur) => state' \in {"SendData", "WaitTxEnd"}
        /\ state' = "WaitTxEnd" => ~IsoEp(cur)
    BY <1>2 DEF TxByte, NoMoreData, DataDone
  <2> QED
    BY <2>1, <2>2, <2>3 DEF IsoEp
<1>3. CASE tx' = NoTx
  BY <1>3 DEF NoTx, IInv, OneAtATime, DataTx
<1>4. CASE tx # NoTx /\ UNCHANGED fsmVars
  <2>1. ASSUME tx.kind = "data", ~IsoEp(tx.ep)
        PROVE  memory'[capt.buf] = memory[capt.buf]
    <3>1. Live(cur) /\ capt.buf = armed[cur] /\ cur \in Endpoints
      BY <2>1 DEF Live, IInv, CollectedIntact, TypeOK, FsmTypeOK
    <3> QED
      BY <3>1, LiveKept
  <2> QED
    BY <1>4, <2>1 DEF IsoEp
<1>5. CASE tx = NoTx /\ ~Respond
  <2>1. tx' = NoTx
    <3>1. tx.kind # "data" /\ ~TxByte /\ ~NoMoreData /\ ~TxEnd
      BY <1>5, TxShape DEF NoTx, IInv, OneAtATime, TypeOK, TxByte, NoMoreData, TxEnd
    <3> QED
      BY <1>5, <3>1 DEF Next, Device, HostSteps, Software, RxEnd, AckTimeout, SetupAccepted, SetupRefused,
         LinkReset, Suspend, LinkActive, HostAck, HostPoll, HostSendsSetup, HostSendsOther, HostTimeout, Begin,
         SwArm, SwSent, SwCancelled, SwRetract, SwRetracted, SwWriteStall, vars
  <2> QED
    BY <1>3, <2>1
<1> QED
  BY <1>1, <1>2, <1>3, <1>4, <1>5, Transmitting DEF TxEnd, LinkReset

\* The host sends a handshake only for a packet it has taken, or had already.
LEMMA AckTrueStep == IInv /\ IInv' /\ TxTrue /\ SetupTrue /\ AckTrue /\ [Next]_vars => AckTrue'
<1> SUFFICES ASSUME IInv, IInv', TxTrue, SetupTrue, AckTrue, [Next]_vars,
                    \/ ackDue' /\ state' = "WaitAckStart"
                    \/ pkt'.kind = "ACK" /\ state' = "WaitAck"
             PROVE  hasData' /\ ~IsoEp(cur') /\ hSetup' # cur' /\ toggle'[cur'] # hTog'[cur']
  BY DEF AckTrue, IsoEp
<1> USE DEF fsmVars, hostVars
<1>1. CASE TxEnd
  <2>1. state' = "WaitAckStart" /\ state = "WaitTxEnd" /\ ~ackDue
    BY <1>1 DEF TxEnd, Goto, IInv, OneAtATime, TypeOK, FsmTypeOK, States
  <2>2. tx.kind = "data" /\ tx.tog \in {0, 1}
    BY <2>1, TxShape DEF IInv, TypeOK, OneAtATime
  <2>3. tx.ep = cur /\ ~IsoEp(cur) /\ hasData /\ tx.tog = toggle[cur] /\ hSetup # cur
    BY <2>1, <2>2 DEF TxTrue, SetupTrue
  <2>4. UNCHANGED <<cur, hasData, toggle, hSetup>>
    BY <1>1 DEF TxEnd
  <2>5. toggle[cur] # hTog'[cur]
    <3>1. cur \in Endpoints /\ hTog \in [Endpoints -> {0, 1}]
      BY DEF IInv, TypeOK, FsmTypeOK, HostTypeOK
    <3>2. CASE HostAccepts
      BY <2>2, <2>3, <3>1, <3>2 DEF HostAccepts
    <3>3. CASE HostRepeats
      BY <2>3, <3>3 DEF HostRepeats
    <3>4. CASE HostHearsNone
      BY <2>1, <3>4, <1>1 DEF HostHearsNone, IInv, OneAtATime, NoPkt
    <3> QED
      BY <1>1, <3>2, <3>3, <3>4 DEF TxEnd
  <2> QED
    BY <2>3, <2>4, <2>5
<1>2. CASE \E e \in Endpoints : HostPoll(e) \/ HostSendsSetup(e)
  BY <1>2 DEF HostPoll, HostSendsSetup, HostFree, Begin, Goto
<1>3. CASE HostAck
  <2>1. ackDue /\ state = "WaitAckStart" /\ UNCHANGED <<cur, hasData, toggle, hTog, hSetup>>
    BY <1>3 DEF HostAck, Begin, Goto, IInv, OneAtATime
  <2> QED
    BY <2>1 DEF AckTrue
<1>4. CASE HostSendsOther
  BY <1>4 DEF HostSendsOther, HostFree, Begin, Goto
<1>5. CASE LinkActive \/ Software \/ HostTimeout \/ UNCHANGED vars
  <2>1. UNCHANGED <<ackDue, state, pkt, cur, hasData, toggle, hTog, hSetup>>
    BY <1>5 DEF LinkActive, Software, SwArm, SwSent, SwCancelled, SwRetract, SwRetracted, SwWriteStall,
       HostTimeout, vars
  <2> QED
    BY <2>1 DEF AckTrue
<1>6. ~RxEnd /\ ~Respond /\ ~AckTimeout /\ ~LinkReset /\ ~Suspend
  BY DEF RxEnd, InToken, SetupToken, AckReceived, OtherEnd, Respond, AckTimeout, LinkReset, Suspend, Goto
<1>7. ~TxByte /\ ~NoMoreData
  BY DEF TxByte, NoMoreData, DataDone
<1>8. ~SetupAccepted /\ ~SetupRefused
  BY DEF SetupAccepted, SetupRefused, IInv, OneAtATime
<1> QED
  BY <1>1, <1>2, <1>3, <1>4, <1>5, <1>6, <1>7, <1>8 DEF Next, Device, HostSteps

\* Nothing that matters to the toggles of an endpoint happens.
Quiet(e) ==
  /\ toggle'[e] = toggle[e] /\ hTog'[e] = hTog[e] /\ hLast'[e] = hLast[e]
  /\ hSetup' # e => hSetup # e
  /\ sending[e] => sending'[e]
  /\ sent'[e] => sent[e]
  /\ pend'[e] => pend[e]

\* An endpoint sees nothing of a step, but for five kinds of step
\* that concern its packet.
LEMMA QuietStep ==
  ASSUME IInv, SetupTrue, [Next]_vars, NEW e \in Endpoints, ~IsoEp(e)
  PROVE  \/ Quiet(e)
         \/ RxEnd /\ pkt.kind = "ACK" /\ AckReceived /\ state = "WaitAck" /\ cur = e
         \/ RxEnd /\ pkt.kind = "SETUP" /\ pkt.ep = e
         \/ SetupAccepted /\ setup = e
         \/ LinkReset
         \/ TxEnd /\ HostAccepts /\ tx.ep = e
<1> USE DEF Quiet, fsmVars, regVars, hostVars
<1>1. /\ sending \in Flags /\ sent \in Flags /\ pend \in Flags
      /\ toggle \in [Endpoints -> {0, 1}] /\ hTog \in [Endpoints -> {0, 1}] /\ hLast \in [Endpoints -> Serials]
      /\ e # NoEp
  BY InAssumption DEF IInv, TypeOK, RegTypeOK, FsmTypeOK, HostTypeOK
<1>2. CASE RxEnd
  <2>1. UNCHANGED <<hTog, hLast, hSetup, pend>>
    BY <1>2 DEF RxEnd
  <2>2. CASE pkt.kind = "IN" /\ InToken(pkt.ep)
    <3>1. sending[e] => sending'[e]
      BY <1>1, <2>2 DEF InToken, Capture, Flags
    <3> QED
      BY <2>1, <2>2, <3>1 DEF InToken
  <2>3. CASE pkt.kind = "SETUP" /\ SetupToken(pkt.ep)
    BY <1>1, <1>2, <2>1, <2>3 DEF SetupToken, ToggleOfSetup
  <2>4. CASE pkt.kind = "ACK" /\ AckReceived
    BY <1>1, <1>2, <2>1, <2>4 DEF AckReceived, XactEnd, Flags
  <2>5. CASE OtherEnd
    BY <2>1, <2>5 DEF OtherEnd
  <2> QED
    BY <1>2, <2>2, <2>3, <2>4, <2>5 DEF RxEnd
<1>3. CASE TxByte \/ NoMoreData
  <2>1. (sending[e] => sending'[e]) /\ (sent'[e] => sent[e])
    BY <1>1, <1>3 DEF TxByte, NoMoreData, DataDone, XactEnd, Flags
  <2> QED
    BY <1>3, <2>1 DEF TxByte, NoMoreData
<1>4. CASE SetupAccepted
  <2>1. CASE setup = e
    BY <1>4, <2>1
  <2>2. CASE setup # e
    <3>1. hSetup = setup /\ hTog'[e] = hTog[e] /\ UNCHANGED <<toggle, hLast, sent>>
      BY <1>1, <1>4, <2>2 DEF SetupAccepted, SetupTrue
    <3>2. (sending[e] => sending'[e]) /\ (pend'[e] => pend[e])
      BY <1>4, <2>2 DEF SetupAccepted, Cancel
    <3> QED
      BY <2>2, <3>1, <3>2
  <2> QED
    BY <2>1, <2>2
<1>5. CASE TxEnd
  <2>1. UNCHANGED <<toggle, hSetup, sending, sent, pend>>
    BY <1>5 DEF TxEnd
  <2>2. CASE HostAccepts
    BY <1>1, <1>5, <2>1, <2>2 DEF HostAccepts
  <2>3. CASE HostRepeats \/ HostHearsNone
    BY <2>1, <2>3 DEF HostRepeats, HostHearsNone
  <2> QED
    BY <1>5, <2>2, <2>3 DEF TxEnd
<1>6. CASE Respond \/ AckTimeout \/ SetupRefused \/ Suspend \/ LinkActive \/ UNCHANGED vars
  BY <1>6 DEF Respond, AckTimeout, SetupRefused, Suspend, LinkActive, vars
<1>7. CASE HostSteps
  BY <1>1, <1>7 DEF HostSteps, HostAck, HostPoll, HostSendsSetup, HostSendsOther, HostTimeout, Begin
<1>8. CASE Software
  <2>1. UNCHANGED <<toggle, hTog, hLast, hSetup, sending>>
    BY <1>8 DEF Software, SwArm, SwSent, SwCancelled, SwRetract, SwRetracted, SwWriteStall
  <2>2. (sent'[e] => sent[e]) /\ (pend'[e] => pend[e])
    BY <1>1, <1>8 DEF Software, SwArm, SwSent, SwCancelled, SwRetract, SwRetracted, SwWriteStall, Flags
  <2> QED
    BY <2>1, <2>2
<1> QED
  BY <1>2, <1>3, <1>4, <1>5, <1>6, <1>7, <1>8 DEF Next, Device

\* The toggles stay in step: one side advances when the packet is taken, the other when
\* it learns of it.
LEMMA SyncedStep == IInv /\ IInv' /\ OInv /\ [Next]_vars => Synced'
<1> SUFFICES ASSUME IInv, IInv', OInv, [Next]_vars,
                    NEW e \in Endpoints, ~IsoEp(e), hSetup' # e
             PROVE  InSync(e)' \/ Ahead(e)'
  BY DEF Synced, IsoEp
<1>1. /\ toggle[e] \in {0, 1} /\ hTog[e] \in {0, 1} /\ e # NoEp
      /\ toggle \in [Endpoints -> {0, 1}] /\ hTog \in [Endpoints -> {0, 1}]
      /\ hLast \in [Endpoints -> Serials] /\ memory \in [Buffers -> Serials] /\ rdy \in Flags
  BY InAssumption DEF IInv, TypeOK, FsmTypeOK, HostTypeOK, SwTypeOK, RegTypeOK
<1>2. CASE Quiet(e)
  <2>1. CASE InSync(e)
    <3>1. CASE Live(e)' /\ Live(e)
      BY <1>2, <2>1, <3>1, LiveKept DEF InSync, Quiet
    <3>2. ASSUME NEW b \in Buffers, SwArm(e, b)
          PROVE  hLast'[e] < memory'[armed'[e]]
      <4>1. armed'[e] = b /\ memory'[b] = next
        BY <3>2 DEF SwArm, IInv, TypeOK, SwTypeOK
      <4> QED
        BY <1>2, <4>1 DEF Quiet, OInv, Bounded
    <3> QED
      BY <1>2, <2>1, <3>1, <3>2, LiveStep DEF InSync, Quiet
  <2>2. CASE Ahead(e)
    <3>1. armed'[e] = armed[e] /\ memory'[armed[e]] = memory[armed[e]]
      BY <2>2, ArmedStep DEF Ahead
    <3> QED
      BY <1>2, <2>2, <3>1 DEF Ahead, Quiet
  <2> QED
    BY <1>2, <2>1, <2>2 DEF OInv, Synced, Quiet
<1>3. CASE RxEnd /\ pkt.kind = "ACK" /\ AckReceived /\ state = "WaitAck" /\ cur = e
  <2>1. toggle[e] # hTog[e]
    BY <1>3 DEF OInv, AckTrue
  <2>2. toggle'[e] = 1 - toggle[e] /\ hTog'[e] = hTog[e]
    BY <1>1, <1>3 DEF AckReceived, Flip, RxEnd
  <2>3. state' = "Idle" /\ ~rdy'[e]
    BY <1>1, <1>3 DEF AckReceived, XactEnd, Goto, Flags
  <2> QED
    BY <1>1, <2>1, <2>2, <2>3 DEF InSync, Live
<1>4. ~(RxEnd /\ pkt.kind = "SETUP" /\ pkt.ep = e)
  BY DEF RxEnd, OInv, SetupTrue
<1>5. CASE SetupAccepted /\ setup = e
  <2>1. hTog'[e] = 1 /\ toggle'[e] = 1
    BY <1>1, <1>5 DEF SetupAccepted, OInv, SetupTrue
  <2>2. state' = "Idle" /\ ~rdy'[e]
    BY <1>1, <1>5 DEF SetupAccepted, Cancel, RdyCleared, IInv, OneAtATime
  <2> QED
    BY <2>1, <2>2 DEF InSync, Live
<1>6. CASE LinkReset
  <2>1. toggle'[e] = 0 /\ hTog'[e] = 0 /\ state' = "Idle"
    BY <1>6 DEF LinkReset, AllZero, Goto
  <2>2. ~rdy'[e]
    BY <1>6 DEF LinkReset, Cancel, RdyCleared
  <2> QED
    BY <2>1, <2>2 DEF InSync, Live
<1>7. CASE TxEnd /\ HostAccepts /\ tx.ep = e
  <2>1. state \in {"SendData", "WaitTxEnd"} /\ cur = e /\ hasData /\ tx.k = memory[capt.buf] /\ tx.tog = toggle[e]
    BY <1>7 DEF HostAccepts, OInv, TxTrue
  <2>2. /\ sending[e] /\ ~sent[e] /\ ~pend[e] /\ armed[e] # NoBuf
        /\ tx.k = memory[armed[e]] /\ tx.k # 0
    BY <2>1, InAssumption DEF IInv, CollectedIntact
  <2>3. hLast'[e] = tx.k /\ hTog'[e] = 1 - hTog[e] /\ hTog[e] = toggle[e]
    BY <1>1, <1>7, <2>1, <2>2 DEF HostAccepts
  <2>4. UNCHANGED <<toggle, armed, memory, sending, sent, pend>>
    BY <1>7 DEF TxEnd, regVars, swVars
  <2> QED
    BY <1>1, <2>2, <2>3, <2>4 DEF Ahead
<1> QED
  BY <1>2, <1>3, <1>4, <1>5, <1>6, <1>7, QuietStep DEF OInv

\* The invariant holds throughout.
LEMMA OrderInductive == Spec => []OInv
<1>1. Init => OInv
  <2> SUFFICES ASSUME Init PROVE OInv
    OBVIOUS
  <2>1. Bounded /\ TxTrue /\ SetupTrue /\ AckTrue /\ Fresh /\ NoneStale
    BY DEF Init, Bounded, TxTrue, SetupTrue, AckTrue, Fresh, NoneStale, Live, AllZero, AllOff, NoTx, NoPkt
  <2>2. Synced
    BY DEF Init, Synced, InSync, Live, AllZero, AllOff
  <2> QED
    BY <2>1, <2>2 DEF OInv
<1>2. IInv /\ IInv' /\ OInv /\ [Next]_vars => OInv'
  BY BoundedStep, TxTrueStep, SetupTrueStep, AckTrueStep, SyncedStep, FreshStep, NoneStaleStep DEF OInv
<1> QED
  BY <1>1, <1>2, Inductive, PTL DEF Spec

\* Device and host disagree about a data toggle only while the host has taken the
\* packet that is still armed, its handshake lost or on its way, and while a SETUP is
\* under way.
THEOREM ToggleInSyncHolds == Spec => []ToggleInSync
<1>1. OInv => ToggleInSync
  <2> SUFFICES ASSUME OInv, NEW e \in Enabled, ~IsoEp(e), toggle[e] # hTog[e], hSetup # e
               PROVE  armed[e] # NoBuf /\ hLast[e] = memory[armed[e]] /\ sending[e] /\ ~sent[e]
    BY DEF ToggleInSync
  <2> QED
    BY InAssumption DEF OInv, Synced, InSync, Ahead
<1> QED
  BY <1>1, OrderInductive, PTL

\* What a SETUP packet or a bus reset has cancelled is on its way to the host no more.
THEOREM NoneStaleHolds == Spec => []NoneStale
<1>1. OInv => NoneStale
  BY DEF OInv
<1> QED
  BY <1>1, OrderInductive, PTL

-----------------------------------------------------------------------------
(* The endpoints with handshakes implement the channel.                    *)

\* The types of what the channel is made of.
LEMMA ReliableType ==
  IInv => /\ Reliable \subseteq Endpoints
          /\ hLast \in [Endpoints -> Serials] /\ reported \in [Endpoints -> Serials]
          /\ armed \in [Endpoints -> Buffers \cup {NoBuf}] /\ memory \in [Buffers -> Serials]
          /\ Serials \subseteq Nat /\ next \in Nat /\ next >= 1 /\ NoBuf \notin Buffers
BY InAssumption DEF Reliable, IInv, TypeOK, RegTypeOK, HostTypeOK, SwTypeOK, Serials

\* Nothing is armed at first.
LEMMA ChannelInit == Init => Channel!Init
<1> SUFFICES ASSUME Init PROVE Channel!Init
  OBVIOUS
<1>1. Reliable \subseteq Endpoints
  BY DEF Reliable
<1>2. Offered = [e \in Reliable |-> 0]
  BY <1>1 DEF Init, Offered
<1>3. [e \in Reliable |-> hLast[e]] = [e \in Reliable |-> 0] /\ [e \in Reliable |-> reported[e]] = [e \in Reliable |-> 0]
  BY <1>1 DEF Init, AllZero
<1> QED
  BY <1>2, <1>3 DEF Init, Channel!Init, Channel!None

\* Software hands over a packet.
LEMMA ArmOffers ==
  ASSUME IInv, NEW e \in Endpoints, NEW b \in Buffers, SwArm(e, b)
  PROVE  Channel!Next
<1>1. /\ UNCHANGED <<hLast, reported>> /\ next' - 1 = (next - 1) + 1
      /\ armed[e] = NoBuf /\ armed'[e] = b /\ memory'[b] = (next - 1) + 1 /\ b # NoBuf
      /\ \A x \in Endpoints \ {e} : armed'[x] = armed[x] /\ armed[x] # b
      /\ \A x \in Buffers \ {b} : memory'[x] = memory[x]
  BY ReliableType DEF SwArm, Unused, hostVars
<1>2. Reliable' = Reliable
  BY DEF Reliable, IsoEp
<1>3. \A x \in Reliable \ {e} : Offered'[x] = Offered[x]
  BY <1>1, <1>2, ReliableType DEF Offered
<1>4. CASE e \in Reliable
  <2>1. Offered[e] = 0 /\ Offered'[e] = (next - 1) + 1
    BY <1>1, <1>2, <1>4 DEF Offered
  <2>2. Offered' = [Offered EXCEPT ![e] = next' - 1]
    <3>1. Offered = [x \in Reliable |-> Offered[x]] /\ Offered' = [x \in Reliable |-> Offered'[x]]
      BY <1>2 DEF Offered
    <3>2. Offered'[e] = next' - 1
      BY <1>1, <2>1
    <3> QED
      BY <1>3, <1>4, <3>1, <3>2
  <2>3. Channel!Offer(e)
    BY <1>1, <2>1, <2>2 DEF Channel!Offer
  <2> QED
    BY <1>4, <2>3 DEF Channel!Next
<1>5. CASE e \notin Reliable
  <2>1. Offered' = Offered
    BY <1>2, <1>3, <1>5 DEF Offered
  <2>2. Channel!Elsewhere
    BY <1>1, <2>1 DEF Channel!Elsewhere
  <2> QED
    BY <2>2 DEF Channel!Next
<1> QED
  BY <1>4, <1>5

\* It gets its buffer back.
LEMMA ReclaimCloses ==
  ASSUME IInv, NEW e \in Endpoints, Reclaim(e), UNCHANGED <<hLast, reported>>
  PROVE  [Channel!Next]_(Channel!vars)
<1>1. Reliable' = Reliable
  BY DEF Reliable, IsoEp
<1>2. armed'[e] = NoBuf /\ \A x \in Endpoints \ {e} : armed'[x] = armed[x]
  BY ReliableType DEF Reclaim
<1>3. UNCHANGED <<memory, next>>
  BY DEF Reclaim
<1>4. CASE e \in Reliable
  <2>1. Offered' = [Offered EXCEPT ![e] = 0]
    BY <1>1, <1>2, <1>3, <1>4, ReliableType DEF Offered
  <2>2. Channel!Close(e)
    BY <1>3, <2>1 DEF Channel!Close
  <2> QED
    BY <1>4, <2>2 DEF Channel!Next
<1>5. CASE e \notin Reliable
  <2>1. Offered' = Offered
    BY <1>1, <1>2, <1>3, <1>5, ReliableType DEF Offered
  <2> QED
    BY <1>3, <2>1 DEF Channel!vars
<1> QED
  BY <1>4, <1>5

\* What leaves the packets of software, and what the host has taken and the device has
\* reported, alone.
LEMMA ChannelStutters ==
  ASSUME UNCHANGED <<next, armed, memory>>,
         \A e \in Reliable : hLast'[e] = hLast[e] /\ reported'[e] = reported[e]
  PROVE  UNCHANGED Channel!vars
<1>1. Reliable' = Reliable
  BY DEF Reliable, IsoEp
<1>2. Offered' = Offered
  BY <1>1 DEF Offered
<1> QED
  BY <1>2 DEF Channel!vars

\* The host takes the packet of a transmission.
LEMMA AcceptTakes ==
  ASSUME IInv, OInv, TxEnd
  PROVE  [Channel!Next]_(Channel!vars)
<1>1. UNCHANGED <<next, armed, memory, reported>>
  BY DEF TxEnd, swVars, histVars
<1>2. CASE HostAccepts /\ tx.ep \in Reliable
  <2>0. PICK e \in Reliable : e = tx.ep
    BY <1>2
  <2>1. e \in Endpoints /\ ~IsoEp(e) /\ tx.kind = "data" /\ tx.tog = hTog[e]
    BY <1>2, <2>0 DEF HostAccepts, Reliable
  <2>2. state \in {"SendData", "WaitTxEnd"} /\ e = cur /\ hasData /\ tx.k = memory[capt.buf] /\ tx.tog = toggle[e]
    BY <2>0, <2>1 DEF OInv, TxTrue
  <2>3. hSetup # e
    BY <2>2 DEF OInv, SetupTrue
  <2>4. armed[e] # NoBuf /\ tx.k = memory[armed[e]] /\ tx.k # 0
    BY <2>2, InAssumption DEF IInv, CollectedIntact
  <2>5. hLast[e] < memory[armed[e]]
    <3>1. InSync(e)
      BY <2>1, <2>2, <2>3 DEF OInv, Synced, Ahead
    <3> QED
      BY <2>2, <3>1 DEF InSync, Live
  <2>6. hLast' = [hLast EXCEPT ![e] = tx.k]
    BY <1>2, <2>0, <2>4 DEF HostAccepts
  <2>7. Offered[e] = tx.k
    BY <2>4 DEF Offered
  <2>8. Reliable' = Reliable /\ Offered' = Offered
    BY <1>1 DEF Reliable, IsoEp, Offered
  <2>9. [x \in Reliable |-> hLast[x]]' = [[x \in Reliable |-> hLast[x]] EXCEPT ![e] = Offered[e]]
    BY <2>6, <2>7, <2>8, ReliableType
  <2>10. Offered[e] > [x \in Reliable |-> hLast[x]][e]
    BY <2>4, <2>5, <2>7, ReliableType
  <2>11. Channel!Take(e)
    BY <1>1, <2>8, <2>9, <2>10 DEF Channel!Take
  <2> QED
    BY <2>11 DEF Channel!Next
<1>3. CASE ~(HostAccepts /\ tx.ep \in Reliable)
  <2>1. \A x \in Reliable : hLast'[x] = hLast[x]
    BY <1>3, ReliableType DEF TxEnd, HostAccepts, HostRepeats, HostHearsNone
  <2> QED
    BY <1>1, <2>1, ChannelStutters
<1> QED
  BY <1>2, <1>3

\* The device reports the packet whose handshake it gets.
LEMMA AckReports ==
  ASSUME IInv, OInv, RxEnd
  PROVE  [Channel!Next]_(Channel!vars)
<1>1. UNCHANGED <<next, armed, memory, hLast>>
  BY DEF RxEnd, swVars
<1>2. CASE pkt.kind = "ACK" /\ AckReceived /\ state = "WaitAck"
  <2>1. hasData /\ ~IsoEp(cur) /\ hSetup # cur /\ toggle[cur] # hTog[cur] /\ cur \in Endpoints
    BY <1>2 DEF OInv, AckTrue, IInv, TypeOK, FsmTypeOK
  <2>2. armed[cur] # NoBuf /\ hLast[cur] = memory[armed[cur]]
    BY <2>1 DEF OInv, Synced, InSync, Ahead
  <2>3. capt.buf = armed[cur] /\ memory[capt.buf] # 0
    BY <1>2, <2>1 DEF IInv, CollectedIntact
  <2>4. reported' = [reported EXCEPT ![cur] = memory[armed[cur]]]
    BY <1>2, <2>3 DEF AckReceived, XactEnd
  <2>5. PICK e \in Reliable : e = cur
    BY <2>1 DEF Reliable
  <2>6. Offered[e] = memory[armed[e]] /\ Offered[e] # 0
    BY <2>2, <2>3, <2>5 DEF Offered
  <2>7. Reliable' = Reliable /\ Offered' = Offered
    BY <1>1 DEF Reliable, IsoEp, Offered
  <2>8. [x \in Reliable |-> reported[x]]' = [[x \in Reliable |-> reported[x]] EXCEPT ![e] = Offered[e]]
    BY <2>4, <2>5, <2>6, <2>7, ReliableType
  <2>9. Channel!Report(e)
    BY <1>1, <2>2, <2>5, <2>6, <2>7, <2>8 DEF Channel!Report
  <2> QED
    BY <2>5, <2>9 DEF Channel!Next
<1>3. CASE ~(pkt.kind = "ACK" /\ AckReceived /\ state = "WaitAck")
  <2>1. UNCHANGED reported
    BY <1>3 DEF RxEnd, InToken, SetupToken, AckReceived, OtherEnd
  <2> QED
    BY <1>1, <2>1, ChannelStutters
<1> QED
  BY <1>2, <1>3

\* Every step is a step of the channel, or none.
LEMMA ChannelStep ==
  ASSUME IInv, OInv, [Next]_vars
  PROVE  [Channel!Next]_(Channel!vars)
<1>1. CASE TxByte \/ NoMoreData
  <2>1. UNCHANGED <<next, armed, memory, hLast>>
    BY <1>1 DEF TxByte, NoMoreData, swVars, hostVars
  <2>2. \A e \in Reliable : reported'[e] = reported[e]
    BY <1>1, ReliableType DEF TxByte, NoMoreData, DataDone, XactEnd, Reliable
  <2> QED
    BY <2>1, <2>2, ChannelStutters
<1>2. CASE \/ Respond \/ AckTimeout \/ SetupAccepted \/ SetupRefused \/ LinkReset \/ Suspend \/ LinkActive
           \/ UNCHANGED vars
  <2>1. UNCHANGED <<next, armed, memory, hLast, reported>>
    BY <1>2 DEF Respond, AckTimeout, SetupAccepted, SetupRefused, LinkReset, Suspend, LinkActive, vars, swVars,
       hostVars, histVars
  <2> QED
    BY <2>1, ChannelStutters
<1>3. CASE HostSteps
  <2>1. UNCHANGED <<next, armed, memory, hLast, reported>>
    BY <1>3 DEF HostSteps, HostAck, HostPoll, HostSendsSetup, HostSendsOther, HostTimeout, Begin, swVars, histVars
  <2> QED
    BY <2>1, ChannelStutters
<1>4. CASE Software
  <2>1. ASSUME NEW e \in Endpoints, SwSent(e) \/ SwCancelled(e) \/ SwRetracted(e)
        PROVE  [Channel!Next]_(Channel!vars)
    <3>1. Reclaim(e) /\ UNCHANGED <<hLast, reported>>
      BY <2>1 DEF SwSent, SwCancelled, SwRetracted, hostVars, histVars
    <3> QED
      BY <3>1, ReclaimCloses
  <2>2. ASSUME NEW e \in Endpoints, SwRetract(e) \/ \E v \in BOOLEAN : SwWriteStall(e, v)
        PROVE  [Channel!Next]_(Channel!vars)
    <3>1. UNCHANGED <<next, armed, memory, hLast, reported>>
      BY <2>2 DEF SwRetract, SwWriteStall, swVars, hostVars, histVars
    <3> QED
      BY <3>1, ChannelStutters
  <2> QED
    BY <1>4, <2>1, <2>2, ArmOffers DEF Software
<1> QED
  BY <1>1, <1>2, <1>3, <1>4, AcceptTakes, AckReports DEF Next, Device

\* Every endpoint with handshakes is a channel: whatever is lost, cancelled, retracted
\* or stalled, the host takes each packet at most once and in order, and only what it
\* has taken is reported as sent.
THEOREM IsChannelHolds == Spec => IsChannel
<1>1. IInv /\ OInv /\ [Next]_vars => [Channel!Next]_(Channel!vars)
  BY ChannelStep
<1> QED
  BY ChannelInit, <1>1, Inductive, OrderInductive, PTL DEF Spec, IsChannel, Channel!Spec

\* What holds of every channel holds of these endpoints.
ChannelFacts == INSTANCE UsbChannelProofs WITH
  Endpoints <- Reliable, newest <- next - 1, offered <- Offered,
  taken <- [e \in Reliable |-> hLast[e]], reported <- [e \in Reliable |-> reported[e]]

\* The theorems of UsbChannelProofs are about the same channel.
LEMMA ImplementsFacts == Spec => ChannelFacts!Spec
<1>1. Channel!Init => ChannelFacts!Init
  BY DEF Channel!Init, ChannelFacts!Init, Channel!None, ChannelFacts!None
<1>2. [Channel!Next]_(Channel!vars) => [ChannelFacts!Next]_(ChannelFacts!vars)
  BY DEF Channel!Next, ChannelFacts!Next, Channel!vars, ChannelFacts!vars, Channel!Elsewhere,
         ChannelFacts!Elsewhere, Channel!Offer, ChannelFacts!Offer, Channel!Take, ChannelFacts!Take,
         Channel!Report, ChannelFacts!Report, Channel!Close, ChannelFacts!Close
<1> QED
  BY <1>1, <1>2, IsChannelHolds, PTL DEF IsChannel, Channel!Spec, ChannelFacts!Spec

\* The device has reported nothing that the host has not taken, and the host has taken
\* nothing that software has not armed.
THEOREM ReportedWasTaken == Spec => [](\A e \in Reliable : reported[e] <= hLast[e] /\ hLast[e] < next)
<1>1. ChannelFacts!InOrder /\ OInv /\ IInv => \A e \in Reliable : reported[e] <= hLast[e] /\ hLast[e] < next
  BY ReliableType DEF ChannelFacts!InOrder, OInv, Bounded
<1> QED
  BY <1>1, ImplementsFacts, ChannelFacts!InOrderHolds, Inductive, OrderInductive, PTL

\* The host takes no packet twice, and none older than the last one it took.
THEOREM TakenNeverBack == Spec => [][\A e \in Reliable : hLast'[e] >= hLast[e]]_vars
<1>1. IInv /\ OInv /\ [Next]_vars => [\A e \in Reliable : hLast'[e] >= hLast[e]]_vars
  <2> SUFFICES ASSUME IInv, OInv, [Next]_vars, NEW e \in Reliable PROVE hLast'[e] >= hLast[e]
    OBVIOUS
  <2> DEFINE taken == [x \in Reliable |-> hLast[x]]
  <2>1. Reliable' = Reliable /\ taken[e] = hLast[e] /\ taken'[e] = hLast'[e] /\ hLast[e] \in Nat
    BY ReliableType DEF Reliable, IsoEp
  <2>2. taken' = taken \/ \E x \in Reliable : Offered[x] > taken[x] /\ taken' = [taken EXCEPT ![x] = Offered[x]]
    BY ChannelStep DEF Channel!Next, Channel!vars, Channel!Elsewhere, Channel!Offer, Channel!Take,
                       Channel!Report, Channel!Close
  <2>3. Offered[e] \in Nat
    BY ReliableType DEF Offered
  <2> HIDE DEF taken
  <2>4. taken'[e] = taken[e] \/ (Offered[e] > taken[e] /\ taken'[e] = Offered[e])
    BY <2>2 DEF taken
  <2> QED
    BY <2>1, <2>3, <2>4
<1> QED
  BY <1>1, Inductive, OrderInductive, PTL DEF Spec

=============================================================================
