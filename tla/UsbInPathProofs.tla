-------------------------- MODULE UsbInPathProofs --------------------------
(***************************************************************************)
(* Proofs about UsbInPath, for every number of endpoints and buffers and   *)
(* packets of every length.                                                *)
(***************************************************************************)
EXTENDS UsbInPath, TLAPS

\* One transmission at a time: the FSM, the packets on the bus in either direction,
\* the handshake the host owes and the SETUP packet the OUT side is receiving
\* exclude each other.
OneAtATime ==
  /\ state = "SendData" => tx \in DataTx /\ ~tx.done /\ tx.ep = cur
  /\ state = "WaitTxEnd" => tx \in DataTx /\ tx.done
  /\ state \in {"RcvdIn", "WaitAckStart", "WaitAck"} => tx = NoTx
  /\ pkt # NoPkt => state \in {"Idle", "WaitAck"} /\ tx = NoTx /\ ~ackDue /\ setup = NoEp
  /\ ackDue => state \in {"Idle", "WaitAckStart"} /\ tx = NoTx /\ setup = NoEp
  /\ setup # NoEp => state = "Idle" /\ tx = NoTx

\* A packet that is ready is the one software armed, of which nothing has been
\* reported; so is the packet being collected, whatever became of rdy since.
ReadyIntact ==
  \A e \in Endpoints : rdy[e] =>
    /\ armed[e] \in Buffers /\ cfg[e].buf = armed[e]
    /\ memory[armed[e]] # 0 /\ cfg[e].size = Size[memory[armed[e]]]
    /\ ~sent[e] /\ ~pend[e]

CollectedIntact ==
  state # "Idle" /\ hasData =>
    /\ sending[cur] /\ armed[cur] \in Buffers /\ capt.buf = armed[cur]
    /\ memory[capt.buf] # 0 /\ capt.size = Size[memory[capt.buf]]
    /\ ~sent[cur] /\ ~pend[cur]

\* A packet under retraction is still armed, and not ready.
RetractHeld == \A e \in Endpoints : retract[e] => ~rdy[e] /\ armed[e] # NoBuf

IInv == TypeOK /\ OneAtATime /\ ReadyIntact /\ CollectedIntact /\ RetractHeld

\* What a transmission is made of.
LEMMA TxShape ==
  ASSUME FsmTypeOK
  PROVE  /\ tx.kind = "data" <=> tx \in DataTx
         /\ tx \in DataTx => /\ tx.ep \in Endpoints /\ tx.tog \in {0, 1} /\ tx.k \in Serials
                             /\ tx.bytes \subseteq Serials /\ tx.n \in Nat /\ tx.done \in BOOLEAN
                             /\ tx # NoTx
BY DEF FsmTypeOK, TxKinds, DataTx, NoTx

\* The endpoint of a packet from the host.
LEMMA PktShape ==
  ASSUME HostTypeOK
  PROVE  pkt.kind \in {"IN", "SETUP"} => pkt.ep \in Endpoints
BY DEF HostTypeOK, PktKinds, NoPkt

\* A legal packet length.
LEMMA SizeRange ==
  ASSUME NEW k \in 1..MaxPackets
  PROVE  Size[k] \in 0..MaxPkt
BY InAssumption

\* The FSM, its transmission and the captured packet keep their types.
LEMMA FsmTypeStep == TypeOK /\ OneAtATime /\ [Next]_vars => FsmTypeOK'
<1> SUFFICES ASSUME TypeOK, OneAtATime, [Next]_vars PROVE FsmTypeOK'
  OBVIOUS
<1> USE DEF TypeOK, fsmVars
<1>1. /\ \A e \in Endpoints : cfg[e] \in Descr /\ (rdy[e] \in BOOLEAN)
      /\ \A b \in Buffers : memory[b] \in Serials
      /\ 0 \in 0..(MaxPkt - 1) /\ 0 \in Serials /\ capt.buf \in Buffers
  BY InAssumption DEF RegTypeOK, SwTypeOK, FsmTypeOK, Descr, Flags, Serials
<1>2. ASSUME NEW s \in States, Goto(s)
      PROVE  state' \in States /\ addr' \in 0..(MaxPkt - 1)
  BY <1>1, <1>2 DEF Goto, FsmTypeOK
<1>3. \A e \in Endpoints : toggle[e] = 0 \/ toggle[e] = 1
  BY DEF FsmTypeOK
<1>4. CASE RxEnd
  <2>1. CASE pkt.kind = "IN" /\ InToken(pkt.ep)
    <3>1. pkt.ep \in Endpoints
      BY <2>1, PktShape
    <3>2. capt' \in Descr /\ cur' \in Endpoints /\ hasData' \in BOOLEAN
      BY <1>1, <2>1, <3>1 DEF InToken, Capture, FsmTypeOK
    <3>3. state' \in States /\ addr' \in 0..(MaxPkt - 1)
      BY <1>2, <2>1 DEF InToken, States
    <3> QED
      BY <1>4, <2>1, <3>2, <3>3 DEF RxEnd, InToken, FsmTypeOK
  <2>2. CASE pkt.kind = "SETUP" /\ SetupToken(pkt.ep)
    <3>1. pkt.ep \in Endpoints
      BY <2>2, PktShape
    <3>2. state' \in States /\ addr' \in 0..(MaxPkt - 1)
      BY <1>2, <2>2 DEF SetupToken, States
    <3>3. toggle' \in [Endpoints -> {0, 1}]
      BY <2>2 DEF SetupToken, ToggleOfSetup, FsmTypeOK
    <3> QED
      BY <1>4, <2>2, <3>1, <3>2, <3>3 DEF RxEnd, SetupToken, FsmTypeOK
  <2>3. CASE AckReceived
    <3>1. state' \in States /\ addr' \in 0..(MaxPkt - 1)
      BY <1>2, <2>3 DEF AckReceived, States
    <3>2. toggle' \in [Endpoints -> {0, 1}]
      BY <1>3, <2>3 DEF AckReceived, Flip, FsmTypeOK
    <3> QED
      BY <1>4, <2>3, <3>1, <3>2 DEF RxEnd, AckReceived, FsmTypeOK
  <2>4. CASE OtherEnd
    <3>1. state' \in States /\ addr' \in 0..(MaxPkt - 1)
      BY <1>2, <2>4 DEF OtherEnd, States
    <3> QED
      BY <1>4, <2>4, <3>1 DEF RxEnd, OtherEnd, FsmTypeOK
  <2> QED
    BY <1>4, <2>1, <2>2, <2>3, <2>4 DEF RxEnd
<1>5. CASE Respond
  <2>1. state' \in States /\ addr' \in 0..(MaxPkt - 1)
    BY <1>2, <1>5 DEF Respond, States
  <2>2. \A t \in {0, 1} : DataPacket(t) \in DataTx
    <3>1. (IF hasData THEN memory[capt.buf] ELSE 0) \in Serials
      BY <1>1
    <3> QED
      BY <3>1 DEF DataPacket, DataTx, FsmTypeOK
  <2>3. toggle[cur] \in {0, 1}
    BY DEF FsmTypeOK
  <2>4. tx' \in TxKinds \cup DataTx
    BY <1>5, <2>2, <2>3 DEF Respond, TxKinds
  <2> QED
    BY <1>5, <2>1, <2>4 DEF Respond, FsmTypeOK
<1>6. CASE TxByte \/ NoMoreData
  <2>1. tx \in DataTx /\ tx.n \in Nat /\ tx.bytes \subseteq Serials
    BY <1>6, TxShape DEF OneAtATime, TxByte, NoMoreData
  <2>2. state' \in States
    BY <1>6 DEF TxByte, NoMoreData, DataDone, States
  <2>3. addr' \in 0..(MaxPkt - 1)
    BY <1>1, <1>6, InAssumption DEF TxByte, NoMoreData, FsmTypeOK
  <2>4. tx' \in DataTx
    <3>1. /\ tx.bytes \cup {memory[capt.buf]} \in SUBSET Serials
          /\ tx.n + 1 \in Nat /\ (addr = MaxPkt - 1) \in BOOLEAN
      BY <1>1, <2>1
    <3> QED
      BY <1>6, <2>1, <3>1 DEF TxByte, NoMoreData, DataTx
  <2> QED
    BY <1>6, <2>2, <2>3, <2>4 DEF TxByte, NoMoreData, FsmTypeOK
<1>7. CASE AckTimeout
  <2>1. state' \in States /\ addr' \in 0..(MaxPkt - 1)
    BY <1>2, <1>7 DEF AckTimeout, States
  <2> QED
    BY <1>7, <2>1 DEF AckTimeout, FsmTypeOK
<1>8. CASE TxEnd
  <2>1. state' \in States /\ addr' \in 0..(MaxPkt - 1)
    BY <1>2, <1>8 DEF TxEnd, States, FsmTypeOK
  <2> QED
    BY <1>8, <2>1 DEF TxEnd, FsmTypeOK, TxKinds
<1>9. CASE SetupAccepted \/ SetupRefused
  BY <1>9 DEF SetupAccepted, SetupRefused, FsmTypeOK
<1>10. CASE LinkReset
  <2>1. state' \in States /\ addr' \in 0..(MaxPkt - 1)
    BY <1>2, <1>10 DEF LinkReset, States
  <2> QED
    BY <1>10, <2>1 DEF LinkReset, FsmTypeOK, TxKinds, AllZero
<1>11. CASE Suspend
  <2>1. state' \in States /\ addr' \in 0..(MaxPkt - 1)
    BY <1>2, <1>11 DEF Suspend, States
  <2> QED
    BY <1>11, <2>1 DEF Suspend, FsmTypeOK
<1>12. CASE LinkActive
  BY <1>12 DEF LinkActive, FsmTypeOK
<1>13. CASE HostSteps
  <2>1. ASSUME NEW p, Begin(p)
        PROVE  FsmTypeOK'
    <3>1. state' \in States /\ addr' \in 0..(MaxPkt - 1)
      BY <1>2, <2>1 DEF Begin, States, FsmTypeOK
    <3> QED
      BY <2>1, <3>1 DEF Begin, FsmTypeOK
  <2>2. CASE HostTimeout
    BY <2>2 DEF HostTimeout, FsmTypeOK
  <2> QED
    BY <1>13, <2>1, <2>2 DEF HostSteps, HostAck, HostPoll, HostSendsSetup, HostSendsOther
<1>14. CASE Software
  BY <1>14 DEF Software, SwArm, SwSent, SwCancelled, SwRetract, SwRetracted, SwWriteStall, FsmTypeOK
<1>15. CASE UNCHANGED vars
  BY <1>15 DEF vars, FsmTypeOK
<1> QED
  BY <1>4, <1>5, <1>6, <1>7, <1>8, <1>9, <1>10, <1>11, <1>12, <1>13, <1>14, <1>15 DEF Next, Device

\* The registers keep their types.
LEMMA RegTypeStep == TypeOK /\ OneAtATime /\ [Next]_vars => RegTypeOK'
<1> SUFFICES ASSUME TypeOK, OneAtATime, [Next]_vars PROVE RegTypeOK'
  OBVIOUS
<1> USE DEF TypeOK, regVars, histVars, Flags
<1>1. /\ \A b \in Buffers : memory[b] \in Serials
      /\ capt.buf \in Buffers /\ cur \in Endpoints
  BY DEF SwTypeOK, FsmTypeOK, Descr
<1>2. tx \in DataTx => tx.k \in Serials
  BY TxShape
<1>3. ASSUME NEW k \in Serials, XactEnd(k)
      PROVE  rdy' \in Flags /\ sending' \in Flags /\ sent' \in Flags /\ reported' \in [Endpoints -> Serials]
  BY <1>1, <1>3 DEF XactEnd, RegTypeOK
<1>4. ASSUME NEW S, Cancel(S)
      PROVE  rdy' \in Flags /\ sending' \in Flags /\ pend' \in Flags /\ cancelled' \in [Endpoints -> Serials]
  <2>1. rdy' \in Flags /\ sending' \in Flags /\ pend' \in Flags
    BY <1>4 DEF Cancel, RdyCleared, RegTypeOK
  <2>2. \A e \in Endpoints : memory[cfg[e].buf] \in Serials
    BY <1>1 DEF RegTypeOK, Descr
  <2>3. cancelled' \in [Endpoints -> Serials]
    BY <1>4, <2>2 DEF Cancel, RegTypeOK
  <2> QED
    BY <2>1, <2>3
<1>5. CASE RxEnd
  <2>1. CASE pkt.kind = "IN" /\ InToken(pkt.ep)
    <3>1. sending' \in Flags
      BY <2>1 DEF InToken, Capture, RegTypeOK
    <3> QED
      BY <1>5, <2>1, <3>1 DEF RxEnd, InToken, RegTypeOK
  <2>2. CASE pkt.kind = "SETUP" /\ SetupToken(pkt.ep)
    BY <1>5, <2>2 DEF RxEnd, SetupToken, RegTypeOK
  <2>3. CASE AckReceived
    <3>1. rdy' \in Flags /\ sending' \in Flags /\ sent' \in Flags /\ reported' \in [Endpoints -> Serials]
      BY <1>1, <1>3, <2>3 DEF AckReceived, RegTypeOK
    <3> QED
      BY <1>5, <2>3, <3>1 DEF RxEnd, RegTypeOK
  <2>4. CASE OtherEnd
    BY <1>5, <2>4 DEF RxEnd, OtherEnd, RegTypeOK
  <2> QED
    BY <1>5, <2>1, <2>2, <2>3, <2>4 DEF RxEnd
<1>6. CASE TxByte \/ NoMoreData
  <2>1. tx.k \in Serials
    BY <1>2, <1>6 DEF OneAtATime, TxByte, NoMoreData
  <2>2. rdy' \in Flags /\ sending' \in Flags /\ sent' \in Flags /\ reported' \in [Endpoints -> Serials]
    BY <1>3, <1>6, <2>1 DEF TxByte, NoMoreData, DataDone, RegTypeOK
  <2> QED
    BY <1>6, <2>2 DEF TxByte, NoMoreData, RegTypeOK
<1>7. CASE AckTimeout
  BY <1>7 DEF AckTimeout, RolledBack, RegTypeOK
<1>8. CASE SetupAccepted \/ LinkReset
  <2>1. rdy' \in Flags /\ sending' \in Flags /\ pend' \in Flags /\ cancelled' \in [Endpoints -> Serials]
    BY <1>4, <1>8 DEF SetupAccepted, LinkReset
  <2>2. stall' \in Flags
    BY <1>8 DEF SetupAccepted, LinkReset, RegTypeOK
  <2> QED
    BY <1>8, <2>1, <2>2 DEF SetupAccepted, LinkReset, RegTypeOK
<1>9. CASE Respond \/ TxEnd \/ SetupRefused \/ Suspend \/ LinkActive
  BY <1>9 DEF Respond, TxEnd, SetupRefused, Suspend, LinkActive, RegTypeOK
<1>10. CASE HostSteps
  BY <1>10 DEF HostSteps, HostAck, HostPoll, HostSendsSetup, HostSendsOther, HostTimeout, Begin, RegTypeOK
<1>11. CASE Software
  <2>1. ASSUME NEW e \in Endpoints, NEW b \in Buffers, SwArm(e, b)
        PROVE  RegTypeOK'
    <3>1. next \in 1..MaxPackets
      BY <2>1, InAssumption DEF SwArm, SwTypeOK
    <3>2. [buf |-> b, size |-> Size[next]] \in Descr
      BY <3>1, SizeRange DEF Descr
    <3>3. cfg' \in [Endpoints -> Descr] /\ rdy' \in Flags
      BY <2>1, <3>2 DEF SwArm, RegTypeOK
    <3> QED
      BY <2>1, <3>3 DEF SwArm, RegTypeOK
  <2>2. ASSUME NEW e \in Endpoints, SwSent(e) \/ SwCancelled(e) \/ SwRetract(e) \/ SwRetracted(e)
        PROVE  RegTypeOK'
    BY <2>2 DEF SwSent, SwCancelled, SwRetract, SwRetracted, RegTypeOK
  <2>3. ASSUME NEW e \in Endpoints, NEW v \in BOOLEAN, SwWriteStall(e, v)
        PROVE  RegTypeOK'
    BY <2>3 DEF SwWriteStall, RegTypeOK
  <2> QED
    BY <1>11, <2>1, <2>2, <2>3 DEF Software
<1>12. CASE UNCHANGED vars
  BY <1>12 DEF vars, RegTypeOK
<1> QED
  BY <1>5, <1>6, <1>7, <1>8, <1>9, <1>10, <1>11, <1>12 DEF Next, Device

\* So does the driver's state.
LEMMA SwTypeStep == TypeOK /\ [Next]_vars => SwTypeOK'
<1> SUFFICES ASSUME TypeOK, [Next]_vars PROVE SwTypeOK'
  OBVIOUS
<1> USE DEF TypeOK, swVars
<1>1. ASSUME NEW e \in Endpoints, NEW b \in Buffers, SwArm(e, b)
      PROVE  SwTypeOK'
  <2>1. next \in Serials /\ next' \in 1..(MaxPackets + 1)
    BY <1>1, InAssumption DEF SwArm, SwTypeOK, Serials
  <2>2. memory' \in [Buffers -> Serials] /\ armed' \in [Endpoints -> Buffers \cup {NoBuf}]
    BY <1>1, <2>1 DEF SwArm, SwTypeOK
  <2> QED
    BY <1>1, <2>1, <2>2 DEF SwArm, SwTypeOK
<1>2. ASSUME NEW e \in Endpoints, Reclaim(e)
      PROVE  SwTypeOK'
  BY <1>2 DEF Reclaim, SwTypeOK, Flags
<1>3. CASE Software
  BY <1>1, <1>2, <1>3 DEF Software, SwSent, SwCancelled, SwRetract, SwRetracted, SwWriteStall, SwTypeOK, Flags
<1>4. CASE Device \/ HostSteps \/ UNCHANGED vars
  BY <1>4 DEF Device, HostSteps, RxEnd, Respond, TxByte, NoMoreData, AckTimeout, TxEnd, SetupAccepted,
     SetupRefused, LinkReset, Suspend, LinkActive, HostAck, HostPoll, HostSendsSetup, HostSendsOther,
     HostTimeout, Begin, vars, SwTypeOK
<1> QED
  BY <1>3, <1>4 DEF Next

\* And the host's.
LEMMA HostTypeStep == TypeOK /\ [Next]_vars => HostTypeOK'
<1> SUFFICES ASSUME TypeOK, [Next]_vars PROVE HostTypeOK'
  OBVIOUS
<1> USE DEF TypeOK, hostVars
<1>1. \A e \in Endpoints : hTog[e] = 0 \/ hTog[e] = 1
  BY DEF HostTypeOK
<1>2. CASE TxEnd
  <2>1. /\ tx.kind = "data" => tx.ep \in Endpoints /\ tx.k \in Serials
    BY TxShape
  <2>2. CASE HostAccepts
    <3>1. hTog' \in [Endpoints -> {0, 1}]
      BY <1>1, <2>1, <2>2 DEF HostAccepts, HostTypeOK
    <3>2. hLast' \in [Endpoints -> Serials]
      BY <2>1, <2>2 DEF HostAccepts, HostTypeOK
    <3>3. ackDue' \in BOOLEAN
      BY <2>2 DEF HostAccepts, IsoEp
    <3> QED
      BY <1>2, <3>1, <3>2, <3>3 DEF TxEnd, HostTypeOK
  <2>3. CASE HostRepeats \/ HostHearsNone
    BY <1>2, <2>3 DEF TxEnd, HostRepeats, HostHearsNone, HostTypeOK
  <2> QED
    BY <1>2, <2>2, <2>3 DEF TxEnd
<1>3. CASE RxEnd
  BY <1>3 DEF RxEnd, HostTypeOK, PktKinds
<1>4. CASE SetupAccepted
  <2>1. setup \in Endpoints
    BY <1>4 DEF SetupAccepted, FsmTypeOK
  <2>2. hTog' \in [Endpoints -> {0, 1}] /\ hSetup' \in Endpoints \cup {NoEp}
    BY <1>4, <2>1 DEF SetupAccepted, HostTypeOK
  <2> QED
    BY <1>4, <2>2 DEF SetupAccepted, HostTypeOK
<1>5. CASE LinkReset
  BY <1>5 DEF LinkReset, HostTypeOK, PktKinds, AllZero
<1>6. CASE HostSteps
  <2>1. CASE HostAck \/ HostSendsOther
    BY <2>1 DEF HostAck, HostSendsOther, Begin, HostTypeOK, PktKinds
  <2>2. ASSUME NEW e \in Endpoints, HostPoll(e) \/ HostSendsSetup(e)
        PROVE  HostTypeOK'
    BY <2>2 DEF HostPoll, HostSendsSetup, Begin, HostTypeOK, PktKinds
  <2>3. CASE HostTimeout
    BY <2>3 DEF HostTimeout, HostTypeOK
  <2> QED
    BY <1>6, <2>1, <2>2, <2>3 DEF HostSteps
<1>7. CASE Software
  BY <1>7 DEF Software, SwArm, SwSent, SwCancelled, SwRetract, SwRetracted, SwWriteStall, HostTypeOK
<1>8. CASE Respond \/ TxByte \/ NoMoreData \/ AckTimeout \/ SetupRefused \/ Suspend \/ LinkActive
           \/ UNCHANGED vars
  BY <1>8 DEF Respond, TxByte, NoMoreData, AckTimeout, SetupRefused, Suspend, LinkActive, vars, HostTypeOK
<1> QED
  BY <1>2, <1>3, <1>4, <1>5, <1>6, <1>7, <1>8 DEF Next, Device

\* The bus has one transmitter at a time, which the state of the FSM tells.
LEMMA OneAtATimeStep == TypeOK /\ OneAtATime /\ [Next]_vars => OneAtATime'
<1> SUFFICES ASSUME TypeOK, OneAtATime, [Next]_vars PROVE OneAtATime'
  OBVIOUS
<1> USE DEF fsmVars, hostVars, Goto
<1>1. /\ tx.kind = "data" <=> tx \in DataTx
      /\ NoTx \notin DataTx
  BY TxShape DEF TypeOK, DataTx, NoTx
<1>2. pkt # NoPkt => state \in {"Idle", "WaitAck"} /\ tx = NoTx /\ ~ackDue /\ setup = NoEp
  BY DEF OneAtATime
<1>3. CASE RxEnd
  <2>1. /\ tx' = NoTx /\ ackDue' = FALSE /\ pkt' = NoPkt
        /\ state' \in {"RcvdIn", "Idle"} /\ (setup' # NoEp => state' = "Idle")
    BY <1>2, <1>3 DEF RxEnd, InToken, SetupToken, AckReceived, OtherEnd, TypeOK, HostTypeOK
  <2> QED
    BY <1>1, <2>1 DEF OneAtATime
<1>4. CASE Respond
  <2>1. /\ pkt = NoPkt /\ ackDue = FALSE /\ setup = NoEp
    BY <1>4 DEF Respond, OneAtATime, TypeOK, HostTypeOK
  <2>2. \A t : DataPacket(t).done = FALSE /\ DataPacket(t).ep = cur
    BY DEF DataPacket
  <2>3. \A t \in {0, 1} : DataPacket(t) \in DataTx
    <3>1. capt.buf \in Buffers /\ 0 \in Serials
      BY InAssumption DEF TypeOK, FsmTypeOK, Descr, Serials
    <3>2. (IF hasData THEN memory[capt.buf] ELSE 0) \in Serials
      BY <3>1 DEF TypeOK, SwTypeOK
    <3> QED
      BY <3>2 DEF DataPacket, DataTx, TypeOK, FsmTypeOK
  <2>4. toggle[cur] \in {0, 1}
    BY DEF TypeOK, FsmTypeOK
  <2>5. \/ state' = "Idle"
        \/ state' = "SendData" /\ tx' \in DataTx /\ tx'.done = FALSE /\ tx'.ep = cur
    BY <1>4, <2>2, <2>3, <2>4 DEF Respond
  <2> QED
    BY <1>4, <2>1, <2>5 DEF Respond, OneAtATime
<1>5. CASE TxByte \/ NoMoreData
  <2>1. tx \in DataTx /\ tx.ep = cur /\ tx.done = FALSE /\ tx.n \in Nat /\ tx.bytes \subseteq Serials /\ tx # NoTx
    BY <1>5, TxShape DEF TypeOK, OneAtATime, TxByte, NoMoreData
  <2>2. /\ pkt = NoPkt /\ ackDue = FALSE /\ setup = NoEp
    BY <1>5, <2>1 DEF TxByte, NoMoreData, OneAtATime, TypeOK, HostTypeOK
  <2>3. memory[capt.buf] \in Serials
    BY DEF TypeOK, FsmTypeOK, SwTypeOK, Descr
  <2>4. tx' \in DataTx /\ tx'.ep = cur
    <3>1. /\ tx.bytes \cup {memory[capt.buf]} \in SUBSET Serials
          /\ tx.n + 1 \in Nat /\ (addr = MaxPkt - 1) \in BOOLEAN
      BY <2>1, <2>3
    <3> QED
      BY <1>5, <2>1, <3>1 DEF TxByte, NoMoreData, DataTx
  <2>5. \/ state' = "SendData" /\ tx'.done = FALSE
        \/ state' \in {"Idle", "WaitTxEnd"} /\ tx'.done = TRUE
    <3>1. CASE TxByte /\ addr = MaxPkt - 1
      BY <2>1, <3>1 DEF TxByte, DataDone, DataTx
    <3>2. CASE TxByte /\ addr # MaxPkt - 1
      BY <2>1, <3>2 DEF TxByte, DataTx
    <3>3. CASE NoMoreData
      BY <2>1, <3>3 DEF NoMoreData, DataDone, DataTx
    <3> QED
      BY <1>5, <3>1, <3>2, <3>3
  <2>6. UNCHANGED <<cur, pkt, ackDue, setup>>
    BY <1>5 DEF TxByte, NoMoreData
  <2> QED
    BY <2>2, <2>4, <2>5, <2>6 DEF OneAtATime
<1>6. CASE AckTimeout
  BY <1>6 DEF AckTimeout, OneAtATime
<1>7. CASE TxEnd
  <2>1. pkt = NoPkt /\ setup = NoEp /\ tx' = NoTx
    BY <1>7 DEF TxEnd, OneAtATime
  <2>2. state \in {"Idle", "WaitTxEnd"}
    BY <1>1, <1>7 DEF TxEnd, OneAtATime, TypeOK, FsmTypeOK, States
  <2>3. state' \in {"Idle", "WaitAckStart"}
    BY <1>7, <2>2 DEF TxEnd
  <2> QED
    BY <1>7, <2>1, <2>3 DEF TxEnd, OneAtATime
<1>8. CASE SetupAccepted \/ SetupRefused
  <2>1. setup' = NoEp /\ UNCHANGED <<state, cur, tx, pkt, ackDue>>
    BY <1>8 DEF SetupAccepted, SetupRefused
  <2> QED
    BY <2>1 DEF OneAtATime
<1>9. CASE LinkReset
  BY <1>9 DEF LinkReset, OneAtATime
<1>10. CASE Suspend \/ LinkActive
  BY <1>10 DEF Suspend, LinkActive, OneAtATime
<1>11. CASE HostSteps
  <2>1. ASSUME NEW p, Begin(p), pkt = NoPkt, tx = NoTx, setup = NoEp, ackDue' = FALSE,
               state \in {"Idle", "WaitAckStart"}
        PROVE  OneAtATime'
    BY <2>1 DEF Begin, OneAtATime
  <2>2. CASE HostAck
    BY <2>1, <2>2 DEF HostAck, OneAtATime
  <2>3. ASSUME NEW e \in Endpoints, HostPoll(e) \/ HostSendsSetup(e) \/ HostSendsOther
        PROVE  OneAtATime'
    <3>1. ackDue = FALSE
      BY <2>3 DEF HostPoll, HostSendsSetup, HostSendsOther, HostFree, TypeOK, HostTypeOK
    <3> QED
      BY <2>1, <2>3, <3>1 DEF HostPoll, HostSendsSetup, HostSendsOther, HostFree
  <2>4. CASE HostTimeout
    BY <2>4 DEF HostTimeout, OneAtATime
  <2>5. cur \in Endpoints
    BY DEF TypeOK, FsmTypeOK
  <2> QED
    BY <1>11, <2>2, <2>3, <2>4, <2>5 DEF HostSteps
<1>12. CASE Software \/ UNCHANGED vars
  BY <1>12 DEF Software, SwArm, SwSent, SwCancelled, SwRetract, SwRetracted, SwWriteStall, vars, OneAtATime
<1> QED
  BY <1>3, <1>4, <1>5, <1>6, <1>7, <1>8, <1>9, <1>10, <1>11, <1>12 DEF Next, Device

\* A buffer is not written while its packet is ready, nor while it is collected.
LEMMA IntactStep == IInv /\ [Next]_vars => ReadyIntact' /\ CollectedIntact'
<1> SUFFICES ASSUME IInv, [Next]_vars PROVE ReadyIntact' /\ CollectedIntact'
  OBVIOUS
<1> USE DEF IInv, fsmVars, regVars, swVars, hostVars, histVars, Goto
<1>1. /\ rdy \in Flags /\ sending \in Flags /\ pend \in Flags /\ sent \in Flags
      /\ cur \in Endpoints /\ armed \in [Endpoints -> Buffers \cup {NoBuf}]
      /\ memory \in [Buffers -> Serials] /\ cfg \in [Endpoints -> Descr]
  BY DEF TypeOK, FsmTypeOK, RegTypeOK, SwTypeOK
<1>2. ASSUME NEW k, XactEnd(k), UNCHANGED <<cfg, armed, memory, pend>>
      PROVE  ReadyIntact'
  BY <1>1, <1>2 DEF XactEnd, ReadyIntact, Flags
<1>3. CASE RxEnd
  <2>1. state \in {"Idle", "WaitAck"} /\ UNCHANGED <<cfg, armed, memory, pend>>
    BY <1>3 DEF RxEnd, OneAtATime
  <2>2. CASE pkt.kind = "IN" /\ InToken(pkt.ep)
    <3>1. pkt.ep \in Endpoints
      BY <2>2, PktShape DEF TypeOK
    <3>2. ReadyIntact'
      BY <2>1, <2>2 DEF InToken, ReadyIntact
    <3>3. CASE pkt.ep \in Enabled
      <4>1. capt' = cfg[pkt.ep] /\ sending'[pkt.ep] = TRUE /\ cur' = pkt.ep /\ hasData' = rdy[pkt.ep]
        BY <1>1, <2>1, <2>2, <3>1, <3>3 DEF InToken, Capture, Flags
      <4> QED
        BY <2>1, <2>2, <3>1, <3>2, <4>1 DEF InToken, ReadyIntact, CollectedIntact
    <3>4. CASE pkt.ep \notin Enabled
      BY <2>2, <3>2, <3>4 DEF InToken, CollectedIntact
    <3> QED
      BY <3>3, <3>4
  <2>3. CASE SetupToken(pkt.ep) \/ OtherEnd
    BY <2>1, <2>3 DEF SetupToken, OtherEnd, ReadyIntact, CollectedIntact
  <2>4. CASE AckReceived
    <3>1. ReadyIntact'
      BY <1>2, <2>1, <2>4 DEF AckReceived, ReadyIntact
    <3> QED
      BY <2>4, <3>1 DEF AckReceived, CollectedIntact
  <2> QED
    BY <1>3, <2>2, <2>3, <2>4 DEF RxEnd
<1>4. CASE Respond \/ AckTimeout \/ TxEnd \/ SetupRefused \/ Suspend \/ LinkActive
  <2>1. UNCHANGED <<cur, hasData, capt, cfg, rdy, sending, pend, sent, armed, memory>>
    BY <1>4 DEF Respond, AckTimeout, RolledBack, TxEnd, SetupRefused, Suspend, LinkActive
  <2>2. state' # "Idle" => state # "Idle"
    BY <1>4 DEF Respond, AckTimeout, TxEnd, SetupRefused, Suspend, LinkActive
  <2> QED
    BY <2>1, <2>2 DEF ReadyIntact, CollectedIntact
<1>5. CASE TxByte \/ NoMoreData
  <2>1. UNCHANGED <<cur, hasData, capt, cfg, pend, armed, memory>> /\ state = "SendData"
    BY <1>5 DEF TxByte, NoMoreData
  <2>2. \/ UNCHANGED <<rdy, sending, sent>>
        \/ state' = "Idle" /\ XactEnd(tx.k)
    BY <1>5 DEF TxByte, NoMoreData, DataDone
  <2>3. CASE UNCHANGED <<rdy, sending, sent>>
    BY <2>1, <2>3 DEF ReadyIntact, CollectedIntact
  <2>4. CASE state' = "Idle" /\ XactEnd(tx.k)
    BY <1>2, <2>1, <2>4 DEF CollectedIntact
  <2> QED
    BY <2>2, <2>3, <2>4
<1>6. CASE SetupAccepted \/ LinkReset
  <2>1. state' = "Idle" /\ UNCHANGED <<cfg, armed, memory, sent>>
    BY <1>6 DEF SetupAccepted, LinkReset, OneAtATime
  <2>2. PICK S : Cancel(S)
    BY <1>6 DEF SetupAccepted, LinkReset
  <2>3. \A e \in Endpoints : rdy'[e] => rdy[e] /\ pend'[e] = pend[e]
    BY <1>1, <2>2 DEF Cancel, RdyCleared, Flags
  <2> QED
    BY <2>1, <2>3 DEF ReadyIntact, CollectedIntact
<1>7. CASE HostSteps \/ UNCHANGED vars
  <2>1. UNCHANGED <<cur, hasData, capt, cfg, rdy, sending, pend, sent, armed, memory>>
    BY <1>7 DEF HostSteps, HostAck, HostPoll, HostSendsSetup, HostSendsOther, HostTimeout, Begin, vars
  <2>2. state' # "Idle" => state # "Idle"
    BY <1>7 DEF HostSteps, HostAck, HostPoll, HostSendsSetup, HostSendsOther, HostTimeout, Begin, vars
  <2> QED
    BY <2>1, <2>2 DEF ReadyIntact, CollectedIntact
<1>8. ASSUME NEW e \in Endpoints, NEW b \in Buffers, SwArm(e, b)
      PROVE  ReadyIntact' /\ CollectedIntact'
  <2>1. next # 0 /\ b # NoBuf
    BY InAssumption DEF TypeOK, SwTypeOK
  <2>2. /\ armed' = [armed EXCEPT ![e] = b] /\ memory' = [memory EXCEPT ![b] = next]
        /\ cfg' = [cfg EXCEPT ![e] = [buf |-> b, size |-> Size[next]]]
        /\ rdy' = [rdy EXCEPT ![e] = TRUE]
        /\ armed[e] = NoBuf /\ ~pend[e] /\ ~sent[e] /\ (\A x \in Endpoints : armed[x] # b)
        /\ UNCHANGED <<state, cur, hasData, capt, sending, pend, sent>>
    BY <1>8 DEF SwArm, Unused
  <2>3. ASSUME NEW x \in Endpoints, rdy'[x]
        PROVE  /\ armed'[x] \in Buffers /\ cfg'[x].buf = armed'[x]
               /\ memory'[armed'[x]] # 0 /\ cfg'[x].size = Size[memory'[armed'[x]]]
               /\ ~sent'[x] /\ ~pend'[x]
    <3>1. CASE x = e
      BY <1>1, <2>1, <2>2, <3>1
    <3>2. CASE x # e
      <4>1. rdy[x] /\ armed'[x] = armed[x] /\ cfg'[x] = cfg[x] /\ armed[x] # b
        BY <1>1, <2>2, <2>3, <3>2 DEF Flags
      <4> QED
        BY <1>1, <2>2, <4>1 DEF ReadyIntact
    <3> QED
      BY <3>1, <3>2
  <2>4. ASSUME state' # "Idle" /\ hasData'
        PROVE  CollectedIntact'
    <3>1. capt.buf = armed[cur] /\ armed[cur] \in Buffers /\ cur # e /\ armed[cur] # b
      BY <1>1, <2>2, <2>4, InAssumption DEF CollectedIntact
    <3>2. armed'[cur] = armed[cur] /\ memory'[capt.buf] = memory[capt.buf]
      BY <1>1, <2>2, <3>1
    <3> QED
      BY <2>2, <2>4, <3>1, <3>2 DEF CollectedIntact
  <2> QED
    BY <2>3, <2>4 DEF ReadyIntact, CollectedIntact
<1>9. ASSUME NEW e \in Endpoints, Reclaim(e), ~rdy[e],
             ~(state # "Idle" /\ hasData /\ cur = e),
             UNCHANGED <<state, cur, hasData, capt, cfg, rdy, sending>>,
             \A x \in Endpoints : (sent'[x] => sent[x]) /\ (pend'[x] => pend[x])
      PROVE  ReadyIntact' /\ CollectedIntact'
  <2>1. memory' = memory /\ (\A x \in Endpoints : x # e => armed'[x] = armed[x])
    BY <1>1, <1>9 DEF Reclaim
  <2> QED
    BY <1>1, <1>9, <2>1 DEF ReadyIntact, CollectedIntact
<1>10. ASSUME NEW e \in Endpoints, SwSent(e) \/ SwCancelled(e) \/ SwRetracted(e)
       PROVE  ReadyIntact' /\ CollectedIntact'
  <2>1. Reclaim(e) /\ UNCHANGED <<state, cur, hasData, capt, cfg, rdy, sending>>
    BY <1>10 DEF SwSent, SwCancelled, SwRetracted
  <2>2. \A x \in Endpoints : (sent'[x] => sent[x]) /\ (pend'[x] => pend[x])
    BY <1>1, <1>10 DEF SwSent, SwCancelled, SwRetracted, Flags
  <2>3. ~(state # "Idle" /\ hasData /\ cur = e)
    BY <1>10 DEF SwSent, SwCancelled, SwRetracted, CollectedIntact
  <2>4. ~rdy[e]
    BY <1>10 DEF SwSent, SwCancelled, SwRetracted, ReadyIntact, RetractHeld
  <2> QED
    BY <1>9, <2>1, <2>2, <2>3, <2>4
<1>11. ASSUME NEW e \in Endpoints, SwRetract(e) \/ \E v \in BOOLEAN : SwWriteStall(e, v)
       PROVE  ReadyIntact' /\ CollectedIntact'
  <2>1. /\ UNCHANGED <<state, cur, hasData, capt, cfg, sending, pend, sent, armed, memory>>
        /\ \A x \in Endpoints : rdy'[x] => rdy[x]
    BY <1>1, <1>11 DEF SwRetract, SwWriteStall, Flags
  <2> QED
    BY <2>1 DEF ReadyIntact, CollectedIntact
<1>12. CASE Software
  BY <1>8, <1>10, <1>11, <1>12 DEF Software
<1> QED
  BY <1>3, <1>4, <1>5, <1>6, <1>7, <1>12 DEF Next, Device

\* Software that retracts a packet keeps its buffer until it knows.
LEMMA RetractHeldStep == IInv /\ [Next]_vars => RetractHeld'
<1> SUFFICES ASSUME IInv, [Next]_vars PROVE RetractHeld'
  OBVIOUS
<1> USE DEF IInv, regVars, swVars
<1>1. /\ rdy \in Flags /\ retract \in Flags /\ cur \in Endpoints
      /\ armed \in [Endpoints -> Buffers \cup {NoBuf}] /\ NoBuf \notin Buffers
  BY InAssumption DEF TypeOK, FsmTypeOK, RegTypeOK, SwTypeOK
<1>2. CASE /\ UNCHANGED <<armed, retract>>
           /\ \A e \in Endpoints : rdy'[e] => rdy[e]
  BY <1>2 DEF RetractHeld
<1>3. CASE RxEnd \/ TxByte \/ NoMoreData
  <2>1. rdy' = rdy \/ rdy' = [rdy EXCEPT ![cur] = FALSE]
    BY <1>3 DEF RxEnd, InToken, SetupToken, AckReceived, OtherEnd, TxByte, NoMoreData, DataDone, XactEnd
  <2>2. \A e \in Endpoints : rdy'[e] => rdy[e]
    BY <1>1, <2>1 DEF Flags
  <2> QED
    BY <1>2, <1>3, <2>2 DEF RxEnd, TxByte, NoMoreData
<1>4. CASE SetupAccepted \/ LinkReset
  <2>1. PICK S : Cancel(S)
    BY <1>4 DEF SetupAccepted, LinkReset
  <2>2. \A e \in Endpoints : rdy'[e] => rdy[e]
    BY <2>1 DEF Cancel, RdyCleared
  <2> QED
    BY <1>2, <1>4, <2>2 DEF SetupAccepted, LinkReset
<1>5. CASE Respond \/ AckTimeout \/ TxEnd \/ SetupRefused \/ Suspend \/ LinkActive \/ HostSteps
           \/ UNCHANGED vars
  BY <1>2, <1>5 DEF Respond, AckTimeout, RolledBack, TxEnd, SetupRefused, Suspend, LinkActive, HostSteps,
     HostAck, HostPoll, HostSendsSetup, HostSendsOther, HostTimeout, Begin, vars
<1>6. ASSUME NEW e \in Endpoints, NEW b \in Buffers, SwArm(e, b)
      PROVE  RetractHeld'
  <2>1. retract' = retract /\ ~retract[e]
    BY <1>6 DEF SwArm, RetractHeld
  <2>2. \A x \in Endpoints \ {e} : rdy'[x] = rdy[x] /\ armed'[x] = armed[x]
    BY <1>1, <1>6 DEF SwArm
  <2> QED
    BY <2>1, <2>2 DEF RetractHeld
<1>7. ASSUME NEW e \in Endpoints, Reclaim(e), rdy' = rdy
      PROVE  RetractHeld'
  <2>1. /\ ~retract'[e]
        /\ \A x \in Endpoints \ {e} : retract'[x] = retract[x] /\ armed'[x] = armed[x]
    BY <1>1, <1>7 DEF Reclaim, Flags
  <2> QED
    BY <1>7, <2>1 DEF RetractHeld
<1>8. ASSUME NEW e \in Endpoints, SwRetract(e)
      PROVE  RetractHeld'
  <2>1. rdy[e] /\ ~rdy'[e] /\ armed[e] # NoBuf /\ armed' = armed
    BY <1>1, <1>8 DEF SwRetract, ReadyIntact, Flags
  <2>2. \A x \in Endpoints \ {e} : rdy'[x] = rdy[x] /\ retract'[x] = retract[x]
    BY <1>1, <1>8 DEF SwRetract
  <2> QED
    BY <2>1, <2>2 DEF RetractHeld
<1>9. CASE Software
  <2>1. ASSUME NEW e \in Endpoints, SwSent(e) \/ SwCancelled(e) \/ SwRetracted(e)
        PROVE  RetractHeld'
    BY <1>7, <2>1 DEF SwSent, SwCancelled, SwRetracted
  <2>2. ASSUME NEW e \in Endpoints, NEW v \in BOOLEAN, SwWriteStall(e, v)
        PROVE  RetractHeld'
    BY <1>2, <2>2 DEF SwWriteStall
  <2> QED
    BY <1>6, <1>8, <1>9, <2>1, <2>2 DEF Software
<1> QED
  BY <1>3, <1>4, <1>5, <1>9 DEF Next, Device

\* The invariant is inductive.
LEMMA Inductive == Spec => []IInv
<1>1. Init => IInv
  <2> SUFFICES ASSUME Init PROVE IInv
    OBVIOUS
  <2>1. /\ 0 \in 0..(MaxPkt - 1) /\ 0 \in Serials /\ 1 \in 1..(MaxPackets + 1) /\ 0 \in 0..MaxPkt
    BY InAssumption DEF Serials
  <2>2. capt \in Descr /\ cfg \in [Endpoints -> Descr]
    BY <2>1 DEF Init, Descr
  <2>3. FsmTypeOK
    BY <2>1, <2>2 DEF Init, FsmTypeOK, States, TxKinds, AllZero
  <2>4. RegTypeOK /\ SwTypeOK
    BY <2>1, <2>2 DEF Init, RegTypeOK, SwTypeOK, AllZero, AllOff, Flags
  <2>5. HostTypeOK
    BY <2>1 DEF Init, HostTypeOK, PktKinds, AllZero
  <2>6. OneAtATime
    BY DEF Init, OneAtATime
  <2>7. ReadyIntact /\ CollectedIntact /\ RetractHeld
    BY DEF Init, ReadyIntact, CollectedIntact, RetractHeld, AllOff
  <2> QED
    BY <2>3, <2>4, <2>5, <2>6, <2>7 DEF IInv, TypeOK
<1>2. IInv /\ [Next]_vars => IInv'
  <2> SUFFICES ASSUME IInv, [Next]_vars PROVE IInv'
    OBVIOUS
  <2>1. TypeOK'
    BY FsmTypeStep, RegTypeStep, SwTypeStep, HostTypeStep DEF IInv, TypeOK
  <2>2. OneAtATime'
    BY OneAtATimeStep DEF IInv
  <2>3. ReadyIntact' /\ CollectedIntact'
    BY IntactStep
  <2>4. RetractHeld'
    BY RetractHeldStep
  <2> QED
    BY <2>1, <2>2, <2>3, <2>4 DEF IInv
<1> QED
  BY <1>1, <1>2, PTL DEF Spec

\* Every variable keeps its type, through every packet on the bus, decision of the
\* FSM and register access.
THEOREM TypeCorrect == Spec => []TypeOK
<1>1. IInv => TypeOK
  BY DEF IInv
<1> QED
  BY <1>1, Inductive, PTL

\* A packet being collected shows in configin.sending, and its buffer is still the
\* one software armed, even if rdy has been cleared since.
THEOREM InFlightMarkedHolds == Spec => []InFlightMarked
<1>1. IInv => InFlightMarked
  BY DEF IInv, CollectedIntact, InFlightMarked
<1> QED
  BY <1>1, Inductive, PTL

-----------------------------------------------------------------------------
(* The contents of a transmission, for a host that does not begin another   *)
(* IN token before the device has given up waiting for its handshake.       *)

\* The address has been cleared before data is sent, and counts the bytes sent.
AddressCleared ==
  /\ state \in {"Idle", "RcvdIn"} => addr = 0
  /\ pkt.kind = "IN" => state = "Idle"

DataSoFar ==
  state = "SendData" =>
    /\ tx.n = addr /\ tx.k = (IF hasData THEN memory[capt.buf] ELSE 0)
    /\ hasData => tx.bytes \subseteq {tx.k} /\ addr <= capt.size

\* The read address is zero when a packet begins, if no token comes too early.
LEMMA AddressClearedStep ==
  ASSUME ~EarlyToken, IInv, AddressCleared, [Next]_vars
  PROVE  AddressCleared'
<1> USE DEF IInv, fsmVars, hostVars, Goto, AddressCleared
<1>1. CASE RxEnd
  <2>1. pkt' = NoPkt /\ NoPkt.kind # "IN" /\ state \in {"Idle", "WaitAck"}
    BY <1>1 DEF RxEnd, OneAtATime, NoPkt
  <2>2. state' \in {"Idle", "RcvdIn"} => addr' = 0
    BY <1>1, <2>1 DEF RxEnd, InToken, SetupToken, AckReceived, OtherEnd
  <2> QED
    BY <2>1, <2>2
<1>2. pkt.kind = "IN" => pkt # NoPkt
  BY DEF NoPkt
<1>3. CASE Respond \/ TxByte \/ NoMoreData \/ AckTimeout \/ TxEnd
  <2>1. pkt' = pkt /\ pkt = NoPkt
    BY <1>3 DEF Respond, TxByte, NoMoreData, AckTimeout, TxEnd, OneAtATime
  <2>2. state' \in {"Idle", "RcvdIn"} => addr' = 0
    <3>1. CASE TxByte
      <4>1. addr = MaxPkt - 1 => (addr + 1) % MaxPkt = 0
        BY InAssumption
      <4> QED
        BY <3>1, <4>1 DEF TxByte, DataDone
    <3>2. CASE NoMoreData
      BY <3>2 DEF NoMoreData, DataDone
    <3> QED
      BY <1>3, <3>1, <3>2 DEF Respond, AckTimeout, TxEnd
  <2> QED
    BY <1>2, <2>1, <2>2
<1>4. CASE LinkReset
  BY <1>4 DEF LinkReset, NoPkt
<1>5. CASE Suspend
  BY <1>5 DEF Suspend, NoPkt
<1>6. CASE SetupAccepted \/ SetupRefused \/ LinkActive \/ Software \/ UNCHANGED vars
  BY <1>6 DEF SetupAccepted, SetupRefused, LinkActive, Software, SwArm, SwSent, SwCancelled, SwRetract,
     SwRetracted, SwWriteStall, vars
<1>7. CASE HostSteps
  <2>1. CASE HostAck \/ HostSendsOther \/ \E e \in Endpoints : HostSendsSetup(e)
    BY <2>1 DEF HostAck, HostSendsOther, HostSendsSetup, Begin
  <2>2. ASSUME NEW e \in Endpoints, HostPoll(e)
        PROVE  AddressCleared'
    BY <2>2 DEF HostPoll, Begin
  <2>3. CASE HostTimeout
    BY <2>3 DEF HostTimeout
  <2> QED
    BY <1>7, <2>1, <2>2, <2>3 DEF HostSteps
<1> QED
  BY <1>1, <1>3, <1>4, <1>5, <1>6, <1>7 DEF Next, Device

\* The bytes sent so far are the packet's, as many as the address says.
LEMMA DataSoFarStep ==
  ASSUME IInv, AddressCleared, DataSoFar, [Next]_vars
  PROVE  DataSoFar'
<1> USE DEF IInv, fsmVars, hostVars, Goto
<1>1. CASE Respond
  <2>1. CASE state' = "SendData"
    <3>1. PICK t : tx' = DataPacket(t)
      BY <1>1, <2>1 DEF Respond
    <3>2. addr' = 0 /\ UNCHANGED <<hasData, capt, memory>>
      BY <1>1, <2>1 DEF Respond, AddressCleared, swVars
    <3>3. capt.size \in Nat /\ capt.size >= 0
      BY InAssumption DEF TypeOK, FsmTypeOK, Descr
    <3> QED
      BY <3>1, <3>2, <3>3 DEF DataPacket, DataSoFar
  <2> QED
    BY <2>1 DEF DataSoFar
<1>2. CASE TxByte
  <2>1. CASE addr # MaxPkt - 1
    <3>1. /\ addr' = addr + 1 /\ addr \in Nat /\ capt.size \in Nat
      BY <1>2, <2>1, InAssumption DEF TxByte, TypeOK, FsmTypeOK, Descr
    <3>2. /\ tx'.n = tx.n + 1 /\ tx'.k = tx.k /\ tx'.bytes = tx.bytes \cup {memory[capt.buf]}
          /\ hasData /\ addr # capt.size /\ UNCHANGED <<hasData, capt, memory>> /\ state = "SendData"
      BY <1>2, TxShape DEF TxByte, MoreData, swVars, OneAtATime, TypeOK, DataTx
    <3> QED
      BY <3>1, <3>2 DEF DataSoFar
  <2>2. CASE addr = MaxPkt - 1
    BY <1>2, <2>2 DEF TxByte, DataDone, DataSoFar
  <2> QED
    BY <2>1, <2>2
<1>3. CASE NoMoreData
  BY <1>3 DEF NoMoreData, DataDone, DataSoFar
<1>4. CASE RxEnd \/ AckTimeout \/ TxEnd \/ LinkReset \/ Suspend
  <2>1. state' # "SendData"
    BY <1>4, TxShape DEF RxEnd, InToken, SetupToken, AckReceived, OtherEnd, AckTimeout, TxEnd, LinkReset, Suspend,
       OneAtATime, TypeOK
  <2> QED
    BY <2>1 DEF DataSoFar
<1>5. CASE SetupAccepted \/ SetupRefused \/ LinkActive \/ UNCHANGED vars
  BY <1>5 DEF SetupAccepted, SetupRefused, LinkActive, vars, swVars, DataSoFar
<1>6. CASE HostSteps
  <2>1. state' = "SendData" => state = "SendData" /\ UNCHANGED <<tx, addr, hasData, capt, memory>>
    BY <1>6 DEF HostSteps, HostAck, HostPoll, HostSendsSetup, HostSendsOther, HostTimeout, Begin, swVars
  <2> QED
    BY <2>1 DEF DataSoFar
<1>7. CASE Software
  <2>1. UNCHANGED <<state, tx, addr, hasData, capt, cur>>
    BY <1>7 DEF Software, SwArm, SwSent, SwCancelled, SwRetract, SwRetracted, SwWriteStall
  <2>2. state = "SendData" /\ hasData => memory'[capt.buf] = memory[capt.buf]
    <3>1. ASSUME NEW e \in Endpoints, NEW b \in Buffers, SwArm(e, b), state = "SendData", hasData
          PROVE  memory'[capt.buf] = memory[capt.buf]
      <4>1. capt.buf = armed[cur] /\ capt.buf \in Buffers /\ cur \in Endpoints
        BY <3>1 DEF CollectedIntact, TypeOK, FsmTypeOK
      <4> QED
        BY <3>1, <4>1 DEF SwArm, Unused, TypeOK, SwTypeOK
    <3> QED
      BY <1>7, <3>1 DEF Software, SwSent, SwCancelled, SwRetract, SwRetracted, SwWriteStall, Reclaim, swVars
  <2> QED
    BY <2>1, <2>2 DEF DataSoFar
<1> QED
  BY <1>1, <1>2, <1>3, <1>4, <1>5, <1>6, <1>7 DEF Next, Device

\* A packet ends after its last byte.
LEMMA PacketWholeStep ==
  ASSUME IInv, DataSoFar, PacketWhole, [Next]_vars
  PROVE  PacketWhole'
<1> USE DEF IInv
<1>1. CASE UNCHANGED tx
  BY <1>1 DEF PacketWhole
<1>2. CASE tx' = NoTx
  BY <1>2 DEF PacketWhole, NoTx
<1>3. CASE Respond
  BY <1>3 DEF Respond, DataPacket, PacketWhole
<1>4. /\ capt.size \in Nat /\ addr \in Nat /\ capt.size <= MaxPkt /\ MaxPkt \in Nat \ {0}
  BY InAssumption DEF TypeOK, FsmTypeOK, Descr
<1>5. hasData /\ state = "SendData" => /\ tx.k = memory[capt.buf] /\ capt.size = Size[tx.k]
                                        /\ tx.n = addr /\ addr <= capt.size /\ tx.bytes \subseteq {tx.k}
  BY DEF CollectedIntact, DataSoFar
<1>6. state = "SendData" => tx \in DataTx
  BY DEF OneAtATime
<1>7. CASE TxByte
  <2>1. /\ tx'.k = tx.k /\ tx'.n = tx.n + 1 /\ tx'.bytes = tx.bytes \cup {memory[capt.buf]}
        /\ (tx'.done => addr = MaxPkt - 1)
    <3>1. tx' = [tx EXCEPT !.bytes = tx.bytes \cup {memory[capt.buf]}, !.n = tx.n + 1, !.done = (addr = MaxPkt - 1)]
      BY <1>7 DEF TxByte
    <3> QED
      BY <1>6, <1>7, <3>1 DEF TxByte, DataTx
  <2>2. hasData /\ state = "SendData" /\ addr # capt.size
    BY <1>7 DEF TxByte, MoreData
  <2>3. tx'.done => tx'.n = capt.size
    BY <1>4, <1>5, <2>1, <2>2
  <2> QED
    BY <1>5, <2>1, <2>2, <2>3 DEF PacketWhole
<1>8. CASE NoMoreData
  <2>1. /\ tx'.k = tx.k /\ tx'.n = tx.n /\ tx'.bytes = tx.bytes
    BY <1>6, <1>8 DEF NoMoreData, DataTx
  <2>2. state = "SendData" /\ (hasData => addr = capt.size)
    BY <1>8 DEF NoMoreData, MoreData
  <2>3. ~hasData => tx.k = 0
    BY <2>2 DEF DataSoFar
  <2> QED
    BY <1>5, <2>1, <2>2, <2>3 DEF PacketWhole
<1>9. \/ UNCHANGED tx \/ tx' = NoTx \/ Respond \/ TxByte \/ NoMoreData
  BY DEF Next, Device, HostSteps, Software, RxEnd, AckTimeout, TxEnd, SetupAccepted, SetupRefused, LinkReset,
     Suspend, LinkActive, HostAck, HostPoll, HostSendsSetup, HostSendsOther, HostTimeout, Begin, SwArm, SwSent,
     SwCancelled, SwRetract, SwRetracted, SwWriteStall, vars, fsmVars
<1> QED
  BY <1>1, <1>2, <1>3, <1>7, <1>8, <1>9

\* Unless the host begins an IN token while the device awaits its handshake, every
\* packet sent is all of one packet software armed and nothing else, however
\* software rewrites configin, retracts and reuses buffers meanwhile.
THEOREM PacketWholeHolds == ~EarlyToken => (Spec => []PacketWhole)
<1> SUFFICES ASSUME ~EarlyToken PROVE Spec => []PacketWhole
  OBVIOUS
<1>1. Init => AddressCleared /\ DataSoFar /\ PacketWhole
  BY DEF Init, AddressCleared, DataSoFar, PacketWhole, NoPkt, NoTx
<1>2. IInv /\ (AddressCleared /\ DataSoFar /\ PacketWhole) /\ [Next]_vars
      => (AddressCleared /\ DataSoFar /\ PacketWhole)'
  BY AddressClearedStep, DataSoFarStep, PacketWholeStep
<1> QED
  BY <1>1, <1>2, Inductive, PTL DEF Spec

=============================================================================
