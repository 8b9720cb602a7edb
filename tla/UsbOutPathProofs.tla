-------------------------- MODULE UsbOutPathProofs --------------------------
(***************************************************************************)
(* Proofs about UsbOutPath, for every number of endpoints and buffers and  *)
(* every FIFO depth.                                                       *)
(***************************************************************************)
EXTENDS UsbOutPath, FiniteSetTheorems, SequenceTheorems, TLAPS

\* Every variable keeps its type through every bus event, decision of the FSM
\* and register access.
THEOREM TypeCorrect == Spec => []TypeOK
<1> USE ConfigAssumption, DepthAssumption DEF Kinds, Toggles, States
<1>1. Init => TypeOK
  <2> SUFFICES ASSUME Init PROVE TypeOK
    OBVIOUS
  <2>1. av \in [Kinds -> Seq(Buffers)] /\ rx \in Seq(RxEntry)
    BY DEF Init
  <2>2. taken \in [Endpoints -> 0..2]
    BY DEF Init
  <2>3. QED
    BY <2>1, <2>2 DEF Init, TypeOK
<1>2. TypeOK /\ [Next]_vars => TypeOK'
  <2> SUFFICES ASSUME TypeOK, [Next]_vars PROVE TypeOK'
    OBVIOUS
  <2> USE DEF TypeOK, fsmVars, swVars, Goto
  <2>1. ASSUME NEW e \in Endpoints, NEW pid \in {"OUT", "SETUP", "OTHER"}, TokenEnd(pid, e)
        PROVE TypeOK'
    BY <2>1 DEF TokenEnd, SetupFlag
  <2>2. CASE PacketStart
    BY <2>2 DEF PacketStart
  <2>3. CASE ResponseTimeout
    BY <2>3 DEF ResponseTimeout
  <2>4. CASE DataPut
    <3>1. AvValid => Head(AvSel) \in Buffers
      BY DEF AvValid, AvSel, Kind, CurrentSetup
    <3>2. OutFull(current) \in BOOLEAN
      BY DEF OutFull, AvValid
    <3>3. QED
      BY <2>4, <3>1, <3>2 DEF DataPut, NakLatch
  <2>5. ASSUME NEW tog \in Toggles, DataEnd(tog)
        PROVE TypeOK'
    BY <2>5 DEF DataEnd
  <2>6. CASE BadPacketEnd
    BY <2>6 DEF BadPacketEnd
  <2>7. CASE LinkReset
    BY <2>7 DEF LinkReset
  <2>8. ASSUME Accept, AvValid
        PROVE /\ rx' \in Seq(RxEntry) /\ pop' \in Kinds \cup {"none"}
              /\ toggle' \in [Endpoints -> Toggles]
              /\ rxen' \in [Endpoints -> BOOLEAN] /\ stall' \in [Endpoints -> BOOLEAN]
              /\ taken' \in [Endpoints -> 0..2]
    <3>1. Head(AvSel) \in Buffers
      BY <2>8 DEF AvValid, AvSel, Kind, CurrentSetup
    <3>2. rx' \in Seq(RxEntry)
      BY <2>8, <3>1 DEF Accept, RxEntry, CurrentSetup
    <3>3. /\ pop' \in Kinds \cup {"none"}
          /\ rxen' \in [Endpoints -> BOOLEAN] /\ stall' \in [Endpoints -> BOOLEAN]
      BY <2>8 DEF Accept, Kind, CurrentSetup, RxEnableAfter
    <3>4. toggle' \in [Endpoints -> Toggles]
      BY <2>8 DEF Accept, Flip
    <3>5. taken' \in [Endpoints -> 0..2]
      <4>1. taken[current] = 2 \/ taken[current] + 1 \in 0..2
        OBVIOUS
      <4>2. QED
        BY <2>8, <4>1 DEF Accept
    <3>6. QED
      BY <3>2, <3>3, <3>4, <3>5
  <2>9. ~Refused => AvValid
    BY DEF Refused, OutFull
  <2>10. CASE DecideSetup
    BY <2>8, <2>9, <2>10 DEF DecideSetup, Drop
  <2>11. CASE DecideOut
    BY <2>8, <2>9, <2>11 DEF DecideOut, Drop
  <2>12. CASE DecideIso
    BY <2>8, <2>9, <2>12 DEF DecideIso, Drop
  <2>13. CASE PopBuffer
    BY <2>13 DEF PopBuffer
  <2>14. ASSUME NEW k \in Kinds, NEW b \in Buffers, SwProvide(k, b)
         PROVE TypeOK'
    BY <2>14 DEF SwProvide
  <2>15. CASE SwReadRx
    <3>1. Head(rx) \in RxEntry /\ Tail(rx) \in Seq(RxEntry)
      BY <2>15 DEF SwReadRx
    <3>2. Head(rx).buf \in Buffers
      BY <3>1 DEF RxEntry
    <3>3. QED
      BY <2>15, <3>1, <3>2 DEF SwReadRx
  <2>16. ASSUME NEW k \in Kinds, SwResetAv(k)
         PROVE TypeOK'
    BY <2>16 DEF SwResetAv
  <2>17. CASE SwResetRx
    <3>1. \A i \in 1..Len(rx) : rx[i].buf \in Buffers
      <4>1. \A i \in 1..Len(rx) : rx[i] \in RxEntry
        OBVIOUS
      <4>2. QED
        BY <4>1 DEF RxEntry
    <3>2. <<>> \in Seq(RxEntry)
      OBVIOUS
    <3>3. QED
      BY <2>17, <3>1, <3>2 DEF SwResetRx
  <2>18. ASSUME NEW e \in Endpoints, NEW v \in BOOLEAN, SwWriteRxEnable(e, v)
         PROVE TypeOK'
    BY <2>18 DEF SwWriteRxEnable
  <2>19. ASSUME NEW e \in Endpoints, NEW v \in BOOLEAN, SwWriteStall(e, v)
         PROVE TypeOK'
    BY <2>19 DEF SwWriteStall
  <2>20. ASSUME NEW e \in Endpoints, NEW v \in Toggles, SwWriteToggle(e, v)
         PROVE TypeOK'
    BY <2>20 DEF SwWriteToggle
  <2>21. CASE UNCHANGED vars
    BY <2>21 DEF vars
  <2>22. QED
    BY <2>1, <2>2, <2>3, <2>4, <2>5, <2>6, <2>7, <2>10, <2>11, <2>12, <2>13, <2>14, <2>15,
       <2>16, <2>17, <2>18, <2>19, <2>20, <2>21
       DEF Next, Bus, Device, Software
<1>3. QED
  BY <1>1, <1>2, PTL DEF Spec

-----------------------------------------------------------------------------
(* Who may be written where.                                               *)

\* A step changes the RX FIFO by appending an accepted packet or by a software
\* access, and nothing else.
RxSteps ==
  \/ rx' = rx
  \/ xact \in {"RcvdDataEnd", "RcvdIsoDataEnd"} /\ ~Refused /\ Accept
  \/ SwReadRx
  \/ SwResetRx

\* The RX FIFO changes when a packet is accepted, read or flushed, and not otherwise.
LEMMA RxChanges == ASSUME [Next]_vars PROVE RxSteps
<1> USE DEF RxSteps, fsmVars, swVars
<1>1. CASE Bus
  BY <1>1 DEF Bus, TokenEnd, PacketStart, ResponseTimeout, DataPut, DataEnd, BadPacketEnd,
              LinkReset
<1>2. CASE Device
  BY <1>2 DEF Device, DecideSetup, DecideOut, DecideIso, PopBuffer, Drop
<1>3. CASE Software
  <2>1. ASSUME NEW k \in Kinds, NEW b \in Buffers, SwProvide(k, b) PROVE rx' = rx
    BY <2>1 DEF SwProvide
  <2>2. ASSUME NEW k \in Kinds, SwResetAv(k) PROVE rx' = rx
    BY <2>2 DEF SwResetAv
  <2>3. ASSUME NEW e \in Endpoints, NEW v \in BOOLEAN,
               SwWriteRxEnable(e, v) \/ SwWriteStall(e, v)
        PROVE  rx' = rx
    BY <2>3 DEF SwWriteRxEnable, SwWriteStall
  <2>4. ASSUME NEW e \in Endpoints, NEW v \in Toggles, SwWriteToggle(e, v) PROVE rx' = rx
    BY <2>4 DEF SwWriteToggle
  <2>5. QED
    BY <1>3, <2>1, <2>2, <2>3, <2>4 DEF Software
<1>4. CASE UNCHANGED vars
  BY <1>4 DEF vars
<1>5. QED
  BY <1>1, <1>2, <1>3, <1>4 DEF Next

\* OUT packets never fill the RX FIFO: its last entry, when used, describes a
\* SETUP packet (usbdev.sv:324-328).
THEOREM RxReserveHolds == Spec => []RxReserve
<1>1. Init => RxReserve
  BY DepthAssumption DEF Init, RxReserve
<1>2. TypeOK /\ RxReserve /\ [Next]_vars => RxReserve'
  <2> SUFFICES ASSUME TypeOK, RxReserve, [Next]_vars PROVE RxReserve'
    OBVIOUS
  <2>1. rx \in Seq(RxEntry) /\ RXDepth \in Nat /\ RXDepth > 0
    BY DepthAssumption DEF TypeOK
  <2>2. CASE rx' = rx
    BY <2>2 DEF RxReserve
  <2>3. CASE ~Refused /\ Accept
    <3>1. RxWready /\ Len(rx') = Len(rx) + 1 /\ rx'[Len(rx) + 1].setup = CurrentSetup
      BY <2>1, <2>3 DEF Refused, OutFull, Accept
    <3>2. Len(rx') <= RXDepth /\ (Len(rx') = RXDepth => CurrentSetup)
      BY <2>1, <3>1 DEF RxWready
    <3>3. QED
      BY <2>1, <3>1, <3>2 DEF RxReserve
  <2>4. CASE SwReadRx
    <3>1. Len(rx') = Len(rx) - 1
      BY <2>1, <2>4 DEF SwReadRx
    <3>2. QED
      BY <2>1, <3>1 DEF RxReserve
  <2>5. CASE SwResetRx
    BY <2>1, <2>5 DEF SwResetRx, RxReserve
  <2>6. QED
    BY <2>2, <2>3, <2>4, <2>5, RxChanges DEF RxSteps
<1>3. QED
  BY <1>1, <1>2, TypeCorrect, PTL DEF Spec

-----------------------------------------------------------------------------
(* The FSM, the receiver and the SETUP flags describe the same transaction. *)

\* Token endpoint, latched endpoint and SETUP flag tell of the same transaction, from the
\* token to its end, so that a packet draws on one FIFO throughout.
THEOREM SetupCoherentHolds == Spec => []SetupCoherent
<1>1. Init => SetupCoherent
  BY DEF Init, SetupCoherent
<1>2. TypeOK /\ SetupCoherent /\ [Next]_vars => SetupCoherent'
  <2> SUFFICES ASSUME TypeOK, SetupCoherent, [Next]_vars PROVE SetupCoherent'
    OBVIOUS
  <2> USE DEF SetupCoherent, Goto, fsmVars, swVars
  <2>1. ASSUME NEW e \in Endpoints, NEW pid \in {"OUT", "SETUP", "OTHER"}, TokenEnd(pid, e)
        PROVE SetupCoherent'
    BY <2>1 DEF TokenEnd, Starts, SetupFlag, TypeOK
  <2>2. ASSUME NEW tog \in Toggles, DataEnd(tog)
        PROVE SetupCoherent'
    BY <2>2 DEF DataEnd
  <2>3. CASE PacketStart \/ ResponseTimeout \/ DataPut \/ BadPacketEnd \/ LinkReset
    BY <2>3 DEF PacketStart, ResponseTimeout, DataPut, BadPacketEnd, LinkReset
  <2>4. CASE Device
    BY <2>4 DEF Device, DecideSetup, DecideOut, DecideIso, PopBuffer
  <2>5. CASE Software
    BY <2>5 DEF Software, SwProvide, SwReadRx, SwResetAv, SwResetRx, SwWriteRxEnable,
                SwWriteStall, SwWriteToggle
  <2>6. CASE UNCHANGED vars
    BY <2>6 DEF vars
  <2>7. QED
    BY <2>1, <2>2, <2>3, <2>4, <2>5, <2>6 DEF Next, Bus
<1>3. QED
  BY <1>1, <1>2, TypeCorrect, PTL DEF Spec

\* A SETUP entry of the RX FIFO names an endpoint with rxenable_setup: a packet
\* is flagged by out_ep_setup, which agrees with the token that started it.
THEOREM SetupOnlyToControlHolds == Spec => []SetupOnlyToControl
<1>1. Init => SetupOnlyToControl
  BY DEF Init, SetupOnlyToControl
<1>2. TypeOK /\ SetupCoherent /\ SetupOnlyToControl /\ [Next]_vars => SetupOnlyToControl'
  <2> SUFFICES ASSUME TypeOK, SetupCoherent, SetupOnlyToControl, [Next]_vars
               PROVE SetupOnlyToControl'
    OBVIOUS
  <2>1. rx \in Seq(RxEntry)
    BY DEF TypeOK
  <2>2. CASE rx' = rx
    BY <2>2 DEF SetupOnlyToControl
  <2>3. CASE xact \in {"RcvdDataEnd", "RcvdIsoDataEnd"} /\ Accept
    <3>1. CurrentSetup => current \in Control
      BY <2>3 DEF SetupCoherent, CurrentSetup
    <3>2. /\ Len(rx') = Len(rx) + 1
          /\ rx'[Len(rx) + 1].setup = CurrentSetup /\ rx'[Len(rx) + 1].ep = current
          /\ \A i \in 1..Len(rx) : rx'[i] = rx[i]
      BY <2>1, <2>3 DEF Accept
    <3>3. QED
      BY <2>1, <3>1, <3>2 DEF SetupOnlyToControl
  <2>4. CASE SwReadRx
    <3>1. Len(rx') = Len(rx) - 1 /\ \A i \in 1..Len(rx') : rx'[i] = rx[i + 1]
      BY <2>1, <2>4 DEF SwReadRx
    <3>2. QED
      BY <2>1, <3>1 DEF SetupOnlyToControl
  <2>5. CASE SwResetRx
    BY <2>5 DEF SwResetRx, SetupOnlyToControl
  <2>6. QED
    BY <2>2, <2>3, <2>4, <2>5, RxChanges DEF RxSteps
<1>3. QED
  BY <1>1, <1>2, TypeCorrect, SetupCoherentHolds, PTL DEF Spec

-----------------------------------------------------------------------------
(* Packets stay whole.                                                     *)

Receiving == xact \in {"RcvdDataStart", "RcvdDataEnd", "RcvdIsoDataEnd"}

\* Why packets stay whole: unless it was reset, the FIFO that gave the first byte
\* of a packet its buffer still has that buffer at its head, because a FIFO is
\* popped only between transactions.
HomeAtHead ==
  /\ pop # "none" => xact = "Idle"
  /\ ~Receiving => homes = {}
  /\ Receiving /\ ~torn /\ ~nakXact /\ homes # {} => AvValid /\ homes = {Head(AvSel)}

\* The buffer that bytes go to stays at the head of its FIFO until the packet is reported.
LEMMA HomeAtHeadStep ==
  ASSUME TypeOK, HomeAtHead, [Next]_vars
  PROVE  HomeAtHead'
<1> USE DEF HomeAtHead, Receiving, Goto, fsmVars, swVars
<1> DEFINE SameAv == av' = av /\ epSetup' = epSetup /\ current' = current
<1>0. SameAv => AvSel' = AvSel /\ (AvValid' <=> AvValid)
  BY DEF AvSel, AvValid, Kind, CurrentSetup
<1>1. ASSUME NEW e \in Endpoints, NEW pid \in {"OUT", "SETUP", "OTHER"}, TokenEnd(pid, e)
      PROVE HomeAtHead'
  BY <1>1 DEF TokenEnd
<1>2. CASE PacketStart \/ ResponseTimeout \/ BadPacketEnd \/ LinkReset
  BY <1>2 DEF PacketStart, ResponseTimeout, BadPacketEnd, LinkReset
<1>3. CASE DataPut
  <2>1. SameAv /\ UNCHANGED <<xact, torn, pop>>
    BY <1>3 DEF DataPut
  <2>2. ~nakXact' => ~nakXact /\ AvValid
    BY <1>3 DEF DataPut, NakLatch, OutFull
  <2>3. QED
    BY <1>0, <1>3, <2>1, <2>2 DEF DataPut
<1>4. ASSUME NEW tog \in Toggles, DataEnd(tog)
      PROVE HomeAtHead'
  BY <1>0, <1>4 DEF DataEnd
<1>5. CASE DecideSetup \/ DecideOut \/ DecideIso
  BY <1>5 DEF DecideSetup, DecideOut, DecideIso
<1>6. CASE PopBuffer
  BY <1>6 DEF PopBuffer
<1>7. ASSUME NEW k \in Kinds, NEW b \in Buffers, SwProvide(k, b)
      PROVE HomeAtHead'
  <2>1. UNCHANGED <<xact, pop, homes, torn, nakXact, epSetup, current>>
    BY <1>7 DEF SwProvide
  <2>2. AvValid => AvValid' /\ Head(AvSel') = Head(AvSel)
    <3>1. AvSel \in Seq(Buffers) /\ (AvSel' = AvSel \/ AvSel' = Append(AvSel, b))
      BY <1>7, <2>1 DEF SwProvide, AvSel, Kind, Kinds, CurrentSetup, TypeOK
    <3>2. QED
      BY <3>1 DEF AvValid
  <2>3. QED
    BY <2>1, <2>2
<1>8. ASSUME NEW k \in Kinds, SwResetAv(k)
      PROVE HomeAtHead'
  <2>1. UNCHANGED <<xact, pop, homes, nakXact, epSetup, current>>
    BY <1>8 DEF SwResetAv
  <2>2. CASE homes # {} /\ k = Kind(CurrentSetup)
    BY <1>8, <2>1, <2>2 DEF SwResetAv
  <2>3. CASE k # Kind(CurrentSetup)
    <3>1. AvSel' = AvSel
      BY <1>8, <2>1, <2>3 DEF SwResetAv, AvSel, Kind, Kinds, CurrentSetup, TypeOK
    <3>2. AvValid' <=> AvValid
      BY <3>1 DEF AvValid
    <3>3. torn' <=> torn
      BY <1>8, <2>3 DEF SwResetAv
    <3>4. QED
      BY <2>1, <3>1, <3>2, <3>3
  <2>4. QED
    BY <2>1, <2>2, <2>3
<1>9. ASSUME SwReadRx \/ SwResetRx
             \/ (\E e \in Endpoints, v \in BOOLEAN : SwWriteRxEnable(e, v) \/ SwWriteStall(e, v))
             \/ (\E e \in Endpoints, v \in Toggles : SwWriteToggle(e, v))
      PROVE HomeAtHead'
  <2>1. SameAv /\ UNCHANGED <<xact, pop, homes, torn, nakXact>>
    BY <1>9 DEF SwReadRx, SwResetRx, SwWriteRxEnable, SwWriteStall, SwWriteToggle
  <2>2. QED
    BY <1>0, <2>1
<1>10. CASE UNCHANGED vars
  BY <1>0, <1>10 DEF vars
<1>11. QED
  BY <1>1, <1>2, <1>3, <1>4, <1>5, <1>6, <1>7, <1>8, <1>9, <1>10
     DEF Next, Bus, Device, Software

\* Every reported packet lies entirely in the buffer it is reported with, unless
\* software reset the FIFO under it (usbdev_usbif.sv:226-256,
\* usb_fs_nb_out_pe.sv:397-410).
THEOREM PacketWholeHolds == Spec => []PacketWhole
<1>1. Init => HomeAtHead /\ PacketWhole
  BY DEF Init, HomeAtHead, Receiving, PacketWhole
<1>2. TypeOK /\ HomeAtHead /\ PacketWhole /\ [Next]_vars => HomeAtHead' /\ PacketWhole'
  <2> SUFFICES ASSUME TypeOK, HomeAtHead, PacketWhole, [Next]_vars
               PROVE PacketWhole'
    BY HomeAtHeadStep
  <2>1. rx \in Seq(RxEntry)
    BY DEF TypeOK
  <2>2. CASE rx' = rx
    BY <2>2 DEF PacketWhole
  <2>3. CASE xact \in {"RcvdDataEnd", "RcvdIsoDataEnd"} /\ ~Refused /\ Accept
    <3>1. torn \/ homes \subseteq {Head(AvSel)}
      BY <2>3 DEF HomeAtHead, Receiving, Refused, TypeOK
    <3>2. /\ Len(rx') = Len(rx) + 1
          /\ rx'[Len(rx) + 1].whole = (torn \/ homes \subseteq {Head(AvSel)})
          /\ \A i \in 1..Len(rx) : rx'[i] = rx[i]
      BY <2>1, <2>3 DEF Accept
    <3>3. rx'[Len(rx) + 1].whole
      BY <3>1, <3>2
    <3>4. QED
      BY <2>1, <3>2, <3>3 DEF PacketWhole
  <2>4. CASE SwReadRx
    <3>1. Len(rx') = Len(rx) - 1 /\ \A i \in 1..Len(rx') : rx'[i] = rx[i + 1]
      BY <2>1, <2>4 DEF SwReadRx
    <3>2. QED
      BY <2>1, <3>1 DEF PacketWhole
  <2>5. CASE SwResetRx
    BY <2>5 DEF SwResetRx, PacketWhole
  <2>6. QED
    BY <2>2, <2>3, <2>4, <2>5, RxChanges DEF RxSteps
<1>3. QED
  BY <1>1, <1>2, TypeCorrect, PTL DEF Spec

-----------------------------------------------------------------------------
\* With set_nak_out, software gets each OUT packet before the next one is
\* acknowledged (usbdev.sv:488-522).
THEOREM OnePacketPerEnableHolds == Spec => []OnePacketPerEnable
<1> USE DEF fsmVars, swVars, Goto
<1>1. Init => OnePacketPerEnable
  BY ConfigAssumption DEF Init, OnePacketPerEnable
<1>2. TypeOK /\ OnePacketPerEnable /\ [Next]_vars => OnePacketPerEnable'
  <2> SUFFICES ASSUME TypeOK, OnePacketPerEnable, [Next]_vars,
                      NEW e \in SetNak
               PROVE  (taken[e] <= 1 /\ (taken[e] = 1 => ~rxen[e]))'
    BY DEF OnePacketPerEnable
  <2>0. e \in Endpoints /\ taken[e] \in 0..1 /\ (taken[e] = 1 => ~rxen[e])
    BY ConfigAssumption DEF TypeOK, OnePacketPerEnable
  <2>1. CASE UNCHANGED <<rxen, taken>>
    BY <2>0, <2>1
  <2>2. CASE ~Refused /\ Accept
    <3>1. CASE e # current
      BY <2>0, <2>2, <3>1 DEF Accept, RxEnableAfter, TypeOK
    <3>2. CASE e = current
      <4>1. ~rxen'[e]
        BY <2>0, <2>2, <3>2 DEF Accept, RxEnableAfter, TypeOK
      <4>2. ~CurrentSetup => taken[e] = 0
        BY <2>0, <2>2, <3>2 DEF Refused, OutFull, CurrentSetup
      <4>3. taken'[e] \in 0..1
        BY <2>0, <2>2, <3>2, <4>2 DEF Accept, TypeOK
      <4>4. QED
        BY <4>1, <4>3
    <3>3. QED
      BY <3>1, <3>2
  <2>3. ASSUME NEW f \in Endpoints, NEW v \in BOOLEAN, SwWriteRxEnable(f, v)
        PROVE  (taken[e] <= 1 /\ (taken[e] = 1 => ~rxen[e]))'
    BY <2>0, <2>3 DEF SwWriteRxEnable, TypeOK
  <2>4. CASE Bus
    BY <2>1, <2>4 DEF Bus, TokenEnd, PacketStart, ResponseTimeout, DataPut, DataEnd,
                      BadPacketEnd, LinkReset
  <2>5. CASE Device
    BY <2>1, <2>2, <2>5 DEF Device, DecideSetup, DecideOut, DecideIso, PopBuffer, Drop
  <2>6. CASE Software
    BY <2>1, <2>3, <2>6 DEF Software, SwProvide, SwReadRx, SwResetAv, SwResetRx, SwWriteStall,
                            SwWriteToggle
  <2>7. QED
    BY <2>1, <2>4, <2>5, <2>6 DEF Next, vars
<1>3. QED
  BY <1>1, <1>2, TypeCorrect, PTL DEF Spec

-----------------------------------------------------------------------------
(* Buffers.                                                                *)

\* Every buffer is in the set s, in one of the sequences F or in the sequence R, once.
OwnedOnce(s, F, R) ==
  /\ \A k \in Kinds : \A i \in 1..Len(F[k]) : F[k][i] \notin s
  /\ \A i \in 1..Len(R) : R[i] \notin s
  /\ \A k, l \in Kinds : \A i \in 1..Len(F[k]), j \in 1..Len(F[l]) : F[k][i] = F[l][j] => k = l /\ i = j
  /\ \A i, j \in 1..Len(R) : R[i] = R[j] => i = j
  /\ \A k \in Kinds : \A i \in 1..Len(F[k]), j \in 1..Len(R) : F[k][i] # R[j]
  /\ \A b \in Buffers : \/ b \in s
                        \/ \E k \in Kinds : \E i \in 1..Len(F[k]) : F[k][i] = b
                        \/ \E i \in 1..Len(R) : R[i] = b

\* A buffer moves from the set to the end of one of the sequences F.
LEMMA OwnedProvide ==
  ASSUME NEW s, NEW F \in [Kinds -> Seq(Buffers)], NEW R \in Seq(Buffers), OwnedOnce(s, F, R),
         NEW k \in Kinds, NEW b \in s \cap Buffers
  PROVE  OwnedOnce(s \ {b}, [F EXCEPT ![k] = Append(F[k], b)], R)
<1> DEFINE G == [F EXCEPT ![k] = Append(F[k], b)]
           n == Len(F[k])
<1>1. /\ n \in Nat /\ Len(G[k]) = n + 1 /\ G[k][n + 1] = b
      /\ \A i \in 1..n : G[k][i] = F[k][i]
      /\ \A l \in Kinds \ {k} : G[l] = F[l]
  OBVIOUS
<1>2. \A l \in Kinds : Len(F[l]) \in Nat
  OBVIOUS
<1> HIDE DEF G
<1>3. \A l \in Kinds : \A i \in 1..Len(G[l]) :
        \/ i \in 1..Len(F[l]) /\ G[l][i] = F[l][i]
        \/ l = k /\ i = n + 1 /\ G[l][i] = b
  BY <1>1, <1>2
<1>4. \A l \in Kinds : \A i \in 1..Len(F[l]) : i \in 1..Len(G[l]) /\ G[l][i] = F[l][i]
  BY <1>1, <1>2
<1>5. n + 1 \in 1..Len(G[k]) /\ G[k][n + 1] = b
  BY <1>1
<1> HIDE DEF n
<1>6. OwnedOnce(s \ {b}, G, R)
  <2>1. \A l \in Kinds : \A i \in 1..Len(G[l]) : G[l][i] \notin s \ {b}
    BY <1>3 DEF OwnedOnce
  <2>2. \A i \in 1..Len(R) : R[i] \notin s \ {b}
    BY DEF OwnedOnce
  <2>3. ASSUME NEW l \in Kinds, NEW m \in Kinds, NEW i \in 1..Len(G[l]), NEW j \in 1..Len(G[m]),
               G[l][i] = G[m][j]
        PROVE  l = m /\ i = j
    <3>1. \A h \in Kinds : \A x \in 1..Len(F[h]) : F[h][x] # b
      BY DEF OwnedOnce
    <3>2. \/ i \in 1..Len(F[l]) /\ G[l][i] = F[l][i] /\ j \in 1..Len(F[m]) /\ G[m][j] = F[m][j]
          \/ l = k /\ i = n + 1 /\ m = k /\ j = n + 1
      BY <1>3, <2>3, <3>1
    <3>3. i \in 1..Len(F[l]) /\ j \in 1..Len(F[m]) /\ F[l][i] = F[m][j] => l = m /\ i = j
      BY DEF OwnedOnce
    <3> QED
      BY <2>3, <3>2, <3>3
  <2>4. \A i, j \in 1..Len(R) : R[i] = R[j] => i = j
    BY DEF OwnedOnce
  <2>5. \A l \in Kinds : \A i \in 1..Len(G[l]), j \in 1..Len(R) : G[l][i] # R[j]
    BY <1>3 DEF OwnedOnce
  <2>6. ASSUME NEW c \in Buffers
        PROVE  \/ c \in s \ {b}
               \/ \E l \in Kinds : \E i \in 1..Len(G[l]) : G[l][i] = c
               \/ \E i \in 1..Len(R) : R[i] = c
    <3>1. CASE c = b
      BY <1>5, <3>1
    <3>2. ASSUME NEW l \in Kinds, NEW i \in 1..Len(F[l]), F[l][i] = c
          PROVE  \E j \in 1..Len(G[l]) : G[l][j] = c
      BY <1>4, <3>2
    <3>3. \/ c \in s
          \/ \E l \in Kinds : \E i \in 1..Len(F[l]) : F[l][i] = c
          \/ \E i \in 1..Len(R) : R[i] = c
      BY DEF OwnedOnce
    <3> QED
      BY <3>1, <3>2, <3>3
  <2> QED
    BY <2>1, <2>2, <2>3, <2>4, <2>5, <2>6 DEF OwnedOnce
<1> QED
  BY <1>6 DEF G

\* A buffer moves from the head of one of the sequences F to the end of R.
LEMMA OwnedReport ==
  ASSUME NEW s, NEW F \in [Kinds -> Seq(Buffers)], NEW R \in Seq(Buffers), OwnedOnce(s, F, R),
         NEW k \in Kinds, F[k] # <<>>
  PROVE  OwnedOnce(s, [F EXCEPT ![k] = Tail(F[k])], Append(R, Head(F[k])))
<1> DEFINE G == [F EXCEPT ![k] = Tail(F[k])]
           b == Head(F[k])
           S == Append(R, b)
           n == Len(R)
<1>1. /\ Len(F[k]) \in Nat \ {0} /\ Len(G[k]) = Len(F[k]) - 1 /\ F[k][1] = b
      /\ \A i \in 1..Len(G[k]) : G[k][i] = F[k][i + 1]
      /\ \A l \in Kinds \ {k} : G[l] = F[l] /\ Len(F[l]) \in Nat
  OBVIOUS
<1>2. n \in Nat /\ Len(S) = n + 1 /\ S[n + 1] = b /\ \A i \in 1..n : S[i] = R[i]
  OBVIOUS
<1> HIDE DEF G, S, b
<1>3. \A i \in 1..Len(G[k]) : i + 1 \in 2..Len(F[k]) /\ G[k][i] = F[k][i + 1]
  BY <1>1
<1>4. \A i \in 2..Len(F[k]) : i - 1 \in 1..Len(G[k]) /\ G[k][i - 1] = F[k][i]
  BY <1>1
<1>5. \A i \in 1..Len(S) : (i \in 1..n /\ S[i] = R[i]) \/ (i = n + 1 /\ S[i] = b)
  BY <1>2
<1>6. \A i \in 1..n : i \in 1..Len(S) /\ S[i] = R[i]
  BY <1>2
<1>7. 1 \in 1..Len(F[k]) /\ n + 1 \in 1..Len(S) /\ S[n + 1] = b
  BY <1>1, <1>2
<1>8. /\ \A l \in Kinds : \A i \in 1..Len(G[l]) : G[l][i] \notin s /\ G[l][i] # b
      /\ \A i \in 1..Len(S) : S[i] \notin s
      /\ \A i \in 1..n : R[i] # b
  <2>1. b \notin s /\ \A i \in 1..n : R[i] # b
    BY <1>1, <1>7 DEF OwnedOnce
  <2>2. \A i \in 1..Len(G[k]) : G[k][i] \notin s /\ G[k][i] # b
    <3> SUFFICES ASSUME NEW i \in 1..Len(G[k]) PROVE G[k][i] \notin s /\ G[k][i] # b
      OBVIOUS
    <3>1. i + 1 \in 1..Len(F[k]) /\ i + 1 # 1 /\ G[k][i] = F[k][i + 1]
      BY <1>1
    <3> QED
      BY <1>1, <1>7, <3>1 DEF OwnedOnce
  <2>3. \A l \in Kinds \ {k} : \A i \in 1..Len(G[l]) : G[l][i] \notin s /\ G[l][i] # b
    BY <1>1, <1>7 DEF OwnedOnce
  <2> QED
    BY <1>5, <2>1, <2>2, <2>3 DEF OwnedOnce
<1>9. \A l, m \in Kinds : \A i \in 1..Len(G[l]), j \in 1..Len(G[m]) : G[l][i] = G[m][j] => l = m /\ i = j
  <2> SUFFICES ASSUME NEW l \in Kinds, NEW m \in Kinds, NEW i \in 1..Len(G[l]), NEW j \in 1..Len(G[m]),
                      G[l][i] = G[m][j]
               PROVE  l = m /\ i = j
    OBVIOUS
  <2>1. PICK x \in 1..Len(F[l]) : G[l][i] = F[l][x] /\ x = (IF l = k THEN i + 1 ELSE i)
    BY <1>1
  <2>2. PICK y \in 1..Len(F[m]) : G[m][j] = F[m][y] /\ y = (IF m = k THEN j + 1 ELSE j)
    BY <1>1
  <2>3. F[l][x] = F[m][y] => l = m /\ x = y
    BY DEF OwnedOnce
  <2>4. l = m /\ x = y
    BY <2>1, <2>2, <2>3
  <2>5. i \in Int /\ j \in Int
    OBVIOUS
  <2>6. CASE l = k
    BY <2>1, <2>2, <2>4, <2>5, <2>6
  <2>7. CASE l # k
    BY <2>1, <2>2, <2>4, <2>5, <2>7
  <2> QED
    BY <2>6, <2>7
<1>10. \A i, j \in 1..Len(S) : S[i] = S[j] => i = j
  <2>1. \A i, j \in 1..n : R[i] = R[j] => i = j
    BY DEF OwnedOnce
  <2>2. \A i \in 1..n : R[i] # b
    BY <1>8
  <2> QED
    BY <1>5, <2>1, <2>2
<1>11. \A l \in Kinds : \A i \in 1..Len(G[l]), j \in 1..Len(S) : G[l][i] # S[j]
  <2> SUFFICES ASSUME NEW l \in Kinds, NEW i \in 1..Len(G[l]), NEW j \in 1..n PROVE G[l][i] # R[j]
    BY <1>5, <1>8
  <2>1. PICK x \in 1..Len(F[l]) : G[l][i] = F[l][x] /\ x = (IF l = k THEN i + 1 ELSE i)
    BY <1>1
  <2> QED
    BY <2>1 DEF OwnedOnce
<1>12. ASSUME NEW c \in Buffers
       PROVE  \/ c \in s
              \/ \E l \in Kinds : \E i \in 1..Len(G[l]) : G[l][i] = c
              \/ \E i \in 1..Len(S) : S[i] = c
  <2>1. CASE c = b
    BY <1>7, <2>1
  <2>2. ASSUME NEW l \in Kinds, NEW i \in 1..Len(F[l]), F[l][i] = c, c # b
        PROVE  \E j \in 1..Len(G[l]) : G[l][j] = c
    <3>1. CASE l = k
      <4>1. i \in 2..Len(F[k])
        BY <1>1, <2>2, <3>1
      <4> QED
        BY <1>4, <2>2, <3>1, <4>1
    <3>2. CASE l # k
      BY <1>1, <2>2, <3>2
    <3> QED
      BY <3>1, <3>2
  <2> QED
    BY <1>6, <2>1, <2>2 DEF OwnedOnce
<1>13. OwnedOnce(s, G, S)
  BY <1>8, <1>9, <1>10, <1>11, <1>12 DEF OwnedOnce
<1> QED
  BY <1>13 DEF G, S, b

\* A buffer moves from the head of R to the set.
LEMMA OwnedRead ==
  ASSUME NEW s, NEW F \in [Kinds -> Seq(Buffers)], NEW R \in Seq(Buffers), OwnedOnce(s, F, R), R # <<>>
  PROVE  OwnedOnce(s \cup {Head(R)}, F, Tail(R))
<1> DEFINE S == Tail(R)
           b == Head(R)
<1>1. /\ Len(R) \in Nat \ {0} /\ Len(S) = Len(R) - 1 /\ R[1] = b
      /\ \A i \in 1..Len(S) : S[i] = R[i + 1]
  OBVIOUS
<1> HIDE DEF S, b
<1>2. \A i \in 1..Len(S) : i + 1 \in 1..Len(R) /\ i + 1 # 1 /\ S[i] = R[i + 1]
  BY <1>1
<1>3. \A i \in 1..Len(R) : i # 1 => i - 1 \in 1..Len(S) /\ S[i - 1] = R[i]
  BY <1>1
<1>4. 1 \in 1..Len(R) /\ R[1] = b
  BY <1>1
<1>5. \A k \in Kinds : \A i \in 1..Len(F[k]) : F[k][i] \notin s \cup {b}
  BY <1>4 DEF OwnedOnce
<1>6. \A i \in 1..Len(S) : S[i] \notin s \cup {b}
  <2> SUFFICES ASSUME NEW i \in 1..Len(S) PROVE S[i] \notin s \cup {b}
    OBVIOUS
  <2>1. \A x \in 1..Len(R) : R[x] \notin s
    BY DEF OwnedOnce
  <2>2. \A x, y \in 1..Len(R) : R[x] = R[y] => x = y
    BY DEF OwnedOnce
  <2> QED
    BY <1>2, <1>4, <2>1, <2>2
<1>7. \A k, l \in Kinds : \A i \in 1..Len(F[k]), j \in 1..Len(F[l]) : F[k][i] = F[l][j] => k = l /\ i = j
  BY DEF OwnedOnce
<1>8. ASSUME NEW i \in 1..Len(S), NEW j \in 1..Len(S), S[i] = S[j]
      PROVE  i = j
  <2>1. i + 1 \in 1..Len(R) /\ j + 1 \in 1..Len(R) /\ R[i + 1] = R[j + 1]
    BY <1>2, <1>8
  <2>2. i + 1 = j + 1
    BY <2>1 DEF OwnedOnce
  <2> QED
    BY <2>2
<1>9. \A k \in Kinds : \A i \in 1..Len(F[k]), j \in 1..Len(S) : F[k][i] # S[j]
  BY <1>2 DEF OwnedOnce
<1>10. ASSUME NEW c \in Buffers
       PROVE  \/ c \in s \cup {b}
              \/ \E k \in Kinds : \E i \in 1..Len(F[k]) : F[k][i] = c
              \/ \E i \in 1..Len(S) : S[i] = c
  <2>1. ASSUME NEW i \in 1..Len(R), R[i] = c, c # b
        PROVE  \E j \in 1..Len(S) : S[j] = c
    BY <1>3, <1>4, <2>1
  <2> QED
    BY <2>1 DEF OwnedOnce
<1>11. OwnedOnce(s \cup {b}, F, S)
  BY <1>5, <1>6, <1>7, <1>8, <1>9, <1>10 DEF OwnedOnce
<1> QED
  BY <1>11 DEF S, b

\* The buffers of one of the sequences F move to the set.
LEMMA OwnedResetAv ==
  ASSUME NEW s, NEW F \in [Kinds -> Seq(Buffers)], NEW R \in Seq(Buffers), OwnedOnce(s, F, R), NEW k \in Kinds
  PROVE  OwnedOnce(s \cup {F[k][i] : i \in 1..Len(F[k])}, [F EXCEPT ![k] = <<>>], R)
<1> DEFINE G == [F EXCEPT ![k] = <<>>]
           t == s \cup {F[k][i] : i \in 1..Len(F[k])}
<1>1. Len(G[k]) = 0 /\ \A l \in Kinds \ {k} : G[l] = F[l]
  OBVIOUS
<1> HIDE DEF G
<1>2. \A l \in Kinds : \A i \in 1..Len(G[l]) : l # k /\ i \in 1..Len(F[l]) /\ G[l][i] = F[l][i]
  BY <1>1
<1>3. ASSUME NEW l \in Kinds, NEW i \in 1..Len(G[l])
      PROVE  G[l][i] \notin t
  <2>1. l # k /\ i \in 1..Len(F[l]) /\ G[l][i] = F[l][i]
    BY <1>2
  <2>2. F[l][i] \notin s
    BY <2>1 DEF OwnedOnce
  <2>3. \A j \in 1..Len(F[k]) : F[l][i] # F[k][j]
    BY <2>1 DEF OwnedOnce
  <2> QED
    BY <2>1, <2>2, <2>3
<1>4. \A i \in 1..Len(R) : R[i] \notin t
  BY DEF OwnedOnce
<1>5. \A l, m \in Kinds : \A i \in 1..Len(G[l]), j \in 1..Len(G[m]) : G[l][i] = G[m][j] => l = m /\ i = j
  BY <1>2 DEF OwnedOnce
<1>6. \A i, j \in 1..Len(R) : R[i] = R[j] => i = j
  BY DEF OwnedOnce
<1>7. \A l \in Kinds : \A i \in 1..Len(G[l]), j \in 1..Len(R) : G[l][i] # R[j]
  BY <1>2 DEF OwnedOnce
<1>8. ASSUME NEW c \in Buffers
      PROVE  \/ c \in t
             \/ \E l \in Kinds : \E i \in 1..Len(G[l]) : G[l][i] = c
             \/ \E i \in 1..Len(R) : R[i] = c
  <2>1. ASSUME NEW l \in Kinds, NEW i \in 1..Len(F[l]), F[l][i] = c
        PROVE  c \in t \/ \E j \in 1..Len(G[l]) : G[l][j] = c
    BY <1>1, <2>1
  <2>2. \/ c \in s
        \/ \E l \in Kinds : \E i \in 1..Len(F[l]) : F[l][i] = c
        \/ \E i \in 1..Len(R) : R[i] = c
    BY DEF OwnedOnce
  <2> QED
    BY <2>1, <2>2
<1> HIDE DEF t
<1>9. OwnedOnce(t, G, R)
  BY <1>3, <1>4, <1>5, <1>6, <1>7, <1>8 DEF OwnedOnce
<1> QED
  BY <1>9 DEF G, t

\* The buffers of R move to the set.
LEMMA OwnedResetRx ==
  ASSUME NEW s, NEW F \in [Kinds -> Seq(Buffers)], NEW R \in Seq(Buffers), OwnedOnce(s, F, R)
  PROVE  OwnedOnce(s \cup {R[i] : i \in 1..Len(R)}, F, <<>>)
BY DEF OwnedOnce

\* The entries that may still be handed out, and the buffers reported to software.
Live == [k \in Kinds |-> AvLive(k)]
Described == [i \in 1..Len(rx) |-> rx[i].buf]

Owned == OwnedOnce(swBufs, Live, Described)

\* A buffer is popped between transactions, and there is one to pop.
PopSound == pop # "none" => xact = "Idle" /\ av[pop] # <<>>

\* What is left of the FIFOs when the pop is done, and the buffers in the RX FIFO.
LEMMA OwnedTypes ==
  ASSUME NEW a \in [Kinds -> Seq(Buffers)], NEW p \in Kinds \cup {"none"}, NEW r \in Seq(RxEntry),
         p # "none" => a[p] # <<>>
  PROVE  LET f == [k \in Kinds |-> IF p = k THEN Tail(a[k]) ELSE a[k]]
             d == [i \in 1..Len(r) |-> r[i].buf]
         IN  /\ f \in [Kinds -> Seq(Buffers)]
             /\ d \in Seq(Buffers) /\ Len(d) = Len(r)
             /\ \A i \in 1..Len(r) : d[i] = r[i].buf
             /\ p = "none" => f = a
<1> DEFINE f == [k \in Kinds |-> IF p = k THEN Tail(a[k]) ELSE a[k]]
           d == [i \in 1..Len(r) |-> r[i].buf]
<1>1. \A i \in 1..Len(r) : r[i].buf \in Buffers
  <2>1. \A i \in 1..Len(r) : r[i] \in RxEntry
    OBVIOUS
  <2> QED
    BY <2>1 DEF RxEntry
<1>2. d \in [1..Len(r) -> Buffers] /\ Len(r) \in Nat
  BY <1>1
<1>3. d \in Seq(Buffers)
  BY <1>2, SeqDef
<1>4. Len(d) = Len(r)
  BY <1>2
<1>5. f \in [Kinds -> Seq(Buffers)]
  <2> SUFFICES ASSUME NEW k \in Kinds PROVE (IF p = k THEN Tail(a[k]) ELSE a[k]) \in Seq(Buffers)
    OBVIOUS
  <2>1. a[k] \in Seq(Buffers) /\ k # "none"
    BY DEF Kinds
  <2>2. CASE p = k
    BY <2>1, <2>2
  <2> QED
    BY <2>1, <2>2
<1>6. p = "none" => f = a
  BY DEF Kinds
<1> QED
  BY <1>1, <1>2, <1>3, <1>4, <1>5, <1>6

\* A buffer is popped after a transaction, and only if it was there.
LEMMA PopSoundStep == TypeOK /\ PopSound /\ [Next]_vars => PopSound'
<1> SUFFICES ASSUME TypeOK, PopSound, [Next]_vars PROVE PopSound'
  OBVIOUS
<1> USE DEF PopSound, fsmVars, swVars, Goto
<1>1. CASE Bus
  BY <1>1 DEF Bus, TokenEnd, PacketStart, ResponseTimeout, DataPut, DataEnd, BadPacketEnd, LinkReset
<1>2. CASE DecideSetup \/ DecideOut \/ DecideIso
  <2>1. pop = "none" /\ av' = av /\ xact' = "Idle"
    BY <1>2 DEF DecideSetup, DecideOut, DecideIso
  <2>2. pop' = pop \/ (~Refused /\ Accept)
    BY <1>2 DEF DecideSetup, DecideOut, DecideIso, Drop
  <2>3. ~Refused /\ Accept => av[pop'] # <<>>
    BY DEF Refused, OutFull, AvValid, AvSel, Accept
  <2> QED
    BY <2>1, <2>2, <2>3
<1>3. CASE PopBuffer
  BY <1>3 DEF PopBuffer
<1>4. CASE Software
  BY <1>4 DEF Software, SwProvide, SwReadRx, SwResetAv, SwResetRx, SwWriteRxEnable, SwWriteStall, SwWriteToggle
<1>5. CASE UNCHANGED vars
  BY <1>5 DEF vars
<1> QED
  BY <1>1, <1>2, <1>3, <1>4, <1>5 DEF Next, Device

\* Each step moves a buffer from one place to another, or none.
LEMMA OwnedStep == TypeOK /\ TypeOK' /\ PopSound /\ PopSound' /\ Owned /\ [Next]_vars => Owned'
<1> SUFFICES ASSUME TypeOK, TypeOK', PopSound, PopSound', Owned, [Next]_vars PROVE Owned'
  OBVIOUS
<1> USE DEF fsmVars, swVars
<1>1. /\ Live \in [Kinds -> Seq(Buffers)] /\ Live' \in [Kinds -> Seq(Buffers)]
      /\ Described \in Seq(Buffers) /\ Described' \in Seq(Buffers)
      /\ Len(Described) = Len(rx) /\ Len(Described') = Len(rx')
      /\ \A i \in 1..Len(rx) : Described[i] = rx[i].buf
      /\ \A i \in 1..Len(rx') : Described'[i] = rx'[i].buf
      /\ Len(rx) \in Nat /\ rx \in Seq(RxEntry)
      /\ pop = "none" => Live = av
      /\ pop' = "none" => Live' = av'
  <2>1. /\ av \in [Kinds -> Seq(Buffers)] /\ pop \in Kinds \cup {"none"} /\ rx \in Seq(RxEntry)
        /\ pop # "none" => av[pop] # <<>>
    BY DEF TypeOK, PopSound
  <2>2. /\ av' \in [Kinds -> Seq(Buffers)] /\ pop' \in Kinds \cup {"none"} /\ rx' \in Seq(RxEntry)
        /\ pop' # "none" => av'[pop'] # <<>>
    BY DEF TypeOK, PopSound
  <2>3. /\ Live \in [Kinds -> Seq(Buffers)] /\ Described \in Seq(Buffers) /\ Len(Described) = Len(rx)
        /\ \A i \in 1..Len(rx) : Described[i] = rx[i].buf
        /\ pop = "none" => Live = av
    BY <2>1, OwnedTypes DEF Live, Described, AvLive
  <2>4. /\ Live' \in [Kinds -> Seq(Buffers)] /\ Described' \in Seq(Buffers) /\ Len(Described') = Len(rx')
        /\ \A i \in 1..Len(rx') : Described'[i] = rx'[i].buf
        /\ pop' = "none" => Live' = av'
    BY <2>2, OwnedTypes DEF Live, Described, AvLive
  <2>5. Len(rx) \in Nat
    BY <2>1
  <2> QED
    BY <2>1, <2>3, <2>4, <2>5
<1>2. pop = "none" => Live = av
  BY <1>1
<1>3. pop' = "none" => Live' = av'
  BY <1>1
<1>4. CASE UNCHANGED <<av, pop, rx, swBufs>>
  BY <1>4 DEF Owned, Live, AvLive, Described
<1>5. CASE pop = "none" /\ av' = av /\ swBufs' = swBufs /\ ~Refused /\ Accept
  <2> DEFINE k == Kind(CurrentSetup)
  <2>1. k \in Kinds /\ av[k] # <<>> /\ Live[k] = av[k]
    BY <1>2, <1>5 DEF Refused, OutFull, AvValid, AvSel, Kind, Kinds
  <2>2. Live' = [Live EXCEPT ![k] = Tail(Live[k])]
    <3>1. pop' = k
      BY <1>5 DEF Accept
    <3>2. \A l \in Kinds : Live'[l] = IF l = k THEN Tail(av[l]) ELSE av[l]
      BY <1>5, <3>1 DEF Live, AvLive
    <3> QED
      BY <1>1, <1>2, <1>5, <2>1, <3>2
  <2>3. Described' = Append(Described, Head(Live[k]))
    <3>1. Head(av[k]) \in Buffers
      BY <1>1, <2>1
    <3>2. rx' = Append(rx, rx'[Len(rx) + 1]) /\ rx'[Len(rx) + 1].buf = Head(av[k]) /\ Len(rx') = Len(rx) + 1
          /\ \A i \in 1..Len(rx) : rx'[i] = rx[i]
      BY <1>1, <1>5 DEF Accept, AvSel
    <3>3. Append(Described, Head(av[k])) \in Seq(Buffers) /\ Len(Append(Described, Head(av[k]))) = Len(rx) + 1
          /\ \A i \in 1..Len(rx) : Append(Described, Head(av[k]))[i] = rx[i].buf
          /\ Append(Described, Head(av[k]))[Len(rx) + 1] = Head(av[k])
      BY <1>1, <3>1
    <3>4. \A i \in 1..(Len(rx) + 1) : Described'[i] = Append(Described, Head(av[k]))[i]
      BY <1>1, <3>2, <3>3
    <3> HIDE DEF k
    <3> QED
      BY <1>1, <2>1, <3>2, <3>3, <3>4, SeqEqual
  <2> HIDE DEF k
  <2> QED
    BY <1>1, <1>5, <2>1, <2>2, <2>3, OwnedReport DEF Owned
<1>6. CASE PopBuffer
  <2>1. Live' = Live
    <3>1. pop \in Kinds /\ av[pop] # <<>>
      BY <1>6 DEF PopBuffer, PopSound, TypeOK
    <3>2. \A l \in Kinds : Live'[l] = Live[l]
      BY <1>3, <1>6, <3>1 DEF PopBuffer, Live, AvLive, TypeOK
    <3> QED
      BY <1>1, <3>2
  <2> QED
    BY <1>6, <2>1 DEF PopBuffer, Owned, Described
<1>7. ASSUME NEW k \in Kinds, NEW b \in Buffers, SwProvide(k, b)
      PROVE  Owned'
  <2>1. Live' = [Live EXCEPT ![k] = Append(Live[k], b)] /\ swBufs' = swBufs \ {b} /\ b \in swBufs \cap Buffers
    BY <1>2, <1>3, <1>7 DEF SwProvide
  <2>2. Described' = Described
    BY <1>7 DEF SwProvide, Described
  <2> QED
    BY <1>1, <2>1, <2>2, OwnedProvide DEF Owned
<1>8. CASE SwReadRx
  <2>1. Live' = Live
    BY <1>8 DEF SwReadRx, Live, AvLive
  <2>2. Described # <<>> /\ Head(Described) = Head(rx).buf
    BY <1>1, <1>8 DEF SwReadRx
  <2>3. Described' = Tail(Described)
    <3>1. Len(rx') = Len(rx) - 1 /\ \A i \in 1..Len(rx') : rx'[i] = rx[i + 1] /\ i + 1 \in 1..Len(rx)
      BY <1>1, <1>8 DEF SwReadRx
    <3>2. /\ Tail(Described) \in Seq(Buffers) /\ Len(Tail(Described)) = Len(rx) - 1
          /\ \A i \in 1..(Len(rx) - 1) : Tail(Described)[i] = Described[i + 1]
      BY <1>1, <2>2
    <3>3. \A i \in 1..Len(Described') : Described'[i] = Tail(Described)[i]
      BY <1>1, <3>1, <3>2
    <3> QED
      BY <1>1, <3>1, <3>2, <3>3, SeqEqual
  <2> QED
    BY <1>1, <1>8, <2>1, <2>2, <2>3, OwnedRead DEF Owned, SwReadRx
<1>9. ASSUME NEW k \in Kinds, SwResetAv(k)
      PROVE  Owned'
  <2>1. /\ Live' = [Live EXCEPT ![k] = <<>>] /\ swBufs' = swBufs \cup {Live[k][i] : i \in 1..Len(Live[k])}
    BY <1>2, <1>3, <1>9 DEF SwResetAv
  <2>2. Described' = Described
    BY <1>9 DEF SwResetAv, Described
  <2> QED
    BY <1>1, <2>1, <2>2, OwnedResetAv DEF Owned
<1>10. CASE SwResetRx
  <2>1. Live' = Live /\ Described' = <<>>
    BY <1>1, <1>10 DEF SwResetRx, Live, AvLive
  <2>2. swBufs' = swBufs \cup {Described[i] : i \in 1..Len(Described)}
    BY <1>1, <1>10 DEF SwResetRx
  <2> QED
    BY <1>1, <2>1, <2>2, OwnedResetRx DEF Owned
<1>11. CASE Bus
  BY <1>4, <1>11 DEF Bus, TokenEnd, PacketStart, ResponseTimeout, DataPut, DataEnd, BadPacketEnd, LinkReset
<1>12. CASE DecideSetup \/ DecideOut \/ DecideIso
  <2>1. pop = "none" /\ av' = av /\ swBufs' = swBufs
    BY <1>12 DEF DecideSetup, DecideOut, DecideIso, PopSound
  <2> QED
    BY <1>4, <1>5, <1>12, <2>1 DEF DecideSetup, DecideOut, DecideIso, Drop
<1>13. CASE Software
  BY <1>4, <1>7, <1>8, <1>9, <1>10, <1>13 DEF Software, SwWriteRxEnable, SwWriteStall, SwWriteToggle
<1> QED
  BY <1>4, <1>6, <1>11, <1>12, <1>13 DEF Next, Device, vars

\* A buffer that is owned once is in one of the places of OneOwner.
LEMMA OwnedCounts == TypeOK /\ PopSound /\ Owned => OneOwner
<1> DEFINE InSw == {<<"sw", 0, x>> : x \in swBufs}
           InAv == UNION {{<<k, i, AvLive(k)[i]>> : i \in 1..Len(AvLive(k))} : k \in Kinds}
           InRx == {<<"rx", i, rx[i].buf>> : i \in 1..Len(rx)}
           places == InSw \cup InAv \cup InRx
<1> SUFFICES ASSUME TypeOK, PopSound, Owned, NEW b \in Buffers
             PROVE  Cardinality({p \in places : p[3] = b}) = 1
  BY DEF OneOwner
<1> DEFINE here == {p \in places : p[3] = b}
<1>1. /\ \A k \in Kinds : Live[k] = AvLive(k)
      /\ \A i \in 1..Len(rx) : Described[i] = rx[i].buf
      /\ Len(Described) = Len(rx)
  <2>1. /\ av \in [Kinds -> Seq(Buffers)] /\ pop \in Kinds \cup {"none"} /\ rx \in Seq(RxEntry)
        /\ pop # "none" => av[pop] # <<>>
    BY DEF TypeOK, PopSound
  <2> QED
    BY <2>1, OwnedTypes DEF Live, Described
<1>2. \A p : p \in InSw /\ p[3] = b <=> b \in swBufs /\ p = <<"sw", 0, b>>
  OBVIOUS
<1>3. \A p : p \in InAv /\ p[3] = b
             <=> \E k \in Kinds : \E i \in 1..Len(AvLive(k)) : AvLive(k)[i] = b /\ p = <<k, i, b>>
  <2>1. \A p : p \in InAv
               <=> \E k \in Kinds : \E i \in 1..Len(AvLive(k)) : p = <<k, i, AvLive(k)[i]>>
    OBVIOUS
  <2> HIDE DEF InAv
  <2>2. \A k, i, x : <<k, i, x>>[3] = x
    OBVIOUS
  <2> QED
    BY <2>1, <2>2
<1>4. \A p : p \in InRx /\ p[3] = b
             <=> \E i \in 1..Len(rx) : rx[i].buf = b /\ p = <<"rx", i, b>>
  OBVIOUS
<1> HIDE DEF InSw, InAv, InRx
<1>5. \A k \in Kinds : \A i \in 1..Len(AvLive(k)) : AvLive(k)[i] \notin swBufs
  BY <1>1 DEF Owned, OwnedOnce
<1>6. \A i \in 1..Len(rx) : rx[i].buf \notin swBufs
  BY <1>1 DEF Owned, OwnedOnce
<1>7. \A k, l \in Kinds : \A i \in 1..Len(AvLive(k)), j \in 1..Len(AvLive(l)) :
        AvLive(k)[i] = AvLive(l)[j] => k = l /\ i = j
  BY <1>1 DEF Owned, OwnedOnce
<1>8. \A i, j \in 1..Len(rx) : rx[i].buf = rx[j].buf => i = j
  BY <1>1 DEF Owned, OwnedOnce
<1>9. \A k \in Kinds : \A i \in 1..Len(AvLive(k)), j \in 1..Len(rx) : AvLive(k)[i] # rx[j].buf
  BY <1>1 DEF Owned, OwnedOnce
<1>10. \E p : here = {p}
  <2>1. CASE b \in swBufs
    <3>1. here = {<<"sw", 0, b>>}
      BY <1>2, <1>3, <1>4, <1>5, <1>6, <2>1
    <3> QED
      BY <3>1
  <2>2. ASSUME NEW k \in Kinds, NEW i \in 1..Len(AvLive(k)), AvLive(k)[i] = b
        PROVE  \E p : here = {p}
    <3>1. here = {<<k, i, b>>}
      BY <1>2, <1>3, <1>4, <1>5, <1>7, <1>9, <2>2
    <3> QED
      BY <3>1
  <2>3. ASSUME NEW i \in 1..Len(rx), rx[i].buf = b
        PROVE  \E p : here = {p}
    <3>1. here = {<<"rx", i, b>>}
      BY <1>2, <1>3, <1>4, <1>6, <1>8, <1>9, <2>3
    <3> QED
      BY <3>1
  <2>4. \/ b \in swBufs
        \/ \E k \in Kinds : \E i \in 1..Len(AvLive(k)) : AvLive(k)[i] = b
        \/ \E i \in 1..Len(rx) : rx[i].buf = b
    BY <1>1 DEF Owned, OwnedOnce
  <2> QED
    BY <2>1, <2>2, <2>3, <2>4
<1>11. Cardinality(here) = 1
  BY <1>10, FS_Singleton
<1> QED
  BY <1>11

\* No packet buffer is ever in two places, or in none: the hardware can write to no
\* buffer that software or another packet holds, and no buffer is lost.
THEOREM OneOwnerHolds == Spec => []OneOwner
<1>1. Init => PopSound /\ Owned
  <2> SUFFICES ASSUME Init PROVE PopSound /\ Owned
    OBVIOUS
  <2>1. \A k \in Kinds : Live[k] = <<>>
    BY DEF Init, Live, AvLive, Kinds
  <2>2. Described = <<>>
    BY DEF Init, Described
  <2>3. swBufs = Buffers /\ pop = "none"
    BY DEF Init
  <2> QED
    BY <2>1, <2>2, <2>3 DEF PopSound, Owned, OwnedOnce
<1>2. TypeOK /\ TypeOK' /\ PopSound /\ Owned /\ [Next]_vars => PopSound' /\ Owned'
  BY PopSoundStep, OwnedStep
<1>3. TypeOK /\ PopSound /\ Owned => OneOwner
  BY OwnedCounts
<1> QED
  BY <1>1, <1>2, <1>3, TypeCorrect, PTL DEF Spec

=============================================================================
