--------------------------- MODULE UsbChannelProofs ---------------------------
(* Theorems about UsbChannel: what every implementation of it inherits.      *)
EXTENDS UsbChannel, TLAPS

TypeOK ==
  /\ newest \in Nat /\ offered \in [Endpoints -> Nat]
  /\ taken \in [Endpoints -> Nat] /\ reported \in [Endpoints -> Nat]

\* What is offered is not newer than the newest packet.
OfferedBelow == \A e \in Endpoints : offered[e] <= newest

IInv == TypeOK /\ OfferedBelow /\ InOrder

\* A channel begins with nothing offered.
LEMMA InitIInv == Init => IInv
  BY DEF Init, None, IInv, TypeOK, OfferedBelow, InOrder

\* Each step of the channel keeps its packets in order.
LEMMA NextIInv == IInv /\ [Next]_vars => IInv'
<1> SUFFICES ASSUME IInv, [Next]_vars PROVE IInv'
  OBVIOUS
<1> USE DEF IInv, TypeOK, OfferedBelow, InOrder
<1>1. CASE Elsewhere
  BY <1>1 DEF Elsewhere
<1>2. ASSUME NEW e \in Endpoints, Offer(e) PROVE IInv'
  BY <1>2 DEF Offer
<1>3. ASSUME NEW e \in Endpoints, Take(e) PROVE IInv'
  BY <1>3 DEF Take
<1>4. ASSUME NEW e \in Endpoints, Report(e) PROVE IInv'
  BY <1>4 DEF Report
<1>5. ASSUME NEW e \in Endpoints, Close(e) PROVE IInv'
  BY <1>5 DEF Close
<1>6. CASE UNCHANGED vars
  BY <1>6 DEF vars
<1>7. QED
  BY <1>1, <1>2, <1>3, <1>4, <1>5, <1>6 DEF Next

\* The invariant holds throughout.
LEMMA Invariance == Spec => []IInv
  BY InitIInv, NextIInv, PTL DEF Spec

\* Every channel reports only packets that were taken, and takes only packets that were
\* offered: the order that software and host of an IN endpoint rely on.
THEOREM InOrderHolds == Spec => []InOrder
<1>1. IInv => InOrder
  BY DEF IInv
<1>2. QED
  BY <1>1, Invariance, PTL

\* The host of a channel never takes a packet twice, nor an older one.
THEOREM NeverBackHolds == Spec => NeverBack
<1>1. IInv /\ [Next]_vars => [\A e \in Endpoints : taken'[e] >= taken[e]]_taken
  BY DEF IInv, TypeOK, Next, vars, Elsewhere, Offer, Take, Report, Close
<1>2. QED
  BY <1>1, Invariance, PTL DEF Spec, NeverBack

===============================================================================
