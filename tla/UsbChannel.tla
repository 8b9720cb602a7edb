------------------------------ MODULE UsbChannel ------------------------------
(***************************************************************************)
(* What an IN endpoint with handshakes promises software and host: a       *)
(* channel that holds one packet at a time, which the host takes at most   *)
(* once, in the order in which they were offered, and which is reported as *)
(* sent only when the host has taken it.  Packets are serial numbers.      *)
(***************************************************************************)
EXTENDS Naturals

CONSTANT Endpoints

VARIABLES
  newest,    \* the packet offered last, on these endpoints or elsewhere
  offered,   \* the packet each endpoint offers, 0 for none
  taken,     \* the packet the host has taken last
  reported   \* the packet reported as sent last

vars == <<newest, offered, taken, reported>>

None == [e \in Endpoints |-> 0]

Init == newest = 0 /\ offered = None /\ taken = None /\ reported = None

Offer(e) ==
  /\ offered[e] = 0
  /\ newest' = newest + 1 /\ offered' = [offered EXCEPT ![e] = newest']
  /\ UNCHANGED <<taken, reported>>

Elsewhere == newest' = newest + 1 /\ UNCHANGED <<offered, taken, reported>>

Take(e) ==
  /\ offered[e] > taken[e]
  /\ taken' = [taken EXCEPT ![e] = offered[e]]
  /\ UNCHANGED <<newest, offered, reported>>

Report(e) ==
  /\ offered[e] # 0 /\ taken[e] = offered[e]
  /\ reported' = [reported EXCEPT ![e] = offered[e]]
  /\ UNCHANGED <<newest, offered, taken>>

\* The packet was sent, cancelled or retracted: its buffer is free.
Close(e) ==
  /\ offered' = [offered EXCEPT ![e] = 0]
  /\ UNCHANGED <<newest, taken, reported>>

Next == Elsewhere \/ \E e \in Endpoints : Offer(e) \/ Take(e) \/ Report(e) \/ Close(e)

Spec == Init /\ [][Next]_vars

-----------------------------------------------------------------------------
\* What is reported as sent was taken, and nothing is taken that was not offered.
InOrder == \A e \in Endpoints : reported[e] <= taken[e] /\ taken[e] <= newest

\* No packet is taken twice, nor one older than the last that was taken.
NeverBack == [][\A e \in Endpoints : taken'[e] >= taken[e]]_taken

=============================================================================
