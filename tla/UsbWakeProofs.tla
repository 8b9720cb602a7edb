----------------------------- MODULE UsbWakeProofs -----------------------------
(***************************************************************************)
(* Proofs about UsbWake, for any time that a change of wake_events takes   *)
(* to reach software.                                                      *)
(***************************************************************************)
EXTENDS UsbWake, SequenceTheorems, TLAPS

-----------------------------------------------------------------------------
(* The invariant.                                                          *)

SuspendWrite == control # NoWrite /\ control.bits = {"suspend_req"}
AckWrite == control # NoWrite /\ control.bits = {"wake_ack"}

\* What software has asked of the wake detector is done, or on its way.
Phases ==
  /\ sw = "run" => ~active /\ control = NoWrite /\ ~shown.active
  /\ sw = "requested" =>
       \/ ~active /\ SuspendWrite /\ ~shown.active
       \/ active /\ control = NoWrite
  /\ sw \in {"asleep", "woken"} => active /\ control = NoWrite
  /\ sw = "acked" => (active /\ AckWrite) \/ (~active /\ control = NoWrite)

\* connect_en_i is what software wants, but for a device that slept without power.
ConnectWanted == sw \notin {"asleep", "woken"} => connect = want

\* When the request to take over arrives, the pull-up it finds was sampled after it was
\* written.
Sampled ==
  SuspendWrite =>
    /\ control.age >= 1 => puSync[1] = (connect /\ "unpowered" \notin past[1])
    /\ control.age = 2 => puSync[2] = (connect /\ "unpowered" \notin past[2])

IInv == TypeOK /\ Phases /\ ConnectWanted /\ Sampled

-----------------------------------------------------------------------------
(* Types.                                                                  *)

\* A tick shifts the samples.
LEMMA PastShifts ==
  ASSUME NEW S, NEW p \in [1..5 -> S], NEW x \in S
  PROVE  LET q == <<x>> \o SubSeq(p, 1, 4)
         IN q \in [1..5 -> S] /\ q[1] = x /\ \A i \in 1..4 : q[i + 1] = p[i]
<1> DEFINE t == SubSeq(p, 1, 4)
           q == <<x>> \o t
<1>1. p \in Seq(S) /\ Len(p) = 5
  <2>1. p \in Seq(S)
    BY SeqDef
  <2> QED
    BY <2>1, LenProperties
<1>2. t \in Seq(S) /\ Len(t) = 4 /\ \A i \in 1..4 : t[i] = p[i]
  BY <1>1
<1>3. q \in Seq(S) /\ Len(q) = 5 /\ q[1] = x /\ \A i \in 1..4 : q[i + 1] = t[i]
  BY <1>2
<1>4. q \in [1..5 -> S]
  BY <1>3, LenProperties
<1> QED
  BY <1>2, <1>3, <1>4

\* What the filters can see is a condition of the bus.
LEMMA SeenType == Seen \subseteq Conditions
BY DEF Seen

\* The state keeps its type.
LEMMA TypeStep == TypeOK /\ [Next]_vars => TypeOK'
<1> SUFFICES ASSUME TypeOK, [Next]_vars PROVE TypeOK'
  OBVIOUS
<1> USE WakeAssumption DEF TypeOK
<1>1. CASE Tick
  <2>1. puSync' \in [1..SyncFlops -> BOOLEAN] /\ aonPullup' \in BOOLEAN
    <3>1. UsbPullup \in BOOLEAN /\ puSync[1] \in BOOLEAN /\ puSync[2] \in BOOLEAN
      BY DEF UsbPullup, SyncFlops
    <3> QED
      BY <1>1, <3>1 DEF Tick, Held, SyncFlops
  <2>2. active' \in BOOLEAN
    <3>1. Activated \in BOOLEAN
      <4>1. ("wake_ack" \notin Arrived) \in BOOLEAN /\ ("suspend_req" \in Arrived) \in BOOLEAN
        OBVIOUS
      <4> QED
        BY <4>1 DEF Activated
    <3> QED
      BY <1>1, <3>1 DEF Tick
  <2>3. past' \in [1..5 -> SUBSET Conditions]
    BY <1>1, PastShifts, SeenType DEF Tick
  <2>4. lasting' \subseteq Conditions /\ reported' \subseteq Conditions
    BY <1>1 DEF Tick, Filtered, Reported
  <2>5. control' \in [bits : SUBSET Commands, age : 0..SyncFlops]
    BY <1>1 DEF Tick, ControlPasses, NoWrite, SyncFlops
  <2>6. shown' \in WakeEvents /\ relay' \in 0..RelayTime
    BY <1>1 DEF Tick, Relayed, WakeEvents
  <2> QED
    BY <1>1, <2>1, <2>2, <2>3, <2>4, <2>5, <2>6 DEF Tick, busVars, swVars
<1>2. \A b \in SUBSET Commands : Writes(b) => control' \in [bits : SUBSET Commands, age : 0..SyncFlops]
  BY DEF Writes, SyncFlops
<1>3. CASE Suspend \/ Cancel \/ WakeUp \/ TakeOver
  BY <1>2, <1>3 DEF Suspend, Cancel, WakeUp, TakeOver, Commands, busVars, aonVars
<1>4. ASSUME NEW c \in BOOLEAN, Connect(c) PROVE TypeOK'
  BY <1>4 DEF Connect, busVars, aonVars
<1>5. ASSUME NEW deep \in BOOLEAN, Sleep(deep) PROVE TypeOK'
  BY <1>5 DEF Sleep, AtReset, WakeEvents, busVars, aonVars
<1>6. CASE Resume
  BY <1>2, <1>6 DEF Resume, Commands, busVars, aonVars
<1>7. ASSUME NEW l \in {"idle", "resume", "reset"}, HostDrives(l) PROVE TypeOK'
  BY <1>7 DEF HostDrives, Event, aonVars, swVars
<1>8. CASE Power
  BY <1>8 DEF Power, Event, aonVars, swVars
<1>9. CASE UNCHANGED vars
  BY <1>9 DEF vars, busVars, aonVars, swVars
<1> QED
  BY <1>1, <1>3, <1>4, <1>5, <1>6, <1>7, <1>8, <1>9 DEF Next

-----------------------------------------------------------------------------
(* The steps.                                                              *)

\* What a tick does to a write on its way.
LEMMA WriteMoves ==
  ASSUME TypeOK, Tick
  PROVE  /\ control = NoWrite => Arrived = {} /\ control' = NoWrite
         /\ SuspendWrite /\ control.age < SyncFlops =>
              Arrived = {} /\ SuspendWrite' /\ control'.age = control.age + 1
         /\ AckWrite /\ control.age < SyncFlops => Arrived = {} /\ AckWrite'
         /\ control.age = SyncFlops => Arrived = control.bits /\ control' = NoWrite
         /\ SuspendWrite' => SuspendWrite
         /\ control.age \in 0..SyncFlops
BY DEF TypeOK, Tick, ControlPasses, Arrived, SuspendWrite, AckWrite, NoWrite, SyncFlops, Commands

\* What a tick does to the detector's state.
LEMMA ActiveMoves ==
  ASSUME TypeOK, Tick
  PROVE  /\ Arrived = {} => active' = active
         /\ ~active /\ Arrived = {"suspend_req"} => active'
         /\ active /\ Arrived = {"wake_ack"} => ~active'
         /\ ~active /\ ~shown.active => ~shown'.active
<1>1. active' = Activated /\ active \in BOOLEAN
  BY DEF Tick, TypeOK
<1>2. Arrived = {} => active' = active
  BY <1>1 DEF Activated
<1>3. ~active /\ Arrived = {"suspend_req"} => active'
  BY <1>1 DEF Activated
<1>4. active /\ Arrived = {"wake_ack"} => ~active'
  BY <1>1 DEF Activated
<1>5. ~active /\ ~shown.active => ~shown'.active
  BY DEF Tick, Relayed
<1> QED
  BY <1>2, <1>3, <1>4, <1>5

\* What software asks for is on its way until the detector has done it.
LEMMA PhasesStep == IInv /\ [Next]_vars => Phases'
<1> SUFFICES ASSUME IInv, [Next]_vars PROVE Phases'
  OBVIOUS
<1> USE DEF IInv, Phases
<1>1. CASE Tick
  <2>1. sw' = sw
    BY <1>1 DEF Tick, swVars
  <2>2. CASE sw = "run"
    BY <1>1, <2>1, <2>2, WriteMoves, ActiveMoves
  <2>3. CASE sw = "requested" /\ ~active
    <3>1. CASE control.age < SyncFlops
      BY <1>1, <2>1, <2>3, <3>1, WriteMoves, ActiveMoves
    <3>2. CASE control.age = SyncFlops
      BY <1>1, <2>1, <2>3, <3>2, WriteMoves, ActiveMoves DEF SuspendWrite
    <3> QED
      BY <1>1, <3>1, <3>2, WriteMoves DEF SyncFlops
  <2>4. CASE sw \in {"requested", "asleep", "woken"} /\ active
    BY <1>1, <2>1, <2>4, WriteMoves, ActiveMoves
  <2>5. CASE sw = "acked" /\ active
    <3>1. CASE control.age < SyncFlops
      BY <1>1, <2>1, <2>5, <3>1, WriteMoves, ActiveMoves
    <3>2. CASE control.age = SyncFlops
      BY <1>1, <2>1, <2>5, <3>2, WriteMoves, ActiveMoves DEF AckWrite
    <3> QED
      BY <1>1, <3>1, <3>2, WriteMoves DEF SyncFlops
  <2>6. CASE sw = "acked" /\ ~active
    BY <1>1, <2>1, <2>6, WriteMoves, ActiveMoves
  <2> QED
    BY <2>2, <2>3, <2>4, <2>5, <2>6 DEF TypeOK
<1>2. ASSUME NEW c \in BOOLEAN, Connect(c) PROVE Phases'
  BY <1>2 DEF Connect, aonVars
<1>3. CASE Suspend
  BY <1>3 DEF Suspend, Writes, Idle, SuspendWrite, NoWrite, aonVars
<1>4. CASE Cancel
  BY <1>4 DEF Cancel, Writes, Idle, SuspendWrite, AckWrite, NoWrite, aonVars
<1>5. ASSUME NEW deep \in BOOLEAN, Sleep(deep) PROVE Phases'
  BY <1>5 DEF Sleep, aonVars
<1>6. CASE WakeUp
  BY <1>6 DEF WakeUp, aonVars
<1>7. CASE Resume
  BY <1>7 DEF Resume, Writes, AckWrite, NoWrite, aonVars
<1>8. CASE TakeOver
  BY <1>8 DEF TakeOver, Idle, AckWrite, aonVars
<1>9. ASSUME NEW l \in {"idle", "resume", "reset"}, HostDrives(l) PROVE Phases'
  BY <1>9 DEF HostDrives, aonVars, swVars, SuspendWrite, AckWrite
<1>10. CASE Power
  BY <1>10 DEF Power, aonVars, swVars, SuspendWrite, AckWrite
<1>11. CASE UNCHANGED vars
  BY <1>11 DEF vars, aonVars, swVars, SuspendWrite, AckWrite
<1> QED
  BY <1>1, <1>2, <1>3, <1>4, <1>5, <1>6, <1>7, <1>8, <1>9, <1>10, <1>11 DEF Next

\* Software restores connect_en before it relies on it.
LEMMA ConnectWantedStep == IInv /\ [Next]_vars => ConnectWanted'
<1> SUFFICES ASSUME IInv, [Next]_vars PROVE ConnectWanted'
  OBVIOUS
<1> USE DEF IInv, ConnectWanted
<1>1. CASE Tick \/ Power \/ UNCHANGED vars
  BY <1>1 DEF Tick, Power, vars, swVars
<1>2. CASE Suspend \/ Cancel \/ WakeUp \/ TakeOver
  BY <1>2 DEF Suspend, Cancel, WakeUp, TakeOver
<1>3. CASE Resume
  BY <1>3 DEF Resume
<1>4. ASSUME NEW c \in BOOLEAN, Connect(c) PROVE ConnectWanted'
  BY <1>4 DEF Connect
<1>5. ASSUME NEW deep \in BOOLEAN, Sleep(deep) PROVE ConnectWanted'
  BY <1>5 DEF Sleep
<1>6. ASSUME NEW l \in {"idle", "resume", "reset"}, HostDrives(l) PROVE ConnectWanted'
  BY <1>6 DEF HostDrives, swVars
<1> QED
  BY <1>1, <1>2, <1>3, <1>4, <1>5, <1>6 DEF Next

\* A tick samples the pull-up and VBUS at once.
LEMMA TickSamples ==
  ASSUME TypeOK, Tick
  PROVE  /\ puSync'[1] = (connect /\ "unpowered" \notin past'[1])
         /\ puSync'[2] = puSync[1]
         /\ \A i \in 1..4 : past'[i + 1] = past[i]
         /\ ~vbus => "unpowered" \in past'[1]
<1>1. past'[1] = Seen /\ \A i \in 1..4 : past'[i + 1] = past[i]
  BY PastShifts, SeenType DEF TypeOK, Tick
<1>2. "unpowered" \in Seen <=> ~vbus
  BY DEF Seen, Conditions
<1>3. puSync'[1] = (connect /\ vbus) /\ puSync'[2] = puSync[1]
  BY DEF Tick, UsbPullup
<1>4. vbus = ("unpowered" \notin Seen)
  BY <1>2 DEF TypeOK
<1> QED
  BY <1>1, <1>2, <1>3, <1>4

\* connect does not change between the request and the sample.
LEMMA SampledStep == IInv /\ [Next]_vars => Sampled'
<1> SUFFICES ASSUME IInv, [Next]_vars, SuspendWrite'
             PROVE  /\ control'.age >= 1 =>
                         puSync'[1] = (connect' /\ "unpowered" \notin past'[1])
                    /\ control'.age = 2 =>
                         puSync'[2] = (connect' /\ "unpowered" \notin past'[2])
  BY DEF Sampled
<1> USE DEF IInv, Sampled
<1>1. CASE Tick
  <2>1. SuspendWrite /\ connect' = connect /\ control'.age = control.age + 1
    BY <1>1, WriteMoves DEF Tick, swVars, SyncFlops, SuspendWrite
  <2>2. past'[2] = past[1]
    BY <1>1, TickSamples
  <2>3. control'.age = 2 => puSync'[2] = (connect' /\ "unpowered" \notin past'[2])
    BY <1>1, <2>1, <2>2, TickSamples, WriteMoves DEF SyncFlops
  <2> QED
    BY <1>1, <2>1, <2>3, TickSamples
<1>2. ASSUME NEW c \in BOOLEAN, Connect(c) PROVE FALSE
  BY <1>2 DEF Connect, Phases, SuspendWrite
<1>3. CASE Suspend
  BY <1>3 DEF Suspend, Writes
<1>4. CASE Cancel \/ Resume
  BY <1>4 DEF Cancel, Resume, Writes, SuspendWrite
<1>5. ASSUME NEW deep \in BOOLEAN, Sleep(deep) PROVE FALSE
  BY <1>5 DEF Sleep, Phases, SuspendWrite
<1>6. CASE WakeUp \/ TakeOver \/ Power \/ UNCHANGED vars
  BY <1>6 DEF WakeUp, TakeOver, Power, SuspendWrite, vars, aonVars, swVars
<1>7. ASSUME NEW l \in {"idle", "resume", "reset"}, HostDrives(l)
      PROVE  /\ control'.age >= 1 =>
                  puSync'[1] = (connect' /\ "unpowered" \notin past'[1])
             /\ control'.age = 2 =>
                  puSync'[2] = (connect' /\ "unpowered" \notin past'[2])
  BY <1>7 DEF HostDrives, SuspendWrite, aonVars, swVars
<1> QED
  BY <1>1, <1>2, <1>3, <1>4, <1>5, <1>6, <1>7 DEF Next

\* Software is awake at first, and nothing has been asked.
LEMMA InitHolds == Init => IInv
<1> SUFFICES ASSUME Init PROVE IInv
  OBVIOUS
<1> USE WakeAssumption DEF Init
<1>1. TypeOK
  <2>1. puSync \in [1..SyncFlops -> BOOLEAN]
    <3>1. \A a, b \in BOOLEAN : <<a, b>> \in [1..2 -> BOOLEAN]
      OBVIOUS
    <3> QED
      BY <3>1 DEF SyncFlops
  <2>3. past \in [1..5 -> SUBSET Conditions]
    OBVIOUS
  <2>4. events \in 0..MaxEvents /\ relay \in 0..RelayTime
    OBVIOUS
  <2>2. control \in [bits : SUBSET Commands, age : 0..SyncFlops] /\ shown \in WakeEvents
    BY DEF SyncFlops, NoWrite, WakeEvents, AtReset
  <2> QED
    BY <2>1, <2>2, <2>3, <2>4 DEF TypeOK
<1>2. Phases /\ ConnectWanted /\ Sampled
  BY DEF Phases, ConnectWanted, Sampled, AtReset, SuspendWrite
<1> QED
  BY <1>1, <1>2 DEF IInv

\* The invariant holds throughout.
LEMMA Invariance == Spec => []IInv
<1>1. IInv /\ [Next]_vars => IInv'
  BY TypeStep, PhasesStep, ConnectWantedStep, SampledStep DEF IInv
<1> QED
  BY InitHolds, <1>1, PTL DEF Spec

\* Every variable keeps its type.
THEOREM TypeCorrect == Spec => []TypeOK
<1>1. IInv => TypeOK
  BY DEF IInv
<1> QED
  BY Invariance, <1>1, PTL

-----------------------------------------------------------------------------
(* The pull-up.                                                            *)

\* The pull-up changes with want and VBUS, or because VBUS was away.
LEMMA PullupStep ==
  IInv /\ IInv' /\ [Next]_vars =>
    (Pullup' # Pullup =>
       \/ Pullup' = (want' /\ vbus')
       \/ \E i \in 1..3 : "unpowered" \in past'[i])
<1> SUFFICES ASSUME IInv, IInv', [Next]_vars, Pullup' # Pullup,
                    \A i \in 1..3 : "unpowered" \notin past'[i]
             PROVE  Pullup' = (want' /\ vbus')
  OBVIOUS
<1>1. CASE ~active' /\ connect' = want'
  BY <1>1 DEF Pullup, UsbPullup
<1>2. CASE ~active' /\ connect' # want'
  BY <1>2 DEF IInv, TypeOK, Phases, ConnectWanted
<1>3. CASE active'
  <2>1. CASE ~Tick
    <3>1. UNCHANGED aonVars
      BY <2>1 DEF Next, vars, Connect, Suspend, Cancel, Sleep, WakeUp, Resume, TakeOver,
                  HostDrives, Power
    <3> QED
      BY <1>3, <3>1 DEF Pullup, aonVars
  <2>2. CASE Tick /\ active
    BY <1>3, <2>2 DEF Pullup, Tick, Held
  <2>3. CASE Tick /\ ~active
    <3>1. Arrived # {} /\ control.age = SyncFlops /\ Arrived = control.bits
      BY <1>3, <2>3, ActiveMoves, WriteMoves DEF IInv, Arrived
    <3>2. SuspendWrite /\ sw = "requested"
      BY <2>3, <3>1 DEF IInv, Phases, TypeOK, NoWrite, SyncFlops
    <3>3. puSync[2] = (connect /\ "unpowered" \notin past[2])
      BY <3>1, <3>2 DEF IInv, Sampled, SyncFlops
    <3>4. past'[3] = past[2] /\ vbus
      BY <2>3, TickSamples DEF IInv
    <3>5. Pullup' = puSync[2]
      BY <1>3, <2>3 DEF Pullup, Tick, Held, SyncFlops
    <3>6. connect = want /\ want' = want /\ vbus' = vbus
      BY <2>3, <3>2 DEF IInv, ConnectWanted, Tick, busVars, swVars
    <3> QED
      BY <3>3, <3>4, <3>5, <3>6 DEF IInv, TypeOK
  <2> QED
    BY <2>1, <2>2, <2>3
<1> QED
  BY <1>1, <1>2, <1>3

\* The pull-up that the host sees changes only to what software wants, around every
\* hand-over and every sleep, unless VBUS has been away within the last three ticks.
THEOREM PullupAsWantedHolds == Spec => PullupAsWanted
<1>1. IInv /\ IInv' /\ [Next]_vars =>
        [Pullup' # Pullup =>
           \/ Pullup' = (want' /\ vbus')
           \/ \E i \in 1..3 : "unpowered" \in past'[i]]_vars
  BY PullupStep
<1> QED
  BY Invariance, <1>1, PTL DEF PullupAsWanted, Spec

=============================================================================
