---------------------------- MODULE UsbLinkProofs ----------------------------
(***************************************************************************)
(* Proofs about UsbLink, for all timeouts.                                 *)
(***************************************************************************)
EXTENDS UsbLink, TLAPS

-----------------------------------------------------------------------------
(* The invariant.                                                          *)

\* Each timer is bounded by, or equal to, the time that has passed.
TimersTrue ==
  /\ rst = "NoRst" => low = 0
  /\ rst = "RstCnt" => rstTimer <= low /\ low <= rstTimer + 1
  /\ rst = "RstPend" /\ se0 => low >= ResetTimeout
  /\ inac = "InactCnt" => inacTimer <= quiet

\* The time since the last SOF is the periods missed and the current one.
SofCounted ==
  /\ sofCount < 4 => sofAge = sofCount * SofTimeout + sofTimer
  /\ sofCount = 4 => sofAge >= 4 * SofTimeout

\* Silence has begun after the last tick but one, and the line has been active before.
JustSilent ==
  /\ link \notin SuspendedStates
  /\ \/ inac = "Active"
     \/ inac = "InactCnt" /\ (inacTimer = 0 \/ (inacTimer = 1 /\ late))

\* se0 and idle contradict each other: one of the two filters is late.  Then SE0 has
\* begun after the last tick but one, or silence has.
Overlap ==
  se0 /\ idle =>
    \/ rst = "NoRst"
    \/ rst = "RstCnt" /\ (rstTimer = 0 \/ (rstTimer = 1 /\ late))
    \/ JustSilent

\* During a bus reset there is no silence to speak of, nor at its end.
NoSilenceInReset ==
  rst = "RstPend" =>
    /\ link \notin SuspendedStates
    /\ idle => inac = "Active" \/ (inac = "InactCnt" /\ inacTimer <= 1)

\* What was told last is true of the link.
ToldTrue == link \notin SuspendedStates \cup {"Resuming"} => told # "suspend"

IInv == TypeOK /\ TimersTrue /\ SofCounted /\ Overlap /\ NoSilenceInReset /\ SilenceHeeded /\ ToldTrue

-----------------------------------------------------------------------------
(* Types.                                                                  *)

\* The link goes from state to state.
LEMMA LinkType == ASSUME TypeOK, NEW tick, NEW sof, NEW j, NEW jump
                  PROVE  LinkNext(tick, sof, j, jump) \in LinkStates
BY DEF TypeOK, LinkNext, LinkStates, ActiveStates, SuspendedStates, AfterPowered, AfterActive, AfterSuspended

\* The state keeps its type: no timer passes its limit.
LEMMA TypeStep == TypeOK /\ [Next]_vars => TypeOK'
<1> SUFFICES ASSUME TypeOK, [Next]_vars PROVE TypeOK'
  OBVIOUS
<1> USE TimeoutAssumption
<1>1. ASSUME NEW tick \in BOOLEAN, NEW sof \in BOOLEAN, NEW j \in BOOLEAN, NEW jump \in BOOLEAN,
             Cycle(tick, sof, j, jump)
      PROVE  TypeOK'
  <2> USE <1>1
  <2>1. link' \in LinkStates
    BY LinkType DEF Cycle
  <2>2. rst' \in {"NoRst", "RstCnt", "RstPend"} /\ rstTimer' \in 0..ResetTimeout
    BY DEF Cycle, RstStep, RstCnt, TypeOK
  <2>3. inac' \in {"Active", "InactCnt", "InactPend"} /\ inacTimer' \in 0..SuspendTimeout
    BY DEF Cycle, InacStep, InacCnt, InacPend, EvInactive, TypeOK
  <2>4. sofTimer' \in 0..SofTimeout /\ sofCount' \in 0..4
    BY DEF Cycle, SofStep, CountMissed, SofMissed, TypeOK
  <2>5. se0' \in BOOLEAN /\ idle' \in BOOLEAN /\ sense' \in BOOLEAN /\ late' \in BOOLEAN
    BY DEF Cycle, Filters, Settled, TypeOK
  <2>6. low' \in 0..MaxLow /\ quiet' \in 0..MaxQuiet
    BY DEF Cycle, Counted, MaxLow, MaxQuiet, TypeOK
  <2>7. sofAge' \in 0..MaxSofAge
    BY DEF Cycle, Counted, MaxSofAge, TypeOK
  <2>8. told' \in {"none", "suspend", "resume"}
    BY DEF Cycle, TellHistory, TypeOK
  <2>9. UNCHANGED <<pins, drove>>
    BY DEF Cycle
  <2>10. line' = line /\ vbus' = vbus /\ connect' = connect /\ drove' = drove
    BY <2>9 DEF pins
  <2> QED
    BY <2>1, <2>2, <2>3, <2>4, <2>5, <2>6, <2>7, <2>8, <2>10 DEF TypeOK
<1>2. ASSUME NEW l \in {"J", "K", "SE0"}, DriveLine(l)
      PROVE  TypeOK'
  <2>1. drove' \in BOOLEAN
    BY <1>2 DEF DriveLine, TypeOK
  <2> QED
    BY <1>2, <2>1 DEF DriveLine, Change, seen, fsms, TypeOK
<1>4. CASE SwitchVbus \/ SwConnect
  <2>1. vbus' \in BOOLEAN /\ connect' \in BOOLEAN
    BY <1>4 DEF SwitchVbus, SwConnect, TypeOK
  <2> QED
    BY <1>4, <2>1 DEF SwitchVbus, SwConnect, Detached, Change, seen, fsms, TypeOK
<1>3. CASE UNCHANGED vars
  BY <1>3 DEF vars, pins, seen, fsms, history, TypeOK
<1> QED
  BY <1>1, <1>2, <1>3, <1>4 DEF Next

\* The initial state is well typed.
LEMMA TypesAtInit == Init => TypeOK
<1>1. 0 \in 0..MaxLow /\ 0 \in 0..MaxQuiet /\ 0 \in 0..MaxSofAge
  BY TimeoutAssumption DEF MaxLow, MaxQuiet, MaxSofAge
<1>2. 0 \in 0..ResetTimeout /\ 0 \in 0..SuspendTimeout /\ 0 \in 0..SofTimeout
  BY TimeoutAssumption
<1>3. "Disconnected" \in LinkStates
  BY DEF LinkStates
<1>4. Init => /\ vbus \in BOOLEAN /\ connect \in BOOLEAN /\ se0 \in BOOLEAN /\ idle \in BOOLEAN
              /\ sense \in BOOLEAN /\ late \in BOOLEAN /\ drove \in BOOLEAN
  BY Zenon DEF Init
<1>5. 0 \in 0..4
  OBVIOUS
<1> QED
  BY <1>1, <1>2, <1>3, <1>4, <1>5, Zenon DEF Init, TypeOK

\* The state of the link detector is always well typed: no timer or counter of
\* usbdev_linkstate runs past its limit.
THEOREM TypeCorrect == Spec => []TypeOK
BY TypesAtInit, TypeStep, PTL DEF Spec

-----------------------------------------------------------------------------
(* The steps of the FSMs keep the invariant.                               *)

\* Filters that contradict each other have not settled, so that no tick follows another.
LEMMA NotSettled == TypeOK /\ se0 /\ idle => ~Settled
BY DEF TypeOK, Settled

\* A timer counts the ticks since its condition began, one behind at most.
LEMMA TimersStep ==
  ASSUME TypeOK, TimersTrue, NEW tick \in BOOLEAN, NEW sof, NEW j, NEW jump, Cycle(tick, sof, j, jump)
  PROVE  TimersTrue'
<1> USE TimeoutAssumption DEF Cycle, TypeOK, TimersTrue, Counted
<1>1. (rst = "NoRst" => low = 0)'
  BY DEF RstStep, RstCnt
<1>2. (rst = "RstCnt" => rstTimer <= low /\ low <= rstTimer + 1)'
  BY DEF RstStep, RstCnt, MaxLow
<1>3. (rst = "RstPend" /\ se0 => low >= ResetTimeout)'
  BY DEF RstStep, RstCnt, MaxLow
<1>4. (inac = "InactCnt" => inacTimer <= quiet)'
  BY DEF InacStep, InacCnt, InacPend, EvInactive, StillSilent, MaxQuiet
<1> QED
  BY <1>1, <1>2, <1>3, <1>4

\* The timer of missing SOFs and the count of periods tell the time since the last SOF.
LEMMA SofStepKeeps ==
  ASSUME TypeOK, SofCounted, NEW tick \in BOOLEAN, NEW sof \in BOOLEAN, NEW j, NEW jump,
         Cycle(tick, sof, j, jump)
  PROVE  SofCounted'
<1>1. CASE SofUnneeded(sof)
  BY <1>1, TimeoutAssumption DEF Cycle, SofStep, CountMissed, SofCounted
<1>2. CASE ~SofUnneeded(sof) /\ SofMissed
  <2>1. sofAge' = sofAge /\ sofTimer' = 0 /\ sofTimer = SofTimeout
    BY <1>2 DEF Cycle, SofStep, MayTick, SofMissed
  <2>2. CASE sofCount = 4
    BY <1>2, <2>1, <2>2 DEF Cycle, SofStep, CountMissed, SofCounted
  <2>3. CASE sofCount \in 0..3
    <3>1. sofCount' = sofCount + 1
      BY <1>2, <2>3 DEF Cycle, SofStep, CountMissed
    <3>2. sofAge = (sofCount + 1) * SofTimeout
      BY <2>1, <2>3, TimeoutAssumption DEF SofCounted
    <3> QED
      BY <2>1, <2>3, <3>1, <3>2, TimeoutAssumption DEF SofCounted
  <2> QED
    BY <2>2, <2>3 DEF TypeOK
<1>3. CASE ~SofUnneeded(sof) /\ ~SofMissed
  <2>1. sofCount' = sofCount
    BY <1>3 DEF Cycle, SofStep, CountMissed
  <2>2. CASE ~tick
    BY <1>3, <2>1, <2>2 DEF Cycle, SofStep, SofCounted
  <2>3. CASE tick /\ sofCount = 4
    BY <1>3, <2>1, <2>3, TimeoutAssumption DEF Cycle, SofCounted, Counted, MaxSofAge, TypeOK
  <2>4. CASE tick /\ sofCount \in 0..3
    <3>1. sofTimer' = sofTimer + 1 /\ sofTimer < SofTimeout
      BY <1>3, <2>4, TimeoutAssumption DEF Cycle, SofStep, SofMissed, TypeOK
    <3>2. sofAge = sofCount * SofTimeout + sofTimer
      BY <2>4 DEF SofCounted
    <3>3. sofAge < MaxSofAge
      BY <2>4, <3>1, <3>2, TimeoutAssumption DEF MaxSofAge, TypeOK
    <3>4. sofAge' = sofAge + 1
      BY <1>3, <2>4, <3>3 DEF Cycle, Counted
    <3> QED
      BY <2>1, <2>4, <3>1, <3>2, <3>4, TimeoutAssumption DEF SofCounted, TypeOK
  <2> QED
    BY <2>2, <2>3, <2>4 DEF TypeOK
<1> QED
  BY <1>1, <1>2, <1>3

\* The inactivity FSM and the link while silence is young.
LEMMA StaysJustSilent ==
  ASSUME TypeOK, JustSilent, se0, idle, NEW tick \in BOOLEAN, NEW sof, NEW j, NEW jump,
         Cycle(tick, sof, j, jump)
  PROVE  JustSilent'
<1>1. ~Settled
  BY NotSettled
<1>2. ~EvInactive(tick)
  BY TimeoutAssumption DEF JustSilent, EvInactive
<1>3. link' \notin SuspendedStates
  BY <1>2 DEF JustSilent, Cycle, LinkNext, AfterPowered, AfterActive, SuspendedStates, ActiveStates, TypeOK,
     LinkStates
<1>4. (inac = "Active" \/ (inac = "InactCnt" /\ (inacTimer = 0 \/ (inacTimer = 1 /\ late))))'
  BY <1>1, <1>2 DEF JustSilent, Cycle, InacStep, InacCnt, InacPend, MayTick, TypeOK
<1> QED
  BY <1>3, <1>4 DEF JustSilent

\* Silence begins: the inactivity FSM starts anew, the link leaves its suspended state.
LEMMA SilenceBegins ==
  ASSUME TypeOK, ~idle, NEW tick \in BOOLEAN, NEW sof, NEW j, NEW jump, Cycle(tick, sof, j, jump)
  PROVE  inac' = "Active" /\ link' \notin SuspendedStates
<1>1. ~EvInactive(tick)
  BY DEF EvInactive, StillSilent
<1>2. inac' = "Active"
  BY DEF Cycle, InacStep, InacCnt, InacPend, StillSilent, TypeOK
<1>3. link' \notin SuspendedStates
  BY <1>1 DEF Cycle, LinkNext, AfterPowered, AfterActive, AfterSuspended, SuspendedStates, ActiveStates,
     TypeOK, LinkStates
<1> QED
  BY <1>2, <1>3

\* Filters contradict each other only just after one of the two conditions has begun.
LEMMA OverlapStep ==
  ASSUME TypeOK, Overlap, NEW tick \in BOOLEAN, NEW sof, NEW j, NEW jump, Cycle(tick, sof, j, jump)
  PROVE  Overlap'
<1> SUFFICES ASSUME se0', idle'
             PROVE  (\/ rst = "NoRst" \/ JustSilent
                     \/ rst = "RstCnt" /\ (rstTimer = 0 \/ (rstTimer = 1 /\ late)))'
  BY DEF Overlap
<1>1. CASE ~se0
  BY <1>1 DEF Cycle, RstStep, RstCnt, TypeOK
<1>2. CASE ~idle
  BY <1>2, SilenceBegins DEF JustSilent
<1>3. CASE se0 /\ idle /\ JustSilent
  BY <1>3, StaysJustSilent
<1>4. CASE se0 /\ idle /\ rst = "NoRst"
  BY <1>4 DEF Cycle, RstStep, RstCnt
<1>5. CASE se0 /\ idle /\ rst = "RstCnt" /\ (rstTimer = 0 \/ (rstTimer = 1 /\ late))
  <2>1. ~Settled
    BY <1>5, NotSettled
  <2>2. (rst = "RstCnt" /\ (rstTimer = 0 \/ (rstTimer = 1 /\ late)))'
    BY <1>5, <2>1, TimeoutAssumption DEF Cycle, RstStep, RstCnt, MayTick, TypeOK
  <2> QED
    BY <2>2
<1> QED
  BY <1>1, <1>2, <1>3, <1>4, <1>5 DEF Overlap, TypeOK

\* Silence is not completed within a bus reset, nor at its end.
LEMMA NoSilenceStep ==
  ASSUME TypeOK, Overlap, NoSilenceInReset, NEW tick \in BOOLEAN, NEW sof, NEW j, NEW jump,
         Cycle(tick, sof, j, jump)
  PROVE  NoSilenceInReset'
<1> SUFFICES ASSUME rst' = "RstPend"
             PROVE  (/\ link \notin SuspendedStates
                     /\ idle => inac = "Active" \/ (inac = "InactCnt" /\ inacTimer <= 1))'
  BY DEF NoSilenceInReset
<1>1. se0 /\ rst \in {"RstCnt", "RstPend"}
  BY DEF Cycle, RstStep, RstCnt
<1>2. CASE ~idle
  BY <1>2, SilenceBegins
<1>3. CASE idle
  <2>1. ~Settled
    BY <1>1, <1>3, NotSettled
  <2>2. JustSilent
    <3>1. CASE rst = "RstPend"
      BY <1>1, <1>3, <3>1 DEF Overlap
    <3>2. CASE rst = "RstCnt"
      <4>1. tick /\ rstTimer = ResetTimeout
        BY <1>1, <3>2 DEF Cycle, RstStep, RstCnt
      <4>2. ~late
        BY <2>1, <4>1 DEF Cycle, MayTick
      <4> QED
        BY <1>1, <1>3, <3>2, <4>1, <4>2, TimeoutAssumption DEF Overlap
    <3> QED
      BY <1>1, <3>1, <3>2
  <2>3. JustSilent'
    BY <1>1, <1>3, <2>2, StaysJustSilent
  <2> QED
    BY <2>3 DEF JustSilent
<1> QED
  BY <1>2, <1>3 DEF TypeOK

\* No silence is noticed in the cycle in which a bus reset ends.
LEMMA ResetFirst ==
  ASSUME TypeOK, NoSilenceInReset, NEW tick, EvReset
  PROVE  ~EvInactive(tick)
BY TimeoutAssumption DEF NoSilenceInReset, EvReset, EvInactive, StillSilent, TypeOK

\* The event of inactivity takes the link out of the states that wait for it, since no
\* other event can come first in that cycle.
LEMMA SilenceHeededStep ==
  ASSUME TypeOK, NoSilenceInReset, SilenceHeeded, NEW tick \in BOOLEAN, NEW sof, NEW j, NEW jump,
         Cycle(tick, sof, j, jump)
  PROVE  SilenceHeeded'
<1> SUFFICES ASSUME inac' = "InactPend" PROVE link' \notin {"Powered"} \cup ActiveStates
  BY DEF SilenceHeeded
<1>1. EvInactive(tick)
  BY DEF Cycle, InacStep, InacCnt, InacPend, StillSilent, Monitored, LinkActive, SilenceHeeded
<1>2. ~EvReset
  BY <1>1, ResetFirst
<1>3. link \in {"Powered", "ActiveNoSOF", "Active"}
  BY <1>1 DEF EvInactive, StillSilent, Monitored, LinkActive, ActiveStates
<1> QED
  BY <1>1, <1>2, <1>3 DEF Cycle, LinkNext, AfterPowered, AfterActive, ActiveStates

\* Every way out of suspension tells software so.
LEMMA ToldStep ==
  ASSUME TypeOK, NoSilenceInReset, ToldTrue, NEW tick, NEW sof, NEW j, NEW jump,
         Cycle(tick, sof, j, jump)
  PROVE  ToldTrue'
<1> SUFFICES ASSUME link' \notin SuspendedStates \cup {"Resuming"}, ~Resumed(j), link' # "Disconnected"
             PROVE  told # "suspend"
  BY DEF ToldTrue, Cycle, TellHistory
<1>1. Connected
  BY DEF Cycle, LinkNext
<1>2. link \in SuspendedStates => ~EvReset
  BY DEF NoSilenceInReset, EvReset
<1>3. link \notin SuspendedStates \cup {"Resuming"}
  BY <1>1, <1>2 DEF Cycle, LinkNext, AfterSuspended, Resumed, SuspendedStates
<1> QED
  BY <1>3 DEF ToldTrue

\* What the line and the driver do between cycles concerns the types only.
LEMMA ChangeKeeps ==
  ASSUME IInv, Change \/ UNCHANGED vars
  PROVE  (TimersTrue /\ SofCounted /\ Overlap /\ NoSilenceInReset /\ SilenceHeeded /\ ToldTrue)'
BY DEF IInv, Change, vars, seen, fsms, history, TimersTrue, SofCounted, Overlap, JustSilent,
   NoSilenceInReset, SilenceHeeded, ToldTrue

\* A cycle preserves the invariant.
LEMMA InvStep == IInv /\ [Next]_vars => IInv'
<1> SUFFICES ASSUME IInv, [Next]_vars PROVE IInv'
  OBVIOUS
<1>1. TypeOK'
  BY TypeStep DEF IInv
<1>2. ASSUME NEW tick \in BOOLEAN, NEW sof \in BOOLEAN, NEW j \in BOOLEAN, NEW jump \in BOOLEAN,
             Cycle(tick, sof, j, jump)
      PROVE  IInv'
  <2> USE <1>2 DEF IInv
  <2>1. TimersTrue' /\ SofCounted'
    BY TimersStep, SofStepKeeps
  <2>2. Overlap' /\ NoSilenceInReset'
    BY OverlapStep, NoSilenceStep
  <2>3. SilenceHeeded' /\ ToldTrue'
    BY SilenceHeededStep, ToldStep
  <2> QED
    BY <1>1, <2>1, <2>2, <2>3
<1>3. CASE Change \/ UNCHANGED vars
  BY <1>1, <1>3, ChangeKeeps DEF IInv
<1> QED
  BY <1>2, <1>3 DEF Next, DriveLine, SwitchVbus, SwConnect

\* The invariant holds throughout.
LEMMA Invariance == Spec => []IInv
<1>1. Init => TypeOK
  BY TypesAtInit
<1>2. Init => IInv
  BY <1>1, TimeoutAssumption DEF Init, IInv, TimersTrue, SofCounted, Overlap, NoSilenceInReset, SilenceHeeded,
     ToldTrue, SuspendedStates
<1> QED
  BY <1>2, InvStep, PTL DEF Spec

-----------------------------------------------------------------------------
(* What follows.                                                           *)

\* ev_bus_inactive is never lost: when it was given, the link has left the state that
\* waits for it, even if a bus reset or resume_link_active came in the same cycle.
THEOREM SilenceHeededHolds == Spec => []SilenceHeeded
BY Invariance, PTL DEF IInv

\* SE0 is taken for a bus reset from RESET_TIMEOUT on, and from two ticks later at the
\* latest.
THEOREM ResetByDurationHolds == Spec => []ResetByDuration
<1>1. IInv => ResetByDuration
  BY TimeoutAssumption DEF IInv, TypeOK, TimersTrue, ResetByDuration
<1> QED
  BY <1>1, Invariance, PTL

\* After link_suspend, the link does not work again before link_resume.
THEOREM ResumeToldHolds == Spec => []ResumeTold
<1>1. IInv => ResumeTold
  BY DEF IInv, ToldTrue, ResumeTold, SuspendedStates, ActiveStates
<1> QED
  BY <1>1, Invariance, PTL

\* host_lost stands for four periods without SOF, whatever the period.
THEOREM HostLostTimelyHolds == Spec => []HostLostTimely
<1>1. IInv => HostLostTimely
  <2> SUFFICES ASSUME IInv, sofAge > 4 * SofTimeout PROVE sofCount = 4
    BY DEF IInv, SofCounted, HostLostTimely
  <2>1. ASSUME sofCount \in 0..3 PROVE FALSE
    BY <2>1, TimeoutAssumption DEF IInv, TypeOK, SofCounted
  <2> QED
    BY <2>1 DEF IInv, TypeOK
<1> QED
  BY <1>1, Invariance, PTL

\* The link is suspended only after SUSPEND_TIMEOUT of silence.
THEOREM SuspendedWhenSilentHolds == Spec => SuspendedWhenSilent
<1>1. ASSUME IInv, [Next]_vars, link' \in SuspendedStates, link \notin SuspendedStates
      PROVE  quiet >= SuspendTimeout
  <2>1. PICK tick \in BOOLEAN, sof \in BOOLEAN, j \in BOOLEAN, jump \in BOOLEAN : Cycle(tick, sof, j, jump)
    BY <1>1 DEF Next, vars, fsms, DriveLine, SwitchVbus, SwConnect, Change
  <2>2. EvInactive(tick)
    BY <1>1, <2>1 DEF Cycle, LinkNext, AfterPowered, AfterActive, SuspendedStates, IInv, TypeOK, LinkStates,
       ActiveStates
  <2> QED
    BY <1>1, <2>2, TimeoutAssumption DEF EvInactive, IInv, TypeOK, TimersTrue
<1> QED
  BY <1>1, Invariance, PTL DEF Spec, SuspendedWhenSilent

\* The end of a bus reset leads to the default state from every state of a connected
\* device, no other event of that cycle takes precedence.
THEOREM ResetMeansDefaultHolds == Spec => ResetMeansDefault
<1>1. ASSUME IInv, [Next]_vars, EvReset, rst' = "NoRst", Connected, link # "Disconnected"
      PROVE  link' = "ActiveNoSOF"
  <2>1. PICK tick \in BOOLEAN, sof \in BOOLEAN, j \in BOOLEAN, jump \in BOOLEAN : Cycle(tick, sof, j, jump)
    BY <1>1 DEF Next, vars, fsms, DriveLine, SwitchVbus, SwConnect, Change, EvReset
  <2>2. ~EvInactive(tick) /\ ~sof
    BY <1>1, <2>1, ResetFirst DEF IInv, Cycle, MaySof, EvReset
  <2> QED
    BY <1>1, <2>1, <2>2 DEF Cycle, LinkNext, AfterPowered, AfterActive, AfterSuspended, IInv, TypeOK,
       LinkStates, ActiveStates, SuspendedStates
<1> QED
  BY <1>1, Invariance, PTL DEF Spec, ResetMeansDefault

\* A suspended link learns of a bus reset from its beginning, not from its end.
THEOREM NoDirectExitHolds == Spec => NoDirectExit
<1>1. ASSUME IInv, [Next]_vars, link \in SuspendedStates
      PROVE  link' # "ActiveNoSOF"
  <2>1. CASE UNCHANGED link
    BY <1>1, <2>1 DEF SuspendedStates
  <2>2. ASSUME NEW tick \in BOOLEAN, NEW sof \in BOOLEAN, NEW j \in BOOLEAN, NEW jump \in BOOLEAN,
               Cycle(tick, sof, j, jump)
        PROVE  link' # "ActiveNoSOF"
    <3>1. ~EvReset
      BY <1>1 DEF IInv, NoSilenceInReset, EvReset
    <3> QED
      BY <1>1, <2>2, <3>1 DEF Cycle, LinkNext, AfterSuspended, SuspendedStates
  <2> QED
    BY <1>1, <2>1, <2>2 DEF Next, vars, fsms, DriveLine, SwitchVbus, SwConnect, Change
<1>2. IInv /\ [Next]_vars => ~(link \in SuspendedStates /\ link' = "ActiveNoSOF")
  BY <1>1
<1> QED
  BY <1>2, Invariance, PTL DEF Spec, NoDirectExit

=============================================================================
