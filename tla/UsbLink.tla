------------------------------- MODULE UsbLink -------------------------------
(***************************************************************************)
(* What the USB device makes of the state of its line: the three FSMs of   *)
(* usbdev_linkstate.sv (link, bus reset, inactivity) and its count of      *)
(* missing start of frame packets, with the events usbdev.sv makes of them.*)
(*                                                                         *)
(* The FSMs run in lockstep, so a step is one cycle of the 48MHz clock     *)
(* (Cycle), or a change of the line, of VBUS, or of usbctrl.enable.  What  *)
(* the FSMs see is filtered: each filter follows its input after a few     *)
(* cycles, in any order, but within the 48 cycles of a microsecond.        *)
(***************************************************************************)
EXTENDS Naturals

CONSTANTS
  ResetTimeout,    \* RESET_TIMEOUT, in us
  SuspendTimeout,  \* SUSPEND_TIMEOUT
  SofTimeout,      \* SOF_TIMEOUT
  MayJump          \* does software use resume_link_active?

ASSUME TimeoutAssumption ==
  /\ ResetTimeout \in Nat \ {0} /\ SofTimeout \in Nat \ {0}
  /\ SuspendTimeout \in Nat /\ SuspendTimeout > 1
  /\ MayJump \in BOOLEAN

VARIABLES
  line,      \* the line, as usb_dp_i and usb_dn_i
  vbus,      \* usb_sense_i
  connect,   \* usbctrl.enable: connect_en_i, usb_pullup_en_i
  se0,       \* see_se0
  idle,      \* rx_idle_det_i
  sense,     \* see_pwr_sense
  link,      \* link_state_q
  rst, rstTimer,    \* link_rst_state_q, link_rst_timer_q
  inac, inacTimer,  \* link_inac_state_q, link_inac_timer_q
  sofTimer, sofCount,  \* missing_sof_timer, missed_sof_count
  late,      \* the filters have not caught up since before the last microsecond tick
  low,       \* history: ticks since see_se0 was last FALSE
  quiet,     \* history: ticks since rx_idle_det_i was last FALSE
  sofAge,    \* history: ticks since the last SOF, reset or inactive link
  told,      \* history: which of link_suspend and link_resume was raised last
  drove      \* history: the host has driven SE0 since the device was attached

\* Bounds: up to which the history counts ticks.
MaxLow   == ResetTimeout + 3
MaxQuiet == SuspendTimeout
MaxSofAge == 4 * SofTimeout + 1

pins    == <<line, vbus, connect>>
seen    == <<se0, idle, sense>>
fsms    == <<link, rst, rstTimer, inac, inacTimer, sofTimer, sofCount>>
history == <<late, low, quiet, sofAge, told, drove>>
vars    == <<pins, seen, fsms, history>>

ActiveStates == {"ActiveNoSOF", "Active"}
SuspendedStates == {"Suspended", "PoweredSuspended"}
LinkStates == {"Disconnected", "Powered", "Resuming"} \cup ActiveStates \cup SuspendedStates

Attached == vbus /\ connect

TypeOK ==
  /\ line \in {"J", "K", "SE0"} /\ vbus \in BOOLEAN /\ connect \in BOOLEAN
  /\ se0 \in BOOLEAN /\ idle \in BOOLEAN /\ sense \in BOOLEAN
  /\ link \in LinkStates
  /\ rst \in {"NoRst", "RstCnt", "RstPend"} /\ rstTimer \in 0..ResetTimeout
  /\ inac \in {"Active", "InactCnt", "InactPend"} /\ inacTimer \in 0..SuspendTimeout
  /\ sofTimer \in 0..SofTimeout /\ sofCount \in 0..4
  /\ late \in BOOLEAN /\ low \in 0..MaxLow /\ quiet \in 0..MaxQuiet /\ sofAge \in 0..MaxSofAge
  /\ told \in {"none", "suspend", "resume"} /\ drove \in BOOLEAN

Init ==
  /\ line = "SE0" /\ vbus = FALSE /\ connect = FALSE
  /\ se0 = FALSE /\ idle = FALSE /\ sense = FALSE
  /\ link = "Disconnected" /\ rst = "NoRst" /\ rstTimer = 0
  /\ inac = "Active" /\ inacTimer = 0
  /\ sofTimer = 0 /\ sofCount = 0
  /\ late = FALSE /\ low = 0 /\ quiet = 0 /\ sofAge = 0 /\ told = "none" /\ drove = FALSE

-----------------------------------------------------------------------------
(* The events of a cycle; tick: us_tick_i, sof: sof_detected_i,            *)
(* j: rx_j_det_i, jump: resume_link_active_i.                              *)

Connected == sense /\ connect

EvReset == rst = "RstPend" /\ ~se0

LinkActive == link \in ActiveStates

\* Silence matters while the link is powered or active.
Monitored == sense /\ (link = "Powered" \/ LinkActive)

StillSilent == idle /\ Monitored

EvInactive(tick) == inac = "InactCnt" /\ StillSilent /\ tick /\ inacTimer = SuspendTimeout

ResumeNever(j) == FALSE
\* link_resume_o
Resumed(j) ==
  /\ Connected
  /\ \/ link = "PoweredSuspended" /\ ~EvReset /\ ~idle
     \/ link = "Resuming" /\ (j \/ EvReset)
     \/ link = "Suspended" /\ EvReset

AfterActiveDeaf(tick) == IF EvInactive(tick) THEN "Suspended" ELSE "Active"
AfterActive(tick) ==
  IF EvInactive(tick) THEN "Suspended" ELSE IF EvReset THEN "ActiveNoSOF" ELSE "Active"

AfterPowered(tick, jump) ==
  IF EvReset THEN "ActiveNoSOF" ELSE IF jump THEN "Resuming"
  ELSE IF EvInactive(tick) THEN "PoweredSuspended" ELSE "Powered"

AfterSuspendedDeaf == IF EvReset THEN "ActiveNoSOF" ELSE "Suspended"
AfterSuspended ==
  IF EvReset THEN "ActiveNoSOF" ELSE IF ~idle THEN "Resuming" ELSE "Suspended"

LinkNext(tick, sof, j, jump) ==
  IF ~Connected THEN "Disconnected"
  ELSE CASE link = "Disconnected"     -> "Powered"
         [] link = "Powered"          -> AfterPowered(tick, jump)
         [] link = "PoweredSuspended" -> IF EvReset THEN "ActiveNoSOF"
                                         ELSE IF ~idle THEN "Powered" ELSE link
         [] link = "Resuming"         -> IF j \/ EvReset THEN "ActiveNoSOF" ELSE link
         [] link = "ActiveNoSOF"      -> IF EvInactive(tick) THEN "Suspended"
                                         ELSE IF sof THEN "Active" ELSE link
         [] link = "Active"           -> AfterActive(tick)
         [] link = "Suspended"        -> AfterSuspended

\* SE0 for ResetTimeout is a bus reset, which lasts until the end of SE0.
RstCntSticky(tick) ==
  /\ rst = "RstCnt"
  /\ rst' = IF tick /\ rstTimer = ResetTimeout THEN "RstPend" ELSE rst
  /\ rstTimer' = IF tick /\ rstTimer < ResetTimeout THEN rstTimer + 1 ELSE rstTimer
RstCntLate(tick) ==
  /\ rst = "RstCnt"
  /\ rst' = IF ~se0 THEN "NoRst" ELSE IF tick /\ rstTimer > ResetTimeout THEN "RstPend" ELSE rst
  /\ rstTimer' = IF se0 /\ tick /\ rstTimer <= ResetTimeout THEN rstTimer + 1 ELSE rstTimer
RstCnt(tick) ==
  /\ rst = "RstCnt"
  /\ rst' = IF ~se0 THEN "NoRst" ELSE IF tick /\ rstTimer = ResetTimeout THEN "RstPend" ELSE rst
  /\ rstTimer' = IF se0 /\ tick /\ rstTimer < ResetTimeout THEN rstTimer + 1 ELSE rstTimer

RstStep(tick) ==
  \/ RstCnt(tick)
  \/ /\ rst = "NoRst"
     /\ rst' = IF se0 THEN "RstCnt" ELSE rst
     /\ rstTimer' = IF se0 THEN 0 ELSE rstTimer
  \/ rst = "RstPend" /\ rst' = (IF se0 THEN rst ELSE "NoRst") /\ UNCHANGED rstTimer

\* Silence for SuspendTimeout gives a single ev_bus_inactive.
InacCntDeaf(tick) ==
  /\ inac = "InactCnt"
  /\ inac' = IF ~Monitored THEN "Active" ELSE IF EvInactive(tick) THEN "InactPend" ELSE inac
  /\ inacTimer' = IF Monitored /\ tick /\ inacTimer < SuspendTimeout THEN inacTimer + 1 ELSE inacTimer
InacCnt(tick) ==
  /\ inac = "InactCnt"
  /\ inac' = IF ~StillSilent THEN "Active" ELSE IF EvInactive(tick) THEN "InactPend" ELSE inac
  /\ inacTimer' = IF StillSilent /\ tick /\ ~EvInactive(tick) THEN inacTimer + 1 ELSE inacTimer

InacPendUntilActivity ==
  inac = "InactPend" /\ inac' = (IF idle THEN inac ELSE "Active") /\ UNCHANGED inacTimer
InacPend ==
  inac = "InactPend" /\ inac' = (IF StillSilent THEN inac ELSE "Active") /\ UNCHANGED inacTimer

InacStep(tick) ==
  \/ inac = "Active" /\ inac' = (IF StillSilent THEN "InactCnt" ELSE inac) /\ inacTimer' = 0
  \/ InacCnt(tick)
  \/ InacPend

SofMissed == sofTimer = SofTimeout
SofUnneeded(sof) == sof \/ ~LinkActive \/ rst = "RstPend"

CountKept(sof) == IF sof THEN 0 ELSE IF SofMissed /\ sofCount < 4 THEN sofCount + 1 ELSE sofCount
\* missed_sof_count; host_lost is its third bit.
CountMissed(sof) ==
  IF SofUnneeded(sof) THEN 0 ELSE IF SofMissed /\ sofCount < 4 THEN sofCount + 1 ELSE sofCount

SofStep(tick, sof) ==
  /\ sofCount' = CountMissed(sof)
  /\ sofTimer' = IF SofMissed \/ SofUnneeded(sof) THEN 0 ELSE IF tick THEN sofTimer + 1 ELSE sofTimer

-----------------------------------------------------------------------------
(* The environment.                                                        *)

\* Each filter may follow its input.  The receiver samples no bits during a reset.
Filters ==
  /\ se0' \in {se0, line = "SE0"}
  /\ idle' \in IF rst = "RstPend" THEN {idle} ELSE {idle, line = "J"}
  /\ sense' \in {sense, vbus}

\* The filters, and the FSMs that take no time, have followed the inputs.
Settled ==
  /\ se0 = (line = "SE0") /\ idle = (line = "J") /\ sense = vbus
  /\ rst = "NoRst" => ~se0
  /\ inac = "Active" => ~StillSilent

\* Two ticks are 48 cycles apart, in which the filters catch up at least once.
MayTick == (late => Settled) /\ ~SofMissed

\* A packet has just been received, which the receiver must have noticed.
MaySof == Attached /\ rst # "RstPend" /\ (idle /\ inac # "Active" => inac = "InactCnt" /\ inacTimer <= 1)

Counted(n, max) == IF n < max THEN n + 1 ELSE n

TellHistory(j) ==
  told' = IF Resumed(j) THEN "resume"
          ELSE IF link' \in SuspendedStates /\ link \notin SuspendedStates THEN "suspend"
          ELSE IF link' = "Disconnected" THEN "none" ELSE told

Cycle(tick, sof, j, jump) ==
  /\ tick => MayTick
  /\ sof => MaySof
  /\ j => idle
  /\ jump => MayJump
  /\ link' = LinkNext(tick, sof, j, jump)
  /\ RstStep(tick)
  /\ InacStep(tick)
  /\ SofStep(tick, sof)
  /\ Filters
  /\ late' = (~Settled /\ (late \/ tick))
  /\ low' = IF ~se0 THEN 0 ELSE IF tick THEN Counted(low, MaxLow) ELSE low
  /\ quiet' = IF ~idle THEN 0 ELSE IF tick THEN Counted(quiet, MaxQuiet) ELSE quiet
  /\ sofAge' = IF SofUnneeded(sof) THEN 0 ELSE IF tick THEN Counted(sofAge, MaxSofAge) ELSE sofAge
  /\ TellHistory(j)
  /\ UNCHANGED <<pins, drove>>

Change == UNCHANGED <<seen, fsms, late, low, quiet, sofAge, told>>

\* The host, or the pull-up of the device, drives the line.  After SE0 the line is
\* idle for two bits at least, of four cycles each: more than the six of filter_se0.
DriveLine(l) ==
  /\ Attached /\ line # l
  /\ line # "SE0" => ~se0
  /\ line' = l
  /\ drove' = (drove \/ l = "SE0")
  /\ Change
  /\ UNCHANGED <<vbus, connect>>

\* Without the pull-up the line is low: "single-ended 0 - end of packet or
\* detached" (usb_fs_rx.sv).
Detached == line' = "SE0" /\ drove' = FALSE

SwitchVbus ==
  /\ vbus' = ~vbus
  /\ Detached /\ Change
  /\ UNCHANGED connect

SwConnect ==
  /\ connect' = ~connect
  /\ Detached /\ Change
  /\ UNCHANGED vbus

Next ==
  \/ \E tick, sof, j, jump \in BOOLEAN : Cycle(tick, sof, j, jump)
  \/ \E l \in {"J", "K", "SE0"} : DriveLine(l)
  \/ SwitchVbus
  \/ SwConnect

Spec == Init /\ [][Next]_vars

-----------------------------------------------------------------------------
(* What the link state promises.                                           *)

\* A bus reset ends a suspension as it begins and not only as it ends: the link never
\* goes from a suspended state to its default state at once.
NoDirectExit ==
  [][~(link \in SuspendedStates /\ link' = "ActiveNoSOF")]_vars

\* ev_bus_inactive is given once: it never happens that it was given and the link
\* did not leave the state that waits for it.
SilenceHeeded == inac = "InactPend" => link \notin {"Powered"} \cup ActiveStates

\* The link is suspended only after the line has been idle for the time required.
SuspendedWhenSilent ==
  [][link' \in SuspendedStates /\ link \notin SuspendedStates => quiet >= SuspendTimeout]_vars

\* Only SE0 of the required duration is a bus reset; SE0 of that duration is.
ResetByDuration ==
  /\ rst = "RstPend" /\ se0 => low >= ResetTimeout
  /\ low > ResetTimeout + 2 => rst = "RstPend"

\* The end of a bus reset takes a connected link to its default state whatever it was
\* in: no state gives another event of the same cycle precedence over the reset.
ResetMeansDefault ==
  [][EvReset /\ rst' = "NoRst" /\ Connected /\ link # "Disconnected" => link' = "ActiveNoSOF"]_vars

\* Whenever the link works again after a suspension, link_resume was raised.
ResumeTold == link \in {"Powered"} \cup ActiveStates => told # "suspend"

\* host_lost is raised when no SOF was seen for four periods, and only then.
HostLostTimely ==
  /\ sofCount = 4 => sofAge >= 4 * SofTimeout
  /\ sofAge > 4 * SofTimeout => sofCount = 4

=============================================================================
