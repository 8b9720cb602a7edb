------------------------------- MODULE UsbWake --------------------------------
(***************************************************************************)
(* The wake detector (usbdev_aon_wake.sv): around sleep it takes over the  *)
(* pull-up, which lives in another clock domain and may lose its power,    *)
(* and watches the bus.                                                    *)
(*                                                                         *)
(* A tick is a cycle of the always-on clock of about 200kHz; the bus,      *)
(* VBUS, the registers of the USB domain, whose clock is much faster, and  *)
(* software change between ticks.  Whether the pull-up is at D+ or, with   *)
(* pinflip, at D- makes no difference.                                     *)
(***************************************************************************)
EXTENDS Naturals, Sequences

CONSTANTS
  RelayTime,   \* ticks the round trip of a change of wake_events takes
  MaxEvents    \* bound: changes of the bus or of VBUS

ASSUME WakeAssumption == RelayTime \in Nat \ {0} /\ MaxEvents \in Nat

VARIABLES
  line,      \* the bus, as the host drives it; "idle": not at all
  vbus,      \* usb_sense_i
  connect,   \* connect_en_i
  puSync,    \* the two flops of u_pullup_en_cdc
  aonPullup, \* aon_dppullup_en_q
  active,    \* wake_detect_active_q
  past,      \* the last samples of what the filters watch, the newest first
  lasting,   \* what the filters tell
  reported,  \* bus_not_idle_q, bus_reset_q, sense_lost_q
  control,   \* the write to wake_control on its way
  shown,     \* wake_events, as software reads it
  relay,     \* ticks until the next change of wake_events can follow
  sw,        \* what software is doing
  want,      \* it wants to be connected
  events     \* how often bus or VBUS has changed

busVars == <<line, vbus, events>>
aonVars == <<puSync, aonPullup, active, past, lasting, reported, relay>>
swVars  == <<connect, sw, want>>
vars    == <<busVars, aonVars, control, shown, swVars>>

Conditions == {"moved", "se0", "unpowered"}
Cycles == [moved |-> 4, se0 |-> 3, unpowered |-> 3]   \* of the filters
SyncFlops == 2

Commands == {"suspend_req", "wake_ack"}
NoWrite == [bits |-> {}, age |-> 0]

WakeEvents == [active : BOOLEAN, reported : SUBSET Conditions]
AtReset == [active |-> FALSE, reported |-> {}]

TypeOK ==
  /\ line \in {"idle", "resume", "reset"} /\ vbus \in BOOLEAN /\ events \in 0..MaxEvents
  /\ connect \in BOOLEAN /\ want \in BOOLEAN
  /\ sw \in {"run", "requested", "asleep", "woken", "acked"}
  /\ puSync \in [1..SyncFlops -> BOOLEAN] /\ aonPullup \in BOOLEAN /\ active \in BOOLEAN
  /\ past \in [1..5 -> SUBSET Conditions] /\ lasting \subseteq Conditions
  /\ reported \subseteq Conditions
  /\ control \in [bits : SUBSET Commands, age : 0..SyncFlops]
  /\ shown \in WakeEvents /\ relay \in 0..RelayTime

Init ==
  /\ line = "idle" /\ vbus = FALSE /\ events = 0
  /\ connect = FALSE /\ sw = "run" /\ want = FALSE
  /\ puSync = <<FALSE, FALSE>> /\ aonPullup = FALSE /\ active = FALSE
  /\ past = [i \in 1..5 |-> {}] /\ lasting = {} /\ reported = {}
  /\ control = NoWrite /\ shown = AtReset /\ relay = 0

-----------------------------------------------------------------------------
(* The wake detector.                                                      *)

UsbPullup == connect /\ vbus     \* usb_pullup_en_o of usbdev_usbif

\* usb_dppullup_en_o, usb_dnpullup_en_o
Pullup == IF active THEN aonPullup ELSE UsbPullup

\* not_idle_async, se0_async, sense_lost_async: without a host the pull-up sets the line.
Seen ==
  {c \in Conditions :
     \/ c = "moved" /\ (line = "resume" \/ (line = "reset" /\ Pullup))
     \/ c = "se0" /\ (line = "reset" \/ (line = "idle" /\ ~Pullup))
     \/ c = "unpowered" /\ ~vbus}

\* The samples that have passed the synchroniser of the filter of c.
Window(c) == {past[i] : i \in SyncFlops..(SyncFlops + Cycles[c] - 1)}

\* prim_filter: its output follows when all samples agree.
Filtered ==
  {c \in Conditions : \/ \A s \in Window(c) : c \in s
                      \/ c \in lasting /\ \E s \in Window(c) : c \in s}

\* A write to wake_control takes effect when it has passed the synchroniser.
Arrived == IF control.age = SyncFlops THEN control.bits ELSE {}

\* proc_awk_fsm
Activated == IF active THEN "wake_ack" \notin Arrived ELSE "suspend_req" \in Arrived

ReportedNotPower == IF active THEN (lasting \ {"unpowered"}) \cup reported ELSE {}
\* proc_reg_events; wake_req_q is set with the first of the three and cleared with them.
Reported == IF active THEN lasting \cup reported ELSE {}
WakeReq == reported # {}

HeldNever == puSync[SyncFlops]
\* proc_reg_pullup_en
Held == IF active THEN aonPullup ELSE puSync[SyncFlops]

ControlStuck == IF control = NoWrite THEN NoWrite ELSE [control EXCEPT !.age = @ + 1]
\* u_wake_control_cdc
ControlPasses ==
  IF control = NoWrite \/ control.age = SyncFlops THEN NoWrite ELSE [control EXCEPT !.age = @ + 1]

\* u_wake_events_cdc: a change is relayed when the previous one has been acknowledged.
Relayed ==
  LET now == [active |-> active, reported |-> reported]
  IN IF relay = 0 /\ now # shown /\ sw # "asleep"
     THEN shown' = now /\ relay' = RelayTime
     ELSE shown' = shown /\ relay' = IF relay = 0 THEN 0 ELSE relay - 1

Tick ==
  /\ puSync' = <<UsbPullup, puSync[1]>>
  /\ aonPullup' = Held
  /\ active' = Activated
  /\ past' = <<Seen>> \o SubSeq(past, 1, 4)
  /\ lasting' = Filtered
  /\ reported' = Reported
  /\ control' = ControlPasses
  /\ Relayed
  /\ UNCHANGED <<busVars, swVars>>

-----------------------------------------------------------------------------
(* Software, and the power manager that wakes it.                          *)

Idle == control = NoWrite    \* a write waits for the one before it (src_busy_o)
Writes(b) == Idle /\ control' = [bits |-> b, age |-> 0]

Connect(c) ==
  /\ sw = "run" /\ connect # c
  /\ connect' = c /\ want' = c
  /\ UNCHANGED <<busVars, aonVars, control, shown, sw>>

Suspend ==
  /\ sw = "run" /\ sw' = "requested"
  /\ Writes({"suspend_req"})
  /\ UNCHANGED <<busVars, aonVars, shown, connect, want>>

\* The bus is in use again before the device sleeps.
Cancel ==
  /\ sw = "requested" /\ sw' = "acked"
  /\ Writes({"wake_ack"})
  /\ UNCHANGED <<busVars, aonVars, shown, connect, want>>

\* The device sleeps when the wake detector is seen to be active: with its clock
\* stopped, or without power, in which case its registers are reset.
Sleep(deep) ==
  /\ sw = "requested" /\ shown.active
  /\ sw' = "asleep"
  /\ connect' = (connect /\ ~deep)
  /\ shown' = IF deep THEN AtReset ELSE shown
  /\ UNCHANGED <<busVars, aonVars, control, want>>

WakeUp ==
  /\ sw = "asleep" /\ WakeReq
  /\ sw' = "woken"
  /\ UNCHANGED <<busVars, aonVars, control, shown, connect, want>>

\* Software reads the reason, connects again unless the host has gone, and takes over.
Resume ==
  /\ sw = "woken" /\ shown.reported # {}
  /\ want' = (want /\ "unpowered" \notin shown.reported)
  /\ connect' = want'
  /\ sw' = "acked"
  /\ Writes({"wake_ack"})
  /\ UNCHANGED <<busVars, aonVars, shown>>

TakeOver ==
  /\ sw = "acked" /\ Idle /\ ~shown.active
  /\ sw' = "run"
  /\ UNCHANGED <<busVars, aonVars, control, shown, connect, want>>

-----------------------------------------------------------------------------
(* The bus.                                                                *)

Event == events < MaxEvents /\ events' = events + 1

HostDrives(l) ==
  /\ Event /\ vbus /\ line # l
  /\ line' = l
  /\ UNCHANGED <<vbus, aonVars, control, shown, swVars>>

Power ==
  /\ Event
  /\ vbus' = ~vbus /\ line' = "idle"
  /\ UNCHANGED <<aonVars, control, shown, swVars>>

Next ==
  \/ Tick
  \/ \E c \in BOOLEAN : Connect(c)
  \/ Suspend \/ Cancel \/ (\E deep \in BOOLEAN : Sleep(deep)) \/ WakeUp \/ Resume \/ TakeOver
  \/ (\E l \in {"idle", "resume", "reset"} : HostDrives(l)) \/ Power

\* The clock runs, and the power manager obeys the request.
Fairness == WF_vars(Tick) /\ WF_vars(WakeUp)

Spec == Init /\ [][Next]_vars /\ Fairness

-----------------------------------------------------------------------------
(* What the wake detector promises.                                        *)

\* The pull-up that the host sees changes only to what software wants: neither the
\* hand-over to the wake detector, nor sleep with loss of power, nor the hand-over back
\* disconnects the device or connects it, unless VBUS has been away within the last
\* three ticks.
PullupAsWanted ==
  [][Pullup' # Pullup =>
       \/ Pullup' = (want' /\ vbus')
       \/ \E i \in 1..3 : "unpowered" \in past'[i]]_vars

\* A sleeping device is always watched: a resume, a reset or the loss of VBUS that
\* lasts wakes it up.
Trouble == line # "idle" \/ ~vbus
WakesUp == (sw = "asleep" /\ Trouble) ~> (sw # "asleep" \/ ~Trouble)

=============================================================================
