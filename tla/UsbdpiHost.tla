------------------------------ MODULE UsbdpiHost ------------------------------
(***************************************************************************)
(* The DPI host of usbdpi.c from the attachment of the device to the test  *)
(* it asks for: the control transfers of the enumeration, the exchanges of *)
(* the smoke test, the frame timer with its retries, and the order of the  *)
(* steps (usbdpi_test.c).  The streaming test begins where this one ends   *)
(* (UsbdpiStream).                                                         *)
(*                                                                         *)
(* The host advances only while the bus is idle (ST_IDLE), so a step is    *)
(* one state of its FSM with the packet that state sends, the device's     *)
(* answer to that packet, the end of a frame, or the connection or loss of *)
(* the device's pull-up.  A device answers within 18 bit times or not at   *)
(* all, every wait of the host is 24 or more, and the states of one        *)
(* transfer take less than FRAME_INTERVAL: a wait ends only when the       *)
(* answer is in or will not come, and a frame ends only when the host has  *)
(* finished or can no longer go on.                                        *)
(*                                                                         *)
(* The device is the environment.  A prompt one answers every request of   *)
(* the enumeration in the time the host allows; of any other one each      *)
(* answer may be a refusal, or be missing.                                 *)
(***************************************************************************)
EXTENDS Naturals

CONSTANTS
  MaxTries,    \* USBDPI_MAX_TRIES
  Devices,     \* what kinds of device there are: "prompt", "any"
  Tests,       \* what the device's software may ask for
  MaxDetach    \* bound: how often the pull-up is lost

ASSUME HostAssumption ==
  /\ MaxTries \in Nat \ {0} /\ MaxDetach \in Nat
  /\ Devices \subseteq {"prompt", "any"}
  /\ Tests \subseteq {"smoke", "streams", "pincfg", "suspend"}

VARIABLES
  step,      \* the step of the test sequence
  hostSt,    \* the state of the transfer
  bus,       \* bus_state
  lastpid,   \* lastrxpid: the PID of the last packet, of either party
  recving,   \* the PID of the last packet of the device
  tries,     \* num_tries
  addr,      \* dev_address
  out,       \* ep_out[].next_data
  test,      \* test_number
  failed,    \* the assertion that stopped the simulation
  air,       \* the packet the host has sent last, until the device has answered
  device,    \* which kind of device this is
  asks,      \* the test its software asks for
  attached,  \* its pull-up
  detaches,
  dAddr,     \* its address
  dOut,      \* the toggles it expects
  dReq,      \* the control request it is serving
  dData,     \* it has sent data and waits for the handshake
  heard,     \* history: it has acknowledged the SETUP of this attempt
  attempts   \* history: how often this step was begun, up to MaxTries + 1

hostVars == <<step, hostSt, bus, lastpid, recving, tries, addr, out, test, failed>>
devVars  == <<device, asks, attached, detaches, dAddr, dOut, dReq, dData>>
vars     == <<hostVars, air, devVars, heard, attempts>>

ReadSteps == {"GET_DEVICE_DESCRIPTOR", "GET_CONFIG_DESCRIPTOR", "GET_FULL_CONFIG_DESCRIPTOR",
              "GET_TEST_CONFIG"}
SetSteps == {"SET_DEVICE_ADDRESS", "SET_DEVICE_CONFIG"}
ControlSteps == ReadSteps \cup SetSteps
BaudSteps == {"READ_BAUD", "SET_BAUD"}
PollSteps == {"FIRST_READ", "SECOND_READ", "THIRD_READ", "IDLE_END"}
IsoSteps == {"TEST_ISO1", "TEST_ISO2"}
NegativeSteps == {"ENDPT_UNIMPL_SETUP", "ENDPT_UNIMPL_OUT", "ENDPT_UNIMPL_IN", "DEVICE_UK_SETUP"}
IdleSteps == {"IDLE_START", "IDLE_1", "IDLE_2", "IDLE_3"}   \* those before IDLE_END
\* SET_TEST_STATUS and BUS_DISCONNECT have a number, but are the successor of no step.
Steps == ControlSteps \cup BaudSteps \cup PollSteps \cup IsoSteps \cup NegativeSteps \cup IdleSteps
         \cup {"BUS_RESET", "STREAM_SERVICE"}

HostStates == {"STARTFRAME", "WAITACK", "SET_DATASTAGE", "DS_RXDATA", "DS_SENDACK", "REQDATA",
               "WAITDATA", "SENDACK", "WAIT_PKT", "ACKIFDATA", "SENDHI", "EMPTYDATA", "WAITACK2",
               "NEXTFRAME"}

Zero == 0      \* ENDPOINT_ZERO
Serial == 1    \* ENDPOINT_SERIAL0
Isoch == 3     \* ENDPOINT_ISOCHRONOUS
Unimpl == 15   \* ENDPOINT_UNIMPLEMENTED
OutEps == {Zero, Serial, Isoch}

UsbdevAddress == 2
UkdevAddress == 6

BusAfter == [ControlSetup |-> "ControlSetupAck", ControlStatusInToken |-> "ControlStatusInData",
             ControlDataInToken |-> "ControlDataInData", ControlStatusOut |-> "ControlStatusOutAck",
             BulkOut |-> "BulkOutAck", BulkInToken |-> "BulkInData"]
BusStates == {"Idle", "ControlDataInAck"} \cup DOMAIN BusAfter \cup {BusAfter[b] : b \in DOMAIN BusAfter}

DataPids == {"DATA0", "DATA1"}
Handshakes == {"ACK", "NAK", "STALL"}
Pids == DataPids \cup Handshakes \cup {"IN", "OUT", "SOF", "none"}

NoPkt == [pid |-> "none"]
Packets == {NoPkt} \cup [pid : {"ACK", "NAK"}]
           \cup [pid : {"SETUP", "IN", "OUT"}, addr : {0, UsbdevAddress, UkdevAddress}, ep : OutEps \cup {Unimpl},
                 data : DataPids \cup {"none"}]

HostTypeOK ==
  /\ step \in Steps /\ hostSt \in HostStates /\ bus \in BusStates
  /\ lastpid \in Pids /\ recving \in DataPids \cup Handshakes \cup {"none"}
  /\ tries \in 0..(MaxTries - 1) /\ addr \in {0, UsbdevAddress} /\ out \in [OutEps -> DataPids]
  /\ test \in Tests \cup {"smoke"} /\ failed \in {"none", "NoResponse", "NoData", "NoTest"}

TypeOK ==
  /\ HostTypeOK
  /\ air \in Packets
  /\ device \in Devices /\ asks \in Tests /\ attached \in BOOLEAN /\ detaches \in 0..MaxDetach
  /\ dAddr \in {0, UsbdevAddress} /\ dOut \in [OutEps -> DataPids]
  /\ dReq \in ControlSteps \cup BaudSteps \cup {"none", "ADDRESS"} /\ dData \in BOOLEAN
  /\ heard \in BOOLEAN /\ attempts \in 0..(MaxTries + 1)

FirstData == [e \in OutEps |-> "DATA0"]

\* The device is not attached yet, and the host in the state of bus_reset().
Init ==
  /\ step = "BUS_RESET" /\ hostSt = "NEXTFRAME" /\ bus = "Idle"
  /\ lastpid = "none" /\ recving = "none" /\ tries = 0 /\ addr = 0 /\ out = FirstData
  /\ test = "smoke" /\ failed = "none" /\ air = NoPkt
  /\ device \in Devices /\ asks \in Tests /\ attached = FALSE /\ detaches = 0
  /\ dAddr = 0 /\ dOut = FirstData /\ dReq = "none" /\ dData = FALSE
  /\ heard = FALSE /\ attempts = 0

-----------------------------------------------------------------------------
(* Packets and what sending them does.                                     *)

Token(pid, a, ep, data) == [pid |-> pid, addr |-> a, ep |-> ep, data |-> data]
Setup(ep) == Token("SETUP", addr, ep, "DATA0")
In(a, ep) == Token("IN", a, ep, "none")
Out(ep, data) == Token("OUT", addr, ep, data)
Handshake(pid) == [pid |-> pid]

\* The monitor reports the PIDs of the host's packets as well.
PidSeen(p) == IF "data" \in DOMAIN p /\ p.data # "none" THEN p.data ELSE p.pid

Advance(d) == IF d = "DATA1" THEN "DATA0" ELSE "DATA1"   \* DATA_TOGGLE_ADVANCE

\* The host sends p, goes to state h and expects b of the bus.
Sends(p, b, h) ==
  /\ air' = p /\ lastpid' = PidSeen(p) /\ bus' = b /\ hostSt' = h

\* It goes to state h without a packet.
Goes(h) == hostSt' = h /\ UNCHANGED <<air, lastpid, bus>>

GivesUp == hostSt' = "NEXTFRAME" /\ bus' = "Idle" /\ UNCHANGED <<air, lastpid>>

At(h) == hostSt = h

\* An assertion fails.
Fails(why) == failed' = why /\ UNCHANGED <<hostSt, air, lastpid, bus>>

\* The rest of the host's state.
Rest == <<addr, out, test, failed>>

AcknowledgedBlindly(e) == out' = [out EXCEPT ![e] = Advance(@)]
\* The toggle advances if the packet was acknowledged.
Acknowledged(e) == out' = [out EXCEPT ![e] = IF lastpid = "ACK" THEN Advance(@) ELSE @]

-----------------------------------------------------------------------------
(* The transfers.                                                          *)

SetupAssumed == TRUE
SetupSeen == bus = "ControlSetupAck"

\* setDeviceConfiguration(), and setDeviceAddress() but for the address.
NoDataTransfer(a) ==
  \/ At("STARTFRAME") /\ Sends(Setup(Zero), "ControlSetup", "WAITACK")
  \/ At("WAITACK") /\ Goes("SET_DATASTAGE")
  \/ At("SET_DATASTAGE") /\ SetupSeen /\ Sends(In(a, Zero), "ControlStatusInToken", "DS_RXDATA")
  \/ At("DS_RXDATA") /\ Goes("DS_SENDACK")
  \/ At("DS_SENDACK") /\ Sends(Handshake("ACK"), "Idle", "NEXTFRAME")

SetDeviceConfiguration ==
  /\ step = "SET_DEVICE_CONFIG"
  /\ NoDataTransfer(addr)
  /\ UNCHANGED Rest

\* The new address is adopted at the end, whatever the device has answered.
SetDeviceAddress ==
  /\ step = "SET_DEVICE_ADDRESS"
  /\ NoDataTransfer(0)
  /\ addr' = IF At("DS_SENDACK") THEN UsbdevAddress ELSE addr
  /\ UNCHANGED <<out, test, failed>>

\* The stages that getDescriptor() and getTestConfig() have in common.
ReadStages ==
  /\ \/ At("STARTFRAME") /\ Sends(Setup(Zero), "ControlSetup", "WAITACK")
     \/ At("WAITACK") /\ Goes("REQDATA")
     \/ At("REQDATA") /\ SetupSeen /\ Sends(In(addr, Zero), "ControlDataInToken", "WAITDATA")
     \/ At("WAITDATA") /\ Goes("SENDACK")
     \/ At("SENDACK") /\ bus # "ControlDataInData" /\ GivesUp
     \/ At("WAIT_PKT") /\ Goes("EMPTYDATA")
     \/ At("EMPTYDATA") /\ Sends(Out(Zero, "DATA1"), "ControlStatusOut", "WAITACK2")
  /\ UNCHANGED Rest

\* After a NAK the host waits, without asking again, until the frame is over.
StatusStage ==
  /\ At("WAITACK2")
  /\ bus = "ControlStatusOutAck" => lastpid # "NAK"
  /\ IF bus = "ControlStatusOutAck" THEN Acknowledged(Zero) ELSE UNCHANGED out
  /\ Goes("NEXTFRAME")
  /\ UNCHANGED <<addr, test, failed>>

TakesData == Sends(Handshake("ACK"), "ControlDataInAck", "WAIT_PKT")

\* Any packet counts as the data, but that of the configuration descriptor is read.
DataOfDescriptor ==
  /\ At("SENDACK") /\ bus = "ControlDataInData"
  /\ IF step = "GET_CONFIG_DESCRIPTOR" /\ recving \notin DataPids
     THEN Fails("NoData")
     ELSE TakesData /\ UNCHANGED failed
  /\ UNCHANGED <<addr, out, test>>

GetDescriptor ==
  /\ step \in ReadSteps \ {"GET_TEST_CONFIG"}
  /\ ReadStages \/ DataOfDescriptor \/ StatusStage

Supported == {"smoke", "streams", "pincfg"}   \* those usbdpi_test_init() knows

DataOfTestForgotten ==
  /\ At("SENDACK") /\ bus = "ControlDataInData"
  /\ IF lastpid = "DATA1" /\ asks \in Supported THEN TakesData /\ UNCHANGED failed ELSE Fails("NoTest")
  /\ UNCHANGED <<addr, out, test>>
\* The data names the test; anything but DATA1 fails an assertion.
DataOfTest ==
  /\ At("SENDACK") /\ bus = "ControlDataInData"
  /\ IF lastpid = "DATA1"
     THEN /\ test' = asks
          /\ IF asks \in Supported THEN TakesData /\ UNCHANGED failed ELSE Fails("NoTest")
     ELSE Fails("NoTest") /\ UNCHANGED test
  /\ UNCHANGED <<addr, out>>

GetTestConfig ==
  /\ step = "GET_TEST_CONFIG"
  /\ ReadStages \/ DataOfTest \/ StatusStage

\* readBaud() and setBaud(): no answer is awaited or looked at, but for the last.
BaudStages ==
  \/ At("STARTFRAME") /\ Sends(Setup(Zero), "ControlSetup", "WAITACK")
  \/ At("WAITACK") /\ Goes("REQDATA")
  \/ At("REQDATA") /\ Sends(In(addr, Zero), bus, "WAITDATA")
  \/ At("WAITDATA") /\ Goes("SENDACK")

ReadBaud ==
  /\ step = "READ_BAUD"
  /\ \/ BaudStages /\ UNCHANGED out
     \/ At("SENDACK") /\ Sends(Handshake("ACK"), bus, "EMPTYDATA") /\ UNCHANGED out
     \/ At("EMPTYDATA") /\ Sends(Out(Zero, out[Zero]), "ControlStatusOut", "WAITACK2") /\ UNCHANGED out
     \/ At("WAITACK2") /\ Goes("NEXTFRAME") /\ Acknowledged(Zero)
  /\ UNCHANGED <<addr, test, failed>>

SetBaud ==
  /\ step = "SET_BAUD"
  /\ \/ BaudStages
     \/ At("SENDACK") /\ Sends(Handshake("ACK"), bus, "NEXTFRAME")
  /\ UNCHANGED Rest

\* tryTX() as testIso() uses it: no handshake, no toggle.
TryTX ==
  /\ step \in IsoSteps
  /\ \/ At("STARTFRAME") /\ Sends(Out(Isoch, out[Isoch]), "BulkOut", "WAITACK")
     \/ At("WAITACK") /\ Goes("REQDATA")
     \/ At("REQDATA") /\ Sends(In(addr, Isoch), bus, "WAITDATA")
     \/ At("WAITDATA") /\ Goes("NEXTFRAME")
  /\ UNCHANGED Rest

\* pollRX(): an IN and, if sendHi, an OUT; data is refused if nakData.
PollAnswer(nakData) ==
  /\ At("ACKIFDATA")
  /\ IF bus = "BulkInData" /\ lastpid # "NAK"
     THEN Sends(Handshake(IF nakData THEN "NAK" ELSE "ACK"), bus, "SENDHI")
     ELSE Goes("SENDHI")

PollStages(sendHi, nakData) ==
  \/ At("STARTFRAME") /\ Sends(In(addr, Serial), "BulkInToken", "WAIT_PKT") /\ UNCHANGED out
  \/ At("WAIT_PKT") /\ Goes("ACKIFDATA") /\ UNCHANGED out
  \/ PollAnswer(nakData) /\ UNCHANGED out
  \/ /\ At("SENDHI") /\ UNCHANGED out
     /\ IF sendHi THEN Sends(Out(Serial, out[Serial]), bus, "WAITACK") ELSE Goes("NEXTFRAME")
  \/ At("WAITACK") /\ Goes("NEXTFRAME") /\ Acknowledged(Serial)

PollRX ==
  /\ step \in PollSteps
  /\ PollStages(step \in {"FIRST_READ", "SECOND_READ"}, step \in {"FIRST_READ", "THIRD_READ"})
  /\ UNCHANGED <<addr, test, failed>>

\* A packet that nobody should answer: to no endpoint of the device, or to another device.
NegativeTest(s) ==
  CASE s = "ENDPT_UNIMPL_SETUP" -> Setup(Unimpl)
    [] s = "ENDPT_UNIMPL_OUT"   -> Out(Unimpl, "DATA0")
    [] s = "ENDPT_UNIMPL_IN"    -> In(addr, Unimpl)
    [] s = "DEVICE_UK_SETUP"    -> Token("SETUP", UkdevAddress, 1, "DATA0")

TestUnimplEp ==
  /\ step \in NegativeSteps
  /\ \/ At("STARTFRAME") /\ Sends(NegativeTest(step), bus, "WAITACK")
     \/ At("WAITACK") /\ Goes("NEXTFRAME")
  /\ UNCHANGED Rest

\* The host may act: the bus is idle and no assertion has failed.
HostReady == attached /\ failed = "none" /\ air = NoPkt

Transfer ==
  /\ HostReady
  /\ \/ SetDeviceConfiguration \/ SetDeviceAddress \/ GetDescriptor \/ GetTestConfig
     \/ ReadBaud \/ SetBaud \/ TryTX \/ PollRX \/ TestUnimplEp
  /\ heard' = (heard /\ ~At("STARTFRAME"))
  /\ attempts' = IF At("STARTFRAME") /\ attempts <= MaxTries THEN attempts + 1 ELSE attempts
  /\ UNCHANGED <<step, recving, tries, devVars>>

-----------------------------------------------------------------------------
(* The frame timer and the sequence of the steps.                          *)

EnumerationNext ==
  [BUS_RESET |-> "GET_DEVICE_DESCRIPTOR", GET_DEVICE_DESCRIPTOR |-> "SET_DEVICE_ADDRESS",
   SET_DEVICE_ADDRESS |-> "GET_CONFIG_DESCRIPTOR",
   GET_CONFIG_DESCRIPTOR |-> "GET_FULL_CONFIG_DESCRIPTOR",
   GET_FULL_CONFIG_DESCRIPTOR |-> "SET_DEVICE_CONFIG", SET_DEVICE_CONFIG |-> "GET_TEST_CONFIG"]

\* READ_BAUD, TEST_ISO2 and the idle steps are followed by the next number.
SmokeNext ==
  [GET_TEST_CONFIG |-> "FIRST_READ", FIRST_READ |-> "READ_BAUD", READ_BAUD |-> "SECOND_READ",
   SECOND_READ |-> "SET_BAUD", SET_BAUD |-> "THIRD_READ", THIRD_READ |-> "TEST_ISO1",
   TEST_ISO1 |-> "TEST_ISO2", TEST_ISO2 |-> "ENDPT_UNIMPL_SETUP",
   ENDPT_UNIMPL_SETUP |-> "ENDPT_UNIMPL_SETUP", ENDPT_UNIMPL_OUT |-> "ENDPT_UNIMPL_IN",
   ENDPT_UNIMPL_IN |-> "DEVICE_UK_SETUP", DEVICE_UK_SETUP |-> "IDLE_START",
   IDLE_START |-> "IDLE_1", IDLE_1 |-> "IDLE_2", IDLE_2 |-> "IDLE_3", IDLE_3 |-> "IDLE_END",
   IDLE_END |-> "IDLE_END"]

\* usbdpi_test_seq_next()
SeqNext(s) ==
  IF s \in DOMAIN EnumerationNext THEN EnumerationNext[s]
  ELSE CASE test = "streams" -> "STREAM_SERVICE"
         [] test = "pincfg" -> "BUS_RESET"
         [] OTHER -> SmokeNext[s]

\* The answer the host waits for did not come, or was a NAK in the status stage; and
\* the idle steps have no handler that would take them to HS_NEXTFRAME.
Stuck ==
  \/ step \in SetSteps /\ At("SET_DATASTAGE") /\ ~SetupSeen
  \/ step \in ReadSteps /\ At("REQDATA") /\ ~SetupSeen
  \/ step \in ReadSteps /\ At("WAITACK2") /\ bus = "ControlStatusOutAck" /\ lastpid = "NAK"
  \/ step \in IdleSteps

NextStepKeepsTries ==
  /\ At("NEXTFRAME")
  /\ step' = SeqNext(step) /\ hostSt' = "STARTFRAME" /\ attempts' = 0
  /\ UNCHANGED <<tries, failed>>
\* The transfer is complete: the sequence goes on.
NextStep ==
  /\ At("NEXTFRAME")
  /\ step' = SeqNext(step) /\ hostSt' = "STARTFRAME"
  /\ tries' = 0 /\ attempts' = 0
  /\ UNCHANGED failed

RetryForever ==
  /\ Stuck
  /\ hostSt' = "STARTFRAME"
  /\ UNCHANGED <<step, tries, attempts, failed>>

RetryLate ==
  /\ Stuck
  /\ IF tries + 1 > MaxTries
     THEN failed' = "NoResponse" /\ tries' = 0 /\ UNCHANGED hostSt
     ELSE hostSt' = "STARTFRAME" /\ tries' = tries + 1 /\ UNCHANGED failed
  /\ UNCHANGED <<step, attempts>>
\* It is not: the same transfer is begun again, unless it was tried too often.
Retry ==
  /\ Stuck
  /\ IF tries + 1 >= MaxTries
     THEN failed' = "NoResponse" /\ tries' = 0 /\ UNCHANGED hostSt
     ELSE hostSt' = "STARTFRAME" /\ tries' = tries + 1 /\ UNCHANGED failed
  /\ UNCHANGED <<step, attempts>>

\* The software of a prompt device has set the address before the next frame.
DeviceKeepsUp == device = "prompt" => dReq # "ADDRESS"

\* The idle steps begin their frames without a SOF packet.
FrameEnd ==
  /\ HostReady /\ step # "STREAM_SERVICE" /\ DeviceKeepsUp
  /\ NextStep \/ Retry
  /\ lastpid' = IF step \in IdleSteps THEN lastpid ELSE "SOF"
  /\ UNCHANGED <<bus, recving, addr, out, test, air, devVars, heard>>

\* bus_reset()
BusResetKeepsAddress ==
  /\ step' = "BUS_RESET" /\ hostSt' = "NEXTFRAME" /\ bus' = "Idle"
  /\ out' = FirstData /\ UNCHANGED addr
BusReset ==
  /\ step' = "BUS_RESET" /\ hostSt' = "NEXTFRAME" /\ bus' = "Idle"
  /\ addr' = 0 /\ out' = FirstData

DeviceReset == dAddr' = 0 /\ dOut' = FirstData /\ dReq' = "none" /\ dData' = FALSE

\* The step BUS_RESET: the host drives SE0, which resets the device as well.
ResetStep ==
  /\ HostReady /\ step = "BUS_RESET" /\ At("STARTFRAME")
  /\ BusReset /\ DeviceReset
  /\ attempts' = 1
  /\ UNCHANGED <<lastpid, recving, tries, test, failed, air, device, asks, attached, detaches, heard>>

\* The pull-up is lost, at any moment.
Detach ==
  /\ attached /\ failed = "none" /\ detaches < MaxDetach
  /\ attached' = FALSE /\ detaches' = detaches + 1
  /\ BusReset /\ DeviceReset
  /\ air' = NoPkt /\ attempts' = 0 /\ heard' = FALSE
  /\ UNCHANGED <<lastpid, recving, tries, test, failed, device, asks>>

\* The pull-up is there, and the recovery time is over.
Attach ==
  /\ ~attached
  /\ attached' = TRUE
  /\ UNCHANGED <<hostVars, air, device, asks, detaches, dAddr, dOut, dReq, dData, heard, attempts>>

-----------------------------------------------------------------------------
(* The device.                                                             *)

Hears(p) == "addr" \in DOMAIN p /\ p.addr = dAddr /\ p.ep # Unimpl

Refusals == IF device = "prompt" THEN {} ELSE {"NAK", "STALL", "silent"}

\* The data for the baud rate is asked for sooner than software can provide it, and
\* the serial endpoint may have no data and no room.
AnswersToIn(ep) ==
  CASE ep = Zero   -> {"DATA1"} \cup IF dReq \in BaudSteps THEN {"NAK"} ELSE {}
    [] ep = Serial -> DataPids \cup {"NAK"}
    [] ep = Isoch  -> {"DATA0"}

Answers(p) ==
  CASE ~Hears(p)                      -> {"silent"}
    [] Hears(p) /\ p.pid = "SETUP"    -> {"ACK"} \cup (Refusals \cap {"silent"})
    [] Hears(p) /\ p.pid = "IN"       ->
         AnswersToIn(p.ep) \cup IF p.ep = Isoch THEN Refusals \cap {"silent"} ELSE Refusals
    [] Hears(p) /\ p.pid = "OUT"      ->
         IF p.ep = Isoch THEN {"silent"}
         ELSE {"ACK"} \cup Refusals \cup IF p.ep = Serial THEN {"NAK"} ELSE {}

\* A SETUP makes DATA1 the next of its endpoint; a packet with the toggle expected is
\* taken when it is acknowledged, one with the other toggle is not.
Takes(p, r) ==
  dOut' = IF p.pid = "SETUP" /\ r = "ACK" THEN [dOut EXCEPT ![Zero] = "DATA1"]
          ELSE IF p.pid = "OUT" /\ r = "ACK" /\ p.data = dOut[p.ep]
          THEN [dOut EXCEPT ![p.ep] = Advance(@)] ELSE dOut

\* The request is that of the host's step.  Software sees when the status stage of
\* SET_ADDRESS is complete.
Serves(p, r) ==
  dReq' = IF p.pid = "SETUP" /\ r = "ACK" THEN step
          ELSE IF p.pid = "ACK" /\ dData /\ dReq = "SET_DEVICE_ADDRESS" THEN "ADDRESS"
          ELSE dReq

\* usbdpi_device_to_host(): the end of a packet of the device.
EndOfPacket == bus' = IF bus \in DOMAIN BusAfter THEN BusAfter[bus] ELSE bus

\* usbdpi_data_callback() and the monitor: the packet is collected.
Collect(r) == lastpid' = r /\ recving' = r

DeviceAnswers(r) ==
  /\ attached /\ failed = "none" /\ air # NoPkt /\ r \in Answers(air)
  /\ air' = NoPkt
  /\ IF r = "silent" THEN UNCHANGED <<bus, lastpid, recving>> ELSE EndOfPacket /\ Collect(r)
  /\ Takes(air, r)
  /\ Serves(air, r)
  /\ dData' = (air.pid = "IN" /\ r \in DataPids)
  /\ heard' = (heard \/ (air.pid = "SETUP" /\ r = "ACK"))
  /\ UNCHANGED <<step, hostSt, tries, addr, out, test, failed, device, asks, attached, detaches,
                 dAddr, attempts>>

DeviceSetsAddress ==
  /\ attached /\ failed = "none" /\ dReq = "ADDRESS"
  /\ dAddr' = UsbdevAddress /\ dReq' = "none"
  /\ UNCHANGED <<hostVars, air, device, asks, attached, detaches, dOut, dData, heard, attempts>>

-----------------------------------------------------------------------------
Next ==
  \/ Transfer \/ ResetStep \/ FrameEnd
  \/ Attach \/ Detach
  \/ \E r \in DataPids \cup Handshakes \cup {"silent"} : DeviceAnswers(r)
  \/ DeviceSetsAddress

\* The host is clocked, so whatever it can do it does; the answer of the device is in,
\* or it does not come; software sets the address, and the pull-up, again and again.
Fairness ==
  /\ WF_vars(Transfer) /\ WF_vars(ResetStep) /\ WF_vars(FrameEnd)
  /\ WF_vars(\E r \in DataPids \cup Handshakes \cup {"silent"} : DeviceAnswers(r))
  /\ WF_vars(Attach) /\ WF_vars(DeviceSetsAddress)

Spec == Init /\ [][Next]_vars /\ Fairness

-----------------------------------------------------------------------------
(* What the host promises.                                                 *)

\* The sequence goes beyond a step of the enumeration only if the device has
\* acknowledged the SETUP packet of this attempt at it: a device that does not hear
\* its address, or that has refused it, is not taken for one that was configured.
SetupAnswered ==
  [][attached' /\ step' # step /\ step \in ControlSteps => heard]_vars

\* A transfer is given up as unanswered after exactly MaxTries attempts ("Maximum
\* number of attempts to perform a Control Transfer before faulting it", usbdpi.h),
\* and never attempted more often.  (The idle steps attempt nothing.)
TriesCounted ==
  /\ attempts <= MaxTries
  /\ failed = "NoResponse" /\ step \notin IdleSteps => attempts = MaxTries

\* Between its packets host and device agree about the toggle of the serial endpoint,
\* whatever was refused, went unanswered, or was interrupted by a disconnection.
SerialToggleAgreed ==
  air = NoPkt /\ ~(step \in PollSteps /\ At("WAITACK")) => out[Serial] = dOut[Serial]

\* A prompt device that asks for a test the host knows fails no assertion.
PromptNeverFails == device = "prompt" /\ asks \in Supported => failed = "none"

\* Such a device gets the test it asks for, however often it is disconnected on the
\* way: after every (re)connection the negative tests, with which the smoke test ends;
\* the streams, for good; or one bus reset after another.
PromptAsks(t) == device = "prompt" /\ asks = t
PromptReachesTest ==
  /\ (PromptAsks("smoke") /\ step = "BUS_RESET") ~> (step = "ENDPT_UNIMPL_SETUP")
  /\ PromptAsks("streams") => <>[](step = "STREAM_SERVICE")
  /\ PromptAsks("pincfg") => []<>(step = "BUS_RESET" /\ At("STARTFRAME"))

\* A transfer that is begun ends or is given up, even if the device answers every
\* attempt at its status stage with a NAK.
EveryTransferEnds ==
  \A s \in Steps \ {"STREAM_SERVICE"} :
    (step = s /\ At("STARTFRAME")) ~>
      ((step = s /\ At("NEXTFRAME")) \/ failed # "none" \/ step = "BUS_RESET")

\* The smoke test comes to its "Final resting state" (usbdpi_test.c), after "each of
\* SETUP, OUT and IN to an unimplemented endpoint" (usbdpi.c).  It does not.
SmokeComesToRest == PromptAsks("smoke") => <>(step = "IDLE_END")

=============================================================================
