--------------------------- MODULE UsbdpiHostProofs ---------------------------
(***************************************************************************)
(* Proofs about UsbdpiHost, for every number of attempts and disconnections*)
(* and every device.                                                       *)
(***************************************************************************)
EXTENDS UsbdpiHost, TLAPS

-----------------------------------------------------------------------------
(* The invariant.                                                          *)

\* The steps the sequence comes to: ENDPT_UNIMPL_SETUP is its own successor.
ReachedSteps == ControlSteps \cup BaudSteps \cup IsoSteps
                \cup {"BUS_RESET", "STREAM_SERVICE", "FIRST_READ", "SECOND_READ", "THIRD_READ", "ENDPT_UNIMPL_SETUP"}
Reached == step \in ReachedSteps

\* Past the check of a control transfer that its SETUP packet was answered.
PastSetup == {"DS_RXDATA", "DS_SENDACK", "WAITDATA", "SENDACK", "WAIT_PKT", "EMPTYDATA", "WAITACK2", "NEXTFRAME"}

\* What the host has on the air: a SETUP packet only while it waits for the answer, and
\* an OUT packet to the serial endpoint only from a poll.
AirTrue ==
  /\ air # NoPkt /\ air.pid = "SETUP" =>
       /\ At("WAITACK")
       /\ air.ep # Unimpl => step \in ControlSteps \cup BaudSteps
  /\ step \in ControlSteps /\ At("WAITACK") /\ air # NoPkt => air.pid = "SETUP" /\ bus = "ControlSetup"
  /\ step \in ControlSteps /\ (At("REQDATA") \/ At("SET_DATASTAGE")) => air = NoPkt

\* The answer to the SETUP packet of this attempt, as the host has it and as it was.
Answered ==
  step \in ControlSteps =>
    /\ At("WAITACK") /\ air = NoPkt /\ bus = "ControlSetupAck" => heard
    /\ (At("REQDATA") \/ At("SET_DATASTAGE")) /\ bus = "ControlSetupAck" => heard
    /\ hostSt \in PastSetup => heard

\* The host's count of attempts is the number of attempts.
Counted ==
  /\ attempts <= MaxTries
  /\ failed = "none" =>
       \/ At("STARTFRAME") /\ attempts = tries
       \/ ~At("STARTFRAME") /\ attempts = tries + 1
       \/ step = "BUS_RESET" /\ At("NEXTFRAME")
  /\ failed = "NoResponse" => attempts = MaxTries

\* The toggle of the serial endpoint, with an OUT packet on its way or answered.
SerialTrue ==
  IF step \in PollSteps /\ At("WAITACK")
  THEN \/ /\ air # NoPkt /\ air.pid = "OUT" /\ air.ep = Serial /\ air.data = out[Serial]
          /\ lastpid \in DataPids /\ out[Serial] = dOut[Serial]
       \/ air = NoPkt /\ lastpid = "ACK" /\ dOut[Serial] = Advance(out[Serial])
       \/ air = NoPkt /\ lastpid # "ACK" /\ out[Serial] = dOut[Serial]
  ELSE /\ out[Serial] = dOut[Serial]
       /\ air # NoPkt /\ air.pid = "OUT" => air.ep # Serial

\* The host's address until SET_ADDRESS is complete.
AddressFirst ==
  \/ step = "BUS_RESET" /\ At("NEXTFRAME")
  \/ step = "GET_DEVICE_DESCRIPTOR"
  \/ step = "SET_DEVICE_ADDRESS" /\ ~At("NEXTFRAME")
  => addr = 0

\* A prompt device has the host's address and request, and its answers lead through each
\* control transfer.
PromptAddress ==
  /\ dReq = "ADDRESS" => step = "SET_DEVICE_ADDRESS" /\ At("NEXTFRAME") /\ air = NoPkt /\ addr = UsbdevAddress
  /\ dReq = "SET_DEVICE_ADDRESS" =>
       /\ step = "SET_DEVICE_ADDRESS"
       /\ hostSt \in {"WAITACK", "SET_DATASTAGE", "DS_RXDATA", "DS_SENDACK", "NEXTFRAME"}
       /\ At("NEXTFRAME") => air = Handshake("ACK") /\ dData /\ addr = UsbdevAddress
  /\ addr = dAddr \/ dReq \in {"ADDRESS", "SET_DEVICE_ADDRESS"}
  /\ step = "SET_DEVICE_ADDRESS" /\ ~At("NEXTFRAME") => dAddr = 0

PromptTransfer ==
  step \in ControlSteps =>
    /\ At("WAITACK") =>
         \/ air = Setup(Zero) /\ bus = "ControlSetup"
         \/ air = NoPkt /\ bus = "ControlSetupAck" /\ dReq = step
    /\ At("SET_DATASTAGE") \/ At("REQDATA") => air = NoPkt /\ bus = "ControlSetupAck" /\ dReq = step
    /\ At("DS_RXDATA") => (air = In(dAddr, Zero) \/ (air = NoPkt /\ dData)) /\ dReq = step
    /\ At("DS_SENDACK") => air = NoPkt /\ dData /\ dReq = step
    /\ At("WAITDATA") =>
         \/ air = In(dAddr, Zero) /\ bus = "ControlDataInToken" /\ dReq = step
         \/ air = NoPkt /\ bus = "ControlDataInData" /\ lastpid = "DATA1" /\ recving = "DATA1"
    /\ At("SENDACK") => air = NoPkt /\ bus = "ControlDataInData" /\ lastpid = "DATA1" /\ recving = "DATA1"
    /\ At("WAITACK2") =>
         \/ air = Token("OUT", dAddr, Zero, "DATA1") /\ bus = "ControlStatusOut"
         \/ air = NoPkt /\ bus = "ControlStatusOutAck" /\ lastpid = "ACK"

PromptTrue == device = "prompt" /\ asks \in Supported =>
  failed = "none" /\ PromptAddress /\ PromptTransfer

IInv == TypeOK /\ Reached /\ AirTrue /\ Answered /\ Counted /\ SerialTrue /\ AddressFirst /\ PromptTrue

-----------------------------------------------------------------------------
(* Packets.                                                                *)

\* What a token and a handshake look like, on the air and to the monitor.
LEMMA TokenShape ==
  ASSUME NEW pid \in {"SETUP", "IN", "OUT"}, NEW a \in {0, UsbdevAddress}, NEW ep \in OutEps \cup {Unimpl},
         NEW d \in DataPids \cup {"none"}
  PROVE  LET p == Token(pid, a, ep, d)
         IN /\ p \in Packets /\ p # NoPkt
            /\ p.pid = pid /\ p.addr = a /\ p.ep = ep /\ p.data = d /\ DOMAIN p = {"pid", "addr", "ep", "data"}
            /\ PidSeen(p) = IF d = "none" THEN pid ELSE d
BY DEF Token, Packets, NoPkt, PidSeen

\* The fields of a handshake.
LEMMA HandshakeShape ==
  ASSUME NEW pid \in {"ACK", "NAK"}
  PROVE  /\ Handshake(pid) \in Packets /\ Handshake(pid) # NoPkt
         /\ Handshake(pid).pid = pid /\ PidSeen(Handshake(pid)) = pid
         /\ "addr" \notin DOMAIN Handshake(pid)
BY DEF Handshake, Packets, NoPkt, PidSeen

\* What may be on the air.
LEMMA AirShape ==
  ASSUME air \in Packets
  PROVE  \/ air = NoPkt
         \/ "addr" \notin DOMAIN air /\ air.pid \in {"ACK", "NAK"}
         \/ /\ "addr" \in DOMAIN air /\ air.pid \in {"SETUP", "IN", "OUT"}
            /\ air.addr \in {0, UsbdevAddress, UkdevAddress}
            /\ air.ep \in OutEps \cup {Unimpl} /\ air.data \in DataPids \cup {"none"}
BY DEF Packets, NoPkt

\* The packets of the host.
LEMMA HostPackets ==
  ASSUME addr \in {0, UsbdevAddress}
  PROVE  /\ \A ep \in {Zero, Unimpl} :
              /\ Setup(ep) \in Packets /\ Setup(ep) # NoPkt /\ PidSeen(Setup(ep)) = "DATA0"
              /\ Setup(ep).pid = "SETUP" /\ Setup(ep).ep = ep
         /\ \A a \in {0, addr}, ep \in OutEps :
              In(a, ep) \in Packets /\ In(a, ep) # NoPkt /\ PidSeen(In(a, ep)) = "IN" /\ In(a, ep).pid = "IN"
         /\ \A ep \in OutEps, d \in DataPids :
              /\ Out(ep, d) \in Packets /\ Out(ep, d) # NoPkt /\ PidSeen(Out(ep, d)) = d
              /\ Out(ep, d).pid = "OUT" /\ Out(ep, d).ep = ep /\ Out(ep, d).data = d
         /\ \A pid \in {"ACK", "NAK"} :
              /\ Handshake(pid) \in Packets /\ Handshake(pid) # NoPkt
              /\ PidSeen(Handshake(pid)) = pid /\ Handshake(pid).pid = pid
<1>1. /\ \A ep \in {Zero, Unimpl} : ep \in OutEps \cup {Unimpl}
      /\ \A d \in DataPids : d # "none"
      /\ "DATA0" \in DataPids /\ \A a \in {0, addr} : a \in {0, UsbdevAddress}
  BY DEF OutEps, Zero, DataPids
<1>2. \A ep \in {Zero, Unimpl} :
        /\ Setup(ep) \in Packets /\ Setup(ep) # NoPkt /\ PidSeen(Setup(ep)) = "DATA0"
        /\ Setup(ep).pid = "SETUP" /\ Setup(ep).ep = ep
  BY <1>1, TokenShape DEF Setup, DataPids
<1>3. \A a \in {0, addr}, ep \in OutEps :
        In(a, ep) \in Packets /\ In(a, ep) # NoPkt /\ PidSeen(In(a, ep)) = "IN" /\ In(a, ep).pid = "IN"
  BY <1>1, TokenShape DEF In
<1>4. \A ep \in OutEps, d \in DataPids :
        /\ Out(ep, d) \in Packets /\ Out(ep, d) # NoPkt /\ PidSeen(Out(ep, d)) = d
        /\ Out(ep, d).pid = "OUT" /\ Out(ep, d).ep = ep /\ Out(ep, d).data = d
  BY <1>1, TokenShape DEF Out
<1> QED
  BY <1>2, <1>3, <1>4, HandshakeShape

\* The states of the bus, and how they end.
LEMMA BusShape ==
  /\ DOMAIN BusAfter = {"ControlSetup", "ControlStatusInToken", "ControlDataInToken", "ControlStatusOut",
                        "BulkOut", "BulkInToken"}
  /\ BusAfter["ControlSetup"] = "ControlSetupAck"
  /\ BusAfter["ControlStatusInToken"] = "ControlStatusInData"
  /\ BusAfter["ControlDataInToken"] = "ControlDataInData"
  /\ BusAfter["ControlStatusOut"] = "ControlStatusOutAck"
  /\ BusAfter["BulkOut"] = "BulkOutAck" /\ BusAfter["BulkInToken"] = "BulkInData"
BY DEF BusAfter

\* The states of the bus, one by one.
LEMMA BusStatesAre ==
  BusStates = {"Idle", "ControlDataInAck", "ControlSetup", "ControlStatusInToken", "ControlDataInToken",
               "ControlStatusOut", "BulkOut", "BulkInToken", "ControlSetupAck", "ControlStatusInData",
               "ControlDataInData", "ControlStatusOutAck", "BulkOutAck", "BulkInData"}
BY BusShape DEF BusStates

\* DATA0 and DATA1 alternate.
LEMMA AdvanceType == ASSUME NEW d \in DataPids PROVE Advance(d) \in DataPids /\ Advance(Advance(d)) = d
BY DEF Advance, DataPids

-----------------------------------------------------------------------------
(* The sequence of the steps.                                              *)

\* The kinds of step are disjoint.
LEMMA StepKinds ==
  /\ ControlSteps \cap (BaudSteps \cup PollSteps \cup IsoSteps) = {}
  /\ PollSteps \cap (BaudSteps \cup IsoSteps) = {}
  /\ {"BUS_RESET", "ENDPT_UNIMPL_SETUP", "STREAM_SERVICE"} \cap (ControlSteps \cup PollSteps) = {}
  /\ ReadSteps \cap SetSteps = {}
  /\ ReachedSteps \cap IdleSteps = {} /\ ReachedSteps \cap NegativeSteps = {"ENDPT_UNIMPL_SETUP"}
BY DEF ControlSteps, ReadSteps, SetSteps, BaudSteps, PollSteps, IsoSteps, NegativeSteps, IdleSteps, ReachedSteps

\* Of the negative tests only the first is sent.
LEMMA FirstNegative == Reached /\ step \in NegativeSteps => NegativeTest(step) = Setup(Unimpl)
<1> SUFFICES ASSUME Reached, step \in NegativeSteps PROVE NegativeTest(step) = Setup(Unimpl)
  OBVIOUS
<1>1. step = "ENDPT_UNIMPL_SETUP"
  BY StepKinds DEF Reached
<1> QED
  BY <1>1 DEF NegativeTest

\* The sequence, where it goes on.
LEMMA SeqNextType ==
  ASSUME NEW s \in Steps \ {"STREAM_SERVICE"}
  PROVE  SeqNext(s) \in Steps /\ (SeqNext(s) \in ControlSteps \cup BaudSteps => SeqNext(s) # s)
<1>1. DOMAIN EnumerationNext =
        {"BUS_RESET", "GET_DEVICE_DESCRIPTOR", "SET_DEVICE_ADDRESS", "GET_CONFIG_DESCRIPTOR",
         "GET_FULL_CONFIG_DESCRIPTOR", "SET_DEVICE_CONFIG"}
  BY DEF EnumerationNext
<1> USE DEF Steps, ControlSteps, ReadSteps, SetSteps, BaudSteps, PollSteps, IsoSteps,
       NegativeSteps, IdleSteps
<1>2. CASE s \in DOMAIN EnumerationNext
  BY <1>1, <1>2 DEF SeqNext, EnumerationNext
<1>3. CASE s \notin DOMAIN EnumerationNext
  BY <1>1, <1>3 DEF SeqNext, SmokeNext
<1> QED
  BY <1>2, <1>3

\* How it begins.
LEMMA SeqBegins ==
  ASSUME NEW s \in Steps \ {"STREAM_SERVICE"}
  PROVE  /\ SeqNext(s) = "GET_DEVICE_DESCRIPTOR" => s = "BUS_RESET"
         /\ SeqNext(s) = "SET_DEVICE_ADDRESS" <=> s = "GET_DEVICE_DESCRIPTOR"
<1>1. DOMAIN EnumerationNext =
        {"BUS_RESET", "GET_DEVICE_DESCRIPTOR", "SET_DEVICE_ADDRESS", "GET_CONFIG_DESCRIPTOR",
         "GET_FULL_CONFIG_DESCRIPTOR", "SET_DEVICE_CONFIG"}
  BY DEF EnumerationNext
<1> USE DEF Steps, ControlSteps, ReadSteps, SetSteps, BaudSteps, PollSteps, IsoSteps,
       NegativeSteps, IdleSteps
<1>2. CASE s \in DOMAIN EnumerationNext
  BY <1>1, <1>2 DEF SeqNext, EnumerationNext
<1>3. CASE s \notin DOMAIN EnumerationNext
  BY <1>1, <1>3 DEF SeqNext, SmokeNext
<1> QED
  BY <1>2, <1>3

\* From a step it comes to, the sequence goes on to such a step.
LEMMA SeqNextReached ==
  ASSUME NEW s \in ReachedSteps \ {"STREAM_SERVICE"}
  PROVE  SeqNext(s) \in ReachedSteps
<1>1. DOMAIN EnumerationNext =
        {"BUS_RESET", "GET_DEVICE_DESCRIPTOR", "SET_DEVICE_ADDRESS", "GET_CONFIG_DESCRIPTOR",
         "GET_FULL_CONFIG_DESCRIPTOR", "SET_DEVICE_CONFIG"}
  BY DEF EnumerationNext
<1> USE DEF ReachedSteps, ControlSteps, ReadSteps, SetSteps, BaudSteps, IsoSteps
<1>2. CASE s \in DOMAIN EnumerationNext
  BY <1>1, <1>2 DEF SeqNext, EnumerationNext
<1>3. CASE s \notin DOMAIN EnumerationNext
  BY <1>1, <1>3 DEF SeqNext, SmokeNext
<1> QED
  BY <1>2, <1>3

\* The sequence never leaves them.
LEMMA ReachedStep == Reached /\ [Next]_vars => Reached'
<1> SUFFICES ASSUME Reached, [Next]_vars PROVE Reached'
  OBVIOUS
<1>1. CASE FrameEnd
  <2>1. CASE NextStep
    BY <1>1, <2>1, SeqNextReached DEF FrameEnd, NextStep, Reached
  <2>2. CASE Retry
    BY <2>2 DEF Retry, Reached
  <2> QED
    BY <1>1, <2>1, <2>2 DEF FrameEnd
<1>2. CASE ResetStep \/ Detach
  BY <1>2 DEF ResetStep, Detach, BusReset, Reached, ReachedSteps
<1>3. CASE ~(FrameEnd \/ ResetStep \/ Detach)
  BY <1>3 DEF Next, Transfer, Attach, DeviceAnswers, DeviceSetsAddress, vars, hostVars, Reached
<1> QED
  BY <1>1, <1>2, <1>3

-----------------------------------------------------------------------------
(* Types.                                                                  *)

\* The transfers.
TransferTypes ==
  /\ hostSt' \in HostStates /\ bus' \in BusStates /\ lastpid' \in Pids /\ air' \in Packets
  /\ addr' \in {0, UsbdevAddress} /\ out' \in [OutEps -> DataPids]
  /\ test' \in Tests \cup {"smoke"} /\ failed' \in {"none", "NoResponse", "NoData", "NoTest"}

\* A step of a transfer keeps the types.
LEMMA TransferType == ASSUME TypeOK, Reached, Transfer PROVE TransferTypes
<1> USE DEF TypeOK, HostTypeOK
<1>1. \A d \in DataPids : d \in Pids /\ Advance(d) \in DataPids
  BY AdvanceType DEF Pids
<1>2. \A e \in OutEps : /\ Acknowledged(e) => out' \in [OutEps -> DataPids]
                        /\ out[e] \in DataPids
  BY <1>1 DEF Acknowledged
<1>3. Zero \in OutEps /\ Serial \in OutEps /\ Isoch \in OutEps
  BY DEF OutEps
<1>4. {"DATA0", "DATA1", "IN", "ACK", "NAK"} \subseteq Pids /\ "DATA1" \in DataPids
  BY DEF Pids, DataPids, Handshakes
<1> USE <1>2, <1>3, <1>4, HostPackets, BusStatesAre DEF HostStates, Sends, Goes, GivesUp, TransferTypes, Rest
<1>5. \A a \in {0, addr} : NoDataTransfer(a) =>
        hostSt' \in HostStates /\ bus' \in BusStates /\ lastpid' \in Pids /\ air' \in Packets
  BY DEF NoDataTransfer
<1>6. CASE SetDeviceConfiguration \/ SetDeviceAddress
  BY <1>5, <1>6 DEF SetDeviceConfiguration, SetDeviceAddress
<1>7. ReadStages => TransferTypes
  BY DEF ReadStages
<1>8. StatusStage => TransferTypes
  BY DEF StatusStage
<1>9. CASE GetDescriptor
  <2>1. DataOfDescriptor => TransferTypes
    BY DEF DataOfDescriptor, Fails, TakesData
  <2> QED
    BY <1>7, <1>8, <1>9, <2>1 DEF GetDescriptor
<1>10. CASE GetTestConfig
  <2>1. DataOfTest => TransferTypes
    BY DEF DataOfTest, Fails, TakesData
  <2> QED
    BY <1>7, <1>8, <1>10, <2>1 DEF GetTestConfig
<1>11. CASE ReadBaud
  <2>1. BaudStages /\ UNCHANGED <<addr, out, test, failed>> => TransferTypes
    BY DEF BaudStages
  <2>2. At("EMPTYDATA") /\ Sends(Out(Zero, out[Zero]), "ControlStatusOut", "WAITACK2") =>
          hostSt' \in HostStates /\ bus' \in BusStates /\ lastpid' \in Pids /\ air' \in Packets
    BY <1>1
  <2> QED
    BY <1>11, <2>1, <2>2 DEF ReadBaud
<1>12. CASE SetBaud
  BY <1>12 DEF SetBaud, BaudStages
<1>13. CASE TryTX
  BY <1>1, <1>13 DEF TryTX
<1>14. CASE PollRX
  <2>1. ASSUME NEW sendHi, NEW nakData, PollStages(sendHi, nakData)
        PROVE  /\ hostSt' \in HostStates /\ bus' \in BusStates /\ lastpid' \in Pids /\ air' \in Packets
               /\ out' \in [OutEps -> DataPids]
    BY <1>1, <2>1 DEF PollStages, PollAnswer
  <2> QED
    BY <1>14, <2>1 DEF PollRX
<1>15. CASE TestUnimplEp
  BY <1>15, FirstNegative DEF TestUnimplEp
<1> QED
  BY <1>6, <1>9, <1>10, <1>11, <1>12, <1>13, <1>14, <1>15 DEF Transfer

\* The answers.
LEMMA AnswerType ==
  ASSUME TypeOK, AirTrue, NEW r \in DataPids \cup Handshakes \cup {"silent"}, DeviceAnswers(r)
  PROVE  TypeOK'
<1> USE DEF TypeOK, HostTypeOK, DeviceAnswers
<1>1. dOut' \in [OutEps -> DataPids]
  <2>1. Zero \in OutEps /\ "DATA1" \in DataPids
    BY DEF OutEps, DataPids
  <2>2. air.pid = "OUT" /\ r = "ACK" => air.ep \in OutEps
    BY AirShape DEF Answers, Hears
  <2> QED
    BY <2>1, <2>2, AdvanceType DEF Takes
<1>2. dReq' \in ControlSteps \cup BaudSteps \cup {"none", "ADDRESS"}
  <2>1. air.pid = "SETUP" /\ r = "ACK" => step \in ControlSteps \cup BaudSteps
    BY AirShape DEF AirTrue, Answers, Hears
  <2> QED
    BY <2>1 DEF Serves
<1>3. bus' \in BusStates
  <2>1. \A b \in DOMAIN BusAfter : BusAfter[b] \in BusStates
    BY DEF BusStates
  <2> QED
    BY <2>1 DEF EndOfPacket
<1>4. lastpid' \in Pids /\ recving' \in DataPids \cup Handshakes \cup {"none"}
  BY DEF Collect, Pids
<1>5. dData' \in BOOLEAN /\ heard' \in BOOLEAN
  OBVIOUS
<1>6. air' \in Packets
  BY DEF Packets
<1> QED
  BY <1>1, <1>2, <1>3, <1>4, <1>5, <1>6

\* The state keeps its type.
LEMMA TypeStep == TypeOK /\ Reached /\ AirTrue /\ [Next]_vars => TypeOK'
<1> SUFFICES ASSUME TypeOK, Reached, AirTrue, [Next]_vars PROVE TypeOK'
  OBVIOUS
<1> USE HostAssumption DEF TypeOK, HostTypeOK
<1>1. NoPkt \in Packets /\ FirstData \in [OutEps -> DataPids] /\ "SOF" \in Pids
  BY DEF Packets, FirstData, DataPids, Pids
<1>2. {"STARTFRAME", "NEXTFRAME"} \subseteq HostStates /\ "Idle" \in BusStates /\ "BUS_RESET" \in Steps
  BY DEF HostStates, BusStates, Steps
<1>3. CASE Transfer
  <2>1. TransferTypes
    BY <1>3, TransferType
  <2>2. heard' \in BOOLEAN /\ attempts' \in 0..(MaxTries + 1)
    BY <1>3 DEF Transfer
  <2> QED
    BY <1>3, <2>1, <2>2 DEF Transfer, TransferTypes, devVars
<1>4. CASE FrameEnd
  <2>1. step' \in Steps /\ hostSt' \in HostStates
    BY <1>2, <1>4, SeqNextType DEF FrameEnd, NextStep, Retry
  <2>2. tries' \in 0..(MaxTries - 1) /\ attempts' \in 0..(MaxTries + 1)
    BY <1>4 DEF FrameEnd, NextStep, Retry
  <2>3. failed' \in {"none", "NoResponse", "NoData", "NoTest"}
    BY <1>4 DEF FrameEnd, NextStep, Retry
  <2> QED
    BY <1>1, <1>4, <2>1, <2>2, <2>3 DEF FrameEnd, devVars
<1>5. CASE ResetStep \/ Detach
  <2>1. BusReset /\ DeviceReset /\ UNCHANGED <<lastpid, recving, tries, test, failed, device, asks>> /\ air' \in Packets
    BY <1>1, <1>5 DEF ResetStep, Detach
  <2>2. attempts' \in 0..(MaxTries + 1) /\ detaches' \in 0..MaxDetach
    BY <1>5 DEF ResetStep, Detach
  <2>3. attached' \in BOOLEAN /\ heard' \in BOOLEAN
    BY <1>5 DEF ResetStep, Detach
  <2>4. HostTypeOK'
    BY <1>1, <1>2, <2>1 DEF BusReset
  <2>5. dAddr' \in {0, UsbdevAddress} /\ dOut' \in [OutEps -> DataPids]
        /\ dReq' \in ControlSteps \cup BaudSteps \cup {"none", "ADDRESS"} /\ dData' \in BOOLEAN
    BY <1>1, <2>1 DEF DeviceReset
  <2> QED
    BY <2>1, <2>2, <2>3, <2>4, <2>5
<1>6. CASE Attach \/ DeviceSetsAddress
  BY <1>6 DEF Attach, DeviceSetsAddress, hostVars
<1>7. CASE UNCHANGED vars
  BY <1>7 DEF vars, hostVars, devVars
<1> QED
  BY <1>3, <1>4, <1>5, <1>6, <1>7, AnswerType DEF Next

-----------------------------------------------------------------------------
(* What is on the air.                                                     *)

\* What a transfer sends is what its stage allows.
LEMMA AirTransfer == ASSUME TypeOK, Reached, Transfer PROVE AirTrue'
<1> USE HostPackets, StepKinds DEF TypeOK, HostTypeOK, Transfer, HostReady, AirTrue, At, Sends, Goes, GivesUp
<1>0. Zero \in OutEps /\ Serial \in OutEps /\ Isoch \in OutEps /\ Zero # Unimpl
      /\ \A e \in OutEps : out[e] \in DataPids /\ "DATA1" \in DataPids
  BY DEF OutEps, DataPids, Zero, Unimpl
<1>1. CASE SetDeviceConfiguration \/ SetDeviceAddress
  BY <1>0, <1>1 DEF SetDeviceConfiguration, SetDeviceAddress, NoDataTransfer, ControlSteps, SetSteps
<1>2. CASE GetDescriptor
  BY <1>0, <1>2 DEF GetDescriptor, ReadStages, DataOfDescriptor, StatusStage, TakesData, Fails, ControlSteps
<1>3. CASE GetTestConfig
  BY <1>0, <1>3 DEF GetTestConfig, ReadStages, DataOfTest, StatusStage, TakesData, Fails, ControlSteps, ReadSteps
<1>4. CASE ReadBaud \/ SetBaud
  BY <1>0, <1>4 DEF ReadBaud, SetBaud, BaudStages, BaudSteps
<1>5. CASE TryTX \/ TestUnimplEp
  BY <1>0, <1>5, FirstNegative DEF TryTX, TestUnimplEp, IsoSteps, NegativeSteps, ControlSteps, ReadSteps, SetSteps
<1>6. CASE PollRX
  BY <1>0, <1>6 DEF PollRX, PollStages, PollAnswer
<1> QED
  BY <1>1, <1>2, <1>3, <1>4, <1>5, <1>6

\* What is on the air is what the host has sent at this stage.
LEMMA AirStep == TypeOK /\ Reached /\ AirTrue /\ [Next]_vars => AirTrue'
<1> SUFFICES ASSUME TypeOK, Reached, AirTrue, [Next]_vars PROVE AirTrue'
  OBVIOUS
<1>1. CASE FrameEnd \/ ResetStep \/ Detach
  BY <1>1 DEF FrameEnd, ResetStep, Detach, HostReady, AirTrue
<1>2. ASSUME NEW r, DeviceAnswers(r) PROVE AirTrue'
  BY <1>2 DEF DeviceAnswers, AirTrue
<1>3. CASE Attach \/ DeviceSetsAddress \/ UNCHANGED vars
  BY <1>3 DEF Attach, DeviceSetsAddress, vars, hostVars, AirTrue, At
<1> QED
  BY <1>1, <1>2, <1>3, AirTransfer DEF Next

-----------------------------------------------------------------------------
(* The answer to the SETUP packet.                                         *)

\* A transfer goes beyond SETUP only on the device's handshake.
LEMMA AnsweredTransfer == ASSUME TypeOK, Reached, AirTrue, Answered, Transfer PROVE Answered'
<1> USE HostPackets, StepKinds DEF TypeOK, HostTypeOK, Transfer, HostReady, At, Sends, Goes, GivesUp, PastSetup,
        Answered
<1>0. Zero \in OutEps
  BY DEF OutEps
<1>1. CASE step \in SetSteps
  BY <1>0, <1>1 DEF SetDeviceConfiguration, SetDeviceAddress, NoDataTransfer, SetupSeen, GetDescriptor,
     GetTestConfig, ReadBaud, SetBaud, TryTX, TestUnimplEp, PollRX, ControlSteps, SetSteps, NegativeSteps
<1>2. CASE step \in ReadSteps
  <2>1. ReadStages \/ DataOfDescriptor \/ DataOfTest \/ StatusStage
    BY <1>2 DEF SetDeviceConfiguration, SetDeviceAddress, GetDescriptor,
       GetTestConfig, ReadBaud, SetBaud, TryTX, TestUnimplEp, PollRX, ControlSteps, SetSteps, ReadSteps,
       NegativeSteps
  <2>2. CASE ReadStages
    BY <1>0, <1>2, <2>2 DEF ReadStages, SetupSeen, ControlSteps
  <2>3. CASE DataOfDescriptor \/ DataOfTest \/ StatusStage
    BY <1>2, <2>3 DEF DataOfDescriptor, DataOfTest, StatusStage, TakesData, Fails, ControlSteps
  <2> QED
    BY <2>1, <2>2, <2>3
<1> QED
  BY <1>1, <1>2 DEF ControlSteps

\* The device acknowledges a SETUP packet only if it has heard it.
LEMMA AnsweredAnswer ==
  ASSUME TypeOK, AirTrue, Answered, NEW r \in DataPids \cup Handshakes \cup {"silent"}, DeviceAnswers(r)
  PROVE  Answered'
<1> SUFFICES ASSUME step \in ControlSteps
             PROVE  /\ At("WAITACK") /\ bus' = "ControlSetupAck" => heard'
                    /\ (At("REQDATA") \/ At("SET_DATASTAGE")) /\ bus' = "ControlSetupAck" => heard'
                    /\ hostSt \in PastSetup => heard'
  BY DEF Answered, DeviceAnswers, At
<1>1. heard => heard'
  BY DEF DeviceAnswers
<1>2. CASE At("WAITACK")
  <2>1. air.pid = "SETUP" /\ bus = "ControlSetup"
    BY <1>2 DEF AirTrue, DeviceAnswers
  <2>2. r \in {"ACK", "silent"}
    BY <2>1 DEF DeviceAnswers, Answers, Hears
  <2> QED
    BY <1>1, <1>2, <2>1, <2>2 DEF DeviceAnswers, At, PastSetup
<1>3. CASE ~At("WAITACK")
  BY <1>1, <1>3 DEF Answered, AirTrue, DeviceAnswers
<1> QED
  BY <1>2, <1>3

\* What the host has seen answered, the device has heard.
LEMMA AnsweredStep == TypeOK /\ Reached /\ AirTrue /\ Answered /\ [Next]_vars => Answered'
<1> SUFFICES ASSUME TypeOK, Reached, AirTrue, Answered, [Next]_vars PROVE Answered'
  OBVIOUS
<1>1. CASE FrameEnd
  BY <1>1 DEF FrameEnd, NextStep, Retry, HostReady, Answered, At, PastSetup, TypeOK, HostTypeOK
<1>2. CASE ResetStep \/ Detach
  BY <1>2, StepKinds DEF ResetStep, Detach, BusReset, Answered
<1>3. CASE Attach \/ DeviceSetsAddress \/ UNCHANGED vars
  BY <1>3 DEF Attach, DeviceSetsAddress, vars, hostVars, Answered, At
<1> QED
  BY <1>1, <1>2, <1>3, AnsweredTransfer, AnsweredAnswer DEF Next

-----------------------------------------------------------------------------
(* The attempts, the toggle of the serial endpoint and the address.        *)

\* A transfer begins at STARTFRAME and does not return to it.
LEMMA TransferLeavesStart ==
  ASSUME Transfer, TypeOK
  PROVE  hostSt' # "STARTFRAME" \/ (failed' # "none" /\ ~At("STARTFRAME"))
<1> USE DEF At, Sends, Goes, GivesUp, Transfer
<1>1. \A a : NoDataTransfer(a) => hostSt' # "STARTFRAME"
  BY DEF NoDataTransfer
<1>2. ReadStages \/ StatusStage => hostSt' # "STARTFRAME"
  BY DEF ReadStages, StatusStage
<1>3. DataOfDescriptor \/ DataOfTest => hostSt' # "STARTFRAME" \/ (failed' # "none" /\ ~At("STARTFRAME"))
  BY DEF DataOfDescriptor, DataOfTest, TakesData, Fails
<1>4. BaudStages => hostSt' # "STARTFRAME"
  BY DEF BaudStages
<1> QED
  BY <1>1, <1>2, <1>3, <1>4 DEF SetDeviceConfiguration, SetDeviceAddress, GetDescriptor, GetTestConfig,
     ReadBaud, SetBaud, TryTX, PollRX, PollStages, PollAnswer, TestUnimplEp

\* No transfer belongs to the step BUS_RESET, and none fails for want of an answer.
LEMMA TransferKind ==
  ASSUME Transfer
  PROVE  step # "BUS_RESET" /\ step' = step /\ (failed' = "none" \/ failed' \in {"NoData", "NoTest"})
<1>1. failed' = "none" \/ failed' \in {"NoData", "NoTest"}
  BY DEF Transfer, HostReady, SetDeviceConfiguration, SetDeviceAddress, GetDescriptor, GetTestConfig,
     ReadBaud, SetBaud, TryTX, PollRX, TestUnimplEp, ReadStages, StatusStage, DataOfDescriptor, DataOfTest,
     Fails, Rest
<1>2. step # "BUS_RESET"
  BY DEF Transfer, SetDeviceConfiguration, SetDeviceAddress, GetDescriptor, GetTestConfig,
     ReadBaud, SetBaud, TryTX, PollRX, TestUnimplEp, ReadSteps, PollSteps, IsoSteps,
     NegativeSteps
<1> QED
  BY <1>1, <1>2 DEF Transfer

\* The host counts an attempt when it starts over, so that it is one behind meanwhile.
LEMMA CountedStep == TypeOK /\ Reached /\ Counted /\ [Next]_vars => Counted'
<1> SUFFICES ASSUME TypeOK, Reached, Counted, [Next]_vars PROVE Counted'
  OBVIOUS
<1> USE HostAssumption DEF TypeOK, HostTypeOK, Counted, At
<1>1. CASE Transfer
  <2>1. tries' = tries /\ attempts' = IF At("STARTFRAME") /\ attempts <= MaxTries THEN attempts + 1 ELSE attempts
    BY <1>1 DEF Transfer
  <2>2. failed = "none"
    BY <1>1 DEF Transfer, HostReady
  <2> QED
    BY <1>1, <2>1, <2>2, TransferKind, TransferLeavesStart
<1>2. CASE FrameEnd
  BY <1>2, StepKinds DEF FrameEnd, HostReady, NextStep, Retry, Stuck, Reached, ReadSteps, SetSteps
<1>3. CASE ResetStep \/ Detach
  BY <1>3 DEF ResetStep, Detach, HostReady, BusReset
<1>4. ASSUME NEW r, DeviceAnswers(r) PROVE Counted'
  BY <1>4 DEF DeviceAnswers
<1>5. CASE Attach \/ DeviceSetsAddress \/ UNCHANGED vars
  BY <1>5 DEF Attach, DeviceSetsAddress, vars, hostVars
<1> QED
  BY <1>1, <1>2, <1>3, <1>4, <1>5 DEF Next

\* Only a poll advances the toggle of the serial endpoint.
LEMMA SerialTransfer == ASSUME TypeOK, Reached, SerialTrue, Transfer PROVE SerialTrue'
<1> USE HostPackets, StepKinds DEF TypeOK, HostTypeOK, Transfer, HostReady, At, Sends, Goes, GivesUp, SerialTrue,
        Rest, Acknowledged
<1>0. /\ Zero \in OutEps /\ Serial \in OutEps /\ Isoch \in OutEps /\ Zero # Serial /\ Isoch # Serial
      /\ \A e \in OutEps : out[e] \in DataPids /\ dOut[e] \in DataPids /\ "DATA1" \in DataPids
      /\ dOut' = dOut
  BY DEF OutEps, DataPids, Zero, Serial, Isoch, devVars
<1>1. CASE SetDeviceConfiguration \/ SetDeviceAddress
  BY <1>0, <1>1 DEF SetDeviceConfiguration, SetDeviceAddress, NoDataTransfer, ControlSteps, SetSteps
<1>2. CASE GetDescriptor \/ GetTestConfig
  <2>1. step \in ControlSteps /\ step' = step
    BY <1>2 DEF GetDescriptor, GetTestConfig, ControlSteps, ReadSteps
  <2>2. out'[Serial] = out[Serial] /\ (air' # NoPkt /\ air'.pid = "OUT" => air'.ep # Serial)
    BY <1>0, <1>2 DEF GetDescriptor, GetTestConfig, ReadStages, DataOfDescriptor, DataOfTest, StatusStage,
       TakesData, Fails
  <2> QED
    BY <1>0, <2>1, <2>2
<1>3. CASE ReadBaud \/ SetBaud
  <2>1. step \in BaudSteps /\ step' = step
    BY <1>3 DEF ReadBaud, SetBaud, BaudSteps
  <2>2. out'[Serial] = out[Serial] /\ (air' # NoPkt /\ air'.pid = "OUT" => air'.ep # Serial)
    BY <1>0, <1>3 DEF ReadBaud, SetBaud, BaudStages
  <2> QED
    BY <1>0, <2>1, <2>2
<1>4. CASE TryTX \/ TestUnimplEp
  BY <1>0, <1>4, FirstNegative DEF TryTX, TestUnimplEp, IsoSteps, NegativeSteps, PollSteps
<1>5. CASE PollRX
  BY <1>0, <1>5 DEF PollRX, PollStages, PollAnswer
<1> QED
  BY <1>1, <1>2, <1>3, <1>4, <1>5

\* The device advances its toggle when it takes a packet with the expected one.
LEMMA SerialAnswer ==
  ASSUME TypeOK, SerialTrue, NEW r \in DataPids \cup Handshakes \cup {"silent"}, DeviceAnswers(r)
  PROVE  SerialTrue'
<1> USE DEF TypeOK, HostTypeOK, At
<1>1. /\ step' = step /\ hostSt' = hostSt /\ out' = out /\ air' = NoPkt /\ air # NoPkt
      /\ Takes(air, r)
  BY DEF DeviceAnswers
<1>2. /\ out[Serial] \in DataPids /\ Zero # Serial /\ Serial \in OutEps /\ Zero \in OutEps
  BY DEF OutEps, Zero, Serial
<1>3. CASE step \in PollSteps /\ At("WAITACK")
  <2>1. air.pid = "OUT" /\ air.data = out[Serial] /\ out[Serial] = dOut[Serial] /\ lastpid # "ACK"
    BY <1>1, <1>3 DEF SerialTrue, DataPids
  <2>2. CASE r = "ACK"
    <3>1. Hears(air) /\ air.ep \in OutEps /\ air.ep # Isoch
      BY <2>1, <2>2, AirShape DEF DeviceAnswers, Answers, Hears
    <3>2. air.ep = Serial
      BY <1>1, <1>3 DEF SerialTrue
    <3>3. dOut' = [dOut EXCEPT ![Serial] = Advance(@)]
      BY <1>1, <2>1, <2>2, <3>2 DEF Takes
    <3> QED
      BY <1>1, <1>2, <1>3, <2>1, <2>2, <3>3 DEF SerialTrue, DeviceAnswers, Collect
  <2>3. CASE r # "ACK"
    <3>1. dOut' = dOut
      BY <1>1, <2>1, <2>3 DEF Takes
    <3> QED
      BY <1>1, <1>3, <2>1, <2>3, <3>1 DEF SerialTrue, DeviceAnswers, Collect
  <2> QED
    BY <2>2, <2>3
<1>4. CASE ~(step \in PollSteps /\ At("WAITACK"))
  <2>1. out[Serial] = dOut[Serial] /\ (air.pid = "OUT" => air.ep # Serial)
    BY <1>1, <1>4 DEF SerialTrue
  <2>2. dOut'[Serial] = dOut[Serial]
    BY <1>1, <1>2, <2>1 DEF Takes
  <2> QED
    BY <1>1, <1>4, <2>1, <2>2 DEF SerialTrue
<1> QED
  BY <1>3, <1>4

\* The toggles agree, or the packet between them tells why not.
LEMMA SerialStep == TypeOK /\ Reached /\ SerialTrue /\ [Next]_vars => SerialTrue'
<1> SUFFICES ASSUME TypeOK, Reached, SerialTrue, [Next]_vars PROVE SerialTrue'
  OBVIOUS
<1>1. CASE FrameEnd
  <2>1. ~(step \in PollSteps /\ At("WAITACK")) /\ ~(step' \in PollSteps /\ At("WAITACK")')
    BY <1>1, StepKinds DEF FrameEnd, NextStep, Retry, Stuck, At, ControlSteps, Reached
  <2> QED
    BY <1>1, <2>1 DEF FrameEnd, devVars, SerialTrue
<1>2. CASE ResetStep \/ Detach
  BY <1>2, StepKinds DEF ResetStep, Detach, HostReady, BusReset, DeviceReset, SerialTrue
<1>3. CASE Attach \/ DeviceSetsAddress \/ UNCHANGED vars
  BY <1>3 DEF Attach, DeviceSetsAddress, vars, hostVars, devVars, SerialTrue, At
<1> QED
  BY <1>1, <1>2, <1>3, SerialTransfer, SerialAnswer DEF Next

\* The host uses address 0 until SET_ADDRESS is complete.
LEMMA AddressFirstStep == TypeOK /\ Reached /\ AddressFirst /\ [Next]_vars => AddressFirst'
<1> SUFFICES ASSUME TypeOK, Reached, AddressFirst, [Next]_vars PROVE AddressFirst'
  OBVIOUS
<1> USE DEF AddressFirst, At
<1>1. CASE Transfer
  <2>1. step' = step /\ step # "BUS_RESET"
    BY <1>1, TransferKind
  <2>2. CASE SetDeviceAddress
    BY <2>1, <2>2 DEF SetDeviceAddress, NoDataTransfer, At, Goes, Sends
  <2>3. CASE ~SetDeviceAddress
    <3>1. addr' = addr /\ step # "SET_DEVICE_ADDRESS"
      BY <1>1, <2>3 DEF Transfer, SetDeviceConfiguration, GetDescriptor, GetTestConfig, ReadStages,
         StatusStage, DataOfDescriptor, DataOfTest, ReadBaud, SetBaud, TryTX, TestUnimplEp, PollRX, Rest,
         ReadSteps, IsoSteps, PollSteps, NegativeSteps
    <3> QED
      BY <2>1, <3>1
  <2> QED
    BY <2>2, <2>3
<1>2. CASE FrameEnd
  <2>1. CASE NextStep
    <3>1. step \in Steps \ {"STREAM_SERVICE"} /\ step' = SeqNext(step) /\ hostSt = "NEXTFRAME"
      BY <1>2, <2>1 DEF FrameEnd, NextStep, TypeOK, HostTypeOK
    <3> QED
      BY <1>2, <2>1, <3>1, SeqBegins DEF FrameEnd, NextStep
  <2>2. CASE Retry
    BY <1>2, <2>2, StepKinds DEF FrameEnd, Retry, Stuck, Reached
  <2> QED
    BY <1>2, <2>1, <2>2 DEF FrameEnd
<1>3. CASE ResetStep \/ Detach
  BY <1>3 DEF ResetStep, Detach, BusReset
<1>4. ASSUME NEW r, DeviceAnswers(r) PROVE AddressFirst'
  BY <1>4 DEF DeviceAnswers
<1>5. CASE Attach \/ DeviceSetsAddress \/ UNCHANGED vars
  BY <1>5 DEF Attach, DeviceSetsAddress, vars, hostVars
<1> QED
  BY <1>1, <1>2, <1>3, <1>4, <1>5 DEF Next

-----------------------------------------------------------------------------
(* A prompt device.                                                        *)

\* Until the end of SET_ADDRESS, and again in the frames that follow, host and device
\* have the same address.
LEMMA SameAddress ==
  ASSUME PromptAddress, AddressFirst, ~At("NEXTFRAME")
  PROVE  addr = dAddr /\ dReq # "ADDRESS"
BY DEF PromptAddress, AddressFirst

\* What it answers to the packets of a control transfer.
LEMMA PromptAnswers ==
  ASSUME device = "prompt", dAddr \in {0, UsbdevAddress}
  PROVE  /\ air = Token("SETUP", dAddr, Zero, "DATA0") => air.pid = "SETUP" /\ Answers(air) = {"ACK"}
         /\ air = In(dAddr, Zero) => air.pid = "IN" /\ (dReq \notin BaudSteps => Answers(air) = {"DATA1"})
         /\ air = Token("OUT", dAddr, Zero, "DATA1") => air.pid = "OUT" /\ Answers(air) = {"ACK"}
<1>1. Zero \in OutEps \cup {Unimpl} /\ Zero # Unimpl /\ Zero # Isoch /\ Zero # Serial
  BY DEF OutEps, Zero, Unimpl, Isoch, Serial
<1>2. Refusals = {}
  BY DEF Refusals
<1>3. ASSUME air = Token("SETUP", dAddr, Zero, "DATA0")
      PROVE  air.pid = "SETUP" /\ Answers(air) = {"ACK"}
  <2>1. "addr" \in DOMAIN air /\ air.pid = "SETUP" /\ air.addr = dAddr /\ air.ep = Zero
    BY <1>1, <1>3, TokenShape DEF DataPids
  <2> QED
    BY <1>1, <1>2, <2>1 DEF Answers, Hears
<1>4. ASSUME air = In(dAddr, Zero)
      PROVE  air.pid = "IN" /\ (dReq \notin BaudSteps => Answers(air) = {"DATA1"})
  <2>1. "addr" \in DOMAIN air /\ air.pid = "IN" /\ air.addr = dAddr /\ air.ep = Zero
    BY <1>1, <1>4, TokenShape DEF In
  <2>2. dReq \notin BaudSteps => AnswersToIn(Zero) = {"DATA1"}
    BY DEF AnswersToIn, Zero, Serial, Isoch
  <2> QED
    BY <1>1, <1>2, <2>1, <2>2 DEF Answers, Hears
<1>5. ASSUME air = Token("OUT", dAddr, Zero, "DATA1")
      PROVE  air.pid = "OUT" /\ Answers(air) = {"ACK"}
  <2>1. "addr" \in DOMAIN air /\ air.pid = "OUT" /\ air.addr = dAddr /\ air.ep = Zero
    BY <1>1, <1>5, TokenShape DEF DataPids
  <2> QED
    BY <1>1, <1>2, <2>1 DEF Answers, Hears
<1> QED
  BY <1>3, <1>4, <1>5

\* The transfers of the enumeration.
LEMMA PromptTransferStep ==
  ASSUME TypeOK, AddressFirst, PromptAddress, PromptTransfer, asks \in Supported, Transfer
  PROVE  failed' = "none" /\ PromptAddress' /\ PromptTransfer'
<1> USE DEF At
<1>1. /\ step' = step /\ air = NoPkt /\ failed = "none" /\ asks \in Supported
      /\ dReq' = dReq /\ dAddr' = dAddr /\ dData' = dData /\ recving' = recving
  BY DEF Transfer, HostReady, devVars
<1>2. CASE step \in SetSteps
  <2>1. (step = "SET_DEVICE_CONFIG" /\ NoDataTransfer(addr) /\ addr' = addr)
        \/ (step = "SET_DEVICE_ADDRESS" /\ NoDataTransfer(0) /\ addr' = IF At("DS_SENDACK") THEN UsbdevAddress ELSE addr)
    BY <1>2 DEF Transfer, SetDeviceConfiguration, SetDeviceAddress, GetDescriptor, GetTestConfig, ReadBaud,
       SetBaud, TryTX, TestUnimplEp, PollRX, SetSteps, ReadSteps, BaudSteps, IsoSteps, PollSteps,
       NegativeSteps, Rest
  <2>2. failed' = "none"
    BY <1>1, <1>2 DEF Transfer, SetDeviceConfiguration, SetDeviceAddress, GetDescriptor, GetTestConfig, ReadBaud,
       SetBaud, TryTX, TestUnimplEp, PollRX, SetSteps, ReadSteps, BaudSteps, IsoSteps, PollSteps,
       NegativeSteps, Rest
  <2>3. ~At("NEXTFRAME") => addr = dAddr
    BY SameAddress
  <2>4. step \in ControlSteps
    BY <1>2 DEF ControlSteps
  <2>5. PromptAddress'
    BY <1>1, <2>1, <2>4 DEF PromptAddress, PromptTransfer, AddressFirst, NoDataTransfer, Sends, Goes
  <2>6. PromptTransfer'
    <3>1. CASE At("STARTFRAME")
      BY <1>1, <2>1, <2>4, <3>1 DEF PromptTransfer, NoDataTransfer, Sends, Goes, Setup
    <3>2. CASE At("WAITACK")
      BY <1>1, <2>1, <2>4, <3>2, HostPackets DEF PromptTransfer, NoDataTransfer, Sends, Goes, TypeOK, HostTypeOK
    <3>3. CASE At("SET_DATASTAGE")
      BY <1>1, <2>1, <2>3, <2>4, <3>3 DEF PromptAddress, PromptTransfer, NoDataTransfer, Sends, Goes
    <3>4. CASE At("DS_RXDATA") \/ At("DS_SENDACK")
      <4>1. In(dAddr, Zero) # NoPkt
        BY TokenShape DEF In, TypeOK, OutEps, Zero
      <4> QED
        BY <1>1, <2>1, <2>4, <3>4, <4>1 DEF PromptTransfer, NoDataTransfer, Sends, Goes
    <3> QED
      BY <2>1, <3>1, <3>2, <3>3, <3>4 DEF NoDataTransfer
  <2> QED
    BY <2>2, <2>5, <2>6
<1>3. CASE step \in ReadSteps
  <2>1. ReadStages \/ StatusStage \/ (DataOfDescriptor /\ step # "GET_TEST_CONFIG") \/ DataOfTest
    BY <1>3 DEF Transfer, SetDeviceConfiguration, SetDeviceAddress, GetDescriptor, GetTestConfig, ReadBaud,
       SetBaud, TryTX, TestUnimplEp, PollRX, SetSteps, ReadSteps, BaudSteps, IsoSteps, PollSteps,
       NegativeSteps
  <2>2. addr' = addr /\ step # "SET_DEVICE_ADDRESS" /\ step \in ControlSteps
    BY <1>3, <2>1 DEF ReadStages, StatusStage, DataOfDescriptor, DataOfTest, Rest, ReadSteps, ControlSteps
  <2>3. PromptAddress'
    BY <1>1, <2>2 DEF PromptAddress
  <2>4. ~At("NEXTFRAME") => addr = dAddr
    BY SameAddress
  <2>5. failed' = "none"
    BY <1>1, <2>1, <2>2 DEF ReadStages, StatusStage, DataOfDescriptor, DataOfTest, TakesData, Rest, PromptTransfer,
       DataPids
  <2>6. PromptTransfer'
    <3>1. CASE ReadStages
      <4>1. CASE At("STARTFRAME") \/ At("EMPTYDATA") \/ At("WAIT_PKT")
        BY <1>1, <2>2, <2>4, <3>1, <4>1 DEF ReadStages, PromptTransfer, Sends, Goes, Setup, Out
      <4>2. CASE At("WAITACK")
        BY <1>1, <2>2, <3>1, <4>2, HostPackets DEF ReadStages, PromptTransfer, Sends, Goes, TypeOK, HostTypeOK
      <4>3. CASE At("REQDATA")
        BY <1>1, <2>2, <2>4, <3>1, <4>3 DEF ReadStages, PromptTransfer, Sends, Goes
      <4>4. CASE At("SENDACK")
        BY <2>2, <3>1, <4>4 DEF ReadStages, PromptTransfer, GivesUp
      <4>5. CASE At("WAITDATA")
        <5>1. In(dAddr, Zero) # NoPkt
          BY TokenShape DEF In, TypeOK, OutEps, Zero
        <5> QED
          BY <1>1, <2>2, <3>1, <4>5, <5>1 DEF ReadStages, PromptTransfer, Goes
      <4> QED
        BY <3>1, <4>1, <4>2, <4>3, <4>4, <4>5 DEF ReadStages
    <3>2. CASE StatusStage \/ DataOfDescriptor \/ DataOfTest
      BY <1>1, <2>2, <2>5, <3>2 DEF StatusStage, DataOfDescriptor, DataOfTest, TakesData, Fails, PromptTransfer, Sends,
         Goes
    <3> QED
      BY <2>1, <3>1, <3>2
  <2> QED
    BY <2>3, <2>5, <2>6
<1>4. CASE step \notin ControlSteps
  <2>1. addr' = addr /\ failed' = failed
    BY <1>4 DEF Transfer, SetDeviceConfiguration, SetDeviceAddress, GetDescriptor, GetTestConfig, ReadBaud,
       SetBaud, TryTX, TestUnimplEp, PollRX, SetSteps, ReadSteps, ControlSteps, Rest
  <2> QED
    BY <1>1, <1>4, <2>1 DEF PromptAddress, PromptTransfer, ControlSteps, SetSteps
<1> QED
  BY <1>2, <1>3, <1>4 DEF ControlSteps

\* Its answers.
LEMMA PromptAnswerStep ==
  ASSUME TypeOK, AirTrue, AddressFirst, PromptAddress, PromptTransfer, device = "prompt",
         NEW r \in DataPids \cup Handshakes \cup {"silent"}, DeviceAnswers(r)
  PROVE  PromptAddress' /\ PromptTransfer'
<1> USE DEF At
<1>1. /\ step' = step /\ hostSt' = hostSt /\ addr' = addr /\ dAddr' = dAddr /\ air' = NoPkt /\ air # NoPkt
      /\ r \in Answers(air) /\ dAddr \in {0, UsbdevAddress} /\ Serves(air, r)
      /\ dData' = (air.pid = "IN" /\ r \in DataPids)
  BY DEF DeviceAnswers, TypeOK
<1>2. dReq # "ADDRESS" /\ step # "ADDRESS"
  BY <1>1 DEF PromptAddress, TypeOK, HostTypeOK, Steps, ControlSteps, ReadSteps, SetSteps, BaudSteps, PollSteps,
     IsoSteps, NegativeSteps, IdleSteps
<1>3. ~At("NEXTFRAME") => addr = dAddr
  BY SameAddress
<1>4. Setup(Zero).pid = "SETUP" /\ In(dAddr, Zero).pid = "IN" /\ Handshake("ACK").pid = "ACK"
  <2>1. Zero \in OutEps \cup {Unimpl} /\ addr \in {0, UsbdevAddress}
    BY DEF OutEps, TypeOK, HostTypeOK
  <2> QED
    BY <1>1, <2>1, TokenShape, HandshakeShape DEF Setup, In, DataPids
<1>5. PromptAddress'
  <2>1. CASE air.pid = "SETUP" /\ r = "ACK"
    <3>1. dReq' = step /\ At("WAITACK")
      BY <1>1, <2>1 DEF Serves, AirTrue
    <3> QED
      BY <1>1, <1>2, <1>3, <3>1 DEF PromptAddress
  <2>2. CASE air.pid = "ACK" /\ dData /\ dReq = "SET_DEVICE_ADDRESS"
    <3>1. step = "SET_DEVICE_ADDRESS" /\ step \in ControlSteps
      BY <2>2 DEF PromptAddress, ControlSteps, SetSteps
    <3>2. At("NEXTFRAME") /\ addr = UsbdevAddress
      BY <1>1, <1>4, <2>2, <3>1 DEF PromptAddress, PromptTransfer
    <3>3. dReq' = "ADDRESS"
      BY <1>1, <2>2 DEF Serves
    <3> QED
      BY <1>1, <3>1, <3>2, <3>3 DEF PromptAddress
  <2>3. CASE /\ ~(air.pid = "SETUP" /\ r = "ACK")
             /\ ~(air.pid = "ACK" /\ dData /\ dReq = "SET_DEVICE_ADDRESS")
    <3>1. dReq' = dReq
      BY <1>1, <2>3 DEF Serves
    <3> QED
      BY <1>1, <1>2, <1>4, <2>3, <3>1 DEF PromptAddress
  <2> QED
    BY <2>1, <2>2, <2>3
<1>6. PromptTransfer'
  <2> SUFFICES ASSUME step \in ControlSteps PROVE PromptTransfer'
    BY <1>1 DEF PromptTransfer
  <2>1. step \notin BaudSteps
    BY StepKinds
  <2>2. r # "silent" => EndOfPacket /\ lastpid' = r /\ recving' = r
    BY DEF DeviceAnswers, Collect
  <2>3. CASE At("WAITACK")
    <3>1. air = Token("SETUP", dAddr, Zero, "DATA0") /\ bus = "ControlSetup"
      BY <1>1, <1>3, <2>3 DEF PromptTransfer, Setup
    <3>2. r = "ACK" /\ dReq' = step
      BY <1>1, <3>1, PromptAnswers DEF Serves
    <3> QED
      BY <1>1, <2>2, <2>3, <3>1, <3>2, BusShape DEF PromptTransfer, EndOfPacket
  <2>4. CASE At("DS_RXDATA")
    <3>1. air = In(dAddr, Zero) /\ dReq = step
      BY <1>1, <2>4 DEF PromptTransfer
    <3>2. r = "DATA1" /\ air.pid = "IN"
      BY <1>1, <2>1, <3>1, PromptAnswers
    <3>3. dData' /\ dReq' = step
      BY <1>1, <3>1, <3>2 DEF Serves, DataPids
    <3> QED
      BY <1>1, <2>4, <3>3 DEF PromptTransfer
  <2>5. CASE At("WAITDATA")
    <3>1. air = In(dAddr, Zero) /\ bus = "ControlDataInToken" /\ dReq = step
      BY <1>1, <2>5 DEF PromptTransfer
    <3>2. r = "DATA1"
      BY <1>1, <2>1, <3>1, PromptAnswers
    <3> QED
      BY <1>1, <2>2, <2>5, <3>1, <3>2, BusShape DEF PromptTransfer, EndOfPacket
  <2>6. CASE At("WAITACK2")
    <3>1. air = Token("OUT", dAddr, Zero, "DATA1") /\ bus = "ControlStatusOut"
      BY <1>1, <2>6 DEF PromptTransfer
    <3>2. r = "ACK"
      BY <1>1, <3>1, PromptAnswers
    <3> QED
      BY <1>1, <2>2, <2>6, <3>1, <3>2, BusShape DEF PromptTransfer, EndOfPacket
  <2>7. CASE hostSt \notin {"WAITACK", "DS_RXDATA", "WAITDATA", "WAITACK2"}
    BY <1>1, <2>7 DEF PromptTransfer
  <2> QED
    BY <2>3, <2>4, <2>5, <2>6, <2>7
<1> QED
  BY <1>5, <1>6

\* The frames, in none of which a transfer is stuck.
LEMMA PromptFrame ==
  ASSUME TypeOK, Reached, AddressFirst, PromptAddress, PromptTransfer, device = "prompt", FrameEnd
  PROVE  failed' = "none" /\ PromptAddress' /\ PromptTransfer'
<1> USE DEF At
<1>1. ~Stuck
  BY StepKinds DEF Stuck, Reached, PromptTransfer, SetupSeen, ControlSteps, FrameEnd, HostReady
<1>2. NextStep /\ failed = "none" /\ air = NoPkt /\ dReq # "ADDRESS"
  BY <1>1 DEF FrameEnd, Retry, HostReady, DeviceKeepsUp
<1>3. dReq # "SET_DEVICE_ADDRESS"
  BY <1>2, HandshakeShape DEF PromptAddress, NextStep
<1>4. addr = dAddr /\ (step' = "SET_DEVICE_ADDRESS" => addr = 0)
  <2>1. step \in Steps \ {"STREAM_SERVICE"}
    BY DEF FrameEnd, TypeOK, HostTypeOK
  <2> QED
    BY <1>2, <1>3, <2>1, SeqBegins DEF PromptAddress, NextStep, AddressFirst
<1> QED
  BY <1>2, <1>3, <1>4 DEF FrameEnd, NextStep, PromptAddress, PromptTransfer, devVars

\* A device that answers in time leaves nothing to the host's assertions.
LEMMA PromptStep == TypeOK /\ Reached /\ AirTrue /\ AddressFirst /\ PromptTrue /\ [Next]_vars => PromptTrue'
<1> SUFFICES ASSUME TypeOK, Reached, AirTrue, AddressFirst, PromptTrue, [Next]_vars,
                    device' = "prompt", asks' \in Supported
             PROVE  failed' = "none" /\ PromptAddress' /\ PromptTransfer'
  BY DEF PromptTrue
<1>1. device' = device /\ asks' = asks
  BY DEF Next, Transfer, FrameEnd, ResetStep, Attach, Detach, DeviceAnswers, DeviceSetsAddress, vars, devVars
<1>2. device = "prompt" /\ asks \in Supported /\ failed = "none" /\ PromptAddress /\ PromptTransfer
  BY <1>1 DEF PromptTrue
<1>3. CASE ResetStep \/ Detach
  BY <1>2, <1>3, StepKinds DEF ResetStep, Detach, BusReset, DeviceReset, PromptAddress, PromptTransfer
<1>4. CASE DeviceSetsAddress
  BY <1>2, <1>4, HandshakeShape DEF DeviceSetsAddress, hostVars, PromptAddress, PromptTransfer, At
<1>5. CASE Attach \/ UNCHANGED vars
  BY <1>2, <1>5 DEF Attach, vars, hostVars, devVars, PromptAddress, PromptTransfer, At, Setup
<1>6. ASSUME NEW r \in DataPids \cup Handshakes \cup {"silent"}, DeviceAnswers(r)
      PROVE  failed' = "none" /\ PromptAddress' /\ PromptTransfer'
  BY <1>2, <1>6, PromptAnswerStep DEF DeviceAnswers
<1> QED
  BY <1>2, <1>3, <1>4, <1>5, <1>6, PromptTransferStep, PromptFrame DEF Next

-----------------------------------------------------------------------------
(* The theorems.                                                           *)

\* The host begins with nothing sent.
LEMMA InitInv == Init => IInv
<1> SUFFICES ASSUME Init PROVE IInv
  OBVIOUS
<1> USE HostAssumption DEF Init
<1>1. NoPkt \in Packets /\ FirstData \in [OutEps -> DataPids] /\ "none" \in Pids
  BY DEF Packets, FirstData, DataPids, Pids
<1>2. "NEXTFRAME" \in HostStates /\ "Idle" \in BusStates /\ "BUS_RESET" \in Steps
  BY DEF HostStates, BusStates, Steps
<1>3. HostTypeOK
  BY <1>1, <1>2 DEF HostTypeOK
<1>4. attached \in BOOLEAN /\ dData \in BOOLEAN /\ heard \in BOOLEAN
  OBVIOUS
<1>5. TypeOK
  BY <1>1, <1>3, <1>4 DEF TypeOK
<1>6. Reached /\ AirTrue /\ Answered /\ SerialTrue
  BY StepKinds DEF Reached, ReachedSteps, AirTrue, Answered, SerialTrue, At
<1>7. Counted /\ AddressFirst
  BY DEF Counted, AddressFirst, At
<1>8. PromptTrue
  BY StepKinds DEF PromptTrue, PromptAddress, PromptTransfer
<1> QED
  BY <1>5, <1>6, <1>7, <1>8 DEF IInv

\* The invariant holds throughout.
LEMMA Invariance == Spec => []IInv
<1>1. IInv /\ [Next]_vars => IInv'
  BY TypeStep, ReachedStep, AirStep, AnsweredStep, CountedStep, SerialStep, AddressFirstStep, PromptStep DEF IInv
<1> QED
  BY <1>1, InitInv, PTL DEF Spec

\* The state of the host is always well typed; so is that of the device, whose request
\* is one the host has made.
THEOREM TypeCorrect == Spec => []TypeOK
BY Invariance, PTL DEF IInv

\* A transfer is given up after exactly MaxTries attempts (the retry in usbdpi.c), for
\* every limit, and however often the device is disconnected in between.
THEOREM TriesCountedHolds == Spec => []TriesCounted
<1>1. IInv => TriesCounted
  BY DEF IInv, Counted, TriesCounted
<1> QED
  BY <1>1, Invariance, PTL

\* pollRX() keeps the OUT toggle of the serial endpoint with the device's, whatever is
\* refused or not answered.
THEOREM SerialToggleAgreedHolds == Spec => []SerialToggleAgreed
<1>1. IInv => SerialToggleAgreed
  BY DEF IInv, SerialTrue, SerialToggleAgreed
<1> QED
  BY <1>1, Invariance, PTL

\* No assertion of usbdpi.c fails for a device that answers each request in time and
\* asks for a test the host knows, however often it is disconnected.
THEOREM PromptNeverFailsHolds == Spec => []PromptNeverFails
<1>1. IInv => PromptNeverFails
  BY DEF IInv, PromptTrue, PromptNeverFails
<1> QED
  BY <1>1, Invariance, PTL

\* The sequence goes beyond a control transfer only if the SETUP packet of this attempt
\* was acknowledged.
THEOREM SetupAnsweredHolds == Spec => SetupAnswered
<1>1. IInv /\ [Next]_vars => (attached' /\ step' # step /\ step \in ControlSteps => heard)
  <2> SUFFICES ASSUME IInv, [Next]_vars, attached', step' # step, step \in ControlSteps
               PROVE  heard
    OBVIOUS
  <2>1. ~Transfer /\ ~ResetStep /\ ~Detach
    BY StepKinds DEF Transfer, ResetStep, BusReset, Detach
  <2>2. FrameEnd
    BY <2>1 DEF Next, Attach, DeviceAnswers, DeviceSetsAddress, vars, hostVars
  <2>3. At("NEXTFRAME")
    BY <2>2 DEF FrameEnd, NextStep, Retry
  <2> QED
    BY <2>3 DEF IInv, Answered, At, PastSetup
<1> QED
  BY <1>1, Invariance, PTL DEF Spec, SetupAnswered

=============================================================================
