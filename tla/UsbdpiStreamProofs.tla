------------------------- MODULE UsbdpiStreamProofs -------------------------
(***************************************************************************)
(* Proofs about UsbdpiStream, for any number of streams and descriptors.   *)
(***************************************************************************)
EXTENDS UsbdpiStream, TLAPS

\* The round robin stays among the streams.
LEMMA NextStreamInRange ==
  ASSUME NEW id \in Streams
  PROVE  NextStream(id) \in Streams
BY StreamAssumption DEF NextStream, Streams

\* A toggle stays a toggle.
LEMMA AdvanceInRange ==
  ASSUME NEW b \in {0, 1}
  PROVE  Advance(b) \in {0, 1}
BY DEF Advance

\* A legal test has a number of packets.
LEMMA MaxPacketsNat ==
  ASSUME mode \in Modes
  PROVE  MaxPackets \in Nat
BY StreamAssumption DEF LegalModes, MaxPackets

\* The list of a stream may be emptied, opened, extended or lose its head.
LEMMA ListTypes ==
  ASSUME NEW E, NEW list \in Seq(E), NEW e \in E
  PROVE  /\ <<>> \in Seq(E) /\ <<e>> \in Seq(E) /\ Append(list, e) \in Seq(E)
         /\ list # <<>> => Head(list) \in E /\ Tail(list) \in Seq(E)
OBVIOUS

\* The pool keeps its type: one step per action that moves descriptors.
LEMMA PoolTypeStep == TypeOK /\ SourceKept /\ [Next]_vars => PoolTypeOK'
<1> SUFFICES ASSUME TypeOK, SourceKept, [Next]_vars PROVE PoolTypeOK'
  OBVIOUS
<1> USE DEF TypeOK, PoolTypeOK, HostTypeOK, poolVars, Unsent, Some, KeepHeld, Held
<1>1. CASE Configure
  BY <1>1 DEF Configure
<1>2. CASE Disconnect
  BY <1>2 DEF Disconnect
<1>3. CASE Exhausted
  BY <1>3 DEF Exhausted
<1>4. CASE NextFrame \/ FrameEndsEarly
  BY <1>4 DEF NextFrame, FrameEndsEarly, StartOfFrame
<1>5. CASE TooLate
  BY <1>5 DEF TooLate
<1>6. CASE StreamOut
  <2>1. PICK s \in Streams : SendReply(s) \/ NothingToSend(s) \/ Discard(s)
    BY <1>6, NextStreamInRange DEF StreamOut
  <2>2. UNCHANGED <<recving, packet>>
    BY <1>6 DEF StreamOut
  <2>3. CASE SendReply(s)
    BY <2>2, <2>3 DEF SendReply
  <2>4. CASE NothingToSend(s)
    BY <2>2, <2>4 DEF NothingToSend
  <2>5. CASE Discard(s)
    <3>1. received' \in [Streams -> Seq(Entry)]
      BY <2>5 DEF Discard
    <3>2. Listed(s) \subseteq Transfers
      <4>1. received[s] \in Seq(Entry)
        OBVIOUS
      <4>2. \A i \in 1..Len(received[s]) : received[s][i] \in Entry
        BY <4>1
      <4> QED
        BY <4>2 DEF Listed, Entry
    <3>3. free' \subseteq Transfers /\ sending' \in Transfers
      BY <2>5, <3>2 DEF Discard
    <3> QED
      BY <2>2, <3>1, <3>3
  <2> QED
    BY <2>1, <2>3, <2>4, <2>5
<1>7. CASE WaitAck
  <2>1. CASE AckedOut(streamOut)
    <3>1. received[streamOut] \in Seq(Entry) /\ received[streamOut] # <<>>
      BY <1>7 DEF WaitAck, SourceKept
    <3>2. Head(received[streamOut]) \in Entry /\ Tail(received[streamOut]) \in Seq(Entry)
      BY <3>1
    <3>3. Head(received[streamOut]).tr \in Transfers
      BY <3>2 DEF Entry
    <3> QED
      BY <1>7, <2>1, <3>2, <3>3 DEF WaitAck, AckedOut, Retired
  <2> QED
    BY <1>7, <2>1 DEF WaitAck, NakedOut, FailedOut, AwaitOut
<1>8. CASE StreamIn
  <2>1. PICK s \in Streams : Poll(s) \/ Invent(s)
    BY <1>8, NextStreamInRange DEF StreamIn
  <2>2. UNCHANGED <<recving, packet>>
    BY <1>8 DEF StreamIn
  <2>3. CASE Poll(s)
    BY <2>2, <2>3 DEF Poll
  <2>4. CASE Invent(s)
    <3>1. \A r \in Transfers : <<[tr |-> r, k |-> tst[s]]>> \in Seq(Entry)
      BY DEF StreamTypeOK, Entry
    <3>2. PICK t \in Transfers :
            /\ sending' = t
            /\ \/ free' = free \ {t} /\ received' = received
               \/ \E r \in free \ {t} :
                    /\ free' = free \ {t, r}
                    /\ received' = [received EXCEPT ![s] = <<[tr |-> r, k |-> tst[s]]>>]
      BY <2>4, Zenon DEF Invent
    <3>3. received' \in [Streams -> Seq(Entry)]
      <4>1. CASE received' = received
        BY <4>1
      <4>2. ASSUME NEW r \in free \ {t},
                   received' = [received EXCEPT ![s] = <<[tr |-> r, k |-> tst[s]]>>]
            PROVE  received' \in [Streams -> Seq(Entry)]
        <5>1. <<[tr |-> r, k |-> tst[s]]>> \in Seq(Entry)
          BY <3>1
        <5> QED
          BY <4>2, <5>1
      <4> QED
        BY <3>2, <4>1, <4>2
    <3> QED
      BY <2>2, <3>2, <3>3
  <2> QED
    BY <2>1, <2>3, <2>4
<1>9. CASE WaitPkt \/ Error \/ TxEnd
  BY <1>9 DEF WaitPkt, Error, TxEnd
<1>10. CASE AckIfData
  <2> DEFINE s == streamIn
             r == recving
  <2>1. CASE CollectData(s)
    <3>1. r \in Transfers
      BY <2>1 DEF CollectData, GotReply
    <3>2. Append(received[s], [tr |-> r, k |-> packet]) \in Seq(Entry)
      <4>1. [tr |-> r, k |-> packet] \in Entry
        BY <3>1 DEF Entry
      <4>2. received[s] \in Seq(Entry)
        OBVIOUS
      <4> QED
        BY <4>1, <4>2
    <3>3. CASE TakeData(s, r) \/ TakeIso(s, r)
      BY <1>10, <2>1, <3>2, <3>3 DEF AckIfData, CollectData, TakeData, TakeIso
    <3>4. CASE TakeSignature(s, r) \/ Feign(s, r) \/ Refuse(s, r) \/ RefuseIso(s, r)
      BY <1>10, <2>1, <3>1, <3>4
         DEF AckIfData, CollectData, TakeSignature, Feign, Refuse, RefuseIso
    <3> QED
      BY <2>1, <3>3, <3>4 DEF CollectData
  <2>2. CASE CollectHandshake(s) \/ InTimeout
    BY <1>10, <2>2 DEF AckIfData, CollectHandshake, InTimeout
  <2> QED
    BY <1>10, <2>1, <2>2 DEF AckIfData
<1>11. CASE ReplyHandshake \/ ReplyData \/ ReplyEmpty
  <2>1. 0 \in Nat /\ Zlp \in Nat /\ \A s \in Streams : devIn[s] \in Nat
    BY MaxPacketsNat DEF Zlp, DevTypeOK, TypeOK
  <2>2. ASSUME NEW pid, NEW k \in Nat, Reply(pid, k)
        PROVE PoolTypeOK'
    BY <2>2 DEF Reply
  <2> QED
    BY <1>11, <2>1, <2>2 DEF ReplyHandshake, ReplyData, ReplyEmpty
<1>12. CASE UNCHANGED vars
  BY <1>12 DEF vars, state
<1> QED
  BY <1>1, <1>2, <1>3, <1>4, <1>5, <1>6, <1>7, <1>8, <1>9, <1>10, <1>11, <1>12
     DEF Next, Host, Device

\* The control variables and the test step keep their types.
LEMMA CtlTypeStep == TypeOK /\ [Next]_vars => CtlTypeOK'
<1> SUFFICES ASSUME TypeOK, [Next]_vars PROVE CtlTypeOK'
  OBVIOUS
<1> USE DEF TypeOK, CtlTypeOK, ctlVars
<1>1. CASE Configure
  BY <1>1 DEF Configure
<1>2. CASE Disconnect
  BY <1>2, StreamAssumption DEF Disconnect
<1>3. CASE Exhausted
  BY <1>3 DEF Exhausted
<1>4. CASE NextFrame \/ FrameEndsEarly
  BY <1>4 DEF NextFrame, FrameEndsEarly, StartOfFrame
<1>5. CASE TooLate \/ StreamOut \/ WaitAck
  BY <1>5 DEF TooLate, StreamOut, WaitAck
<1>6. CASE StreamIn \/ WaitPkt \/ AckIfData \/ Error \/ TxEnd
  BY <1>6 DEF StreamIn, WaitPkt, AckIfData, Error, TxEnd
<1>7. CASE ReplyHandshake \/ ReplyData \/ ReplyEmpty
  BY <1>7 DEF ReplyHandshake, ReplyData, ReplyEmpty, Reply
<1>8. CASE UNCHANGED vars
  BY <1>8 DEF vars, state
<1> QED
  BY <1>1, <1>2, <1>3, <1>4, <1>5, <1>6, <1>7, <1>8 DEF Next, Host, Device

\* The host and bus states keep their types: one step per action that changes them.
LEMMA HostTypeStep == TypeOK /\ [Next]_vars => HostTypeOK'
<1> SUFFICES ASSUME TypeOK, [Next]_vars PROVE HostTypeOK'
  OBVIOUS
<1> USE DEF TypeOK, HostTypeOK, hostVars, HostStates, Pids
<1>1. CASE Configure
  <2>1. 0 \in Streams /\ NStreams - 1 \in Streams
    BY StreamAssumption DEF Streams
  <2> QED
    BY <1>1, <2>1 DEF Configure
<1>2. CASE Disconnect
  BY <1>2 DEF Disconnect, TxPackets
<1>3. CASE Exhausted
  BY <1>3 DEF Exhausted
<1>4. CASE NextFrame \/ FrameEndsEarly
  <2>1. [kind |-> "sof"] \in TxPackets
    BY DEF TxPackets
  <2> QED
    BY <1>4, <2>1 DEF NextFrame, FrameEndsEarly, StartOfFrame
<1>5. CASE TooLate
  BY <1>5 DEF TooLate
<1>6. CASE StreamOut
  <2>1. PICK s \in Streams :
          streamOut' = s /\ (SendReply(s) \/ NothingToSend(s) \/ Discard(s))
    BY <1>6, NextStreamInRange DEF StreamOut
  <2>2. streamIn' = streamIn
    BY <1>6 DEF StreamOut
  <2>3. CASE SendReply(s)
    <3>1. received[s] \in Seq(Entry) /\ received[s] # <<>>
      BY <2>3 DEF SendReply, PoolTypeOK
    <3>2. Head(received[s]) \in Entry
      BY <3>1
    <3>3. /\ Head(received[s]).k \in Nat
          /\ nextOut[s] \in {0, 1} /\ dpi[s] \in Nat
      BY <3>2 DEF Entry, StreamTypeOK
    <3>4. tx' \in TxPackets
      BY <2>3, <3>3 DEF SendReply, TxPackets
    <3> QED
      BY <2>1, <2>2, <2>3, <3>4 DEF SendReply
  <2>4. CASE NothingToSend(s) \/ Discard(s)
    BY <2>1, <2>2, <2>4 DEF NothingToSend, Discard
  <2> QED
    BY <2>1, <2>3, <2>4
<1>7. CASE WaitAck
  BY <1>7 DEF WaitAck, AckedOut, NakedOut, FailedOut, AwaitOut
<1>8. CASE StreamIn
  <2>1. PICK s \in Streams : streamIn' = s /\ (Poll(s) \/ Invent(s))
    BY <1>8, NextStreamInRange DEF StreamIn
  <2>2. [kind |-> "in", s |-> s] \in TxPackets
    BY DEF TxPackets
  <2> QED
    BY <1>8, <2>1, <2>2 DEF StreamIn, Poll, Invent
<1>9. CASE WaitPkt \/ Error
  BY <1>9 DEF WaitPkt, Error
<1>10. CASE AckIfData
  <2>1. /\ [kind |-> "ack", s |-> streamIn] \in TxPackets
        /\ [kind |-> "nak", s |-> streamIn] \in TxPackets
    BY DEF TxPackets
  <2> QED
    BY <1>10, <2>1 DEF AckIfData, CollectData, CollectHandshake, InTimeout
<1>11. CASE TxEnd
  BY <1>11 DEF TxEnd, TxPackets
<1>12. CASE ReplyHandshake \/ ReplyData \/ ReplyEmpty
  <2>1. \A s \in Streams : DataPid[devInTog[s]] \in Pids
    BY DEF DevTypeOK, DataPid
  <2> QED
    BY <1>12, <2>1 DEF ReplyHandshake, ReplyData, ReplyEmpty, Reply
<1>13. CASE UNCHANGED vars
  BY <1>13 DEF vars, state
<1> QED
  BY <1>1, <1>2, <1>3, <1>4, <1>5, <1>6, <1>7, <1>8, <1>9, <1>10, <1>11, <1>12, <1>13
     DEF Next, Host, Device

\* The state of the streams keeps its type.
LEMMA StreamTypeStep == TypeOK /\ [Next]_vars => StreamTypeOK'
<1> SUFFICES ASSUME TypeOK, [Next]_vars PROVE StreamTypeOK'
  OBVIOUS
<1> USE DEF TypeOK, StreamTypeOK, streamVars
<1>1. CASE Configure
  BY <1>1 DEF Configure, AllZero
<1>2. CASE Disconnect
  BY <1>2 DEF Disconnect, AllZero
<1>3. CASE Exhausted \/ TooLate \/ WaitPkt \/ Error \/ TxEnd
  BY <1>3 DEF Exhausted, TooLate, WaitPkt, Error, TxEnd
<1>4. CASE NextFrame \/ FrameEndsEarly
  BY <1>4 DEF NextFrame, FrameEndsEarly, StartOfFrame
<1>5. CASE StreamOut
  <2>1. PICK s \in Streams : SendReply(s) \/ NothingToSend(s) \/ Discard(s)
    BY <1>5, NextStreamInRange DEF StreamOut, HostTypeOK
  <2>2. UNCHANGED <<nextIn, nextOut, sigExp, tst, nretries>>
    BY <1>5 DEF StreamOut
  <2>3. \/ UNCHANGED <<dpi, dpiRewind>>
        \/ /\ dpiRewind' = [dpiRewind EXCEPT ![s] = dpi[s]]
           /\ dpi' = [dpi EXCEPT ![s] = @ + 1]
    BY <2>1 DEF SendReply, NothingToSend, Discard
  <2> QED
    BY <2>2, <2>3
<1>6. CASE WaitAck
  <2>1. streamOut \in Streams
    BY DEF HostTypeOK
  <2>2. nextOut' \in [Streams -> {0, 1}]
    BY <1>6, <2>1, AdvanceInRange DEF WaitAck, AckedOut, NakedOut, FailedOut, AwaitOut
  <2>3. dpi' \in [Streams -> Nat]
    BY <1>6, <2>1 DEF WaitAck, AckedOut, NakedOut, FailedOut, AwaitOut, Rewind
  <2> QED
    BY <1>6, <2>2, <2>3 DEF WaitAck
<1>7. CASE StreamIn
  <2>1. PICK s \in Streams : Poll(s) \/ Invent(s)
    BY <1>7, NextStreamInRange DEF StreamIn, HostTypeOK
  <2>2. Advance(nextIn[s]) \in {0, 1} /\ tst[s] + 1 \in Nat
    BY AdvanceInRange
  <2>3. \/ UNCHANGED <<nextIn, tst>>
        \/ nextIn' = [nextIn EXCEPT ![s] = Advance(@)] /\ tst' = [tst EXCEPT ![s] = @ + 1]
    BY <2>1, Zenon DEF Poll, Invent
  <2>4. nextIn' \in [Streams -> {0, 1}] /\ tst' \in [Streams -> Nat]
    BY <2>2, <2>3
  <2> QED
    BY <1>7, <2>4 DEF StreamIn
<1>8. CASE AckIfData
  <2> DEFINE s == streamIn
             r == recving
  <2>1. s \in Streams /\ packet \in Nat
    BY DEF HostTypeOK, PoolTypeOK
  <2>2. Advance(0) \in {0, 1} /\ Advance(1) \in {0, 1} /\ Advance(nextIn[s]) \in {0, 1}
    BY <2>1, AdvanceInRange
  <2>3. nretries[s] > 0 => nretries[s] - 1 \in Nat
    BY <2>1
  <2>4. ASSUME NewRetries(s) PROVE nretries' \in [Streams -> Nat]
    BY <2>1, <2>4, StreamAssumption DEF NewRetries
  <2>5. CASE TakeSignature(s, r)
    BY <1>8, <2>1, <2>2, <2>4, <2>5 DEF AckIfData, TakeSignature
  <2>6. CASE TakeData(s, r)
    BY <1>8, <2>1, <2>2, <2>4, <2>6 DEF AckIfData, TakeData
  <2>7. CASE Feign(s, r)
    BY <1>8, <2>1, <2>3, <2>7 DEF AckIfData, Feign, Feigned
  <2>8. CASE Refuse(s, r)
    BY <1>8, <2>1, <2>2, <2>4, <2>8 DEF AckIfData, Refuse
  <2>9. CASE TakeIso(s, r) \/ RefuseIso(s, r)
    <3>1. packet + 1 \in Nat
      BY <2>1
    <3>2. /\ nextIn' = nextIn \/ nextIn' = [nextIn EXCEPT ![s] = Advance(0)]
          /\ tst' = tst \/ tst' = [tst EXCEPT ![s] = packet + 1]
          /\ UNCHANGED <<sigExp, nretries>>
      BY <2>9 DEF TakeIso, RefuseIso
    <3>3. nextIn' \in [Streams -> {0, 1}] /\ tst' \in [Streams -> Nat]
      BY <2>1, <2>2, <3>1, <3>2
    <3> QED
      BY <1>8, <3>2, <3>3 DEF AckIfData
  <2>10. CASE CollectHandshake(s) \/ InTimeout
    BY <1>8, <2>10 DEF AckIfData, CollectHandshake, InTimeout
  <2> QED
    BY <1>8, <2>5, <2>6, <2>7, <2>8, <2>9, <2>10 DEF AckIfData, CollectData
<1>9. CASE ReplyHandshake \/ ReplyData \/ ReplyEmpty
  BY <1>9 DEF ReplyHandshake, ReplyData, ReplyEmpty, Reply
<1>10. CASE UNCHANGED vars
  BY <1>10 DEF vars, state
<1> QED
  BY <1>1, <1>2, <1>3, <1>4, <1>5, <1>6, <1>7, <1>8, <1>9, <1>10 DEF Next, Host, Device

\* What the fields of a transmission are.
LEMMA TxStream ==
  ASSUME NEW t \in TxPackets
  PROVE  /\ t.kind = "ack" => t.s \in Streams
         /\ t.kind = "out" => t.s \in Streams /\ t.k \in Nat /\ t.x \in Nat
<1>1. CASE t = NoTx \/ t = [kind |-> "sof"]
  <2>1. t.kind = "none" \/ t.kind = "sof"
    BY <1>1 DEF NoTx
  <2> QED
    BY <2>1
<1>2. CASE t \in [kind : {"in", "ack", "nak"}, s : Streams]
  <2>1. t.kind \in {"in", "ack", "nak"} /\ t.s \in Streams
    BY <1>2
  <2> QED
    BY <2>1
<1>3. CASE t \in [kind : {"out"}, s : Streams, tog : {0, 1}, k : Nat, x : Nat]
  <2>1. t.kind = "out" /\ t.s \in Streams /\ t.k \in Nat /\ t.x \in Nat
    BY <1>3
  <2> QED
    BY <2>1
<1> QED
  BY <1>1, <1>2, <1>3 DEF TxPackets

\* The device side keeps its type.
LEMMA DevTypeStep == TypeOK /\ [Next]_vars => DevTypeOK'
<1> SUFFICES ASSUME TypeOK, [Next]_vars PROVE DevTypeOK'
  OBVIOUS
<1> USE DEF TypeOK, DevTypeOK, devVars
<1>1. CASE Configure \/ Exhausted \/ TooLate \/ StreamOut \/ WaitAck
  BY <1>1 DEF Configure, Exhausted, TooLate, StreamOut, WaitAck
<1>2. CASE Disconnect
  BY <1>2 DEF Disconnect, AllZero
<1>3. CASE NextFrame \/ FrameEndsEarly
  BY <1>3 DEF NextFrame, FrameEndsEarly, StartOfFrame
<1>4. CASE StreamIn \/ WaitPkt \/ AckIfData \/ Error
  BY <1>4 DEF StreamIn, WaitPkt, AckIfData, Error
<1>5. CASE TxEnd
  <2>1. CASE HandshakeSent
    <3>1. tx.kind = "ack" => tx.s \in Streams
      BY TxStream DEF HostTypeOK
    <3>2. \A s \in Streams : devIn[s] + 1 \in Nat /\ 1 - devInTog[s] \in {0, 1}
      <4> TAKE s \in Streams
      <4>1. devIn[s] \in Nat
        OBVIOUS
      <4>2. devInTog[s] = 0 \/ devInTog[s] = 1
        OBVIOUS
      <4> QED
        BY <4>1, <4>2
    <3>3. devIn' \in [Streams -> Nat] /\ devInTog' \in [Streams -> {0, 1}]
      BY <2>1, <3>1, <3>2 DEF HandshakeSent
    <3> QED
      BY <2>1, <3>3 DEF HandshakeSent
  <2>2. CASE TokenSent
    BY <2>2 DEF TokenSent
  <2>3. CASE OutTaken
    <3>1. tx.s \in Streams /\ tx.k \in Nat /\ tx.x \in Nat
      BY <2>3, TxStream DEF OutTaken, HostTypeOK
    <3>2. Append(got[tx.s], <<tx.k, tx.x>>) \in Seq(Nat \X Nat)
      BY <3>1
    <3>3. got' \in [Streams -> Seq(Nat \X Nat)]
      BY <2>3, <3>1, <3>2 DEF OutTaken
    <3>4. devOutTog[tx.s] = 0 \/ devOutTog[tx.s] = 1
      BY <3>1
    <3>5. devOutTog' \in [Streams -> {0, 1}]
      BY <2>3, <3>1, <3>4 DEF OutTaken
    <3> QED
      BY <2>3, <3>3, <3>5 DEF OutTaken
  <2>4. CASE OutRefused
    BY <2>4 DEF OutRefused
  <2> QED
    BY <1>5, <2>1, <2>2, <2>3, <2>4 DEF TxEnd
<1>6. CASE ReplyHandshake \/ ReplyData \/ ReplyEmpty
  <2>1. streamIn \in Streams
    BY DEF HostTypeOK
  <2>2. \A pid, k : Reply(pid, k) => /\ dev' = "quiet"
                                     /\ UNCHANGED <<devInTog, devOutTog, got>>
    BY DEF Reply
  <2>3. devIn' = devIn \/ devIn' = [devIn EXCEPT ![streamIn] = @ + 1]
    BY <1>6 DEF ReplyHandshake, ReplyData, ReplyEmpty
  <2>4. \A s \in Streams : devIn[s] + 1 \in Nat
    OBVIOUS
  <2>5. devIn' \in [Streams -> Nat]
    BY <2>1, <2>3, <2>4
  <2> QED
    BY <1>6, <2>2, <2>5 DEF ReplyHandshake, ReplyData, ReplyEmpty
<1>7. CASE UNCHANGED vars
  BY <1>7 DEF vars, state
<1> QED
  BY <1>1, <1>2, <1>3, <1>4, <1>5, <1>6, <1>7 DEF Next, Host, Device

\* The source of a packet stays in its list until the handshake was seen: only
\* the steps of HS_WAITACK itself, and streams_init, shorten the list.
LEMMA SourceKeptStep == TypeOK /\ SourceKept /\ [Next]_vars => SourceKept'
<1> SUFFICES ASSUME TypeOK, SourceKept, [Next]_vars PROVE SourceKept'
  OBVIOUS
<1> USE DEF SourceKept, hostVars, poolVars
<1>1. CASE Configure \/ Disconnect \/ Exhausted
  BY <1>1 DEF Configure, Disconnect, Exhausted
<1>2. CASE NextFrame \/ FrameEndsEarly
  BY <1>2 DEF NextFrame, FrameEndsEarly, StartOfFrame
<1>3. CASE TooLate
  BY <1>3 DEF TooLate
<1>4. CASE StreamOut
  BY <1>4 DEF StreamOut, SendReply, NothingToSend, Discard
<1>5. CASE WaitAck
  BY <1>5 DEF WaitAck, AckedOut, NakedOut, FailedOut, AwaitOut
<1>6. CASE StreamIn
  BY <1>6 DEF StreamIn, Poll, Invent
<1>7. CASE WaitPkt
  BY <1>7 DEF WaitPkt
<1>8. CASE AckIfData
  BY <1>8 DEF AckIfData, CollectData, CollectHandshake, InTimeout
<1>9. CASE Error \/ TxEnd
  BY <1>9 DEF Error, TxEnd
<1>10. CASE ReplyHandshake \/ ReplyData \/ ReplyEmpty
  BY <1>10 DEF ReplyHandshake, ReplyData, ReplyEmpty, Reply
<1>11. CASE UNCHANGED vars
  BY <1>11 DEF vars, state
<1> QED
  BY <1>1, <1>2, <1>3, <1>4, <1>5, <1>6, <1>7, <1>8, <1>9, <1>10, <1>11 DEF Next, Host, Device

\* The streams begin empty, with every descriptor free.
LEMMA InitCorrect == Init => TypeOK /\ SourceKept
<1> SUFFICES ASSUME Init PROVE TypeOK /\ SourceKept
  OBVIOUS
<1>1. 0 \in Streams
  BY StreamAssumption DEF Streams
<1>2. CtlTypeOK /\ SourceKept
  BY StreamAssumption DEF Init, CtlTypeOK, SourceKept
<1>3. HostTypeOK
  BY <1>1 DEF Init, HostTypeOK, HostStates, Pids, TxPackets
<1>4. PoolTypeOK
  BY DEF Init, PoolTypeOK
<1>5. StreamTypeOK
  BY DEF Init, StreamTypeOK, AllZero
<1>6. DevTypeOK
  BY DEF Init, DevTypeOK, AllZero
<1> QED
  BY <1>2, <1>3, <1>4, <1>5, <1>6 DEF TypeOK, Init

\* Every step keeps the types and the source of the packet awaiting its handshake.
LEMMA TypeSourceStep == TypeOK /\ SourceKept /\ [Next]_vars => (TypeOK /\ SourceKept)'
BY CtlTypeStep, HostTypeStep, PoolTypeStep, StreamTypeStep, DevTypeStep, SourceKeptStep
   DEF TypeOK, Next, vars

\* Every variable keeps its type, and a packet awaiting its handshake keeps its
\* source (the assertion on s->received in HS_WAITACK holds).
THEOREM TypeCorrect == Spec => [](TypeOK /\ SourceKept)
BY InitCorrect, TypeSourceStep, PTL DEF Spec

-----------------------------------------------------------------------------
(* The pool.  Every step does one of five things with descriptors: it moves *)
(* them among the free list, ctx->sending and ctx->recving (the hands),     *)
(* takes one of these to the end of a list, returns the head of a list or   *)
(* a whole list, or re-initialises the streams.                             *)

Hands == free \cup Some(sending) \cup Some(recving)
HandsApart == sending \notin free /\ recving \notin free /\ (sending = recving => sending = NoTr)

Moved == received' = received /\ Hands' = Hands

Collected(s, e) ==
  /\ e \in Entry /\ e.tr \in Hands
  /\ received' = [received EXCEPT ![s] = Append(@, e)]
  /\ Hands' = Hands \ {e.tr}

Returned(s) ==
  /\ received[s] # <<>>
  /\ received' = [received EXCEPT ![s] = Tail(@)]
  /\ Hands' = Hands \cup {Head(received[s]).tr}

Emptied(s) ==
  /\ received' = [received EXCEPT ![s] = <<>>]
  /\ Hands' = Hands \cup Listed(s)

PoolSteps ==
  \/ Moved
  \/ \E s \in Streams : Returned(s) \/ Emptied(s) \/ \E e \in Entry : Collected(s, e)
  \/ Configure

\* Every descriptor of a list is one of the pool.
LEMMA ListedInPool ==
  ASSUME PoolTypeOK, NEW s \in Streams
  PROVE  /\ Listed(s) \subseteq Transfers
         /\ received[s] # <<>> => Head(received[s]) \in Entry /\ Head(received[s]).tr \in Listed(s)
<1>1. received[s] \in Seq(Entry)
  BY DEF PoolTypeOK
<1>2. \A i \in 1..Len(received[s]) : received[s][i] \in Entry
  BY <1>1
<1>3. received[s] # <<>> => 1 \in 1..Len(received[s]) /\ Head(received[s]) = received[s][1]
  BY <1>1
<1> QED
  BY <1>2, <1>3 DEF Listed, Entry

\* The same in the terms of the type invariant of the next state.
LEMMA HandsStep ==
  ASSUME TypeOK, SourceKept, PoolExclusive, [Next]_vars
  PROVE  HandsApart' /\ PoolSteps
<1> USE DEF TypeOK, PoolTypeOK, poolVars, Hands, HandsApart, Some, Unsent, KeepHeld, Held, Moved
<1>0. NoTr \notin Transfers /\ HandsApart
  BY StreamAssumption DEF PoolExclusive
<1>1. CASE Configure
  BY <1>0, <1>1 DEF Configure, PoolSteps
<1>2. CASE Disconnect \/ Exhausted
  <2>1. UNCHANGED <<free, sending, recving, received>>
    BY <1>2 DEF Disconnect, Exhausted
  <2> QED
    BY <1>0, <2>1 DEF PoolSteps
<1>3. CASE NextFrame \/ FrameEndsEarly \/ TooLate
  <2>1. \/ UNCHANGED <<free, sending, recving, received>>
        \/ KeepHeld /\ UNCHANGED <<recving, received>>
    BY <1>3 DEF NextFrame, FrameEndsEarly, StartOfFrame, TooLate
  <2> QED
    BY <1>0, <2>1 DEF PoolSteps
<1>4. CASE StreamOut
  <2>1. PICK s \in Streams : SendReply(s) \/ NothingToSend(s) \/ Discard(s)
    BY <1>4, NextStreamInRange DEF StreamOut, HostTypeOK
  <2>2. recving' = recving
    BY <1>4 DEF StreamOut
  <2>3. CASE SendReply(s)
    BY <1>0, <2>2, <2>3 DEF SendReply, PoolSteps
  <2>4. CASE NothingToSend(s)
    BY <1>0, <2>2, <2>4 DEF NothingToSend, PoolSteps
  <2>5. CASE Discard(s)
    <3>1. Listed(s) \cap (free \cup {sending, recving}) = {} /\ Listed(s) \subseteq Transfers
      BY ListedInPool DEF PoolExclusive
    <3>2. PICK t \in Transfers :
            Held(t) /\ sending' = t /\ free' = (free \ {t}) \cup Listed(s)
      BY <2>5 DEF Discard
    <3>3. HandsApart' /\ Hands' = Hands \cup Listed(s)
      BY <1>0, <2>2, <3>1, <3>2
    <3>4. Emptied(s)
      BY <2>5, <3>3 DEF Discard, Emptied
    <3> QED
      BY <3>3, <3>4 DEF PoolSteps
  <2> QED
    BY <2>1, <2>3, <2>4, <2>5
<1>5. CASE WaitAck
  <2>1. sending' = NoTr /\ recving' = recving /\ streamOut \in Streams
    BY <1>5 DEF WaitAck, HostTypeOK
  <2>2. CASE AckedOut(streamOut)
    <3> DEFINE h == Head(received[streamOut]).tr
    <3>1. received[streamOut] # <<>>
      BY <1>5 DEF WaitAck, SourceKept
    <3>2. h \in Transfers /\ h \notin free \cup {sending, recving}
      BY <2>1, <3>1, ListedInPool DEF PoolExclusive
    <3>3. free' = Unsent \cup {h}
      BY <2>2 DEF AckedOut
    <3>4. HandsApart' /\ Hands' = Hands \cup {h}
      BY <1>0, <2>1, <3>2, <3>3
    <3>5. Returned(streamOut)
      BY <2>2, <3>1, <3>4 DEF AckedOut, Retired, Returned
    <3> QED
      BY <2>1, <3>4, <3>5 DEF PoolSteps
  <2>3. CASE NakedOut(streamOut) \/ FailedOut(streamOut) \/ AwaitOut(streamOut)
    <3>1. free' = Unsent /\ received' = received
      BY <2>3 DEF NakedOut, FailedOut, AwaitOut
    <3> QED
      BY <1>0, <2>1, <3>1 DEF PoolSteps
  <2> QED
    BY <1>5, <2>2, <2>3 DEF WaitAck
<1>6. CASE StreamIn
  <2>1. PICK s \in Streams : Poll(s) \/ Invent(s)
    BY <1>6, NextStreamInRange DEF StreamIn, HostTypeOK
  <2>2. recving' = recving
    BY <1>6 DEF StreamIn
  <2>3. CASE Poll(s)
    BY <1>0, <2>2, <2>3 DEF Poll, PoolSteps
  <2>4. CASE Invent(s)
    <3>1. PICK t \in Transfers :
            /\ Held(t) /\ sending' = t
            /\ \/ /\ received[s] = <<>>
                  /\ \E r \in free \ {t} :
                       /\ received' = [received EXCEPT ![s] = <<[tr |-> r, k |-> tst[s]]>>]
                       /\ free' = free \ {t, r}
               \/ free' = free \ {t} /\ received' = received
      BY <2>4, Zenon DEF Invent
    <3>2. CASE free' = free \ {t} /\ received' = received
      BY <1>0, <2>2, <3>1, <3>2 DEF PoolSteps
    <3>3. ASSUME received[s] = <<>>, NEW r \in free \ {t},
                 received' = [received EXCEPT ![s] = <<[tr |-> r, k |-> tst[s]]>>],
                 free' = free \ {t, r}
          PROVE  HandsApart' /\ PoolSteps
      <4> DEFINE e == [tr |-> r, k |-> tst[s]]
      <4>1. e.tr = r
        OBVIOUS
      <4>2. e \in Entry
        BY <3>3 DEF Entry, StreamTypeOK
      <4> HIDE DEF e
      <4>3. HandsApart' /\ Hands' = Hands \ {r} /\ r \in Hands
        BY <1>0, <2>2, <3>1, <3>3
      <4>4. Append(received[s], e) = <<e>>
        BY <3>3
      <4>5. Collected(s, e)
        BY <3>3, <4>1, <4>2, <4>3, <4>4 DEF Collected, e
      <4> QED
        BY <4>2, <4>3, <4>5 DEF PoolSteps
    <3> QED
      BY <3>1, <3>2, <3>3
  <2> QED
    BY <2>1, <2>3, <2>4
<1>7. CASE WaitPkt
  BY <1>0, <1>7 DEF WaitPkt, PoolSteps
<1>8. CASE AckIfData
  <2> DEFINE s == streamIn
  <2>1. s \in Streams /\ sending' = sending
    BY <1>8 DEF AckIfData, HostTypeOK
  <2>2. CASE CollectHandshake(s) \/ InTimeout
    BY <1>0, <2>1, <2>2 DEF CollectHandshake, InTimeout, PoolSteps
  <2>3. CASE CollectData(s)
    <3> DEFINE r == recving
               e == [tr |-> r, k |-> packet]
    <3>1. r \in Transfers /\ recving' = NoTr
      BY <2>3 DEF CollectData, GotReply
    <3>2. \/ free' = free \cup {r} /\ received' = received
          \/ free' = free /\ received' = [received EXCEPT ![s] = Append(@, e)]
      BY <2>3, Zenon DEF CollectData, TakeSignature, TakeData, Feign, Refuse, TakeIso, RefuseIso
    <3>3. CASE free' = free \cup {r} /\ received' = received
      BY <1>0, <2>1, <3>1, <3>3 DEF PoolSteps
    <3>4. CASE free' = free /\ received' = [received EXCEPT ![s] = Append(@, e)]
      <4>1. e.tr = r
        OBVIOUS
      <4>2. e \in Entry
        BY <3>1 DEF Entry
      <4>3. HandsApart' /\ Hands' = Hands \ {r} /\ r \in Hands
        BY <1>0, <2>1, <3>1, <3>4
      <4> HIDE DEF e
      <4>4. Collected(s, e)
        BY <3>4, <4>1, <4>2, <4>3 DEF Collected
      <4> QED
        BY <2>1, <4>2, <4>3, <4>4 DEF PoolSteps
    <3> QED
      BY <3>2, <3>3, <3>4
  <2> QED
    BY <1>8, <2>2, <2>3 DEF AckIfData
<1>9. CASE Error \/ TxEnd
  BY <1>0, <1>9 DEF Error, TxEnd, PoolSteps
<1>10. CASE ReplyHandshake \/ ReplyData \/ ReplyEmpty
  <2>1. PICK r \in Transfers : /\ IF recving # NoTr THEN r = recving ELSE r \in free
                               /\ recving' = r /\ free' = free \ {r}
                               /\ UNCHANGED <<sending, received>>
    BY <1>10, Zenon DEF ReplyHandshake, ReplyData, ReplyEmpty, Reply
  <2>2. CASE recving # NoTr
    BY <1>0, <2>1, <2>2 DEF PoolSteps
  <2>3. CASE recving = NoTr
    BY <1>0, <2>1, <2>3 DEF PoolSteps
  <2> QED
    BY <2>2, <2>3
<1>11. CASE UNCHANGED vars
  BY <1>0, <1>11 DEF vars, state, PoolSteps
<1> QED
  BY <1>1, <1>2, <1>3, <1>4, <1>5, <1>6, <1>7, <1>8, <1>9, <1>10, <1>11 DEF Next, Host, Device

\* What a list holds after one of these steps.
LEMMA ListedAfter ==
  ASSUME PoolTypeOK, NEW s \in Streams, NEW list \in Seq(Entry),
         received' = [received EXCEPT ![s] = list]
  PROVE  /\ Listed(s)' = {list[i].tr : i \in 1..Len(list)}
         /\ \A x \in Streams \ {s} : Listed(x)' = Listed(x) /\ received'[x] = received[x]
         /\ received'[s] = list
BY DEF PoolTypeOK, Listed

\* No step puts a descriptor in two places: a list gets one out of the hands,
\* which thereby lose it, and what the hands get leaves its list.
LEMMA PoolExclusiveStep ==
  ASSUME TypeOK, SourceKept, PoolExclusive, [Next]_vars
  PROVE  PoolExclusive'
<1>1. HandsApart' /\ PoolSteps
  BY HandsStep
<1>2. PoolTypeOK /\ \A s \in Streams : Listed(s) \cap Hands = {} /\ NoTr \notin Listed(s)
  BY ListedInPool, StreamAssumption DEF TypeOK, PoolExclusive, Hands, Some
<1> DEFINE Apart == \A s1, s2 \in Streams :
                      \A i \in 1..Len(received[s1]), j \in 1..Len(received[s2]) :
                        received[s1][i].tr = received[s2][j].tr => s1 = s2 /\ i = j
<1>3. SUFFICES (\A s \in Streams : Listed(s)' \cap Hands' = {} /\ NoTr \notin Listed(s)') /\ Apart'
  BY <1>1 DEF PoolExclusive, HandsApart, Hands, Some
<1>4. Apart
  BY DEF PoolExclusive
<1>5. \A s \in Streams : received[s] \in Seq(Entry)
  BY <1>2 DEF PoolTypeOK
<1>6. CASE Moved
  <2>1. \A s \in Streams : Listed(s)' = Listed(s)
    BY <1>6 DEF Moved, Listed
  <2>2. Apart'
    BY <1>4, <1>6 DEF Moved
  <2> QED
    BY <1>2, <1>6, <2>1, <2>2 DEF Moved
<1>7. ASSUME NEW s \in Streams, NEW e \in Entry, Collected(s, e)
      PROVE  (\A x \in Streams : Listed(x)' \cap Hands' = {} /\ NoTr \notin Listed(x)') /\ Apart'
  <2> DEFINE n == Len(received[s])
             list == Append(received[s], e)
  <2>1. /\ n \in Nat /\ list \in Seq(Entry) /\ Len(list) = n + 1
        /\ \A i \in 1..n : list[i] = received[s][i]
        /\ list[n + 1] = e
    BY <1>5
  <2>2. received' = [received EXCEPT ![s] = list]
    BY <1>7 DEF Collected
  <2> HIDE DEF list, n
  <2>3. /\ Listed(s)' = {list[i].tr : i \in 1..Len(list)}
        /\ \A x \in Streams \ {s} : Listed(x)' = Listed(x) /\ received'[x] = received[x]
        /\ received'[s] = list
    BY <1>2, <2>1, <2>2, ListedAfter
  <2>4. {list[i].tr : i \in 1..Len(list)} = Listed(s) \cup {e.tr}
    BY <2>1 DEF Listed, n
  <2>5. e.tr \in Hands /\ e.tr # NoTr /\ Hands' = Hands \ {e.tr}
    BY <1>7, StreamAssumption DEF Collected, Entry
  <2>6. \A x \in Streams : Listed(x)' \cap Hands' = {} /\ NoTr \notin Listed(x)'
    BY <1>2, <2>3, <2>4, <2>5
  <2>7. \A x \in Streams : \A i \in 1..Len(received[x]) : received[x][i].tr # e.tr
    BY <1>2, <2>5 DEF Listed
  <2>8. Apart'
    <3> SUFFICES ASSUME NEW s1 \in Streams, NEW s2 \in Streams,
                        NEW i \in 1..Len(received'[s1]), NEW j \in 1..Len(received'[s2]),
                        received'[s1][i].tr = received'[s2][j].tr
                 PROVE  s1 = s2 /\ i = j
      OBVIOUS
    <3>1. \A x \in Streams, k \in Nat : k \in 1..Len(received'[x]) =>
            \/ k \in 1..Len(received[x]) /\ received'[x][k] = received[x][k]
            \/ x = s /\ k = n + 1 /\ received'[x][k] = e
      <4> TAKE x \in Streams, k \in Nat
      <4>1. CASE x = s
        BY <2>1, <2>3, <4>1 DEF n
      <4>2. CASE x # s
        BY <2>3, <4>2
      <4> QED
        BY <4>1, <4>2
    <3>2. \/ i \in 1..Len(received[s1]) /\ received'[s1][i] = received[s1][i]
          \/ s1 = s /\ i = n + 1 /\ received'[s1][i] = e
      BY <3>1
    <3>3. \/ j \in 1..Len(received[s2]) /\ received'[s2][j] = received[s2][j]
          \/ s2 = s /\ j = n + 1 /\ received'[s2][j] = e
      BY <3>1
    <3>4. \A a \in 1..Len(received[s1]), b \in 1..Len(received[s2]) :
            received[s1][a].tr = received[s2][b].tr => s1 = s2 /\ a = b
      BY <1>4
    <3> QED
      BY <2>7, <3>2, <3>3, <3>4
  <2> QED
    BY <2>6, <2>8
<1>8. ASSUME NEW s \in Streams, Returned(s)
      PROVE  (\A x \in Streams : Listed(x)' \cap Hands' = {} /\ NoTr \notin Listed(x)') /\ Apart'
  <2> DEFINE n == Len(received[s])
             list == Tail(received[s])
             h == Head(received[s]).tr
  <2>1. n \in Nat \ {0} /\ list \in Seq(Entry) /\ Len(list) = n - 1
    BY <1>5, <1>8 DEF Returned
  <2>2. \A i \in 1..Len(list) : i + 1 \in 2..n /\ list[i] = received[s][i + 1]
    BY <1>5, <2>1
  <2>3. h = received[s][1].tr /\ received' = [received EXCEPT ![s] = list] /\ Hands' = Hands \cup {h}
    BY <1>5, <1>8 DEF Returned
  <2> HIDE DEF list, n, h
  <2>4. /\ Listed(s)' = {list[i].tr : i \in 1..Len(list)}
        /\ \A x \in Streams \ {s} : Listed(x)' = Listed(x) /\ received'[x] = received[x]
        /\ received'[s] = list
    BY <1>2, <2>1, <2>3, ListedAfter
  <2>5. 1 \in 1..n /\ \A k \in 2..n : k \in 1..n /\ k # 1
    BY <2>1
  <2>6. Listed(s)' \subseteq Listed(s) /\ h \notin Listed(s)'
    <3>1. \A i \in 1..Len(list) : list[i].tr \in Listed(s) /\ list[i].tr # h
      BY <1>4, <2>2, <2>3, <2>5 DEF Listed, n
    <3> QED
      BY <2>4, <3>1
  <2>7. \A x \in Streams \ {s} : h \notin Listed(x)
    BY <1>4, <2>3, <2>5 DEF Listed, n
  <2>8. \A x \in Streams : Listed(x)' \cap Hands' = {} /\ NoTr \notin Listed(x)'
    BY <1>2, <2>3, <2>4, <2>6, <2>7
  <2>9. Apart'
    <3> SUFFICES ASSUME NEW s1 \in Streams, NEW s2 \in Streams,
                        NEW i \in 1..Len(received'[s1]), NEW j \in 1..Len(received'[s2]),
                        received'[s1][i].tr = received'[s2][j].tr
                 PROVE  s1 = s2 /\ i = j
      OBVIOUS
    <3>1. \A x \in Streams, k \in Nat : k \in 1..Len(received'[x]) =>
            \/ x # s /\ k \in 1..Len(received[x]) /\ received'[x][k] = received[x][k]
            \/ x = s /\ k + 1 \in 1..Len(received[x]) /\ received'[x][k] = received[x][k + 1]
      <4> TAKE x \in Streams, k \in Nat
      <4>1. CASE x = s
        BY <2>2, <2>4, <2>5, <4>1 DEF n
      <4>2. CASE x # s
        BY <2>4, <4>2
      <4> QED
        BY <4>1, <4>2
    <3>2. \/ s1 # s /\ i \in 1..Len(received[s1]) /\ received'[s1][i] = received[s1][i]
          \/ s1 = s /\ i + 1 \in 1..Len(received[s1]) /\ received'[s1][i] = received[s1][i + 1]
      BY <3>1
    <3>3. \/ s2 # s /\ j \in 1..Len(received[s2]) /\ received'[s2][j] = received[s2][j]
          \/ s2 = s /\ j + 1 \in 1..Len(received[s2]) /\ received'[s2][j] = received[s2][j + 1]
      BY <3>1
    <3>4. \A a \in 1..Len(received[s1]), b \in 1..Len(received[s2]) :
            received[s1][a].tr = received[s2][b].tr => s1 = s2 /\ a = b
      BY <1>4
    <3>5. CASE s1 = s /\ s2 = s
      <4>1. i + 1 = j + 1
        BY <3>2, <3>3, <3>4, <3>5
      <4> QED
        BY <3>5, <4>1
    <3>6. CASE s1 # s /\ s2 # s
      BY <3>2, <3>3, <3>4, <3>6
    <3>7. CASE s1 = s /\ s2 # s
      BY <3>2, <3>3, <3>4, <3>7
    <3>8. CASE s1 # s /\ s2 = s
      BY <3>2, <3>3, <3>4, <3>8
    <3> QED
      BY <3>5, <3>6, <3>7, <3>8
  <2> QED
    BY <2>8, <2>9
<1>9. ASSUME NEW s \in Streams, Emptied(s)
      PROVE  (\A x \in Streams : Listed(x)' \cap Hands' = {} /\ NoTr \notin Listed(x)') /\ Apart'
  <2>1. /\ Listed(s)' = {} /\ received'[s] = <<>>
        /\ \A x \in Streams \ {s} : Listed(x)' = Listed(x) /\ received'[x] = received[x]
    BY <1>2, <1>9 DEF Emptied, PoolTypeOK, Listed
  <2>2. \A x \in Streams \ {s} : Listed(x) \cap Listed(s) = {}
    BY <1>4 DEF Listed
  <2>3. Hands' = Hands \cup Listed(s)
    BY <1>9 DEF Emptied
  <2>4. Apart'
    BY <1>4, <2>1
  <2> QED
    BY <1>2, <2>1, <2>2, <2>3, <2>4
<1>10. CASE Configure
  <2>1. \A s \in Streams : received'[s] = <<>> /\ Listed(s)' = {}
    BY <1>10 DEF Configure, Listed
  <2> QED
    BY <2>1
<1> QED
  BY <1>1, <1>6, <1>7, <1>8, <1>9, <1>10 DEF PoolSteps

\* A descriptor is never in two places at once (usb_transfer.c keeps no owner: a
\* transfer in two lists would link them together).
THEOREM PoolExclusiveHolds == Spec => []PoolExclusive
<1>1. Init => PoolExclusive
  BY StreamAssumption DEF Init, PoolExclusive, Listed
<1>2. TypeOK /\ SourceKept /\ PoolExclusive /\ [Next]_vars => PoolExclusive'
  BY PoolExclusiveStep
<1> QED
  BY <1>1, <1>2, TypeCorrect, PTL DEF Spec

\* Only streams_init, which clears s->received without releasing it, loses a
\* descriptor.
THEOREM NoLeakHolds == Spec => NoLeak
<1>1. ASSUME TypeOK, SourceKept, PoolExclusive, [Next]_vars
      PROVE  [Owned \subseteq Owned' \/ Configure]_vars
  <2>1. PoolSteps /\ PoolTypeOK
    BY <1>1, HandsStep DEF TypeOK
  <2>2. \A s \in Streams : received[s] \in Seq(Entry)
    BY <2>1 DEF PoolTypeOK
  <2>3. Owned = Hands \cup UNION {Listed(s) : s \in Streams}
    BY DEF Owned, Hands
  <2>4. SUFFICES (Hands \subseteq Owned' /\ \A s \in Streams : Listed(s) \subseteq Owned') \/ Configure
    BY <2>3
  <2>5. Hands' \subseteq Owned' /\ \A s \in Streams : Listed(s)' \subseteq Owned'
    BY DEF Owned, Hands
  <2>6. CASE Moved
    BY <2>5, <2>6 DEF Moved, Listed
  <2>7. ASSUME NEW s \in Streams, NEW e \in Entry, Collected(s, e)
        PROVE  Hands \subseteq Owned' /\ \A x \in Streams : Listed(x) \subseteq Owned'
    <3> DEFINE list == Append(received[s], e)
    <3>1. /\ list \in Seq(Entry) /\ Len(list) = Len(received[s]) + 1
          /\ \A i \in 1..Len(received[s]) : list[i] = received[s][i]
          /\ list[Len(list)] = e /\ Len(list) \in 1..Len(list)
          /\ \A i \in 1..Len(received[s]) : i \in 1..Len(list)
      BY <2>2
    <3>2. received' = [received EXCEPT ![s] = list]
      BY <2>7 DEF Collected
    <3> HIDE DEF list
    <3>3. /\ Listed(s)' = {list[i].tr : i \in 1..Len(list)}
          /\ \A x \in Streams \ {s} : Listed(x)' = Listed(x)
      BY <2>1, <3>1, <3>2, ListedAfter
    <3>4. Listed(s) \cup {e.tr} \subseteq Listed(s)'
      BY <3>1, <3>3 DEF Listed
    <3> QED
      BY <2>5, <2>7, <3>3, <3>4 DEF Collected
  <2>8. ASSUME NEW s \in Streams, Returned(s)
        PROVE  Hands \subseteq Owned' /\ \A x \in Streams : Listed(x) \subseteq Owned'
    <3> DEFINE n == Len(received[s])
               list == Tail(received[s])
    <3>1. /\ n \in Nat /\ list \in Seq(Entry) /\ Head(received[s]) = received[s][1]
          /\ \A i \in 1..n : i = 1 \/ (i - 1 \in 1..Len(list) /\ list[i - 1] = received[s][i])
      BY <2>2, <2>8 DEF Returned
    <3>2. received' = [received EXCEPT ![s] = list]
      BY <2>8 DEF Returned
    <3> HIDE DEF list, n
    <3>3. /\ Listed(s)' = {list[i].tr : i \in 1..Len(list)}
          /\ \A x \in Streams \ {s} : Listed(x)' = Listed(x)
      BY <2>1, <3>1, <3>2, ListedAfter
    <3>4. Listed(s) \subseteq Listed(s)' \cup {Head(received[s]).tr}
      BY <3>1, <3>3 DEF Listed, n
    <3> QED
      BY <2>5, <2>8, <3>3, <3>4 DEF Returned
  <2>9. ASSUME NEW s \in Streams, Emptied(s)
        PROVE  Hands \subseteq Owned' /\ \A x \in Streams : Listed(x) \subseteq Owned'
    <3>1. \A x \in Streams \ {s} : Listed(x)' = Listed(x)
      BY <2>1, <2>9 DEF Emptied, PoolTypeOK, Listed
    <3> QED
      BY <2>5, <2>9, <3>1 DEF Emptied
  <2> QED
    BY <2>1, <2>6, <2>7, <2>8, <2>9 DEF PoolSteps
<1>2. TypeOK /\ SourceKept /\ PoolExclusive /\ [Next]_vars => [Owned \subseteq Owned' \/ Configure]_vars
  BY <1>1
<1> QED
  BY <1>2, TypeCorrect, PoolExclusiveHolds, PTL DEF Spec, NoLeak

-----------------------------------------------------------------------------
(* Order: what is received, what goes back, and the conversation about it. *)

Conversing == {"WAITACK", "WAIT_PKT", "ACKIFDATA"}

\* Who may speak in which state of the host: the device owes nothing outside a
\* transaction, and within one it is the host's packet, then the device's answer.
Turns ==
  /\ step = "enum" => hostSt = "NEXTFRAME" /\ tx = NoTx
  /\ hostSt \notin Conversing => dev = "quiet" /\ tx.kind \in {"none", "sof", "ack", "nak"}
  /\ hostSt = "WAITACK" =>
       /\ Send
       /\ Iso(streamOut) => dev = "quiet"
       /\ \/ bus = "Out" /\ tx.kind = "out" /\ tx.s = streamOut /\ dev = "quiet"
          \/ bus = "Out" /\ tx = NoTx /\ dev # "in"
          \/ bus = "OutAck" /\ tx = NoTx /\ dev = "quiet"
  /\ hostSt \in {"WAIT_PKT", "ACKIFDATA"} =>
       /\ Retrieve
       /\ \/ bus = "InToken" /\ tx.kind = "in" /\ dev = "quiet"
          \/ bus = "InToken" /\ tx = NoTx
          \/ bus = "InData" /\ tx = NoTx /\ dev = "quiet"

\* A device that answers leaves the host something to wait for until its answer has
\* come, and answers with what is due.
Answers ==
  ~Faulty =>
    /\ NoFalseAlarm
    /\ hostSt = "WAITACK" /\ ~Iso(streamOut) =>
         \/ tx.kind = "out"
         \/ bus = "Out" /\ dev \in {"ACK", "NAK"}
         \/ bus = "OutAck" /\ lastPid \in {"ACK", "NAK"}
    /\ hostSt \in {"WAIT_PKT", "ACKIFDATA"} =>
         \/ hostSt = "WAIT_PKT" /\ tx.kind = "in"
         \/ bus = "InToken" /\ dev = "in"
         \/ bus = "InData" /\ lastPid \in {"DATA0", "DATA1"}
         \/ bus = "InData" /\ lastPid = "NAK" /\ ~Iso(streamIn)

\* ReceivedInOrder, whether or not the device is there.
Consecutive(s) ==
  \A i \in 1..Len(received[s]) : received[s][i].k + Len(received[s]) = tst[s] + i - 1

Opening(s) == Retrieve /\ sigExp[s]    \* the signature is still to come

Ordered ==
  \A s \in Streams : ~Iso(s) => Consecutive(s) /\ (Opening(s) => received[s] = <<>>)

\* A device that has restarted remembers nothing, and neither does the host of its toggles.
Restarted ==
  step = "enum" => \A s \in Streams : got[s] = <<>> /\ nextOut[s] = 0 /\ devOutTog[s] = 0

\* The oldest packet that is listed, or else the next that will be, is number n.
Oldest(s, n) == IF Opening(s) THEN n = 1 ELSE n + Len(received[s]) = tst[s]

\* Where host and device are with the packets of a stream, at rest or with one sent.
AtRest(s) ==
  /\ devOutTog[s] = nextOut[s] /\ dpi[s] = Len(got[s])
  /\ Oldest(s, Len(got[s]) + FirstData(s))
NotTaken(s) ==
  /\ devOutTog[s] = nextOut[s] /\ dpi[s] = Len(got[s]) + 1 /\ dpiRewind[s] = Len(got[s])
  /\ Oldest(s, Len(got[s]) + FirstData(s))
TakenBack(s) ==
  /\ devOutTog[s] # nextOut[s] /\ dpi[s] = Len(got[s])
  /\ Oldest(s, Len(got[s]) + FirstData(s) - 1)

Acked == dev = "ACK" \/ (bus = "OutAck" /\ lastPid = "ACK")
Waiting(s) == hostSt = "WAITACK" /\ streamOut = s

GotOf(s) == \A i \in 1..Len(got[s]) : got[s][i] = <<i - 1 + FirstData(s), i - 1>>

Looped(s) ==
  /\ GotOf(s)
  /\ ~Send => got[s] = <<>>
  /\ step = "stream" /\ Send => /\ ~Waiting(s) => AtRest(s)
                                /\ Waiting(s) /\ Acked => TakenBack(s)
                                /\ Waiting(s) /\ ~Acked => NotTaken(s)
  /\ tx.kind = "out" /\ tx.s = s =>
       tx.tog = nextOut[s] /\ tx.k = Head(received[s]).k /\ tx.x = dpiRewind[s]

InLoop == ~Faulty => \A s \in Streams : ~Iso(s) => Looped(s)

\* An isochronous stream: what the device has got is older than what is listed, but for
\* the packet that was sent last, and what is listed older than what is expected.
Rising(s) ==
  /\ \A i \in 1..Len(received[s]) : received[s][i].k < tst[s]
  /\ \A i, j \in 1..Len(received[s]) : i < j => received[s][i].k < received[s][j].k
  /\ \A i \in 1..Len(got[s]) : got[s][i][1] < tst[s] /\ got[s][i][2] < dpi[s]
  /\ \A i \in 1..Len(got[s]), j \in 1..Len(received[s]) :
       got[s][i][1] < received[s][j].k \/ (j = 1 /\ Waiting(s))
  /\ tx.kind = "out" /\ tx.s = s =>
       /\ tx.k = Head(received[s]).k /\ tx.x < dpi[s]
       /\ \A i \in 1..Len(got[s]) : got[s][i][1] < tx.k /\ got[s][i][2] < tx.x
  /\ \A i, j \in 1..Len(got[s]) : i < j => got[s][i][1] < got[s][j][1] /\ got[s][i][2] < got[s][j][2]

IsoRising == \A s \in Streams : Iso(s) => Rising(s)

\* The test does not change while it runs.
LEMMA ModeKept ==
  ASSUME [Next]_vars
  PROVE  /\ mode' = mode /\ Send' = Send /\ Retrieve' = Retrieve /\ Faulty' = Faulty
         /\ \A s \in Streams : Iso(s)' = Iso(s) /\ FirstData(s)' = FirstData(s)
<1>1. mode' = mode
  BY DEF Next, vars
<1>2. Send' = Send /\ Retrieve' = Retrieve /\ Faulty' = Faulty /\ Type' = Type
  BY <1>1 DEF Send, Retrieve, Faulty, Type
<1>3. \A s \in Streams : Iso(s)' = Iso(s)
  BY <1>2 DEF Iso
<1> QED
  BY <1>1, <1>2, <1>3 DEF FirstData

\* The host and the device keep speaking in turn.
LEMMA TurnsStep == TypeOK /\ Turns /\ [Next]_vars => Turns'
<1> SUFFICES ASSUME TypeOK, Turns, [Next]_vars PROVE Turns'
  OBVIOUS
<1> USE ModeKept DEF Turns, Conversing, NoTx
<1>0. streamOut \in Streams /\ streamIn \in Streams
  BY DEF TypeOK, HostTypeOK
<1>1. CASE Configure \/ Disconnect
  BY <1>1 DEF Configure, Disconnect, devVars
<1>2. CASE NextFrame \/ FrameEndsEarly \/ TooLate
  BY <1>0, <1>2 DEF NextFrame, FrameEndsEarly, TooLate, StartOfFrame, Idle, devVars, hostVars, ctlVars
<1>3. CASE StreamOut
  <2>1. PICK s \in Streams : streamOut' = s /\ (SendReply(s) \/ NothingToSend(s) \/ Discard(s))
    BY <1>0, <1>3, NextStreamInRange DEF StreamOut
  <2> QED
    BY <1>3, <2>1 DEF StreamOut, SendReply, NothingToSend, Discard, Idle, devVars, ctlVars
<1>4. CASE WaitAck
  BY <1>0, <1>4 DEF WaitAck, AckedOut, NakedOut, FailedOut, AwaitOut, TimedOut, Idle, devVars, ctlVars
<1>5. CASE StreamIn
  <2>1. PICK s \in Streams : Poll(s) \/ Invent(s)
    BY <1>0, <1>5, NextStreamInRange DEF StreamIn
  <2>2. CASE Poll(s)
    BY <1>5, <2>2 DEF StreamIn, Poll, Idle, devVars, ctlVars
  <2>3. CASE Invent(s)
    BY <1>5, <2>3 DEF StreamIn, Invent, Idle, devVars, ctlVars
  <2> QED
    BY <2>1, <2>2, <2>3
<1>6. CASE WaitPkt
  BY <1>6 DEF WaitPkt, Idle, devVars, ctlVars
<1>7. CASE AckIfData
  <2>1. CASE CollectData(streamIn)
    BY <1>7, <2>1 DEF AckIfData, CollectData, GotReply, Idle, devVars, ctlVars
  <2>2. CASE CollectHandshake(streamIn) \/ InTimeout
    BY <1>7, <2>2 DEF AckIfData, CollectHandshake, GotReply, InTimeout, TimedOut, Idle, devVars, ctlVars
  <2> QED
    BY <1>7, <2>1, <2>2 DEF AckIfData
<1>8. CASE Error \/ Exhausted
  BY <1>0, <1>8 DEF Error, Exhausted, hostVars, devVars
<1>9. CASE TxEnd
  <2>1. UNCHANGED <<step, hostSt, bus, streamOut>> /\ tx' = NoTx /\ step = "stream"
    BY <1>9 DEF TxEnd, ctlVars
  <2>2. CASE HandshakeSent
    BY <2>1, <2>2, <1>0 DEF HandshakeSent
  <2>3. CASE TokenSent
    BY <2>1, <2>3, <1>0 DEF TokenSent
  <2>4. CASE OutTaken \/ OutRefused
    BY <2>1, <2>4, <1>0 DEF OutTaken, OutRefused
  <2> QED
    BY <1>9, <2>2, <2>3, <2>4 DEF TxEnd
<1>10. CASE ReplyHandshake \/ ReplyData \/ ReplyEmpty
  BY <1>0, <1>10 DEF ReplyHandshake, ReplyData, ReplyEmpty, Reply, Idle, ctlVars
<1>11. CASE UNCHANGED vars
  BY <1>0, <1>11 DEF vars, state, ctlVars, hostVars, devVars
<1> QED
  BY <1>1, <1>2, <1>3, <1>4, <1>5, <1>6, <1>7, <1>8, <1>9, <1>10, <1>11 DEF Next, Host, Device

\* A device that answers keeps the host without error.
LEMMA AnswersStep == TypeOK /\ Turns /\ Answers /\ [Next]_vars => Answers'
<1> SUFFICES ASSUME TypeOK, Turns, Answers, [Next]_vars, ~Faulty PROVE Answers'
  BY ModeKept DEF Answers
<1> USE ModeKept DEF Answers, NoFalseAlarm
<1>0. streamOut \in Streams /\ streamIn \in Streams
  BY DEF TypeOK, HostTypeOK
<1>1. CASE Configure \/ Disconnect
  BY <1>1 DEF Configure, Disconnect
<1>2. CASE NextFrame \/ TooLate
  BY <1>2 DEF NextFrame, TooLate, StartOfFrame, ctlVars
<1>3. CASE FrameEndsEarly
  BY <1>3 DEF FrameEndsEarly, Idle, NoTx
<1>4. CASE StreamOut
  <2>1. PICK s \in Streams : streamOut' = s /\ (SendReply(s) \/ NothingToSend(s) \/ Discard(s))
    BY <1>0, <1>4, NextStreamInRange DEF StreamOut
  <2> QED
    BY <1>4, <2>1 DEF StreamOut, SendReply, NothingToSend, Discard, ctlVars
<1>5. CASE WaitAck
  BY <1>0, <1>5 DEF WaitAck, AckedOut, NakedOut, FailedOut, AwaitOut, TimedOut, Idle, NoTx, ctlVars, devVars
<1>6. CASE StreamIn
  <2>1. PICK s \in Streams : Poll(s) \/ Invent(s)
    BY <1>0, <1>6, NextStreamInRange DEF StreamIn
  <2>2. CASE Poll(s)
    BY <1>6, <2>2 DEF StreamIn, Poll, ctlVars
  <2>3. CASE Invent(s)
    BY <1>6, <2>3 DEF StreamIn, Invent, ctlVars
  <2> QED
    BY <2>1, <2>2, <2>3
<1>7. CASE WaitPkt
  BY <1>0, <1>7 DEF WaitPkt, Idle, NoTx, ctlVars, devVars
<1>8. CASE AckIfData
  <2>1. CASE CollectData(streamIn)
    BY <1>8, <2>1 DEF AckIfData, CollectData, ctlVars
  <2>2. CASE CollectHandshake(streamIn) \/ InTimeout
    BY <1>0, <1>8, <2>2 DEF AckIfData, CollectHandshake, GotReply, InTimeout, TimedOut, ctlVars
  <2> QED
    BY <1>8, <2>1, <2>2 DEF AckIfData
<1>9. CASE Error \/ Exhausted
  BY <1>0, <1>9 DEF Error, Exhausted, hostVars, devVars
<1>10. CASE TxEnd
  <2>1. UNCHANGED <<failed, hostSt, bus, lastPid, streamIn, streamOut>> /\ tx' = NoTx
    BY <1>10 DEF TxEnd, ctlVars
  <2>2. CASE HandshakeSent
    BY <1>0, <2>1, <2>2 DEF HandshakeSent, Turns, Conversing
  <2>3. CASE TokenSent
    BY <1>0, <2>1, <2>3 DEF TokenSent, Turns, Conversing, NoTx
  <2>4. CASE OutTaken \/ OutRefused
    BY <1>0, <2>1, <2>4 DEF OutTaken, OutRefused, Turns, Conversing, NoTx
  <2> QED
    BY <1>10, <2>2, <2>3, <2>4 DEF TxEnd
<1>11. CASE ReplyHandshake \/ ReplyData \/ ReplyEmpty
  <2>1. UNCHANGED <<failed, hostSt, streamIn, streamOut, tx>> /\ tx = NoTx
    BY <1>11 DEF ReplyHandshake, ReplyData, ReplyEmpty, Reply, Idle, ctlVars
  <2>2. /\ bus' = IF bus = "InToken" THEN "InData" ELSE IF bus = "Out" THEN "OutAck" ELSE bus
        /\ dev # "quiet" /\ ((dev # "in" /\ lastPid' = dev) \/ (dev = "in" /\ lastPid' \in {"DATA0", "DATA1"})
                              \/ (dev = "in" /\ lastPid' = "NAK" /\ ~Iso(streamIn)))
    <3>1. DataPid[devInTog[streamIn]] \in {"DATA0", "DATA1"}
      BY <1>0 DEF TypeOK, DevTypeOK, DataPid
    <3> QED
      BY <1>11, <3>1 DEF ReplyHandshake, ReplyData, ReplyEmpty, Reply
  <2>3. tx.kind = "none"
    BY <2>1 DEF NoTx
  <2>4. ASSUME hostSt = "WAITACK", ~Iso(streamOut)
        PROVE  bus' = "OutAck" /\ lastPid' \in {"ACK", "NAK"}
    BY <2>2, <2>3, <2>4 DEF Turns
  <2>5. ASSUME hostSt \in {"WAIT_PKT", "ACKIFDATA"}
        PROVE  /\ bus' = "InData"
               /\ lastPid' \in {"DATA0", "DATA1"} \/ (lastPid' = "NAK" /\ ~Iso(streamIn))
    BY <2>2, <2>3, <2>5 DEF Turns
  <2> QED
    BY <1>0, <2>1, <2>4, <2>5
<1>12. CASE UNCHANGED vars
  BY <1>0, <1>12 DEF vars, state, ctlVars, hostVars, devVars
<1> QED
  BY <1>1, <1>2, <1>3, <1>4, <1>5, <1>6, <1>7, <1>8, <1>9, <1>10, <1>11, <1>12 DEF Next, Host, Device

\* A device that restarts starts anew, and so do the toggles of the host.
LEMMA RestartedStep == TypeOK /\ Restarted /\ Turns /\ [Next]_vars => Restarted'
<1> SUFFICES ASSUME TypeOK, Restarted, Turns, [Next]_vars PROVE Restarted'
  OBVIOUS
<1> USE DEF Restarted
<1>1. CASE Disconnect
  BY <1>1 DEF Disconnect, AllZero
<1>2. CASE step' = "stream"
  BY <1>2
<1>3. CASE UNCHANGED <<got, nextOut, devOutTog, step>>
  BY <1>3
<1>4. CASE Configure
  BY <1>4 DEF Configure
<1>5. ASSUME Running, step = "stream", UNCHANGED step
      PROVE  step' = "stream"
  BY <1>5
<1>6. CASE NextFrame \/ FrameEndsEarly \/ TooLate \/ Exhausted \/ Error
  BY <1>3, <1>6 DEF NextFrame, FrameEndsEarly, TooLate, Exhausted, Error, StartOfFrame, streamVars, devVars, ctlVars
<1>7. CASE StreamOut \/ WaitAck \/ StreamIn \/ WaitPkt \/ AckIfData
  BY <1>2, <1>7 DEF StreamOut, WaitAck, StreamIn, WaitPkt, AckIfData, Idle, ctlVars
<1>8. CASE TxEnd
  BY <1>2, <1>8 DEF TxEnd, ctlVars
<1>9. CASE ReplyHandshake \/ ReplyData \/ ReplyEmpty
  BY <1>2, <1>9 DEF ReplyHandshake, ReplyData, ReplyEmpty, Reply, Idle, ctlVars
<1>10. CASE UNCHANGED vars
  BY <1>3, <1>10 DEF vars, state, ctlVars, streamVars, devVars
<1> QED
  BY <1>1, <1>4, <1>6, <1>7, <1>8, <1>9, <1>10 DEF Next, Host, Device

\* What a step of collection does to a stream: nothing, or its signature is taken, or a
\* packet is listed.
OutSide == <<step, got, dpi, dpiRewind, nextOut, devOutTog>>
Keeps(s) == received'[s] = received[s] /\ tst'[s] = tst[s] /\ sigExp'[s] = sigExp[s]
Opens(s) ==
  /\ ~Iso(s) /\ sigExp[s] /\ Retrieve
  /\ received'[s] = received[s] /\ tst'[s] = 1 /\ sigExp'[s] = FALSE
Lists(s) ==
  /\ IF Iso(s) THEN packet >= tst[s] ELSE ~Opening(s)
  /\ \E e \in Entry : /\ received'[s] = Append(received[s], e)
                      /\ e.k = (IF Iso(s) THEN packet ELSE tst[s])
                      /\ tst'[s] = e.k + 1
  /\ sigExp'[s] = sigExp[s]

\* A test that makes its packets up has no isochronous stream.
LEMMA IsoRetrieves ==
  ASSUME TypeOK, ~Retrieve, NEW s \in Streams
  PROVE  ~Iso(s)
BY StreamAssumption DEF TypeOK, LegalModes, Iso, Type, Retrieve

\* Polling and collecting concern the list of one stream, and nothing of its way back.
LEMMA CollectStep ==
  ASSUME TypeOK, Turns, StreamIn \/ AckIfData
  PROVE  /\ \A s \in Streams : Keeps(s) \/ Opens(s) \/ Lists(s)
         /\ UNCHANGED OutSide
         /\ hostSt # "WAITACK" /\ hostSt' # "WAITACK" /\ tx'.kind # "out"
<1>0. /\ streamIn \in Streams /\ packet \in Nat
      /\ received \in [Streams -> Seq(Entry)] /\ tst \in [Streams -> Nat] /\ sigExp \in [Streams -> BOOLEAN]
  BY DEF TypeOK, HostTypeOK, PoolTypeOK, StreamTypeOK
<1>1. hostSt # "WAITACK" /\ tx = NoTx /\ tx.kind # "out"
  BY DEF StreamIn, AckIfData, Idle, NoTx
<1>2. UNCHANGED OutSide
  BY DEF StreamIn, AckIfData, OutSide, ctlVars, devVars
<1>3. CASE StreamIn
  <2>1. PICK s \in Streams : Poll(s) \/ Invent(s)
    BY <1>0, <1>3, NextStreamInRange DEF StreamIn
  <2>2. UNCHANGED sigExp
    BY <1>3 DEF StreamIn
  <2>3. CASE Poll(s)
    BY <1>1, <1>2, <2>2, <2>3 DEF Poll, Keeps
  <2>4. CASE Invent(s)
    <3>1. ~Retrieve /\ hostSt' = "STREAMOUT" /\ tx' = tx
      BY <2>4 DEF Invent
    <3>2. \/ UNCHANGED <<received, tst>>
          \/ \E r \in free : /\ received[s] = <<>>
                             /\ received' = [received EXCEPT ![s] = <<[tr |-> r, k |-> tst[s]]>>]
                             /\ tst' = [tst EXCEPT ![s] = @ + 1]
      BY <2>4 DEF Invent
    <3>3. CASE UNCHANGED <<received, tst>>
      BY <1>1, <1>2, <2>2, <3>1, <3>3 DEF Keeps
    <3>4. ASSUME NEW r \in free, received[s] = <<>>,
                 received' = [received EXCEPT ![s] = <<[tr |-> r, k |-> tst[s]]>>],
                 tst' = [tst EXCEPT ![s] = @ + 1]
          PROVE  \A x \in Streams : Keeps(x) \/ Lists(x)
      <4> DEFINE e == [tr |-> r, k |-> tst[s]]
      <4>1. e \in Entry /\ e.k = tst[s]
        BY <1>0, <3>4 DEF Entry, TypeOK, PoolTypeOK
      <4> HIDE DEF e
      <4>2. received'[s] = Append(received[s], e) /\ tst'[s] = e.k + 1
        BY <1>0, <3>4, <4>1 DEF e
      <4>3. Lists(s)
        BY <2>2, <3>1, <4>1, <4>2, IsoRetrieves DEF Lists, Opening
      <4>4. \A x \in Streams \ {s} : Keeps(x)
        BY <1>0, <2>2, <3>4 DEF Keeps
      <4> QED
        BY <4>3, <4>4
    <3> QED
      BY <1>1, <1>2, <3>1, <3>2, <3>3, <3>4
  <2> QED
    BY <2>1, <2>3, <2>4
<1>4. CASE AckIfData
  <2> DEFINE s == streamIn
             r == recving
  <2>1. Retrieve
    BY <1>4 DEF AckIfData, Turns
  <2>2. CASE CollectHandshake(s) \/ InTimeout
    <3>1. UNCHANGED <<received, tst, sigExp, tx>> /\ hostSt' # "WAITACK"
      BY <2>2 DEF CollectHandshake, InTimeout
    <3> QED
      BY <1>1, <1>2, <3>1 DEF Keeps
  <2>3. CASE CollectData(s)
    <3>1. r \in Transfers
      BY <2>3 DEF CollectData, GotReply, TypeOK, PoolTypeOK
    <3>2. hostSt' # "WAITACK" /\ tx'.kind # "out"
      BY <1>1, <2>3 DEF CollectData
    <3>3. CASE Feign(s, r) \/ Refuse(s, r) \/ RefuseIso(s, r)
      <4>1. UNCHANGED <<received, tst, sigExp>>
        BY <3>3 DEF Feign, Refuse, RefuseIso
      <4> QED
        BY <1>1, <1>2, <3>2, <4>1 DEF Keeps
    <3>4. CASE ~Iso(s) /\ TakeSignature(s, r)
      <4>1. \A x \in Streams \ {s} : Keeps(x)
        BY <1>0, <3>4 DEF TakeSignature, Keeps
      <4>2. Opens(s)
        BY <1>0, <2>1, <3>4 DEF TakeSignature, Opens
      <4> QED
        BY <1>1, <1>2, <3>2, <4>1, <4>2
    <3>5. ASSUME \/ ~Iso(s) /\ TakeData(s, r)
                 \/ Iso(s) /\ TakeIso(s, r)
          PROVE  \A x \in Streams : Keeps(x) \/ Lists(x)
      <4> DEFINE e == [tr |-> r, k |-> packet]
      <4>1. e \in Entry /\ e.k = packet
        BY <1>0, <3>1 DEF Entry
      <4>2. /\ received' = [received EXCEPT ![s] = Append(@, e)]
            /\ tst' = [tst EXCEPT ![s] = packet + 1]
            /\ IF Iso(s) THEN packet >= tst[s] ELSE packet = tst[s] /\ ~sigExp[s]
            /\ UNCHANGED sigExp
        BY <1>0, <3>5 DEF TakeData, TakeIso
      <4> HIDE DEF e
      <4>3. \A x \in Streams \ {s} : Keeps(x)
        BY <1>0, <4>2 DEF Keeps
      <4>4. Lists(s)
        BY <1>0, <4>1, <4>2 DEF Lists, Opening
      <4> QED
        BY <4>3, <4>4
    <3> QED
      BY <1>1, <1>2, <2>3, <3>2, <3>3, <3>4, <3>5 DEF CollectData
  <2> QED
    BY <1>4, <2>2, <2>3 DEF AckIfData
<1> QED
  BY <1>3, <1>4

\* Lists stay in order: what is listed is the next expected, what leaves is the oldest.
LEMMA OrderedStep == TypeOK /\ SourceKept /\ Turns /\ Ordered /\ [Next]_vars => Ordered'
<1> SUFFICES ASSUME TypeOK, SourceKept, Turns, Ordered, [Next]_vars,
                    NEW s \in Streams, ~Iso(s)
             PROVE  Consecutive(s)' /\ (Opening(s)' => received'[s] = <<>>)
  BY ModeKept DEF Ordered
<1>0. /\ received[s] \in Seq(Entry) /\ tst[s] \in Nat /\ Consecutive(s)
      /\ Opening(s) => received[s] = <<>>
      /\ Opening(s)' = (Retrieve /\ sigExp'[s])
      /\ received \in [Streams -> Seq(Entry)] /\ streamOut \in Streams
      /\ \A i \in 1..Len(received[s]) : received[s][i].k \in Nat
  <2>1. received[s] \in Seq(Entry)
    BY DEF TypeOK, PoolTypeOK
  <2>2. \A i \in 1..Len(received[s]) : received[s][i] \in Entry
    BY <2>1
  <2>3. \A i \in 1..Len(received[s]) : received[s][i].k \in Nat
    BY <2>2 DEF Entry
  <2>4. tst[s] \in Nat /\ received \in [Streams -> Seq(Entry)] /\ streamOut \in Streams
    BY DEF TypeOK, PoolTypeOK, HostTypeOK, StreamTypeOK
  <2>5. Opening(s)' = (Retrieve /\ sigExp'[s])
    BY ModeKept DEF Opening
  <2> QED
    BY <2>1, <2>3, <2>4, <2>5 DEF Ordered
<1>1. CASE Keeps(s)
  BY <1>0, <1>1 DEF Keeps, Opening, Consecutive
<1>2. CASE received'[s] = <<>>
  BY <1>2 DEF Consecutive
<1>3. CASE StreamIn \/ AckIfData
  <2>1. CASE Opens(s)
    BY <1>0, <1>2, <2>1 DEF Opens, Opening
  <2>2. CASE Lists(s)
    <3>1. ~Opening(s)' /\ ~Opening(s)
      BY <1>0, <2>2 DEF Lists, Opening
    <3>2. PICK e \in Entry : received'[s] = Append(received[s], e) /\ e.k = tst[s] /\ tst'[s] = e.k + 1
      BY <2>2 DEF Lists
    <3> DEFINE n == Len(received[s])
    <3>3. /\ n \in Nat /\ Len(received'[s]) = n + 1 /\ received'[s][n + 1] = e
          /\ \A i \in 1..n : received'[s][i] = received[s][i]
      BY <1>0, <3>2
    <3>4. \A i \in 1..n : received[s][i].k + n = tst[s] + i - 1
      BY <1>0 DEF Consecutive
    <3>5. ASSUME NEW i \in 1..(n + 1)
          PROVE  received'[s][i].k + (n + 1) = tst'[s] + i - 1
      <4>1. CASE i \in 1..n
        <5>1. received'[s][i].k = received[s][i].k /\ received[s][i].k \in Nat
          BY <1>0, <3>3, <4>1
        <5>2. received[s][i].k + n = tst[s] + i - 1
          BY <3>4, <4>1
        <5>3. tst'[s] = tst[s] + 1 /\ tst[s] \in Nat /\ n \in Nat /\ i \in Nat
          BY <1>0, <3>2, <3>3
        <5>4. \A a \in Nat : a + n = tst[s] + i - 1 => a + (n + 1) = tst'[s] + i - 1
          BY <5>3
        <5> QED
          BY <5>1, <5>2, <5>4
      <4>2. CASE i = n + 1
        <5>1. received'[s][i].k = tst[s]
          BY <3>2, <3>3, <4>2
        <5>2. tst[s] \in Nat /\ tst'[s] = tst[s] + 1 /\ n \in Nat
          BY <1>0, <3>2, <3>3
        <5> QED
          BY <4>2, <5>1, <5>2
      <4> QED
        BY <3>3, <4>1, <4>2
    <3>6. Consecutive(s)'
      BY <3>3, <3>5 DEF Consecutive
    <3> QED
      BY <3>1, <3>6
  <2> QED
    BY <1>1, <1>3, <2>1, <2>2, CollectStep
<1>4. CASE StreamOut
  <2>1. PICK x \in Streams : SendReply(x) \/ NothingToSend(x) \/ Discard(x)
    BY <1>0, <1>4, NextStreamInRange DEF StreamOut
  <2>2. UNCHANGED <<tst, sigExp>>
    BY <1>4 DEF StreamOut
  <2>3. received'[s] = received[s] \/ received'[s] = <<>>
    BY <1>0, <2>1 DEF SendReply, NothingToSend, Discard
  <2> QED
    BY <1>1, <1>2, <2>2, <2>3 DEF Keeps
<1>5. CASE WaitAck
  <2>1. UNCHANGED <<tst, sigExp>>
    BY <1>5 DEF WaitAck
  <2>2. CASE AckedOut(streamOut) /\ streamOut = s
    <3>1. received[s] # <<>> /\ received'[s] = Tail(received[s])
      BY <1>0, <1>5, <2>2 DEF AckedOut, Retired, WaitAck, SourceKept
    <3> DEFINE n == Len(received[s])
    <3>2. /\ n \in Nat \ {0} /\ Len(received'[s]) = n - 1
          /\ \A i \in 1..(n - 1) : received'[s][i] = received[s][i + 1]
      BY <1>0, <3>1
    <3>3. ASSUME NEW i \in 1..(n - 1)
          PROVE  received'[s][i].k + (n - 1) = tst[s] + i - 1
      <4>1. i + 1 \in 1..n
        BY <3>2
      <4>2. received[s][i + 1].k + n = tst[s] + (i + 1) - 1 /\ received[s][i + 1].k \in Nat
        BY <1>0, <4>1 DEF Consecutive
      <4>3. received'[s][i].k = received[s][i + 1].k
        BY <3>2
      <4>4. tst[s] \in Nat /\ n \in Nat /\ i \in Nat
        BY <1>0, <3>2
      <4>5. \A a \in Nat : a + n = tst[s] + (i + 1) - 1 => a + (n - 1) = tst[s] + i - 1
        BY <4>4
      <4> QED
        BY <4>2, <4>3, <4>5
    <3>4. Consecutive(s)'
      BY <2>1, <3>2, <3>3 DEF Consecutive
    <3> QED
      BY <1>0, <2>1, <3>1, <3>4 DEF Opening
  <2>3. CASE ~(AckedOut(streamOut) /\ streamOut = s)
    <3>1. received'[s] = received[s]
      BY <1>0, <1>5, <2>3 DEF WaitAck, AckedOut, NakedOut, FailedOut, AwaitOut
    <3> QED
      BY <1>1, <2>1, <3>1 DEF Keeps
  <2> QED
    BY <2>2, <2>3
<1>6. CASE Configure
  BY <1>2, <1>6 DEF Configure
<1>7. CASE UNCHANGED <<received, tst, sigExp>>
  BY <1>1, <1>7 DEF Keeps
<1>8. CASE \/ NextFrame \/ FrameEndsEarly \/ TooLate \/ WaitPkt \/ Error \/ Exhausted
           \/ TxEnd \/ ReplyHandshake \/ ReplyData \/ ReplyEmpty \/ Disconnect \/ UNCHANGED vars
  BY <1>7, <1>8 DEF NextFrame, FrameEndsEarly, StartOfFrame, TooLate, WaitPkt, Error, Exhausted, TxEnd,
     ReplyHandshake, ReplyData, ReplyEmpty, Reply, Disconnect, vars, state, poolVars, streamVars
<1> QED
  BY <1>3, <1>4, <1>5, <1>6, <1>8 DEF Next, Host, Device

\* The types of what belongs to one stream, in one place.
LEMMA StreamFacts ==
  ASSUME TypeOK, NEW s \in Streams
  PROVE  /\ received[s] \in Seq(Entry) /\ Len(received[s]) \in Nat
         /\ got[s] \in Seq(Nat \X Nat) /\ Len(got[s]) \in Nat
         /\ nextOut[s] \in {0, 1} /\ devOutTog[s] \in {0, 1}
         /\ tst[s] \in Nat /\ dpi[s] \in Nat /\ dpiRewind[s] \in Nat /\ sigExp[s] \in BOOLEAN
         /\ FirstData(s) \in {0, 1} /\ FirstData(s) \in Nat
         /\ streamOut \in Streams /\ streamIn \in Streams
<1>1. received[s] \in Seq(Entry) /\ got[s] \in Seq(Nat \X Nat)
  BY DEF TypeOK, PoolTypeOK, DevTypeOK
<1>2. FirstData(s) \in {0, 1} /\ FirstData(s) \in Nat
  BY DEF FirstData
<1>3. nextOut[s] \in {0, 1} /\ devOutTog[s] \in {0, 1}
  BY DEF TypeOK, StreamTypeOK, DevTypeOK
<1>4. tst[s] \in Nat /\ dpi[s] \in Nat /\ dpiRewind[s] \in Nat /\ sigExp[s] \in BOOLEAN
  BY DEF TypeOK, StreamTypeOK
<1>5. streamOut \in Streams /\ streamIn \in Streams
  BY DEF TypeOK, HostTypeOK
<1>6. Len(received[s]) \in Nat /\ Len(got[s]) \in Nat
  BY <1>1
<1> QED
  BY <1>1, <1>2, <1>3, <1>4, <1>5, <1>6

\* What stays when nothing of the stream changes.
SameStream(s) ==
  /\ received'[s] = received[s] /\ tst'[s] = tst[s] /\ sigExp'[s] = sigExp[s]
  /\ got'[s] = got[s] /\ dpi'[s] = dpi[s] /\ dpiRewind'[s] = dpiRewind[s]
  /\ nextOut'[s] = nextOut[s] /\ devOutTog'[s] = devOutTog[s]

\* Where a stream is on its way back depends on nothing else.
LEMMA SameLoop ==
  ASSUME [Next]_vars, NEW s \in Streams, SameStream(s)
  PROVE  /\ GotOf(s)' = GotOf(s) /\ AtRest(s)' = AtRest(s)
         /\ NotTaken(s)' = NotTaken(s) /\ TakenBack(s)' = TakenBack(s)
BY ModeKept DEF SameStream, GotOf, AtRest, NotTaken, TakenBack, Oldest, Opening

\* Packets go back in order, once each.
LEMMA InLoopStep ==
  TypeOK /\ SourceKept /\ Turns /\ Answers /\ Ordered /\ Restarted /\ InLoop /\ [Next]_vars => InLoop'
<1> SUFFICES ASSUME TypeOK, SourceKept, Turns, Answers, Ordered, Restarted, InLoop, [Next]_vars,
                    ~Faulty, NEW s \in Streams, ~Iso(s)
             PROVE  Looped(s)'
  BY ModeKept DEF InLoop
<1>0. Looped(s)
  BY DEF InLoop
<1>1. Send' = Send /\ FirstData(s)' = FirstData(s) /\ Opening(s)' = (Retrieve /\ sigExp'[s])
  BY ModeKept DEF Opening
<1>2. ASSUME SameStream(s), step' = step,
             Waiting(s)' <=> Waiting(s), Waiting(s) => (Acked' <=> Acked),
             tx' = tx \/ tx'.kind # "out"
      PROVE  Looped(s)'
  <2>1. /\ GotOf(s)' /\ (~Send => got'[s] = <<>>)
        /\ step' = "stream" /\ Send' => /\ ~Waiting(s)' => AtRest(s)'
                                        /\ Waiting(s)' /\ Acked' => TakenBack(s)'
                                        /\ Waiting(s)' /\ ~Acked' => NotTaken(s)'
    BY <1>0, <1>1, <1>2, SameLoop DEF Looped, SameStream
  <2>2. tx'.kind = "out" /\ tx'.s = s =>
          tx'.tog = nextOut'[s] /\ tx'.k = Head(received'[s]).k /\ tx'.x = dpiRewind'[s]
    BY <1>0, <1>2 DEF Looped, SameStream
  <2> QED
    BY <1>1, <2>1, <2>2 DEF Looped
<1>3. CASE StreamIn \/ AckIfData
  <2>1. /\ Keeps(s) \/ Opens(s) \/ Lists(s)
        /\ UNCHANGED <<step, got, dpi, dpiRewind, nextOut, devOutTog>>
        /\ ~Waiting(s) /\ ~Waiting(s)' /\ tx'.kind # "out"
    BY <1>3, CollectStep DEF OutSide, Waiting
  <2>2. CASE Keeps(s)
    BY <1>2, <2>1, <2>2 DEF Keeps, SameStream
  <2>3. ASSUME NEW n \in Nat, Opens(s) \/ Lists(s), Oldest(s, n)
        PROVE  Oldest(s, n)'
    <3>1. CASE Opens(s)
      <4>1. n = 1 /\ received'[s] = <<>> /\ tst'[s] = 1 /\ ~Opening(s)'
        BY <1>1, <2>3, <3>1 DEF Opens, Opening, Oldest, Ordered
      <4> QED
        BY <4>1 DEF Oldest
    <3>2. CASE Lists(s)
      <4>1. ~Opening(s)' /\ n + Len(received[s]) = tst[s]
        BY <1>1, <2>3, <3>2 DEF Lists, Opening, Oldest
      <4>2. Len(received'[s]) = Len(received[s]) + 1 /\ tst'[s] = tst[s] + 1
        BY <3>2, StreamFacts DEF Lists
      <4>3. n + Len(received'[s]) = tst'[s]
        BY <4>1, <4>2, StreamFacts
      <4> QED
        BY <4>1, <4>3 DEF Oldest
    <3> QED
      BY <2>3, <3>1, <3>2
  <2>4. CASE Opens(s) \/ Lists(s)
    <3>1. ASSUME step = "stream", Send
          PROVE  AtRest(s)'
      <4>1. AtRest(s) /\ Len(got[s]) + FirstData(s) \in Nat
        <5>1. AtRest(s)
          BY <1>0, <2>1, <3>1 DEF Looped
        <5>2. Len(got[s]) \in Nat /\ FirstData(s) \in Nat
          BY StreamFacts
        <5> QED
          BY <5>1, <5>2
      <4>2. \A n \in Nat : Oldest(s, n) => Oldest(s, n)'
        BY <2>3, <2>4
      <4>3. Oldest(s, Len(got[s]) + FirstData(s))'
        BY <1>1, <2>1, <4>1, <4>2 DEF AtRest
      <4> QED
        BY <2>1, <4>1, <4>3 DEF AtRest
    <3>2. GotOf(s)' /\ (~Send => got'[s] = <<>>)
      BY <1>0, <1>1, <2>1 DEF Looped, GotOf
    <3> QED
      BY <1>1, <2>1, <3>1, <3>2 DEF Looped
  <2> QED
    BY <2>1, <2>2, <2>4
<1>4. CASE StreamOut
  <2>1. PICK x \in Streams : streamOut' = x /\ (SendReply(x) \/ NothingToSend(x) \/ Discard(x))
    BY <1>4, NextStreamInRange, StreamFacts DEF StreamOut
  <2>2. /\ hostSt \notin Conversing /\ tx = NoTx /\ dev = "quiet" /\ step = "stream"
        /\ UNCHANGED <<step, dev, got, devOutTog, nextOut, tst, sigExp>>
        /\ ~Waiting(s) /\ tx.kind # "out"
    BY <1>4 DEF StreamOut, Idle, Conversing, Waiting, NoTx, Turns, ctlVars, devVars
  <2>3. CASE SendReply(x) /\ x = s
    <3>1. /\ Send /\ UNCHANGED received /\ bus' = "Out" /\ hostSt' = "WAITACK"
          /\ tx' = [kind |-> "out", s |-> s, tog |-> nextOut[s], k |-> Head(received[s]).k, x |-> dpi[s]]
          /\ dpi'[s] = dpi[s] + 1 /\ dpiRewind'[s] = dpi[s]
      BY <2>3 DEF SendReply, TypeOK, StreamTypeOK
    <3>2. AtRest(s) /\ GotOf(s)
      BY <1>0, <2>2, <3>1 DEF Looped
    <3>3. ~Acked'
      BY <2>2, <3>1 DEF Acked
    <3>4. Oldest(s, Len(got[s]) + FirstData(s))'
      BY <1>1, <2>2, <3>1, <3>2 DEF AtRest, Oldest, Opening
    <3>5. NotTaken(s)'
      BY <2>2, <3>1, <3>2, <3>4 DEF AtRest, NotTaken
    <3>6. GotOf(s)'
      BY <1>1, <2>2, <3>2 DEF GotOf
    <3>7. tx'.tog = nextOut'[s] /\ tx'.k = Head(received'[s]).k /\ tx'.x = dpiRewind'[s]
      BY <2>2, <3>1
    <3>8. Waiting(s)'
      BY <2>1, <2>3, <3>1 DEF Waiting
    <3> QED
      BY <1>1, <3>1, <3>3, <3>5, <3>6, <3>7, <3>8 DEF Looped
  <2>4. CASE SendReply(x) /\ x # s
    <3>1. SameStream(s) /\ ~Waiting(s)'
      BY <2>1, <2>2, <2>4 DEF SendReply, SameStream, Waiting, TypeOK, StreamTypeOK
    <3>2. tx'.kind = "out" /\ tx'.s = x /\ Send
      BY <2>4 DEF SendReply
    <3>3. GotOf(s)' /\ AtRest(s)'
      BY <1>0, <2>2, <3>1, <3>2, SameLoop DEF Looped
    <3> QED
      BY <1>1, <2>2, <2>4, <3>1, <3>2, <3>3 DEF Looped
  <2>5. CASE NothingToSend(x)
    <3>1. SameStream(s) /\ ~Waiting(s)' /\ tx' = tx
      BY <2>2, <2>5 DEF NothingToSend, SameStream, Waiting
    <3> QED
      BY <1>2, <2>2, <3>1
  <2>6. CASE Discard(x)
    <3>1. ~Send /\ UNCHANGED <<tx, got>>
      BY <2>2, <2>6 DEF Discard
    <3> QED
      BY <1>0, <1>1, <2>2, <3>1 DEF Looped, GotOf
  <2> QED
    BY <2>1, <2>3, <2>4, <2>5, <2>6
<1>5. CASE WaitAck
  <2>1. /\ hostSt = "WAITACK" /\ step = "stream" /\ tx.kind = "none" /\ Send /\ streamOut \in Streams
        /\ dev = "quiet" \/ bus # "OutAck"
        /\ UNCHANGED <<step, bus, lastPid, streamOut, tx, dev, got, devOutTog, tst, sigExp, dpiRewind>>
    BY <1>5, StreamFacts DEF WaitAck, Idle, NoTx, Turns, ctlVars, devVars
  <2>2. CASE streamOut # s
    <3>1. SameStream(s)
      BY <1>5, <2>1, <2>2 DEF WaitAck, AckedOut, NakedOut, FailedOut, AwaitOut, Rewind, SameStream,
         TypeOK, StreamTypeOK, PoolTypeOK
    <3> QED
      BY <1>2, <2>1, <2>2, <3>1 DEF Waiting
  <2>3. CASE streamOut = s /\ AwaitOut(s)
    <3>1. SameStream(s) /\ UNCHANGED hostSt
      BY <2>1, <2>3 DEF AwaitOut, SameStream
    <3> QED
      BY <1>2, <2>1, <3>1 DEF Waiting, Acked
  <2>4. CASE streamOut = s /\ FailedOut(s)
    BY <2>1, <2>4 DEF FailedOut, TimedOut, Answers
  <2>5. CASE streamOut = s /\ NakedOut(s)
    <3>1. /\ ~Acked /\ hostSt' = "STREAMIN" /\ dpi'[s] = dpiRewind[s]
          /\ UNCHANGED <<received, nextOut>>
      BY <2>1, <2>5 DEF NakedOut, Acked, Rewind, TypeOK, StreamTypeOK
    <3>2. NotTaken(s) /\ GotOf(s)
      BY <1>0, <2>1, <2>5, <3>1 DEF Looped, Waiting
    <3>3. GotOf(s)' /\ AtRest(s)'
      BY <1>1, <2>1, <3>1, <3>2 DEF NotTaken, AtRest, GotOf, Oldest, Opening
    <3> QED
      BY <1>1, <2>1, <3>1, <3>3 DEF Looped, Waiting
  <2>6. CASE streamOut = s /\ AckedOut(s)
    <3>1. /\ Acked /\ hostSt' = "STREAMIN" /\ dpi' = dpi /\ nextOut'[s] = 1 - nextOut[s]
          /\ received'[s] = Tail(received[s]) /\ received[s] # <<>>
      BY <1>5, <2>1, <2>6 DEF AckedOut, Acked, Advance, Retired, SourceKept, TypeOK, StreamTypeOK, PoolTypeOK,
         WaitAck
    <3>2. TakenBack(s) /\ GotOf(s)
      BY <1>0, <2>1, <2>6, <3>1 DEF Looped, Waiting
    <3>3. GotOf(s)' /\ devOutTog'[s] = nextOut'[s] /\ dpi'[s] = Len(got'[s])
      <4>1. GotOf(s)' /\ dpi'[s] = Len(got'[s])
        BY <1>1, <2>1, <3>1, <3>2 DEF TakenBack, GotOf
      <4>2. nextOut[s] \in {0, 1} /\ devOutTog[s] \in {0, 1}
        BY StreamFacts
      <4>3. devOutTog'[s] = nextOut'[s]
        BY <2>1, <3>1, <3>2, <4>2 DEF TakenBack
      <4> QED
        BY <4>1, <4>3
    <3>4. ~Opening(s) /\ ~Opening(s)'
      BY <1>1, <2>1, <3>1 DEF Ordered, Opening
    <3>5. Len(got[s]) + FirstData(s) - 1 + Len(received[s]) = tst[s]
      BY <3>2, <3>4 DEF TakenBack, Oldest
    <3>6. Len(received'[s]) = Len(received[s]) - 1 /\ Len(received[s]) \in Nat
      BY <3>1, StreamFacts
    <3>7. Len(got'[s]) + FirstData(s) + Len(received'[s]) = tst'[s]
      <4> DEFINE a == Len(got[s])
                 f == FirstData(s)
                 r == Len(received[s])
                 t == tst[s]
      <4>1. a \in Nat /\ f \in Nat /\ r \in Nat /\ t \in Nat
        BY StreamFacts
      <4>2. a + f - 1 + r = t
        BY <3>5
      <4> HIDE DEF a, f, r, t
      <4>3. a + f + (r - 1) = t
        BY <4>1, <4>2
      <4> QED
        BY <2>1, <3>6, <4>3 DEF a, f, r, t
    <3>8. AtRest(s)'
      BY <1>1, <3>3, <3>4, <3>7 DEF AtRest, Oldest
    <3> QED
      BY <1>1, <2>1, <3>1, <3>3, <3>8 DEF Looped, Waiting
  <2> QED
    BY <1>5, <2>2, <2>3, <2>4, <2>5, <2>6 DEF WaitAck
<1>6. CASE FrameEndsEarly
  BY <1>6 DEF FrameEndsEarly, Idle, NoTx, Answers
<1>7. CASE TxEnd
  <2>1. /\ tx'.kind = "none" /\ step = "stream"
        /\ UNCHANGED <<step, hostSt, bus, lastPid, streamOut, received, tst, sigExp, dpi, dpiRewind, nextOut>>
    BY <1>7 DEF TxEnd, NoTx, ctlVars, poolVars, streamVars
  <2>2. CASE tx.kind # "out"
    <3>1. UNCHANGED <<got, devOutTog>> /\ hostSt # "WAITACK"
      <4>1. HandshakeSent \/ TokenSent
        BY <1>7, <2>2 DEF TxEnd, OutTaken, OutRefused
      <4>2. UNCHANGED <<got, devOutTog>> /\ tx.kind \in {"sof", "ack", "nak", "in"}
        BY <4>1 DEF HandshakeSent, TokenSent
      <4> QED
        BY <4>2 DEF Turns, NoTx
    <3> QED
      BY <1>2, <2>1, <3>1 DEF SameStream, Waiting
  <2>3. CASE tx.kind = "out" /\ tx.s # s
    <3>1. ~Waiting(s) /\ ~Waiting(s)'
      BY <2>1, <2>3 DEF Waiting, Turns, NoTx
    <3>2. SameStream(s)
      <4>1. OutTaken \/ OutRefused
        BY <1>7, <2>3 DEF TxEnd, HandshakeSent, TokenSent
      <4>2. got'[s] = got[s] /\ devOutTog'[s] = devOutTog[s]
        BY <2>3, <4>1 DEF OutTaken, OutRefused, TypeOK, DevTypeOK
      <4> QED
        BY <2>1, <4>2 DEF SameStream
    <3> QED
      BY <1>2, <2>1, <3>1, <3>2
  <2>4. CASE tx.kind = "out" /\ tx.s = s
    <3>1. /\ Waiting(s) /\ Waiting(s)' /\ bus = "Out" /\ bus' = "Out" /\ ~Acked /\ Send
      BY <2>1, <2>4 DEF Waiting, Turns, NoTx, Conversing, Acked
    <3>2. /\ NotTaken(s) /\ GotOf(s)
          /\ tx.tog = nextOut[s] /\ tx.k = Head(received[s]).k /\ tx.x = dpiRewind[s]
      BY <1>0, <2>1, <2>4, <3>1 DEF Looped
    <3>3. OutTaken \/ OutRefused
      BY <1>7, <2>4 DEF TxEnd, HandshakeSent, TokenSent
    <3>4. CASE OutRefused
      <4>1. dev' = "NAK" /\ SameStream(s)
        BY <2>1, <2>4, <3>4 DEF OutRefused, SameStream
      <4>2. ~Acked'
        BY <3>1, <4>1 DEF Acked
      <4> QED
        BY <1>2, <2>1, <3>1, <4>1, <4>2
    <3>5. CASE OutTaken
      <4> DEFINE n == Len(got[s])
      <4>1. /\ dev' = "ACK" /\ got'[s] = Append(got[s], <<tx.k, tx.x>>)
            /\ devOutTog'[s] # nextOut[s]
        <5>1. tx.tog = devOutTog[s] /\ devOutTog[s] \in {0, 1} /\ got[s] \in Seq(Nat \X Nat)
          BY <3>2, StreamFacts DEF NotTaken
        <5>2. dev' = "ACK" /\ got' = [got EXCEPT ![s] = Append(@, <<tx.k, tx.x>>)]
          BY <2>4, <3>5, <5>1 DEF OutTaken
        <5>3. devOutTog' = [devOutTog EXCEPT ![s] = 1 - @]
          BY <2>4, <3>5, <5>1 DEF OutTaken
        <5>4. got'[s] = Append(got[s], <<tx.k, tx.x>>)
          BY <5>2 DEF TypeOK, DevTypeOK
        <5>5. devOutTog'[s] = 1 - devOutTog[s]
          BY <5>3 DEF TypeOK, DevTypeOK
        <5> QED
          BY <3>2, <5>1, <5>2, <5>4, <5>5 DEF NotTaken
      <4>2. /\ Len(got'[s]) = n + 1 /\ got'[s][n + 1] = <<tx.k, tx.x>>
            /\ n \in Nat /\ \A i \in 1..n : got'[s][i] = got[s][i]
        BY <4>1, StreamFacts
      <4>3. tx.k = n + FirstData(s) /\ tx.x = n
        <5>1. received[s] # <<>> /\ ~Opening(s)
          BY <3>1 DEF SourceKept, Waiting, Ordered
        <5>2. Head(received[s]) = received[s][1] /\ 1 \in 1..Len(received[s]) /\ received[s][1] \in Entry
          BY <5>1, StreamFacts
        <5>3. received[s][1].k + Len(received[s]) = tst[s] + 1 - 1 /\ received[s][1].k \in Nat
          BY <5>2 DEF Ordered, Consecutive, Entry
        <5>4. n + FirstData(s) + Len(received[s]) = tst[s]
          BY <3>2, <5>1 DEF NotTaken, Oldest
        <5>5. received[s][1].k = n + FirstData(s)
          <6>1. \A k, a, r, t \in Nat : k + r = t + 1 - 1 /\ a + r = t => k = a
            OBVIOUS
          <6>2. n \in Nat /\ FirstData(s) \in Nat
            BY StreamFacts
          <6>3. Len(received[s]) \in Nat /\ tst[s] \in Nat
            BY StreamFacts
          <6>4. n + FirstData(s) \in Nat
            BY <6>2
          <6> DEFINE k == received[s][1].k
          <6> DEFINE a == n + FirstData(s)
          <6> DEFINE r == Len(received[s])
          <6> DEFINE t == tst[s]
          <6>5. k \in Nat /\ a \in Nat /\ r \in Nat /\ t \in Nat
            BY <5>3, <6>3, <6>4
          <6>6. k + r = t + 1 - 1 /\ a + r = t
            BY <5>3, <5>4
          <6> HIDE DEF k, a, r, t
          <6>7. k = a
            BY <6>1, <6>5, <6>6
          <6> QED
            BY <6>7 DEF k, a
        <5> QED
          BY <3>2, <5>2, <5>5 DEF NotTaken
      <4>4. GotOf(s)'
        <5>1. \A i \in 1..n : got[s][i] = <<i - 1 + FirstData(s), i - 1>>
          BY <3>2 DEF GotOf
        <5>2. got'[s][n + 1] = <<(n + 1) - 1 + FirstData(s), (n + 1) - 1>>
          BY <4>2, <4>3, StreamFacts
        <5>3. \A i \in 1..(n + 1) : i \in 1..n \/ i = n + 1
          BY <4>2
        <5>4. \A i \in 1..(n + 1) : got'[s][i] = <<i - 1 + FirstData(s), i - 1>>
          BY <4>2, <5>1, <5>2, <5>3, Zenon
        <5> QED
          BY <1>1, <4>2, <5>4 DEF GotOf
      <4>5. Oldest(s, Len(got[s]) + FirstData(s) - 1)'
        <5>1. Len(got'[s]) + FirstData(s) - 1 = n + FirstData(s)
          BY <4>2, StreamFacts
        <5> QED
          BY <1>1, <2>1, <3>2, <5>1 DEF NotTaken, Oldest, Opening
      <4>6. TakenBack(s)'
        BY <2>1, <3>2, <4>1, <4>2, <4>5 DEF NotTaken, TakenBack
      <4>7. Acked'
        BY <4>1 DEF Acked
      <4> QED
        BY <1>1, <2>1, <3>1, <4>4, <4>6, <4>7 DEF Looped
    <3> QED
      BY <3>3, <3>4, <3>5
  <2> QED
    BY <2>2, <2>3, <2>4
<1>8. CASE ReplyHandshake \/ ReplyData \/ ReplyEmpty
  <2>1. /\ UNCHANGED <<step, hostSt, streamOut, tx, received, got, devOutTog>> /\ UNCHANGED streamVars
        /\ tx.kind = "none" /\ dev' = "quiet" /\ dev # "quiet"
        /\ bus' = IF bus = "InToken" THEN "InData" ELSE IF bus = "Out" THEN "OutAck" ELSE bus
        /\ dev # "in" => lastPid' = dev
    BY <1>8 DEF ReplyHandshake, ReplyData, ReplyEmpty, Reply, Idle, NoTx, ctlVars
  <2>2. SameStream(s) /\ (Waiting(s)' <=> Waiting(s))
    BY <2>1 DEF SameStream, Waiting, streamVars
  <2>3. ASSUME Waiting(s) PROVE Acked' <=> Acked
    <3>1. bus = "Out" /\ dev # "in"
      BY <2>1, <2>3 DEF Waiting, Turns, Conversing
    <3> QED
      BY <2>1, <3>1 DEF Acked
  <2> QED
    BY <1>2, <2>1, <2>2, <2>3
<1>9. CASE Configure
  <2>1. /\ got'[s] = <<>> /\ nextOut'[s] = 0 /\ devOutTog'[s] = 0 /\ received'[s] = <<>>
        /\ tst'[s] = 0 /\ dpi'[s] = 0 /\ sigExp'[s] = TRUE /\ hostSt' = "NEXTFRAME" /\ tx'.kind = "none"
    BY <1>9 DEF Configure, Restarted, Turns, NoTx, AllZero, devVars
  <2>2. AtRest(s)' /\ GotOf(s)'
    BY <1>1, <2>1, ModeKept DEF AtRest, GotOf, Oldest, Opening, FirstData
  <2> QED
    BY <2>1, <2>2 DEF Looped, Waiting
<1>10. CASE Disconnect
  BY <1>10 DEF Disconnect, Looped, GotOf, NoTx
<1>11. CASE NextFrame \/ TooLate \/ WaitPkt \/ Error \/ Exhausted \/ UNCHANGED vars
  <2>1. /\ UNCHANGED <<step, streamOut, received, dev, got, devOutTog, bus, lastPid>> /\ UNCHANGED streamVars
    BY <1>11 DEF NextFrame, StartOfFrame, TooLate, WaitPkt, Error, Exhausted, vars, state, ctlVars, hostVars,
       poolVars, streamVars, devVars
  <2>2. tx' = tx \/ tx'.kind # "out"
    BY <1>11 DEF NextFrame, StartOfFrame, TooLate, WaitPkt, Error, Exhausted, vars, state, hostVars
  <2>3. hostSt' = hostSt \/ (hostSt # "WAITACK" /\ hostSt' # "WAITACK")
    BY <1>11 DEF NextFrame, StartOfFrame, TooLate, WaitPkt, Error, Exhausted, vars, state, hostVars
  <2> QED
    BY <1>2, <2>1, <2>2, <2>3 DEF SameStream, Waiting, Acked, streamVars
<1> QED
  BY <1>3, <1>4, <1>5, <1>6, <1>7, <1>8, <1>9, <1>10, <1>11 DEF Next, Host, Device

\* Isochronous packets go back in order.
LEMMA IsoRisingStep ==
  TypeOK /\ SourceKept /\ Turns /\ Restarted /\ IsoRising /\ [Next]_vars => IsoRising'
<1> SUFFICES ASSUME TypeOK, SourceKept, Turns, Restarted, IsoRising, [Next]_vars,
                    NEW s \in Streams, Iso(s)
             PROVE  Rising(s)'
  BY ModeKept DEF IsoRising
<1>0. Rising(s) /\ Retrieve
  BY IsoRetrieves DEF IsoRising
<1>1. /\ \A i \in 1..Len(received[s]) : received[s][i].k \in Nat
      /\ \A i \in 1..Len(got[s]) : got[s][i][1] \in Nat /\ got[s][i][2] \in Nat
  <2>1. /\ \A i \in 1..Len(received[s]) : received[s][i] \in Entry
        /\ \A i \in 1..Len(got[s]) : got[s][i] \in Nat \X Nat
    BY StreamFacts
  <2> QED
    BY <2>1 DEF Entry
<1>2. ASSUME SameStream(s), Waiting(s)' <=> Waiting(s), tx' = tx \/ tx'.kind # "out"
      PROVE  Rising(s)'
  BY <1>0, <1>2 DEF Rising, SameStream
<1>3. CASE StreamIn \/ AckIfData
  <2>1. /\ Keeps(s) \/ Lists(s)
        /\ UNCHANGED <<step, got, dpi, dpiRewind, nextOut, devOutTog>>
        /\ ~Waiting(s) /\ ~Waiting(s)' /\ tx'.kind # "out"
    BY <1>3, CollectStep DEF OutSide, Waiting, Opens
  <2>2. CASE Keeps(s)
    BY <1>2, <2>1, <2>2 DEF Keeps, SameStream
  <2>3. CASE Lists(s)
    <3> DEFINE n == Len(received[s])
    <3>1. PICK e \in Entry : received'[s] = Append(received[s], e) /\ e.k >= tst[s] /\ tst'[s] = e.k + 1
      BY <2>3 DEF Lists
    <3>2. e.k \in Nat /\ tst[s] \in Nat
      BY StreamFacts DEF Entry
    <3>3. /\ n \in Nat /\ Len(received'[s]) = n + 1 /\ received'[s][n + 1] = e
          /\ \A i \in 1..n : received'[s][i] = received[s][i]
      BY <3>1, StreamFacts
    <3>4. \A i \in 1..(n + 1) : i \in 1..n \/ i = n + 1
      BY <3>3
    <3>5. \A i \in 1..n : received[s][i].k < tst[s] /\ received[s][i].k < e.k /\ received[s][i].k < tst'[s]
      BY <1>0, <1>1, <3>1, <3>2 DEF Rising
    <3>6. \A i \in 1..Len(got[s]) : got[s][i][1] < e.k /\ got[s][i][1] < tst'[s] /\ got[s][i][2] < dpi[s]
      BY <1>0, <1>1, <3>1, <3>2 DEF Rising
    <3>7. \A i \in 1..(n + 1) : received'[s][i].k < tst'[s]
      BY <3>1, <3>2, <3>3, <3>4, <3>5
    <3>8. \A i, j \in 1..(n + 1) : i < j => received'[s][i].k < received'[s][j].k
      <4> SUFFICES ASSUME NEW i \in 1..(n + 1), NEW j \in 1..(n + 1), i < j
                   PROVE  received'[s][i].k < received'[s][j].k
        OBVIOUS
      <4>1. i \in 1..n
        BY <3>3
      <4>2. CASE j \in 1..n
        BY <1>0, <3>3, <4>1, <4>2 DEF Rising
      <4>3. CASE j = n + 1
        BY <3>3, <3>5, <4>1, <4>3
      <4> QED
        BY <3>4, <4>2, <4>3
    <3>9. \A i \in 1..Len(got[s]), j \in 1..(n + 1) : got[s][i][1] < received'[s][j].k
      <4> SUFFICES ASSUME NEW i \in 1..Len(got[s]), NEW j \in 1..(n + 1)
                   PROVE  got[s][i][1] < received'[s][j].k
        OBVIOUS
      <4>1. CASE j \in 1..n
        BY <1>0, <2>1, <3>3, <4>1 DEF Rising
      <4>2. CASE j = n + 1
        BY <3>3, <3>6, <4>2
      <4> QED
        BY <3>4, <4>1, <4>2
    <3>10. \A i, j \in 1..Len(got[s]) : i < j => got[s][i][1] < got[s][j][1] /\ got[s][i][2] < got[s][j][2]
      BY <1>0 DEF Rising
    <3> HIDE DEF n
    <3> QED
      BY <2>1, <3>3, <3>6, <3>7, <3>8, <3>9, <3>10 DEF Rising
  <2> QED
    BY <2>1, <2>2, <2>3
<1>4. CASE StreamOut
  <2>1. PICK x \in Streams : streamOut' = x /\ (SendReply(x) \/ NothingToSend(x) \/ Discard(x))
    BY <1>4, NextStreamInRange, StreamFacts DEF StreamOut
  <2>2. /\ tx.kind = "none" /\ UNCHANGED <<got, devOutTog, nextOut, tst, sigExp>> /\ ~Waiting(s)
    BY <1>4 DEF StreamOut, Idle, Waiting, NoTx, devVars
  <2>3. CASE SendReply(x) /\ x = s
    <3>1. /\ UNCHANGED received /\ Waiting(s)' /\ received[s] # <<>> /\ dpi'[s] = dpi[s] + 1
          /\ tx'.k = Head(received[s]).k /\ tx'.x = dpi[s]
      BY <2>1, <2>3 DEF SendReply, Waiting, TypeOK, StreamTypeOK
    <3>2. 1 \in 1..Len(received[s]) /\ Head(received[s]) = received[s][1]
      BY <3>1, StreamFacts
    <3>3. \A i \in 1..Len(got[s]) : got[s][i][1] < tx'.k /\ got[s][i][2] < tx'.x
      BY <1>0, <2>2, <3>1, <3>2 DEF Rising
    <3>4. dpi[s] < dpi'[s] /\ \A i \in 1..Len(got[s]) : got[s][i][2] < dpi'[s]
      <4>1. dpi[s] \in Nat /\ dpi[s] < dpi'[s]
        BY <3>1, StreamFacts
      <4>2. \A i \in 1..Len(got[s]) : got[s][i][2] < dpi[s]
        BY <1>0 DEF Rising
      <4> QED
        BY <1>1, <3>1, <4>1, <4>2
    <3> QED
      BY <1>0, <2>2, <3>1, <3>3, <3>4 DEF Rising
  <2>4. CASE SendReply(x) /\ x # s
    <3>1. SameStream(s) /\ ~Waiting(s)' /\ tx'.s # s
      BY <2>1, <2>2, <2>4 DEF SendReply, SameStream, Waiting, TypeOK, StreamTypeOK
    <3> QED
      BY <1>0, <2>2, <3>1 DEF Rising, SameStream
  <2>5. CASE NothingToSend(x)
    <3>1. SameStream(s) /\ ~Waiting(s)' /\ tx' = tx
      BY <2>2, <2>5 DEF NothingToSend, SameStream, Waiting
    <3> QED
      BY <1>2, <2>2, <3>1
  <2>6. CASE Discard(x)
    <3>1. /\ UNCHANGED <<tx, got, dpi, dpiRewind>> /\ ~Waiting(s)'
          /\ received'[s] = <<>> \/ received'[s] = received[s]
      BY <2>2, <2>6 DEF Discard, Waiting, TypeOK, PoolTypeOK
    <3>2. CASE received'[s] = received[s]
      BY <1>2, <2>2, <3>1, <3>2 DEF SameStream
    <3>3. CASE received'[s] = <<>>
      BY <1>0, <2>2, <3>1, <3>3 DEF Rising
    <3> QED
      BY <3>1, <3>2, <3>3
  <2> QED
    BY <2>1, <2>3, <2>4, <2>5, <2>6
<1>5. CASE WaitAck
  <2>1. /\ hostSt = "WAITACK" /\ tx.kind = "none" /\ streamOut \in Streams
        /\ UNCHANGED <<streamOut, tx, got, devOutTog, tst, sigExp, dpiRewind>>
    BY <1>5, StreamFacts DEF WaitAck, Idle, NoTx, devVars
  <2>2. CASE streamOut # s
    <3>1. SameStream(s)
      BY <1>5, <2>1, <2>2 DEF WaitAck, AckedOut, NakedOut, FailedOut, AwaitOut, Rewind, SameStream,
         TypeOK, StreamTypeOK, PoolTypeOK
    <3> QED
      BY <1>2, <2>1, <2>2, <3>1 DEF Waiting
  <2>3. CASE streamOut = s
    <3> DEFINE n == Len(received[s])
    <3>1. /\ dpi' = dpi /\ ~Waiting(s)' /\ Waiting(s)
          /\ received'[s] = Tail(received[s]) /\ received[s] # <<>>
      BY <1>5, <2>1, <2>3 DEF WaitAck, AckedOut, NakedOut, FailedOut, AwaitOut, Retired, SourceKept, Waiting,
         TypeOK, PoolTypeOK
    <3>2. /\ n \in Nat \ {0} /\ Len(received'[s]) = n - 1
          /\ \A i \in 1..(n - 1) : received'[s][i] = received[s][i + 1]
      BY <3>1, StreamFacts
    <3>3. \A i \in 1..(n - 1) : i \in Nat /\ i + 1 \in 1..n /\ i + 1 # 1
      BY <3>2
    <3>4. \A i \in 1..(n - 1) : received'[s][i].k < tst[s]
      BY <1>0, <3>2, <3>3 DEF Rising
    <3>5. \A i, j \in 1..(n - 1) : i < j => received'[s][i].k < received'[s][j].k
      BY <1>0, <3>2, <3>3 DEF Rising
    <3>6. \A i \in 1..Len(got[s]), j \in 1..(n - 1) : got[s][i][1] < received'[s][j].k
      BY <1>0, <3>2, <3>3 DEF Rising
    <3>7. /\ \A i \in 1..Len(got[s]) : got[s][i][1] < tst[s] /\ got[s][i][2] < dpi[s]
          /\ \A i, j \in 1..Len(got[s]) : i < j => got[s][i][1] < got[s][j][1] /\ got[s][i][2] < got[s][j][2]
      BY <1>0 DEF Rising
    <3> HIDE DEF n
    <3> QED
      BY <2>1, <3>1, <3>2, <3>4, <3>5, <3>6, <3>7 DEF Rising
  <2> QED
    BY <2>2, <2>3
<1>6. CASE TxEnd
  <2>1. /\ tx'.kind = "none" /\ (Waiting(s)' <=> Waiting(s))
        /\ UNCHANGED <<received, tst, sigExp, dpi, dpiRewind, nextOut>>
    BY <1>6 DEF TxEnd, NoTx, poolVars, streamVars, Waiting
  <2>2. CASE got'[s] = got[s]
    BY <1>0, <2>1, <2>2 DEF Rising
  <2>3. CASE got'[s] # got[s]
    <3> DEFINE n == Len(got[s])
               e == <<tx.k, tx.x>>
    <3>1. tx.kind = "out" /\ tx.s = s /\ got'[s] = Append(got[s], e) /\ tx.k \in Nat /\ tx.x \in Nat
      <4>1. OutTaken
        BY <1>6, <2>3 DEF TxEnd, HandshakeSent, TokenSent, OutRefused
      <4>2. got' = [got EXCEPT ![tx.s] = Append(@, e)] /\ tx.kind = "out"
        BY <2>3, <4>1 DEF OutTaken
      <4>3. tx.s = s
        BY <2>3, <4>2 DEF TypeOK, DevTypeOK
      <4>4. got'[s] = Append(got[s], e)
        BY <4>2, <4>3 DEF TypeOK, DevTypeOK
      <4>5. tx.k \in Nat /\ tx.x \in Nat
        BY <4>2, TxStream DEF TypeOK, HostTypeOK
      <4> QED
        BY <4>2, <4>3, <4>4, <4>5
    <3>2. Waiting(s) /\ received[s] # <<>>
      BY <3>1 DEF Waiting, Turns, NoTx, Conversing, SourceKept
    <3>3. Head(received[s]) = received[s][1] /\ 1 \in 1..Len(received[s])
      BY <3>2, StreamFacts
    <3>4. /\ tx.k = received[s][1].k /\ tx.k < tst[s] /\ tx.x < dpi[s]
          /\ \A i \in 1..n : got[s][i][1] < tx.k /\ got[s][i][2] < tx.x
      BY <1>0, <3>1, <3>3 DEF Rising
    <3>5. /\ n \in Nat /\ Len(got'[s]) = n + 1 /\ got'[s][n + 1] = e
          /\ \A i \in 1..n : got'[s][i] = got[s][i]
      BY <3>1, StreamFacts
    <3>6. \A i \in 1..(n + 1) : i \in 1..n \/ i = n + 1
      BY <3>5
    <3>7. \A i \in 1..(n + 1) : got'[s][i][1] < tst[s] /\ got'[s][i][2] < dpi[s]
      <4>1. \A i \in 1..n : got[s][i][1] < tst[s] /\ got[s][i][2] < dpi[s]
        BY <1>0 DEF Rising
      <4>2. \A i \in 1..n : got'[s][i][1] < tst[s] /\ got'[s][i][2] < dpi[s]
        BY <3>5, <4>1
      <4>3. got'[s][n + 1][1] < tst[s] /\ got'[s][n + 1][2] < dpi[s]
        BY <3>4, <3>5
      <4> QED
        BY <3>6, <4>2, <4>3
    <3>8. \A i, j \in 1..(n + 1) : i < j => got'[s][i][1] < got'[s][j][1] /\ got'[s][i][2] < got'[s][j][2]
      <4> SUFFICES ASSUME NEW i \in 1..(n + 1), NEW j \in 1..(n + 1), i < j
                   PROVE  got'[s][i][1] < got'[s][j][1] /\ got'[s][i][2] < got'[s][j][2]
        OBVIOUS
      <4>1. i \in 1..n
        BY <3>5
      <4>2. CASE j \in 1..n
        BY <1>0, <3>5, <4>1, <4>2 DEF Rising
      <4>3. CASE j = n + 1
        BY <3>4, <3>5, <4>1, <4>3
      <4> QED
        BY <3>6, <4>2, <4>3
    <3>9. \A i \in 1..(n + 1), j \in 1..Len(received[s]) : got'[s][i][1] < received[s][j].k \/ j = 1
      <4> SUFFICES ASSUME NEW i \in 1..(n + 1), NEW j \in 1..Len(received[s]), j # 1
                   PROVE  got'[s][i][1] < received[s][j].k
        OBVIOUS
      <4>1. CASE i \in 1..n
        BY <1>0, <3>5, <4>1 DEF Rising
      <4>2. CASE i = n + 1
        <5>1. 1 < j
          BY StreamFacts
        <5>2. received[s][1].k < received[s][j].k
          BY <1>0, <3>3, <5>1 DEF Rising
        <5> QED
          BY <3>4, <3>5, <4>2, <5>2
      <4> QED
        BY <3>6, <4>1, <4>2
    <3>10. /\ \A i \in 1..Len(received[s]) : received[s][i].k < tst[s]
           /\ \A i, j \in 1..Len(received[s]) : i < j => received[s][i].k < received[s][j].k
      BY <1>0 DEF Rising
    <3> HIDE DEF n, e
    <3> QED
      BY <2>1, <3>2, <3>5, <3>7, <3>8, <3>9, <3>10 DEF Rising
  <2> QED
    BY <2>2, <2>3
<1>7. CASE Configure
  BY <1>7 DEF Configure, Restarted, Turns, NoTx, devVars, Rising
<1>8. CASE Disconnect
  BY <1>0, <1>8 DEF Disconnect, NoTx, poolVars, Rising
<1>9. CASE ReplyHandshake \/ ReplyData \/ ReplyEmpty
  BY <1>2, <1>9 DEF ReplyHandshake, ReplyData, ReplyEmpty, Reply, SameStream, Waiting, streamVars
<1>10. CASE NextFrame \/ FrameEndsEarly \/ TooLate \/ WaitPkt \/ Error \/ Exhausted \/ UNCHANGED vars
  <2>1. UNCHANGED <<streamOut, received, got, devOutTog>> /\ UNCHANGED streamVars
    BY <1>10 DEF NextFrame, FrameEndsEarly, StartOfFrame, TooLate, WaitPkt, Error, Exhausted, vars, state,
       hostVars, poolVars, streamVars, devVars
  <2>2. tx' = tx \/ tx'.kind # "out"
    BY <1>10 DEF NextFrame, FrameEndsEarly, StartOfFrame, TooLate, WaitPkt, Error, Exhausted, vars, state,
       hostVars
  <2>3. Waiting(s)' <=> Waiting(s)
    BY <1>10, <2>1 DEF NextFrame, FrameEndsEarly, StartOfFrame, TooLate, WaitPkt, Error, Exhausted, vars,
       state, hostVars, Waiting
  <2> QED
    BY <1>2, <2>1, <2>2, <2>3 DEF SameStream, streamVars
<1> QED
  BY <1>3, <1>4, <1>5, <1>6, <1>7, <1>8, <1>9, <1>10 DEF Next, Host, Device

\* The inductive invariant of the conversation and of the order of packets.
OInv ==
  TypeOK /\ SourceKept /\ Turns /\ Answers /\ Ordered /\ Restarted /\ InLoop /\ IsoRising

\* The invariant holds initially.
LEMMA OInvInit == Init => OInv
<1> SUFFICES ASSUME Init PROVE OInv
  OBVIOUS
<1>1. TypeOK /\ SourceKept
  BY InitCorrect
<1>2. Turns /\ Answers
  BY DEF Init, Turns, Answers, Conversing, NoTx, NoFalseAlarm
<1>3. /\ \A s \in Streams : received[s] = <<>> /\ got[s] = <<>> /\ tst[s] = 0 /\ dpi[s] = 0
                           /\ nextOut[s] = 0 /\ devOutTog[s] = 0 /\ sigExp[s] = FALSE
      /\ tx.kind = "none" /\ step = "enum"
  BY DEF Init, AllZero, NoTx
<1>4. Ordered /\ Restarted
  BY <1>3 DEF Ordered, Consecutive, Opening, Restarted
<1>5. InLoop
  BY <1>3 DEF InLoop, Looped, GotOf
<1>6. IsoRising
  BY <1>3 DEF IsoRising, Rising
<1> QED
  BY <1>1, <1>2, <1>4, <1>5, <1>6 DEF OInv

\* The invariant holds throughout.
LEMMA OrderInvariance == Spec => []OInv
<1>1. OInv /\ [Next]_vars => OInv'
  <2> SUFFICES ASSUME OInv, [Next]_vars PROVE OInv'
    OBVIOUS
  <2>1. (TypeOK /\ SourceKept)'
    BY TypeSourceStep DEF OInv
  <2> QED
    BY <2>1, TurnsStep, AnswersStep, OrderedStep, RestartedStep, InLoopStep, IsoRisingStep DEF OInv
<1> QED
  BY <1>1, OInvInit, PTL DEF Spec

\* Packets are listed in order and without gaps, whatever was refused or repeated and
\* however often the device restarts.
THEOREM ReceivedInOrderHolds == Spec => []ReceivedInOrder
<1>1. OInv => ReceivedInOrder
  BY DEF OInv, Ordered, Consecutive, ReceivedInOrder
<1> QED
  BY <1>1, OrderInvariance, PTL

\* The device gets every packet back once, in order, scrambled with the next part of
\* the LFSR sequence, however often host and device refuse one.
THEOREM LoopbackInOrderHolds == Spec => []LoopbackInOrder
<1>1. ASSUME OInv PROVE LoopbackInOrder
  <2> SUFFICES ASSUME NEW s \in Streams, step = "stream", ~Iso(s), ~Faulty
               PROVE  GotOf(s) /\ (Send /\ received[s] # <<>> =>
                                     Head(received[s]).k <= Len(got[s]) + FirstData(s))
    BY DEF LoopbackInOrder, GotOf
  <2>1. Looped(s) /\ Consecutive(s) /\ (Opening(s) => received[s] = <<>>) /\ TypeOK
    BY <1>1 DEF OInv, InLoop, Ordered
  <2>2. ASSUME Send, received[s] # <<>>
        PROVE  Head(received[s]).k <= Len(got[s]) + FirstData(s)
    <3> DEFINE a == Len(got[s])
               f == FirstData(s)
               r == Len(received[s])
               t == tst[s]
               h == Head(received[s]).k
    <3>1. a \in Nat /\ f \in Nat /\ r \in Nat /\ t \in Nat
      BY <2>1, StreamFacts
    <3>2. Head(received[s]) = received[s][1] /\ 1 \in 1..Len(received[s]) /\ received[s][1] \in Entry
      BY <2>1, <2>2, StreamFacts
    <3>3. h + r = t + 1 - 1 /\ h \in Nat
      BY <2>1, <3>2 DEF Consecutive, Entry
    <3>4. a + f + r = t \/ a + f - 1 + r = t
      BY <2>1, <2>2 DEF Looped, AtRest, NotTaken, TakenBack, Oldest
    <3> HIDE DEF a, f, r, t, h
    <3>5. h <= a + f
      BY <3>1, <3>3, <3>4
    <3> QED
      BY <3>5 DEF a, f, h
  <2> QED
    BY <2>1, <2>2 DEF Looped
<1> QED
  BY <1>1, OrderInvariance, PTL

\* The device gets isochronous packets back in the order in which it sent them, whatever
\* is lost.
THEOREM IsoInOrderHolds == Spec => []IsoInOrder
<1>1. OInv => IsoInOrder
  BY DEF OInv, IsoRising, Rising, IsoInOrder
<1> QED
  BY <1>1, OrderInvariance, PTL

\* A device that answers in time never makes the host assert: every answer is the one
\* that was due.
THEOREM NoFalseAlarmHolds == Spec => []NoFalseAlarm
<1>1. OInv => NoFalseAlarm
  BY DEF OInv, Answers, NoFalseAlarm
<1> QED
  BY <1>1, OrderInvariance, PTL

=============================================================================
