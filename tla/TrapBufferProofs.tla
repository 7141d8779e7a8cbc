--------------------------- MODULE TrapBufferProofs ---------------------------
(***************************************************************************)
(* The receiver keeps its counters in agreement with the sequence numbers  *)
(* it has seen, and its positions inside the buffer, for any size of       *)
(* headers and containers, any timeouts and however the other side, a      *)
(* signal or a terminating thread cuts into a call.                        *)
(***************************************************************************)
EXTENDS TrapBuffer, SequenceTheorems, TLAPS

(* What comes over the wire is bytes, also after some of it is read or lost. *)
LEMMA ContainerType ==
  ASSUME made \in Nat, NEW n \in 1 .. MaxBatch
  PROVE  Container(n) \in Seq(Bytes)
  <1>1. HeadLen \in Nat \ {0} /\ MaxBatch \in Nat \ {0}
    BY ReceiverAssumption
  <1>2. HeadLen + n \in Nat
    BY <1>1
  <1>3. ASSUME NEW i \in 1 .. HeadLen + n
        PROVE  (IF i <= HeadLen THEN Byte(i, made, n) ELSE Message(made + i - HeadLen)) \in Bytes
    BY <1>1 DEF Byte, Message, Bytes
  <1>4. Container(n) \in [1 .. HeadLen + n -> Bytes]
    BY <1>3 DEF Container
  <1> QED
    BY <1>2, <1>4

LEMMA JunkType ==
  Junk \in Bytes /\ <<Junk>> \in Seq(Bytes) /\ <<>> \in Seq(Bytes)
  <1>1. Junk \in Bytes
    BY ReceiverAssumption DEF Junk, Byte, Bytes
  <1> QED
    BY <1>1

-----------------------------------------------------------------------------
LEMMA InitInv == Init => Inv
  <1> SUFFICES ASSUME Init PROVE Inv
    OBVIOUS
  <1>1. LinkType
    BY JunkType DEF Init, ReceiverInit, LinkType
  <1>7. ConfigType
    <2>1. /\ dataPointer = 0 /\ waitSize = 0 /\ ~terminated /\ ~closing
          /\ terminated \in BOOLEAN /\ closing \in BOOLEAN /\ isReset \in BOOLEAN
      BY DEF Init, ReceiverInit
    <2> QED
      BY <2>1, ReceiverAssumption DEF ConfigType
  <1>6. CountsType
    BY DEF Init, ReceiverInit, CountsType, NoSession
  <1>2. CallType
    BY ReceiverAssumption DEF Init, ReceiverInit, CallType, Parts
  <1>3. BytesType
    BY JunkType DEF Init, ReceiverInit, BytesType
  <1>4. BufferType
    <2>1. last \in [message : Nat, number : Int, cut : BOOLEAN] /\ whole \in BOOLEAN
      <3>1. 0 \in Nat /\ 0 \in Int /\ FALSE \in BOOLEAN
        OBVIOUS
      <3> QED
        BY <3>1, Zenon DEF Init
    <2> QED
      BY <2>1, ReceiverAssumption DEF Init, BufferType
  <1>5. Extent /\ Accounted
    BY ReceiverAssumption
    DEF Init, ReceiverInit, Extent, InPart, Parts, Accounted, NoSession
  <1> QED
    BY <1>1, <1>2, <1>3, <1>4, <1>5, <1>6, <1>7 DEF Inv, TypeOK

LEMMA EnvironmentInv ==
  ASSUME Inv, Environment
  PROVE  Inv'
  <1>1. made' \in Nat /\ wire' \in Seq(Bytes)
    <2>1. CASE PeerPublish
      <3>1. PICK n \in 1 .. MaxBatch :
              /\ made' = made + n
              /\ wire' = wire \o Container(n) \/ UNCHANGED wire
        BY <2>1 DEF PeerPublish
      <3>2. made \in Nat /\ wire \in Seq(Bytes) /\ n \in Nat
        BY ReceiverAssumption DEF Inv, TypeOK, LinkType
      <3>3. Container(n) \in Seq(Bytes)
        BY <3>2, ContainerType
      <3>4. wire \o Container(n) \in Seq(Bytes)
        BY <3>2, <3>3, ConcatProperties
      <3>5. made' \in Nat
        BY <3>1, <3>2
      <3> QED
        BY <3>1, <3>2, <3>4, <3>5
    <2>2. CASE PeerClose
      <3>1. PICK k \in 0 .. Len(wire) : wire' = SubSeq(wire, 1, k)
        BY <2>2 DEF PeerClose
      <3>2. wire \in Seq(Bytes) /\ made \in Nat /\ made' = made
        BY <2>2 DEF Inv, TypeOK, LinkType, PeerClose
      <3>3. k \in Int /\ \A i \in 1 .. k : wire[i] \in Bytes
        BY <3>2
      <3>4. SubSeq(wire, 1, k) \in Seq(Bytes)
        BY <3>3, SubSeqProperties
      <3> QED
        BY <3>1, <3>2, <3>4
    <2> QED
      BY <2>1, <2>2 DEF Environment, PeerStep
  <1>2. /\ UNCHANGED <<connected, nonblock>>
        /\ UNCHANGED link \/ (link = "up" /\ link' = "closed")
    BY DEF Environment, PeerStep, PeerPublish, PeerClose, OnlyWire, configVars
  <1>3. LinkType'
    BY <1>1, <1>2 DEF Inv, TypeOK, LinkType
  <1>4. (ConfigType /\ CountsType /\ Accounted)'
    <2>1. UNCHANGED <<dataPointer, waitSize, terminated, closing, isReset, session, total>>
      BY DEF Environment, PeerStep, PeerPublish, PeerClose, OnlyWire, configVars
    <2>2. ConfigType'
      BY <2>1 DEF Inv, TypeOK, ConfigType
    <2>3. CountsType'
      BY <2>1, Zenon DEF Inv, TypeOK, CountsType
    <2>4. Accounted'
      BY <2>1 DEF Inv, Accounted, NoSession
    <2> QED
      BY <2>2, <2>3, <2>4
  <1>5. (CallType /\ BytesType /\ BufferType)'
    BY DEF Inv, TypeOK, CallType, BytesType, BufferType, Environment, PeerStep, PeerPublish,
       PeerClose, OnlyWire,
       localVars, pastVars, bufferVars
  <1>6. Extent'
    BY DEF Inv, Extent, InPart, Environment, PeerStep, PeerPublish, PeerClose, OnlyWire,
       configVars, localVars, bufferVars
  <1> QED
    BY <1>3, <1>4, <1>5, <1>6 DEF Inv, TypeOK

LEMMA CallInv ==
  ASSUME Inv, Call
  PROVE  Inv'
  <1>1. (LinkType /\ ConfigType /\ CountsType /\ Accounted)'
    BY DEF Inv, TypeOK, LinkType, ConfigType, CountsType, Accounted, NoSession, Call,
       peerVars, configVars
  <1>2. (BytesType /\ BufferType)'
    BY DEF Inv, TypeOK, BytesType, BufferType, Call, pastVars, bufferVars
  <1>3. CallType'
    BY DEF Inv, TypeOK, CallType, Parts, Call
  <1>4. Extent'
    BY DEF Inv, Extent, InPart, Parts, Call, configVars, bufferVars
  <1> QED
    BY <1>1, <1>2, <1>3, <1>4 DEF Inv, TypeOK

LEMMA ClosingInv ==
  ASSUME Inv, Closing \/ TerminateInput
  PROVE  Inv'
  <1>1. UNCHANGED <<peerVars, configVars>>
    BY DEF Closing, TerminateInput, Terminate, receiverVars
  <1>5. (LinkType /\ CountsType /\ Accounted)'
    BY <1>1 DEF Inv, TypeOK, LinkType, CountsType, Accounted, NoSession, peerVars, configVars
  <1>2. (CallType /\ BytesType /\ BufferType)'
    BY SMTT(60) DEF Inv, TypeOK, CallType, BytesType, BufferType, Closing, TerminateInput, Terminate,
       receiverVars, localVars, pastVars, bufferVars
  <1>3. ConfigType'
    BY <1>1 DEF Inv, TypeOK, ConfigType, Closing, TerminateInput, Terminate, receiverVars,
       configVars
  <1>4. Extent'
    BY DEF Inv, TypeOK, ConfigType, Extent, InPart, Parts, Closing, TerminateInput, Terminate,
       receiverVars, peerVars,
       configVars, localVars, bufferVars
  <1> QED
    BY <1>5, <1>2, <1>3, <1>4 DEF Inv, TypeOK

LEMMA RefillInv ==
  ASSUME Inv, NEW t \in Timeouts, Refill(t)
  PROVE  Inv'
  <1>1. (LinkType /\ ConfigType /\ CountsType /\ Accounted)'
    BY DEF Inv, TypeOK, LinkType, ConfigType, CountsType, Accounted, NoSession, Refill,
       RecvCall, peerVars, configVars
  <1>2. CallType'
    BY ReceiverAssumption
    DEF Inv, TypeOK, CallType, Parts, Refill, RecvCall, Return, Locals, NoPart
  <1>3. BytesType'
    BY JunkType DEF Inv, TypeOK, BytesType, Refill, RecvCall, Return, Locals, pastVars
  <1>4. BufferType'
    BY ReceiverAssumption DEF Inv, TypeOK, BufferType, Refill
  <1>5. Extent'
    <2>1. /\ pc = "enter" /\ unread = 0 /\ unread' = 0 /\ pointer' = 1
          /\ UNCHANGED <<dataPointer, waitSize, connected, terminated>>
          /\ IF terminated THEN pc' = "return" ELSE pc' = "init"
      BY DEF Refill, RecvCall, Return, peerVars, configVars
    <2> QED
      BY <2>1, ReceiverAssumption DEF Inv, TypeOK, ConfigType, Extent, InPart, Parts
  <1> QED
    BY <1>1, <1>2, <1>3, <1>4, <1>5 DEF Inv, TypeOK

LEMMA TakeInv ==
  ASSUME Inv, NEW p \in 1 .. MaxBatch + 1, NEW s \in Int, NEW u \in 0 .. MaxBatch,
         p + u <= MaxBatch + 1, pc \in {"enter", "return"}, Take(p, s, u)
  PROVE  Inv'
  <1>1. (LinkType /\ ConfigType /\ CountsType /\ Accounted /\ BytesType)'
    BY DEF Inv, TypeOK, LinkType, ConfigType, CountsType, Accounted, NoSession, BytesType, Take,
       OnlyBuffer, peerVars, configVars, pastVars
  <1>2. CallType'
    BY ReceiverAssumption DEF Inv, TypeOK, CallType, Take, OnlyBuffer
  <1>3. u > 0 => buf[p] \in Bytes
    BY ReceiverAssumption DEF Inv, TypeOK, BytesType
  <1>4. BufferType'
    <2>1. unread' \in 0 .. MaxBatch /\ pointer' \in 1 .. MaxBatch + 1 /\ number' \in Int
      BY ReceiverAssumption DEF Take
    <2>2. last' \in [message : Nat, number : Int, cut : BOOLEAN] /\ whole' \in BOOLEAN
      <3>1. CASE u = 0
        BY <3>1 DEF Inv, TypeOK, BufferType, Take
      <3>2. CASE u # 0
        <4>1. (IF buf[p].part = 0 THEN buf[p].seq ELSE 0) \in Nat
          BY <1>3, <3>2 DEF Bytes
        <4>2. cut \in BOOLEAN
          BY DEF Inv, TypeOK, BytesType
        <4>3. /\ whole' = TRUE
              /\ last' = [message |-> IF buf[p].part = 0 THEN buf[p].seq ELSE 0,
                          number |-> s, cut |-> cut]
          BY <3>2 DEF Take
        <4> QED
          BY <4>1, <4>2, <4>3, Zenon
      <3> QED
        BY <3>1, <3>2
    <2> QED
      BY <2>1, <2>2 DEF Inv, TypeOK, BufferType, Take
  <1>5. Extent'
    BY ReceiverAssumption DEF Inv, TypeOK, ConfigType, Extent, InPart, Parts, Take,
       OnlyBuffer, peerVars, configVars
  <1> QED
    BY <1>1, <1>2, <1>4, <1>5 DEF Inv, TypeOK

LEMMA FailsInv ==
  ASSUME Inv, Fails
  PROVE  Inv'
  <1>1. (LinkType /\ ConfigType /\ CountsType /\ Accounted /\ BytesType /\ BufferType)'
    <2>1. /\ UNCHANGED <<made, link, wire, connected, nonblock, dataPointer, waitSize>>
          /\ UNCHANGED <<terminated, closing, isReset, session, total>>
          /\ UNCHANGED <<frame, buf, slipped, cut, garbled>>
          /\ UNCHANGED <<unread, pointer, number, clientState, counter, last, whole>>
      BY DEF Fails, OnlyBuffer, peerVars, configVars, pastVars, bufferVars
    <2>2. LinkType'
      BY <2>1 DEF Inv, TypeOK, LinkType
    <2>3. ConfigType'
      BY <2>1 DEF Inv, TypeOK, ConfigType
    <2>4. CountsType'
      BY <2>1, Zenon DEF Inv, TypeOK, CountsType
    <2>5. Accounted'
      BY <2>1 DEF Inv, Accounted, NoSession
    <2>6. BytesType'
      BY <2>1 DEF Inv, TypeOK, BytesType
    <2>7. BufferType'
      BY <2>1, Zenon DEF Inv, TypeOK, BufferType
    <2> QED
      BY <2>2, <2>3, <2>4, <2>5, <2>6, <2>7
  <1>2. CallType'
    BY ReceiverAssumption DEF Inv, TypeOK, CallType, Fails, OnlyBuffer
  <1>5. Extent'
    BY DEF Inv, Extent, InPart, Parts, Fails, OnlyBuffer, peerVars, configVars, bufferVars
  <1> QED
    BY <1>1, <1>2, <1>5 DEF Inv, TypeOK

-----------------------------------------------------------------------------
(* What a step of the call can disturb.                                    *)
Core == LinkType /\ ConfigType /\ CountsType /\ CallType /\ BytesType /\ Extent /\ Accounted


LEMMA RecvInitInv ==
  ASSUME Inv, RecvInit, UNCHANGED <<bufferVars, closing>>
  PROVE  Core'
  <1>1. LinkType' /\ CountsType' /\ BytesType' /\ Accounted'
    BY DEF Inv, TypeOK, LinkType, CountsType, BytesType, Accounted,
      RecvInit, peerVars, pastVars
  <1>2. ConfigType'
    BY ReceiverAssumption DEF Inv, TypeOK, ConfigType, RecvInit
  <1>3. CallType'
    BY ReceiverAssumption DEF Inv, TypeOK, CallType, ConfigType, Parts,
      RecvInit, ReceivePart
  <1>4. Extent'
    BY ReceiverAssumption DEF Inv, TypeOK, Extent, Parts, InPart,
      bufferVars, ConfigType, RecvInit, ReceivePart
  <1> QED
    BY <1>1, <1>2, <1>3, <1>4 DEF Core

LEMMA ConnectFailsInv ==
  ASSUME Inv, ConnectFails, UNCHANGED <<bufferVars, closing>>
  PROVE  Core'
  <1>1. LinkType' /\ ConfigType' /\ CountsType' /\ BytesType' /\ Accounted'
    BY DEF Inv, TypeOK, LinkType, ConfigType, CountsType, BytesType,
      Accounted, ConnectFails, peerVars, configVars, pastVars
  <1>2. CallType'
    BY DEF Inv, TypeOK, CallType, ConnectFails, ToReset
  <1>3. Extent'
    BY DEF Inv, Extent, Parts, InPart, bufferVars, ConnectFails, ToReset,
      configVars
  <1> QED
    BY <1>1, <1>2, <1>3 DEF Core

LEMMA ConnectSucceedsInv ==
  ASSUME Inv, ConnectSucceeds, UNCHANGED <<bufferVars, closing>>
  PROVE  Core'
  <1>1. CountsType' /\ Accounted'
    BY DEF Inv, TypeOK, CountsType, Accounted, ConnectSucceeds, Connected
  <1>2. LinkType'
    BY JunkType DEF Inv, TypeOK, LinkType, ConnectSucceeds, Connected
  <1>3. ConfigType'
    BY ReceiverAssumption DEF Inv, TypeOK, ConfigType, ConnectSucceeds,
      Connected
  <1>4. CallType'
    BY ReceiverAssumption DEF Inv, TypeOK, CallType, Parts,
      ConnectSucceeds, Connected, ReceivePart
  <1>5. BytesType'
    BY DEF Inv, TypeOK, BytesType, ConnectSucceeds, Connected
  <1>6. Extent'
    BY ReceiverAssumption DEF Inv, Extent, bufferVars, ConnectSucceeds,
      Connected, ReceivePart
  <1> QED
    BY <1>1, <1>2, <1>3, <1>4, <1>5, <1>6 DEF Core

LEMMA ConnectMismatchInv ==
  ASSUME Inv, ConnectMismatch, UNCHANGED <<bufferVars, closing>>
  PROVE  Core'
  <1>1. ConfigType' /\ CountsType' /\ Accounted'
    BY DEF Inv, TypeOK, ConfigType, CountsType, Accounted, ConnectMismatch,
      Connected
  <1>2. LinkType'
    BY JunkType DEF Inv, TypeOK, LinkType, ConnectMismatch, Connected
  <1>3. CallType'
    BY ReceiverAssumption DEF Inv, TypeOK, CallType, ConnectMismatch,
      Connected, Return, Locals, NoPart
  <1>4. BytesType'
    BY JunkType DEF Inv, TypeOK, BytesType, ConnectMismatch, Connected,
      Return, Locals
  <1>5. Extent'
    BY DEF Inv, Extent, Parts, InPart, bufferVars, ConnectMismatch,
      Connected, Return
  <1> QED
    BY <1>1, <1>2, <1>3, <1>4, <1>5 DEF Core

LEMMA ConnectUnansweredInv ==
  ASSUME Inv, ConnectUnanswered, UNCHANGED <<bufferVars, closing>>
  PROVE  Core'
  <1>1. ConfigType' /\ CountsType' /\ Accounted'
    BY DEF Inv, TypeOK, ConfigType, CountsType, Accounted,
      ConnectUnanswered, Connected
  <1>2. LinkType'
    BY JunkType DEF Inv, TypeOK, LinkType, ConnectUnanswered, Connected
  <1>3. CallType'
    BY ReceiverAssumption DEF Inv, TypeOK, CallType, ConnectUnanswered,
      Connected, Return, Locals, NoPart
  <1>4. BytesType'
    BY JunkType DEF Inv, TypeOK, BytesType, ConnectUnanswered, Connected,
      Return, Locals
  <1>5. Extent'
    BY DEF Inv, Extent, Parts, InPart, bufferVars, ConnectUnanswered,
      Connected, Return
  <1> QED
    BY <1>1, <1>2, <1>3, <1>4, <1>5 DEF Core

LEMMA PartCheckInv ==
  ASSUME Inv, PartCheck, UNCHANGED <<bufferVars, closing>>
  PROVE  Core'
  <1>1. LinkType' /\ CountsType' /\ BytesType' /\ Accounted'
    BY DEF Inv, TypeOK, LinkType, CountsType, BytesType, Accounted,
      PartCheck, OnlyCall, peerVars
  <1>2. ConfigType'
    BY ReceiverAssumption DEF Inv, TypeOK, ConfigType, Extent, InPart,
      CallType, PartCheck, GiveUp, OnlyCall
  <1>3. CallType'
    BY DEF Inv, TypeOK, CallType, Parts, PartCheck, GiveUp, ToReset,
      NoPart, OnlyCall
  <1>4. Extent'
    BY DEF Inv, Extent, Parts, InPart, bufferVars, PartCheck, GiveUp,
      ToReset, OnlyCall
  <1> QED
    BY <1>1, <1>2, <1>3, <1>4 DEF Core

LEMMA PollReadyInv ==
  ASSUME Inv, PollReady, UNCHANGED <<bufferVars, closing>>
  PROVE  Core'
  <1>1. LinkType' /\ ConfigType' /\ CountsType' /\ BytesType' /\ Accounted'
    BY DEF Inv, TypeOK, LinkType, ConfigType, CountsType, BytesType,
      Accounted, PollReady, OnlyCall, peerVars
  <1>2. CallType'
    BY DEF Inv, TypeOK, CallType, Parts, PollReady, OnlyCall
  <1>3. Extent'
    BY DEF Inv, Extent, Parts, InPart, bufferVars, PollReady, OnlyCall
  <1> QED
    BY <1>1, <1>2, <1>3 DEF Core

LEMMA PollTimeoutInv ==
  ASSUME Inv, PollTimeout, UNCHANGED <<bufferVars, closing>>
  PROVE  Core'
  <1>1. LinkType' /\ CountsType' /\ BytesType' /\ Accounted'
    BY DEF Inv, TypeOK, LinkType, CountsType, BytesType, Accounted,
      PollTimeout, OnlyCall, peerVars
  <1>2. ConfigType'
    BY ReceiverAssumption DEF Inv, TypeOK, ConfigType, Extent, InPart,
      CallType, PollTimeout, GiveUp, OnlyCall
  <1>3. CallType'
    BY DEF Inv, TypeOK, CallType, PollTimeout, GiveUp, ToReset, NoPart,
      OnlyCall
  <1>4. Extent'
    BY DEF Inv, TypeOK, Extent, Parts, InPart, bufferVars, CallType,
      PollTimeout, GiveUp, ToReset, OnlyCall
  <1> QED
    BY <1>1, <1>2, <1>3, <1>4 DEF Core

LEMMA ReadByteInv ==
  ASSUME Inv, ReadByte, UNCHANGED <<bufferVars, closing>>
  PROVE  Core'
  <1>1. Head(wire) \in Bytes /\ wire' \in Seq(Bytes)
    BY DEF Inv, TypeOK, LinkType, ReadByte
  <1>2. at' = at + 1 /\ left' = left - 1 /\ left > 0 /\ at \in Nat /\ left \in Nat
    BY DEF Inv, TypeOK, CallType, ReadByte
  <1>3. UNCHANGED <<phase, dataPointer, connected, terminated, pointer, unread,
                   timeout, length, size, ret>> /\ pc = "read"
    BY DEF ReadByte, bufferVars
  <1>4. \/ waitSize' = waitSize /\ pc' = "read"
        \/ waitSize' = 0 /\ pc' = phase
    BY DEF ReadByte
  <1>5. CountsType' /\ Accounted'
    BY DEF Inv, TypeOK, CountsType, Accounted, ReadByte
  <1>6. LinkType'
    BY DEF Inv, TypeOK, LinkType, ReadByte
  <1>7. ConfigType'
    BY DEF Inv, TypeOK, ConfigType, ReadByte
  <1>8. CallType'
    BY <1>2, <1>3, <1>4 DEF Inv, TypeOK, CallType, Parts
  <1>9. BytesType'
    BY <1>1 DEF Inv, TypeOK, BytesType, ReadByte, pastVars
  <1>10. Extent'
    BY ReceiverAssumption, <1>2, <1>3, <1>4 DEF Inv, TypeOK, ConfigType,
      CallType, Extent, InPart
  <1> QED
    BY <1>5, <1>6, <1>7, <1>8, <1>9, <1>10 DEF Core

LEMMA ReadAgainInv ==
  ASSUME Inv, ReadAgain, UNCHANGED <<bufferVars, closing>>
  PROVE  Core'
  <1>1. LinkType' /\ CountsType' /\ Accounted'
    BY DEF Inv, TypeOK, LinkType, CountsType, Accounted, ReadAgain,
      OnlyCall, peerVars
  <1>2. ConfigType'
    BY ReceiverAssumption DEF Inv, TypeOK, ConfigType, Extent, InPart,
      CallType, ReadAgain, GiveUp, OnlyCall
  <1>3. CallType'
    BY DEF Inv, TypeOK, CallType, ReadAgain, GiveUp, ToReset, NoPart,
      OnlyCall
  <1>4. BytesType'
    BY DEF Inv, TypeOK, BytesType, ReadAgain, OnlyCall
  <1>5. Extent'
    BY DEF Inv, TypeOK, Extent, Parts, InPart, bufferVars, CallType,
      ReadAgain, GiveUp, ToReset, OnlyCall
  <1> QED
    BY <1>1, <1>2, <1>3, <1>4, <1>5 DEF Core

LEMMA ReadInterruptedInv ==
  ASSUME Inv, ReadInterrupted, UNCHANGED <<bufferVars, closing>>
  PROVE  Core'
  <1>1. CountsType' /\ Accounted'
    BY DEF Inv, TypeOK, CountsType, Accounted, ReadInterrupted
  <1>2. LinkType'
    BY DEF Inv, TypeOK, LinkType, ReadInterrupted, Disconnected
  <1>3. UNCHANGED <<waitSize, terminated, isReset, closing>>
    BY DEF ReadInterrupted
  <1>4. dataPointer' \in {dataPointer, 1}
    BY DEF ReadInterrupted
  <1>5. ConfigType'
    BY ReceiverAssumption, <1>3, <1>4 DEF Inv, TypeOK, ConfigType
  <1>6. CallType'
    BY DEF Inv, TypeOK, CallType, ReadInterrupted, ToReset, NoPart
  <1>7. BytesType'
    BY DEF Inv, TypeOK, BytesType, ReadInterrupted, Disconnected
  <1>8. Extent'
    BY ReceiverAssumption DEF Inv, TypeOK, Extent, Parts, InPart,
      bufferVars, LinkType, ConfigType, CallType, ReadInterrupted, ToReset
  <1> QED
    BY <1>1, <1>2, <1>5, <1>6, <1>7, <1>8 DEF Core

LEMMA ReadBrokenInv ==
  ASSUME Inv, ReadBroken, UNCHANGED <<bufferVars, closing>>
  PROVE  Core'
  <1>1. CountsType' /\ Accounted'
    BY DEF Inv, TypeOK, CountsType, Accounted, ReadBroken
  <1>2. LinkType'
    BY JunkType DEF Inv, TypeOK, LinkType, ReadBroken, Disconnected
  <1>3. ConfigType'
    BY ReceiverAssumption DEF Inv, TypeOK, ConfigType, ReadBroken
  <1>4. CallType'
    BY DEF Inv, TypeOK, CallType, ReadBroken, ToReset, NoPart
  <1>5. BytesType'
    BY DEF Inv, TypeOK, BytesType, ReadBroken, Disconnected
  <1>6. Extent'
    BY DEF Inv, Extent, Parts, InPart, bufferVars, ReadBroken, ToReset
  <1> QED
    BY <1>1, <1>2, <1>3, <1>4, <1>5, <1>6 DEF Core

LEMMA HeaderMisreadInv ==
  ASSUME Inv, HeaderMisread, UNCHANGED <<bufferVars, closing>>
  PROVE  Core'
  <1>1. LinkType' /\ ConfigType' /\ CountsType' /\ BytesType' /\ Accounted'
    BY DEF Inv, TypeOK, LinkType, ConfigType, CountsType, BytesType,
      Accounted, HeaderMisread, peerVars, configVars, pastVars
  <1>2. CallType'
    BY DEF Inv, TypeOK, CallType, HeaderMisread
  <1>3. Extent'
    BY DEF Inv, Extent, Parts, InPart, bufferVars, HeaderMisread,
      configVars
  <1> QED
    BY <1>1, <1>2, <1>3 DEF Core

LEMMA PayloadReadInv ==
  ASSUME Inv, PayloadRead, UNCHANGED <<bufferVars, closing>>
  PROVE  Core'
  <1>1. LinkType' /\ CountsType' /\ Accounted'
    BY DEF Inv, TypeOK, LinkType, CountsType, Accounted, PayloadRead,
      peerVars
  <1>2. ConfigType'
    BY ReceiverAssumption DEF Inv, TypeOK, ConfigType, PayloadRead
  <1>3. CallType'
    BY ReceiverAssumption DEF Inv, TypeOK, CallType, PayloadRead, Return,
      Locals, NoPart
  <1>4. BytesType'
    BY JunkType DEF Inv, TypeOK, BytesType, PayloadRead, Return, Locals
  <1>5. Extent'
    BY DEF Inv, Extent, Parts, InPart, bufferVars, PayloadRead, Return
  <1> QED
    BY <1>1, <1>2, <1>3, <1>4, <1>5 DEF Core

LEMMA ResetInv ==
  ASSUME Inv, Reset, UNCHANGED <<bufferVars, closing>>
  PROVE  Core'
  <1>1. LinkType'
    BY DEF Inv, TypeOK, LinkType, Reset, peerVars
  <1>2. ConfigType'
    BY DEF Inv, TypeOK, ConfigType, Reset
  <1>3. /\ total' = Folded /\ session' = NoSession
        /\ NoSession \in [seq : Nat, last : Nat, offset : Nat, received : Nat, missed : Int]
    BY DEF Reset, NoSession
  <1>4. CountsType'
    BY <1>3 DEF Inv, TypeOK, CountsType, Folded
  <1>5. CallType'
    BY ReceiverAssumption DEF Inv, TypeOK, CallType, Reset, Return, Locals,
      NoPart
  <1>6. BytesType'
    BY JunkType DEF Inv, TypeOK, BytesType, Reset, Return, Locals
  <1>7. Extent'
    BY DEF Inv, Extent, Parts, InPart, bufferVars, Reset, Return
  <1>8. Accounted'
    BY <1>3 DEF Inv, TypeOK, CountsType, Folded, Accounted, NoSession
  <1> QED
    BY <1>1, <1>2, <1>4, <1>5, <1>6, <1>7, <1>8 DEF Core

LEMMA HeaderReadInv ==
  ASSUME Inv, HeaderRead, UNCHANGED <<bufferVars, closing>>
  PROVE  Core'
  <1>1. PICK h \in Bytes : h = frame[1]
    BY ReceiverAssumption DEF Inv, TypeOK, BytesType
  <1>2. h.seq \in Nat /\ h.size \in Nat /\ h.size <= MaxBatch
    BY ReceiverAssumption DEF Bytes
  <1>3. /\ waitSize' = h.size /\ left' = h.size /\ at' = 1 /\ length' = h.size
        /\ phase' = "mess" /\ pc' = "check" /\ pc = "head"
        /\ session' = Counted(h) /\ isReset' = FALSE
        /\ UNCHANGED <<connected, dataPointer, total, terminated, closing, pointer, unread,
                       timeout, size, ret>>
    BY <1>1 DEF HeaderRead, ReceivePart, bufferVars
  <1>4. dataPointer = 0
    BY <1>3 DEF Inv, Extent, InPart, Parts
  <1>5. LinkType'
    BY DEF Inv, TypeOK, LinkType, HeaderRead, peerVars
  <1>6. ConfigType'
    <2>1. waitSize' \in Nat
      BY <1>2, <1>3
    <2>2. isReset' \in BOOLEAN
      BY <1>3
    <2> QED
      BY <1>3, <2>1, <2>2 DEF Inv, TypeOK, ConfigType
  <1>7. CallType'
    BY ReceiverAssumption, <1>2, <1>3 DEF Inv, TypeOK, CallType, Parts
  <1>8. BytesType'
    BY DEF Inv, TypeOK, BytesType, HeaderRead
  <1>9. Extent'
    BY ReceiverAssumption, <1>2, <1>3, <1>4 DEF Inv, Extent, InPart, Parts
  <1>10. CountsType'
    BY <1>2, <1>3 DEF Inv, TypeOK, CountsType, Counted
  <1>11. /\ session'.seq = h.seq /\ session'.last = h.size
         /\ session'.received = session.received + h.size
         /\ session'.offset = IF isReset THEN h.seq ELSE session.offset
         /\ session'.missed =
              session.missed + IF isReset THEN 0 ELSE h.seq - (session.seq + session.last)
    BY <1>3 DEF Counted
  <1>12. /\ isReset => session = NoSession
         /\ session.received + session.missed = session.seq + session.last - session.offset
         /\ total'.seq = total'.received + total'.missed
    BY <1>3 DEF Inv, Accounted
  <1>13. session'.received + session'.missed = session'.seq + session'.last - session'.offset
    <2>1. CASE isReset
      BY <1>2, <1>11, <1>12, <2>1 DEF NoSession
    <2>2. CASE ~isReset
      <3>1. /\ session'.offset = session.offset
            /\ session'.missed = session.missed + (h.seq - (session.seq + session.last))
        BY <1>11, <2>2
      <3>2. /\ session.seq \in Nat /\ session.last \in Nat /\ session.offset \in Nat
            /\ session.received \in Nat /\ session.missed \in Int
        BY DEF Inv, TypeOK, CountsType
      <3>3. session.received + session.missed = session.seq + session.last - session.offset
        BY <1>12
      <3> QED
        BY <1>2, <1>11, <3>1, <3>2, <3>3
    <2> QED
      BY <2>1, <2>2
  <1>14. Accounted'
    BY <1>3, <1>12, <1>13 DEF Accounted
  <1> QED
    BY <1>5, <1>6, <1>7, <1>8, <1>9, <1>10, <1>14 DEF Core

-----------------------------------------------------------------------------
(* A step of the receiver leaves what the buffer holds alone.              *)
LEMMA ReceivingInv ==
  ASSUME Inv, Receiving, UNCHANGED <<bufferVars, closing>>
  PROVE  Inv'
  <1>1. BufferType'
    BY DEF Inv, TypeOK, BufferType, Receiving, Negotiated, bufferVars
  <1>2. Core'
    BY ConnectFailsInv, ConnectSucceedsInv, ConnectMismatchInv, ConnectUnansweredInv,
       RecvInitInv, PartCheckInv, PollReadyInv, PollTimeoutInv, ReadByteInv, ReadAgainInv,
       ReadInterruptedInv, ReadBrokenInv, HeaderReadInv, HeaderMisreadInv, PayloadReadInv,
       ResetInv
    DEF Receiving, Negotiated, PartStep
  <1> QED
    BY <1>1, <1>2 DEF Core, Inv, TypeOK

LEMMA CallStepInv ==
  ASSUME Inv, CallStep
  PROVE  Inv'
  <1>1. CASE \E t \in Timeouts : Refill(t)
    BY <1>1, RefillInv
  <1>2. CASE TakeBuffered
    <2>1. /\ pointer \in 1 .. MaxBatch + 1 /\ number \in Int /\ unread \in 0 .. MaxBatch
          /\ pointer + unread <= MaxBatch + 1
      BY DEF Inv, TypeOK, BufferType, Extent
    <2> QED
      BY <1>2, <2>1, TakeInv DEF TakeBuffered
  <1>3. CASE TakeReceived
    <2>1. /\ pointer = 1 /\ size \in 0 .. MaxBatch
          /\ SequenceNumber \in Int
      BY <1>3 DEF Inv, TypeOK, CallType, CountsType, Extent, TakeReceived, SequenceNumber
    <2>2. pointer \in 1 .. MaxBatch + 1 /\ pointer + size <= MaxBatch + 1
      BY <2>1, ReceiverAssumption
    <2> QED
      BY <1>3, <2>1, <2>2, TakeInv DEF TakeReceived
  <1>4. CASE Fails
    BY <1>4, FailsInv
  <1>5. CASE Receiving /\ UNCHANGED <<bufferVars, closing>>
    BY <1>5, ReceivingInv
  <1> QED
    BY <1>1, <1>2, <1>3, <1>4, <1>5 DEF CallStep

LEMMA StutterInv ==
  ASSUME Inv, UNCHANGED vars
  PROVE  Inv'
  <1>1. (LinkType /\ ConfigType /\ CountsType /\ Accounted)'
    BY DEF Inv, TypeOK, LinkType, ConfigType, CountsType, Accounted, vars, receiverVars,
       peerVars, configVars
  <1>2. (CallType /\ BytesType /\ BufferType)'
    BY DEF Inv, TypeOK, CallType, BytesType, BufferType, vars, receiverVars, localVars,
       pastVars,
       bufferVars
  <1>3. Extent'
    BY DEF Inv, Extent, InPart, vars, receiverVars, peerVars, configVars, localVars, bufferVars
  <1> QED
    BY <1>1, <1>2, <1>3 DEF Inv, TypeOK

(* Inv is inductive: each step of a call, of the other side and of a       *)
(* terminating thread keeps types, positions and accounts.                 *)
THEOREM InputInvariance == Spec => []Inv
  <1>1. Inv /\ [Next]_vars => Inv'
    BY CallInv, CallStepInv, ClosingInv, EnvironmentInv, StutterInv DEF Next
  <1> QED
    BY <1>1, InitInv, PTL DEF Spec

(* Every variable keeps its type; in particular a position in the buffer   *)
(* never passes its end, wherever a call was interrupted.                  *)
THEOREM InputTypeCorrect == Spec => []TypeOK
  <1>1. Inv => TypeOK
    BY DEF Inv
  <1> QED
    BY <1>1, InputInvariance, PTL

(* Received and missed messages add up to the sequence numbers seen, in    *)
(* the session and over every reset before it.                             *)
THEOREM CountsAddUp == Spec => []Accounted
  <1>1. Inv => Accounted
    BY DEF Inv
  <1> QED
    BY <1>1, InputInvariance, PTL

-----------------------------------------------------------------------------
(* The wire, seen from where the receiver has stopped: nothing in front of *)
(* its end changes, and what comes behind it begins with a header.         *)
Grown ==
  /\ made <= made'
  /\ link' = "up" => link = "up" /\ Len(wire) <= Len(wire')
  /\ Len(wire) < Len(wire') => link = "up"
  /\ \A j \in DOMAIN wire' :
       IF j <= Len(wire)
         THEN wire'[j] = wire[j]
         ELSE /\ j = Len(wire) + 1 => wire'[j].part = 1
              /\ wire'[j].part = 1 => wire'[j].seq >= made /\ ContainerAt(wire[j], j)'

LEMMA Joined ==
  ASSUME NEW w \in Seq(Bytes), NEW c \in Seq(Bytes)
  PROVE  /\ Len(w \o c) = Len(w) + Len(c)
         /\ w \o c \in Seq(Bytes) /\ Len(w) \in Nat
         /\ \A i \in 1 .. Len(w) + Len(c) :
              (w \o c)[i] = IF i <= Len(w) THEN w[i] ELSE c[i - Len(w)]
BY ConcatProperties

LEMMA QuietGrown ==
  ASSUME LinkType, UNCHANGED peerVars
  PROVE  Grown
<1>1. made <= made' /\ link' = link /\ wire' = wire
  BY DEF LinkType, peerVars
<1> QED
  BY <1>1 DEF LinkType, Grown

(* A container that is sent comes whole.                                   *)
LEMMA PublishGrown ==
  ASSUME LinkType, PeerPublish
  PROVE  Grown
<1>1. PICK n \in 1 .. MaxBatch :
        /\ made' = made + n
        /\ \/ link = "up" /\ wire' = wire \o Container(n)
           \/ UNCHANGED wire
  BY DEF PeerPublish
<1>2. /\ HeadLen \in Nat \ {0} /\ n \in Nat \ {0} /\ made \in Nat /\ wire \in Seq(Bytes)
      /\ link' = link
  BY ReceiverAssumption DEF LinkType, PeerPublish
<1>3. CASE UNCHANGED wire
  BY <1>1, <1>2, <1>3 DEF Grown
<1>4. CASE link = "up" /\ wire' = wire \o Container(n)
  <2>1. Container(n) \in Seq(Bytes)
    BY <1>2, ContainerType
  <2>2. Len(Container(n)) = HeadLen + n
    BY <1>2 DEF Container
  <2>3. /\ Len(wire') = Len(wire) + HeadLen + n /\ DOMAIN wire' = 1 .. Len(wire')
        /\ \A j \in 1 .. Len(wire) : wire'[j] = wire[j]
        /\ \A i \in 1 .. HeadLen + n : wire'[Len(wire) + i] = Container(n)[i]
    <3>1. PICK c : c = Container(n) /\ c \in Seq(Bytes) /\ Len(c) = HeadLen + n
      BY <2>1, <2>2
    <3>2. wire' = wire \o c
      BY <1>4, <3>1
    <3>3. /\ Len(wire \o c) = Len(wire) + Len(c)
          /\ wire \o c \in Seq(Bytes) /\ Len(wire) \in Nat
          /\ \A i \in 1 .. Len(wire) + Len(c) :
               (wire \o c)[i] = IF i <= Len(wire) THEN wire[i] ELSE c[i - Len(wire)]
      BY <1>2, <3>1, Joined
    <3>4. \A j \in 1 .. Len(wire) : (wire \o c)[j] = wire[j]
      BY <1>2, <3>1, <3>3
    <3>5. ASSUME NEW i \in 1 .. HeadLen + n PROVE (wire \o c)[Len(wire) + i] = c[i]
      <4>1. /\ Len(wire) + i \in 1 .. Len(wire) + Len(c) /\ ~(Len(wire) + i <= Len(wire))
            /\ (Len(wire) + i) - Len(wire) = i
        BY <1>2, <3>1, <3>3
      <4> QED
        BY <3>3, <4>1
    <3>6. wire' \in Seq(Bytes) /\ Len(wire') = Len(wire) + HeadLen + n
      BY <1>2, <3>1, <3>2, <3>3
    <3> QED
      BY <3>1, <3>2, <3>4, <3>5, <3>6
  <2>4. \A i \in 1 .. HeadLen : wire'[Len(wire) + i] = Byte(i, made, n)
    BY <1>2, <2>3 DEF Container
  <2>5. \A i \in HeadLen + 1 .. HeadLen + n :
          wire'[Len(wire) + i] = Message(made + i - HeadLen)
    <3> SUFFICES ASSUME NEW i \in HeadLen + 1 .. HeadLen + n
                 PROVE  wire'[Len(wire) + i] = Message(made + i - HeadLen)
      OBVIOUS
    <3>1. i \in 1 .. HeadLen + n /\ ~(i <= HeadLen)
      BY <1>2
    <3>2. Container(n)[i] = Message(made + i - HeadLen)
      BY <3>1 DEF Container
    <3> QED
      BY <2>3, <3>1, <3>2
  <2>6. \A j \in Len(wire) + 1 .. Len(wire') :
          /\ j <= Len(wire) + HeadLen => wire'[j] = Byte(j - Len(wire), made, n)
          /\ j > Len(wire) + HeadLen => wire'[j] = Message(made + j - Len(wire) - HeadLen)
    <3> SUFFICES ASSUME NEW j \in Len(wire) + 1 .. Len(wire')
                 PROVE  /\ j <= Len(wire) + HeadLen => wire'[j] = Byte(j - Len(wire), made, n)
                        /\ j > Len(wire) + HeadLen =>
                             wire'[j] = Message(made + j - Len(wire) - HeadLen)
      OBVIOUS
    <3>1. PICK i \in 1 .. HeadLen + n : j = Len(wire) + i
      <4>1. Len(wire) \in Nat
        BY <1>2
      <4>2. j - Len(wire) \in 1 .. HeadLen + n /\ j = Len(wire) + (j - Len(wire))
        BY <1>2, <2>3, <4>1
      <4> QED
        BY <4>2
    <3>2. j - Len(wire) = i /\ Len(wire) \in Nat
      BY <1>2, <3>1
    <3> QED
      BY <1>2, <2>4, <2>5, <3>1, <3>2
  <2>7. Len(wire) \in Nat
    BY <1>2
  <2>8. \A j \in Len(wire) + 1 .. Len(wire') :
          wire'[j].part = 1 => j = Len(wire) + 1 /\ wire'[j] = Byte(1, made, n)
    <3> SUFFICES ASSUME NEW j \in Len(wire) + 1 .. Len(wire'), wire'[j].part = 1
                 PROVE  j = Len(wire) + 1 /\ wire'[j] = Byte(1, made, n)
      OBVIOUS
    <3>1. j <= Len(wire) + HeadLen
      <4>1. ASSUME j > Len(wire) + HeadLen PROVE wire'[j].part = 0
        <5>1. wire'[j] = Message(made + j - Len(wire) - HeadLen)
          BY <2>6, <4>1
        <5> QED
          BY <5>1 DEF Message, Byte
      <4> QED
        BY <1>2, <2>7, <4>1
    <3>2. wire'[j] = Byte(j - Len(wire), made, n)
      BY <2>6, <3>1
    <3>3. j - Len(wire) = 1
      BY <3>2 DEF Byte
    <3> QED
      BY <2>7, <3>2, <3>3
  <2>9. wire'[Len(wire) + 1] = Byte(1, made, n)
    BY <1>2, <2>4
  <2>10. ASSUME NEW j \in Len(wire) + 1 .. Len(wire'), wire'[j].part = 1
         PROVE  wire'[j].seq >= made /\ ContainerAt(wire[j], j)'
    <3>1. j = Len(wire) + 1 /\ wire'[j] = Byte(1, made, n)
      BY <2>8, <2>10
    <3>2. wire'[j].seq = made /\ wire'[j].size = n
      BY <3>1 DEF Byte
    <3>3. made + n <= made' /\ j + HeadLen + n <= Len(wire') + 1
      BY <1>1, <1>2, <2>3, <2>7, <3>1
    <3>4. ASSUME NEW i \in DOMAIN wire'
          PROVE  /\ j < i /\ i < j + HeadLen => wire'[i] = Byte(i - j + 1, made, n)
                 /\ j + HeadLen <= i /\ i < j + HeadLen + n =>
                      wire'[i] = Message(made + i - j - HeadLen + 1)
                 /\ i = j + HeadLen + n => wire'[i].part = 1
                 /\ j < i /\ wire'[i].part = 1 => wire'[i].seq >= made + n
      <4>1. i \in Int /\ i <= Len(wire') /\ j \in Int /\ Len(wire') \in Int
        BY <1>2, <2>3, <2>7
      <4>2. j < i => i \in Len(wire) + 1 .. Len(wire') /\ wire'[i].part # 1
        BY <2>7, <2>8, <3>1, <4>1
      <4>3. CASE j < i /\ i < j + HeadLen
        <5>1. i - j + 1 = i - Len(wire) /\ i <= Len(wire) + HeadLen
          BY <1>2, <2>7, <3>1, <4>1, <4>3
        <5>2. wire'[i] = Byte(i - Len(wire), made, n)
          BY <2>6, <4>2, <4>3, <5>1
        <5> QED
          BY <1>2, <4>1, <4>2, <4>3, <5>1, <5>2
      <4>4. CASE j + HeadLen <= i
        <5>1. /\ made + i - j - HeadLen + 1 = made + i - Len(wire) - HeadLen
              /\ i > Len(wire) + HeadLen /\ j < i
          <6>1. PICK l \in Nat : l = Len(wire) /\ j = l + 1
            BY <2>7, <3>1
          <6>2. i \in Int /\ made \in Nat /\ HeadLen \in Nat \ {0} /\ j + HeadLen <= i
            BY <1>2, <4>1, <4>4
          <6>3. j < i /\ i > l + HeadLen
            BY <6>1, <6>2
          <6>4. \A a, b, c, d \in Int : a + b - (c + 1) - d + 1 = a + b - c - d
            OBVIOUS
          <6>5. made + i - j - HeadLen + 1 = made + i - l - HeadLen
            <7>1. made \in Int /\ i \in Int /\ l \in Int /\ HeadLen \in Int
              BY <6>1, <6>2
            <7>2. made + i - (l + 1) - HeadLen + 1 = made + i - l - HeadLen
              BY <6>4, <7>1
            <7> QED
              BY <6>1, <7>2
          <6> QED
            BY <6>1, <6>3, <6>5
        <5>2. wire'[i] = Message(made + i - Len(wire) - HeadLen)
          BY <2>6, <4>2, <5>1
        <5>3. i # j + HeadLen + n
          BY <1>2, <2>3, <2>7, <3>1, <4>1
        <5>4. wire'[i] = Message(made + i - j - HeadLen + 1)
          BY <5>1, <5>2
        <5>5. ~(i < j + HeadLen) /\ wire'[i].part # 1
          BY <1>2, <4>1, <4>2, <4>4, <5>1
        <5> QED
          BY <5>3, <5>4, <5>5
      <4> QED
        BY <1>2, <4>1, <4>2, <4>3, <4>4
    <3>5. ContainerAt(wire[j], j)'
      BY <3>2, <3>3, <3>4 DEF ContainerAt
    <3> QED
      BY <1>2, <3>2, <3>5
  <2>11. ASSUME NEW j \in DOMAIN wire', j > Len(wire)
         PROVE  j \in Len(wire) + 1 .. Len(wire')
    BY <2>3, <2>7, <2>11
  <2> QED
    BY <1>1, <1>2, <1>4, <2>3, <2>7, <2>9, <2>10, <2>11 DEF Grown, Byte
<1> QED
  BY <1>1, <1>3, <1>4

(* A connection that is closed loses a tail of what was sent.              *)
LEMMA CloseGrown ==
  ASSUME LinkType, PeerClose
  PROVE  Grown
<1>1. PICK k \in 0 .. Len(wire) : wire' = SubSeq(wire, 1, k)
  BY DEF PeerClose
<1>2. wire \in Seq(Bytes) /\ k \in Nat /\ k <= Len(wire)
  BY <1>1 DEF LinkType
<1>3. \A i \in 1 .. k : wire[i] \in Bytes
  BY <1>2
<1>4. /\ Len(wire') = k /\ DOMAIN wire' = 1 .. k
      /\ \A j \in 1 .. k : wire'[j] = wire[j]
  BY <1>1, <1>2
<1>5. link' = "closed" /\ made' = made /\ made \in Nat
  BY DEF PeerClose, LinkType
<1> QED
  BY <1>2, <1>4, <1>5 DEF Grown

-----------------------------------------------------------------------------
(* What is known of the bytes that have been sent stays true of them.      *)
LEMMA GrownNotBefore ==
  ASSUME LinkType, LinkType', Grown, NEW n \in Nat, n <= made, NotBefore(n)
  PROVE  NotBefore(n)'
<1>1. /\ wire \in Seq(Bytes) /\ wire' \in Seq(Bytes) /\ made \in Nat
      /\ DOMAIN wire = 1 .. Len(wire)
  BY DEF LinkType
<1> SUFFICES ASSUME NEW j \in DOMAIN wire', wire'[j].part = 1
             PROVE  wire'[j].seq >= n
  BY DEF NotBefore
<1>2. CASE j <= Len(wire)
  <2>1. j \in DOMAIN wire /\ wire'[j] = wire[j]
    BY <1>1, <1>2 DEF Grown
  <2> QED
    BY <2>1 DEF NotBefore
<1>3. CASE j > Len(wire)
  <2>1. wire'[j].seq >= made /\ wire'[j] \in Bytes
    BY <1>1, <1>3 DEF Grown
  <2>2. wire'[j].seq \in Nat
    BY <2>1 DEF Bytes
  <2> QED
    BY <1>1, <2>1, <2>2
<1> QED
  BY <1>1, <1>2, <1>3

LEMMA GrownContainer ==
  ASSUME LinkType, LinkType', Grown, NEW h \in Bytes, NEW p \in Int, ContainerAt(h, p)
  PROVE  ContainerAt(h, p)'
<1>1. /\ wire \in Seq(Bytes) /\ wire' \in Seq(Bytes) /\ made \in Nat /\ made' \in Nat
      /\ DOMAIN wire = 1 .. Len(wire) /\ DOMAIN wire' = 1 .. Len(wire')
      /\ Len(wire) \in Nat /\ Len(wire') \in Nat
  BY DEF LinkType
<1>2. /\ h.seq \in Nat /\ h.size \in Nat /\ HeadLen \in Nat \ {0}
      /\ h.seq + h.size <= made
      /\ link = "up" => p + HeadLen + h.size <= Len(wire) + 1
  BY ReceiverAssumption DEF Bytes, ContainerAt
<1>3. ASSUME NEW j \in DOMAIN wire'
      PROVE  /\ p < j /\ j < p + HeadLen => wire'[j] = Byte(j - p + 1, h.seq, h.size)
             /\ p + HeadLen <= j /\ j < p + HeadLen + h.size =>
                  wire'[j] = Message(h.seq + j - p - HeadLen + 1)
             /\ j = p + HeadLen + h.size => wire'[j].part = 1
             /\ p < j /\ wire'[j].part = 1 => wire'[j].seq >= h.seq + h.size
  <2>1. CASE j <= Len(wire)
    <3>1. j \in DOMAIN wire /\ wire'[j] = wire[j]
      BY <1>1, <2>1 DEF Grown
    <3> QED
      BY <3>1 DEF ContainerAt
  <2>2. CASE j > Len(wire)
    <3>1. link = "up"
      BY <1>1, <2>2 DEF Grown
    <3>2. j >= p + HeadLen + h.size
      BY <1>1, <1>2, <2>2, <3>1
    <3>3. /\ j = Len(wire) + 1 => wire'[j].part = 1
          /\ wire'[j].part = 1 => wire'[j].seq >= made
      BY <2>2 DEF Grown
    <3>4. j = p + HeadLen + h.size => j = Len(wire) + 1
      BY <1>1, <1>2, <2>2, <3>1
    <3>5. wire'[j] \in Bytes
      BY <1>1
    <3>6. wire'[j].part = 1 => wire'[j].seq >= h.seq + h.size
      BY <1>1, <1>2, <3>3, <3>5 DEF Bytes
    <3>7. ~(j < p + HeadLen) /\ ~(j < p + HeadLen + h.size)
      BY <1>1, <1>2, <3>2
    <3> QED
      BY <3>3, <3>4, <3>6, <3>7
  <2> QED
    BY <1>1, <2>1, <2>2
<1>4. h.seq + h.size <= made'
  BY <1>1, <1>2 DEF Grown
<1>5. link' = "up" => p + HeadLen + h.size <= Len(wire') + 1
  BY <1>1, <1>2 DEF Grown
<1> QED
  BY <1>3, <1>4, <1>5 DEF ContainerAt

LEMMA GrownPayload ==
  ASSUME LinkType, LinkType', Grown, UNCHANGED <<buf, last, session, total, isReset, cut>>,
         garbled' \in {garbled, TRUE}, NEW k \in Nat, NEW m \in Nat, InPayload(k, m)
  PROVE  InPayload(k, m)'
<1>1. /\ wire \in Seq(Bytes) /\ wire' \in Seq(Bytes) /\ made \in Nat /\ made' \in Nat
      /\ DOMAIN wire = 1 .. Len(wire) /\ DOMAIN wire' = 1 .. Len(wire')
      /\ Len(wire) \in Nat /\ Len(wire') \in Nat
  BY DEF LinkType
<1>2. PICK n \in 0 .. made :
        /\ PayloadSplit(n, k, m)
        /\ ~garbled => last.message <= n
        /\ ~garbled /\ ~cut => Announced(n, k - 1 + m) /\ session.last = k - 1 + m
  BY DEF InPayload
<1>3. n + k - 1 + m <= made /\ (link = "up" => m <= Len(wire)) /\ n \in Nat
  BY <1>1, <1>2 DEF PayloadSplit
<1>4. NotBefore(n + k - 1 + m)'
  <2>1. NotBefore(n + k - 1 + m)
    BY <1>2 DEF PayloadSplit
  <2>2. CASE n + k - 1 + m \in Nat
    BY <1>3, <2>1, <2>2, GrownNotBefore
  <2>3. CASE n + k - 1 + m < 0
    <3>1. \A j \in DOMAIN wire' : wire'[j].seq \in Nat
      <4>1. \A j \in DOMAIN wire' : wire'[j] \in Bytes
        BY <1>1
      <4> QED
        BY <4>1 DEF Bytes
    <3> QED
      BY <1>3, <2>3, <3>1 DEF NotBefore
  <2> QED
    BY <1>3, <2>2, <2>3
<1>5. ASSUME NEW j \in DOMAIN wire'
      PROVE  /\ j <= m => wire'[j] = Message(n + k - 1 + j)
             /\ j = m + 1 => wire'[j].part = 1
  <2>1. CASE j <= Len(wire)
    <3>1. j \in DOMAIN wire /\ wire'[j] = wire[j]
      BY <1>1, <2>1 DEF Grown
    <3> QED
      BY <1>2, <3>1 DEF PayloadSplit
  <2>2. CASE j > Len(wire)
    <3>1. link = "up"
      BY <1>1, <2>2 DEF Grown
    <3>2. j > m /\ (j = m + 1 => j = Len(wire) + 1)
      BY <1>1, <1>3, <2>2, <3>1
    <3>3. j = Len(wire) + 1 => wire'[j].part = 1
      BY <2>2 DEF Grown
    <3> QED
      BY <1>1, <3>2, <3>3
  <2> QED
    BY <1>1, <2>1, <2>2
<1>6. n + k - 1 + m <= made' /\ (link' = "up" => m <= Len(wire')) /\ n \in 0 .. made'
  BY <1>1, <1>3 DEF Grown
<1>7. \A i \in 1 .. k - 1 : buf'[i] = Message(n + i)
  BY <1>2 DEF PayloadSplit
<1>8. PayloadSplit(n, k, m)'
  BY <1>4, <1>5, <1>6, <1>7 DEF PayloadSplit
<1>9. /\ ~garbled' => last'.message <= n
      /\ ~garbled' /\ ~cut' => Announced(n, k - 1 + m)' /\ session'.last = k - 1 + m
  BY <1>2 DEF Announced, Seen
<1> QED
  BY <1>6, <1>8, <1>9 DEF InPayload

LEMMA GrownHeader ==
  ASSUME LinkType, LinkType', CallType, BytesType, Grown, UNCHANGED <<at, frame, last>>,
         garbled' \in {garbled, TRUE}, InHeader
  PROVE  InHeader'
<1>1. PICK h \in Bytes, p \in Int : h = frame[1] /\ p = 2 - at
  BY ReceiverAssumption DEF BytesType, CallType
<1>2. ContainerAt(h, p)
  BY <1>1 DEF InHeader
<1>3. ContainerAt(h, p)'
  BY <1>2, GrownContainer
<1>4. ContainerAt(frame[1], 2 - at)'
  BY <1>1, <1>3
<1> QED
  BY <1>4 DEF InHeader

LEMMA GrownStart ==
  ASSUME LinkType, LinkType', Grown, Begins(1, wire)
  PROVE  Begins(1, wire)'
<1>1. /\ wire \in Seq(Bytes) /\ wire' \in Seq(Bytes)
      /\ Len(wire) \in Nat
  BY DEF LinkType
<1> SUFFICES ASSUME wire' # <<>> PROVE wire'[1].part = 1
  BY DEF Begins
<1>2. 1 \in DOMAIN wire'
  BY <1>1
<1>3. CASE 1 <= Len(wire)
  BY <1>1, <1>2, <1>3 DEF Grown, Begins
<1>4. CASE Len(wire) = 0
  BY <1>2, <1>4 DEF Grown
<1> QED
  BY <1>1, <1>3, <1>4

LEMMA GrownFramed ==
  ASSUME LinkType, LinkType', Grown, Framed
  PROVE  Framed'
<1>1. /\ wire \in Seq(Bytes) /\ wire' \in Seq(Bytes) /\ Len(wire) \in Nat
      /\ DOMAIN wire = 1 .. Len(wire) /\ DOMAIN wire' = 1 .. Len(wire')
  BY DEF LinkType
<1> SUFFICES ASSUME NEW i \in DOMAIN wire', wire'[i].part = 1
             PROVE  ContainerAt(wire[i], i)'
  BY DEF Framed
<1>2. CASE i > Len(wire)
  BY <1>1, <1>2 DEF Grown
<1>3. CASE i <= Len(wire)
  <2>1. i \in DOMAIN wire /\ wire'[i] = wire[i] /\ i \in Int
    BY <1>1, <1>3 DEF Grown
  <2>2. PICK h \in Bytes : h = wire[i]
    BY <1>1, <2>1
  <2>3. ContainerAt(h, i)
    BY <2>1, <2>2 DEF Framed
  <2>4. ContainerAt(h, i)'
    BY <2>1, <2>3, GrownContainer
  <2>5. h = wire'[i]
    BY <2>1, <2>2
  <2> QED
    BY <2>4, <2>5
<1> QED
  BY <1>1, <1>2, <1>3

(* What is in the buffer is still the next that was sent.                  *)
LEMMA OrderedStays ==
  ASSUME LinkType, LinkType', BufferType, CallType, Ordered, made <= made',
         garbled' \in {garbled, TRUE}, slipped' => garbled', last' = last, Given' = Given,
         \/ Given = 0
         \/ UNCHANGED <<pointer, buf, session, total, isReset, cut>> /\ NextNumber' = NextNumber,
         \A n \in Nat : n <= made /\ NotBefore(n) => NotBefore(n)'
  PROVE  Ordered'
<1> SUFFICES ASSUME ~garbled' PROVE ~slipped' /\ \E n \in 0 .. made' : Ahead(n)'
  BY DEF Ordered
<1>1. PICK n \in 0 .. made : Ahead(n)
  BY DEF Ordered
<1>2. made \in Nat /\ made' \in Nat /\ n \in Nat /\ n \in 0 .. made'
  BY DEF LinkType
<1>3. Given \in Nat
  BY ReceiverAssumption DEF Given, BufferType, CallType
<1>4. PICK m \in Nat : m = n + Given /\ m <= made /\ NotBefore(m)
  BY <1>1, <1>2, <1>3 DEF Ahead
<1>5. \A i \in 0 .. Given' - 1 : buf'[pointer' + i] = Message(n + 1 + i)
  BY <1>1, <1>2, <1>3 DEF Ahead
<1>6. last'.message <= n /\ n + Given' <= made'
  BY <1>1, <1>2, <1>3 DEF Ahead
<1>7. NotBefore(m)' /\ m = n + Given'
  BY <1>4
<1>8. Given' > 0 /\ ~cut' => Announced(n, Given)' /\ NextNumber' = Seen' - Given' + 1
  <2> SUFFICES ASSUME Given > 0, ~cut'
               PROVE  Announced(n, Given)' /\ NextNumber' = Seen' - Given' + 1
    OBVIOUS
  <2>1. UNCHANGED <<session, total, isReset, cut>> /\ NextNumber' = NextNumber
    BY <1>3
  <2>2. Announced(n, Given) /\ NextNumber = Seen - Given + 1
    BY <1>1, <2>1 DEF Ahead
  <2> QED
    BY <2>1, <2>2 DEF Announced, Seen
<1>9. Ahead(n)'
  BY <1>5, <1>6, <1>7, <1>8 DEF Ahead
<1> QED
  BY <1>2, <1>9

-----------------------------------------------------------------------------
(* Steps that leave the receiver where it is in the stream.                *)
LEMMA GrownAligned ==
  ASSUME Inv, Inv', Grown, Aligned,
         UNCHANGED <<connected, slipped, buf, frame, last, garbled, at, left, phase>>,
         UNCHANGED <<dataPointer, waitSize, session, total, isReset, cut>>, InPart' = InPart
  PROVE  Aligned'
<1>1. LinkType /\ LinkType' /\ CallType /\ BytesType
  BY DEF Inv, TypeOK
<1> SUFFICES ASSUME connected, ~slipped
             PROVE  /\ Framed'
                    /\ InPart /\ phase = "mess" => InPayload(at, left)'
                    /\ InPart /\ phase = "head" =>
                         IF at = 1 THEN Begins(1, wire)' ELSE InHeader'
                    /\ ~InPart /\ dataPointer # 0 => InPayload(dataPointer, waitSize)'
                    /\ ~InPart /\ dataPointer = 0 => Begins(1, wire)'
  BY DEF Aligned
<1>2. Framed'
  BY <1>1, GrownFramed DEF Aligned
<1>3. Begins(1, wire) => Begins(1, wire)'
  BY <1>1, GrownStart
<1>4. InHeader => InHeader'
  BY <1>1, GrownHeader
<1>5. PICK k \in Nat, m \in Nat : k = at /\ m = left
  BY <1>1 DEF CallType
<1>6. InPayload(k, m) => InPayload(k, m)'
  BY <1>1, GrownPayload
<1>7. PICK x \in Nat, y \in Nat : x = dataPointer /\ y = waitSize
  BY ReceiverAssumption DEF Inv, TypeOK, ConfigType
<1>8. InPayload(x, y) => InPayload(x, y)'
  BY <1>1, GrownPayload
<1>9. InPayload(at, left) => InPayload(at, left)'
  BY <1>5, <1>6
<1>10. InPayload(dataPointer, waitSize) => InPayload(dataPointer, waitSize)'
  BY <1>7, <1>8
<1> QED
  BY <1>2, <1>3, <1>4, <1>9, <1>10 DEF Aligned

LEMMA GrownOrdered ==
  ASSUME Inv, Inv', Grown, Ordered, UNCHANGED <<slipped, garbled, last, pointer, buf>>,
         Given' = Given,
         Given = 0 \/ (UNCHANGED <<session, total, isReset, cut>> /\ NextNumber' = NextNumber)
  PROVE  Ordered'
<1>1. LinkType /\ LinkType' /\ BufferType /\ CallType
  BY DEF Inv, TypeOK
<1>2. \A n \in Nat : n <= made /\ NotBefore(n) => NotBefore(n)'
  BY <1>1, GrownNotBefore
<1>3. made <= made' /\ (slipped' => garbled')
  BY DEF Grown, Ordered
<1>4. garbled' \in {garbled, TRUE}
  OBVIOUS
<1> QED
  BY <1>1, <1>2, <1>3, <1>4, OrderedStays

LEMMA EnvironmentStream ==
  ASSUME StreamInv, Inv', Environment
  PROVE  Stops' /\ Aligned' /\ Ordered'
<1>1. /\ UNCHANGED <<configVars, terminated, localVars, buf, pastVars, bufferVars>>
      /\ Inv /\ LinkType /\ Stops /\ Aligned /\ Ordered
  BY DEF StreamInv, Inv, TypeOK, Environment, PeerStep, PeerPublish, PeerClose, OnlyWire
<1>2. Grown
  BY <1>1, PublishGrown, CloseGrown DEF Environment, PeerStep
<1>3. Aligned'
  BY <1>1, <1>2, GrownAligned DEF configVars, localVars, pastVars, bufferVars, InPart
<1>4. Given' = Given /\ NextNumber' = NextNumber
  BY <1>1 DEF configVars, localVars, bufferVars, Given, NextNumber, SequenceNumber
<1>5. Ordered'
  BY <1>1, <1>2, <1>4, GrownOrdered DEF configVars, pastVars, bufferVars
<1>6. ~connected => wire' = <<>>
  <2> SUFFICES ASSUME ~connected PROVE wire' = <<>>
    OBVIOUS
  <2>1. link # "up" /\ wire = <<>>
    BY <1>1 DEF LinkType, Stops
  <2> QED
    BY <2>1 DEF Environment, PeerStep, PeerPublish, PeerClose
<1>7. Stops'
  BY <1>1, <1>6 DEF Stops, configVars, localVars, pastVars, bufferVars, InPart
<1> QED
  BY <1>3, <1>5, <1>7

(* Steps around the call of the interface.                                 *)
LEMMA OutsideStream ==
  ASSUME StreamInv, Inv', Call \/ Closing \/ TerminateInput \/ Fails \/ UNCHANGED vars
  PROVE  Stops' /\ Aligned' /\ Ordered'
<1> USE DEF Call, Closing, TerminateInput, Terminate, Fails, OnlyBuffer, vars, receiverVars,
        peerVars, configVars, pastVars, bufferVars, localVars
<1>1. /\ UNCHANGED <<made, link, wire, connected, dataPointer, waitSize, phase, at, left>>
      /\ UNCHANGED <<frame, buf, slipped, garbled, pointer, unread, last, number>>
      /\ UNCHANGED <<session, total, isReset, cut>>
  OBVIOUS
<1>2. /\ \/ pc' = pc /\ ret' = ret /\ size' = size
         \/ pc = "idle" /\ pc' = "enter"
         \/ pc = "return" /\ ret # "OK" /\ pc' = "idle"
      /\ Inv /\ LinkType /\ Stops /\ Aligned /\ Ordered
  BY DEF StreamInv, Inv, TypeOK
<1>3. Grown
  BY <1>1, <1>2, QuietGrown
<1>4. InPart' = InPart
  BY <1>2 DEF InPart, Parts
<1>5. Given' = Given /\ (Given = 0 \/ NextNumber' = NextNumber)
  BY <1>1, <1>2 DEF Given, NextNumber, SequenceNumber, Inv, Extent
<1>6. Aligned'
  BY <1>1, <1>2, <1>3, <1>4, GrownAligned
<1>7. Ordered'
  BY <1>1, <1>2, <1>3, <1>5, GrownOrdered
<1>8. Stops'
  BY <1>1, <1>2, <1>4 DEF Stops
<1> QED
  BY <1>6, <1>7, <1>8

(* The call of the interface, with nothing unread.                         *)
LEMMA RefillStream ==
  ASSUME StreamInv, Inv', NEW t \in Timeouts, Refill(t)
  PROVE  Stops' /\ Aligned' /\ Ordered'
<1>1. /\ UNCHANGED <<peerVars, configVars, buf, pastVars, unread, last>>
      /\ pc = "enter" /\ unread = 0
      /\ pc' = "init" \/ (pc' = "return" /\ ret' # "OK")
  BY DEF Refill, RecvCall, Return
<1>2. Inv /\ LinkType /\ LinkType' /\ BufferType /\ CallType /\ Stops /\ Aligned /\ Ordered
  BY DEF StreamInv, Inv, TypeOK
<1>3. ~InPart /\ ~InPart' /\ Given = 0 /\ Given' = 0
  BY <1>1 DEF InPart, Parts, Given
<1>4. Grown
  BY <1>1, <1>2, QuietGrown
<1>5. Aligned'
  BY <1>1, <1>2, <1>3 DEF Aligned, peerVars, configVars, pastVars, Framed, Begins,
     ContainerAt, InPayload, PayloadSplit, NotBefore, Announced, Seen
<1>6. \A n \in Nat : n <= made /\ NotBefore(n) => NotBefore(n)'
  BY <1>2, <1>4, GrownNotBefore
<1>7. Ordered'
  BY <1>1, <1>2, <1>3, <1>4, <1>6, OrderedStays DEF pastVars, Grown, Ordered
<1>8. Stops'
  BY <1>1, <1>2, <1>3 DEF Stops, peerVars, configVars, pastVars, InPart, Parts
<1> QED
  BY <1>5, <1>7, <1>8

(* A message taken out of the buffer after message n, under number s.      *)
TakenNext(n, s) ==
  /\ unread' = Given - 1 /\ pointer' = pointer + 1 /\ number' = s + 1 /\ whole'
  /\ last' = [message |-> n + 1, number |-> s, cut |-> cut]
  /\ ~cut => Announced(n, Given) /\ s = Seen - Given + 1

LEMMA TakesNext ==
  ASSUME LinkType, BufferType, CallType, NEW s, Take(pointer, s, Given), Given # 0,
         s = NextNumber, NEW n \in 0 .. made, Ahead(n)
  PROVE  TakenNext(n, s)
<1>1. Given \in Nat \ {0} /\ n \in Nat /\ pointer \in Nat
  BY ReceiverAssumption DEF Given, BufferType, CallType, LinkType
<1>2. buf[pointer] = Message(n + 1)
  <2>1. 0 \in 0 .. Given - 1 /\ pointer + 0 = pointer /\ n + 1 + 0 = n + 1
    BY <1>1
  <2> QED
    BY <2>1 DEF Ahead
<1>3. buf[pointer].part = 0 /\ buf[pointer].seq = n + 1
  BY <1>2 DEF Message, Byte
<1>4. /\ unread' = Given - 1 /\ pointer' = pointer + 1 /\ number' = s + 1 /\ whole'
      /\ last' = [message |-> n + 1, number |-> s, cut |-> cut]
  BY <1>3 DEF Take
<1>5. ~cut => Announced(n, Given) /\ s = Seen - Given + 1
  BY <1>1 DEF Ahead
<1> QED
  BY <1>4, <1>5 DEF TakenNext

(* The module is given a message out of the buffer: the next one that was  *)
(* sent, so that those behind it follow the last one it has seen.          *)
LEMMA TakeStream ==
  ASSUME StreamInv, Inv', NEW s \in Int, Take(pointer, s, Given), s = NextNumber,
         pc = "enter" \/ (pc = "return" /\ ret = "OK")
  PROVE  Stops' /\ Aligned' /\ Ordered'
<1>1. Inv /\ LinkType /\ Extent /\ BufferType /\ CallType /\ Stops /\ Aligned /\ Ordered
  BY DEF StreamInv, Inv, TypeOK
<1>2. /\ UNCHANGED <<peerVars, configVars, phase, at, left, frame, buf, pastVars>>
      /\ pc' = "idle" /\ ret' = "OK" /\ size' = 0
  BY DEF Take, OnlyBuffer
<1>3. ~InPart /\ ~InPart' /\ Given' = unread'
  BY <1>2 DEF InPart, Parts, Given
<1>4. Aligned'
  <2>2. CASE dataPointer = 0
    BY <1>1, <1>2, <1>3, <2>2 DEF Aligned, peerVars, configVars, pastVars, Framed, Begins,
       ContainerAt
  <2>3. CASE dataPointer # 0
    <3>1. unread = 0 /\ pc = "enter"
      BY <1>1, <2>3 DEF Stops
    <3>2. last' = last
      BY <3>1 DEF Take, Given
    <3> QED
      BY <1>1, <1>2, <1>3, <2>3, <3>2 DEF Aligned, peerVars, configVars, pastVars, Framed,
         ContainerAt, InPayload, PayloadSplit, NotBefore, Announced, Seen
  <2> QED
    BY <2>2, <2>3
<1>5. Ordered'
  <2> SUFFICES ASSUME ~garbled PROVE ~slipped' /\ \E n \in 0 .. made : Ahead(n)'
    BY <1>2 DEF Ordered, peerVars, pastVars
  <2>1. ~slipped'
    BY <1>1, <1>2 DEF Ordered, pastVars
  <2>2. PICK n \in 0 .. made : Ahead(n)
    BY <1>1 DEF Ordered
  <2>3. Given \in Nat /\ n \in Nat /\ made \in Nat /\ pointer \in Nat
    BY <1>1, <2>2, ReceiverAssumption DEF Given, BufferType, CallType, LinkType
  <2>4. CASE Given = 0
    <3>1. unread' = 0 /\ last' = last
      BY <2>4 DEF Take
    <3>2. Ahead(n)'
      BY <1>2, <1>3, <2>2, <2>3, <2>4, <3>1 DEF Ahead, NotBefore, peerVars
    <3> QED
      BY <2>1, <3>2
  <2>5. CASE Given # 0
    <3>1. TakenNext(n, s)
      BY <1>1, <2>2, <2>5, TakesNext
    <3>3. /\ unread' = Given - 1 /\ pointer' = pointer + 1 /\ number' = s + 1
          /\ last' = [message |-> n + 1, number |-> s, cut |-> cut]
      BY <3>1 DEF TakenNext
    <3>4. n + Given <= made /\ NotBefore(n + Given)
      BY <2>2 DEF Ahead
    <3>5. PICK m \in 0 .. made : m = n + 1
      BY <2>3, <2>5, <3>4
    <3>6. m + Given' = n + Given /\ made' = made /\ wire' = wire /\ Given' = Given - 1
      BY <1>2, <1>3, <2>3, <3>3, <3>5 DEF peerVars
    <3>7. ASSUME NEW i \in 0 .. Given - 2
          PROVE  buf'[pointer' + i] = Message(m + 1 + i)
      <4>1. i + 1 \in 0 .. Given - 1 /\ pointer + (i + 1) = pointer' + i
            /\ n + 1 + (i + 1) = m + 1 + i
        BY <2>3, <3>3, <3>5
      <4>2. buf[pointer + (i + 1)] = Message(n + 1 + (i + 1))
        BY <2>2, <4>1 DEF Ahead
      <4> QED
        BY <1>2, <4>1, <4>2
    <3>9. \A j \in DOMAIN wire' : wire'[j].part = 1 => wire'[j].seq >= m + Given'
      BY <3>4, <3>6 DEF NotBefore
    <3>10. \A i \in 0 .. Given' - 1 : buf'[pointer' + i] = Message(m + 1 + i)
      BY <2>3, <3>6, <3>7
    <3>11. last'.message <= m /\ m + Given' <= made'
      BY <2>3, <3>3, <3>4, <3>5, <3>6
    <3>12. ~cut' => Announced(m, Given)' /\ NextNumber' = Seen' - Given' + 1
      <4> SUFFICES ASSUME ~cut PROVE Announced(m, Given)' /\ NextNumber' = Seen' - Given' + 1
        BY <1>2 DEF pastVars
      <4>1. /\ ~isReset /\ session.seq + session.last = n + Given
            /\ s = Seen - Given + 1 /\ Seen \in Int
        BY <1>1, <3>1 DEF TakenNext, Announced, Inv, TypeOK, CountsType, Seen
      <4>2. Seen' = Seen /\ session' = session /\ isReset' = isReset
        BY <1>2 DEF configVars, Seen
      <4>3. NextNumber' = s + 1
        BY <1>2, <3>3 DEF NextNumber
      <4>4. last'.number = s
        BY <3>3
      <4>5. last'.number <= Seen - Given' /\ NextNumber' = Seen - Given' + 1
        BY <2>3, <3>6, <4>1, <4>3, <4>4
      <4> QED
        BY <3>6, <4>1, <4>2, <4>5 DEF Announced
    <3>13. Ahead(m)'
      BY <3>9, <3>10, <3>11, <3>12 DEF Ahead, NotBefore
    <3> QED
      BY <2>1, <3>5, <3>13
  <2> QED
    BY <2>4, <2>5
<1>6. Stops'
  <2>1. dataPointer # 0 => unread' = 0
    BY <1>1 DEF Stops, Take, Given
  <2> QED
    BY <1>1, <1>2, <1>3, <2>1 DEF Stops, peerVars, configVars, pastVars, InPart, Parts
<1> QED
  BY <1>4, <1>5, <1>6

-----------------------------------------------------------------------------
(* A new connection begins with a header, or is known not to.              *)
LEMMA ConnectStream ==
  ASSUME StreamInv, Inv', UNCHANGED <<bufferVars, closing>>,
         ConnectFails \/ ConnectSucceeds \/ ConnectMismatch \/ ConnectUnanswered
  PROVE  Stops' /\ Aligned' /\ Ordered'
<1>1. Inv /\ LinkType /\ LinkType' /\ BufferType /\ CallType /\ Stops /\ Aligned /\ Ordered
  BY DEF StreamInv, Inv, TypeOK
<1>2. /\ pc = "connect" /\ ~connected /\ wire = <<>> /\ dataPointer = 0 /\ dataPointer' = 0
      /\ UNCHANGED <<made, buf, pointer, unread, last>>
  BY DEF StreamInv, Inv, TypeOK, Extent, Stops, ConnectFails, ConnectSucceeds, ConnectMismatch,
     ConnectUnanswered, Connected, peerVars, configVars, bufferVars
<1>3. ~InPart /\ Given = unread /\ unread = 0
  BY <1>2 DEF InPart, Parts, Given, StreamInv, Inv, Extent
<1>4. HeadLen \in Nat \ {0}
  BY ReceiverAssumption
<1>5. CASE ConnectFails
  <2>1. /\ UNCHANGED <<peerVars, configVars, pastVars>> /\ pc' = "reset"
    BY <1>5 DEF ConnectFails, ToReset
  <2>2. Given' = 0 /\ ~InPart'
    BY <1>2, <1>3, <2>1 DEF Given, InPart, Parts
  <2>3. Aligned'
    BY <1>2, <2>1 DEF Aligned, configVars
  <2>4. Stops'
    BY <1>1, <1>2, <2>1, <2>2 DEF Stops, configVars, peerVars
  <2>5. Ordered'
    BY <1>1, <1>2, <1>3, <2>1, <2>2, OrderedStays
    DEF NotBefore, peerVars, pastVars, LinkType, Ordered
  <2> QED
    BY <2>3, <2>4, <2>5
<1>6. CASE ~ConnectFails
  <2>1. /\ connected'
        /\ garbled' = (garbled \/ wire' # <<>>) /\ slipped' = (wire' # <<>>)
    BY <1>6 DEF ConnectSucceeds, ConnectMismatch, ConnectUnanswered, Connected
  <2>2. \/ pc' = "check" /\ phase' = "head" /\ at' = 1 /\ left' = HeadLen
        \/ pc' = "return" /\ ret' # "OK"
    BY <1>6 DEF ConnectSucceeds, ConnectMismatch, ConnectUnanswered, ReceivePart, Return
  <2>3. Given' = 0
    BY <1>2, <1>3, <2>2 DEF Given
  <2>4. Aligned'
    <3>1. CASE wire' = <<>>
      BY <1>2, <2>2, <3>1 DEF Aligned, Framed, Begins, InPart, Parts
    <3>2. CASE wire' # <<>>
      BY <2>1, <3>2 DEF Aligned
    <3> QED
      BY <3>1, <3>2
  <2>5. Stops'
    BY <1>2, <1>3, <1>4, <2>1, <2>2 DEF Stops, InPart, Parts
  <2>6. Ordered'
    <3>1. CASE wire' = <<>>
      <4>1. \A n \in Nat : n <= made /\ NotBefore(n) => NotBefore(n)'
        BY <3>1 DEF NotBefore
      <4> QED
        <5>1. garbled \in BOOLEAN /\ made \in Nat
          BY DEF StreamInv, Inv, TypeOK, BytesType, LinkType
        <5>2. garbled' \in {garbled, TRUE} /\ (slipped' => garbled') /\ made <= made'
          <6>1. ~slipped' /\ garbled' = garbled
            BY <2>1, <3>1, <5>1, Zenon
          <6>2. made <= made'
            BY <1>2, <5>1
          <6> QED
            BY <6>1, <6>2, Zenon
        <5>3. last' = last /\ Given' = Given /\ Given = 0
          BY <1>2, <1>3, <2>3
        <5> QED
          BY <1>1, <4>1, <5>2, <5>3, OrderedStays
    <3>2. CASE wire' # <<>>
      BY <2>1, <3>2 DEF Ordered
    <3> QED
      BY <3>1, <3>2
  <2> QED
    BY <2>4, <2>5, <2>6
<1> QED
  BY <1>5, <1>6

(* A part is entered where the last attempt has ended.                     *)
LEMMA RecvInitStream ==
  ASSUME StreamInv, Inv', UNCHANGED <<bufferVars, closing>>, RecvInit
  PROVE  Stops' /\ Aligned' /\ Ordered'
<1>1. /\ Inv /\ LinkType /\ LinkType' /\ ConfigType /\ BufferType /\ CallType
      /\ Extent /\ Stops /\ Aligned /\ Ordered
  BY DEF StreamInv, Inv, TypeOK
<1>2. /\ UNCHANGED <<made, link, wire, connected, dataPointer, buf, frame, pointer, unread>>
      /\ UNCHANGED <<last, slipped, cut, garbled, session, total, isReset>>
      /\ pc = "init" /\ ~InPart
      /\ HeadLen \in Nat \ {0}
  BY ReceiverAssumption DEF RecvInit, peerVars, pastVars, bufferVars, InPart, Parts
<1>3. \/ ~connected /\ pc' = "connect" /\ UNCHANGED <<phase, at, left, waitSize>>
      \/ connected /\ dataPointer = 0 /\ waitSize' = HeadLen /\ pc' = "check"
         /\ phase' = "head" /\ at' = 1 /\ left' = HeadLen
      \/ connected /\ dataPointer # 0 /\ pc' = "check" /\ waitSize' = waitSize
         /\ phase' = "mess" /\ at' = dataPointer /\ left' = waitSize
  BY DEF RecvInit, ReceivePart
<1>4. Given = 0 /\ Given' = 0
  BY <1>1, <1>2, <1>3 DEF Given, Extent
<1>5. Grown
  BY <1>1, <1>2, QuietGrown DEF peerVars
<1>6. Aligned'
  <2>1. Framed /\ connected /\ ~slipped => Framed'
    BY <1>2 DEF Framed, ContainerAt
  <2>2. Begins(1, wire) => Begins(1, wire)'
    BY <1>2 DEF Begins
  <2>3. CASE ~connected
    BY <1>2, <2>3 DEF Aligned
  <2>4. CASE connected /\ dataPointer = 0
    BY <1>1, <1>2, <1>3, <2>1, <2>2, <2>4 DEF Aligned, InPart, Parts
  <2>5. CASE connected /\ dataPointer # 0
    <3>1. InPayload(dataPointer, waitSize) => InPayload(at, left)'
      BY <1>2, <1>3, <2>5 DEF InPayload, PayloadSplit, NotBefore, Announced, Seen
    <3> QED
      BY <1>1, <1>2, <1>3, <2>1, <2>5, <3>1 DEF Aligned, InPart, Parts
  <2> QED
    BY <2>3, <2>4, <2>5
<1>7. Ordered'
  BY <1>1, <1>2, <1>4, <1>5, GrownOrdered
<1>8. Stops'
  <2>1. dataPointer \in Nat
    BY <1>1, ReceiverAssumption DEF ConfigType
  <2> QED
    BY <1>1, <1>2, <1>3, <2>1 DEF Stops, InPart, Parts
<1> QED
  BY <1>6, <1>7, <1>8

(* A part that is given up: a payload is kept to be gone on with, and a    *)
(* header must not have been begun.                                        *)
LEMMA GiveUpStream ==
  ASSUME StreamInv, Inv', UNCHANGED bufferVars, InPart, GiveUp(at, left), OnlyCall,
         phase = "head" /\ at # 1 => slipped', slipped' \in {slipped, TRUE},
         garbled' \in {garbled, TRUE}, slipped' => garbled'
  PROVE  Stops' /\ Aligned' /\ Ordered'
<1>1. /\ Inv /\ LinkType /\ LinkType' /\ ConfigType /\ BufferType /\ CallType
      /\ Extent /\ Stops /\ Aligned /\ Ordered
  BY DEF StreamInv, Inv, TypeOK
<1>2. /\ UNCHANGED <<made, link, wire, connected, buf, frame, pointer, unread, last, ret, size>>
      /\ UNCHANGED <<session, total, isReset, cut>>
      /\ pc' = "reset" /\ waitSize' = left
      /\ dataPointer' = IF phase = "mess" THEN at ELSE dataPointer
      /\ ~InPart' /\ unread = 0 /\ at \in Nat /\ left \in Nat
      /\ phase \in {"head", "mess"}
  BY <1>1 DEF GiveUp, OnlyCall, ToReset, InPart, Parts, Extent, peerVars, bufferVars, CallType
<1>3. Given = 0 /\ Given' = 0
  BY <1>2 DEF Given, InPart, Parts
<1>4. Grown
  BY <1>1, <1>2, QuietGrown DEF peerVars
<1>5. Aligned'
  <2> SUFFICES ASSUME connected, ~slipped' PROVE Aligned'
    BY <1>2 DEF Aligned
  <2>1. ~slipped
    OBVIOUS
  <2>2. Framed'
    BY <1>1, <1>2, <2>1 DEF Aligned, Framed, ContainerAt
  <2>3. CASE phase = "mess"
    <3>1. at > 0
      BY <1>1, <2>1 DEF Stops
    <3>2. dataPointer' = at /\ waitSize' = left /\ dataPointer' # 0
      BY <1>2, <2>3, <3>1
    <3>3. InPayload(at, left)
      BY <1>1, <2>1, <2>3 DEF Aligned
    <3>4. InPayload(dataPointer, waitSize)'
      <4>1. PICK n \in 0 .. made, k \in Nat, m \in Nat :
              /\ k = at /\ m = left /\ PayloadSplit(n, k, m)
              /\ ~garbled => last.message <= n
              /\ ~garbled /\ ~cut => Announced(n, k - 1 + m) /\ session.last = k - 1 + m
        BY <1>2, <3>3 DEF InPayload
      <4>2. /\ UNCHANGED <<made, link, wire, buf, last, session, total, isReset, cut>>
            /\ dataPointer' = k /\ waitSize' = m
        BY <1>2, <3>2, <4>1
      <4>3. PayloadSplit(n, dataPointer, waitSize)'
        BY <4>1, <4>2 DEF PayloadSplit, NotBefore
      <4>4. /\ ~garbled' => last'.message <= n
            /\ ~garbled' /\ ~cut' => /\ Announced(n, dataPointer - 1 + waitSize)'
                                     /\ session'.last = dataPointer' - 1 + waitSize'
        BY <4>1, <4>2 DEF Announced, Seen
      <4> QED
        BY <4>2, <4>3, <4>4 DEF InPayload
    <3> QED
      BY <1>2, <2>2, <3>2, <3>4 DEF Aligned
  <2>4. CASE phase = "head"
    <3>1. at = 1 /\ Begins(1, wire)
      BY <1>1, <2>1, <2>4 DEF Aligned
    <3>2. dataPointer = 0
      BY <1>1, <2>4 DEF Extent
    <3> QED
      BY <1>2, <2>2, <2>4, <3>1, <3>2 DEF Aligned, Begins
  <2> QED
    BY <1>2, <2>3, <2>4
<1>6. Ordered'
  <2>1. \A n \in Nat : n <= made /\ NotBefore(n) => NotBefore(n)'
    BY <1>1, <1>4, GrownNotBefore
  <2>2. made <= made'
    BY <1>4 DEF Grown
  <2> QED
    BY <1>1, <1>2, <1>3, <2>1, <2>2, OrderedStays
<1>7. Stops'
  BY <1>1, <1>2 DEF Stops, InPart, Parts
<1> QED
  BY <1>5, <1>6, <1>7

LEMMA PartCheckStream ==
  ASSUME StreamInv, Inv', UNCHANGED <<bufferVars, closing>>,
         PartCheck \/ PollReady \/ PollTimeout \/ ReadAgain
  PROVE  Stops' /\ Aligned' /\ Ordered'
<1>1. /\ Inv /\ LinkType /\ LinkType' /\ ConfigType /\ BufferType /\ CallType /\ BytesType
      /\ Extent /\ Stops /\ Aligned /\ Ordered
  BY DEF StreamInv, Inv, TypeOK
<1>2. /\ pc \in {"check", "poll", "read"} /\ InPart /\ OnlyCall
  BY DEF PartCheck, PollReady, PollTimeout, ReadAgain, InPart, Parts
<1>3. CASE \/ pc = "check" /\ pc' = "poll"
              /\ UNCHANGED <<dataPointer, waitSize, phase, at, left, slipped, garbled>>
           \/ PollReady
  <2>1. /\ UNCHANGED <<made, link, wire, connected, dataPointer, waitSize, phase, at, left>>
        /\ UNCHANGED <<frame, buf, slipped, garbled, pointer, unread, last, ret, size>>
        /\ UNCHANGED <<session, total, isReset, cut>>
        /\ \/ pc = "check" /\ pc' = "poll"
           \/ pc = "poll" /\ pc' = "read"
    BY <1>2, <1>3 DEF OnlyCall, PollReady, peerVars, bufferVars
  <2>2. InPart' /\ InPart' = InPart
    BY <1>2, <2>1 DEF InPart, Parts
  <2>3. Grown
    BY <1>1, <2>1, QuietGrown DEF peerVars
  <2>4. Given' = Given /\ Given = 0
    BY <1>1, <1>2, <2>1 DEF Given, Extent
  <2>5. Aligned' /\ Ordered'
    BY <1>1, <2>1, <2>2, <2>3, <2>4, GrownAligned, GrownOrdered
  <2>6. Stops'
    BY <1>1, <1>2, <2>1, <2>2 DEF Stops
  <2> QED
    BY <2>5, <2>6
<1>4. CASE PartCheck /\ terminated
  <2>1. /\ pc = "check" /\ waitSize = left /\ GiveUp(at, waitSize)
        /\ UNCHANGED <<slipped, garbled>>
    BY <1>1, <1>4 DEF PartCheck, Extent
  <2>2. phase = "head" => at = 1
    BY <1>1, <2>1 DEF Stops
  <2>3. GiveUp(at, left)
    BY <2>1
  <2>4. garbled \in {garbled, TRUE} /\ slipped \in {slipped, TRUE} /\ (slipped => garbled)
    BY <1>1 DEF Ordered
  <2> QED
    BY <1>2, <2>1, <2>2, <2>3, <2>4, GiveUpStream
<1>5. CASE PollTimeout
  <2>1. pc = "poll" /\ GiveUp(at, left) /\ UNCHANGED <<slipped, garbled>>
    BY <1>5 DEF PollTimeout
  <2>2. phase = "head" => at = 1
    BY <1>1, <2>1 DEF Stops
  <2>3. garbled \in {garbled, TRUE} /\ slipped \in {slipped, TRUE} /\ (slipped => garbled)
    BY <1>1 DEF Ordered
  <2> QED
    BY <1>2, <2>1, <2>2, <2>3, GiveUpStream
<1>6. CASE ReadAgain
  <2>1. /\ GiveUp(at, left)
        /\ slipped' = (slipped \/ (phase = "head" /\ at > 1))
        /\ garbled' = (garbled \/ slipped')
    BY <1>6 DEF ReadAgain
  <2>2. at \in Nat /\ slipped \in BOOLEAN /\ garbled \in BOOLEAN
    BY <1>1 DEF CallType, BytesType
  <2>3. phase = "head" /\ at # 1 => slipped'
    <3>1. ~slipped => at > 0
      BY <1>1, <1>2 DEF Stops
    <3>2. ~slipped /\ at # 1 => at > 1
      BY <2>2, <3>1
    <3> QED
      BY <2>1, <3>2, Zenon
  <2>4. slipped' \in {slipped, TRUE} /\ garbled' \in {garbled, TRUE} /\ (slipped' => garbled')
    BY <2>1, <2>2
  <2> QED
    BY <1>2, <2>1, <2>3, <2>4, GiveUpStream
<1> QED
  BY <1>3, <1>4, <1>5, <1>6 DEF PartCheck

(* A connection that is lost takes its bytes along.                        *)
LEMMA DisconnectStream ==
  ASSUME StreamInv, Inv', UNCHANGED <<bufferVars, closing, made, buf>>, InPart, Disconnected,
         pc' = "reset", garbled' = garbled
  PROVE  Stops' /\ Aligned' /\ Ordered'
<1>1. /\ Inv /\ LinkType /\ LinkType' /\ BufferType /\ CallType
      /\ Extent /\ Stops /\ Ordered /\ unread = 0
  BY DEF StreamInv, Inv, TypeOK, Extent
<1>2. /\ ~connected' /\ wire' = <<>> /\ ~slipped' /\ ~InPart'
      /\ UNCHANGED <<pointer, unread, last>>
  BY DEF Disconnected, InPart, Parts, bufferVars
<1>3. Given = 0 /\ Given' = 0
  BY <1>1, <1>2 DEF Given, InPart, Parts
<1>4. Aligned'
  BY <1>2 DEF Aligned
<1>5. Stops'
  BY <1>1, <1>2 DEF Stops, InPart, Parts
<1>6. \A n \in Nat : n <= made /\ NotBefore(n) => NotBefore(n)'
  BY <1>2 DEF NotBefore
<1>7. Ordered'
  BY <1>1, <1>2, <1>3, <1>6, OrderedStays DEF LinkType
<1> QED
  BY <1>4, <1>5, <1>7

LEMMA ReadFailsStream ==
  ASSUME StreamInv, Inv', UNCHANGED <<bufferVars, closing>>, ReadInterrupted \/ ReadBroken
  PROVE  Stops' /\ Aligned' /\ Ordered'
<1>1. /\ Inv /\ LinkType /\ LinkType' /\ BufferType /\ CallType
      /\ Extent /\ Stops /\ Ordered /\ unread = 0 /\ InPart /\ pc = "read" /\ UNCHANGED made
      /\ UNCHANGED buf
  BY DEF StreamInv, Inv, TypeOK, Extent, ReadInterrupted, ReadBroken, InPart, Parts
<1>2. CASE Disconnected /\ ToReset /\ UNCHANGED garbled
  BY <1>1, <1>2, DisconnectStream DEF ToReset
<1>3. CASE ReadInterrupted /\ ~terminated
  <2>1. /\ slipped' /\ garbled' /\ left' = left + 1 /\ left \in Nat
        /\ UNCHANGED <<pc, phase, connected, wire, dataPointer, ret, size, unread>>
    BY <1>1, <1>3 DEF ReadInterrupted, bufferVars, CallType
  <2>2. Stops'
    BY <1>1, <2>1 DEF Stops, InPart
  <2> QED
    BY <2>1, <2>2 DEF Aligned, Ordered
<1> QED
  BY <1>2, <1>3 DEF ReadInterrupted, ReadBroken

-----------------------------------------------------------------------------
(* A byte is read: what has been known of the wire holds one place earlier. *)
Shifted == made' = made /\ link' = link /\ wire # <<>> /\ wire' = Tail(wire)

LEMMA ShiftedWire ==
  ASSUME LinkType, Shifted
  PROVE  /\ wire' \in Seq(Bytes) /\ Len(wire) \in Nat /\ Len(wire) > 0 /\ wire[1] \in Bytes
         /\ Head(wire) = wire[1] /\ 1 \in DOMAIN wire
         /\ Len(wire') = Len(wire) - 1
         /\ \A j \in DOMAIN wire' :
              wire'[j] = wire[j + 1] /\ j + 1 \in DOMAIN wire /\ j \in Nat /\ wire'[j] \in Bytes
<1>1. wire \in Seq(Bytes) /\ Len(wire) \in Nat /\ Len(wire) > 0
  BY DEF LinkType, Shifted
<1>2. /\ wire' \in Seq(Bytes) /\ Len(wire') = Len(wire) - 1
      /\ \A j \in 1 .. Len(wire') : wire'[j] = wire[j + 1]
  BY <1>1, HeadTailProperties DEF Shifted
<1>3. \A j \in DOMAIN wire' : j \in 1 .. Len(wire') /\ j + 1 \in 1 .. Len(wire)
  BY <1>1, <1>2
<1> QED
  BY <1>1, <1>2, <1>3

LEMMA ShiftedNotBefore ==
  ASSUME LinkType, Shifted, NEW n, NotBefore(n)
  PROVE  NotBefore(n)'
<1>1. \A j \in DOMAIN wire' : wire'[j] = wire[j + 1] /\ j + 1 \in DOMAIN wire
  BY ShiftedWire
<1> QED
  BY <1>1 DEF NotBefore

LEMMA ShiftedContainer ==
  ASSUME LinkType, Shifted, NEW h \in Bytes, NEW p \in Int, NEW q \in Int, p = q + 1,
         ContainerAt(h, p)
  PROVE  ContainerAt(h, q)'
<1>1. h.seq \in Nat /\ h.size \in Nat /\ HeadLen \in Nat
  BY ReceiverAssumption DEF Bytes
<1>2. /\ Len(wire') = Len(wire) - 1 /\ Len(wire) \in Nat /\ made' = made /\ link' = link
  BY ShiftedWire DEF Shifted
<1>3. ASSUME NEW j \in DOMAIN wire'
      PROVE  /\ q < j /\ j < q + HeadLen => wire'[j] = Byte(j - q + 1, h.seq, h.size)
             /\ q + HeadLen <= j /\ j < q + HeadLen + h.size =>
                  wire'[j] = Message(h.seq + j - q - HeadLen + 1)
             /\ j = q + HeadLen + h.size => wire'[j].part = 1
             /\ q < j /\ wire'[j].part = 1 => wire'[j].seq >= h.seq + h.size
  <2>1. PICK i \in DOMAIN wire : i = j + 1 /\ wire'[j] = wire[i] /\ j \in Nat
    BY ShiftedWire
  <2>2. /\ p < i /\ i < p + HeadLen => wire[i] = Byte(i - p + 1, h.seq, h.size)
        /\ p + HeadLen <= i /\ i < p + HeadLen + h.size =>
             wire[i] = Message(h.seq + i - p - HeadLen + 1)
        /\ i = p + HeadLen + h.size => wire[i].part = 1
        /\ p < i /\ wire[i].part = 1 => wire[i].seq >= h.seq + h.size
    BY DEF ContainerAt
  <2>3. /\ i - p = j - q /\ i - p + 1 = j - q + 1
        /\ h.seq + i - p - HeadLen + 1 = h.seq + j - q - HeadLen + 1
        /\ (p < i <=> q < j) /\ (i < p + HeadLen <=> j < q + HeadLen)
        /\ (i < p + HeadLen + h.size <=> j < q + HeadLen + h.size)
        /\ (p + HeadLen <= i <=> q + HeadLen <= j)
        /\ (i = p + HeadLen + h.size <=> j = q + HeadLen + h.size)
    BY <1>1, <2>1
  <2> QED
    BY <2>1, <2>2, <2>3
<1>4. h.seq + h.size <= made' /\ (link' = "up" => q + HeadLen + h.size <= Len(wire') + 1)
  BY <1>1, <1>2 DEF ContainerAt
<1> QED
  BY <1>3, <1>4 DEF ContainerAt

LEMMA ShiftedFramed ==
  ASSUME LinkType, Shifted, Framed
  PROVE  Framed'
<1> SUFFICES ASSUME NEW j \in DOMAIN wire', wire'[j].part = 1
             PROVE  ContainerAt(wire[j], j)'
  BY DEF Framed
<1>1. PICK h \in Bytes, i \in DOMAIN wire, q \in Int :
        q = j /\ i = j + 1 /\ h = wire'[j] /\ h = wire[i]
  BY ShiftedWire
<1>2. i \in Int /\ i = q + 1 /\ ContainerAt(h, i)
  BY <1>1 DEF Framed
<1>3. ContainerAt(h, q)'
  BY <1>2, ShiftedContainer
<1>4. h = wire'[j] /\ q = j
  BY <1>1
<1> QED
  BY <1>3, <1>4

LEMMA ReadPayloadByte ==
  ASSUME LinkType, BytesType, CallType, Shifted, InPayload(at, left), left > 0, at > 0,
         at + left <= MaxBatch + 1, UNCHANGED <<last, garbled, session, total, isReset, cut>>,
         buf' = [i \in DOMAIN buf |-> IF i = at THEN Head(wire) ELSE buf[i]],
         at' = at + 1, left' = left - 1
  PROVE  InPayload(at, left)'
<1>1. PICK n \in 0 .. made :
        /\ PayloadSplit(n, at, left)
        /\ ~garbled => last.message <= n
        /\ ~garbled /\ ~cut => Announced(n, at - 1 + left) /\ session.last = at - 1 + left
  BY DEF InPayload
<1>2. /\ at \in Nat /\ left \in Nat /\ MaxBatch \in Nat /\ n \in Nat /\ made' = made
      /\ link' = link /\ made \in Nat
  BY ReceiverAssumption DEF CallType, LinkType, Shifted
<1>3. Head(wire) = wire[1] /\ wire[1] = Message(n + at)
  <2>1. 1 \in DOMAIN wire /\ Head(wire) = wire[1]
    BY ShiftedWire
  <2>2. wire[1] = Message(n + at - 1 + 1)
    BY <1>1, <1>2, <2>1 DEF PayloadSplit
  <2> QED
    BY <1>2, <2>1, <2>2
<1>4. DOMAIN buf = 1 .. MaxBatch /\ at \in 1 .. MaxBatch
  BY <1>2 DEF BytesType
<1>5. \A i \in 1 .. at' - 1 : buf'[i] = Message(n + i)
  <2> SUFFICES ASSUME NEW i \in 1 .. at PROVE buf'[i] = Message(n + i)
    BY <1>2
  <2>1. i \in DOMAIN buf
    BY <1>2, <1>4
  <2>2. CASE i = at
    BY <1>3, <2>1, <2>2
  <2>3. CASE i # at
    <3>1. i \in 1 .. at - 1
      BY <1>2, <2>3
    <3> QED
      BY <1>1, <2>1, <2>3, <3>1 DEF PayloadSplit
  <2> QED
    BY <2>2, <2>3
<1>6. n + at' - 1 + left' = n + at - 1 + left /\ n + at' - 1 = n + at
  BY <1>2
<1>7. PICK m : m = n + at - 1 + left
  OBVIOUS
<1>8. NotBefore(m)'
  <2>1. NotBefore(m)
    BY <1>1, <1>7 DEF PayloadSplit
  <2> QED
    BY <2>1, ShiftedNotBefore
<1>9. \A j \in DOMAIN wire' :
        /\ j <= left' => wire'[j] = Message(n + at' - 1 + j)
        /\ j = left' + 1 => wire'[j].part = 1
  <2> SUFFICES ASSUME NEW j \in DOMAIN wire'
               PROVE  /\ j <= left' => wire'[j] = Message(n + at' - 1 + j)
                      /\ j = left' + 1 => wire'[j].part = 1
    OBVIOUS
  <2>1. PICK i \in DOMAIN wire : i = j + 1 /\ wire'[j] = wire[i] /\ j \in Nat
    BY ShiftedWire
  <2>2. /\ i <= left => wire[i] = Message(n + at - 1 + i)
        /\ i = left + 1 => wire[i].part = 1
    BY <1>1 DEF PayloadSplit
  <2>3. n + at - 1 + i = n + at' - 1 + j
    BY <1>2, <2>1
  <2> QED
    BY <1>2, <2>1, <2>2, <2>3
<1>10. m <= made' /\ m = n + at' - 1 + left' /\ (link' = "up" => left' <= Len(wire'))
  <2>1. m <= made /\ (link = "up" => left <= Len(wire))
    BY <1>1, <1>7 DEF PayloadSplit
  <2>2. Len(wire') = Len(wire) - 1 /\ Len(wire) \in Nat
    BY ShiftedWire
  <2> QED
    BY <1>2, <1>6, <1>7, <2>1, <2>2
<1>11. PayloadSplit(n, at, left)'
  BY <1>5, <1>8, <1>9, <1>10 DEF PayloadSplit
<1>12. ~garbled' /\ ~cut' => /\ Announced(n, at - 1 + left)'
                            /\ session'.last = at' - 1 + left'
  <2>1. at' - 1 + left' = at - 1 + left
    BY <1>2
  <2> QED
    BY <1>1, <2>1 DEF Announced, Seen
<1> QED
  BY <1>1, <1>2, <1>11, <1>12 DEF InPayload

LEMMA ReadHeaderByte ==
  ASSUME LinkType, BytesType, BufferType, CallType, Shifted, Ordered, Framed,
         IF at = 1 THEN Begins(1, wire) ELSE InHeader, at > 0, at <= HeadLen,
         UNCHANGED <<last, garbled>>, at' = at + 1,
         frame' = [i \in DOMAIN frame |-> IF i = at THEN Head(wire) ELSE frame[i]]
  PROVE  InHeader'
<1>1. /\ HeadLen \in Nat \ {0} /\ at \in Nat /\ DOMAIN frame = 1 .. HeadLen
      /\ at \in 1 .. HeadLen /\ 1 \in 1 .. HeadLen /\ Head(wire) = wire[1]
      /\ wire[1] \in Bytes /\ 1 \in DOMAIN wire
  BY ReceiverAssumption, ShiftedWire DEF CallType, BytesType
<1>2. PICK q \in Int : q = 2 - at'
  BY <1>1
<1>3. CASE at = 1
  <2>1. PICK h \in Bytes : h = wire[1] /\ h.part = 1 /\ ContainerAt(h, 1)
    BY <1>1, <1>3 DEF Begins, Framed, Shifted
  <2>2. frame'[1] = h /\ at' = 2 /\ q = 0
    BY <1>1, <1>2, <1>3, <2>1
  <2>3. ContainerAt(h, q)'
    BY <2>1, <2>2, ShiftedContainer
  <2>4. h = Byte(1, h.seq, h.size)
    BY <2>1 DEF Byte, Bytes
  <2>5. ~garbled' => last'.message <= h.seq
    <3> SUFFICES ASSUME ~garbled PROVE last.message <= h.seq
      OBVIOUS
    <3>1. PICK n \in 0 .. made : Ahead(n)
      BY DEF Ordered
    <3>2. last.message <= n /\ n + Given <= h.seq
      BY <1>1, <2>1, <3>1 DEF Ahead, NotBefore
    <3>3. Given \in Nat /\ n \in Nat /\ h.seq \in Nat /\ last.message \in Nat
      BY <3>1, ReceiverAssumption DEF Given, BufferType, CallType, LinkType, Bytes
    <3> QED
      BY <3>2, <3>3
  <2>6. \A i \in 1 .. at' - 1 : frame'[i] = Byte(i, frame'[1].seq, frame'[1].size)
    BY <2>2, <2>4
  <2> QED
    BY <1>2, <2>2, <2>3, <2>5, <2>6 DEF InHeader
<1>4. CASE at # 1
  <2>1. PICK h \in Bytes, p \in Int : h = frame[1] /\ p = 2 - at
    BY <1>1 DEF BytesType
  <2>2. /\ ContainerAt(h, p) /\ (~garbled => last.message <= h.seq)
        /\ \A i \in 1 .. at - 1 : frame[i] = Byte(i, h.seq, h.size)
    BY <1>4, <2>1 DEF InHeader
  <2>3. p = q + 1 /\ p < 1 /\ 1 < p + HeadLen /\ 1 - p + 1 = at
    BY <1>1, <1>2, <1>4, <2>1
  <2>4. wire[1] = Byte(at, h.seq, h.size)
    BY <1>1, <2>2, <2>3 DEF ContainerAt
  <2>5. ContainerAt(h, q)'
    BY <2>2, <2>3, ShiftedContainer
  <2>6. frame'[1] = h
    BY <1>1, <1>4, <2>1
  <2>7. \A i \in 1 .. at' - 1 : frame'[i] = Byte(i, h.seq, h.size)
    <3>0. at' - 1 = at
      BY <1>1
    <3> SUFFICES ASSUME NEW i \in 1 .. at PROVE frame'[i] = Byte(i, h.seq, h.size)
      BY <3>0, Zenon
    <3>1. i \in DOMAIN frame /\ (i # at => i \in 1 .. at - 1)
      BY <1>1
    <3> QED
      BY <1>1, <2>2, <2>4, <3>1
  <2> QED
    BY <1>2, <2>2, <2>5, <2>6, <2>7 DEF InHeader
<1> QED
  BY <1>3, <1>4

LEMMA ReadByteStream ==
  ASSUME StreamInv, Inv', UNCHANGED <<bufferVars, closing>>, ReadByte
  PROVE  Stops' /\ Aligned' /\ Ordered'
<1>1. /\ Inv /\ LinkType /\ LinkType' /\ BufferType /\ CallType /\ BytesType
      /\ Extent /\ Stops /\ Aligned /\ Ordered /\ unread = 0
  BY DEF StreamInv, Inv, TypeOK, Extent, ReadByte, InPart, Parts
<1>2. /\ UNCHANGED <<connected, dataPointer, phase, ret, slipped, garbled, pointer, unread, last>>
      /\ UNCHANGED <<session, total, isReset, cut>> /\ at' = at + 1 /\ left' = left - 1 /\ left > 0 /\ pc = "read"
      /\ pc' = IF left > 1 THEN "read" ELSE phase
      /\ at \in Nat /\ left \in Nat /\ phase \in {"head", "mess"}
  BY <1>1 DEF ReadByte, bufferVars, pastVars, CallType
<1>3. Shifted
  BY DEF ReadByte, Shifted
<1>4. InPart /\ InPart' /\ Given = 0 /\ Given' = 0
  BY <1>1, <1>2 DEF InPart, Parts, Given
<1>5. Aligned'
  <2> SUFFICES ASSUME connected, ~slipped
               PROVE  /\ Framed'
                      /\ phase = "mess" => InPayload(at, left)'
                      /\ phase = "head" => IF at' = 1 THEN Begins(1, wire)' ELSE InHeader'
    BY <1>2, <1>4 DEF Aligned
  <2>1. at > 0 /\ Framed
    BY <1>1, <1>4 DEF Stops, Aligned
  <2>2. Framed'
    BY <1>1, <1>3, <2>1, ShiftedFramed
  <2>3. ASSUME phase = "mess" PROVE InPayload(at, left)'
    <3>1. InPayload(at, left) /\ at + left <= MaxBatch + 1
      BY <1>1, <1>4, <2>3 DEF Aligned, Extent
    <3>2. buf' = [i \in DOMAIN buf |-> IF i = at THEN Head(wire) ELSE buf[i]]
      BY <2>3 DEF ReadByte
    <3> QED
      BY <1>1, <1>2, <1>3, <2>1, <3>1, <3>2, ReadPayloadByte
  <2>4. ASSUME phase = "head" PROVE InHeader' /\ at' # 1
    <3>1. IF at = 1 THEN Begins(1, wire) ELSE InHeader
      BY <1>1, <1>4, <2>4 DEF Aligned
    <3>2. at <= HeadLen
      BY <1>1, <1>2, <1>4, <2>4, ReceiverAssumption DEF Extent
    <3>3. frame' = [i \in DOMAIN frame |-> IF i = at THEN Head(wire) ELSE frame[i]]
      BY <2>4 DEF ReadByte
    <3>4. InHeader'
      BY <1>1, <1>2, <1>3, <2>1, <3>1, <3>2, <3>3, ReadHeaderByte
    <3> QED
      BY <1>2, <2>1, <3>4
  <2> QED
    BY <2>2, <2>3, <2>4
<1>6. Ordered'
  <2>1. \A n \in Nat : n <= made /\ NotBefore(n) => NotBefore(n)'
    BY <1>1, <1>3, ShiftedNotBefore
  <2>2. made <= made' /\ (slipped' => garbled') /\ garbled' \in {garbled, TRUE}
    BY <1>1, <1>2, <1>3 DEF Shifted, LinkType, Ordered
  <2> QED
    BY <1>1, <1>2, <1>4, <2>1, <2>2, OrderedStays
<1>7. Stops'
  <2>1. connected'
    BY <1>1, <1>2, <1>4 DEF Extent
  <2>2. ~slipped => at > 0
    BY <1>1, <1>4 DEF Stops
  <2>3. at' > 0 \/ slipped'
    BY <1>2, <2>2
  <2>4. dataPointer # 0 => unread' = 0 /\ pc' # "return"
    BY <1>1, <1>2
  <2> QED
    BY <1>2, <2>1, <2>3, <2>4 DEF Stops, InPart
<1> QED
  BY <1>5, <1>6, <1>7

(* A header that is whole is followed by its payload.                      *)
LEMMA HeaderPayload ==
  ASSUME LinkType, BytesType, InHeader, at = HeadLen + 1
  PROVE  /\ frame[1].seq \in 0 .. made /\ frame[1].size \in Nat
         /\ PayloadSplit(frame[1].seq, 1, frame[1].size)
<1>1. PICK h \in Bytes : h = frame[1]
  BY ReceiverAssumption DEF BytesType
<1>2. /\ h.seq \in Nat /\ h.size \in Nat /\ HeadLen \in Nat \ {0} /\ made \in Nat
      /\ Len(wire) \in Nat /\ DOMAIN wire = 1 .. Len(wire)
  BY ReceiverAssumption DEF Bytes, LinkType
<1>3. PICK p \in Int : p = 1 - HeadLen /\ ContainerAt(h, p)
  <2>1. 2 - at = 1 - HeadLen /\ 2 - at \in Int
    BY <1>2
  <2> QED
    BY <1>1, <2>1 DEF InHeader
<1>4. h.seq + h.size <= made /\ (link = "up" => h.size <= Len(wire))
  BY <1>2, <1>3 DEF ContainerAt
<1>5. ASSUME NEW j \in DOMAIN wire
      PROVE  /\ j <= h.size => wire[j] = Message(h.seq + j)
             /\ j = h.size + 1 => wire[j].part = 1
             /\ wire[j].part = 1 => wire[j].seq >= h.seq + h.size
  <2>1. j \in Nat /\ j > 0
    BY <1>2
  <2>2. /\ p + HeadLen <= j /\ p < j
        /\ h.seq + j - p - HeadLen + 1 = h.seq + j
        /\ (j <= h.size => j < p + HeadLen + h.size)
        /\ (j = h.size + 1 => j = p + HeadLen + h.size)
    BY <1>2, <1>3, <2>1
  <2> QED
    BY <1>3, <2>2 DEF ContainerAt
<1>6. h.seq \in 0 .. made /\ h.seq + 1 - 1 + h.size = h.seq + h.size /\ h.seq + 1 - 1 = h.seq
  BY <1>2, <1>4
<1>7. PayloadSplit(h.seq, 1, h.size)
  BY <1>2, <1>4, <1>5, <1>6 DEF PayloadSplit, NotBefore
<1> QED
  BY <1>1, <1>2, <1>6, <1>7

(* The counters learn of the messages the header announces; those lost     *)
(* since the last header are counted as well, unless a reset is between.   *)
LEMMA HeaderCounted ==
  ASSUME Inv, Tallied, HeaderRead, connected, ~slipped, ~garbled, InHeader,
         phase = "head", at > 1, UNCHANGED last, NEW h \in Bytes, h = frame[1]
  PROVE  /\ Announced(h.seq, h.size)' /\ session'.last = h.size
         /\ \A b \in 0 .. made : Tally(b) =>
              /\ b <= h.seq
              /\ ~last.cut =>
                   /\ last.number <= Seen' - h.size
                   /\ Seen' - last.number <= h.seq + h.size - last.message
                   /\ whole => Seen' - last.number = h.seq + h.size - last.message
<1>1. /\ session' = Counted(h) /\ ~isReset' /\ total' = total /\ pc = "head" /\ InPart
      /\ h.seq \in Nat /\ h.size \in Nat
  BY ReceiverAssumption DEF HeaderRead, InPart, Parts, Bytes
<1>2. /\ session'.seq = h.seq /\ session'.last = h.size
      /\ session'.offset = IF isReset THEN h.seq ELSE session.offset
  BY <1>1 DEF Counted
<1>3. /\ session.seq \in Nat /\ session.last \in Nat /\ session.offset \in Nat
      /\ total.seq \in Int /\ last.number \in Int /\ last.message \in Nat /\ made \in Nat
      /\ Seen \in Int
  BY DEF Inv, TypeOK, LinkType, CountsType, BufferType, Seen
<1>4. isReset => Seen = total.seq
  BY <1>3 DEF Inv, Accounted, NoSession, Seen
<1>5. Seen' = total.seq + (h.seq + h.size - IF isReset THEN h.seq ELSE session.offset)
  BY <1>1, <1>2 DEF Seen
<1>6. ASSUME NEW b \in 0 .. made, Tally(b)
      PROVE  /\ b <= h.seq
             /\ ~last.cut =>
                  /\ last.number <= Seen' - h.size
                  /\ Seen' - last.number <= h.seq + h.size - last.message
                  /\ whole => Seen' - last.number = h.seq + h.size - last.message
  <2>1. b \in Nat /\ b <= h.seq
    BY <1>1, <1>3, <1>6 DEF Tally, HeaderBegun
  <2>2. ~last.cut => /\ last.number <= Seen /\ Seen - last.number <= b - last.message
                     /\ whole => ~isReset /\ Seen - last.number = b - last.message
    BY <1>6 DEF Tally
  <2>3. CASE isReset
    <3>1. Seen' = Seen + h.size
      BY <1>1, <1>3, <1>4, <1>5, <2>3
    <3> QED
      BY <1>1, <1>3, <2>1, <2>2, <2>3, <3>1
  <2>4. CASE ~isReset
    <3>1. b = session.seq + session.last
      BY <1>6, <2>4 DEF Tally
    <3>2. Seen = total.seq + (b - session.offset)
      BY <1>3, <3>1 DEF Seen
    <3>3. Seen' = total.seq + (h.seq + h.size - session.offset)
      BY <1>5, <2>4
    <3>4. Seen' = Seen + (h.seq + h.size - b)
      BY <1>1, <1>3, <2>1, <3>2, <3>3
    <3> QED
      BY <1>1, <1>3, <2>1, <2>2, <2>4, <3>4
  <2> QED
    BY <2>3, <2>4
<1>7. PICK b \in 0 .. made : Tally(b)
  BY DEF Tallied
<1>8. ~last.cut => last.number <= Seen' - h.size
  BY <1>6, <1>7
<1> QED
  BY <1>1, <1>2, <1>6, <1>8 DEF Announced

(* The header is what it was sent as, and so is the length it tells.       *)
LEMMA HeaderStream ==
  ASSUME StreamInv, Inv', UNCHANGED <<bufferVars, closing>>, HeaderRead \/ HeaderMisread
  PROVE  Stops' /\ Aligned' /\ Ordered'
<1>1. /\ Inv /\ LinkType /\ LinkType' /\ BufferType /\ CallType /\ BytesType
      /\ Extent /\ Stops /\ Aligned /\ Ordered /\ Tallied
  BY DEF StreamInv, Inv, TypeOK
<1>2. /\ UNCHANGED <<made, link, wire, connected, dataPointer, frame, buf, ret, slipped>>
      /\ UNCHANGED <<garbled, pointer, unread, last, size>> /\ pc = "head" /\ InPart
      /\ HeadLen \in Nat \ {0}
  BY ReceiverAssumption DEF HeaderRead, HeaderMisread, peerVars, configVars, pastVars,
     bufferVars, InPart, Parts
<1>3. Grown
  BY <1>1, <1>2, QuietGrown DEF peerVars
<1>4. phase = "head" /\ left = 0 /\ at = HeadLen + 1 /\ dataPointer = 0
  BY <1>1, <1>2 DEF Extent, Stops, CallType
<1>5. pc' \in {"check", "lost"} /\ Given = 0 /\ Given' = 0
  BY <1>1, <1>2 DEF HeaderRead, HeaderMisread, ReceivePart, Given, Extent
<1>6. Ordered'
  BY <1>1, <1>2, <1>3, <1>5, GrownOrdered
<1>7. CASE HeaderMisread
  <2>1. pc' = "lost" /\ ~InPart' /\ left' = left /\ phase' = phase
    BY <1>7 DEF HeaderMisread, InPart, Parts
  <2>2. connected => slipped
    <3> SUFFICES ASSUME connected, ~slipped PROVE HeaderWhole
      BY <1>7 DEF HeaderMisread
    <3>1. InHeader
      BY <1>1, <1>2, <1>4 DEF Aligned
    <3> QED
      BY <1>2, <1>4, <3>1 DEF InHeader, HeaderWhole
  <2>3. Aligned'
    BY <1>2, <2>2 DEF Aligned
  <2>4. Stops'
    BY <1>1, <1>2, <2>1 DEF Stops
  <2> QED
    BY <1>6, <2>3, <2>4
<1>8. CASE HeaderRead
  <2>1. PICK h \in Bytes : h = frame[1]
    BY <1>1, <1>2 DEF BytesType
  <2>2. h.seq \in Nat /\ h.size \in Nat
    BY <2>1, ReceiverAssumption DEF Bytes
  <2>3. pc' = "check" /\ phase' = "mess" /\ at' = 1 /\ left' = h.size /\ InPart'
    BY <1>8, <2>1 DEF HeaderRead, ReceivePart, InPart, Parts
  <2>4. Stops'
    BY <1>1, <1>2, <1>4, <2>3 DEF Stops
  <2>5. Aligned'
    <3> SUFFICES ASSUME connected, ~slipped PROVE Framed' /\ InPayload(at, left)'
      BY <1>2, <2>3 DEF Aligned
    <3>1. Framed'
      BY <1>1, <1>3, GrownFramed DEF Aligned
    <3>2. InHeader
      BY <1>1, <1>2, <1>4 DEF Aligned
    <3>3. /\ PayloadSplit(h.seq, 1, h.size) /\ h.seq \in 0 .. made
          /\ ~garbled => last.message <= h.seq
      BY <1>1, <1>4, <2>1, <3>2, HeaderPayload DEF InHeader
    <3>4. ~garbled => Announced(h.seq, h.size)' /\ session'.last = h.size
      <4>1. at > 1
        BY <1>2, <1>4
      <4> QED
        BY <1>1, <1>2, <1>4, <1>8, <2>1, <3>2, <4>1, HeaderCounted
    <3>9. PICK n \in 0 .. made, m \in Nat :
            /\ n = h.seq /\ m = h.size /\ PayloadSplit(n, 1, m)
            /\ ~garbled => last.message <= n
            /\ ~garbled => Announced(n, m)' /\ session'.last = m
      BY <2>2, <3>3, <3>4
    <3>10. left' = m /\ at' = 1
      BY <2>3, <3>9
    <3>11. UNCHANGED <<made, link, wire, buf, garbled, last>>
      BY <1>2
    <3>12. PayloadSplit(n, at, left)'
      BY <3>9, <3>10, <3>11 DEF PayloadSplit, NotBefore
    <3>13. ~garbled' => /\ Announced(n, at - 1 + left)'
                        /\ session'.last = at' - 1 + left'
      <4>1. at' - 1 + left' = m
        BY <3>10
      <4> QED
        BY <3>9, <3>11, <4>1 DEF Announced
    <3> QED
      BY <3>1, <3>9, <3>11, <3>12, <3>13 DEF InPayload
  <2> QED
    BY <1>6, <2>4, <2>5
<1> QED
  BY <1>7, <1>8

(* The payload is whole: it is what the module is given next.              *)
LEMMA PayloadReadStream ==
  ASSUME StreamInv, Inv', UNCHANGED <<bufferVars, closing>>, PayloadRead
  PROVE  Stops' /\ Aligned' /\ Ordered'
<1>1. /\ Inv /\ LinkType /\ LinkType' /\ ConfigType /\ BufferType /\ CallType /\ BytesType
      /\ Extent /\ Stops /\ Aligned /\ Ordered
  BY DEF StreamInv, Inv, TypeOK
<1>2. /\ UNCHANGED <<made, link, wire, connected, buf, slipped, pointer, unread, last>>
      /\ UNCHANGED <<session, total, isReset, cut>>
      /\ pc = "mess" /\ InPart /\ pc' = "return" /\ ret' = "OK" /\ ~InPart'
      /\ dataPointer' = 0 /\ garbled' = (garbled \/ size' # at - 1)
  BY DEF PayloadRead, peerVars, Return, bufferVars, InPart, Parts
<1>3. /\ phase = "mess" /\ left = 0 /\ at \in Nat /\ pointer = 1 /\ unread = 0
      /\ made \in Nat
  BY <1>1, <1>2 DEF Extent, Stops, CallType, LinkType
<1>4. connected /\ ~slipped => Framed /\ InPayload(at, left) /\ at > 0
  BY <1>1, <1>2, <1>3 DEF Aligned, Stops
<1>5. Aligned'
  <2> SUFFICES ASSUME connected, ~slipped PROVE Framed' /\ Begins(1, wire)'
    BY <1>2 DEF Aligned
  <2>1. PICK n \in 0 .. made : PayloadSplit(n, at, left)
    BY <1>4 DEF InPayload
  <2>2. wire # <<>> => 1 \in DOMAIN wire
    BY <1>1 DEF LinkType
  <2>3. Begins(1, wire)
    BY <1>3, <2>1, <2>2 DEF PayloadSplit, Begins
  <2> QED
    BY <1>2, <1>4, <2>3 DEF Framed, ContainerAt, Begins
<1>6. Ordered'
  <2> SUFFICES ASSUME ~garbled' PROVE ~slipped' /\ \E n \in 0 .. made' : Ahead(n)'
    BY DEF Ordered
  <2>1. ~garbled /\ ~slipped /\ connected /\ size' = at - 1
    BY <1>1, <1>2 DEF Ordered, Extent
  <2>2. Given' = at - 1
    BY <1>2, <2>1 DEF Given
  <2>3. PICK n \in 0 .. made :
          /\ PayloadSplit(n, at, left) /\ last.message <= n
          /\ ~cut => Announced(n, at - 1 + left) /\ session.last = at - 1 + left
    BY <1>4, <2>1 DEF InPayload
  <2>4. /\ n + at - 1 + left = n + Given' /\ n + Given' <= made
        /\ NotBefore(n + at - 1 + left)
        /\ \A i \in 1 .. at - 1 : buf[i] = Message(n + i)
    BY <1>3, <2>2, <2>3 DEF PayloadSplit
  <2>5. \A i \in 0 .. Given' - 1 : buf'[pointer' + i] = Message(n + 1 + i)
    <3> SUFFICES ASSUME NEW i \in 0 .. at - 2 PROVE buf[1 + i] = Message(n + 1 + i)
      BY <1>2, <1>3, <2>2
    <3>1. PICK j \in 1 .. at - 1 : j = 1 + i
      BY <1>3
    <3>2. buf[j] = Message(n + j) /\ n + j = n + 1 + i
      BY <2>4, <3>1
    <3> QED
      BY <3>1, <3>2
  <2>6. \A j \in DOMAIN wire' : wire'[j].part = 1 => wire'[j].seq >= n + Given'
    BY <1>2, <2>4 DEF NotBefore
  <2>7. ~cut' => Announced(n, Given)' /\ NextNumber' = Seen' - Given' + 1
    <3> SUFFICES ASSUME ~cut PROVE Announced(n, Given)' /\ NextNumber' = Seen' - Given' + 1
      BY <1>2
    <3>1. at - 1 + left = Given'
      BY <1>3, <2>2
    <3>2. Announced(n, Given)' /\ session.last = Given'
      BY <1>2, <2>3, <3>1 DEF Announced, Seen
    <3>3. NextNumber' = total.seq + (session.seq - session.offset) + 1 /\ Seen' = Seen
      BY <1>2 DEF NextNumber, SequenceNumber, Seen
    <3>4. /\ total.seq \in Int /\ session.seq \in Int /\ session.offset \in Int
          /\ session.last \in Int
      BY <1>1 DEF Inv, TypeOK, CountsType
    <3> QED
      BY <3>2, <3>3, <3>4 DEF Seen
  <2>8. Ahead(n)'
    BY <1>2, <2>3, <2>4, <2>5, <2>6, <2>7 DEF Ahead, NotBefore
  <2> QED
    BY <1>2, <2>1, <2>8
<1>7. Stops'
  BY <1>1, <1>2 DEF Stops, Parts
<1> QED
  BY <1>5, <1>6, <1>7

(* The counters are folded and the attempt is repeated, or has failed.     *)
LEMMA ResetStream ==
  ASSUME StreamInv, Inv', UNCHANGED <<bufferVars, closing>>, Reset
  PROVE  Stops' /\ Aligned' /\ Ordered'
<1>1. Inv /\ LinkType /\ LinkType' /\ Stops /\ Aligned /\ Ordered
  BY DEF StreamInv, Inv, TypeOK
<1>2. /\ UNCHANGED <<made, link, wire, connected, dataPointer, waitSize, buf, slipped, garbled>>
      /\ UNCHANGED <<pointer, unread, last, size>> /\ pc = "reset"
      /\ pc' = "init" \/ (pc' = "return" /\ ret' # "OK")
  BY DEF Reset, Return, peerVars, bufferVars
<1>3. Given = 0 /\ Given' = 0 /\ ~InPart /\ ~InPart' /\ (dataPointer # 0 => cut')
  BY <1>1, <1>2 DEF Given, InPart, Parts, Inv, Extent, Reset
<1>4. Grown
  BY <1>1, <1>2, QuietGrown DEF peerVars
<1>5. Aligned'
  BY <1>1, <1>2, <1>3 DEF Aligned, Framed, Begins, ContainerAt, InPayload, PayloadSplit,
     NotBefore
<1>6. Ordered'
  BY <1>1, <1>2, <1>3, <1>4, GrownOrdered
<1>7. Stops'
  BY <1>1, <1>2, <1>3 DEF Stops, InPart, Parts
<1> QED
  BY <1>5, <1>6, <1>7

-----------------------------------------------------------------------------
(* The tally of the counters: most steps touch neither them nor what the   *)
(* module has seen.                                                        *)
LEMMA TalliedStays ==
  ASSUME Inv, Inv', Tallied, UNCHANGED <<session, total, isReset, last>>, made <= made',
         garbled' \in {garbled, TRUE}, whole' \in {whole, FALSE},
         HeaderBegun' => HeaderBegun /\ frame'[1] = frame[1],
         \A n \in Nat : n <= made /\ NotBefore(n) => NotBefore(n)'
  PROVE  Tallied'
<1> SUFFICES ASSUME ~garbled' PROVE \E b \in 0 .. made' : Tally(b)'
  BY DEF Tallied
<1>1. PICK b \in 0 .. made : Tally(b)
  BY DEF Tallied
<1>2. made \in Nat /\ made' \in Nat /\ b \in Nat /\ b <= made /\ b \in 0 .. made'
  BY DEF Inv, TypeOK, LinkType
<1>3. NotBefore(b)'
  BY <1>1, <1>2 DEF Tally
<1>4. Seen' = Seen
  BY DEF Seen
<1>5. whole' => whole
  BY Zenon
<1>6. Tally(b)'
  BY <1>1, <1>3, <1>4, <1>5 DEF Tally
<1> QED
  BY <1>2, <1>6

LEMMA TakeTallied ==
  ASSUME StreamInv, Inv', NEW s \in Int, Take(pointer, s, Given), s = NextNumber,
         pc = "enter" \/ (pc = "return" /\ ret = "OK")
  PROVE  Tallied'
<1>1. Inv /\ LinkType /\ BufferType /\ CallType /\ CountsType /\ Ordered /\ Tallied
  BY DEF StreamInv, Inv, TypeOK
<1>2. /\ UNCHANGED <<peerVars, configVars, pastVars>> /\ pc' = "idle"
  BY DEF Take, OnlyBuffer
<1>3. ~HeaderBegun' /\ UNCHANGED <<made, wire, session, total, isReset, garbled, cut>>
  BY <1>2 DEF HeaderBegun, InPart, Parts, peerVars, configVars, pastVars
<1>4. CASE Given = 0
  <2>1. UNCHANGED <<last, whole>>
    BY <1>4 DEF Take
  <2>2. \A n \in Nat : n <= made /\ NotBefore(n) => NotBefore(n)'
    BY <1>3 DEF NotBefore
  <2> QED
    BY <1>1, <1>3, <2>1, <2>2, TalliedStays DEF LinkType
<1>5. CASE Given # 0
  <2> SUFFICES ASSUME ~garbled PROVE \E b \in 0 .. made : Tally(b)'
    BY <1>3 DEF Tallied
  <2>1. PICK n \in 0 .. made : Ahead(n)
    BY <1>1 DEF Ordered
  <2>2. PICK b \in 0 .. made : Tally(b)
    BY <1>1 DEF Tallied
  <2>3. TakenNext(n, s)
    BY <1>1, <1>5, <2>1, TakesNext
  <2>4. /\ n \in Nat /\ b \in Nat /\ Given \in Nat \ {0} /\ Seen \in Int /\ Seen' = Seen
    BY <1>1, <1>3, <1>5, ReceiverAssumption DEF LinkType, CountsType, Seen, Given, BufferType,
       CallType
  <2>5. last' = [message |-> n + 1, number |-> s, cut |-> cut] /\ whole'
    BY <2>3 DEF TakenNext
  <2>6. ~last'.cut => /\ ~isReset /\ b = n + Given /\ s = Seen - Given + 1
    BY <2>2, <2>3, <2>5 DEF TakenNext, Tally, Announced
  <2>7. ~last'.cut => /\ last'.number <= Seen'
                      /\ Seen' - last'.number = b - last'.message
                      /\ Seen' - last'.number <= b - last'.message
    BY <2>4, <2>5, <2>6
  <2>8. Tally(b)'
    BY <1>3, <2>2, <2>6, <2>7, Zenon DEF Tally, NotBefore
  <2> QED
    BY <2>8
<1> QED
  BY <1>4, <1>5

LEMMA HeaderTallied ==
  ASSUME StreamInv, Inv', UNCHANGED <<bufferVars, closing, whole>>, HeaderRead
  PROVE  Tallied'
<1>1. /\ Inv /\ LinkType /\ BytesType /\ Extent /\ Stops /\ Aligned /\ Ordered /\ Tallied
  BY DEF StreamInv, Inv, TypeOK
<1>2. /\ UNCHANGED <<made, link, wire, garbled, last>> /\ pc = "head" /\ InPart
      /\ HeadLen \in Nat \ {0} /\ phase' = "mess"
  BY ReceiverAssumption DEF HeaderRead, peerVars, bufferVars, InPart, Parts, ReceivePart
<1> SUFFICES ASSUME ~garbled PROVE \E b \in 0 .. made : Tally(b)'
  BY <1>2 DEF Tallied
<1>3. phase = "head" /\ at = HeadLen + 1 /\ at > 1 /\ connected /\ ~slipped
  <2>1. phase = "head" /\ left = 0 /\ at + left = HeadLen + 1 /\ at \in Nat
    BY <1>1, <1>2 DEF Extent, Stops, Inv, TypeOK, CallType
  <2>2. connected /\ ~slipped
    BY <1>1, <1>2 DEF Extent, Ordered
  <2> QED
    BY <1>2, <2>1, <2>2
<1>4. InHeader
  BY <1>1, <1>2, <1>3 DEF Aligned
<1>5. PICK h \in Bytes : h = frame[1]
  BY <1>1, <1>2 DEF BytesType
<1>6. /\ Announced(h.seq, h.size)'
      /\ \A b \in 0 .. made : Tally(b) /\ ~last.cut =>
           /\ Seen' - last.number <= h.seq + h.size - last.message
           /\ whole => Seen' - last.number = h.seq + h.size - last.message
  BY <1>1, <1>2, <1>3, <1>4, <1>5, HeaderCounted
<1>7. PICK b \in Nat : /\ b = h.seq + h.size /\ b \in 0 .. made /\ NotBefore(b)
  <2>1. h.seq \in Nat /\ h.size \in Nat /\ made \in Nat
    BY <1>1, ReceiverAssumption DEF Bytes, LinkType
  <2>2. /\ PayloadSplit(h.seq, 1, h.size)
        /\ h.seq + 1 - 1 + h.size = h.seq + h.size
    BY <1>1, <1>3, <1>4, <1>5, <2>1, HeaderPayload
  <2>3. h.seq + h.size \in 0 .. made /\ NotBefore(h.seq + h.size)
    BY <2>1, <2>2 DEF PayloadSplit
  <2> QED
    BY <2>1, <2>3
<1>8. PICK c \in 0 .. made : Tally(c)
  BY <1>1 DEF Tallied
<1>9. ~isReset' /\ session'.seq + session'.last = b /\ ~HeaderBegun'
  BY <1>2, <1>6, <1>7 DEF Announced, HeaderBegun
<1>10. ~last'.cut => last'.number <= Seen'
  <2>1. h.size \in Nat /\ Seen' \in Int /\ last.number \in Int
    BY <1>1, ReceiverAssumption DEF Bytes, Inv, TypeOK, CountsType, BufferType, Seen
  <2>2. ~last.cut => last.number <= Seen' - h.size
    BY <1>2, <1>6 DEF Announced
  <2> QED
    BY <1>2, <2>1, <2>2
<1>11. whole' = whole /\ NotBefore(b)'
  BY <1>2, <1>7 DEF NotBefore
<1>13. ~last'.cut => /\ Seen' - last'.number <= b - last'.message
                     /\ whole' => Seen' - last'.number = b - last'.message
  <2> SUFFICES ASSUME ~last.cut
               PROVE  /\ Seen' - last.number <= b - last.message
                      /\ whole => Seen' - last.number = b - last.message
    BY <1>2, <1>11
  <2>1. /\ Seen' - last.number <= h.seq + h.size - last.message
        /\ whole => Seen' - last.number = h.seq + h.size - last.message
    BY <1>6, <1>8
  <2>2. /\ h.seq \in Nat /\ h.size \in Nat /\ last.number \in Int /\ last.message \in Nat
        /\ Seen' \in Int
    BY <1>1, ReceiverAssumption DEF Bytes, Inv, TypeOK, CountsType, BufferType, Seen
  <2> QED
    BY <1>7, <2>1, <2>2
<1>12. Tally(b)'
  BY <1>9, <1>10, <1>11, <1>13 DEF Tally
<1> QED
  BY <1>7, <1>12

LEMMA ResetTallied ==
  ASSUME StreamInv, Inv', UNCHANGED <<bufferVars, closing>>, whole' = FALSE, Reset
  PROVE  Tallied'
<1>1. Inv /\ LinkType /\ CountsType /\ Tallied
  BY DEF StreamInv, Inv, TypeOK
<1>2. /\ UNCHANGED <<made, wire, garbled, last>> /\ isReset' /\ total' = Folded
      /\ session' = NoSession /\ pc' # "check" /\ ~HeaderBegun'
  BY DEF Reset, peerVars, bufferVars, Return, HeaderBegun, InPart, Parts
<1>3. Seen' = Seen
  BY <1>1, <1>2 DEF CountsType, Seen, Folded, NoSession
<1> SUFFICES ASSUME ~garbled PROVE \E b \in 0 .. made : Tally(b)'
  BY <1>2 DEF Tallied
<1>4. PICK b \in 0 .. made : Tally(b)
  BY <1>1 DEF Tallied
<1>5. Tally(b)'
  BY <1>2, <1>3, <1>4 DEF Tally, NotBefore
<1> QED
  BY <1>5

LEMMA ReadByteTallied ==
  ASSUME StreamInv, Inv', UNCHANGED <<bufferVars, closing, whole>>, ReadByte
  PROVE  Tallied'
<1>1. /\ Inv /\ LinkType /\ BytesType /\ CallType /\ Extent /\ Stops /\ Aligned /\ Tallied
  BY DEF StreamInv, Inv, TypeOK
<1>2. /\ UNCHANGED <<made, session, total, isReset, garbled, last, phase, connected, slipped>>
      /\ pc = "read" /\ InPart /\ at' = at + 1 /\ at \in Nat /\ HeadLen \in Nat \ {0}
  BY <1>1, ReceiverAssumption DEF ReadByte, bufferVars, pastVars, InPart, Parts, CallType
<1>3. Shifted
  BY DEF ReadByte, Shifted
<1>4. \A n \in Nat : n <= made /\ NotBefore(n) => NotBefore(n)'
  BY <1>1, <1>3, ShiftedNotBefore
<1>5. CASE phase = "mess" \/ at # 1
  <2>1. HeaderBegun' => HeaderBegun /\ frame'[1] = frame[1]
    <3> SUFFICES ASSUME HeaderBegun' PROVE HeaderBegun /\ frame'[1] = frame[1]
      OBVIOUS
    <3>1. phase = "head" /\ connected /\ ~slipped /\ at > 0
      BY <1>1, <1>2 DEF HeaderBegun, Stops
    <3>2. at > 1 /\ 1 \in DOMAIN frame
      BY <1>1, <1>2, <1>5, <3>1 DEF BytesType
    <3>3. frame' = [i \in DOMAIN frame |-> IF i = at THEN Head(wire) ELSE frame[i]]
      BY <3>1 DEF ReadByte
    <3> QED
      BY <1>2, <3>1, <3>2, <3>3 DEF HeaderBegun
  <2> QED
    BY <1>1, <1>2, <1>4, <2>1, TalliedStays DEF LinkType
<1>6. CASE phase = "head" /\ at = 1
  <2> SUFFICES ASSUME ~garbled PROVE \E b \in 0 .. made : Tally(b)'
    BY <1>2 DEF Tallied
  <2>1. PICK b \in 0 .. made : Tally(b)
    BY <1>1 DEF Tallied
  <2>2. b \in Nat /\ b <= made /\ NotBefore(b)
    BY <1>1, <2>1 DEF LinkType, Tally
  <2>3. HeaderBegun' => b <= frame'[1].seq
    <3> SUFFICES ASSUME connected, ~slipped PROVE b <= frame'[1].seq
      BY <1>2 DEF HeaderBegun
    <3>1. 1 \in DOMAIN wire /\ Head(wire) = wire[1] /\ wire # <<>> /\ wire[1] \in Bytes
      BY <1>1, <1>3, ShiftedWire DEF Shifted
    <3>2. wire[1].part = 1
      BY <1>1, <1>2, <1>6, <3>1 DEF Aligned, Begins
    <3>3. wire[1].seq >= b /\ wire[1].seq \in Nat
      BY <2>2, <3>1, <3>2 DEF NotBefore, Bytes
    <3>4. frame'[1] = wire[1]
      BY <1>1, <1>2, <1>6, <3>1 DEF ReadByte, BytesType
    <3> QED
      BY <2>2, <3>3, <3>4
  <2>4. NotBefore(b)' /\ Seen' = Seen /\ whole' = whole
    BY <1>2, <1>4, <2>2 DEF Seen
  <2>5. Tally(b)'
    BY <1>2, <2>1, <2>3, <2>4 DEF Tally
  <2> QED
    BY <2>5
<1>7. phase \in {"head", "mess"}
  BY <1>1 DEF CallType
<1> QED
  BY <1>5, <1>6, <1>7

(* Steps of the call that neither count nor read.                          *)
LEMMA QuietTallied ==
  ASSUME StreamInv, Inv',
         \/ Call \/ Closing \/ TerminateInput \/ Fails \/ UNCHANGED vars
         \/ \E t \in Timeouts : Refill(t)
         \/ /\ UNCHANGED <<bufferVars, closing, whole>>
            /\ \/ RecvInit \/ PartCheck \/ PollReady \/ PollTimeout \/ ReadAgain
               \/ HeaderMisread \/ PayloadRead
  PROVE  Tallied'
<1>1. Inv /\ LinkType /\ Tallied /\ garbled \in BOOLEAN
  BY DEF StreamInv, Inv, TypeOK, BytesType
<1>2. CASE Call \/ Closing \/ TerminateInput \/ Fails \/ UNCHANGED vars
  <2> USE DEF Call, Closing, TerminateInput, Terminate, Fails, OnlyBuffer, vars, receiverVars,
          peerVars, configVars, pastVars, bufferVars, localVars
  <2>1. /\ UNCHANGED <<made, wire, session, total, isReset, last, whole, connected, garbled>>
        /\ UNCHANGED <<slipped, phase, at, frame>> /\ (pc' = pc \/ pc' \in {"enter", "idle"})
    BY <1>2
  <2>2. HeaderBegun' => HeaderBegun
    BY <2>1 DEF HeaderBegun, InPart, Parts
  <2> QED
    BY <1>1, <2>1, <2>2, TalliedStays DEF NotBefore, LinkType
<1>3. CASE \E t \in Timeouts : Refill(t)
  <2>1. /\ UNCHANGED <<made, wire, session, total, isReset, last, whole, garbled>>
        /\ pc' \in {"init", "return"}
    BY <1>3 DEF Refill, RecvCall, Return, peerVars, configVars, pastVars
  <2>2. ~HeaderBegun'
    BY <2>1 DEF HeaderBegun, InPart, Parts
  <2> QED
    BY <1>1, <2>1, <2>2, TalliedStays DEF NotBefore, LinkType
<1>4. CASE /\ UNCHANGED <<bufferVars, closing, whole>>
           /\ RecvInit \/ HeaderMisread \/ PayloadRead
  <2>1. /\ UNCHANGED <<made, wire, session, total, isReset, last, whole>>
        /\ pc' \in {"connect", "lost", "return"} \/ phase' = "mess" \/ at' = 1
    BY <1>4 DEF RecvInit, ReceivePart, HeaderMisread, PayloadRead, Return, peerVars, configVars,
       bufferVars
  <2>2. garbled' \in {garbled, TRUE}
    BY <1>1, <1>4 DEF RecvInit, HeaderMisread, PayloadRead, pastVars
  <2>3. ~HeaderBegun'
    BY <2>1 DEF HeaderBegun, InPart, Parts
  <2>4. \A n \in Nat : n <= made /\ NotBefore(n) => NotBefore(n)'
    BY <2>1 DEF NotBefore
  <2> QED
    <3>1. made <= made' /\ UNCHANGED <<session, total, isReset, last>>
      BY <1>1, <2>1 DEF LinkType
    <3>2. whole' \in {whole, FALSE}
      BY <2>1
    <3> QED
      BY <1>1, <2>1, <2>2, <2>3, <2>4, <3>1, <3>2, TalliedStays, Zenon
<1>5. CASE /\ UNCHANGED <<bufferVars, closing, whole>>
           /\ PartCheck \/ PollReady \/ PollTimeout \/ ReadAgain
  <2>1. /\ UNCHANGED <<made, wire, session, total, isReset, last, whole, connected, frame>>
        /\ \/ pc' = "reset"
           \/ /\ UNCHANGED <<slipped, phase, at>>
              /\ pc \in {"check", "poll"}
    BY <1>5 DEF PartCheck, PollReady, PollTimeout, ReadAgain, GiveUp, ToReset, OnlyCall,
       peerVars, bufferVars
  <2>2. garbled' \in {garbled, TRUE}
    BY <1>1, <1>5 DEF PartCheck, PollReady, PollTimeout, ReadAgain
  <2>3. HeaderBegun' => HeaderBegun
    BY <2>1 DEF HeaderBegun, InPart, Parts
  <2>4. \A n \in Nat : n <= made /\ NotBefore(n) => NotBefore(n)'
    BY <2>1 DEF NotBefore
  <2> QED
    <3>1. made <= made' /\ UNCHANGED <<session, total, isReset, last>>
      BY <1>1, <2>1 DEF LinkType
    <3>2. whole' \in {whole, FALSE}
      BY <2>1
    <3> QED
      BY <1>1, <2>1, <2>2, <2>3, <2>4, <3>1, <3>2, TalliedStays, Zenon
<1> QED
  BY <1>2, <1>3, <1>4, <1>5

(* Steps that replace the wire, or leave a connection.                     *)
LEMMA WireTallied ==
  ASSUME StreamInv, Inv',
         \/ Environment
         \/ /\ UNCHANGED <<bufferVars, closing, whole>>
            /\ \/ ConnectFails \/ ConnectSucceeds \/ ConnectMismatch \/ ConnectUnanswered
               \/ ReadInterrupted \/ ReadBroken
  PROVE  Tallied'
<1>1. Inv /\ LinkType /\ LinkType' /\ Tallied /\ Stops /\ garbled \in BOOLEAN
  BY DEF StreamInv, Inv, TypeOK, BytesType
<1>2. CASE Environment
  <2>1. /\ UNCHANGED <<session, total, isReset, last, whole, connected, garbled>>
        /\ UNCHANGED <<slipped, phase, at, frame, pc>>
    BY <1>2 DEF Environment, PeerStep, PeerPublish, PeerClose, OnlyWire, configVars, localVars,
       pastVars, bufferVars
  <2>2. Grown
    BY <1>1, <1>2, PublishGrown, CloseGrown DEF Environment, PeerStep
  <2>3. \A n \in Nat : n <= made /\ NotBefore(n) => NotBefore(n)'
    BY <1>1, <2>2, GrownNotBefore
  <2>4. HeaderBegun' => HeaderBegun
    BY <2>1 DEF HeaderBegun, InPart
  <2> QED
    BY <1>1, <2>1, <2>2, <2>3, <2>4, TalliedStays DEF Grown
<1>3. CASE ~Environment
  <2>1. /\ UNCHANGED <<made, session, total, isReset, last, whole>>
        /\ \/ garbled'
           \/ /\ garbled' = garbled /\ wire' = <<>>
              /\ pc' \in {"reset", "return"} \/ at' = 1
    <3>1. CASE ConnectFails
      <4>1. wire = <<>>
        BY <1>1, <3>1 DEF ConnectFails, Inv, Extent, Stops
      <4> QED
        BY <1>3, <3>1, <4>1 DEF ConnectFails, ToReset, peerVars, configVars, pastVars,
           bufferVars
    <3>2. CASE ConnectSucceeds \/ ConnectMismatch \/ ConnectUnanswered
      <4>1. /\ UNCHANGED <<made, session, total, isReset, last, whole>>
            /\ garbled' = (garbled \/ wire' # <<>>)
            /\ pc' = "return" \/ at' = 1
        BY <1>3, <3>2 DEF ConnectSucceeds, ConnectMismatch, ConnectUnanswered, Connected,
           ReceivePart, Return, bufferVars
      <4>2. garbled' \/ (garbled' = garbled /\ wire' = <<>>)
        BY <1>1, <4>1
      <4> QED
        BY <4>1, <4>2
    <3>3. CASE ReadInterrupted \/ ReadBroken
      BY <1>3, <3>3 DEF ReadInterrupted, ReadBroken, Disconnected, ToReset, bufferVars
    <3> QED
      BY <1>3, <3>1, <3>2, <3>3
  <2>2. CASE garbled'
    BY <2>2 DEF Tallied
  <2>3. CASE /\ garbled' = garbled /\ wire' = <<>>
             /\ pc' \in {"reset", "return"} \/ at' = 1
    <3>1. ~HeaderBegun'
      BY <2>3 DEF HeaderBegun, InPart, Parts
    <3>2. \A n \in Nat : n <= made /\ NotBefore(n) => NotBefore(n)'
      BY <2>3 DEF NotBefore
    <3> QED
      BY <1>1, <2>1, <2>3, <3>1, <3>2, TalliedStays DEF LinkType
  <2> QED
    BY <2>1, <2>2, <2>3
<1> QED
  BY <1>2, <1>3

-----------------------------------------------------------------------------
LEMMA InitStream == Init => StreamInv
<1> SUFFICES ASSUME Init PROVE StreamInv
  OBVIOUS
<1>1. Inv
  BY InitInv
<1>2. /\ ~connected /\ wire = <<>> /\ pc = "idle" /\ dataPointer = 0 /\ ~slipped
      /\ unread = 0 /\ made = 0 /\ last.message = 0
  BY DEF Init, ReceiverInit
<1>3. Stops /\ Aligned
  BY <1>2 DEF Stops, Aligned, InPart, Parts
<1>4. Given = 0
  BY <1>2 DEF Given
<1>5. 0 \in 0 .. made /\ Ahead(0)
  BY <1>2, <1>4 DEF Ahead, NotBefore
<1>6. 0 \in 0 .. made /\ Tally(0)
  BY <1>2 DEF Init, ReceiverInit, NoSession, Tally, NotBefore, HeaderBegun, InPart, Parts, Seen
<1> QED
  BY <1>1, <1>2, <1>3, <1>5, <1>6 DEF StreamInv, Ordered, Tallied

LEMMA ReceivingStream ==
  ASSUME StreamInv, Inv', UNCHANGED <<bufferVars, closing>>, Receiving
  PROVE  Stops' /\ Aligned' /\ Ordered' /\ Tallied'
<1>1. Tallied'
  BY QuietTallied, WireTallied, ReadByteTallied, HeaderTallied, ResetTallied
  DEF Receiving, Negotiated, PartStep
<1>2. Stops' /\ Aligned' /\ Ordered'
  BY ConnectStream, RecvInitStream, PartCheckStream, ReadByteStream, ReadFailsStream,
     HeaderStream, PayloadReadStream, ResetStream
  DEF Receiving, Negotiated, PartStep
<1> QED
  BY <1>1, <1>2

LEMMA TakenStream ==
  ASSUME StreamInv, Inv', TakeBuffered \/ TakeReceived
  PROVE  Stops' /\ Aligned' /\ Ordered' /\ Tallied'
<1>1. /\ number \in Int /\ SequenceNumber \in Int /\ (pc = "return" => pointer = 1)
  BY DEF StreamInv, Inv, TypeOK, BufferType, CountsType, Extent, SequenceNumber
<1>2. CASE TakeBuffered
  <2>1. pc = "enter" /\ Take(pointer, number, Given) /\ number = NextNumber
    BY <1>2 DEF TakeBuffered, Given, NextNumber
  <2> QED
    BY <1>1, <2>1, TakeStream, TakeTallied
<1>3. CASE TakeReceived
  <2>1. /\ pc = "return" /\ ret = "OK" /\ Take(pointer, SequenceNumber, Given)
        /\ SequenceNumber = NextNumber
    BY <1>1, <1>3 DEF TakeReceived, Given, NextNumber
  <2> QED
    BY <1>1, <2>1, TakeStream, TakeTallied
<1> QED
  BY <1>2, <1>3

(* StreamInv is inductive: however a call is cut into, what the receiver   *)
(* has, keeps and has yet to read are pieces of the containers sent.       *)
THEOREM StreamInvariance == Spec => []StreamInv
<1>1. StreamInv /\ [Next]_vars => StreamInv'
  <2> SUFFICES ASSUME StreamInv, [Next]_vars PROVE StreamInv'
    OBVIOUS
  <2>1. Inv'
    BY CallInv, CallStepInv, ClosingInv, EnvironmentInv, StutterInv DEF Next, StreamInv
  <2>2. ASSUME Environment PROVE Stops' /\ Aligned' /\ Ordered' /\ Tallied'
    BY <2>1, <2>2, EnvironmentStream, WireTallied
  <2>3. ASSUME Call \/ Closing \/ TerminateInput \/ Fails \/ UNCHANGED vars
       PROVE  Stops' /\ Aligned' /\ Ordered' /\ Tallied'
    BY <2>1, <2>3, OutsideStream, QuietTallied
  <2>4. ASSUME NEW t \in Timeouts, Refill(t) PROVE Stops' /\ Aligned' /\ Ordered' /\ Tallied'
    BY <2>1, <2>4, RefillStream, QuietTallied
  <2>5. ASSUME TakeBuffered \/ TakeReceived PROVE Stops' /\ Aligned' /\ Ordered' /\ Tallied'
    BY <2>1, <2>5, TakenStream
  <2>6. ASSUME Receiving /\ UNCHANGED <<bufferVars, closing>>
       PROVE  Stops' /\ Aligned' /\ Ordered' /\ Tallied'
    BY <2>1, <2>6, ReceivingStream
  <2>7. Stops' /\ Aligned' /\ Ordered' /\ Tallied'
    BY <2>2, <2>3, <2>4, <2>5, <2>6 DEF Next, CallStep
  <2> QED
    BY <2>1, <2>7 DEF StreamInv
<1> QED
  BY <1>1, InitStream, PTL DEF Spec

-----------------------------------------------------------------------------
(* The inductive statements speak of single bytes; from them, what was     *)
(* said of sequences.                                                      *)
LEMMA FollowsOn ==
  ASSUME NEW b \in Seq(Bytes), NEW n \in Nat, \A i \in DOMAIN b : b[i] = Message(n + i)
  PROVE  Consecutive(b)
<1> SUFFICES ASSUME NEW i \in DOMAIN b PROVE b[i] = Message(b[1].seq + i - 1)
  BY DEF Consecutive
<1>1. i \in Nat /\ 1 \in DOMAIN b
  OBVIOUS
<1>2. b[1].seq = n + 1
  BY <1>1 DEF Message, Byte
<1>3. b[1].seq + i - 1 = n + i
  BY <1>1, <1>2
<1> QED
  BY <1>3

LEMMA SplitAt ==
  ASSUME LinkType, BytesType, NEW n \in Nat, NEW k \in 1 .. MaxBatch + 1, NEW m \in Nat,
         PayloadSplit(n, k, m)
  PROVE  PayloadAt(k, m)
<1>1. /\ MaxBatch \in Nat /\ k \in Nat /\ wire \in Seq(Bytes) /\ Len(wire) \in Nat
      /\ DOMAIN wire = 1 .. Len(wire)
  BY ReceiverAssumption DEF LinkType
<1>2. buf \in Seq(Bytes) /\ Len(buf) = MaxBatch /\ k - 1 <= MaxBatch /\ k - 1 \in Nat
  BY <1>1 DEF BytesType
<1>3. PICK e \in 0 .. Len(wire) : /\ e = IF m < Len(wire) THEN m ELSE Len(wire)
                                  /\ e <= m
  <2>1. (IF m < Len(wire) THEN m ELSE Len(wire)) \in 0 .. Len(wire)
    BY <1>1
  <2>2. (IF m < Len(wire) THEN m ELSE Len(wire)) <= m
    BY <1>1
  <2> QED
    BY <2>1, <2>2
<1>e. e \in Nat /\ e <= Len(wire) /\ e <= m
  <2>1. e \in Nat /\ e <= Len(wire)
    BY <1>1
  <2>2. e <= m
    BY <1>3
  <2> QED
    BY <2>1, <2>2
<1> DEFINE s == SubSeq(buf, 1, k - 1)
           u == SubSeq(wire, 1, e)
           v == SubSeq(wire, m + 1, Len(wire))
<1>4. s \in Seq(Bytes) /\ Len(s) = k - 1 /\ \A i \in 1 .. k - 1 : s[i] = Message(n + i)
  <2>1. \A i \in 1 .. k - 1 : buf[i] \in Bytes /\ buf[i] = Message(n + i)
    BY <1>1, <1>2 DEF PayloadSplit
  <2>2. s \in Seq(Bytes) /\ Len(s) = k - 1 /\ \A i \in 1 .. k - 1 : s[i] = buf[i]
    BY <1>2, <2>1, SubSeqProperties
  <2> QED
    BY <2>1, <2>2
<1>5. u \in Seq(Bytes) /\ Len(u) = e /\ \A i \in 1 .. e : u[i] = Message(n + k - 1 + i)
  <2>1. ASSUME NEW i \in 1 .. e PROVE wire[i] \in Bytes /\ wire[i] = Message(n + k - 1 + i)
    <3>1. i \in DOMAIN wire /\ i <= m
      <4> HIDE DEF s, u, v
      <4> QED
        BY <1>1, <1>e
    <3> QED
      BY <1>1, <3>1 DEF PayloadSplit
  <2>2. u \in Seq(Bytes) /\ Len(u) = e /\ \A i \in 1 .. e : u[i] = wire[i]
    <3> HIDE DEF s, v
    <3>1. e \in Int /\ 1 \in Int /\ \A i \in 1 .. e : wire[i] \in Bytes
      BY <1>e, <2>1
    <3>2. /\ u \in Seq(Bytes) /\ Len(u) = IF 1 <= e THEN e - 1 + 1 ELSE 0
          /\ \A i \in 1 .. e - 1 + 1 : u[i] = wire[1 + i - 1]
      BY <3>1, SubSeqProperties
    <3> HIDE DEF u
    <3>3. e - 1 + 1 = e /\ \A i \in 1 .. e : 1 + i - 1 = i
      BY <1>e
    <3>4. Len(u) = e
      BY <1>e, <3>2
    <3> QED
      BY <3>2, <3>3, <3>4
  <2> QED
    BY <2>1, <2>2
<1> HIDE DEF s, u
<1>6. Consecutive(s \o u)
  <2>1. /\ s \o u \in Seq(Bytes) /\ Len(s \o u) = k - 1 + e
        /\ DOMAIN (s \o u) = 1 .. k - 1 + e
        /\ \A i \in 1 .. k - 1 + e : (s \o u)[i] = IF i <= k - 1 THEN s[i] ELSE u[i - (k - 1)]
    <3>1. /\ s \o u \in Seq(Bytes) /\ Len(s \o u) = Len(s) + Len(u)
          /\ \A i \in 1 .. Len(s) + Len(u) :
               (s \o u)[i] = IF i <= Len(s) THEN s[i] ELSE u[i - Len(s)]
      BY <1>4, <1>5, Joined
    <3>2. Len(s) = k - 1 /\ Len(u) = e
      BY <1>4, <1>5
    <3>3. Len(s \o u) = k - 1 + e
      BY <3>1, <3>2
    <3>4. DOMAIN (s \o u) = 1 .. Len(s \o u)
      BY <3>1
    <3> QED
      BY <3>1, <3>2, <3>3, <3>4, Zenon
  <2>2. ASSUME NEW i \in 1 .. k - 1 + e PROVE (s \o u)[i] = Message(n + i)
    <3>1. CASE i <= k - 1
      BY <1>2, <1>4, <2>1, <3>1
    <3>2. CASE i > k - 1
      <4>1. i - (k - 1) \in 1 .. e /\ n + k - 1 + (i - (k - 1)) = n + i
        BY <1>2, <1>3, <3>2
      <4> QED
        BY <1>2, <1>5, <2>1, <3>2, <4>1
    <3>3. i \in Int /\ k - 1 \in Int /\ (i <= k - 1 \/ i > k - 1)
      BY <1>2, <1>e
    <3> QED
      BY <3>1, <3>2, <3>3, Zenon
  <2> QED
    BY <2>1, <2>2, FollowsOn
<1>7. Begins(1, v)
  <2>1. CASE m + 1 <= Len(wire)
    <3>1. v[1] = wire[m + 1] /\ m + 1 \in DOMAIN wire
      BY <1>1, <2>1
    <3> QED
      BY <3>1 DEF Begins, PayloadSplit
  <2>2. CASE m + 1 > Len(wire)
    BY <1>1, <2>2 DEF Begins
  <2> QED
    BY <1>1, <2>1, <2>2
<1> QED
  BY <1>3, <1>6, <1>7 DEF PayloadAt, Upto, s, u, v

(* Wherever a timeout inside a payload, a signal in a poll or an empty     *)
(* socket cuts into a call, the receiver goes on at the byte where it      *)
(* stopped, and takes no byte of a payload for a header, in a connection   *)
(* that has not slipped: by a signal in recv(), a timeout inside a header, *)
(* or a hello message that came late.                                      *)
THEOREM ReceiverInPlace == Spec => []InPlace
<1>1. StreamInv => InPlace
  <2> SUFFICES ASSUME StreamInv, connected, ~slipped
               PROVE  IF InPart
                        THEN IF phase = "mess" THEN PayloadAt(at, left)
                             ELSE IF pc = "head" THEN PayloadAt(1, frame[1].size)
                             ELSE Begins(at, wire)
                        ELSE IF dataPointer # 0 THEN PayloadAt(dataPointer, waitSize)
                             ELSE Begins(1, wire)
    BY DEF InPlace
  <2>1. /\ LinkType /\ ConfigType /\ CallType /\ BytesType /\ Extent /\ Stops /\ Aligned
        /\ HeadLen \in Nat \ {0} /\ MaxBatch \in Nat \ {0} /\ at \in Nat /\ left \in Nat
        /\ waitSize \in Nat /\ dataPointer \in Nat /\ made \in Nat /\ phase \in {"head", "mess"}
    BY ReceiverAssumption DEF StreamInv, Inv, TypeOK, CallType, ConfigType, LinkType
  <2>2. \A k \in 1 .. MaxBatch + 1, m \in Nat : InPayload(k, m) => PayloadAt(k, m)
    <3> SUFFICES ASSUME NEW k \in 1 .. MaxBatch + 1, NEW m \in Nat, InPayload(k, m)
                 PROVE  PayloadAt(k, m)
      OBVIOUS
    <3>1. PICK n \in Nat : PayloadSplit(n, k, m)
      BY <2>1 DEF InPayload
    <3> QED
      BY <2>1, <3>1, SplitAt
  <2>3. CASE InPart /\ phase = "mess"
    <3>1. at \in 1 .. MaxBatch + 1 /\ InPayload(at, left)
      BY <2>1, <2>3 DEF Extent, Stops, Aligned
    <3> QED
      BY <2>1, <2>2, <2>3, <3>1
  <2>4. CASE InPart /\ phase = "head" /\ pc = "head"
    <3>1. at = HeadLen + 1 /\ InHeader
      BY <2>1, <2>4 DEF Extent, Stops, Aligned
    <3>2. PayloadAt(1, frame[1].size)
      BY <2>1, <3>1, HeaderPayload, SplitAt
    <3> QED
      BY <2>4, <3>2
  <2>5. CASE InPart /\ phase = "head" /\ pc # "head"
    <3>1. /\ left > 0 /\ at > 0 /\ at + left = HeadLen + 1
      BY <2>1, <2>5 DEF Extent, Stops, InPart, Parts
    <3>2. CASE at = 1
      BY <2>1, <2>5, <3>2 DEF Aligned
    <3>3. CASE at # 1
      <4>1. InHeader
        BY <2>1, <2>5, <3>3 DEF Aligned
      <4>2. wire # <<>> => 1 \in DOMAIN wire
        BY <2>1 DEF LinkType
      <4>3. 2 - at < 1 /\ 1 < 2 - at + HeadLen /\ 1 - (2 - at) + 1 = at
        BY <2>1, <3>1, <3>3
      <4>4. wire # <<>> => wire[1] = Byte(at, frame[1].seq, frame[1].size)
        BY <4>1, <4>2, <4>3 DEF InHeader, ContainerAt
      <4> QED
        BY <2>5, <4>4 DEF Begins, Byte
    <3> QED
      BY <3>2, <3>3
  <2>6. CASE ~InPart
    <3>1. dataPointer # 0 => /\ dataPointer \in 1 .. MaxBatch + 1
                             /\ InPayload(dataPointer, waitSize)
      BY <2>1, <2>6 DEF Aligned, ConfigType
    <3> QED
      BY <2>1, <2>2, <2>6, <3>1 DEF Aligned
  <2> QED
    BY <2>1, <2>3, <2>4, <2>5, <2>6
<1> QED
  BY <1>1, StreamInvariance, PTL

(* What lies unread in the buffer is in the order it was sent, and newer   *)
(* than everything the module was given, until a connection slips or a     *)
(* payload is returned with a wrong size (garbled).                        *)
THEOREM MessagesInOrder == Spec => []UnreadInOrder
<1>1. StreamInv => UnreadInOrder
  <2> SUFFICES ASSUME StreamInv, ~garbled, unread > 0
               PROVE  /\ Consecutive(SubSeq(buf, pointer, pointer + unread - 1))
                      /\ buf[pointer].part = 0 /\ buf[pointer].seq > last.message
    BY DEF UnreadInOrder
  <2>1. /\ LinkType /\ BytesType /\ BufferType /\ Extent /\ Ordered /\ MaxBatch \in Nat
        /\ pointer \in Nat /\ unread \in Nat /\ pointer > 0 /\ made \in Nat
        /\ last.message \in Nat
    BY ReceiverAssumption DEF StreamInv, Inv, TypeOK, BufferType, LinkType
  <2>2. Given = unread /\ pointer + unread <= MaxBatch + 1
    BY <2>1 DEF Extent, Given
  <2>3. PICK n \in Nat : /\ last.message <= n
                         /\ \A i \in 0 .. unread - 1 : buf[pointer + i] = Message(n + 1 + i)
    <3>1. PICK n \in 0 .. made : Ahead(n)
      BY <2>1 DEF Ordered
    <3>2. n \in Nat /\ last.message <= n
      BY <2>1, <3>1 DEF Ahead
    <3>3. \A i \in 0 .. unread - 1 : buf[pointer + i] = Message(n + 1 + i)
      BY <2>2, <3>1 DEF Ahead
    <3> QED
      BY <3>2, <3>3
  <2>4. buf[pointer] = Message(n + 1)
    <3>1. 0 \in 0 .. unread - 1 /\ pointer + 0 = pointer /\ n + 1 + 0 = n + 1
      BY <2>1
    <3> QED
      BY <2>3, <3>1
  <2> DEFINE s == SubSeq(buf, pointer, pointer + unread - 1)
  <2>5. \A i \in pointer .. pointer + unread - 1 : buf[i] \in Bytes
    BY <2>1, <2>2 DEF BytesType
  <2>6. /\ s \in Seq(Bytes) /\ Len(s) = unread /\ DOMAIN s = 1 .. unread
        /\ \A i \in 1 .. unread : s[i] = buf[pointer + i - 1]
    <3>1. PICK p \in Int, q \in Int : /\ p = pointer /\ q = pointer + unread - 1
                                     /\ p <= q /\ q - p + 1 = unread
      BY <2>1
    <3>2. \A i \in p .. q : buf[i] \in Bytes
      BY <2>5, <3>1
    <3>3. /\ SubSeq(buf, p, q) \in Seq(Bytes)
          /\ Len(SubSeq(buf, p, q)) = q - p + 1
          /\ \A i \in 1 .. q - p + 1 : SubSeq(buf, p, q)[i] = buf[p + i - 1]
      BY <3>1, <3>2, SubSeqProperties
    <3>4. s = SubSeq(buf, p, q)
      BY <3>1
    <3> QED
      BY <3>1, <3>3, <3>4
  <2> HIDE DEF s
  <2>7. \A i \in DOMAIN s : s[i] = Message(n + i)
    <3> SUFFICES ASSUME NEW i \in 1 .. unread PROVE s[i] = Message(n + i)
      BY <2>6
    <3>1. PICK j \in 0 .. unread - 1 : i = j + 1
      <4>1. i - 1 \in 0 .. unread - 1 /\ i = (i - 1) + 1
        BY <2>1
      <4> QED
        BY <4>1
    <3>2. pointer + i - 1 = pointer + j /\ n + 1 + j = n + i
      BY <2>1, <3>1
    <3> QED
      BY <2>3, <2>6, <3>1, <3>2
  <2>8. Consecutive(s)
    BY <2>6, <2>7, FollowsOn
  <2> QED
    BY <2>1, <2>3, <2>4, <2>8 DEF s, Message, Byte
<1> QED
  BY <1>1, StreamInvariance, PTL

(* The numbers the module is given tell it of every message that was lost  *)
(* on the way, as far as the counters were not reset inside a payload      *)
(* (cut), until a connection slips or a size is wrong (garbled).           *)
THEOREM NumbersTellLosses == Spec => NumbersGrow
<1>1. StreamInv /\ [Next]_vars => [NumbersTell]_vars
  <2> SUFFICES ASSUME StreamInv, [Next]_vars, last' # last, ~garbled', ~last.cut, ~cut
               PROVE  /\ 0 < last'.number - last.number
                      /\ last'.number - last.number <= last'.message - last.message
                      /\ whole => last'.number - last.number = last'.message - last.message
    BY DEF NumbersTell
  <2>1. /\ LinkType /\ CountsType /\ BufferType /\ CallType /\ Extent /\ Ordered /\ Tallied
    BY DEF StreamInv, Inv, TypeOK
  <2>2. TakeBuffered \/ TakeReceived
    BY DEF Next, Call, CallStep, Refill, Fails, Receiving, Negotiated, Closing, TerminateInput,
       Environment, bufferVars, vars
  <2>3. PICK s : s = NextNumber /\ Take(pointer, s, Given)
    <3>1. CASE TakeBuffered
      BY <3>1 DEF TakeBuffered, Given, NextNumber
    <3>2. CASE TakeReceived
      BY <2>1, <3>2 DEF TakeReceived, Given, NextNumber, Extent
    <3> QED
      BY <2>2, <3>1, <3>2
  <2>4. Given # 0 /\ ~garbled
    BY <2>3 DEF Take, OnlyBuffer, pastVars
  <2>5. PICK n \in 0 .. made : Ahead(n)
    BY <2>1, <2>4 DEF Ordered
  <2>6. PICK b \in 0 .. made : Tally(b)
    BY <2>1, <2>4 DEF Tallied
  <2>7. TakenNext(n, s)
    BY <2>1, <2>3, <2>4, <2>5, TakesNext
  <2>8. /\ last'.message = n + 1 /\ last'.number = Seen - Given + 1
        /\ last.number <= Seen - Given /\ b = n + Given
    BY <2>6, <2>7 DEF TakenNext, Announced, Tally
  <2>9. /\ Seen - last.number <= b - last.message
        /\ whole => Seen - last.number = b - last.message
    BY <2>6 DEF Tally
  <2>10. /\ Seen \in Int /\ Given \in Nat /\ n \in Nat /\ b \in Nat
         /\ last.number \in Int /\ last.message \in Nat
    BY <2>1, ReceiverAssumption DEF Seen, CountsType, LinkType, Given, BufferType, CallType
  <2> QED
    BY <2>8, <2>9, <2>10
<1> QED
  BY <1>1, StreamInvariance, PTL DEF Spec, NumbersGrow
=============================================================================
