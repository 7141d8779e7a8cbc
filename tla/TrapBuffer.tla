----------------------------- MODULE TrapBuffer ------------------------------
(***************************************************************************)
(* An input interface as a module sees it: trap_recv_with_seq_number takes *)
(* messages one by one out of the buffer, which a call of the TCP/UNIX     *)
(* interface fills with the payload of a container (trap_read_from_buffer). *)
(***************************************************************************)
EXTENDS TcpipReceiver

VARIABLES
  unread, pointer,  \* buffer_unread_bytes and buffer_pointer, in messages
  number,           \* sequence_number of the interface
  clientState,      \* client_state, what negotiation has found
  closing,          \* terminated, of the context
  counter,          \* counter_recv_message
  last,             \* history: the last message returned, its number, and cut
  whole             \* history: no reset since the last message was returned

bufferVars == <<unread, pointer, number, counter, last>>
vars == <<receiverVars, bufferVars, clientState, closing, whole>>

Init ==
  /\ ReceiverInit
  /\ unread = 0 /\ pointer = 1 /\ number = 0
  /\ clientState = "WAITING" /\ closing = FALSE /\ counter = 0
  /\ last = [message |-> 0, number |-> 0, cut |-> FALSE] /\ whole = FALSE

-----------------------------------------------------------------------------
(* trap_ctx_recv_with_seq_number.  The bound of the model: a module that    *)
(* was given something wrong asks for no more.                             *)
Call ==
  /\ pc = "idle" /\ ~closing /\ ~garbled
  /\ pc' = "enter"
  /\ UNCHANGED <<peerVars, configVars, terminated, phase, timeout, at, left, frame, length, ret,
                 size, buf, pastVars, bufferVars, clientState, closing, whole>>

(* An empty buffer is filled from its beginning.                           *)
Refill(t) ==
  /\ pc = "enter" /\ unread = 0
  /\ RecvCall(t)
  /\ pointer' = 1
  /\ UNCHANGED <<unread, number, counter, last, clientState, closing, whole>>

OnlyBuffer == UNCHANGED <<peerVars, configVars, terminated, phase, timeout, at, left, frame,
                          length, buf, pastVars, closing>>

(* The message at position p, s its number, with u unread.  One whose size *)
(* field says more than there is empties the buffer, and is returned.  The *)
(* first message after a change of format is returned as FORMAT_CHANGED.   *)
Take(p, s, u) ==
  /\ IF u = 0
       THEN unread' = 0 /\ number' = s /\ pointer' = p /\ UNCHANGED <<last, whole>>
       ELSE /\ \/ unread' = u - 1 /\ pointer' = p + 1
               \/ buf[p].part # 0 /\ unread' = 0 /\ pointer' = 1
            /\ number' = s + 1
            /\ last' = [message |-> IF buf[p].part = 0 THEN buf[p].seq ELSE 0,
                        number |-> s, cut |-> cut]
            /\ whole' = TRUE
  /\ counter' = counter + 1
  /\ clientState' = IF clientState = "CHANGED" THEN "OK" ELSE clientState
  /\ pc' = "idle" /\ ret' = "OK" /\ size' = 0
  /\ OnlyBuffer

TakeBuffered == pc = "enter" /\ unread > 0 /\ Take(pointer, number, unread)

TakeReceived == pc = "return" /\ ret = "OK" /\ Take(pointer, SequenceNumber, size)

(* No message.                                                             *)
Fails ==
  /\ pc = "return" /\ ret # "OK"
  /\ pc' = "idle" /\ ret' = "OK" /\ size' = 0
  /\ OnlyBuffer /\ UNCHANGED <<bufferVars, clientState, whole>>

(* input_ifc_negotiation leaves its result in client_state.                *)
Negotiated ==
  \/ ConnectFails /\ clientState' \in {"WAITING", clientState}
  \/ ConnectSucceeds /\ clientState' \in {"OK", "CHANGED"}
  \/ ConnectMismatch /\ clientState' = "MISMATCH"
  \/ ConnectUnanswered /\ clientState' = "WAITING"

(* trap_ctx_terminate                                                      *)
Closing ==
  /\ ~closing /\ closing' = TRUE
  /\ UNCHANGED <<receiverVars, bufferVars, clientState, whole>>

TerminateInput ==
  /\ closing /\ Terminate
  /\ UNCHANGED <<bufferVars, clientState, closing, whole>>

Receiving ==
  \/ Negotiated /\ UNCHANGED whole
  \/ (RecvInit \/ PartStep \/ HeaderRead \/ HeaderMisread \/ PayloadRead)
     /\ UNCHANGED <<clientState, whole>>
  \/ Reset /\ whole' = FALSE /\ UNCHANGED clientState

CallStep ==
  \/ \E t \in Timeouts : Refill(t)
  \/ TakeBuffered \/ TakeReceived \/ Fails
  \/ Receiving /\ UNCHANGED <<bufferVars, closing>>

Environment == PeerStep /\ UNCHANGED <<bufferVars, clientState, closing, whole>>

Next ==
  \/ Call \/ CallStep \/ Closing \/ TerminateInput \/ Environment

Spec == Init /\ [][Next]_vars

(***************************************************************************)
(* The calling thread is scheduled, and the kernel wakes it when there is  *)
(* something to read or, where it was given one, its timeout expires; time *)
(* that is always checked in reset is up some day.  No signal has to come, *)
(* nor anything from the other side.                                       *)
(***************************************************************************)
Asleep ==
  /\ wire = <<>> /\ link # "closed"
  /\ \/ pc = "poll" /\ timeout = "WAIT"
     \/ pc = "read" /\ ~nonblock

Fairness ==
  /\ WF_vars(CallStep /\ ~Asleep)
  /\ SF_vars(CallStep /\ pc = "reset" /\ pc' = "return")

FairSpec == Spec /\ Fairness

-----------------------------------------------------------------------------
Parts == {"check", "poll", "read", "head", "mess"}
InPart == pc \in Parts

LinkType ==
  /\ made \in Nat /\ link \in {"down", "up", "closed"} /\ wire \in Seq(Bytes)
  /\ connected \in BOOLEAN /\ connected = (link # "down") /\ nonblock \in BOOLEAN

ConfigType ==
  /\ dataPointer \in 0 .. MaxBatch + 1 /\ waitSize \in Nat
  /\ terminated \in BOOLEAN /\ closing \in BOOLEAN /\ (terminated => closing)
  /\ isReset \in BOOLEAN

CountsType ==
  /\ session \in [seq : Nat, last : Nat, offset : Nat, received : Nat, missed : Int]
  /\ total \in [seq : Int, received : Nat, missed : Int]

CallType ==
  /\ pc \in Parts \cup {"idle", "enter", "init", "connect", "reset", "return", "lost"}
  /\ phase \in {"head", "mess"} /\ timeout \in {"WAIT", "SOME"}
  /\ at \in Nat /\ left \in Nat
  /\ length \in -1 .. MaxBatch /\ size \in 0 .. MaxBatch
  /\ ret \in {"OK", "TIMEOUT", "TERMINATED", "FORMAT_MISMATCH", "NEGOTIATION_FAILED"}

BytesType ==
  /\ frame \in [1 .. HeadLen -> Bytes] /\ buf \in [1 .. MaxBatch -> Bytes]
  /\ slipped \in BOOLEAN /\ cut \in BOOLEAN /\ garbled \in BOOLEAN

BufferType ==
  /\ unread \in 0 .. MaxBatch /\ pointer \in 1 .. MaxBatch + 1 /\ number \in Int
  /\ clientState \in {"WAITING", "OK", "MISMATCH", "CHANGED"}
  /\ counter \in Nat
  /\ last \in [message : Nat, number : Int, cut : BOOLEAN] /\ whole \in BOOLEAN

TypeOK ==
  /\ LinkType /\ ConfigType /\ CountsType /\ CallType /\ BytesType /\ BufferType

(* What the interface has counted as received and as missed is what the    *)
(* sequence numbers it has seen add up to, over every reset.               *)
Accounted ==
  /\ total.seq = total.received + total.missed
  /\ session.received + session.missed = session.seq + session.last - session.offset
  /\ isReset => session = NoSession

(* The stream is where the receiver believes it is, however often a timeout *)
(* of a payload or a signal in a poll has interrupted it: a header begins  *)
(* where it will read one, and the bytes of a payload it has with those it *)
(* misses are the messages of one container.  Not in a connection that has *)
(* slipped: by a signal in recv(), a timeout inside a header, or a hello   *)
(* message that came late.                                                 *)
Begins(part, bytes) == bytes # <<>> => bytes[1].part = part
Consecutive(bytes) == \A i \in DOMAIN bytes : bytes[i] = Message(bytes[1].seq + i - 1)
Upto(bytes, k) == SubSeq(bytes, 1, IF k < Len(bytes) THEN k ELSE Len(bytes))

PayloadAt(k, missing) ==
  /\ Consecutive(SubSeq(buf, 1, k - 1) \o Upto(wire, missing))
  /\ Begins(1, SubSeq(wire, missing + 1, Len(wire)))

InPlace ==
  connected /\ ~slipped =>
    IF InPart
      THEN IF phase = "mess" THEN PayloadAt(at, left)
           ELSE IF pc = "head" THEN PayloadAt(1, frame[1].size)
           ELSE Begins(at, wire)
      ELSE IF dataPointer # 0 THEN PayloadAt(dataPointer, waitSize)
           ELSE Begins(1, wire)

(* Why no position leaves the buffer: what is missing fits behind it, also *)
(* where a later call goes on, and a position is only kept for a payload   *)
(* of the connection that is still there.                                  *)
Extent ==
  /\ InPart /\ phase = "head" => at + left = HeadLen + 1 /\ dataPointer = 0
  /\ InPart /\ phase = "mess" => at + left <= MaxBatch + 1 /\ waitSize <= MaxBatch
  /\ pc = "check" => left = waitSize /\ at > 0
  /\ pc \in {"head", "mess"} => phase = pc
  /\ (InPart => connected) /\ (pc = "connect" => ~connected)
  /\ dataPointer # 0 => dataPointer + waitSize <= MaxBatch + 1
  /\ dataPointer # 0 /\ ~connected =>
       terminated /\ pc \in {"reset", "return", "idle", "enter"}
  /\ pointer + unread <= MaxBatch + 1
  /\ pc = "return" => pointer = 1 /\ unread = 0
  /\ InPart \/ pc \in {"init", "connect", "reset", "lost"} => pointer = 1 /\ unread = 0

Inv == TypeOK /\ Extent /\ Accounted

(* The unread messages are the next ones of a container, none of which the *)
(* module has seen; as long as no connection has slipped and no payload    *)
(* was returned with a wrong size (garbled).                               *)
UnreadInOrder ==
  ~garbled /\ unread > 0 =>
    /\ Consecutive(SubSeq(buf, pointer, pointer + unread - 1))
    /\ buf[pointer].part = 0 /\ buf[pointer].seq > last.message

(* Numbers grow from one message to the next, by as many as were lost in   *)
(* between as long as the connection lasts and nothing interrupts a call,  *)
(* and by no more otherwise; all but the messages around a payload inside  *)
(* which the counters were reset (cut), and nothing is said once garbled.  *)
NumbersTell ==
  LET lost == last'.message - last.message
      gap == last'.number - last.number IN
  last' # last /\ ~garbled' /\ ~last.cut /\ ~cut =>
    /\ 0 < gap /\ gap <= lost
    /\ whole => gap = lost

NumbersGrow == [][NumbersTell]_vars

(* What tcpip_receiver_recv says of the payload it returns.                *)
SizeIsPayload == pc = "mess" /\ ~slipped => length = at - 1

(* What trap_recv_with_seq_number says of the numbers: they identify the   *)
(* messages, one by one.                                                   *)
NumbersIdentify ==
  [][last' # last /\ ~garbled' => last'.number > last.number]_vars

(* A call that was given a timeout, or that terminate should end, ends or  *)
(* sleeps where only the other side or a signal wakes it.                  *)
CallEnds ==
  (pc # "idle" /\ (timeout # "WAIT" \/ terminated)) ~> (pc \in {"idle", "lost"} \/ Asleep)

-----------------------------------------------------------------------------
(* Why the stream is where the receiver believes it is: what follows a     *)
(* header on the wire, wherever in a container the receiver has stopped.   *)

(* Only containers from message n + 1 on are still to be read.             *)
NotBefore(n) == \A j \in DOMAIN wire : wire[j].part = 1 => wire[j].seq >= n

(* The container of header byte h, whose first byte is at position p of    *)
(* the wire; positions up to 0 have been read.                             *)
ContainerAt(h, p) ==
  /\ h.seq + h.size <= made
  /\ link = "up" => p + HeadLen + h.size <= Len(wire) + 1
  /\ \A j \in DOMAIN wire :
       /\ p < j /\ j < p + HeadLen => wire[j] = Byte(j - p + 1, h.seq, h.size)
       /\ p + HeadLen <= j /\ j < p + HeadLen + h.size =>
            wire[j] = Message(h.seq + j - p - HeadLen + 1)
       /\ j = p + HeadLen + h.size => wire[j].part = 1
       /\ p < j /\ wire[j].part = 1 => wire[j].seq >= h.seq + h.size

(* The containers on the wire, each at its header.                         *)
Framed == \A i \in DOMAIN wire : wire[i].part = 1 => ContainerAt(wire[i], i)

(* The payload after message n: it is in the buffer up to position k, and  *)
(* the wire begins with the m messages that it misses.                     *)
PayloadSplit(n, k, m) ==
  /\ n + k - 1 + m <= made
  /\ link = "up" => m <= Len(wire)
  /\ \A i \in 1 .. k - 1 : buf[i] = Message(n + i)
  /\ \A j \in DOMAIN wire :
       /\ j <= m => wire[j] = Message(n + k - 1 + j)
       /\ j = m + 1 => wire[j].part = 1
  /\ NotBefore(n + k - 1 + m)

(* The number of the last message the counters know of, also after a reset. *)
Seen == total.seq + (session.seq + session.last - session.offset)

(* The counters know the k messages after message n, and of no other since. *)
Announced(n, k) ==
  /\ ~isReset /\ session.seq + session.last = n + k
  /\ ~last.cut => last.number <= Seen - k

InPayload(k, m) ==
  \E n \in 0 .. made :
    /\ PayloadSplit(n, k, m)
    /\ ~garbled => last.message <= n
    /\ ~garbled /\ ~cut => Announced(n, k - 1 + m) /\ session.last = k - 1 + m

InHeader ==
  /\ \A i \in 1 .. at - 1 : frame[i] = Byte(i, frame[1].seq, frame[1].size)
  /\ ContainerAt(frame[1], 2 - at)
  /\ ~garbled => last.message <= frame[1].seq

Aligned ==
  connected /\ ~slipped =>
    /\ Framed
    /\ InPart /\ phase = "mess" => InPayload(at, left)
    /\ InPart /\ phase = "head" => IF at = 1 THEN Begins(1, wire) ELSE InHeader
    /\ ~InPart /\ dataPointer # 0 => InPayload(dataPointer, waitSize)
    /\ ~InPart /\ dataPointer = 0 => Begins(1, wire)

(* Where a part is entered and left, and when a position is kept.          *)
Stops ==
  /\ ~connected => wire = <<>>
  /\ pc \in {"check", "poll"} /\ phase = "head" => at = 1
  /\ pc \in {"check", "poll", "read"} /\ phase = "head" => left > 0
  /\ pc \in {"head", "mess"} => left = 0
  /\ InPart /\ ~slipped => at > 0
  /\ dataPointer # 0 => unread = 0 /\ (pc = "return" => ret # "OK")

(* The messages in the buffer that the module is given next, after message *)
(* n, which is not before the last one it has seen.                        *)
Given == IF pc = "return" /\ ret = "OK" THEN size ELSE unread

NextNumber == IF pc = "return" THEN SequenceNumber ELSE number

Ahead(n) ==
  /\ last.message <= n /\ n + Given <= made
  /\ \A i \in 0 .. Given - 1 : buf[pointer + i] = Message(n + 1 + i)
  /\ NotBefore(n + Given)
  /\ Given > 0 /\ ~cut => Announced(n, Given) /\ NextNumber = Seen - Given + 1

Ordered == ~garbled => ~slipped /\ \E n \in 0 .. made : Ahead(n)

HeaderBegun == connected /\ ~slipped /\ InPart /\ phase = "head" /\ at > 1

(* The counters know of as many messages since the last one that the module *)
(* has seen as there have been up to message b, or, after a reset, of fewer. *)
(* Whatever is still to be read comes after b.                             *)
Tally(b) ==
  /\ NotBefore(b)
  /\ ~isReset => b = session.seq + session.last
  /\ HeaderBegun => b <= frame[1].seq
  /\ ~last.cut => /\ last.number <= Seen /\ Seen - last.number <= b - last.message
                  /\ whole => ~isReset /\ Seen - last.number = b - last.message

Tallied == ~garbled => \E b \in 0 .. made : Tally(b)

StreamInv == Inv /\ Stops /\ Aligned /\ Ordered /\ Tallied
=============================================================================
