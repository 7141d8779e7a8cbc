---------------------------- MODULE TcpipReceiver ----------------------------
(***************************************************************************)
(* The TCP/UNIX input interface of libtrap: one call of tcpip_receiver_recv *)
(* and of receive_part under it, the connection they read, and an output   *)
(* interface at its other end that sends, skips, closes or changes its     *)
(* mind.  A byte of the model is a part of a container's header or one     *)
(* message; recv() may return after any of them.                           *)
(***************************************************************************)
EXTENDS Integers, Sequences

CONSTANTS
  HeadLen,      \* sizeof(trap_buffer_header_t)
  MaxBatch,     \* messages in a container
  Timeouts,     \* timeouts a call may be given: "WAIT", "SOME"
  SocketType,   \* "TCP" or "UNIX"
  MaxMsgs       \* bound of the model: messages the other side produces

ASSUME ReceiverAssumption ==
  /\ HeadLen \in Nat \ {0} /\ MaxBatch \in Nat \ {0} /\ MaxMsgs \in Nat
  /\ Timeouts \subseteq {"WAIT", "SOME"} /\ SocketType \in {"TCP", "UNIX"}

VARIABLES
  made,         \* messages the output interface has numbered so far
  link,         \* the connection: "down", "up", or "closed" by the other side
  wire,         \* bytes sent and not read yet
  connected, nonblock, \* config->connected; O_NONBLOCK of its socket
  dataPointer,  \* data_pointer: the next free byte, 0 for NULL
  waitSize,     \* data_wait_size
  terminated,   \* is_terminated
  isReset,      \* is_session_reset
  session,      \* the session_ counters, [seq, last, offset, received, missed]
  total,        \* the total_ counters, [seq, received, missed]
  pc,           \* where the call is
  phase,        \* what receive_part was called for, "head" or "mess"
  timeout,      \* of the call
  at, left,     \* data_p and numbytes of receive_part
  frame,        \* the bytes of messageframe
  length,       \* messageframe.data_length, -1 before a header was read
  buf,          \* the buffer given by the caller
  ret, size,    \* what the call returns, and the size it sets
  slipped,      \* history: this connection is not read from a header any more
  cut,          \* history: the counters were reset inside the last payload
  garbled       \* history: a slip, or a wrong size, since the start

peerVars == <<made, link, wire>>
configVars == <<connected, nonblock, dataPointer, waitSize, isReset, session, total>>
localVars == <<pc, phase, timeout, at, left, frame, length, ret, size>>
pastVars == <<slipped, cut, garbled>>
receiverVars == <<peerVars, configVars, terminated, localVars, buf, pastVars>>

Byte(part, seq, n) == [part |-> part, seq |-> seq, size |-> n]
Junk == Byte(-1, 0, 0)          \* a byte of a hello message, or never written
Message(n) == Byte(0, n, 0)
Bytes == [part : -1 .. HeadLen, seq : Nat, size : 0 .. MaxBatch]

(* What the sender puts on the wire for the n messages after made.         *)
Container(n) ==
  [i \in 1 .. HeadLen + n |->
     IF i <= HeadLen THEN Byte(i, made, n) ELSE Message(made + i - HeadLen)]

NoSession == [seq |-> 0, last |-> 0, offset |-> 0, received |-> 0, missed |-> 0]

ReceiverInit ==
  /\ made = 0 /\ link = "down" /\ wire = <<>>
  /\ connected = FALSE /\ nonblock = FALSE /\ dataPointer = 0 /\ waitSize = 0
  /\ terminated = FALSE
  /\ isReset = TRUE /\ session = NoSession
  /\ total = [seq |-> 0, received |-> 0, missed |-> 0]
  /\ pc = "idle" /\ phase = "head" /\ timeout = "WAIT" /\ at = 1 /\ left = 0
  /\ frame = [i \in 1 .. HeadLen |-> Junk] /\ length = -1
  /\ buf = [i \in 1 .. MaxBatch |-> Junk]
  /\ ret = "OK" /\ size = 0
  /\ slipped = FALSE /\ cut = FALSE /\ garbled = FALSE

-----------------------------------------------------------------------------
(* The other side.                                                         *)
OnlyWire == UNCHANGED <<configVars, terminated, localVars, buf, pastVars>>

(* A container is finished; a connected client is sent it, or, when it is  *)
(* too slow, skips it.                                                     *)
PeerPublish ==
  \E n \in 1 .. MaxBatch :
    /\ made + n <= MaxMsgs
    /\ made' = made + n
    /\ \/ link = "up" /\ wire' = wire \o Container(n)
       \/ UNCHANGED wire
    /\ UNCHANGED link /\ OnlyWire

(* It terminates, changes its format or breaks; the last bytes may be lost. *)
PeerClose ==
  /\ link = "up"
  /\ link' = "closed"
  /\ \E k \in 0 .. Len(wire) : wire' = SubSeq(wire, 1, k)
  /\ UNCHANGED made /\ OnlyWire

-----------------------------------------------------------------------------
(* Steps of the call.                                                      *)

(* client_socket_disconnect                                                *)
Disconnected ==
  /\ connected' = FALSE /\ link' = "down" /\ wire' = <<>> /\ slipped' = FALSE

(* The call returns, and its locals are gone.                              *)
Locals == timeout' = "WAIT" /\ length' = -1 /\ frame' = [i \in 1 .. HeadLen |-> Junk]
NoPart == phase' = "head" /\ at' = 1 /\ left' = 0
Return(code) == pc' = "return" /\ ret' = code /\ Locals /\ NoPart

(* receive_part is entered for k bytes from position p on.                 *)
ReceivePart(ph, p, k) ==
  /\ phase' = ph /\ at' = p /\ left' = k /\ pc' = "check"

ToReset == pc' = "reset"

(* The call; messageframe is on its stack.                                 *)
RecvCall(t) ==
  /\ size' = 0
  /\ IF terminated
       THEN Return("TERMINATED")
       ELSE pc' = "init" /\ timeout' = t /\ UNCHANGED <<phase, at, left, frame, length, ret>>
  /\ UNCHANGED <<peerVars, configVars, terminated, buf, pastVars>>

(* init: go on where the last call or the last attempt ended.  A header is *)
(* always read from its first byte.                                        *)
RecvInit ==
  /\ pc = "init"
  /\ \/ ~connected /\ pc' = "connect" /\ UNCHANGED <<phase, at, left, waitSize>>
     \/ connected /\ dataPointer = 0 /\ waitSize' = HeadLen
        /\ ReceivePart("head", 1, HeadLen)
     \/ connected /\ dataPointer # 0 /\ ReceivePart("mess", dataPointer, waitSize)
        /\ UNCHANGED waitSize
  /\ UNCHANGED <<peerVars, connected, nonblock, dataPointer, isReset, session, total,
                 terminated, timeout, frame, length, ret, size, buf, pastVars>>

(* conn_wait: no connection, or the other side's format is not known yet.  *)
ConnectFails ==
  /\ pc = "connect" /\ ToReset
  /\ UNCHANGED <<peerVars, configVars, terminated, phase, timeout, at, left, frame,
                 length, ret, size, buf, pastVars>>

Connected(lnk, bytes) ==
  /\ connected' = TRUE /\ link' = lnk /\ wire' = bytes
  /\ nonblock' = (SocketType = "TCP" /\ timeout # "WAIT")
  /\ slipped' = (bytes # <<>>) /\ garbled' = (garbled \/ bytes # <<>>)
  /\ UNCHANGED <<made, dataPointer, isReset, session, total, terminated, size, buf, cut>>

ConnectSucceeds ==
  /\ pc = "connect" /\ Connected("up", <<>>)
  /\ waitSize' = HeadLen /\ ReceivePart("head", 1, HeadLen)
  /\ UNCHANGED <<timeout, frame, length, ret>>

(* The formats do not match; the connection stays.                         *)
ConnectMismatch ==
  /\ pc = "connect" /\ Connected("up", <<>>) /\ Return("FORMAT_MISMATCH")
  /\ UNCHANGED waitSize

(* The hello message did not come in time: it may still come, and stays to *)
(* be read.                                                                *)
ConnectUnanswered ==
  /\ pc = "connect" /\ Return("NEGOTIATION_FAILED")
  /\ Connected("closed", <<>>) \/ Connected("up", <<Junk>>)
  /\ UNCHANGED waitSize

-----------------------------------------------------------------------------
(* receive_part, which tests the flag and then polls.                      *)
OnlyCall == UNCHANGED <<peerVars, connected, nonblock, isReset, session, total, terminated,
                        timeout, frame, length, ret, size, buf, cut>>

GiveUpBug(p, k) ==                                            \* *size not updated
  /\ ToReset
  /\ dataPointer' = IF phase = "mess" THEN p ELSE dataPointer
  /\ NoPart /\ UNCHANGED waitSize

(* What the caller does when receive_part gives up: it keeps the position  *)
(* p in a payload, k bytes of which are missing.                           *)
GiveUp(p, k) ==
  /\ ToReset
  /\ waitSize' = k
  /\ dataPointer' = IF phase = "mess" THEN p ELSE dataPointer
  /\ NoPart

PartCheck ==
  /\ pc = "check"
  /\ IF terminated
       THEN GiveUp(at, waitSize)
       ELSE pc' = "poll" /\ UNCHANGED <<dataPointer, waitSize, phase, at, left>>
  /\ OnlyCall /\ UNCHANGED <<slipped, garbled>>

PollReady ==
  /\ pc = "poll"
  /\ wire # <<>> \/ link = "closed"
  /\ pc' = "read"
  /\ OnlyCall /\ UNCHANGED <<dataPointer, waitSize, phase, at, left, slipped, garbled>>

(* The timeout has expired, or a signal has come.                          *)
PollTimeout ==
  /\ pc = "poll"
  /\ GiveUp(at, left)
  /\ OnlyCall /\ UNCHANGED <<slipped, garbled>>

(* recv() has read a byte; the last one ends receive_part.                 *)
ReadByte ==
  /\ pc = "read" /\ left > 0 /\ wire # <<>>
  /\ wire' = Tail(wire)
  /\ IF phase = "head"
       THEN /\ frame' = [i \in DOMAIN frame |-> IF i = at THEN Head(wire) ELSE frame[i]]
            /\ UNCHANGED buf
       ELSE /\ buf' = [i \in DOMAIN buf |-> IF i = at THEN Head(wire) ELSE buf[i]]
            /\ UNCHANGED frame
  /\ at' = at + 1 /\ left' = left - 1
  /\ IF left > 1 THEN UNCHANGED <<pc, waitSize>>
                 ELSE pc' = phase /\ waitSize' = 0
  /\ UNCHANGED <<made, link, connected, nonblock, dataPointer, isReset, session, total,
                 terminated, phase, timeout, length, ret, size, pastVars>>

(* EAGAIN: more is on its way, if anything.  The position is kept in a     *)
(* payload and lost in a header.                                           *)
ReadAgain ==
  /\ pc = "read" /\ nonblock
  /\ GiveUp(at, left)
  /\ slipped' = (slipped \/ (phase = "head" /\ at > 1))
  /\ garbled' = (garbled \/ slipped')
  /\ OnlyCall

(* EINTR while it waits for the next byte.  The -1 that recv() returned is *)
(* taken off what is missing, and moves the position back.                 *)
ReadInterrupted ==
  /\ pc = "read" /\ ~nonblock /\ wire = <<>> /\ link = "up"
  /\ IF terminated
       THEN /\ Disconnected /\ ToReset
            /\ dataPointer' = IF phase = "head" \/ dataPointer # 0 THEN dataPointer ELSE 1
            /\ NoPart /\ UNCHANGED garbled
       ELSE /\ at > 0
            /\ at' = at - 1 /\ left' = left + 1
            /\ slipped' = TRUE /\ garbled' = TRUE
            /\ UNCHANGED <<pc, phase, connected, link, wire, dataPointer>>
  /\ UNCHANGED <<made, nonblock, waitSize, isReset, session, total, terminated,
                 timeout, frame, length, ret, size, buf, cut>>

ReadBrokenBug ==                                              \* nothing discarded
  /\ pc = "read"
  /\ link = "closed" \/ left = 0
  /\ Disconnected /\ ToReset /\ NoPart
  /\ dataPointer' = IF phase = "mess" THEN at ELSE dataPointer
  /\ UNCHANGED <<made, nonblock, waitSize, isReset, session, total, terminated,
                 timeout, frame, length, ret, size, buf, cut, garbled>>

(* The connection is closed or broken, or no byte was asked for: discard.  *)
ReadBroken ==
  /\ pc = "read"
  /\ link = "closed" \/ left = 0
  /\ Disconnected /\ dataPointer' = 0 /\ ToReset /\ NoPart
  /\ UNCHANGED <<made, nonblock, waitSize, isReset, session, total, terminated,
                 timeout, frame, length, ret, size, buf, cut, garbled>>

-----------------------------------------------------------------------------
(* The bytes read as a header are one.                                     *)
HeaderWhole ==
  \A i \in 1 .. HeadLen : frame[i] = Byte(i, frame[1].seq, frame[1].size)

(* The gap to the last container of the session is what was missed.        *)
Counted(h) ==
  [seq |-> h.seq, last |-> h.size,
   offset |-> IF isReset THEN h.seq ELSE session.offset,
   received |-> session.received + h.size,
   missed |-> session.missed + IF isReset THEN 0 ELSE h.seq - (session.seq + session.last)]

(* The header is complete: go on with its payload.                         *)
HeaderRead ==
  /\ pc = "head" /\ HeaderWhole
  /\ session' = Counted(frame[1])
  /\ length' = frame[1].size /\ waitSize' = frame[1].size
  /\ ReceivePart("mess", 1, frame[1].size)
  /\ isReset' = FALSE /\ cut' = FALSE
  /\ UNCHANGED <<peerVars, connected, nonblock, dataPointer, total, terminated, timeout,
                 frame, ret, size, buf, slipped, garbled>>

(* Other bytes are taken for a header, and their length for the size of a  *)
(* payload, which may be longer than the buffer: not followed any further. *)
HeaderMisread ==
  /\ pc = "head" /\ ~HeaderWhole
  /\ pc' = "lost"
  /\ UNCHANGED <<peerVars, configVars, terminated, phase, timeout, at, left, frame, length,
                 ret, size, buf, pastVars>>

(* The payload is complete.  data_length is a local variable that only a   *)
(* header read in this call has set.                                       *)
PayloadRead ==
  /\ pc = "mess"
  /\ dataPointer' = 0
  /\ size' \in IF length >= 0 THEN {length} ELSE 0 .. MaxBatch
  /\ garbled' = (garbled \/ size' # at - 1)
  /\ Return("OK")
  /\ UNCHANGED <<peerVars, connected, nonblock, waitSize, isReset, session, total, terminated,
                 buf, slipped, cut>>

FoldedBug ==                                                  \* last container left out
  [seq |-> total.seq + (session.seq - session.offset),
   received |-> total.received + session.received,
   missed |-> total.missed + session.missed]

(* reset: what the session has counted goes to the totals.                 *)
Folded ==
  [seq |-> total.seq + (session.seq + session.last - session.offset),
   received |-> total.received + session.received,
   missed |-> total.missed + session.missed]

ResetBug ==                                                   \* flag not looked at
  /\ pc = "reset"
  /\ total' = Folded /\ session' = NoSession /\ isReset' = TRUE
  /\ cut' = (cut \/ dataPointer # 0)
  /\ \/ pc' = "init" /\ UNCHANGED <<phase, timeout, at, left, frame, length, ret>>
     \/ timeout # "WAIT" /\ Return("TIMEOUT")
  /\ UNCHANGED <<peerVars, connected, nonblock, dataPointer, waitSize, terminated, size, buf,
                 slipped, garbled>>

Reset ==
  /\ pc = "reset"
  /\ total' = Folded /\ session' = NoSession /\ isReset' = TRUE
  /\ cut' = (cut \/ dataPointer # 0)
  /\ \/ terminated /\ Return("TERMINATED")
     \/ ~terminated /\ pc' = "init"
        /\ UNCHANGED <<phase, timeout, at, left, frame, length, ret>>
     \/ ~terminated /\ timeout # "WAIT" /\ Return("TIMEOUT")      \* time is up
  /\ UNCHANGED <<peerVars, connected, nonblock, dataPointer, waitSize, terminated, size, buf,
                 slipped, garbled>>

(* tcpip_receiver_terminate, from another thread or a signal handler.      *)
Terminate ==
  /\ ~terminated /\ terminated' = TRUE
  /\ UNCHANGED <<peerVars, configVars, localVars, buf, pastVars>>

SequenceNumberBug == (session.seq - session.offset) + 1       \* of this session only

(* tcpip_receiver_recv_seq_number                                          *)
SequenceNumber == total.seq + (session.seq - session.offset) + 1

PartStep ==
  \/ PartCheck \/ PollReady \/ PollTimeout
  \/ ReadByte \/ ReadAgain \/ ReadInterrupted \/ ReadBroken

PeerStep == PeerPublish \/ PeerClose
=============================================================================
