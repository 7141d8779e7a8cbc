----------------------------- MODULE TlsReceiver -----------------------------
(***************************************************************************)
(* The input interface over TLS (ifc_tls.c): one call of tls_receiver_recv *)
(* and of receive_part under it, the SSL object they read through, and an  *)
(* output interface at the other end that writes containers record by      *)
(* record, closes, and is connected to again.  A record holds bytes of one *)
(* container, the header always within the first one; SSL_read gives what  *)
(* is left of a record it has decrypted, and select() only knows what is   *)
(* still in the socket.  A byte of the model is a header or a part of a    *)
(* payload.                                                                *)
(***************************************************************************)
EXTENDS Integers, Sequences

CONSTANTS
  TrPayloads,    \* sizes of the containers' payloads
  TrTimeouts,    \* timeouts a call may be given: "WAIT", "SOME"
  TrMaxMade,     \* bound of the model: containers written
  TrMaxLinks     \* bound of the model: connections made

(* The caller's buffer takes the largest payload.                          *)
ASSUME TlsReceiverAssumption ==
  /\ TrPayloads \subseteq Nat \ {0} /\ \E n \in TrPayloads : \A m \in TrPayloads : m <= n
  /\ TrTimeouts \subseteq {"WAIT", "SOME"}
  /\ TrMaxMade \in Nat /\ TrMaxLinks \in Nat

VARIABLES
  trLink,        \* the connection, [state, count]
  trPeer,        \* the container being written, [number, size, next]
  trWire,        \* the records in the socket
  trHeld,        \* the rest of the record that the SSL object has decrypted
  trConfig,      \* [connected, pointer, wait]: data_pointer (0: NULL), data_wait_size
  trTerminated,  \* is_terminated
  trCall,        \* the call: [pc, phase, timeout, at, left, length]
  trBuf,         \* the caller's buffer
  trGiven,       \* history: what was last returned, [before, bytes, size, begun, slipped]
  trSlipped      \* history: a failed read has moved the position back in this connection

trVars == <<trLink, trPeer, trWire, trHeld, trConfig, trTerminated, trCall, trBuf, trGiven,
            trSlipped>>

trPeerVars == <<trLink, trPeer, trWire>>

(* Byte 0 of a container is its header, which tells the size of the rest.  *)
TrByte(number, place, total) == [number |-> number, place |-> place, total |-> total]
TrNoByte == TrByte(0, 0, 0)
TrPayload(number, total) == [i \in 1 .. total |-> TrByte(number, i, total)]
TrMaxPayload == CHOOSE n \in TrPayloads : \A m \in TrPayloads : m <= n

(* create_tls_receiver_ifc: it does not connect before the first call.     *)
TlsReceiverInit ==
  /\ trLink = [state |-> "down", count |-> 0]
  /\ trPeer = [number |-> 0, size |-> 0, next |-> 1]
  /\ trWire = <<>> /\ trHeld = <<>>
  /\ trConfig = [connected |-> FALSE, pointer |-> 0, wait |-> 0]
  /\ trTerminated = FALSE
  /\ trCall = [pc |-> "idle", phase |-> "head", timeout |-> "WAIT",
               at |-> 0, left |-> 0, length |-> -1]
  /\ trBuf = [i \in 1 .. TrMaxPayload |-> TrNoByte]
  /\ trGiven = [before |-> 0, bytes |-> <<>>, size |-> 0, begun |-> FALSE, slipped |-> FALSE]
  /\ trSlipped = FALSE

-----------------------------------------------------------------------------
(* The output interface.                                                   *)
TrWritten == trPeer.next > trPeer.size

(* It writes the header of the next container with a part of its payload.  *)
TrPeerContainer ==
  /\ trLink.state = "up" /\ TrWritten /\ trPeer.number < TrMaxMade
  /\ \E total \in TrPayloads : \E upto \in 1 .. total :
       LET number == trPeer.number + 1 IN
       /\ trPeer' = [number |-> number, size |-> total, next |-> upto + 1]
       /\ trWire' = Append(trWire,
            <<TrByte(number, 0, total)>> \o SubSeq(TrPayload(number, total), 1, upto))
  /\ UNCHANGED <<trLink, trHeld, trConfig, trTerminated, trCall, trBuf, trGiven, trSlipped>>

TrPeerRecord ==
  /\ trLink.state = "up" /\ ~TrWritten
  /\ \E upto \in trPeer.next .. trPeer.size :
       /\ trPeer' = [trPeer EXCEPT !.next = upto + 1]
       /\ trWire' = Append(trWire, SubSeq(TrPayload(trPeer.number, trPeer.size),
                                          trPeer.next, upto))
  /\ UNCHANGED <<trLink, trHeld, trConfig, trTerminated, trCall, trBuf, trGiven, trSlipped>>

(* It closes, maybe within a container, the rest of which is never written, *)
(* or resets the connection, which drops what is still in the socket.      *)
TrPeerClose ==
  /\ trLink.state = "up" /\ trLink' = [trLink EXCEPT !.state = "closed"]
  /\ trPeer' = [trPeer EXCEPT !.next = trPeer.size + 1]
  /\ trWire' \in {trWire, <<>>}
  /\ UNCHANGED <<trHeld, trConfig, trTerminated, trCall, trBuf, trGiven, trSlipped>>

-----------------------------------------------------------------------------
(* tls_receiver_recv.                                                      *)
TrGoto(pc) == trCall' = [trCall EXCEPT !.pc = pc]

TrReturn == TrGoto("idle")          \* with anything but TRAP_E_OK

TlsRecv(timeout) ==
  /\ trCall.pc = "idle"
  /\ trCall' = [trCall EXCEPT !.pc = IF trTerminated THEN "idle" ELSE "init",
                              !.timeout = timeout, !.length = -1]
  /\ UNCHANGED <<trPeerVars, trHeld, trConfig, trTerminated, trBuf, trGiven, trSlipped>>

TrWaitFor(phase, at, left) ==
  trCall' = [trCall EXCEPT !.pc = "select", !.phase = phase, !.at = at, !.left = left]

(* head_wait: data_wait_size is the header's, which is one byte here.      *)
TrHeadWait(connected) ==
  /\ trConfig' = [trConfig EXCEPT !.connected = connected, !.wait = 1]
  /\ TrWaitFor("head", 1, 1)

TlsRecvInit ==
  /\ trCall.pc = "init"
  /\ \/ ~trConfig.connected /\ TrGoto("connect") /\ UNCHANGED trConfig
     \/ trConfig.connected /\ trConfig.pointer = 0 /\ TrHeadWait(TRUE)
     \/ /\ trConfig.connected /\ trConfig.pointer # 0
        /\ TrWaitFor("mess", trConfig.pointer, trConfig.wait) /\ UNCHANGED trConfig
  /\ UNCHANGED <<trPeerVars, trHeld, trTerminated, trBuf, trGiven, trSlipped>>

(* conn_wait: every failure to connect but a mismatch of the formats is    *)
(* taken for the end, as the condition that should tell a bad certificate  *)
(* apart is always true.                                                   *)
TlsConnectFails ==
  /\ trCall.pc = "connect" /\ TrReturn
  /\ UNCHANGED <<trPeerVars, trHeld, trConfig, trTerminated, trBuf, trGiven, trSlipped>>

TrNewLink ==
  /\ trCall.pc = "connect" /\ trLink.count < TrMaxLinks
  /\ trLink' = [state |-> "up", count |-> trLink.count + 1]
  /\ trWire' = <<>> /\ trHeld' = <<>> /\ trSlipped' = FALSE
  /\ UNCHANGED <<trPeer, trTerminated, trBuf, trGiven>>

(* client_socket_connect: connected, shaken hands, certificate verified,   *)
(* and the formats negotiated.                                             *)
TlsConnect == TrNewLink /\ TrHeadWait(TRUE)

TlsConnectMismatch ==                              \* returns FORMAT_MISMATCH
  TrNewLink /\ TrReturn /\ trConfig' = [trConfig EXCEPT !.connected = TRUE]

(* reset: the caller's time decides, and TRAP_WAIT has no end.             *)
TlsRecvReset ==
  /\ trCall.pc = "reset"
  /\ \/ (trTerminated \/ trCall.timeout # "WAIT") /\ TrReturn
     \/ ~trTerminated /\ TrGoto("init")
  /\ UNCHANGED <<trPeerVars, trHeld, trConfig, trTerminated, trBuf, trGiven, trSlipped>>

-----------------------------------------------------------------------------
(* receive_part.  Interrupted, a payload is continued by a later call from *)
(* where it stopped, a header is begun again.                              *)
TrInterrupted(at, left) ==
  /\ trConfig' = [trConfig EXCEPT !.wait = left,
                    !.pointer = IF trCall.phase = "mess" THEN at ELSE @]
  /\ TrGoto("reset")

TrTerminatedInside ==
  /\ trCall.pc = "select" /\ trTerminated /\ TrInterrupted(trCall.at, trCall.left)
  /\ UNCHANGED <<trPeerVars, trHeld, trTerminated, trBuf, trGiven, trSlipped>>

TrSelectTimeout ==
  /\ trCall.pc = "select" /\ ~trTerminated /\ trCall.timeout # "WAIT"
  /\ TrInterrupted(trCall.at, trCall.left)
  /\ UNCHANGED <<trPeerVars, trHeld, trTerminated, trBuf, trGiven, trSlipped>>

(* There is something in the socket: a record, a part of one, or the end.  *)
TrSelect ==
  /\ trCall.pc = "select" /\ ~trTerminated
  /\ trWire # <<>> \/ trLink.state = "closed" \/ ~TrWritten
  /\ TrGoto("read")
  /\ UNCHANGED <<trPeerVars, trHeld, trConfig, trTerminated, trBuf, trGiven, trSlipped>>

(* SSL_read decrypts the next record when it holds nothing.                *)
TrDecrypt ==
  /\ trCall.pc = "read" /\ trCall.left > 0 /\ trHeld = <<>> /\ trWire # <<>>
  /\ trHeld' = Head(trWire) /\ trWire' = Tail(trWire)
  /\ UNCHANGED <<trLink, trPeer, trConfig, trTerminated, trCall, trBuf, trGiven, trSlipped>>

(* The header is the byte that comes to the first place of messageframe;   *)
(* another byte there is taken for one, which a length of 0 stands for.    *)
TrHeadLength(b) == IF b.place = 0 THEN b.total ELSE 0

TrTake ==
  /\ trCall.pc = "read" /\ trCall.left > 0 /\ trHeld # <<>>
  /\ LET n == IF trCall.left < Len(trHeld) THEN trCall.left ELSE Len(trHeld)
         taken == trCall.at .. trCall.at + n - 1
         moved == [trCall EXCEPT !.at = @ + n, !.left = @ - n]
     IN /\ trHeld' = SubSeq(trHeld, n + 1, Len(trHeld))
        /\ IF trCall.phase = "head"
             THEN trCall' = [moved EXCEPT !.length = IF 1 \in taken
                               THEN TrHeadLength(trHeld[2 - trCall.at]) ELSE @]
                  /\ UNCHANGED trBuf
             ELSE trCall' = moved
                  /\ trBuf' = [i \in DOMAIN trBuf |->
                       IF i \in taken THEN trHeld[i - trCall.at + 1] ELSE trBuf[i]]
  /\ UNCHANGED <<trPeerVars, trConfig, trTerminated, trGiven, trSlipped>>

(* EAGAIN: no whole record is there.                                       *)
TrAgain ==
  /\ trCall.pc = "read" /\ trCall.left > 0 /\ trHeld = <<>> /\ trWire = <<>>
  /\ trLink.state = "up" /\ TrInterrupted(trCall.at, trCall.left)
  /\ UNCHANGED <<trPeerVars, trHeld, trTerminated, trBuf, trGiven, trSlipped>>

TrDiscardBug == trConfig' = [trConfig EXCEPT !.connected = FALSE]   \* not discarded

(* client_socket_disconnect, and discard: the data read so far are dropped. *)
TrDiscard == trConfig' = [trConfig EXCEPT !.connected = FALSE, !.pointer = 0]

TrBroken ==
  /\ trCall.pc = "read" /\ trCall.left > 0 /\ trHeld = <<>> /\ trWire = <<>>
  /\ trLink.state = "closed" /\ trLink' = [trLink EXCEPT !.state = "down"]
  /\ TrDiscard /\ TrGoto("reset")
  /\ UNCHANGED <<trPeer, trWire, trHeld, trTerminated, trBuf, trGiven, trSlipped>>

(* Any other error of SSL_read, as EINTR or ECONNRESET: the -1 it returned *)
(* is taken off what is missing and moves the position back, unless the    *)
(* call was interrupted by its end.  A position before the buffer is left  *)
(* out; what it writes there is undefined.                                 *)
TrReadFails ==
  /\ trCall.pc = "read" /\ trCall.left > 0 /\ trHeld = <<>> /\ trWire = <<>>
  /\ trSlipped' = TRUE
  /\ \/ /\ trCall.at > (IF trCall.phase = "head" THEN 0 ELSE 1)
        /\ trCall' = [trCall EXCEPT !.at = @ - 1, !.left = @ + 1]
        /\ UNCHANGED <<trLink, trPeer, trConfig>>
     \/ /\ trTerminated /\ TrGoto("reset") /\ trLink' = [trLink EXCEPT !.state = "down"]
        /\ trPeer' = [trPeer EXCEPT !.next = trPeer.size + 1]
        /\ trConfig' = [trConfig EXCEPT !.connected = FALSE,
             !.pointer = IF trCall.phase = "head" \/ @ # 0 THEN @ ELSE 1]
  /\ UNCHANGED <<trWire, trHeld, trTerminated, trBuf, trGiven>>

(* The header tells how much to wait for, and where the payload goes.      *)
TlsHeadDone ==
  /\ trCall.pc = "read" /\ trCall.left = 0 /\ trCall.phase = "head" /\ trCall.length > 0
  /\ trConfig' = [trConfig EXCEPT !.wait = trCall.length]
  /\ TrWaitFor("mess", 1, trCall.length)
  /\ UNCHANGED <<trPeerVars, trHeld, trTerminated, trBuf, trGiven, trSlipped>>

(* Other bytes are taken for a header, and their length for the size of a  *)
(* payload, which may be longer than the buffer: not followed any further. *)
TlsHeadMisread ==
  /\ trCall.pc = "read" /\ trCall.left = 0 /\ trCall.phase = "head" /\ trCall.length = 0
  /\ TrGoto("lost")
  /\ UNCHANGED <<trPeerVars, trHeld, trConfig, trTerminated, trBuf, trGiven, trSlipped>>

(* The call returns the payload, and for its size data_length of a local   *)
(* header, which was only set if this call has read the header.            *)
TlsMessDone ==
  /\ trCall.pc = "read" /\ trCall.left = 0 /\ trCall.phase = "mess"
  /\ trConfig' = [trConfig EXCEPT !.pointer = 0, !.wait = 0]
  /\ \E size \in IF trCall.length > 0 THEN {trCall.length} ELSE 0 .. TrMaxPayload :
       trGiven' = [before |-> IF trGiven.bytes = <<>> THEN 0 ELSE trGiven.bytes[1].number,
                   bytes |-> SubSeq(trBuf, 1, trCall.at - 1), size |-> size,
                   begun |-> trCall.length > 0, slipped |-> trSlipped]
  /\ TrGoto("idle")
  /\ UNCHANGED <<trPeerVars, trHeld, trTerminated, trBuf, trSlipped>>

-----------------------------------------------------------------------------
(* tls_receiver_terminate, and tls_receiver_destroy once no call is left.  *)
TlsReceiverTerminate ==
  /\ ~trTerminated /\ trTerminated' = TRUE
  /\ UNCHANGED <<trPeerVars, trHeld, trConfig, trCall, trBuf, trGiven, trSlipped>>

TlsReceiverDestroy ==
  /\ trTerminated /\ trCall.pc = "idle" /\ TrGoto("gone")
  /\ trConfig' = [trConfig EXCEPT !.connected = FALSE]
  /\ trLink' = [trLink EXCEPT !.state = "down"] /\ trWire' = <<>> /\ trHeld' = <<>>
  /\ UNCHANGED <<trPeer, trTerminated, trBuf, trGiven, trSlipped>>

TlsReceiverNext ==
  \/ TrPeerContainer \/ TrPeerRecord \/ TrPeerClose
  \/ \E timeout \in TrTimeouts : TlsRecv(timeout)
  \/ TlsRecvInit \/ TlsConnectFails \/ TlsConnect \/ TlsConnectMismatch \/ TlsRecvReset
  \/ TrTerminatedInside \/ TrSelectTimeout \/ TrSelect
  \/ TrDecrypt \/ TrTake \/ TrAgain \/ TrBroken \/ TrReadFails
  \/ TlsHeadDone \/ TlsHeadMisread \/ TlsMessDone
  \/ TlsReceiverTerminate \/ TlsReceiverDestroy

TlsReceiverSpec == TlsReceiverInit /\ [][TlsReceiverNext]_trVars

-----------------------------------------------------------------------------
(* What a call leaves in the buffer is the payload of one container, whole *)
(* and in its order, and of a later container than the one before, however *)
(* often reading it timed out, stopped inside a record or a connection     *)
(* broke on the way: data_pointer and data_wait_size of one call fit the   *)
(* next.  Not so once a failed read has moved the position back in this    *)
(* connection.  The size that is returned is the payload's if the call has *)
(* read its header; a call that continues a payload returns any.           *)
TlsReadWhole ==
  /\ trGiven.bytes # <<>> /\ ~trGiven.slipped =>
       \E number \in trGiven.before + 1 .. trPeer.number :
         trGiven.bytes = TrPayload(number, Len(trGiven.bytes))
  /\ trGiven.begun => trGiven.size = Len(trGiven.bytes)

-----------------------------------------------------------------------------
(* The inductive invariant behind TlsReadWhole.                            *)
TrBytes == [number : Nat, place : Nat, total : Nat]

TrCalls == [pc : {"idle", "init", "connect", "select", "read", "reset", "lost", "gone"},
            phase : {"head", "mess"}, timeout : {"WAIT", "SOME"},
            at : Nat, left : Nat, length : Int]

TrTypeOK ==
  /\ trLink \in [state : {"down", "up", "closed"}, count : Nat]
  /\ trPeer \in [number : Nat, size : {0} \cup TrPayloads, next : Nat \ {0}]
  /\ trWire \in Seq(Seq(TrBytes)) /\ trHeld \in Seq(TrBytes)
  /\ trConfig \in [connected : BOOLEAN, pointer : Nat, wait : Nat]
  /\ trTerminated \in BOOLEAN
  /\ trCall \in TrCalls
  /\ trBuf \in [1 .. TrMaxPayload -> TrBytes]
  /\ trGiven \in [before : Nat, bytes : Seq(TrBytes), size : Nat,
                  begun : BOOLEAN, slipped : BOOLEAN]
  /\ trSlipped \in BOOLEAN

(* What a call keeps for the next one: nothing outside of a payload, and   *)
(* nothing without the connection it belongs to.                           *)
TrReading == trCall.pc \in {"select", "read"}
TrConfigured ==
  /\ TrReading => trConfig.connected /\ (trCall.phase = "head" => trConfig.pointer = 0)
  /\ TrReading /\ trCall.phase = "head" =>
       trCall.at + trCall.left = 2 /\ (trSlipped \/ trCall.left < 2)
  /\ trCall.pc = "select" => trCall.left > 0
  /\ trCall.pc = "connect" => ~trConfig.connected
  /\ ~trConfig.connected =>
       /\ trLink.state = "down" /\ trHeld = <<>> /\ trWire = <<>>
       /\ trCall.pc # "gone" =>
            \/ trConfig.pointer = 0
            \/ trTerminated /\ trCall.pc \in {"reset", "idle"}
  /\ trConfig.connected /\ trConfig.pointer # 0 => trConfig.wait > 0
  /\ trLink.state # "up" /\ trCall.pc # "gone" => TrWritten

(* The end of the payload stays where the header has put it, though the    *)
(* position moves back; a call that knows the header's length means it.    *)
TrCounts(n) == n \in TrPayloads /\ (trCall.length > 0 => n = trCall.length)
TrCounted ==
  /\ TrReading /\ trCall.phase = "mess" => TrCounts(trCall.at + trCall.left - 1)
  /\ TrReading /\ trCall.phase = "head" /\ trCall.left = 0 => trCall.length \in {0} \cup TrPayloads
  /\ ~TrReading /\ trCall.pc # "idle" /\ trConfig.connected /\ trConfig.pointer # 0 =>
       TrCounts(trConfig.pointer + trConfig.wait - 1)
  /\ trConfig.connected /\ trConfig.pointer # 0 => trConfig.pointer + trConfig.wait - 1 \in TrPayloads

(* Whatever was read, was written before.                                  *)
TrLastNumber == IF trGiven.bytes = <<>> THEN 0 ELSE trGiven.bytes[1].number
TrOld ==
  /\ \A i \in DOMAIN trBuf : trBuf[i].number <= trPeer.number
  /\ TrLastNumber <= trPeer.number

(* A record is a run of bytes of one container, which the peer has begun.  *)
TrRun(s, begun) ==
  \A i \in 1 .. Len(s) :
    /\ s[i] = TrByte(s[1].number, s[1].place + i - 1, s[1].total)
    /\ s[i].place <= s[1].total
    /\ s[1].total \in TrPayloads /\ s[1].number <= begun
TrRuns ==
  /\ TrRun(trHeld, trPeer.number)
  /\ \A i \in 1 .. Len(trWire) : trWire[i] # <<>> /\ TrRun(trWire[i], trPeer.number)

(* The stream of bytes from the place q on: the byte q itself, or after    *)
(* the last one of a container the header of a later one.                  *)
TrComes(q, b) == IF q.place <= q.total THEN b = q ELSE b.place = 0 /\ b.number > q.number
TrAfter(s) == TrByte(s[1].number, s[1].place + Len(s), s[1].total)
TrAtPeer(q) == IF q.place <= q.total THEN q = TrByte(trPeer.number, trPeer.next, trPeer.size)
               ELSE TrWritten /\ q.number <= trPeer.number
TrStream(q) ==
  LET r == IF trHeld = <<>> THEN q ELSE TrAfter(trHeld) IN
  /\ trHeld # <<>> => TrComes(q, trHeld[1])
  /\ trWire # <<>> => TrComes(r, trWire[1][1])
  /\ \A i \in 1 .. Len(trWire) - 1 : TrComes(TrAfter(trWire[i]), trWire[i + 1][1])
  /\ trLink.state = "up" =>
       TrAtPeer(IF trWire = <<>> THEN r ELSE TrAfter(trWire[Len(trWire)]))

(* What the receiver takes the next byte for: a header, or the byte of a   *)
(* payload whose first bytes are in the buffer and whose rest it counts.   *)
TrHeadNext(q) == q.place > q.total /\ q.number >= TrLastNumber
TrInside(q, at, left) ==
  /\ q.place = at /\ at > 0 /\ at + left = q.total + 1 /\ q.total \in TrPayloads
  /\ q.number > TrLastNumber
  /\ \A i \in 1 .. at - 1 : trBuf[i] = TrByte(q.number, i, q.total)
TrExpects(q) ==
  IF TrReading
    THEN IF trCall.phase = "mess" THEN TrInside(q, trCall.at, trCall.left)
         ELSE IF trCall.left = 0 THEN TrInside(q, 1, trCall.length)
         ELSE TrHeadNext(q)
    ELSE IF trConfig.pointer # 0 THEN TrInside(q, trConfig.pointer, trConfig.wait)
         ELSE TrHeadNext(q)

TrInPlace == ~trSlipped => \E q \in TrBytes : q.number <= trPeer.number /\ TrExpects(q) /\ TrStream(q)

TrInv ==
  TrTypeOK /\ TrConfigured /\ TrCounted /\ TrOld /\ TrRuns /\ TrInPlace /\ TlsReadWhole
=============================================================================
