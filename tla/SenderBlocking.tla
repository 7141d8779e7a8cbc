--------------------------- MODULE SenderBlocking ---------------------------
(***************************************************************************)
(* The output interface in its blocking modes (TRAP_WAIT, TRAP_HALFWAIT):  *)
(* TcpipSender and one send_blocking_mode thread for every client.         *)
(***************************************************************************)
EXTENDS TcpipSender

(* accept_clients_thread starts send_blocking_mode for these timeouts only. *)
ASSUME BlockingAssumption == Timeout \in {"WAIT", "HALFWAIT"}

VARIABLES
  tcont,        \* t_cont, the container a client's thread is sending
  rcvd          \* history: the messages sent to a client on its connection

peerVars == <<tcont, rcvd>>
vars == <<senderVars, peerVars>>

TypeOK ==
  /\ SenderTypeOK
  /\ tcont \in [Clients -> Containers \cup {NoContainer}]
  /\ rcvd \in [Clients -> Seq(Nat)]

Init ==
  /\ SenderInit
  /\ tcont = [c \in Clients |-> NoContainer]
  /\ rcvd = [c \in Clients |-> <<>>]

-----------------------------------------------------------------------------
PeerTop(c) ==
  /\ st[c] = "top"
  /\ SetState(c, IF terminated THEN "cleanup" ELSE "poll")
  /\ UNCHANGED <<mbufVars, threadVars, connected, waiting, acc, accClient, cid,
                 ctlVars, historyVars, peerVars>>

(* Nothing to send: keep sleeping unless the interface is terminated.      *)
PeerQuit(c) ==
  /\ st[c] = "poll" /\ ~Ready(c) /\ terminated
  /\ SetState(c, "cleanup")
  /\ UNCHANGED <<mbufVars, threadVars, connected, waiting, acc, accClient, cid,
                 ctlVars, historyVars, peerVars>>

PeerPick(c) ==
  /\ st[c] = "poll" /\ Ready(c) /\ At(cid[c]) # NoContainer
  /\ tcont' = [tcont EXCEPT ![c] = At(cid[c])]
  /\ SetState(c, "send")
  /\ UNCHANGED <<mbufVars, threadVars, connected, waiting, acc, accClient, cid,
                 ctlVars, historyVars, rcvd>>

(* The last byte of the container has been sent.                           *)
PeerSent(c) ==
  /\ st[c] = "send"
  /\ rcvd' = [rcvd EXCEPT ![c] = @ \o cont[tcont[c]].msgs]
  /\ tcont' = [tcont EXCEPT ![c] = NoContainer]
  /\ cid' = [cid EXCEPT ![c] = @ + 1]
  /\ SetState(c, "top")
  /\ UNCHANGED <<mbufVars, threadVars, connected, waiting, acc, accClient,
                 ctlVars, historyVars>>

(* send() failed: the peer is gone.                                        *)
PeerBroken(c) ==
  /\ st[c] = "send"
  /\ tcont' = [tcont EXCEPT ![c] = NoContainer]
  /\ SetState(c, "cleanup")
  /\ UNCHANGED <<mbufVars, threadVars, connected, waiting, acc, accClient, cid,
                 ctlVars, historyVars, rcvd>>

PeerLeave(c) ==
  /\ Disconnect(c)
  /\ rcvd' = [rcvd EXCEPT ![c] = <<>>]
  /\ UNCHANGED tcont

PeerStep(c) ==
  PeerTop(c) \/ PeerQuit(c) \/ PeerPick(c) \/ PeerSent(c) \/ PeerBroken(c) \/ PeerLeave(c)

Next ==
  \/ SharedStep /\ UNCHANGED peerVars
  \/ \E c \in Clients : PeerStep(c)

Spec == Init /\ [][Next]_vars

(***************************************************************************)
(* Every thread keeps being scheduled and gets a mutex it keeps finding    *)
(* free; a client's send() returns (the peer reads or the connection       *)
(* breaks).  Callers, peers that connect and trap_ifcctl owe nothing.      *)
(***************************************************************************)
Fairness ==
  /\ \A t \in Threads : SF_vars(ThreadStep(t) /\ UNCHANGED peerVars)
  /\ \A t \in AutoFlushers : WF_vars(AutoFlushCall(t) /\ UNCHANGED peerVars)
  /\ \A c \in Clients : WF_vars(PeerStep(c))
  /\ WF_vars(AcceptStep /\ UNCHANGED peerVars)
  /\ WF_vars(TerminateStep /\ UNCHANGED peerVars)

FairSpec == Spec /\ Fairness

-----------------------------------------------------------------------------
(* No container changes under a client that is sending it: what the client *)
(* gets is what was published under the id it has reached, although the    *)
(* ring overwrites slots and recycles containers without asking it.        *)
ReadsPublished ==
  \A c \in Clients : st[c] = "send" =>
    cid[c] < head /\ cont[tcont[c]].msgs = log[cid[c] + 1]

(* The header in front of a container a client is sending announces the    *)
(* messages that follow it.                                                *)
WellFramed ==
  \A c \in Clients : st[c] = "send" =>
    cont[tcont[c]].hdr = [seq  |-> cont[tcont[c]].seq,
                          size |-> Len(cont[tcont[c]].msgs)]

(* The same while the interface runs.                                      *)
FramedWhileRunning == ~terminated => WellFramed

(* The cached lowest id never passes a client, so skipping the scan of the *)
(* list on its account is safe.                                            *)
CacheIsLow == \A c \in Listed : lowest <= cid[c]

(* A storing thread that waits for a full ring gets on, unless the clients *)
(* leave it alone.                                                         *)
WaitEnds ==
  \A t \in Threads : pc[t] = "repeat" /\ Listed # {} ~> pc[t] # "repeat" \/ Listed = {}

(* With autoflush, a message in the active container reaches every client  *)
(* that is connected and stays so, whether or not more messages follow.    *)
Delivered ==
  \A c \in Clients : \A m \in 1 .. MaxMsgs :
    (c \in Listed /\ m \in ToSet(cont[active].msgs))
      ~> (m \in ToSet(rcvd[c]) \/ c \notin Listed \/ terminated)

-----------------------------------------------------------------------------
(* The inductive invariant behind ReadsPublished and CacheIsLow.           *)

Serving ==
  /\ acc \in {"lock", "negotiate", "count"} => accClient \in Clients
  /\ waiting = IF acc = "lock" THEN 1 ELSE 0
  /\ \A c \in Clients : st[c] = "send" => tcont[c] \in Containers

(* A blocking client takes no reference, so a container that is replaced   *)
(* in the ring is recycled at once and none is ever deferred.              *)
NeverDeferred ==
  /\ deferred = <<>>
  /\ \A t \in Threads :
       /\ pc[t] \notin {"reclaim", "rewipe"}
       /\ pc[t] = "scan" => scan >= 1
       /\ pc[t] \in {"peek", "unref", "clear", "wipe"} => old \in Containers
  /\ \A k \in Containers :
       \/ cont[k].ref = 1
       \/ cont[k].ref = 0 /\ k = old /\ \E t \in Threads : pc[t] = "clear"

(* A container is in one slot of the ring, or once on the stack of empty   *)
(* ones, or active, or the one being recycled.  The active container is    *)
(* also in the ring from its storing until the next one is taken.          *)
Owned ==
  /\ \A i, j \in RingSlots : slot[i] = slot[j] /\ i # j => slot[i] = NoContainer
  /\ \A i, j \in 1 .. Len(empty) : empty[i] = empty[j] => i = j
  /\ \A i \in 1 .. Len(empty) : empty[i] # active /\ \A j \in RingSlots : slot[j] # empty[i]
  /\ \A t \in Threads : pc[t] = "publish" => At(head) = active
  /\ \A t \in Threads :
       pc[t] \in {"publish", "full", "peek", "unref", "clear", "wipe"} /\ old # NoContainer =>
         /\ old # active
         /\ \A j \in RingSlots : slot[j] # old
         /\ \A i \in 1 .. Len(empty) : empty[i] # old
  /\ \/ \A j \in RingSlots : slot[j] # active
     \/ \E t \in Threads : pc[t] \in {"publish", "full", "peek", "unref", "clear", "wipe",
                                      "get", "scan", "pop"}

(* connected_clients is the length of the list, but for the client just    *)
(* listed; the client being accepted starts at head.                       *)
Counted ==
  /\ connected = Cardinality(Listed) - (IF acc = "count" THEN 1 ELSE 0)
  /\ acc \in {"lock", "negotiate"} => st[accClient] = "off"
  /\ acc = "negotiate" => cid[accClient] = head

(* The ids from tail to head are in the ring, no client is behind tail,    *)
(* and whoever is about to overwrite a full ring has seen every client     *)
(* past tail.                                                              *)
Window ==
  /\ Len(log) = head
  /\ tail <= head /\ head - tail <= BufferCount
  /\ head - tail = BufferCount => \E t \in Threads : pc[t] = "full"
  /\ \A id \in tail .. head - 1 :
       At(id) \in Containers /\ cont[At(id)].msgs = log[id + 1]
  /\ \A t \in Threads :
       (\/ pc[t] \in {"store", "publish"} /\ head - tail >= BufferCount - 1
        \/ pc[t] = "full" /\ head - tail = BufferCount)
         => \A c \in Listed : tail < cid[c]
  /\ \A c \in Listed : tail <= cid[c] /\ cid[c] <= head
  /\ \A c \in Clients : st[c] = "send" => cid[c] < head /\ tcont[c] = At(cid[c])
  /\ lowest <= head /\ CacheIsLow

Inv == TypeOK /\ Mutex /\ Serving /\ NeverDeferred /\ Owned /\ Counted /\ Window

(* What the properties of the shared part need besides.                    *)

(* Where a container is, seen from the container; only termination, which  *)
(* gives up the active one without writing it, loses sight of one.         *)
Handling == {"publish", "full", "peek", "unref", "clear", "wipe"}
Located ==
  ~terminated =>
    /\ \A k \in Containers :
         \/ k = active
         \/ \E j \in RingSlots : slot[j] = k
         \/ \E i \in 1 .. Len(empty) : empty[i] = k
         \/ k = old /\ \E t \in Threads : pc[t] \in Handling
    /\ \A t \in Threads :
         pc[t] \in Handling \cup {"get", "scan", "pop"} => \E j \in RingSlots : slot[j] = active

(* Whatever waits on the stack of empty containers has been wiped.         *)
Clean == \A i \in 1 .. Len(empty) : cont[empty[i]].msgs = <<>>

(* A container that holds messages carries the number of the first one, and *)
(* the active one without messages the number of the next one; all of it   *)
(* with a buffer, when every stored message has been counted.              *)
FirstNumbered(k) == cont[k].msgs # <<>> => cont[k].msgs[1] = cont[k].seq + 1
Numbering ==
  /\ bufferswitch = 1 /\ \A t \in Threads : task[t] # "switch"
  /\ processed = accepted
  /\ FirstNumbered(active)
  /\ cont[active].msgs = <<>> => cont[active].seq = accepted
  /\ Numbered

(* From the writing of its header to its storing in the ring the active    *)
(* container does not change, nor does it while it is in the ring.         *)
Framed(k) == cont[k].hdr = [seq |-> cont[k].seq, size |-> Len(cont[k].msgs)]
Finishing == {"repeat", "yield", "relock", "store", "publish"}
Framing ==
  /\ \A t \in Threads : pc[t] \in Finishing => Framed(active)
  /\ \A id \in tail .. head - 1 : Framed(At(id))

(* The client that has been listed and not yet counted has nothing to      *)
(* read, and so does not leave: connected_clients = 0 says that no other   *)
(* client has anything left to read, too.                                  *)
Draining ==
  /\ terminated <=> term = "done"
  /\ drainFrom <= head
  /\ acc = "count" /\ ~terminated =>
       accClient \in Listed /\ cid[accClient] = head /\ st[accClient] \in {"top", "poll"}
  /\ DrainedFirst

-----------------------------------------------------------------------------
(* The blocking sender implements the reliable broadcast, at most as far   *)
(* ahead of a client as the ring has slots.                                *)
Abstract == INSTANCE Broadcast WITH
  Message <- Nat,
  Window <- BufferCount,
  joined <- Listed,
  pos <- [c \in Clients |-> IF c \in Listed THEN cid[c] ELSE 0]

ImplementsBroadcast == Abstract!Spec
=============================================================================
