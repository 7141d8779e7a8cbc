-------------------------- MODULE SenderNonBlocking --------------------------
(***************************************************************************)
(* The output interface with any other timeout: TcpipSender and one        *)
(* send_non_blocking_mode thread for every client.  Nobody waits for a     *)
(* client; a client holds a reference to the container it sends, and skips *)
(* to the newest when the ring has moved on without it.                    *)
(***************************************************************************)
EXTENDS TcpipSender

(* accept_clients_thread starts send_non_blocking_mode for these only.     *)
ASSUME NonBlockingAssumption == Timeout = "NOWAIT"

VARIABLES
  tcont,        \* t_cont, the container a client's thread works on
  nextSeq,      \* next_seq_number, -1 before the first container
  skipped,      \* skipped_messages
  sent,         \* history: the containers sent to a client, [id, msgs]
  missed        \* history: a client was too late for a container

peerVars == <<tcont, nextSeq, skipped, sent, missed>>
vars == <<senderVars, peerVars>>

TypeOK ==
  /\ SenderTypeOK
  /\ tcont \in [Clients -> Containers \cup {NoContainer}]
  /\ nextSeq \in [Clients -> Nat \cup {-1}]
  /\ skipped \in [Clients -> Int]
  /\ sent \in [Clients -> Seq([id : Nat, msgs : Seq(Nat)])]
  /\ missed \in BOOLEAN

Init ==
  /\ SenderInit
  /\ tcont = [c \in Clients |-> NoContainer]
  /\ nextSeq = [c \in Clients |-> -1]
  /\ skipped = [c \in Clients |-> 0]
  /\ sent = [c \in Clients |-> <<>>]
  /\ missed = FALSE

-----------------------------------------------------------------------------
(* What every step of a client's thread but Disconnect leaves alone.       *)
OnlyPeer == UNCHANGED <<head, tail, slot, active, empty, deferred, processed, threadVars,
                        connected, waiting, acc, accClient, ctlVars, historyVars>>

Acquired(k) == [k EXCEPT !.ref = (@ + 1) % 256]

PeerTop(c) ==
  /\ st[c] = "top"
  /\ SetState(c, IF terminated THEN "cleanup" ELSE "poll")
  /\ OnlyPeer /\ UNCHANGED <<cont, cid, peerVars>>

(* The flag is not looked at while there is nothing to send.               *)
PeerPick(c) ==
  /\ st[c] = "poll" /\ Ready(c) /\ At(cid[c]) # NoContainer
  /\ tcont' = [tcont EXCEPT ![c] = At(cid[c])]
  /\ SetState(c, "acquire")
  /\ OnlyPeer /\ UNCHANGED <<cont, cid, nextSeq, skipped, sent, missed>>

(* t_cont_acquiere fails on a container nobody holds a reference to.       *)
PeerAcquire(c) ==
  /\ st[c] = "acquire"
  /\ cont' = [cont EXCEPT ![tcont[c]] = Acquired(@)]
  /\ IF cont[tcont[c]].ref < 1
       THEN SetState(c, "giveup") /\ missed' = TRUE
       ELSE SetState(c, "verify") /\ UNCHANGED missed
  /\ OnlyPeer /\ UNCHANGED <<cid, tcont, nextSeq, skipped, sent>>

(* t_cont_clear has set the counter of a deferred container, and its idx   *)
(* is still that of the container it was.                                  *)
Recovering(k) == old = k /\ \E t \in Threads : pc[t] = "rewipe"

PeerVerifyBug(c) ==                                           \* idx not looked at
  /\ st[c] = "verify"
  /\ SetState(c, "send")
  /\ OnlyPeer /\ UNCHANGED <<cont, cid, peerVars>>

(* It may have been recycled since the slot was read.                      *)
PeerVerify(c) ==
  /\ st[c] = "verify"
  /\ SetState(c, IF cont[tcont[c]].idx = cid[c] THEN "send" ELSE "giveup")
  /\ missed' = (missed \/ Recovering(tcont[c]))
  /\ OnlyPeer /\ UNCHANGED <<cont, cid, tcont, nextSeq, skipped, sent>>

PeerGiveUp(c) ==
  /\ st[c] = "giveup"
  /\ cont' = [cont EXCEPT ![tcont[c]] = Decremented(@)]
  /\ tcont' = [tcont EXCEPT ![c] = NoContainer]
  /\ SetState(c, "skip")
  /\ OnlyPeer /\ UNCHANGED <<cid, nextSeq, skipped, sent, missed>>

PeerSkipBug(c) ==                                             \* tries the same id again
  /\ st[c] = "skip"
  /\ SetState(c, "poll")
  /\ OnlyPeer /\ UNCHANGED <<cont, cid, peerVars>>

(* Go on at the head, without another look at the flag.                    *)
PeerSkip(c) ==
  /\ st[c] = "skip"
  /\ cid' = [cid EXCEPT ![c] = head]
  /\ SetState(c, "poll")
  /\ OnlyPeer /\ UNCHANGED <<cont, peerVars>>

TallyBug(c, k) ==                                             \* first message sent, not last
  /\ skipped' = [skipped EXCEPT ![c] =
                   @ + IF nextSeq[c] = -1 THEN 0 ELSE k.seq - nextSeq[c]]
  /\ nextSeq' = [nextSeq EXCEPT ![c] = k.seq]

(* The messages skipped before this container, by its sequence number.     *)
Tally(c, k) ==
  /\ skipped' = [skipped EXCEPT ![c] =
                   @ + IF nextSeq[c] = -1 THEN 0 ELSE k.seq - nextSeq[c]]
  /\ nextSeq' = [nextSeq EXCEPT ![c] = k.seq + Len(k.msgs)]

(* The last byte of the container has been sent.                           *)
PeerSent(c) ==
  /\ st[c] = "send"
  /\ Tally(c, cont[tcont[c]])
  /\ sent' = [sent EXCEPT ![c] = Append(@, [id |-> cid[c], msgs |-> cont[tcont[c]].msgs])]
  /\ SetState(c, "release")
  /\ OnlyPeer /\ UNCHANGED <<cont, cid, tcont, missed>>

(* send() failed.  Once the interface is terminated the reference is kept. *)
PeerBroken(c) ==
  /\ st[c] = "send"
  /\ cont' = IF terminated THEN cont ELSE [cont EXCEPT ![tcont[c]] = Decremented(@)]
  /\ tcont' = [tcont EXCEPT ![c] = NoContainer]
  /\ SetState(c, "cleanup")
  /\ OnlyPeer /\ UNCHANGED <<cid, nextSeq, skipped, sent, missed>>

PeerRelease(c) ==
  /\ st[c] = "release"
  /\ cont' = [cont EXCEPT ![tcont[c]] = Decremented(@)]
  /\ tcont' = [tcont EXCEPT ![c] = NoContainer]
  /\ SetState(c, "next")
  /\ OnlyPeer /\ UNCHANGED <<cid, nextSeq, skipped, sent, missed>>

(* Behind the tail, a client goes on at the head.                          *)
PeerNext(c) ==
  /\ st[c] = "next"
  /\ IF cid[c] < tail
       THEN SetState(c, "jump") /\ UNCHANGED cid
       ELSE SetState(c, "top") /\ cid' = [cid EXCEPT ![c] = @ + 1]
  /\ OnlyPeer /\ UNCHANGED <<cont, peerVars>>

PeerJump(c) ==
  /\ st[c] = "jump"
  /\ cid' = [cid EXCEPT ![c] = head]
  /\ SetState(c, "top")
  /\ OnlyPeer /\ UNCHANGED <<cont, peerVars>>

PeerLeave(c) ==
  /\ Disconnect(c)
  /\ nextSeq' = [nextSeq EXCEPT ![c] = -1]
  /\ skipped' = [skipped EXCEPT ![c] = 0]
  /\ sent' = [sent EXCEPT ![c] = <<>>]
  /\ UNCHANGED <<tcont, missed>>

PeerStep(c) ==
  \/ PeerTop(c) \/ PeerPick(c) \/ PeerAcquire(c) \/ PeerVerify(c)
  \/ PeerGiveUp(c) \/ PeerSkip(c)
  \/ PeerSent(c) \/ PeerBroken(c) \/ PeerRelease(c) \/ PeerNext(c) \/ PeerJump(c)
  \/ PeerLeave(c)

Next ==
  \/ SharedStep /\ UNCHANGED peerVars
  \/ \E c \in Clients : PeerStep(c)

Spec == Init /\ [][Next]_vars

(***************************************************************************)
(* The storing threads, the accepting one and those of the clients are     *)
(* scheduled; a client's send() owes nothing, its peer may never read.     *)
(***************************************************************************)
Fairness ==
  /\ \A t \in Threads : SF_vars(ThreadStep(t) /\ UNCHANGED peerVars)
  /\ WF_vars(AcceptStep /\ UNCHANGED peerVars)
  /\ \A c \in Clients : WF_vars(PeerStep(c) /\ st[c] # "send")

FairSpec == Spec /\ Fairness

-----------------------------------------------------------------------------
(* A container a client has acquired and verified is not changed while the *)
(* client sends it.                                                        *)
Intact(c) == st[c] = "send" => /\ cid[c] < head
                               /\ cont[tcont[c]].msgs = log[cid[c] + 1]
SentIntact == \A c \in Clients : Intact(c)

(* The same in a ring of two slots or more, but for the first id, which a  *)
(* recycled container also carries, and until a client comes too late: its *)
(* t_cont_acquiere fails, or takes a container that is being recovered.    *)
SentIntactUntilMiss == ~missed => \A c \in Clients : cid[c] # 0 => Intact(c)

(* skipped_messages counts the messages between the first and the last     *)
(* message sent that were not sent.                                        *)
SkippedCounted ==
  \A c \in Clients :
    LET msgs == FlattenSeq([i \in DOMAIN sent[c] |-> sent[c][i].msgs]) IN
    ~missed /\ msgs # <<>> /\ sent[c][1].id # 0 =>
      skipped[c] = Last(msgs) - msgs[1] + 1 - Len(msgs)

(* Whatever the clients do, a storing thread finishes what it does, unless *)
(* no container is left.                                                   *)
StoreEnds ==
  \A t \in Threads : pc[t] # "idle" ~> pc[t] = "idle" \/ (pc[t] = "pop" /\ empty = <<>>)

(* A client with a container to send gets past it, unless its peer does    *)
(* not read.                                                               *)
Reads(c) == c \in Listed /\ cid[c] < head /\ st[c] # "send"
Advances ==
  \A c \in Clients : <>[]Reads(c) => []<><<cid'[c] # cid[c]>>_vars

-----------------------------------------------------------------------------
(* The inductive invariant behind SentIntactUntilMiss, in a ring of two    *)
(* slots or more and with clients few enough for an eight-bit counter.     *)

(* Where the thread that holds ifc_mtx is.                                 *)
Stage == IF mtx \in Threads THEN pc[mtx] ELSE "idle"

(* The states of a client's thread in which t_cont is set.                 *)
Serving ==
  \A c \in Clients :
    st[c] \in {"acquire", "verify", "send", "release", "giveup"} => tcont[c] \in Containers

(* finish_container does not wait.                                         *)
NeverWaits == \A t \in Threads : pc[t] \notin {"repeat", "yield", "relock"}

(* Whatever takes old_container or a deferred container has one.           *)
Handling ==
  /\ Stage \in {"peek", "unref", "clear", "wipe", "rewipe"} => old \in Containers
  /\ Stage = "scan" => scan >= 1
  /\ Stage = "reclaim" => scan \in 1 .. Len(deferred)

(* A container is in one slot of the ring, or once on one of the stacks,   *)
(* or active, or the one being replaced or recovered.  The active one is   *)
(* also in the ring from its storing until the next one is taken.          *)
OutOfPlace == {"publish", "full", "peek", "unref", "clear", "wipe", "rewipe"}
Stored == OutOfPlace \cup {"get", "scan", "reclaim", "pop"}
Single ==
  /\ \A i, j \in RingSlots : slot[i] = slot[j] /\ i # j => slot[i] = NoContainer
  /\ \A i, j \in 1 .. Len(empty) : empty[i] = empty[j] => i = j
  /\ \A i, j \in 1 .. Len(deferred) : deferred[i] = deferred[j] => i = j
  /\ \A i \in 1 .. Len(empty) : empty[i] # active /\ \A j \in RingSlots : slot[j] # empty[i]
  /\ \A i \in 1 .. Len(deferred) : deferred[i] # active /\ \A j \in RingSlots : slot[j] # deferred[i]
  /\ \A i \in 1 .. Len(empty) : \A j \in 1 .. Len(deferred) : empty[i] # deferred[j]
  /\ Stage = "publish" => At(head) = active
  /\ Stage \notin Stored => \A j \in RingSlots : slot[j] # active
  /\ Stage \in OutOfPlace /\ old # NoContainer =>
       /\ old # active
       /\ \A j \in RingSlots : slot[j] # old
       /\ \A i \in 1 .. Len(empty) : empty[i] # old
       /\ \A i \in 1 .. Len(deferred) : deferred[i] # old

(* A container keeps the id and the messages it was published with while   *)
(* it is in the ring, just replaced, or deferred; it has left the ring     *)
(* when its slot has been written again.  Any other has the id 0, but for  *)
(* the active one when its header is written.                              *)
Published(k) == /\ cont[k].idx \in 0 .. head - 1
                /\ cont[k].msgs = log[cont[k].idx + 1]
Overtaken(k) == cont[k].idx + BufferCount <= head
Contents ==
  /\ Len(log) = head
  /\ \A i \in RingSlots : slot[i] \in Containers =>
       IF Stage = "publish" /\ i = head % BufferCount
         THEN cont[slot[i]].idx = head
         ELSE /\ Published(slot[i])
              /\ cont[slot[i]].idx % BufferCount = i
              /\ cont[slot[i]].idx + BufferCount >= head
  /\ \A i \in 1 .. Len(deferred) : Published(deferred[i]) /\ Overtaken(deferred[i])
  /\ Stage \in {"publish", "full", "peek", "unref", "rewipe"} /\ old \in Containers =>
       Published(old) /\ Overtaken(old)
  /\ \A i \in 1 .. Len(empty) : cont[empty[i]].idx = 0
  /\ Stage \in {"idle", "finish"} => cont[active].idx = 0
  /\ Stage = "store" => cont[active].idx = head

(* connected_clients is the length of the list, but for the client just    *)
(* listed, and max_clients bounds it.                                      *)
Counted ==
  /\ connected = Cardinality(Listed) - (IF acc = "count" THEN 1 ELSE 0)
  /\ acc \in {"lock", "negotiate", "count"} => accClient \in Clients /\ connected < MaxClients
  /\ acc \in {"lock", "negotiate"} => st[accClient] = "off"
  /\ connected <= MaxClients
  /\ waiting = IF acc = "lock" THEN 1 ELSE 0

(* A container's counter has one for the place it is in, unless deferred   *)
(* or about to be cleared, and one for each client that works on it.  Only *)
(* a client that leaves after termination keeps its reference; each busy   *)
(* client, and the one that may still be accepted, can do so once.         *)
Holders(k) == {c \in Clients : tcont[c] = k /\ st[c] \in {"verify", "send", "release", "giveup"}}
Busy == {c \in Clients : st[c] \notin {"off", "cleanup"}}
MayEnter == IF acc \in {"poll", "lock", "negotiate"} THEN 1 ELSE 0
Own(k) ==
  IF (\E i \in 1 .. Len(deferred) : deferred[i] = k) \/ (Stage = "clear" /\ old = k) THEN 0 ELSE 1
Kept(k) == cont[k].ref - Own(k) - Cardinality(Holders(k))
References ==
  /\ \A k \in Containers :
       /\ Kept(k) >= 0
       /\ ~terminated => Kept(k) = 0
       /\ terminated => Kept(k) + (Cardinality(Busy) + MayEnter) <= MaxClients + 1
  /\ Stage = "clear" => cont[old].ref = 0
  /\ Stage = "reclaim" => cont[deferred[scan]].ref = 0

(* A client that has picked a container finds its own id only in the       *)
(* container it wants: one published again is ahead by the length of the   *)
(* ring at least.                                                          *)
Recycling(k) == Stage \in {"clear", "wipe"} /\ old = k
Findable(k, id) ==
  /\ id < head
  /\ \/ Published(k) /\ cont[k].idx = id /\ ~Recycling(k)
     \/ /\ id + BufferCount <= head
        /\ \/ cont[k].idx = 0
           \/ cont[k].idx >= id + BufferCount
           \/ Recycling(k) /\ cont[k].idx # id
Picked(c) == st[c] \in {"acquire", "verify"} => Findable(tcont[c], cid[c])

(* A client that sends a container, or has just sent it, has the one it    *)
(* wants, and nobody clears it.                                            *)
Unharmed(k, id) ==
  /\ id < head /\ Published(k) /\ cont[k].idx = id
  /\ ~(Stage \in {"clear", "wipe", "rewipe"} /\ old = k)
Whole(c) == st[c] \in {"send", "release"} => Unharmed(tcont[c], cid[c])

Structure == TypeOK /\ Mutex /\ NeverWaits /\ Serving /\ Handling /\ Single /\ Contents /\ Counted
Untouched ==
  ~missed => References /\ \A c \in Clients : cid[c] # 0 => Picked(c) /\ Whole(c)

Inv == Structure /\ Untouched

-----------------------------------------------------------------------------
(* What SkippedCounted rests on besides, while bufferswitch stays on.      *)

(* The sequence number of a container is that of its messages, the active  *)
(* one's goes on where the last left off, and only containers with         *)
(* messages are published.                                                 *)
Consecutive(k) == \A i \in 1 .. Len(cont[k].msgs) : cont[k].msgs[i] = cont[k].seq + i
Numbering ==
  /\ bufferswitch = 1 /\ processed = accepted
  /\ \A t \in Threads : task[t] # "switch"
  /\ \A k \in Containers : Consecutive(k)
  /\ \A i \in 1 .. Len(empty) : cont[empty[i]].msgs = <<>>
  /\ Stage = "idle" => cont[active].seq + Len(cont[active].msgs) = accepted
  /\ Stage \in {"finish", "store", "publish"} => cont[active].msgs # <<>>
  /\ \A i \in 1 .. Len(log) : log[i] # <<>>

(* A client goes forward, never beyond the head.                           *)
Forward ==
  \A c \in Clients :
    /\ cid[c] <= head
    /\ st[c] \in {"acquire", "verify", "send", "release", "next"} => cid[c] < head
    /\ st[c] = "off" => sent[c] = <<>>
    /\ sent[c] = <<>> => nextSeq[c] = -1 /\ skipped[c] = 0
    /\ sent[c] # <<>> => sent[c][1].id <= cid[c]

(* The account of a client from what was sent to it.                       *)
SentMsgs(c) == FlattenSeq([i \in DOMAIN sent[c] |-> sent[c][i].msgs])
Accounted(c) ==
  sent[c] # <<>> /\ sent[c][1].id # 0 =>
    /\ SentMsgs(c) # <<>>
    /\ nextSeq[c] = Last(SentMsgs(c))
    /\ skipped[c] = nextSeq[c] - SentMsgs(c)[1] + 1 - Len(SentMsgs(c))

CountInv == Inv /\ Numbering /\ Forward /\ (~missed => \A c \in Clients : Accounted(c))
=============================================================================
