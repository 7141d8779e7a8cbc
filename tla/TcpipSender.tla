---------------------------- MODULE TcpipSender ----------------------------
(***************************************************************************)
(* The output interface over TCP and UNIX sockets of libtrap, the part     *)
(* both of its modes share: the ring of containers (trap_mbuf), the        *)
(* threads that store messages and flush, the accepting thread, and        *)
(* termination.  SenderBlocking and SenderNonBlocking add the threads      *)
(* that send the containers to the clients.                                *)
(*                                                                         *)
(* A step is what a thread does between two points at which another        *)
(* thread can see the difference: an atomic operation, a lock, an unlock.  *)
(***************************************************************************)
EXTENDS Integers, FiniteSets, SequencesExt

CONSTANTS
  BufferCount,     \* buffer_count: the slots of the ring
  Capacity,        \* messages that fit in one container (buffer_size)
  MaxClients,      \* max_clients
  Clients,         \* the peers that may connect
  Senders,         \* the threads that call trap_send and trap_send_flush
  AutoFlushers,    \* the autoflush thread, if autoflush is on
  Timeout,         \* the interface's timeout when it was created
  BufferSwitches,  \* the values trap_ifcctl gives to bufferswitch
  MaxMsgs          \* bound: messages the threads store

Threads == Senders \cup AutoFlushers

Modes == {"WAIT", "HALFWAIT", "NOWAIT"}

ASSUME RingAssumption == /\ BufferCount \in Nat \ {0}
                         /\ MaxClients \in Nat \ {0}
                         /\ Capacity \in Nat \ {0}
                         /\ MaxMsgs \in Nat
ASSUME ModeAssumption == Timeout \in Modes /\ BufferSwitches \subseteq {0, 1}
ASSUME ThreadAssumption == /\ Senders \cap AutoFlushers = {}
                           /\ {"free", "accept"} \cap Threads = {}
                           /\ IsFiniteSet(Clients)

(* t_mbuf->containers: active_containers + max_clients + 1 of them.        *)
Containers == 0 .. BufferCount + MaxClients
NoContainer == -1

(* The header bytes of a container whose buffer was only allocated.        *)
NoHeader == [seq |-> -1, size |-> -1]

VARIABLES
  head, tail,   \* to_send.head_, to_send.tail_
  slot,         \* to_send.buff
  cont,         \* the containers: reference counter, numbers and contents
  active,       \* t_mbuf->active
  empty,        \* t_mbuf->empty, a stack
  deferred,     \* t_mbuf->deferred, a stack
  processed,    \* processed_messages
  mtx,          \* who holds ifc_mtx: a thread, "accept" or "free"
  pc, task,     \* where each storing thread is, and why it finishes
  old, scan,    \* old_container and the loop index, live under ifc_mtx
  lowest,       \* lowest_container_id, the cached one
  connected,    \* connected_clients, -1 standing for its wrap below 0
  waiting,      \* clients_waiting_for_connection
  acc, accClient, \* the accepting thread and the client it is serving
  st, cid,      \* each client: its thread and its container_id
  bufferswitch, terminated, term,
  log, accepted, drainFrom

mbufVars   == <<head, tail, slot, cont, active, empty, deferred, processed>>
threadVars == <<mtx, pc, task, old, scan, lowest>>
clientVars == <<connected, waiting, acc, accClient, st, cid>>
ctlVars    == <<bufferswitch, terminated, term, drainFrom>>
(* History: the contents published under each id, and the messages stored. *)
historyVars == <<log, accepted>>
senderVars == <<mbufVars, threadVars, clientVars, ctlVars, historyVars>>

ThreadStates == {"idle", "lock", "finish", "repeat", "yield", "relock",
                 "store", "publish", "full", "peek", "unref", "clear", "wipe",
                 "get", "scan", "reclaim", "rewipe", "pop"}
ClientStates == {"off", "top", "poll", "acquire", "verify", "send", "release", "next",
                 "giveup", "skip", "jump", "cleanup"}

(* The clients on clients_list_head.                                       *)
Listed == {c \in Clients : st[c] # "off"}

Headers == {NoHeader} \cup [seq : Nat, size : Nat]
ContainerType == [ref : 0..255, seq : Nat, idx : Int, msgs : Seq(Nat), hdr : Headers]

SenderTypeOK ==
  /\ head \in Nat /\ tail \in Nat
  /\ slot \in [0 .. BufferCount - 1 -> Containers \cup {NoContainer}]
  /\ cont \in [Containers -> ContainerType]
  /\ active \in Containers
  /\ empty \in Seq(Containers) /\ deferred \in Seq(Containers)
  /\ processed \in Nat
  /\ mtx \in Threads \cup {"accept", "free"}
  /\ pc \in [Threads -> ThreadStates]
  /\ task \in [Threads -> {"send", "switch", "flush"}]
  /\ old \in Containers \cup {NoContainer} /\ scan \in Nat
  /\ lowest \in Nat
  /\ connected \in Int /\ waiting \in Nat
  /\ acc \in {"top", "poll", "lock", "negotiate", "count", "end"}
  /\ accClient \in Clients \cup {"none"}
  /\ st \in [Clients -> ClientStates] /\ cid \in [Clients -> Nat]
  /\ bufferswitch \in {0, 1} /\ terminated \in BOOLEAN
  /\ term \in {"no", "drain", "set", "done"} /\ drainFrom \in Nat
  /\ log \in Seq(Seq(Nat)) /\ accepted \in Nat

-----------------------------------------------------------------------------
(* The definitions named ...Bug are variants a plausible slip would give   *)
(* the definition that follows them; no action uses one.                   *)
WipedBug(k) == [k EXCEPT !.seq = 0, !.idx = 0]                \* keeps the messages

(* t_cont_clear: first the reference counter, with a plain store, then the *)
(* rest; the header bytes stay in the buffer.                              *)
Renewed(k) == [k EXCEPT !.ref = 1]
Wiped(k) == [ref |-> k.ref, seq |-> 0, idx |-> 0, msgs |-> <<>>, hdr |-> k.hdr]

WithHeaderBug(k, id) == [k EXCEPT !.idx = id]                 \* header left as it was

(* t_cont_write_header.                                                    *)
WithHeader(k, id) ==
  [k EXCEPT !.idx = id, !.hdr = [seq |-> k.seq, size |-> Len(k.msgs)]]

(* t_cont_insert of the next message.                                      *)
WithMessage(k) == [k EXCEPT !.msgs = Append(@, accepted + 1)]

HasSpace(k) == Len(k.msgs) < Capacity

(* The counter is a uint8_t: __sync_sub_and_fetch wraps.                   *)
Decremented(k) == [k EXCEPT !.ref = IF @ = 0 THEN 255 ELSE @ - 1]

(* __sync_sub_and_fetch(&idx, 1); -1 stands for its wrap below 0.          *)
Renumbered(k) == [k EXCEPT !.idx = @ - 1]

At(id) == slot[id % BufferCount]                               \* t_rb_at

IsLowestIdBug(m) ==                                           \* the fastest client
  IF Listed = {} THEN m = 0
  ELSE (\E c \in Listed : cid[c] = m) /\ \A c \in Listed : cid[c] <= m

IsCachedIdBug(m) == m = lowest                                \* no new search

(* What find_lowest_container_id returns: 0 when nobody is connected.      *)
IsLowestId(m) ==
  IF Listed = {} THEN m = 0
  ELSE /\ \E c \in Listed : cid[c] = m
       /\ \A c \in Listed : m <= cid[c]

SetState(c, s) == st' = [st EXCEPT ![c] = s]

(* is_next_container_ready                                                 *)
Ready(c) == head # 0 /\ cid[c] < head

EmptyAtFirstBug == [i \in 1 .. BufferCount + MaxClients - 1 |-> i - 1]  \* one too few

(* t_mbuf_init pushes all containers but the one that becomes the active.  *)
EmptyAtFirst == [i \in 1 .. BufferCount + MaxClients |-> i - 1]

SenderInit ==
  /\ head = 0 /\ tail = 0
  /\ slot = [i \in 0 .. BufferCount - 1 |-> NoContainer]
  /\ cont = [k \in Containers |->
               [ref |-> 1, seq |-> 0, idx |-> 0, msgs |-> <<>>, hdr |-> NoHeader]]
  /\ active = BufferCount + MaxClients
  /\ empty = EmptyAtFirst
  /\ deferred = <<>>
  /\ processed = 0
  /\ mtx = "free"
  /\ pc = [t \in Threads |-> "idle"]
  /\ task = [t \in Threads |-> "send"]
  /\ old = NoContainer /\ scan = 0 /\ lowest = 0
  /\ connected = 0 /\ waiting = 0
  /\ acc = "top" /\ accClient = "none"
  /\ st = [c \in Clients |-> "off"] /\ cid = [c \in Clients |-> 0]
  /\ bufferswitch \in BufferSwitches /\ terminated = FALSE
  /\ term = "no" /\ drainFrom = 0
  /\ log = <<>> /\ accepted = 0

Goto(t, where) == pc' = [pc EXCEPT ![t] = where]
Unlock == mtx' = "free"

-----------------------------------------------------------------------------
(* tcpip_sender_send before the lock: a terminated interface refuses, and  *)
(* with TRAP_WAIT the thread sleeps until a client is connected.           *)
SendCall(t) ==
  /\ t \in Senders /\ pc[t] = "idle" /\ accepted < MaxMsgs
  /\ ~terminated
  /\ Timeout = "WAIT" => connected # 0
  /\ Goto(t, "lock") /\ task' = [task EXCEPT ![t] = "send"]
  /\ UNCHANGED <<mbufVars, mtx, old, scan, lowest, clientVars, ctlVars, historyVars>>

(* tcpip_sender_flush before the lock, called by the application.          *)
FlushCall(t) ==
  /\ t \in Senders /\ pc[t] = "idle"
  /\ Goto(t, "lock") /\ task' = [task EXCEPT ![t] = "flush"]
  /\ UNCHANGED <<mbufVars, mtx, old, scan, lowest, clientVars, ctlVars, historyVars>>

(* autoflush_thread: it flushes only while some client is connected.       *)
AutoFlushCall(t) ==
  /\ t \in AutoFlushers /\ pc[t] = "idle"
  /\ ~terminated /\ connected # 0
  /\ Goto(t, "lock") /\ task' = [task EXCEPT ![t] = "flush"]
  /\ UNCHANGED <<mbufVars, mtx, old, scan, lowest, clientVars, ctlVars, historyVars>>

AfterInsertBug(t) ==                                          \* message not counted
  \/ /\ bufferswitch = 0
     /\ Goto(t, "finish") /\ task' = [task EXCEPT ![t] = "switch"]
     /\ mtx' = t /\ UNCHANGED processed
  \/ bufferswitch # 0 /\ Goto(t, "idle") /\ Unlock /\ UNCHANGED <<task, processed>>

(* The end of tcpip_sender_send once a message is in the active container: *)
(* without buffering the container is finished at once.                    *)
AfterInsert(t) ==
  \/ /\ bufferswitch = 0
     /\ Goto(t, "finish") /\ task' = [task EXCEPT ![t] = "switch"]
     /\ mtx' = t /\ UNCHANGED processed
  \/ /\ bufferswitch # 0
     /\ processed' = processed + 1
     /\ Goto(t, "idle") /\ Unlock /\ UNCHANGED task

(* tcpip_sender_send under the lock, the message fits.                     *)
SendStore(t) ==
  /\ pc[t] = "lock" /\ task[t] = "send" /\ mtx = "free"
  /\ HasSpace(cont[active])
  /\ cont' = [cont EXCEPT ![active] = WithMessage(@)]
  /\ accepted' = accepted + 1
  /\ AfterInsert(t)
  /\ UNCHANGED <<head, tail, slot, active, empty, deferred, old, scan, lowest,
                 clientVars, ctlVars, log>>

(* ... and it does not: finish the active container first.                 *)
SendFull(t) ==
  /\ pc[t] = "lock" /\ task[t] = "send" /\ mtx = "free"
  /\ ~HasSpace(cont[active])
  /\ mtx' = t /\ Goto(t, "finish")
  /\ UNCHANGED <<mbufVars, task, old, scan, lowest, clientVars, ctlVars, historyVars>>

FlushLockedBug(t) ==                                          \* only full containers
  /\ pc[t] = "lock" /\ task[t] = "flush" /\ mtx = "free"
  /\ IF HasSpace(cont[active])
       THEN Goto(t, "idle") /\ UNCHANGED mtx
       ELSE Goto(t, "finish") /\ mtx' = t
  /\ UNCHANGED <<mbufVars, task, old, scan, lowest, clientVars, ctlVars, historyVars>>

(* tcpip_sender_flush under the lock: an empty container is left alone.    *)
FlushLocked(t) ==
  /\ pc[t] = "lock" /\ task[t] = "flush" /\ mtx = "free"
  /\ IF cont[active].msgs = <<>>
       THEN Goto(t, "idle") /\ UNCHANGED mtx
       ELSE Goto(t, "finish") /\ mtx' = t
  /\ UNCHANGED <<mbufVars, task, old, scan, lowest, clientVars, ctlVars, historyVars>>

-----------------------------------------------------------------------------
MustWaitBug ==                                                \* one slot too late
  /\ Timeout = "WAIT" \/ (Timeout = "HALFWAIT" /\ connected # 0)
  /\ lowest <= tail
  /\ head - tail >= BufferCount

MustWaitAnyBug ==                                             \* whatever the timeout
  lowest <= tail /\ head - tail >= BufferCount - 1

(* finish_container.                                                       *)
MustWait ==
  /\ Timeout = "WAIT" \/ (Timeout = "HALFWAIT" /\ connected # 0)
  /\ lowest <= tail
  /\ head - tail >= BufferCount - 1

FinishHeader(t) ==
  /\ pc[t] = "finish"
  /\ cont' = [cont EXCEPT ![active] = WithHeader(@, head)]
  /\ Goto(t, IF MustWait THEN "repeat" ELSE "store")
  /\ UNCHANGED <<head, tail, slot, active, empty, deferred, processed, mtx, task,
                 old, scan, lowest, clientVars, ctlVars, historyVars>>

(* One turn of the repeat loop: every client has left the oldest container *)
(* behind, or the interface is terminated (the container is not written),  *)
(* or a client waits to be accepted (let it in), or sleep and look again.  *)
FinishRepeat(t) ==
  /\ pc[t] = "repeat"
  /\ \E m \in 0 .. head :
       /\ IsLowestId(m)
       /\ lowest' = m
       /\ \/ m > tail /\ Goto(t, "store") /\ UNCHANGED mtx
          \/ m <= tail /\ terminated /\ Goto(t, "get") /\ UNCHANGED mtx
          \/ m <= tail /\ ~terminated /\ waiting > 0 /\ Goto(t, "yield") /\ Unlock
          \/ m <= tail /\ ~terminated /\ waiting = 0 /\ UNCHANGED <<pc, mtx>>
  /\ UNCHANGED <<mbufVars, task, old, scan, clientVars, ctlVars, historyVars>>

(* With ifc_mtx released, sleep until no client waits to be accepted.      *)
FinishYield(t) ==
  /\ pc[t] = "yield" /\ waiting = 0
  /\ Goto(t, "relock")
  /\ UNCHANGED <<mbufVars, mtx, task, old, scan, lowest, clientVars, ctlVars, historyVars>>

FinishRelock(t) ==
  /\ pc[t] = "relock" /\ mtx = "free"
  /\ mtx' = t /\ Goto(t, "repeat")
  /\ UNCHANGED <<mbufVars, task, old, scan, lowest, clientVars, ctlVars, historyVars>>

(* t_rb_get_old_write_new: the slot, then head_, then tail_.               *)
RingStore(t) ==
  /\ pc[t] = "store"
  /\ old' = At(head)
  /\ slot' = [slot EXCEPT ![head % BufferCount] = active]
  /\ Goto(t, "publish")
  /\ UNCHANGED <<head, tail, cont, active, empty, deferred, processed, mtx, task,
                 scan, lowest, clientVars, ctlVars, historyVars>>

RingPublish(t) ==
  /\ pc[t] = "publish"
  /\ head' = head + 1
  /\ log' = Append(log, cont[active].msgs)
  /\ Goto(t, "full")
  /\ UNCHANGED <<tail, slot, cont, active, empty, deferred, processed, mtx, task,
                 old, scan, lowest, clientVars, ctlVars, accepted>>

RingAdvanceTail(t) ==
  /\ pc[t] = "full"
  /\ tail' = IF head - tail = BufferCount THEN tail + 1 ELSE tail
  /\ Goto(t, IF old = NoContainer THEN "get" ELSE "peek")
  /\ UNCHANGED <<head, slot, cont, active, empty, deferred, processed, mtx, task,
                 old, scan, lowest, clientVars, ctlVars, historyVars>>

(* What becomes of the container that was replaced.                        *)
OldPeek(t) ==
  /\ pc[t] = "peek"
  /\ Goto(t, IF cont[old].ref = 0 THEN "clear" ELSE "unref")
  /\ UNCHANGED <<mbufVars, mtx, task, old, scan, lowest, clientVars, ctlVars, historyVars>>

OldUnref(t) ==
  /\ pc[t] = "unref"
  /\ LET k == Decremented(cont[old]) IN
       IF k.ref # 0
         THEN /\ cont' = [cont EXCEPT ![old] = k]
              /\ deferred' = Append(deferred, old)
              /\ Goto(t, "get")
         ELSE /\ cont' = [cont EXCEPT ![old] = Renumbered(k)]
              /\ UNCHANGED deferred
              /\ Goto(t, "clear")
  /\ UNCHANGED <<head, tail, slot, active, empty, processed, mtx, task,
                 old, scan, lowest, clientVars, ctlVars, historyVars>>

OldClear(t) ==
  /\ pc[t] = "clear"
  /\ cont' = [cont EXCEPT ![old] = Renewed(@)]
  /\ Goto(t, "wipe")
  /\ UNCHANGED <<head, tail, slot, active, empty, deferred, processed, mtx, task,
                 old, scan, lowest, clientVars, ctlVars, historyVars>>

OldWipe(t) ==
  /\ pc[t] = "wipe"
  /\ cont' = [cont EXCEPT ![old] = Wiped(@)]
  /\ empty' = Append(empty, old)
  /\ Goto(t, "get")
  /\ UNCHANGED <<head, tail, slot, active, deferred, processed, mtx, task,
                 old, scan, lowest, clientVars, ctlVars, historyVars>>

-----------------------------------------------------------------------------
(* t_mbuf_get_empty_container: when the stack of empty containers is       *)
(* empty, every deferred container no client holds any more is recovered.  *)
ScanBegin(t) ==
  /\ pc[t] = "get" /\ empty = <<>>
  /\ scan' = 1 /\ Goto(t, "scan")
  /\ UNCHANGED <<mbufVars, mtx, task, old, lowest, clientVars, ctlVars, historyVars>>

ScanLook(t) ==
  /\ pc[t] = "scan" /\ scan <= Len(deferred)
  /\ IF cont[deferred[scan]].ref = 0
       THEN Goto(t, "reclaim") /\ UNCHANGED scan
       ELSE scan' = scan + 1 /\ UNCHANGED pc
  /\ UNCHANGED <<mbufVars, mtx, task, old, lowest, clientVars, ctlVars, historyVars>>

(* t_stack_swap_and_pop, clear, push, and start again.                     *)
ScanReclaim(t) ==
  /\ pc[t] = "reclaim"
  /\ old' = deferred[scan]
  /\ deferred' = Front([deferred EXCEPT ![scan] = Last(deferred)])
  /\ cont' = [cont EXCEPT ![old'] = Renewed(@)]
  /\ Goto(t, "rewipe")
  /\ UNCHANGED <<head, tail, slot, active, empty, processed, mtx, task, scan, lowest,
                 clientVars, ctlVars, historyVars>>

ScanWipe(t) ==
  /\ pc[t] = "rewipe"
  /\ cont' = [cont EXCEPT ![old] = Wiped(@)]
  /\ empty' = Append(empty, old)
  /\ scan' = 1 /\ Goto(t, "scan")
  /\ UNCHANGED <<head, tail, slot, active, deferred, processed, mtx, task, old, lowest,
                 clientVars, ctlVars, historyVars>>

ScanEnd(t) ==
  /\ pc[t] = "scan" /\ scan > Len(deferred)
  /\ Goto(t, "pop")
  /\ UNCHANGED <<mbufVars, mtx, task, old, scan, lowest, clientVars, ctlVars, historyVars>>

TakeEmptyBug(t) ==                                            \* not taken off the stack
  /\ pc[t] \in {"get", "pop"} /\ empty # <<>>
  /\ active' = Last(empty) /\ empty' = empty
  /\ old' = NoContainer /\ scan' = 0

(* t_stack_pop asserts that the stack is not empty; the program stops at   *)
(* "pop" otherwise.                                                        *)
TakeEmpty(t) ==
  /\ pc[t] \in {"get", "pop"} /\ empty # <<>>
  /\ active' = Last(empty)
  /\ empty' = Front(empty)
  /\ old' = NoContainer /\ scan' = 0      \* locals, dead from here on

(* The rest of the three callers of finish_container, with the new active  *)
(* container numbered.                                                     *)
TakeForSend(t) ==
  /\ TakeEmpty(t) /\ task[t] = "send"
  /\ cont' = [cont EXCEPT ![active'] = WithMessage([@ EXCEPT !.seq = processed])]
  /\ accepted' = accepted + 1
  /\ AfterInsert(t)
  /\ UNCHANGED <<head, tail, slot, deferred, lowest, clientVars, ctlVars, log>>

TakeForSwitch(t) ==
  /\ TakeEmpty(t) /\ task[t] = "switch"
  /\ cont' = [cont EXCEPT ![active'].seq = processed]
  /\ processed' = processed + 1
  /\ Goto(t, "idle") /\ Unlock
  /\ UNCHANGED <<head, tail, slot, deferred, task, lowest, clientVars, ctlVars,
                 historyVars>>

TakeForFlush(t) ==
  /\ TakeEmpty(t) /\ task[t] = "flush"
  /\ cont' = [cont EXCEPT ![active'].seq = processed]
  /\ Goto(t, "idle") /\ Unlock
  /\ UNCHANGED <<head, tail, slot, deferred, processed, task, lowest, clientVars,
                 ctlVars, historyVars>>

-----------------------------------------------------------------------------
(* accept_clients_thread looks at the flag, then waits in poll(): a peer    *)
(* may still be accepted after the interface is terminated.                *)
AcceptTop ==
  /\ acc = "top"
  /\ acc' = IF terminated THEN "end" ELSE "poll"
  /\ UNCHANGED <<mbufVars, threadVars, connected, waiting, accClient, st, cid,
                 ctlVars, historyVars>>

(* A peer has connected to the listening socket and there is room for it   *)
(* (a peer there is no room for is turned away).                           *)
AcceptPeer(c) ==
  /\ acc = "poll"
  /\ st[c] = "off"
  /\ connected >= 0 /\ connected < MaxClients
  /\ waiting' = waiting + 1
  /\ acc' = "lock" /\ accClient' = c
  /\ UNCHANGED <<mbufVars, threadVars, connected, st, cid, ctlVars, historyVars>>

(* A new client starts at the container that is going to be written next.  *)
AcceptLock ==
  /\ acc = "lock" /\ mtx = "free"
  /\ mtx' = "accept"
  /\ waiting' = waiting - 1
  /\ cid' = [cid EXCEPT ![accClient] = head]
  /\ acc' = "negotiate"
  /\ UNCHANGED <<mbufVars, pc, task, old, scan, lowest, connected, accClient, st,
                 ctlVars, historyVars>>

(* output_ifc_negotiation failed: the client is refused.                   *)
AcceptRefuse ==
  /\ acc = "negotiate"
  /\ cid' = [cid EXCEPT ![accClient] = 0]
  /\ acc' = "top" /\ accClient' = "none" /\ Unlock
  /\ UNCHANGED <<mbufVars, pc, task, old, scan, lowest, connected, waiting, st,
                 ctlVars, historyVars>>

(* It is listed and its thread runs before it is counted.                  *)
AcceptList ==
  /\ acc = "negotiate"
  /\ st' = [st EXCEPT ![accClient] = "top"]
  /\ acc' = "count"
  /\ UNCHANGED <<mbufVars, threadVars, connected, waiting, accClient, cid,
                 ctlVars, historyVars>>

AcceptCount ==
  /\ acc = "count"
  /\ connected' = connected + 1
  /\ acc' = "top" /\ accClient' = "none" /\ Unlock
  /\ UNCHANGED <<mbufVars, pc, task, old, scan, lowest, waiting, st, cid,
                 ctlVars, historyVars>>

(* disconnect_client, the last thing a client's thread does.               *)
Disconnect(c) ==
  /\ st[c] = "cleanup"
  /\ st' = [st EXCEPT ![c] = "off"]
  /\ cid' = [cid EXCEPT ![c] = 0]
  /\ connected' = connected - 1
  /\ UNCHANGED <<mbufVars, threadVars, waiting, acc, accClient, ctlVars, historyVars>>

-----------------------------------------------------------------------------
(* tcpip_sender_terminate: wait for the clients, then raise the flag.      *)
TerminateCall ==
  /\ term = "no"
  /\ term' = "drain" /\ drainFrom' = head
  /\ UNCHANGED <<mbufVars, threadVars, clientVars, bufferswitch, terminated, historyVars>>

TerminateDrainedBug ==                                        \* nobody left to drain
  /\ term = "drain" /\ IsLowestId(head)
  /\ term' = "set"
  /\ UNCHANGED <<mbufVars, threadVars, clientVars, bufferswitch, terminated,
                 drainFrom, historyVars>>

TerminateDrained ==
  /\ term = "drain"
  /\ IsLowestId(head) \/ connected = 0
  /\ term' = "set"
  /\ UNCHANGED <<mbufVars, threadVars, clientVars, bufferswitch, terminated,
                 drainFrom, historyVars>>

TerminateSet ==
  /\ term = "set"
  /\ term' = "done" /\ terminated' = TRUE
  /\ UNCHANGED <<mbufVars, threadVars, clientVars, bufferswitch, drainFrom, historyVars>>

(* trap_ifcctl(TRAPCTL_BUFFERSWITCH), under no lock of the interface.      *)
SetBufferSwitch ==
  /\ \E b \in BufferSwitches \ {bufferswitch} : bufferswitch' = b
  /\ UNCHANGED <<mbufVars, threadVars, clientVars, terminated, term, drainFrom,
                 historyVars>>

ThreadStep(t) ==
  \/ SendStore(t) \/ SendFull(t) \/ FlushLocked(t)
  \/ FinishHeader(t) \/ FinishRepeat(t) \/ FinishYield(t) \/ FinishRelock(t)
  \/ RingStore(t) \/ RingPublish(t) \/ RingAdvanceTail(t)
  \/ OldPeek(t) \/ OldUnref(t) \/ OldClear(t) \/ OldWipe(t)
  \/ ScanBegin(t) \/ ScanLook(t) \/ ScanReclaim(t) \/ ScanWipe(t) \/ ScanEnd(t)
  \/ TakeForSend(t) \/ TakeForSwitch(t) \/ TakeForFlush(t)

AcceptStep == AcceptTop \/ AcceptLock \/ AcceptRefuse \/ AcceptList \/ AcceptCount

TerminateStep == TerminateDrained \/ TerminateSet

SharedStep ==
  \/ \E t \in Threads :
       SendCall(t) \/ FlushCall(t) \/ AutoFlushCall(t) \/ ThreadStep(t)
  \/ \E c \in Clients : AcceptPeer(c)
  \/ AcceptStep
  \/ TerminateCall \/ TerminateStep
  \/ SetBufferSwitch

-----------------------------------------------------------------------------
(* The number a published container carries is that of its first message,  *)
(* also when the container before it was given up.                         *)
Numbered ==
  \A id \in tail .. head - 1 :
    cont[At(id)].msgs # <<>> => cont[At(id)].msgs[1] = cont[At(id)].seq + 1

(* Every stored message is published once, in the order of the calls, or   *)
(* still waits in the active container (until termination gives it up).    *)
ActiveIsPublished == \E t \in Threads : pc[t] \in {"full", "peek", "unref", "clear", "wipe",
                                                   "get", "scan", "reclaim", "rewipe", "pop"}
NothingLost ==
  ~terminated =>
    FlattenSeq(log) \o (IF ActiveIsPublished THEN <<>> ELSE cont[active].msgs)
      = [i \in 1 .. accepted |-> i]

(* A container is in one place at a time, and none is lost while the       *)
(* interface runs.                                                         *)
Places(k) ==
  Cardinality({i \in DOMAIN slot : slot[i] = k})
  + Cardinality({i \in DOMAIN empty : empty[i] = k})
  + Cardinality({i \in DOMAIN deferred : deferred[i] = k})
  + (IF active = k /\ ~\E i \in DOMAIN slot : slot[i] = k THEN 1 ELSE 0)
ContainersKept ==
  (\A t \in Threads : pc[t] \notin {"publish", "full", "peek", "unref", "clear", "wipe",
                                    "rewipe"})
    => \A k \in Containers : Places(k) = 1 \/ (terminated /\ Places(k) = 0)

(* The flag is raised only when every client connected has received the    *)
(* containers finished before termination was asked for.                   *)
DrainedFirst ==
  term \in {"set", "done"} =>
    \A c \in Listed : terminated \/ cid[c] >= drainFrom

(* tcpip_sender_terminate returns.                                         *)
TerminateEnds == term = "drain" ~> term = "done"

-----------------------------------------------------------------------------
(* What the inductive invariants of both modes start from.                 *)
RingSlots == 0 .. BufferCount - 1

(* The states of a storing thread in which it holds ifc_mtx.               *)
Holding == {"finish", "repeat", "store", "publish", "full", "peek", "unref",
            "clear", "wipe", "get", "scan", "reclaim", "rewipe", "pop"}

Mutex ==
  /\ \A t \in Threads : pc[t] \in Holding <=> mtx = t
  /\ acc \in {"negotiate", "count"} <=> mtx = "accept"
=============================================================================
