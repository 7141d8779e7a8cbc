------------------------- MODULE SenderBlockingProofs -------------------------
(***************************************************************************)
(* The inductive invariant of SenderBlocking, layer by layer: types, who   *)
(* holds ifc_mtx, that no container is ever deferred, where the containers *)
(* are, how many clients there are, and the window of published containers *)
(* the clients read; that the specification implements Broadcast; and what *)
(* clients are promised: termination drains them, no container and no      *)
(* message is lost, containers are numbered, and framed.                   *)
(***************************************************************************)
EXTENDS SenderBlocking, SenderLemmas

-----------------------------------------------------------------------------
(* The first state has the types of TypeOK.                                *)
THEOREM TypeInit == Init => TypeOK
  <1> SUFFICES ASSUME Init PROVE TypeOK
    OBVIOUS
  <1>1. SenderTypeOK
    BY SharedInit DEF Init
  <1>2. rcvd \in [Clients -> Seq(Nat)]
    BY EmptySeq DEF Init
  <1>3. tcont \in [Clients -> Containers \cup {NoContainer}]
    BY DEF Init
  <1> QED
    BY <1>1, <1>2, <1>3 DEF TypeOK

(* What every step changes keeps its type.                                 *)
THEOREM TypeStep == TypeOK /\ Serving /\ NeverDeferred /\ [Next]_vars => TypeOK'
  <1> SUFFICES ASSUME TypeOK, Serving, NeverDeferred, [Next]_vars PROVE TypeOK'
    OBVIOUS
  <1>1. ASSUME SharedStep, UNCHANGED peerVars PROVE TypeOK'
    <2>1. SenderTypeOK
      BY DEF TypeOK
    <2>2. acc = "lock" => waiting = 1
      BY DEF Serving
    <2>3. \A t \in Threads : pc[t] \in {"unref", "clear", "wipe", "rewipe"} => old \in Containers
      BY DEF NeverDeferred
    <2>4. \A t \in Threads : pc[t] = "reclaim" => scan \in 1 .. Len(deferred)
      BY DEF NeverDeferred
    <2>5. SenderTypeOK'
      BY <1>1, <2>1, <2>2, <2>3, <2>4, SharedType DEF Serving
    <2> QED
      BY <1>1, <2>5 DEF TypeOK, peerVars
  <1> USE DEF TypeOK, SenderTypeOK, mbufVars, threadVars, clientVars, ctlVars,
              historyVars, senderVars, peerVars, Goto, Unlock
  <1>2. ASSUME NEW c \in Clients, PeerTop(c) PROVE TypeOK'
    BY <1>2 DEF PeerTop, ClientStates, SetState
  <1>3. ASSUME NEW c \in Clients, PeerQuit(c) PROVE TypeOK'
    BY <1>3 DEF PeerQuit, ClientStates, SetState
  <1>4. ASSUME NEW c \in Clients, PeerPick(c) PROVE TypeOK'
    <2>1. cid[c] % BufferCount \in 0 .. BufferCount - 1
      BY RingAssumption
    <2>2. tcont' \in [Clients -> Containers \cup {NoContainer}]
      BY <1>4, <2>1 DEF PeerPick, At
    <2> QED
      BY <1>4, <2>2 DEF PeerPick, ClientStates, SetState
  <1>5. ASSUME NEW c \in Clients, PeerSent(c) PROVE TypeOK'
    <2>1. rcvd' \in [Clients -> Seq(Nat)]
      <3>1. tcont[c] \in Containers
        BY <1>5 DEF PeerSent, Serving
      <3>2. rcvd[c] \o cont[tcont[c]].msgs \in Seq(Nat)
        BY <3>1, ContainerFields, ConcatProperties
      <3> QED
        BY <1>5, <3>2 DEF PeerSent
    <2> QED
      BY <1>5, <2>1 DEF PeerSent, ClientStates, SetState
  <1>6. ASSUME NEW c \in Clients, PeerBroken(c) PROVE TypeOK'
    BY <1>6 DEF PeerBroken, ClientStates, SetState
  <1>7. ASSUME NEW c \in Clients, PeerLeave(c) PROVE TypeOK'
    BY <1>7 DEF PeerLeave, Disconnect, ClientStates, SetState
  <1>8. CASE UNCHANGED vars
    BY <1>8 DEF vars
  <1> QED
    BY <1>1, <1>2, <1>3, <1>4, <1>5, <1>6, <1>7, <1>8 DEF Next, PeerStep

(* ifc_mtx is held by one thread at a time; the clients leave it alone but *)
(* for the moment of their leaving.                                        *)
THEOREM MutexStep == TypeOK /\ Mutex /\ [Next]_vars => Mutex'
  <1> SUFFICES ASSUME TypeOK, Mutex, [Next]_vars PROVE Mutex'
    OBVIOUS
  <1>1. ASSUME SharedStep PROVE Mutex'
    BY <1>1, SharedMutex DEF TypeOK
  <1> USE ThreadAssumption DEF TypeOK, SenderTypeOK
  <1> USE DEF Mutex, Holding, mbufVars, threadVars, clientVars, ctlVars,
              historyVars, senderVars, peerVars, Goto, Unlock
  <1>2. ASSUME NEW c \in Clients, PeerTop(c) PROVE Mutex'
    BY <1>2 DEF PeerTop
  <1>3. ASSUME NEW c \in Clients, PeerQuit(c) PROVE Mutex'
    BY <1>3 DEF PeerQuit
  <1>4. ASSUME NEW c \in Clients, PeerPick(c) PROVE Mutex'
    BY <1>4 DEF PeerPick
  <1>5. ASSUME NEW c \in Clients, PeerSent(c) PROVE Mutex'
    BY <1>5 DEF PeerSent
  <1>6. ASSUME NEW c \in Clients, PeerBroken(c) PROVE Mutex'
    BY <1>6 DEF PeerBroken
  <1>7. ASSUME NEW c \in Clients, PeerLeave(c) PROVE Mutex'
    BY <1>7 DEF PeerLeave, Disconnect
  <1>8. CASE UNCHANGED vars
    BY <1>8 DEF vars
  <1> QED
    BY <1>1, <1>2, <1>3, <1>4, <1>5, <1>6, <1>7, <1>8 DEF Next, PeerStep

(* What the accepting thread and the clients' threads hold is valid.        *)
THEOREM ServingStep == TypeOK /\ Serving /\ [Next]_vars => Serving'
  <1> SUFFICES ASSUME TypeOK, Serving, [Next]_vars PROVE Serving'
    OBVIOUS
  <1> USE DEF TypeOK, SenderTypeOK
  <1> USE DEF Serving, mbufVars, threadVars, clientVars, ctlVars,
              historyVars, senderVars, peerVars, Goto, Unlock
  <1>1. ASSUME NEW t \in Threads, SendCall(t), UNCHANGED peerVars PROVE Serving'
    BY <1>1 DEF SendCall
  <1>2. ASSUME NEW t \in Threads, FlushCall(t), UNCHANGED peerVars PROVE Serving'
    BY <1>2 DEF FlushCall
  <1>3. ASSUME NEW t \in Threads, AutoFlushCall(t), UNCHANGED peerVars PROVE Serving'
    BY <1>3 DEF AutoFlushCall
  <1>4. ASSUME NEW t \in Threads, SendStore(t), UNCHANGED peerVars PROVE Serving'
    BY <1>4 DEF SendStore
  <1>5. ASSUME NEW t \in Threads, SendFull(t), UNCHANGED peerVars PROVE Serving'
    BY <1>5 DEF SendFull
  <1>6. ASSUME NEW t \in Threads, FlushLocked(t), UNCHANGED peerVars PROVE Serving'
    BY <1>6 DEF FlushLocked
  <1>7. ASSUME NEW t \in Threads, FinishHeader(t), UNCHANGED peerVars PROVE Serving'
    BY <1>7 DEF FinishHeader
  <1>8. ASSUME NEW t \in Threads, FinishRepeat(t), UNCHANGED peerVars PROVE Serving'
    BY <1>8 DEF FinishRepeat
  <1>9. ASSUME NEW t \in Threads, FinishYield(t), UNCHANGED peerVars PROVE Serving'
    BY <1>9 DEF FinishYield
  <1>10. ASSUME NEW t \in Threads, FinishRelock(t), UNCHANGED peerVars PROVE Serving'
    BY <1>10 DEF FinishRelock
  <1>11. ASSUME NEW t \in Threads, RingStore(t), UNCHANGED peerVars PROVE Serving'
    BY <1>11 DEF RingStore
  <1>12. ASSUME NEW t \in Threads, RingPublish(t), UNCHANGED peerVars PROVE Serving'
    BY <1>12 DEF RingPublish
  <1>13. ASSUME NEW t \in Threads, RingAdvanceTail(t), UNCHANGED peerVars PROVE Serving'
    BY <1>13 DEF RingAdvanceTail
  <1>14. ASSUME NEW t \in Threads, OldPeek(t), UNCHANGED peerVars PROVE Serving'
    BY <1>14 DEF OldPeek
  <1>15. ASSUME NEW t \in Threads, OldUnref(t), UNCHANGED peerVars PROVE Serving'
    BY <1>15 DEF OldUnref
  <1>16. ASSUME NEW t \in Threads, OldClear(t), UNCHANGED peerVars PROVE Serving'
    BY <1>16 DEF OldClear
  <1>17. ASSUME NEW t \in Threads, OldWipe(t), UNCHANGED peerVars PROVE Serving'
    BY <1>17 DEF OldWipe
  <1>18. ASSUME NEW t \in Threads, ScanBegin(t), UNCHANGED peerVars PROVE Serving'
    BY <1>18 DEF ScanBegin
  <1>19. ASSUME NEW t \in Threads, ScanLook(t), UNCHANGED peerVars PROVE Serving'
    BY <1>19 DEF ScanLook
  <1>20. ASSUME NEW t \in Threads, ScanReclaim(t), UNCHANGED peerVars PROVE Serving'
    BY <1>20 DEF ScanReclaim
  <1>21. ASSUME NEW t \in Threads, ScanWipe(t), UNCHANGED peerVars PROVE Serving'
    BY <1>21 DEF ScanWipe
  <1>22. ASSUME NEW t \in Threads, ScanEnd(t), UNCHANGED peerVars PROVE Serving'
    BY <1>22 DEF ScanEnd
  <1>23. ASSUME NEW t \in Threads, TakeForSend(t), UNCHANGED peerVars PROVE Serving'
    BY <1>23 DEF TakeForSend, TakeEmpty
  <1>24. ASSUME NEW t \in Threads, TakeForSwitch(t), UNCHANGED peerVars PROVE Serving'
    BY <1>24 DEF TakeForSwitch, TakeEmpty
  <1>25. ASSUME NEW t \in Threads, TakeForFlush(t), UNCHANGED peerVars PROVE Serving'
    BY <1>25 DEF TakeForFlush, TakeEmpty
  <1>26. ASSUME NEW c \in Clients, AcceptPeer(c), UNCHANGED peerVars PROVE Serving'
    BY <1>26 DEF AcceptPeer
  <1>27. ASSUME AcceptTop, UNCHANGED peerVars PROVE Serving'
    BY <1>27 DEF AcceptTop
  <1>28. ASSUME AcceptLock, UNCHANGED peerVars PROVE Serving'
    BY <1>28 DEF AcceptLock
  <1>29. ASSUME AcceptRefuse, UNCHANGED peerVars PROVE Serving'
    BY <1>29 DEF AcceptRefuse
  <1>30. ASSUME AcceptList, UNCHANGED peerVars PROVE Serving'
    BY <1>30 DEF AcceptList
  <1>31. ASSUME AcceptCount, UNCHANGED peerVars PROVE Serving'
    BY <1>31 DEF AcceptCount
  <1>32. ASSUME TerminateCall, UNCHANGED peerVars PROVE Serving'
    BY <1>32 DEF TerminateCall
  <1>33. ASSUME TerminateDrained, UNCHANGED peerVars PROVE Serving'
    BY <1>33 DEF TerminateDrained
  <1>34. ASSUME TerminateSet, UNCHANGED peerVars PROVE Serving'
    BY <1>34 DEF TerminateSet
  <1>35. ASSUME SetBufferSwitch, UNCHANGED peerVars PROVE Serving'
    BY <1>35 DEF SetBufferSwitch
  <1>36. ASSUME NEW c \in Clients, PeerTop(c) PROVE Serving'
    BY <1>36 DEF PeerTop, SetState
  <1>37. ASSUME NEW c \in Clients, PeerQuit(c) PROVE Serving'
    BY <1>37 DEF PeerQuit, SetState
  <1>38. ASSUME NEW c \in Clients, PeerPick(c) PROVE Serving'
    <2>1. cid[c] % BufferCount \in 0 .. BufferCount - 1
      BY RingAssumption DEF TypeOK, SenderTypeOK
    <2>2. At(cid[c]) \in Containers
      BY <1>38, <2>1 DEF PeerPick, At, TypeOK, SenderTypeOK
    <2> QED
      BY <1>38, <2>2 DEF PeerPick, SetState, TypeOK, SenderTypeOK
  <1>39. ASSUME NEW c \in Clients, PeerSent(c) PROVE Serving'
    BY <1>39 DEF PeerSent, SetState
  <1>40. ASSUME NEW c \in Clients, PeerBroken(c) PROVE Serving'
    BY <1>40 DEF PeerBroken, SetState
  <1>41. ASSUME NEW c \in Clients, PeerLeave(c) PROVE Serving'
    BY <1>41 DEF PeerLeave, Disconnect
  <1>42. CASE UNCHANGED vars
    BY <1>42 DEF vars
  <1> QED
    BY
    <1>1, <1>2, <1>3, <1>4, <1>5, <1>6, <1>7, <1>8, <1>9, <1>10, <1>11,
    <1>12, <1>13, <1>14, <1>15, <1>16, <1>17, <1>18, <1>19, <1>20, <1>21,
    <1>22, <1>23, <1>24, <1>25, <1>26, <1>27, <1>28, <1>29, <1>30, <1>31,
    <1>32, <1>33, <1>34, <1>35, <1>36, <1>37, <1>38, <1>39, <1>40, <1>41,
    <1>42
    DEF Next, SharedStep, ThreadStep, AcceptStep, TerminateStep, PeerStep

(* Reference counters stay at 1 but for the container being recycled.       *)
THEOREM DeferStep == TypeOK /\ Mutex /\ NeverDeferred /\ [Next]_vars => NeverDeferred'
  <1> SUFFICES ASSUME TypeOK, Mutex, NeverDeferred, [Next]_vars PROVE NeverDeferred'
    OBVIOUS
  <1> USE DEF NeverDeferred, mbufVars, threadVars, clientVars, ctlVars,
              historyVars, senderVars, peerVars, Goto, Unlock
  <1>1. ASSUME NEW t \in Threads, SendCall(t), UNCHANGED peerVars PROVE NeverDeferred'
    BY <1>1 DEF SendCall
  <1>2. ASSUME NEW t \in Threads, FlushCall(t), UNCHANGED peerVars PROVE NeverDeferred'
    BY <1>2 DEF FlushCall
  <1>3. ASSUME NEW t \in Threads, AutoFlushCall(t), UNCHANGED peerVars PROVE NeverDeferred'
    BY <1>3 DEF AutoFlushCall
  <1>4. ASSUME NEW t \in Threads, SendStore(t), UNCHANGED peerVars PROVE NeverDeferred'
    <2>1. \A u \in Threads : pc[u] \notin Holding
      BY <1>4, ThreadAssumption DEF SendStore, Mutex, TypeOK, SenderTypeOK
    <2>2. \A k \in Containers : cont[k].ref = 1
      BY <1>4, <2>1 DEF SendStore, Holding
    <2>3. \A k \in Containers : cont'[k].ref = 1
      BY <1>4, <2>2, WithMessageType DEF SendStore, TypeOK, SenderTypeOK
    <2>4. deferred' = <<>>
      BY <1>4 DEF SendStore
    <2>5. \A u \in Threads :
            /\ pc'[u] \notin {"reclaim", "rewipe"}
            /\ pc'[u] = "scan" => scan' >= 1
            /\ pc'[u] \in {"peek", "unref", "clear", "wipe"} => old' \in Containers
      BY <1>4, <2>1 DEF SendStore, Holding, TypeOK, SenderTypeOK, AfterInsert
    <2> QED
      BY <2>3, <2>4, <2>5
  <1>5. ASSUME NEW t \in Threads, SendFull(t), UNCHANGED peerVars PROVE NeverDeferred'
    BY <1>5 DEF SendFull
  <1>6. ASSUME NEW t \in Threads, FlushLocked(t), UNCHANGED peerVars PROVE NeverDeferred'
    <2>1. \A u \in Threads : pc[u] \notin Holding
      BY <1>6, ThreadAssumption DEF FlushLocked, Mutex, TypeOK, SenderTypeOK
    <2>2. \A k \in Containers : cont[k].ref = 1
      BY <1>6, <2>1 DEF FlushLocked, Holding
    <2>3. \A k \in Containers : cont'[k].ref = 1
      BY <1>6, <2>2 DEF FlushLocked
    <2>4. deferred' = <<>>
      BY <1>6 DEF FlushLocked
    <2>5. \A u \in Threads :
            /\ pc'[u] \notin {"reclaim", "rewipe"}
            /\ pc'[u] = "scan" => scan' >= 1
            /\ pc'[u] \in {"peek", "unref", "clear", "wipe"} => old' \in Containers
      BY <1>6, <2>1 DEF FlushLocked, Holding, TypeOK, SenderTypeOK
    <2> QED
      BY <2>3, <2>4, <2>5
  <1>7. ASSUME NEW t \in Threads, FinishHeader(t), UNCHANGED peerVars PROVE NeverDeferred'
    <2>1. \A u \in Threads : u # t => pc[u] \notin Holding
      BY <1>7 DEF FinishHeader, Mutex, Holding
    <2>2. \A k \in Containers : cont[k].ref = 1
      BY <1>7, <2>1 DEF FinishHeader, Holding
    <2>3. \A k \in Containers : cont'[k].ref = 1
      <3>1. cont' = [cont EXCEPT ![active] = WithHeader(cont[active], head)]
        BY <1>7 DEF FinishHeader
      <3>2. active \in Containers /\ head \in Nat /\ cont[active] \in ContainerType
        BY DEF TypeOK, SenderTypeOK
      <3>3. WithHeader(cont[active], head).ref = cont[active].ref
        BY <3>2, WithHeaderType
      <3>4. WithHeader(cont[active], head).ref = 1
        BY <2>2, <3>2, <3>3
      <3> QED
        BY <2>2, <3>1, <3>4 DEF TypeOK, SenderTypeOK
    <2>4. deferred' = <<>>
      BY <1>7 DEF FinishHeader
    <2>5. \A u \in Threads :
            /\ pc'[u] \notin {"reclaim", "rewipe"}
            /\ pc'[u] = "scan" => scan' >= 1
            /\ pc'[u] \in {"peek", "unref", "clear", "wipe"} => old' \in Containers
      BY <1>7, <2>1 DEF FinishHeader, Holding, TypeOK, SenderTypeOK
    <2> QED
      BY <2>3, <2>4, <2>5
  <1>8. ASSUME NEW t \in Threads, FinishRepeat(t), UNCHANGED peerVars PROVE NeverDeferred'
    <2>1. \A u \in Threads : u # t => pc[u] \notin Holding
      BY <1>8 DEF FinishRepeat, Mutex, Holding
    <2>2. \A k \in Containers : cont[k].ref = 1
      BY <1>8, <2>1 DEF FinishRepeat, Holding
    <2>3. \A k \in Containers : cont'[k].ref = 1
      BY <1>8, <2>2 DEF FinishRepeat
    <2>4. deferred' = <<>>
      BY <1>8 DEF FinishRepeat
    <2>5. \A u \in Threads :
            /\ pc'[u] \notin {"reclaim", "rewipe"}
            /\ pc'[u] = "scan" => scan' >= 1
            /\ pc'[u] \in {"peek", "unref", "clear", "wipe"} => old' \in Containers
      BY <1>8, <2>1 DEF FinishRepeat, Holding, TypeOK, SenderTypeOK
    <2> QED
      BY <2>3, <2>4, <2>5
  <1>9. ASSUME NEW t \in Threads, FinishYield(t), UNCHANGED peerVars PROVE NeverDeferred'
    BY <1>9 DEF FinishYield
  <1>10. ASSUME NEW t \in Threads, FinishRelock(t), UNCHANGED peerVars PROVE NeverDeferred'
    BY <1>10 DEF FinishRelock
  <1>11. ASSUME NEW t \in Threads, RingStore(t), UNCHANGED peerVars PROVE NeverDeferred'
    <2>1. \A u \in Threads : u # t => pc[u] \notin Holding
      BY <1>11 DEF RingStore, Mutex, Holding
    <2>2. \A k \in Containers : cont[k].ref = 1
      BY <1>11, <2>1 DEF RingStore, Holding
    <2>3. \A k \in Containers : cont'[k].ref = 1
      BY <1>11, <2>2 DEF RingStore
    <2>4. deferred' = <<>>
      BY <1>11 DEF RingStore
    <2>5. \A u \in Threads :
            /\ pc'[u] \notin {"reclaim", "rewipe"}
            /\ pc'[u] = "scan" => scan' >= 1
            /\ pc'[u] \in {"peek", "unref", "clear", "wipe"} => old' \in Containers
      BY <1>11, <2>1 DEF RingStore, Holding, TypeOK, SenderTypeOK
    <2> QED
      BY <2>3, <2>4, <2>5
  <1>12. ASSUME NEW t \in Threads, RingPublish(t), UNCHANGED peerVars PROVE NeverDeferred'
    BY <1>12 DEF RingPublish
  <1>13. ASSUME NEW t \in Threads, RingAdvanceTail(t), UNCHANGED peerVars PROVE NeverDeferred'
    <2>1. \A u \in Threads : u # t => pc[u] \notin Holding
      BY <1>13 DEF RingAdvanceTail, Mutex, Holding
    <2>2. \A k \in Containers : cont[k].ref = 1
      BY <1>13, <2>1 DEF RingAdvanceTail, Holding
    <2>3. \A k \in Containers : cont'[k].ref = 1
      BY <1>13, <2>2 DEF RingAdvanceTail
    <2>4. deferred' = <<>>
      BY <1>13 DEF RingAdvanceTail
    <2>5. \A u \in Threads :
            /\ pc'[u] \notin {"reclaim", "rewipe"}
            /\ pc'[u] = "scan" => scan' >= 1
            /\ pc'[u] \in {"peek", "unref", "clear", "wipe"} => old' \in Containers
      BY <1>13, <2>1 DEF RingAdvanceTail, Holding, TypeOK, SenderTypeOK
    <2> QED
      BY <2>3, <2>4, <2>5
  <1>14. ASSUME NEW t \in Threads, OldPeek(t), UNCHANGED peerVars PROVE NeverDeferred'
    BY <1>14 DEF OldPeek
  <1>15. ASSUME NEW t \in Threads, OldUnref(t), UNCHANGED peerVars PROVE NeverDeferred'
    <2>1. \A u \in Threads : u # t => pc[u] \notin Holding
      BY <1>15 DEF OldUnref, Mutex, Holding
    <2>2. \A k \in Containers : cont[k].ref = 1
      BY <1>15, <2>1 DEF OldUnref, Holding
    <2>0. /\ old \in Containers /\ Decremented(cont[old]).ref = 0
          /\ Renumbered(Decremented(cont[old])).ref = 0
      BY <1>15, <2>2, DecrementedType, RenumberedType DEF OldUnref, TypeOK, SenderTypeOK
    <2>3. old \in Containers /\ cont'[old].ref = 0
      BY <1>15, <2>0 DEF OldUnref, TypeOK, SenderTypeOK
    <2>4. \A k \in Containers : k # old => cont'[k].ref = 1
      BY <1>15, <2>2 DEF OldUnref, TypeOK, SenderTypeOK
    <2>5. deferred' = <<>> /\ pc' = [pc EXCEPT ![t] = "clear"] /\ old' = old
      BY <1>15, <2>0 DEF OldUnref
    <2>6. pc'[t] = "clear" /\ \A u \in Threads : pc'[u] = "clear" \/ pc'[u] \notin Holding
      BY <2>1, <2>5 DEF TypeOK, SenderTypeOK
    <2> QED
      BY <2>3, <2>4, <2>5, <2>6 DEF Holding
  <1>16. ASSUME NEW t \in Threads, OldClear(t), UNCHANGED peerVars PROVE NeverDeferred'
    <2>1. \A u \in Threads : u # t => pc[u] \notin Holding
      BY <1>16 DEF OldClear, Mutex, Holding
    <2>3. \A k \in Containers : cont'[k].ref = 1
      <3>1. \A k \in Containers : k # old => cont[k].ref = 1
        OBVIOUS
      <3>2. cont' = [cont EXCEPT ![old] = Renewed(cont[old])]
        BY <1>16 DEF OldClear
      <3>3. Renewed(cont[old]).ref = 1
        BY <1>16, RenewedType DEF OldClear, TypeOK, SenderTypeOK
      <3> QED
        BY <1>16, <3>1, <3>2, <3>3 DEF OldClear, TypeOK, SenderTypeOK
    <2>4. deferred' = <<>>
      BY <1>16 DEF OldClear
    <2>5. \A u \in Threads :
            /\ pc'[u] \notin {"reclaim", "rewipe"}
            /\ pc'[u] = "scan" => scan' >= 1
            /\ pc'[u] \in {"peek", "unref", "clear", "wipe"} => old' \in Containers
      BY <1>16, <2>1 DEF OldClear, Holding, TypeOK, SenderTypeOK
    <2> QED
      BY <2>3, <2>4, <2>5
  <1>17. ASSUME NEW t \in Threads, OldWipe(t), UNCHANGED peerVars PROVE NeverDeferred'
    <2>1. \A u \in Threads : u # t => pc[u] \notin Holding
      BY <1>17 DEF OldWipe, Mutex, Holding
    <2>2. \A k \in Containers : cont[k].ref = 1
      BY <1>17, <2>1 DEF OldWipe, Holding
    <2>3. \A k \in Containers : cont'[k].ref = 1
      <3>1. old \in Containers
        BY <1>17 DEF OldWipe
      <3>2. cont' = [cont EXCEPT ![old] = Wiped(cont[old])]
        BY <1>17 DEF OldWipe
      <3>3. Wiped(cont[old]).ref = 1
        BY <2>2, <3>1, WipedType DEF TypeOK, SenderTypeOK
      <3> QED
        BY <2>2, <3>1, <3>2, <3>3 DEF TypeOK, SenderTypeOK
    <2>4. deferred' = <<>>
      BY <1>17 DEF OldWipe
    <2>5. \A u \in Threads :
            /\ pc'[u] \notin {"reclaim", "rewipe"}
            /\ pc'[u] = "scan" => scan' >= 1
            /\ pc'[u] \in {"peek", "unref", "clear", "wipe"} => old' \in Containers
      BY <1>17, <2>1 DEF OldWipe, Holding, TypeOK, SenderTypeOK
    <2> QED
      BY <2>3, <2>4, <2>5
  <1>18. ASSUME NEW t \in Threads, ScanBegin(t), UNCHANGED peerVars PROVE NeverDeferred'
    BY <1>18 DEF ScanBegin
  <1>19. ASSUME NEW t \in Threads, ScanLook(t), UNCHANGED peerVars PROVE NeverDeferred'
    <2>1. \A u \in Threads : u # t => pc[u] \notin Holding
      BY <1>19 DEF ScanLook, Mutex, Holding
    <2>2. \A k \in Containers : cont[k].ref = 1
      BY <1>19, <2>1 DEF ScanLook, Holding
    <2>3. \A k \in Containers : cont'[k].ref = 1
      BY <1>19, <2>2 DEF ScanLook
    <2>4. deferred' = <<>>
      BY <1>19 DEF ScanLook
    <2>5. \A u \in Threads :
            /\ pc'[u] \notin {"reclaim", "rewipe"}
            /\ pc'[u] = "scan" => scan' >= 1
            /\ pc'[u] \in {"peek", "unref", "clear", "wipe"} => old' \in Containers
      BY <1>19, <2>1 DEF ScanLook, Holding, TypeOK, SenderTypeOK
    <2> QED
      BY <2>3, <2>4, <2>5
  <1>20. ASSUME NEW t \in Threads, ScanReclaim(t), UNCHANGED peerVars PROVE NeverDeferred'
    BY <1>20 DEF ScanReclaim
  <1>21. ASSUME NEW t \in Threads, ScanWipe(t), UNCHANGED peerVars PROVE NeverDeferred'
    BY <1>21 DEF ScanWipe
  <1>22. ASSUME NEW t \in Threads, ScanEnd(t), UNCHANGED peerVars PROVE NeverDeferred'
    BY <1>22 DEF ScanEnd
  <1>23. ASSUME NEW t \in Threads, TakeForSend(t), UNCHANGED peerVars PROVE NeverDeferred'
    <2>1. \A u \in Threads : u # t => pc[u] \notin Holding
      BY <1>23 DEF TakeForSend, TakeEmpty, Mutex, Holding
    <2>2. \A k \in Containers : cont[k].ref = 1
      BY <1>23, <2>1 DEF TakeForSend, TakeEmpty, Holding
    <2>0. active' \in Containers
      BY <1>23, PopType DEF TakeForSend, TakeEmpty, TypeOK, SenderTypeOK
    <2>3. \A k \in Containers : cont'[k].ref = 1
      <3>1. [cont[active'] EXCEPT !.seq = processed] \in ContainerType
        BY <2>0, NumberedType DEF TypeOK, SenderTypeOK
      <3>2. [cont[active'] EXCEPT !.seq = processed].ref = cont[active'].ref
        BY <2>0, NumberedType DEF TypeOK, SenderTypeOK
      <3>3. WithMessage([cont[active'] EXCEPT !.seq = processed]).ref = 1
        BY <2>0, <2>2, <3>1, <3>2, WithMessageType DEF TypeOK, SenderTypeOK
      <3> QED
        BY <1>23, <2>0, <2>2, <3>3 DEF TakeForSend, TakeEmpty, TypeOK, SenderTypeOK
    <2>4. deferred' = <<>>
      BY <1>23 DEF TakeForSend, TakeEmpty
    <2>5. \A u \in Threads :
            /\ pc'[u] \notin {"reclaim", "rewipe"}
            /\ pc'[u] = "scan" => scan' >= 1
            /\ pc'[u] \in {"peek", "unref", "clear", "wipe"} => old' \in Containers
      BY ZenonT(60), <1>23, <2>1 DEF TakeForSend, TakeEmpty, Holding, TypeOK, SenderTypeOK, AfterInsert
    <2> QED
      BY <2>3, <2>4, <2>5
  <1>24. ASSUME NEW t \in Threads, TakeForSwitch(t), UNCHANGED peerVars PROVE NeverDeferred'
    <2>1. \A u \in Threads : u # t => pc[u] \notin Holding
      BY <1>24 DEF TakeForSwitch, TakeEmpty, Mutex, Holding
    <2>2. \A k \in Containers : cont[k].ref = 1
      BY <1>24, <2>1 DEF TakeForSwitch, TakeEmpty, Holding
    <2>0. active' \in Containers
      BY <1>24, PopType DEF TakeForSwitch, TakeEmpty, TypeOK, SenderTypeOK
    <2>3. \A k \in Containers : cont'[k].ref = 1
      BY <1>24, <2>0, <2>2, NumberedType DEF TakeForSwitch, TakeEmpty, TypeOK, SenderTypeOK
    <2>4. deferred' = <<>>
      BY <1>24 DEF TakeForSwitch, TakeEmpty
    <2>5. \A u \in Threads :
            /\ pc'[u] \notin {"reclaim", "rewipe"}
            /\ pc'[u] = "scan" => scan' >= 1
            /\ pc'[u] \in {"peek", "unref", "clear", "wipe"} => old' \in Containers
      BY <1>24, <2>1 DEF TakeForSwitch, TakeEmpty, Holding, TypeOK, SenderTypeOK
    <2> QED
      BY <2>3, <2>4, <2>5
  <1>25. ASSUME NEW t \in Threads, TakeForFlush(t), UNCHANGED peerVars PROVE NeverDeferred'
    <2>1. \A u \in Threads : u # t => pc[u] \notin Holding
      BY <1>25 DEF TakeForFlush, TakeEmpty, Mutex, Holding
    <2>2. \A k \in Containers : cont[k].ref = 1
      BY <1>25, <2>1 DEF TakeForFlush, TakeEmpty, Holding
    <2>0. active' \in Containers
      BY <1>25, PopType DEF TakeForFlush, TakeEmpty, TypeOK, SenderTypeOK
    <2>3. \A k \in Containers : cont'[k].ref = 1
      BY <1>25, <2>0, <2>2, NumberedType DEF TakeForFlush, TakeEmpty, TypeOK, SenderTypeOK
    <2>4. deferred' = <<>>
      BY <1>25 DEF TakeForFlush, TakeEmpty
    <2>5. \A u \in Threads :
            /\ pc'[u] \notin {"reclaim", "rewipe"}
            /\ pc'[u] = "scan" => scan' >= 1
            /\ pc'[u] \in {"peek", "unref", "clear", "wipe"} => old' \in Containers
      BY <1>25, <2>1 DEF TakeForFlush, TakeEmpty, Holding, TypeOK, SenderTypeOK
    <2> QED
      BY <2>3, <2>4, <2>5
  <1>26. ASSUME NEW c \in Clients, AcceptPeer(c), UNCHANGED peerVars PROVE NeverDeferred'
    BY <1>26 DEF AcceptPeer
  <1>27. ASSUME AcceptTop, UNCHANGED peerVars PROVE NeverDeferred'
    BY <1>27 DEF AcceptTop
  <1>28. ASSUME AcceptLock, UNCHANGED peerVars PROVE NeverDeferred'
    BY <1>28 DEF AcceptLock
  <1>29. ASSUME AcceptRefuse, UNCHANGED peerVars PROVE NeverDeferred'
    BY <1>29 DEF AcceptRefuse
  <1>30. ASSUME AcceptList, UNCHANGED peerVars PROVE NeverDeferred'
    BY <1>30 DEF AcceptList
  <1>31. ASSUME AcceptCount, UNCHANGED peerVars PROVE NeverDeferred'
    BY <1>31 DEF AcceptCount
  <1>32. ASSUME TerminateCall, UNCHANGED peerVars PROVE NeverDeferred'
    BY <1>32 DEF TerminateCall
  <1>33. ASSUME TerminateDrained, UNCHANGED peerVars PROVE NeverDeferred'
    BY <1>33 DEF TerminateDrained
  <1>34. ASSUME TerminateSet, UNCHANGED peerVars PROVE NeverDeferred'
    BY <1>34 DEF TerminateSet
  <1>35. ASSUME SetBufferSwitch, UNCHANGED peerVars PROVE NeverDeferred'
    BY <1>35 DEF SetBufferSwitch
  <1>36. ASSUME NEW c \in Clients, PeerTop(c) PROVE NeverDeferred'
    BY <1>36 DEF PeerTop
  <1>37. ASSUME NEW c \in Clients, PeerQuit(c) PROVE NeverDeferred'
    BY <1>37 DEF PeerQuit
  <1>38. ASSUME NEW c \in Clients, PeerPick(c) PROVE NeverDeferred'
    BY <1>38 DEF PeerPick
  <1>39. ASSUME NEW c \in Clients, PeerSent(c) PROVE NeverDeferred'
    BY <1>39 DEF PeerSent
  <1>40. ASSUME NEW c \in Clients, PeerBroken(c) PROVE NeverDeferred'
    BY <1>40 DEF PeerBroken
  <1>41. ASSUME NEW c \in Clients, PeerLeave(c) PROVE NeverDeferred'
    BY <1>41 DEF PeerLeave, Disconnect
  <1>42. CASE UNCHANGED vars
    BY <1>42 DEF vars
  <1> QED
    BY
    <1>1, <1>2, <1>3, <1>4, <1>5, <1>6, <1>7, <1>8, <1>9, <1>10, <1>11,
    <1>12, <1>13, <1>14, <1>15, <1>16, <1>17, <1>18, <1>19, <1>20, <1>21,
    <1>22, <1>23, <1>24, <1>25, <1>26, <1>27, <1>28, <1>29, <1>30, <1>31,
    <1>32, <1>33, <1>34, <1>35, <1>36, <1>37, <1>38, <1>39, <1>40, <1>41,
    <1>42
    DEF Next, SharedStep, ThreadStep, AcceptStep, TerminateStep, PeerStep

-----------------------------------------------------------------------------
(* A container stays in one place.                                          *)
THEOREM OwnedStep == TypeOK /\ Mutex /\ NeverDeferred /\ Owned /\ [Next]_vars => Owned'
  <1> SUFFICES ASSUME TypeOK, Mutex, NeverDeferred, Owned, [Next]_vars PROVE Owned'
    OBVIOUS
  <1> USE DEF Owned, mbufVars, threadVars, clientVars, ctlVars,
              historyVars, senderVars, peerVars, Goto, Unlock
  <1>1. ASSUME NEW t \in Threads, SendCall(t), UNCHANGED peerVars PROVE Owned'
    BY <1>1 DEF SendCall, At, TypeOK, SenderTypeOK
  <1>2. ASSUME NEW t \in Threads, FlushCall(t), UNCHANGED peerVars PROVE Owned'
    BY <1>2 DEF FlushCall, At, TypeOK, SenderTypeOK
  <1>3. ASSUME NEW t \in Threads, AutoFlushCall(t), UNCHANGED peerVars PROVE Owned'
    BY <1>3 DEF AutoFlushCall, At, TypeOK, SenderTypeOK
  <1>4. ASSUME NEW t \in Threads, SendStore(t), UNCHANGED peerVars PROVE Owned'
    <2>1. \A u \in Threads : pc[u] \notin Holding
      BY <1>4, ThreadAssumption DEF SendStore, Mutex, TypeOK, SenderTypeOK
    <2>2. /\ UNCHANGED <<slot, empty, active, old, head>>
          /\ pc'[t] \in {"finish", "idle"} /\ \A u \in Threads : u # t => pc'[u] = pc[u]
      BY <1>4 DEF SendStore, AfterInsert, TypeOK, SenderTypeOK
    <2> QED
      BY <2>1, <2>2 DEF Holding, At
  <1>5. ASSUME NEW t \in Threads, SendFull(t), UNCHANGED peerVars PROVE Owned'
    BY <1>5 DEF SendFull, At, TypeOK, SenderTypeOK
  <1>6. ASSUME NEW t \in Threads, FlushLocked(t), UNCHANGED peerVars PROVE Owned'
    BY ZenonT(60), <1>6 DEF FlushLocked, At, TypeOK, SenderTypeOK
  <1>7. ASSUME NEW t \in Threads, FinishHeader(t), UNCHANGED peerVars PROVE Owned'
    <2>1. \A u \in Threads : u # t => pc[u] \notin Holding
      BY <1>7 DEF FinishHeader, Mutex, Holding
    <2> QED
      BY <1>7, <2>1 DEF FinishHeader, Holding, TypeOK, SenderTypeOK
  <1>8. ASSUME NEW t \in Threads, FinishRepeat(t), UNCHANGED peerVars PROVE Owned'
    <2>1. \A u \in Threads : u # t => pc[u] \notin Holding
      BY <1>8 DEF FinishRepeat, Mutex, Holding
    <2> QED
      BY ZenonT(60), <1>8, <2>1 DEF FinishRepeat, Holding, TypeOK, SenderTypeOK
  <1>9. ASSUME NEW t \in Threads, FinishYield(t), UNCHANGED peerVars PROVE Owned'
    BY <1>9 DEF FinishYield, At, TypeOK, SenderTypeOK
  <1>10. ASSUME NEW t \in Threads, FinishRelock(t), UNCHANGED peerVars PROVE Owned'
    BY <1>10 DEF FinishRelock, At, TypeOK, SenderTypeOK
  <1>11. ASSUME NEW t \in Threads, RingStore(t), UNCHANGED peerVars PROVE Owned'
    <2>1. \A u \in Threads : u # t => pc[u] \notin Holding
      BY <1>11 DEF RingStore, Mutex, Holding
    <2>2. head % BufferCount \in RingSlots
      BY RingAssumption DEF RingSlots, TypeOK, SenderTypeOK
    <2>3. \A j \in RingSlots : slot[j] # active
      BY <1>11, <2>1 DEF RingStore, Holding
    <2>4. /\ slot' = [slot EXCEPT ![head % BufferCount] = active]
          /\ old' = slot[head % BufferCount]
          /\ UNCHANGED <<empty, active, head>>
          /\ pc'[t] = "publish" /\ \A u \in Threads : u # t => pc'[u] = pc[u]
      BY <1>11 DEF RingStore, At, TypeOK, SenderTypeOK
    <2>5. slot \in [RingSlots -> Containers \cup {NoContainer}] /\ active # NoContainer
      BY DEF RingSlots, TypeOK, SenderTypeOK, Containers, NoContainer
    <2>6. \A i, j \in RingSlots : slot'[i] = slot'[j] /\ i # j => slot'[i] = NoContainer
      BY <2>2, <2>3, <2>4, <2>5
    <2>7. \A i \in 1 .. Len(empty) : empty[i] # active /\ \A j \in RingSlots : slot'[j] # empty[i]
      BY <2>2, <2>4, <2>5
    <2>8. old' # NoContainer =>
            /\ old' # active
            /\ \A j \in RingSlots : slot'[j] # old'
            /\ \A i \in 1 .. Len(empty) : empty[i] # old'
      BY <2>2, <2>3, <2>4, <2>5
    <2>9. At(head)' = active
      BY <2>2, <2>4, <2>5 DEF At
    <2> QED
      BY SMTT(60), ZenonT(60), <2>1, <2>4, <2>6, <2>7, <2>8, <2>9 DEF Holding, At
  <1>12. ASSUME NEW t \in Threads, RingPublish(t), UNCHANGED peerVars PROVE Owned'
    <2>1. \A u \in Threads : u # t => pc[u] \notin Holding
      BY <1>12 DEF RingPublish, Mutex, Holding
    <2> QED
      BY <1>12, <2>1 DEF RingPublish, Holding, TypeOK, SenderTypeOK
  <1>13. ASSUME NEW t \in Threads, RingAdvanceTail(t), UNCHANGED peerVars PROVE Owned'
    <2>1. \A u \in Threads : u # t => pc[u] \notin Holding
      BY <1>13 DEF RingAdvanceTail, Mutex, Holding
    <2> QED
      BY <1>13, <2>1 DEF RingAdvanceTail, Holding, TypeOK, SenderTypeOK
  <1>14. ASSUME NEW t \in Threads, OldPeek(t), UNCHANGED peerVars PROVE Owned'
    <2>1. \A u \in Threads : u # t => pc[u] \notin Holding
      BY <1>14 DEF OldPeek, Mutex, Holding
    <2> QED
      BY <1>14, <2>1 DEF OldPeek, Holding, TypeOK, SenderTypeOK
  <1>15. ASSUME NEW t \in Threads, OldUnref(t), UNCHANGED peerVars PROVE Owned'
    <2>1. \A u \in Threads : u # t => pc[u] \notin Holding
      BY <1>15 DEF OldUnref, Mutex, Holding
    <2> QED
      BY SMTT(60), ZenonT(60), <1>15, <2>1 DEF OldUnref, Holding, TypeOK, SenderTypeOK
  <1>16. ASSUME NEW t \in Threads, OldClear(t), UNCHANGED peerVars PROVE Owned'
    <2>1. \A u \in Threads : u # t => pc[u] \notin Holding
      BY <1>16 DEF OldClear, Mutex, Holding
    <2> QED
      BY <1>16, <2>1 DEF OldClear, Holding, TypeOK, SenderTypeOK
  <1>17. ASSUME NEW t \in Threads, OldWipe(t), UNCHANGED peerVars PROVE Owned'
    <2>1. \A u \in Threads : u # t => pc[u] \notin Holding
      BY <1>17 DEF OldWipe, Mutex, Holding
    <2>2. /\ empty' = Append(empty, old) /\ UNCHANGED <<slot, active, old, head>>
          /\ pc'[t] = "get" /\ \A u \in Threads : u # t => pc'[u] = pc[u]
      BY <1>17 DEF OldWipe, TypeOK, SenderTypeOK
    <2>3. old \in Containers /\ old # NoContainer
      BY <1>17 DEF OldWipe, NeverDeferred, Containers, NoContainer
    <2>4. /\ Len(empty') = Len(empty) + 1 /\ empty'[Len(empty) + 1] = old
          /\ \A i \in 1 .. Len(empty) : empty'[i] = empty[i]
      BY <2>2, <2>3, AppendProperties DEF TypeOK, SenderTypeOK
    <2>5. Len(empty) \in Nat
      BY DEF TypeOK, SenderTypeOK
    <2>6. \A i \in 1 .. Len(empty') : i \in 1 .. Len(empty) \/ i = Len(empty) + 1
      BY <2>4, <2>5
    <2>7. /\ old # active
          /\ \A j \in RingSlots : slot[j] # old
          /\ \A i \in 1 .. Len(empty) : empty[i] # old
      BY <1>17, <2>3 DEF OldWipe
    <2>8. \A i, j \in 1 .. Len(empty') : empty'[i] = empty'[j] => i = j
      BY <2>4, <2>6, <2>7
    <2>9. \A i \in 1 .. Len(empty') : empty'[i] # active /\ \A j \in RingSlots : slot[j] # empty'[i]
      BY <2>4, <2>6, <2>7
    <2> QED
      BY <2>1, <2>2, <2>8, <2>9 DEF Holding, At
  <1>18. ASSUME NEW t \in Threads, ScanBegin(t), UNCHANGED peerVars PROVE Owned'
    <2>1. \A u \in Threads : u # t => pc[u] \notin Holding
      BY <1>18 DEF ScanBegin, Mutex, Holding
    <2> QED
      BY <1>18, <2>1 DEF ScanBegin, Holding, TypeOK, SenderTypeOK
  <1>19. ASSUME NEW t \in Threads, ScanLook(t), UNCHANGED peerVars PROVE Owned'
    <2>1. pc[t] = "scan" /\ scan <= Len(deferred)
      BY <1>19 DEF ScanLook
    <2>2. scan >= 1 /\ deferred = <<>>
      BY <2>1 DEF NeverDeferred
    <2> QED
      BY <2>1, <2>2, EmptySeq DEF TypeOK, SenderTypeOK
  <1>20. ASSUME NEW t \in Threads, ScanReclaim(t), UNCHANGED peerVars PROVE Owned'
    BY <1>20 DEF ScanReclaim, NeverDeferred
  <1>21. ASSUME NEW t \in Threads, ScanWipe(t), UNCHANGED peerVars PROVE Owned'
    BY <1>21 DEF ScanWipe, NeverDeferred
  <1>22. ASSUME NEW t \in Threads, ScanEnd(t), UNCHANGED peerVars PROVE Owned'
    <2>1. \A u \in Threads : u # t => pc[u] \notin Holding
      BY <1>22 DEF ScanEnd, Mutex, Holding
    <2> QED
      BY <1>22, <2>1 DEF ScanEnd, Holding, TypeOK, SenderTypeOK
  <1>23. ASSUME NEW t \in Threads, TakeForSend(t), UNCHANGED peerVars PROVE Owned'
    <2>1. \A u \in Threads : u # t => pc[u] \notin Holding
      BY <1>23 DEF TakeForSend, TakeEmpty, Mutex, Holding
    <2>2. /\ active' = Last(empty) /\ empty' = Front(empty) /\ UNCHANGED <<slot, head>>
          /\ empty # <<>>
          /\ pc'[t] \in {"idle", "finish"} /\ \A u \in Threads : u # t => pc'[u] = pc[u]
      BY <1>23 DEF TakeForSend, TakeEmpty, TypeOK, SenderTypeOK, AfterInsert
    <2>3. /\ Len(empty) \in Nat \ {0} /\ Len(empty') = Len(empty) - 1
          /\ active' = empty[Len(empty)]
          /\ \A i \in 1 .. Len(empty) - 1 : empty'[i] = empty[i]
      <3>1. empty \in Seq(Containers)
        BY DEF TypeOK, SenderTypeOK
      <3>2. Len(empty) \in Nat \ {0}
        BY <3>1, <2>2
      <3> QED
        BY <2>2, <3>1, <3>2, PopType
    <2>4. \A i \in 1 .. Len(empty') : i \in 1 .. Len(empty) /\ i # Len(empty) /\ empty'[i] = empty[i]
      BY <2>3
    <2>5. Len(empty) \in 1 .. Len(empty)
      BY <2>3
    <2>6. \A i, j \in 1 .. Len(empty') : empty'[i] = empty'[j] => i = j
      BY <2>4
    <2>7. \A i \in 1 .. Len(empty') : empty'[i] # active' /\ \A j \in RingSlots : slot'[j] # empty'[i]
      BY <2>2, <2>3, <2>4, <2>5
    <2>8. \A j \in RingSlots : slot'[j] # active'
      BY <2>2, <2>3, <2>5
    <2> QED
      BY <2>1, <2>2, <2>6, <2>7, <2>8 DEF Holding, At
  <1>24. ASSUME NEW t \in Threads, TakeForSwitch(t), UNCHANGED peerVars PROVE Owned'
    <2>1. \A u \in Threads : u # t => pc[u] \notin Holding
      BY <1>24 DEF TakeForSwitch, TakeEmpty, Mutex, Holding
    <2>2. /\ active' = Last(empty) /\ empty' = Front(empty) /\ UNCHANGED <<slot, head>>
          /\ empty # <<>>
          /\ pc'[t] \in {"idle", "finish"} /\ \A u \in Threads : u # t => pc'[u] = pc[u]
      BY <1>24 DEF TakeForSwitch, TakeEmpty, TypeOK, SenderTypeOK
    <2>3. /\ Len(empty) \in Nat \ {0} /\ Len(empty') = Len(empty) - 1
          /\ active' = empty[Len(empty)]
          /\ \A i \in 1 .. Len(empty) - 1 : empty'[i] = empty[i]
      <3>1. empty \in Seq(Containers)
        BY DEF TypeOK, SenderTypeOK
      <3>2. Len(empty) \in Nat \ {0}
        BY <3>1, <2>2
      <3> QED
        BY <2>2, <3>1, <3>2, PopType
    <2>4. \A i \in 1 .. Len(empty') : i \in 1 .. Len(empty) /\ i # Len(empty) /\ empty'[i] = empty[i]
      BY <2>3
    <2>5. Len(empty) \in 1 .. Len(empty)
      BY <2>3
    <2>6. \A i, j \in 1 .. Len(empty') : empty'[i] = empty'[j] => i = j
      BY <2>4
    <2>7. \A i \in 1 .. Len(empty') : empty'[i] # active' /\ \A j \in RingSlots : slot'[j] # empty'[i]
      BY <2>2, <2>3, <2>4, <2>5
    <2>8. \A j \in RingSlots : slot'[j] # active'
      BY <2>2, <2>3, <2>5
    <2> QED
      BY <2>1, <2>2, <2>6, <2>7, <2>8 DEF Holding, At
  <1>25. ASSUME NEW t \in Threads, TakeForFlush(t), UNCHANGED peerVars PROVE Owned'
    <2>1. \A u \in Threads : u # t => pc[u] \notin Holding
      BY <1>25 DEF TakeForFlush, TakeEmpty, Mutex, Holding
    <2>2. /\ active' = Last(empty) /\ empty' = Front(empty) /\ UNCHANGED <<slot, head>>
          /\ empty # <<>>
          /\ pc'[t] \in {"idle", "finish"} /\ \A u \in Threads : u # t => pc'[u] = pc[u]
      BY <1>25 DEF TakeForFlush, TakeEmpty, TypeOK, SenderTypeOK
    <2>3. /\ Len(empty) \in Nat \ {0} /\ Len(empty') = Len(empty) - 1
          /\ active' = empty[Len(empty)]
          /\ \A i \in 1 .. Len(empty) - 1 : empty'[i] = empty[i]
      <3>1. empty \in Seq(Containers)
        BY DEF TypeOK, SenderTypeOK
      <3>2. Len(empty) \in Nat \ {0}
        BY <3>1, <2>2
      <3> QED
        BY <2>2, <3>1, <3>2, PopType
    <2>4. \A i \in 1 .. Len(empty') : i \in 1 .. Len(empty) /\ i # Len(empty) /\ empty'[i] = empty[i]
      BY <2>3
    <2>5. Len(empty) \in 1 .. Len(empty)
      BY <2>3
    <2>6. \A i, j \in 1 .. Len(empty') : empty'[i] = empty'[j] => i = j
      BY <2>4
    <2>7. \A i \in 1 .. Len(empty') : empty'[i] # active' /\ \A j \in RingSlots : slot'[j] # empty'[i]
      BY <2>2, <2>3, <2>4, <2>5
    <2>8. \A j \in RingSlots : slot'[j] # active'
      BY <2>2, <2>3, <2>5
    <2> QED
      BY <2>1, <2>2, <2>6, <2>7, <2>8 DEF Holding, At
  <1>26. ASSUME NEW c \in Clients, AcceptPeer(c), UNCHANGED peerVars PROVE Owned'
    BY <1>26 DEF AcceptPeer, At, TypeOK, SenderTypeOK
  <1>27. ASSUME AcceptTop, UNCHANGED peerVars PROVE Owned'
    BY <1>27 DEF AcceptTop, At, TypeOK, SenderTypeOK
  <1>28. ASSUME AcceptLock, UNCHANGED peerVars PROVE Owned'
    BY <1>28 DEF AcceptLock, At, TypeOK, SenderTypeOK
  <1>29. ASSUME AcceptRefuse, UNCHANGED peerVars PROVE Owned'
    BY <1>29 DEF AcceptRefuse, At, TypeOK, SenderTypeOK
  <1>30. ASSUME AcceptList, UNCHANGED peerVars PROVE Owned'
    BY <1>30 DEF AcceptList, At, TypeOK, SenderTypeOK
  <1>31. ASSUME AcceptCount, UNCHANGED peerVars PROVE Owned'
    BY <1>31 DEF AcceptCount, At, TypeOK, SenderTypeOK
  <1>32. ASSUME TerminateCall, UNCHANGED peerVars PROVE Owned'
    BY <1>32 DEF TerminateCall, At, TypeOK, SenderTypeOK
  <1>33. ASSUME TerminateDrained, UNCHANGED peerVars PROVE Owned'
    BY <1>33 DEF TerminateDrained, At, TypeOK, SenderTypeOK
  <1>34. ASSUME TerminateSet, UNCHANGED peerVars PROVE Owned'
    BY <1>34 DEF TerminateSet, At, TypeOK, SenderTypeOK
  <1>35. ASSUME SetBufferSwitch, UNCHANGED peerVars PROVE Owned'
    BY <1>35 DEF SetBufferSwitch, At, TypeOK, SenderTypeOK
  <1>36. ASSUME NEW c \in Clients, PeerTop(c) PROVE Owned'
    BY <1>36 DEF PeerTop, At, TypeOK, SenderTypeOK
  <1>37. ASSUME NEW c \in Clients, PeerQuit(c) PROVE Owned'
    BY <1>37 DEF PeerQuit, At, TypeOK, SenderTypeOK
  <1>38. ASSUME NEW c \in Clients, PeerPick(c) PROVE Owned'
    BY <1>38 DEF PeerPick, At, TypeOK, SenderTypeOK
  <1>39. ASSUME NEW c \in Clients, PeerSent(c) PROVE Owned'
    BY <1>39 DEF PeerSent, At, TypeOK, SenderTypeOK
  <1>40. ASSUME NEW c \in Clients, PeerBroken(c) PROVE Owned'
    BY <1>40 DEF PeerBroken, At, TypeOK, SenderTypeOK
  <1>41. ASSUME NEW c \in Clients, PeerLeave(c) PROVE Owned'
    BY <1>41 DEF PeerLeave, Disconnect, At, TypeOK, SenderTypeOK
  <1>42. CASE UNCHANGED vars
    BY <1>42 DEF vars, At
  <1> QED
    BY
    <1>1, <1>2, <1>3, <1>4, <1>5, <1>6, <1>7, <1>8, <1>9, <1>10, <1>11,
    <1>12, <1>13, <1>14, <1>15, <1>16, <1>17, <1>18, <1>19, <1>20, <1>21,
    <1>22, <1>23, <1>24, <1>25, <1>26, <1>27, <1>28, <1>29, <1>30, <1>31,
    <1>32, <1>33, <1>34, <1>35, <1>36, <1>37, <1>38, <1>39, <1>40, <1>41,
    <1>42
    DEF Next, SharedStep, ThreadStep, AcceptStep, TerminateStep, PeerStep

(* connected_clients counts the list.                                       *)
THEOREM CountedStep == TypeOK /\ Mutex /\ Serving /\ Counted /\ [Next]_vars => Counted'
  <1> SUFFICES ASSUME TypeOK, Mutex, Serving, Counted, [Next]_vars PROVE Counted'
    OBVIOUS
  <1> USE DEF Counted, mbufVars, threadVars, clientVars, ctlVars,
              historyVars, senderVars, peerVars, Goto, Unlock
  <1>1. ASSUME NEW t \in Threads, SendCall(t), UNCHANGED peerVars PROVE Counted'
    BY <1>1 DEF SendCall, Listed
  <1>2. ASSUME NEW t \in Threads, FlushCall(t), UNCHANGED peerVars PROVE Counted'
    BY <1>2 DEF FlushCall, Listed
  <1>3. ASSUME NEW t \in Threads, AutoFlushCall(t), UNCHANGED peerVars PROVE Counted'
    BY <1>3 DEF AutoFlushCall, Listed
  <1>4. ASSUME NEW t \in Threads, SendStore(t), UNCHANGED peerVars PROVE Counted'
    BY <1>4 DEF SendStore, Listed
  <1>5. ASSUME NEW t \in Threads, SendFull(t), UNCHANGED peerVars PROVE Counted'
    BY <1>5 DEF SendFull, Listed
  <1>6. ASSUME NEW t \in Threads, FlushLocked(t), UNCHANGED peerVars PROVE Counted'
    BY <1>6 DEF FlushLocked, Listed
  <1>7. ASSUME NEW t \in Threads, FinishHeader(t), UNCHANGED peerVars PROVE Counted'
    BY <1>7 DEF FinishHeader, Listed
  <1>8. ASSUME NEW t \in Threads, FinishRepeat(t), UNCHANGED peerVars PROVE Counted'
    BY <1>8 DEF FinishRepeat, Listed
  <1>9. ASSUME NEW t \in Threads, FinishYield(t), UNCHANGED peerVars PROVE Counted'
    BY <1>9 DEF FinishYield, Listed
  <1>10. ASSUME NEW t \in Threads, FinishRelock(t), UNCHANGED peerVars PROVE Counted'
    BY <1>10 DEF FinishRelock, Listed
  <1>11. ASSUME NEW t \in Threads, RingStore(t), UNCHANGED peerVars PROVE Counted'
    BY <1>11 DEF RingStore, Listed
  <1>12. ASSUME NEW t \in Threads, RingPublish(t), UNCHANGED peerVars PROVE Counted'
    <2>1. acc # "negotiate"
      BY <1>12, ThreadAssumption DEF RingPublish, Mutex, Holding
    <2>2. Listed' = Listed
      BY <1>12 DEF RingPublish, Listed
    <2> QED
      BY <1>12, <2>1, <2>2 DEF RingPublish
  <1>13. ASSUME NEW t \in Threads, RingAdvanceTail(t), UNCHANGED peerVars PROVE Counted'
    BY <1>13 DEF RingAdvanceTail, Listed
  <1>14. ASSUME NEW t \in Threads, OldPeek(t), UNCHANGED peerVars PROVE Counted'
    BY <1>14 DEF OldPeek, Listed
  <1>15. ASSUME NEW t \in Threads, OldUnref(t), UNCHANGED peerVars PROVE Counted'
    BY <1>15 DEF OldUnref, Listed
  <1>16. ASSUME NEW t \in Threads, OldClear(t), UNCHANGED peerVars PROVE Counted'
    BY <1>16 DEF OldClear, Listed
  <1>17. ASSUME NEW t \in Threads, OldWipe(t), UNCHANGED peerVars PROVE Counted'
    BY <1>17 DEF OldWipe, Listed
  <1>18. ASSUME NEW t \in Threads, ScanBegin(t), UNCHANGED peerVars PROVE Counted'
    BY <1>18 DEF ScanBegin, Listed
  <1>19. ASSUME NEW t \in Threads, ScanLook(t), UNCHANGED peerVars PROVE Counted'
    BY <1>19 DEF ScanLook, Listed
  <1>20. ASSUME NEW t \in Threads, ScanReclaim(t), UNCHANGED peerVars PROVE Counted'
    BY <1>20 DEF ScanReclaim, Listed
  <1>21. ASSUME NEW t \in Threads, ScanWipe(t), UNCHANGED peerVars PROVE Counted'
    BY <1>21 DEF ScanWipe, Listed
  <1>22. ASSUME NEW t \in Threads, ScanEnd(t), UNCHANGED peerVars PROVE Counted'
    BY <1>22 DEF ScanEnd, Listed
  <1>23. ASSUME NEW t \in Threads, TakeForSend(t), UNCHANGED peerVars PROVE Counted'
    BY <1>23 DEF TakeForSend, TakeEmpty, Listed
  <1>24. ASSUME NEW t \in Threads, TakeForSwitch(t), UNCHANGED peerVars PROVE Counted'
    BY <1>24 DEF TakeForSwitch, TakeEmpty, Listed
  <1>25. ASSUME NEW t \in Threads, TakeForFlush(t), UNCHANGED peerVars PROVE Counted'
    BY <1>25 DEF TakeForFlush, TakeEmpty, Listed
  <1>26. ASSUME NEW c \in Clients, AcceptPeer(c), UNCHANGED peerVars PROVE Counted'
    BY <1>26 DEF AcceptPeer, Listed
  <1>27. ASSUME AcceptTop, UNCHANGED peerVars PROVE Counted'
    BY <1>27 DEF AcceptTop, Listed
  <1>28. ASSUME AcceptLock, UNCHANGED peerVars PROVE Counted'
    BY <1>28 DEF AcceptLock, Listed, Serving, TypeOK, SenderTypeOK
  <1>29. ASSUME AcceptRefuse, UNCHANGED peerVars PROVE Counted'
    BY <1>29 DEF AcceptRefuse, Listed
  <1>30. ASSUME AcceptList, UNCHANGED peerVars PROVE Counted'
    <2>1. accClient \in Clients /\ accClient \notin Listed
      BY <1>30 DEF AcceptList, Listed, Serving
    <2>2. Listed' = Listed \cup {accClient}
      BY <1>30, <2>1 DEF AcceptList, Listed, TypeOK, SenderTypeOK
    <2>3. Cardinality(Listed') = Cardinality(Listed) + 1
      BY <2>1, <2>2, ListedFinite, FS_AddElement
    <2> QED
      BY <1>30, <2>3, ListedFinite DEF AcceptList
  <1>31. ASSUME AcceptCount, UNCHANGED peerVars PROVE Counted'
    <2>1. Listed' = Listed
      BY <1>31 DEF AcceptCount, Listed
    <2> QED
      BY <1>31, <2>1, ListedFinite DEF AcceptCount
  <1>32. ASSUME TerminateCall, UNCHANGED peerVars PROVE Counted'
    BY <1>32 DEF TerminateCall, Listed
  <1>33. ASSUME TerminateDrained, UNCHANGED peerVars PROVE Counted'
    BY <1>33 DEF TerminateDrained, Listed
  <1>34. ASSUME TerminateSet, UNCHANGED peerVars PROVE Counted'
    BY <1>34 DEF TerminateSet, Listed
  <1>35. ASSUME SetBufferSwitch, UNCHANGED peerVars PROVE Counted'
    BY <1>35 DEF SetBufferSwitch, Listed
  <1>36. ASSUME NEW c \in Clients, PeerTop(c) PROVE Counted'
    <2>1. Listed' = Listed
      BY <1>36 DEF PeerTop, Listed, SetState, TypeOK, SenderTypeOK
    <2> QED
      BY <1>36, <2>1 DEF PeerTop, SetState, TypeOK, SenderTypeOK
  <1>37. ASSUME NEW c \in Clients, PeerQuit(c) PROVE Counted'
    <2>1. Listed' = Listed
      BY <1>37 DEF PeerQuit, Listed, SetState, TypeOK, SenderTypeOK
    <2> QED
      BY <1>37, <2>1 DEF PeerQuit, SetState, TypeOK, SenderTypeOK
  <1>38. ASSUME NEW c \in Clients, PeerPick(c) PROVE Counted'
    <2>1. Listed' = Listed
      BY <1>38 DEF PeerPick, Listed, SetState, TypeOK, SenderTypeOK
    <2> QED
      BY <1>38, <2>1 DEF PeerPick, SetState, TypeOK, SenderTypeOK
  <1>39. ASSUME NEW c \in Clients, PeerSent(c) PROVE Counted'
    <2>1. Listed' = Listed
      BY <1>39 DEF PeerSent, Listed, SetState, TypeOK, SenderTypeOK
    <2> QED
      BY <1>39, <2>1 DEF PeerSent, SetState, TypeOK, SenderTypeOK
  <1>40. ASSUME NEW c \in Clients, PeerBroken(c) PROVE Counted'
    <2>1. Listed' = Listed
      BY <1>40 DEF PeerBroken, Listed, SetState, TypeOK, SenderTypeOK
    <2> QED
      BY <1>40, <2>1 DEF PeerBroken, SetState, TypeOK, SenderTypeOK
  <1>41. ASSUME NEW c \in Clients, PeerLeave(c) PROVE Counted'
    <2>1. Listed' = Listed \ {c} /\ c \in Listed
      BY <1>41 DEF PeerLeave, Disconnect, Listed, TypeOK, SenderTypeOK
    <2>2. Cardinality(Listed') = Cardinality(Listed) - 1
      BY <2>1, ListedFinite, FS_RemoveElement
    <2>3. acc \in {"lock", "negotiate"} => accClient # c
      BY <1>41 DEF PeerLeave, Disconnect
    <2> QED
      BY <1>41, <2>2, <2>3, ListedFinite DEF PeerLeave, Disconnect, Serving, TypeOK,
         SenderTypeOK
  <1>42. CASE UNCHANGED vars
    BY <1>42 DEF vars, Listed
  <1> QED
    BY
    <1>1, <1>2, <1>3, <1>4, <1>5, <1>6, <1>7, <1>8, <1>9, <1>10, <1>11,
    <1>12, <1>13, <1>14, <1>15, <1>16, <1>17, <1>18, <1>19, <1>20, <1>21,
    <1>22, <1>23, <1>24, <1>25, <1>26, <1>27, <1>28, <1>29, <1>30, <1>31,
    <1>32, <1>33, <1>34, <1>35, <1>36, <1>37, <1>38, <1>39, <1>40, <1>41,
    <1>42
    DEF Next, SharedStep, ThreadStep, AcceptStep, TerminateStep, PeerStep

-----------------------------------------------------------------------------
(* What the window says of the ring, slot by slot.                         *)
LEMMA InRing ==
  ASSUME TypeOK, Window
  PROVE  \A id \in tail .. head - 1 :
           id % BufferCount \in RingSlots /\ At(id) = slot[id % BufferCount] /\ At(id) \in Containers
  BY SlotOf DEF At, Window, TypeOK, SenderTypeOK

(* Nothing a client has still to read is overwritten or recycled.           *)
THEOREM WindowStep ==
  TypeOK /\ Mutex /\ Serving /\ NeverDeferred /\ Owned /\ Counted /\ Window /\ [Next]_vars
    => Window'
  <1> SUFFICES ASSUME TypeOK, Mutex, Serving, NeverDeferred, Owned, Counted, Window,
                      [Next]_vars
               PROVE  Window'
    OBVIOUS
  <1> USE DEF mbufVars, threadVars, clientVars, ctlVars,
              historyVars, senderVars, peerVars, Goto, Unlock
  <1>1. ASSUME NEW t \in Threads, SendCall(t), UNCHANGED peerVars PROVE Window'
    <2>1. /\ UNCHANGED <<head, tail, slot, cont, log, st, cid, tcont, lowest>>
          /\ pc[t] \notin {"store", "publish", "full"} /\ pc'[t] \notin {"store", "publish", "full"}
          /\ \A u \in Threads : u # t => pc'[u] = pc[u]
      BY <1>1 DEF SendCall, TypeOK, SenderTypeOK
    <2> QED
      BY <2>1 DEF Window, CacheIsLow, Listed, At
  <1>2. ASSUME NEW t \in Threads, FlushCall(t), UNCHANGED peerVars PROVE Window'
    <2>1. /\ UNCHANGED <<head, tail, slot, cont, log, st, cid, tcont, lowest>>
          /\ pc[t] \notin {"store", "publish", "full"} /\ pc'[t] \notin {"store", "publish", "full"}
          /\ \A u \in Threads : u # t => pc'[u] = pc[u]
      BY <1>2 DEF FlushCall, TypeOK, SenderTypeOK
    <2> QED
      BY <2>1 DEF Window, CacheIsLow, Listed, At
  <1>3. ASSUME NEW t \in Threads, AutoFlushCall(t), UNCHANGED peerVars PROVE Window'
    <2>1. /\ UNCHANGED <<head, tail, slot, cont, log, st, cid, tcont, lowest>>
          /\ pc[t] \notin {"store", "publish", "full"} /\ pc'[t] \notin {"store", "publish", "full"}
          /\ \A u \in Threads : u # t => pc'[u] = pc[u]
      BY <1>3 DEF AutoFlushCall, TypeOK, SenderTypeOK
    <2> QED
      BY <2>1 DEF Window, CacheIsLow, Listed, At
  <1>4. ASSUME NEW t \in Threads, SendStore(t), UNCHANGED peerVars PROVE Window'
    <2>1. \A u \in Threads : pc[u] \notin Holding
      BY <1>4, ThreadAssumption DEF SendStore, Mutex, TypeOK, SenderTypeOK
    <2>2. /\ UNCHANGED <<head, tail, slot, log, lowest, st, cid, tcont>>
          /\ pc'[t] \in {"finish", "idle"} /\ \A u \in Threads : u # t => pc'[u] = pc[u]
          /\ pc[t] \notin {"store", "publish", "full"}
      BY <1>4 DEF SendStore, TypeOK, SenderTypeOK, AfterInsert
    <2>3. \A id \in tail .. head - 1 : cont'[At(id)].msgs = cont[At(id)].msgs
      <3>1. \A id \in tail .. head - 1 : At(id) \in Containers /\ At(id) # active
        BY <2>1, InRing DEF Owned, Holding
      <3>2. cont' = [cont EXCEPT ![active] = WithMessage(cont[active])]
        BY <1>4 DEF SendStore
      <3> QED
        BY <3>1, <3>2 DEF TypeOK, SenderTypeOK
    <2>4. \A id \in tail .. head - 1 :
            At(id) \in Containers /\ cont'[At(id)].msgs = log[id + 1]
      BY <2>3 DEF Window, TypeOK, SenderTypeOK
    <2> QED
      BY <2>1, <2>2, <2>4 DEF Window, CacheIsLow, Listed, At, Holding
  <1>5. ASSUME NEW t \in Threads, SendFull(t), UNCHANGED peerVars PROVE Window'
    <2>1. /\ UNCHANGED <<head, tail, slot, cont, log, st, cid, tcont, lowest>>
          /\ pc[t] \notin {"store", "publish", "full"} /\ pc'[t] \notin {"store", "publish", "full"}
          /\ \A u \in Threads : u # t => pc'[u] = pc[u]
      BY <1>5 DEF SendFull, TypeOK, SenderTypeOK
    <2> QED
      BY <2>1 DEF Window, CacheIsLow, Listed, At
  <1>6. ASSUME NEW t \in Threads, FlushLocked(t), UNCHANGED peerVars PROVE Window'
    <2>1. /\ UNCHANGED <<head, tail, slot, cont, log, st, cid, tcont, lowest>>
          /\ pc[t] \notin {"store", "publish", "full"} /\ pc'[t] \notin {"store", "publish", "full"}
          /\ \A u \in Threads : u # t => pc'[u] = pc[u]
      BY <1>6 DEF FlushLocked, TypeOK, SenderTypeOK
    <2> QED
      BY <2>1 DEF Window, CacheIsLow, Listed, At
  <1>7. ASSUME NEW t \in Threads, FinishHeader(t), UNCHANGED peerVars PROVE Window'
    <2>1. \A u \in Threads : u # t => pc[u] \notin Holding
      BY <1>7 DEF FinishHeader, Mutex, Holding
    <2>2. /\ UNCHANGED <<head, tail, slot, log, lowest, st, cid, tcont>>
          /\ pc[t] = "finish" /\ pc'[t] = (IF MustWait THEN "repeat" ELSE "store")
          /\ \A u \in Threads : u # t => pc'[u] = pc[u]
      BY <1>7 DEF FinishHeader, TypeOK, SenderTypeOK
    <2>3. \A id \in tail .. head - 1 : cont'[At(id)].msgs = cont[At(id)].msgs
      <3>1. cont' = [cont EXCEPT ![active] = WithHeader(cont[active], head)]
        BY <1>7 DEF FinishHeader
      <3>2. WithHeader(cont[active], head).msgs = cont[active].msgs
        BY WithHeaderType DEF TypeOK, SenderTypeOK
      <3>3. \A k \in Containers : cont'[k].msgs = cont[k].msgs
        BY <3>1, <3>2 DEF TypeOK, SenderTypeOK
      <3> QED
        BY <3>3 DEF Window
    <2>4. \A id \in tail .. head - 1 :
            At(id) \in Containers /\ cont'[At(id)].msgs = log[id + 1]
      BY <2>3 DEF Window
    <2>5. ~MustWait /\ head - tail >= BufferCount - 1 => \A c \in Listed : tail < cid[c]
      <3> SUFFICES ASSUME ~MustWait, head - tail >= BufferCount - 1
                   PROVE  \A c \in Listed : tail < cid[c]
        OBVIOUS
      <3>1. acc # "count"
        BY <2>2, ThreadAssumption DEF Mutex, Holding
      <3>2. CASE Timeout # "WAIT" /\ ~(Timeout = "HALFWAIT" /\ connected # 0)
        <4>1. Cardinality(Listed) = 0
          BY <3>1, <3>2, BlockingAssumption, ListedFinite DEF Counted
        <4> QED
          BY <4>1, ListedFinite, FS_EmptySet
      <3>3. CASE ~(lowest <= tail)
        BY <3>3 DEF Window, CacheIsLow, Listed, TypeOK, SenderTypeOK
      <3> QED
        BY <3>2, <3>3 DEF MustWait
    <2> QED
      BY <2>1, <2>2, <2>4, <2>5 DEF Window, CacheIsLow, Listed, At, Holding
  <1>8. ASSUME NEW t \in Threads, FinishRepeat(t), UNCHANGED peerVars PROVE Window'
    <2>1. \A u \in Threads : u # t => pc[u] \notin Holding
      BY <1>8 DEF FinishRepeat, Mutex, Holding
    <2>2. /\ UNCHANGED <<head, tail, slot, cont, log, st, cid, tcont>>
          /\ pc[t] = "repeat" /\ \A u \in Threads : u # t => pc'[u] = pc[u]
      BY <1>8 DEF FinishRepeat, TypeOK, SenderTypeOK
    <2>3. lowest' \in 0 .. head /\ IsLowestId(lowest')
      BY <1>8 DEF FinishRepeat
    <2>4. \A c \in Listed : lowest' <= cid[c]
      BY <2>3 DEF IsLowestId
    <2>5. \/ pc'[t] \in {"get", "yield", "repeat"}
          \/ pc'[t] = "store" /\ tail < lowest'
      BY <1>8 DEF FinishRepeat, TypeOK, SenderTypeOK
    <2>6. pc'[t] = "store" => \A c \in Listed : tail < cid[c]
      BY <2>3, <2>4, <2>5 DEF Listed, TypeOK, SenderTypeOK
    <2> QED
      BY <2>1, <2>2, <2>3, <2>4, <2>5, <2>6 DEF Window, CacheIsLow, Listed, At, Holding
  <1>9. ASSUME NEW t \in Threads, FinishYield(t), UNCHANGED peerVars PROVE Window'
    <2>1. /\ UNCHANGED <<head, tail, slot, cont, log, st, cid, tcont, lowest>>
          /\ pc[t] \notin {"store", "publish", "full"} /\ pc'[t] \notin {"store", "publish", "full"}
          /\ \A u \in Threads : u # t => pc'[u] = pc[u]
      BY <1>9 DEF FinishYield, TypeOK, SenderTypeOK
    <2> QED
      BY <2>1 DEF Window, CacheIsLow, Listed, At
  <1>10. ASSUME NEW t \in Threads, FinishRelock(t), UNCHANGED peerVars PROVE Window'
    <2>1. /\ UNCHANGED <<head, tail, slot, cont, log, st, cid, tcont, lowest>>
          /\ pc[t] \notin {"store", "publish", "full"} /\ pc'[t] \notin {"store", "publish", "full"}
          /\ \A u \in Threads : u # t => pc'[u] = pc[u]
      BY <1>10 DEF FinishRelock, TypeOK, SenderTypeOK
    <2> QED
      BY <2>1 DEF Window, CacheIsLow, Listed, At
  <1>11. ASSUME NEW t \in Threads, RingStore(t), UNCHANGED peerVars PROVE Window'
    <2>1. \A u \in Threads : u # t => pc[u] \notin Holding
      BY <1>11 DEF RingStore, Mutex, Holding
    <2>2. /\ UNCHANGED <<head, tail, cont, log, st, cid, tcont, lowest>>
          /\ slot' = [slot EXCEPT ![head % BufferCount] = active]
          /\ pc[t] = "store" /\ pc'[t] = "publish"
          /\ \A u \in Threads : u # t => pc'[u] = pc[u]
      BY <1>11 DEF RingStore, TypeOK, SenderTypeOK
    <2>3. head - tail < BufferCount
      BY <2>1, <2>2, RingAssumption DEF Window, Holding, TypeOK, SenderTypeOK
    <2>4. \A id \in tail .. head - 1 : At(id)' = At(id)
      <3> SUFFICES ASSUME NEW id \in tail .. head - 1 PROVE At(id)' = At(id)
        OBVIOUS
      <3>1. id \in Nat /\ id < head /\ head - id < BufferCount
        BY <2>3, RingAssumption DEF TypeOK, SenderTypeOK
      <3>2. id % BufferCount # head % BufferCount
        BY <3>1, DistinctSlots DEF TypeOK, SenderTypeOK
      <3> QED
        BY <2>2, <3>1, <3>2, SlotOf DEF At, RingSlots, TypeOK, SenderTypeOK
    <2>5. \A id \in tail .. head - 1 :
            At(id)' \in Containers /\ cont[At(id)'].msgs = log[id + 1]
      BY <2>4 DEF Window
    <2>6. \A c \in Clients : st[c] = "send" => cid[c] < head /\ tcont[c] = At(cid[c])'
      <3> SUFFICES ASSUME NEW c \in Clients, st[c] = "send"
                   PROVE  cid[c] < head /\ tcont[c] = At(cid[c])'
        OBVIOUS
      <3>1. tail <= cid[c] /\ cid[c] < head /\ tcont[c] = At(cid[c])
        BY DEF Window, Listed
      <3>2. cid[c] \in tail .. head - 1 /\ cid'[c] = cid[c]
        BY <2>2, <3>1 DEF TypeOK, SenderTypeOK
      <3>3. slot'[cid[c] % BufferCount] = slot[cid[c] % BufferCount]
        BY <2>4, <3>2 DEF At
      <3> QED
        BY <3>1, <3>2, <3>3 DEF At
    <2> QED
      BY <2>1, <2>2, <2>3, <2>5, <2>6 DEF Window, CacheIsLow, Listed, Holding, TypeOK,
         SenderTypeOK
  <1>12. ASSUME NEW t \in Threads, RingPublish(t), UNCHANGED peerVars PROVE Window'
    <2>1. \A u \in Threads : u # t => pc[u] \notin Holding
      BY <1>12 DEF RingPublish, Mutex, Holding
    <2>2. /\ UNCHANGED <<tail, slot, cont, st, cid, tcont, lowest>>
          /\ head' = head + 1 /\ log' = Append(log, cont[active].msgs)
          /\ pc[t] = "publish" /\ pc'[t] = "full"
          /\ \A u \in Threads : u # t => pc'[u] = pc[u]
      BY <1>12 DEF RingPublish, TypeOK, SenderTypeOK
    <2>3. tail <= head /\ head - tail < BufferCount
      BY <2>1, <2>2, RingAssumption DEF Window, Holding, TypeOK, SenderTypeOK
    <2>4. /\ Len(log') = head'
          /\ log'[head + 1] = cont[active].msgs
          /\ \A i \in 1 .. head : log'[i] = log[i]
      <3>1. cont[active].msgs \in Seq(Nat)
        BY ContainerFields DEF TypeOK, SenderTypeOK
      <3>2. log \in Seq(Seq(Nat)) /\ Len(log) = head
        BY DEF Window, TypeOK, SenderTypeOK
      <3>3. /\ Len(Append(log, cont[active].msgs)) = Len(log) + 1
            /\ \A i \in 1 .. Len(log) : Append(log, cont[active].msgs)[i] = log[i]
            /\ Append(log, cont[active].msgs)[Len(log) + 1] = cont[active].msgs
        BY <3>1, <3>2, AppendProperties
      <3> QED
        BY <2>2, <3>2, <3>3
    <2>5. \A id \in tail .. head' - 1 :
            At(id)' \in Containers /\ cont[At(id)'].msgs = log'[id + 1]
      <3> SUFFICES ASSUME NEW id \in tail .. head' - 1
                   PROVE  At(id) \in Containers /\ cont[At(id)].msgs = log'[id + 1]
        BY <2>2 DEF At
      <3>1. CASE id = head
        BY <2>2, <2>4, <3>1 DEF Owned, TypeOK, SenderTypeOK
      <3>2. CASE id # head
        <4>1. id \in tail .. head - 1 /\ id + 1 \in 1 .. head
          BY <2>2, <3>2 DEF TypeOK, SenderTypeOK
        <4> QED
          BY <2>4, <4>1 DEF Window
      <3> QED
        BY <3>1, <3>2
    <2>6. \A c \in Clients : st[c] = "send" => cid[c] < head' /\ tcont[c] = At(cid[c])'
      BY <2>2 DEF Window, At, TypeOK, SenderTypeOK
    <2>7. \A c \in Listed : tail <= cid[c] /\ cid[c] <= head'
      BY <2>2 DEF Window, Listed, TypeOK, SenderTypeOK
    <2>8. head' - tail = BufferCount => \A c \in Listed : tail < cid[c]
      <3>1. pc[t] = "publish" /\ head - tail >= BufferCount - 1 =>
              \A c \in Listed : tail < cid[c]
        BY DEF Window
      <3>2. head' - tail = BufferCount => head - tail >= BufferCount - 1
        BY <2>2, RingAssumption DEF TypeOK, SenderTypeOK
      <3> QED
        BY <2>2, <3>1, <3>2
    <2>9. tail <= head' /\ head' - tail <= BufferCount /\ lowest <= head'
      BY <2>2, <2>3, RingAssumption DEF Window, TypeOK, SenderTypeOK
    <2> QED
      BY <2>1, <2>2, <2>4, <2>5, <2>6, <2>7, <2>8, <2>9 DEF Window, CacheIsLow, Listed, Holding
  <1>13. ASSUME NEW t \in Threads, RingAdvanceTail(t), UNCHANGED peerVars PROVE Window'
    <2>1. \A u \in Threads : u # t => pc[u] \notin Holding
      BY <1>13 DEF RingAdvanceTail, Mutex, Holding
    <2>2. /\ UNCHANGED <<head, slot, cont, log, st, cid, tcont, lowest>>
          /\ tail' = IF head - tail = BufferCount THEN tail + 1 ELSE tail
          /\ pc[t] = "full" /\ pc'[t] \in {"get", "peek"}
          /\ \A u \in Threads : u # t => pc'[u] = pc[u]
      BY <1>13 DEF RingAdvanceTail, TypeOK, SenderTypeOK
    <2>3. tail <= tail' /\ tail' <= head /\ head - tail' < BufferCount
      BY <2>2, RingAssumption DEF Window, TypeOK, SenderTypeOK
    <2>4. \A id \in tail' .. head - 1 :
            At(id) \in Containers /\ cont[At(id)].msgs = log[id + 1]
      BY <2>2, <2>3 DEF Window, TypeOK, SenderTypeOK
    <2>5. \A c \in Listed : tail' <= cid[c] /\ cid[c] <= head
      BY <2>2 DEF Window, Listed, TypeOK, SenderTypeOK
    <2>6. head - tail' # BufferCount
      BY <2>2, <2>3, RingAssumption DEF TypeOK, SenderTypeOK
    <2>7. head - tail' <= BufferCount
      BY <2>2, <2>3, RingAssumption DEF TypeOK, SenderTypeOK
    <2>8. \A u \in Threads : pc'[u] \notin {"store", "publish", "full"}
      BY <2>1, <2>2 DEF Holding
    <2> QED
      BY <2>2, <2>3, <2>4, <2>5, <2>6, <2>7, <2>8 DEF Window, CacheIsLow, Listed, At
  <1>14. ASSUME NEW t \in Threads, OldPeek(t), UNCHANGED peerVars PROVE Window'
    <2>1. /\ UNCHANGED <<head, tail, slot, cont, log, st, cid, tcont, lowest>>
          /\ pc[t] \notin {"store", "publish", "full"} /\ pc'[t] \notin {"store", "publish", "full"}
          /\ \A u \in Threads : u # t => pc'[u] = pc[u]
      BY <1>14 DEF OldPeek, TypeOK, SenderTypeOK
    <2> QED
      BY <2>1 DEF Window, CacheIsLow, Listed, At
  <1>15. ASSUME NEW t \in Threads, OldUnref(t), UNCHANGED peerVars PROVE Window'
    <2>1. \A u \in Threads : u # t => pc[u] \notin Holding
      BY <1>15 DEF OldUnref, Mutex, Holding
    <2>2. /\ UNCHANGED <<head, tail, slot, log, lowest, st, cid, tcont>>
          /\ pc'[t] \in {"get", "clear"} /\ \A u \in Threads : u # t => pc'[u] = pc[u]
          /\ pc[t] \notin {"store", "publish", "full"}
      BY <1>15 DEF OldUnref, TypeOK, SenderTypeOK
    <2>3. \A id \in tail .. head - 1 : cont'[At(id)].msgs = cont[At(id)].msgs
      <3>1. old \in Containers
        BY <1>15 DEF OldUnref, NeverDeferred
      <3>2. \/ cont' = [cont EXCEPT ![old] = Decremented(cont[old])]
            \/ cont' = [cont EXCEPT ![old] = Renumbered(Decremented(cont[old]))]
        BY <1>15 DEF OldUnref
      <3>3. /\ Decremented(cont[old]).msgs = cont[old].msgs
            /\ Renumbered(Decremented(cont[old])).msgs = cont[old].msgs
        BY <3>1, DecrementedType, RenumberedType DEF TypeOK, SenderTypeOK
      <3>4. \A k \in Containers : cont'[k].msgs = cont[k].msgs
        BY <3>1, <3>2, <3>3 DEF TypeOK, SenderTypeOK
      <3> QED
        BY <3>4 DEF Window
    <2>4. \A id \in tail .. head - 1 :
            At(id) \in Containers /\ cont'[At(id)].msgs = log[id + 1]
      BY <2>3 DEF Window, TypeOK, SenderTypeOK
    <2> QED
      BY <2>1, <2>2, <2>4 DEF Window, CacheIsLow, Listed, At, Holding
  <1>16. ASSUME NEW t \in Threads, OldClear(t), UNCHANGED peerVars PROVE Window'
    <2>1. \A u \in Threads : u # t => pc[u] \notin Holding
      BY <1>16 DEF OldClear, Mutex, Holding
    <2>2. /\ UNCHANGED <<head, tail, slot, log, lowest, st, cid, tcont>>
          /\ pc'[t] \in {"wipe"} /\ \A u \in Threads : u # t => pc'[u] = pc[u]
          /\ pc[t] \notin {"store", "publish", "full"}
      BY <1>16 DEF OldClear, TypeOK, SenderTypeOK
    <2>3. \A id \in tail .. head - 1 : cont'[At(id)].msgs = cont[At(id)].msgs
      <3>1. old \in Containers
        BY <1>16 DEF OldClear, NeverDeferred
      <3>2. cont' = [cont EXCEPT ![old] = Renewed(cont[old])]
        BY <1>16 DEF OldClear
      <3>3. Renewed(cont[old]).msgs = cont[old].msgs
        BY <3>1, RenewedType DEF TypeOK, SenderTypeOK
      <3>4. \A k \in Containers : cont'[k].msgs = cont[k].msgs
        BY <3>1, <3>2, <3>3 DEF TypeOK, SenderTypeOK
      <3> QED
        BY <3>4 DEF Window
    <2>4. \A id \in tail .. head - 1 :
            At(id) \in Containers /\ cont'[At(id)].msgs = log[id + 1]
      BY <2>3 DEF Window, TypeOK, SenderTypeOK
    <2> QED
      BY <2>1, <2>2, <2>4 DEF Window, CacheIsLow, Listed, At, Holding
  <1>17. ASSUME NEW t \in Threads, OldWipe(t), UNCHANGED peerVars PROVE Window'
    <2>1. \A u \in Threads : u # t => pc[u] \notin Holding
      BY <1>17 DEF OldWipe, Mutex, Holding
    <2>2. /\ UNCHANGED <<head, tail, slot, log, lowest, st, cid, tcont>>
          /\ pc'[t] \in {"get"} /\ \A u \in Threads : u # t => pc'[u] = pc[u]
          /\ pc[t] \notin {"store", "publish", "full"}
      BY <1>17 DEF OldWipe, TypeOK, SenderTypeOK
    <2>3. \A id \in tail .. head - 1 : cont'[At(id)].msgs = cont[At(id)].msgs
      <3>1. old \in Containers /\ old # NoContainer
        BY <1>17 DEF OldWipe, NeverDeferred, Containers, NoContainer
      <3>2. cont' = [cont EXCEPT ![old] = Wiped(cont[old])]
        BY <1>17 DEF OldWipe
      <3>3. pc[t] = "wipe"
        BY <1>17 DEF OldWipe
      <3>4. \A id \in tail .. head - 1 : At(id) \in Containers /\ At(id) # old
        BY <3>1, <3>3, InRing DEF Owned
      <3> QED
        BY <3>1, <3>2, <3>4 DEF TypeOK, SenderTypeOK
    <2>4. \A id \in tail .. head - 1 :
            At(id) \in Containers /\ cont'[At(id)].msgs = log[id + 1]
      BY <2>3 DEF Window, TypeOK, SenderTypeOK
    <2> QED
      BY <2>1, <2>2, <2>4 DEF Window, CacheIsLow, Listed, At, Holding
  <1>18. ASSUME NEW t \in Threads, ScanBegin(t), UNCHANGED peerVars PROVE Window'
    <2>1. /\ UNCHANGED <<head, tail, slot, cont, log, st, cid, tcont, lowest>>
          /\ pc[t] \notin {"store", "publish", "full"} /\ pc'[t] \notin {"store", "publish", "full"}
          /\ \A u \in Threads : u # t => pc'[u] = pc[u]
      BY <1>18 DEF ScanBegin, TypeOK, SenderTypeOK
    <2> QED
      BY <2>1 DEF Window, CacheIsLow, Listed, At
  <1>19. ASSUME NEW t \in Threads, ScanLook(t), UNCHANGED peerVars PROVE Window'
    <2>1. pc[t] = "scan" /\ scan <= Len(deferred)
      BY <1>19 DEF ScanLook
    <2>2. scan >= 1 /\ deferred = <<>>
      BY <2>1 DEF NeverDeferred
    <2> QED
      BY <2>1, <2>2, EmptySeq DEF TypeOK, SenderTypeOK
  <1>20. ASSUME NEW t \in Threads, ScanReclaim(t), UNCHANGED peerVars PROVE Window'
    BY <1>20 DEF ScanReclaim, NeverDeferred
  <1>21. ASSUME NEW t \in Threads, ScanWipe(t), UNCHANGED peerVars PROVE Window'
    BY <1>21 DEF ScanWipe, NeverDeferred
  <1>22. ASSUME NEW t \in Threads, ScanEnd(t), UNCHANGED peerVars PROVE Window'
    <2>1. /\ UNCHANGED <<head, tail, slot, cont, log, st, cid, tcont, lowest>>
          /\ pc[t] \notin {"store", "publish", "full"} /\ pc'[t] \notin {"store", "publish", "full"}
          /\ \A u \in Threads : u # t => pc'[u] = pc[u]
      BY <1>22 DEF ScanEnd, TypeOK, SenderTypeOK
    <2> QED
      BY <2>1 DEF Window, CacheIsLow, Listed, At
  <1>23. ASSUME NEW t \in Threads, TakeForSend(t), UNCHANGED peerVars PROVE Window'
    <2>1. \A u \in Threads : u # t => pc[u] \notin Holding
      BY <1>23 DEF TakeForSend, TakeEmpty, Mutex, Holding
    <2>2. /\ UNCHANGED <<head, tail, slot, log, lowest, st, cid, tcont>>
          /\ pc'[t] \in {"finish", "idle"} /\ \A u \in Threads : u # t => pc'[u] = pc[u]
          /\ pc[t] \notin {"store", "publish", "full"}
      BY <1>23 DEF TakeForSend, TakeEmpty, TypeOK, SenderTypeOK, AfterInsert
    <2>3. \A id \in tail .. head - 1 : cont'[At(id)].msgs = cont[At(id)].msgs
      <3>1. /\ active' \in Containers /\ Len(empty) \in 1 .. Len(empty)
            /\ active' = empty[Len(empty)]
        BY SMTT(60), <1>23, PopType DEF TakeForSend, TakeEmpty, TypeOK, SenderTypeOK
      <3>2. \A id \in tail .. head - 1 : At(id) \in Containers /\ At(id) # active'
        BY <3>1, InRing DEF Owned
      <3>3. \A k \in Containers : k # active' => cont'[k] = cont[k]
        BY <1>23, <3>1 DEF TakeForSend, TakeEmpty, TypeOK, SenderTypeOK
      <3> QED
        BY <3>2, <3>3
    <2>4. \A id \in tail .. head - 1 :
            At(id) \in Containers /\ cont'[At(id)].msgs = log[id + 1]
      BY <2>3 DEF Window, TypeOK, SenderTypeOK
    <2> QED
      BY <2>1, <2>2, <2>4 DEF Window, CacheIsLow, Listed, At, Holding
  <1>24. ASSUME NEW t \in Threads, TakeForSwitch(t), UNCHANGED peerVars PROVE Window'
    <2>1. \A u \in Threads : u # t => pc[u] \notin Holding
      BY <1>24 DEF TakeForSwitch, TakeEmpty, Mutex, Holding
    <2>2. /\ UNCHANGED <<head, tail, slot, log, lowest, st, cid, tcont>>
          /\ pc'[t] \in {"idle"} /\ \A u \in Threads : u # t => pc'[u] = pc[u]
          /\ pc[t] \notin {"store", "publish", "full"}
      BY <1>24 DEF TakeForSwitch, TakeEmpty, TypeOK, SenderTypeOK
    <2>3. \A id \in tail .. head - 1 : cont'[At(id)].msgs = cont[At(id)].msgs
      <3>1. /\ active' \in Containers /\ Len(empty) \in 1 .. Len(empty)
            /\ active' = empty[Len(empty)]
        BY <1>24, PopType DEF TakeForSwitch, TakeEmpty, TypeOK, SenderTypeOK
      <3>2. \A id \in tail .. head - 1 : At(id) \in Containers /\ At(id) # active'
        BY <3>1, InRing DEF Owned
      <3>3. \A k \in Containers : k # active' => cont'[k] = cont[k]
        BY <1>24, <3>1 DEF TakeForSwitch, TakeEmpty, TypeOK, SenderTypeOK
      <3> QED
        BY <3>2, <3>3
    <2>4. \A id \in tail .. head - 1 :
            At(id) \in Containers /\ cont'[At(id)].msgs = log[id + 1]
      BY <2>3 DEF Window, TypeOK, SenderTypeOK
    <2> QED
      BY <2>1, <2>2, <2>4 DEF Window, CacheIsLow, Listed, At, Holding
  <1>25. ASSUME NEW t \in Threads, TakeForFlush(t), UNCHANGED peerVars PROVE Window'
    <2>1. \A u \in Threads : u # t => pc[u] \notin Holding
      BY <1>25 DEF TakeForFlush, TakeEmpty, Mutex, Holding
    <2>2. /\ UNCHANGED <<head, tail, slot, log, lowest, st, cid, tcont>>
          /\ pc'[t] \in {"idle"} /\ \A u \in Threads : u # t => pc'[u] = pc[u]
          /\ pc[t] \notin {"store", "publish", "full"}
      BY <1>25 DEF TakeForFlush, TakeEmpty, TypeOK, SenderTypeOK
    <2>3. \A id \in tail .. head - 1 : cont'[At(id)].msgs = cont[At(id)].msgs
      <3>1. /\ active' \in Containers /\ Len(empty) \in 1 .. Len(empty)
            /\ active' = empty[Len(empty)]
        BY <1>25, PopType DEF TakeForFlush, TakeEmpty, TypeOK, SenderTypeOK
      <3>2. \A id \in tail .. head - 1 : At(id) \in Containers /\ At(id) # active'
        BY <3>1, InRing DEF Owned
      <3>3. \A k \in Containers : k # active' => cont'[k] = cont[k]
        BY <1>25, <3>1 DEF TakeForFlush, TakeEmpty, TypeOK, SenderTypeOK
      <3> QED
        BY <3>2, <3>3
    <2>4. \A id \in tail .. head - 1 :
            At(id) \in Containers /\ cont'[At(id)].msgs = log[id + 1]
      BY <2>3 DEF Window, TypeOK, SenderTypeOK
    <2> QED
      BY <2>1, <2>2, <2>4 DEF Window, CacheIsLow, Listed, At, Holding
  <1>26. ASSUME NEW c \in Clients, AcceptPeer(c), UNCHANGED peerVars PROVE Window'
    BY <1>26 DEF AcceptPeer, Window, CacheIsLow, Listed, At, TypeOK, SenderTypeOK
  <1>27. ASSUME AcceptTop, UNCHANGED peerVars PROVE Window'
    BY <1>27 DEF AcceptTop, Window, CacheIsLow, Listed, At, TypeOK, SenderTypeOK
  <1>28. ASSUME AcceptLock, UNCHANGED peerVars PROVE Window'
    <2>1. accClient \in Clients /\ st[accClient] = "off"
      BY <1>28 DEF AcceptLock, Serving, Counted
    <2>2. /\ UNCHANGED <<head, tail, slot, cont, log, st, tcont, lowest, pc>>
          /\ \A c \in Clients : c # accClient => cid'[c] = cid[c]
      BY <1>28, <2>1 DEF AcceptLock, TypeOK, SenderTypeOK
    <2> QED
      BY <2>1, <2>2 DEF Window, CacheIsLow, Listed, At
  <1>29. ASSUME AcceptRefuse, UNCHANGED peerVars PROVE Window'
    <2>1. accClient \in Clients /\ st[accClient] = "off"
      BY <1>29 DEF AcceptRefuse, Serving, Counted
    <2>2. /\ UNCHANGED <<head, tail, slot, cont, log, st, tcont, lowest, pc>>
          /\ \A c \in Clients : c # accClient => cid'[c] = cid[c]
      BY <1>29, <2>1 DEF AcceptRefuse, TypeOK, SenderTypeOK
    <2> QED
      BY <2>1, <2>2 DEF Window, CacheIsLow, Listed, At
  <1>30. ASSUME AcceptList, UNCHANGED peerVars PROVE Window'
    <2>1. /\ accClient \in Clients /\ st[accClient] = "off" /\ cid[accClient] = head
          /\ mtx = "accept"
      BY <1>30 DEF AcceptList, Serving, Counted, Mutex
    <2>2. /\ UNCHANGED <<head, tail, slot, cont, log, cid, tcont, lowest, pc>>
          /\ st'[accClient] = "top"
          /\ \A c \in Clients : c # accClient => st'[c] = st[c]
      BY <1>30, <2>1 DEF AcceptList, TypeOK, SenderTypeOK
    <2>3. \A u \in Threads : pc[u] \notin Holding
      BY <2>1, ThreadAssumption DEF Mutex
    <2>4. \A d \in Listed' : d \in Listed \/ d = accClient
      BY <2>2 DEF Listed
    <2>5. \A d \in Listed' : tail <= cid[d] /\ cid[d] <= head /\ lowest <= cid[d]
      BY <2>1, <2>4 DEF Window, CacheIsLow, TypeOK, SenderTypeOK
    <2>6. \A u \in Threads : pc'[u] \notin {"store", "publish", "full"}
      BY <2>2, <2>3 DEF Holding
    <2>7. head - tail # BufferCount
      BY <2>3 DEF Window, Holding
    <2>8. \A d \in Clients : st'[d] = "send" => st[d] = "send"
      BY <2>2
    <2> QED
      BY <2>2, <2>5, <2>6, <2>7, <2>8 DEF Window, CacheIsLow, At
  <1>31. ASSUME AcceptCount, UNCHANGED peerVars PROVE Window'
    BY <1>31 DEF AcceptCount, Window, CacheIsLow, Listed, At, TypeOK, SenderTypeOK
  <1>32. ASSUME TerminateCall, UNCHANGED peerVars PROVE Window'
    BY <1>32 DEF TerminateCall, Window, CacheIsLow, Listed, At, TypeOK, SenderTypeOK
  <1>33. ASSUME TerminateDrained, UNCHANGED peerVars PROVE Window'
    BY <1>33 DEF TerminateDrained, Window, CacheIsLow, Listed, At, TypeOK, SenderTypeOK
  <1>34. ASSUME TerminateSet, UNCHANGED peerVars PROVE Window'
    BY <1>34 DEF TerminateSet, Window, CacheIsLow, Listed, At, TypeOK, SenderTypeOK
  <1>35. ASSUME SetBufferSwitch, UNCHANGED peerVars PROVE Window'
    BY <1>35 DEF SetBufferSwitch, Window, CacheIsLow, Listed, At, TypeOK, SenderTypeOK
  <1>36. ASSUME NEW c \in Clients, PeerTop(c) PROVE Window'
    <2>1. /\ UNCHANGED <<head, tail, slot, cont, log, lowest, pc, cid>>
          /\ st[c] # "off" /\ st'[c] \notin {"off", "send"}
          /\ \A d \in Clients : d # c => st'[d] = st[d] /\ tcont'[d] = tcont[d]
      BY <1>36 DEF PeerTop, SetState, TypeOK, SenderTypeOK
    <2> QED
      BY <2>1 DEF Window, CacheIsLow, Listed, At
  <1>37. ASSUME NEW c \in Clients, PeerQuit(c) PROVE Window'
    <2>1. /\ UNCHANGED <<head, tail, slot, cont, log, lowest, pc, cid>>
          /\ st[c] # "off" /\ st'[c] \notin {"off", "send"}
          /\ \A d \in Clients : d # c => st'[d] = st[d] /\ tcont'[d] = tcont[d]
      BY <1>37 DEF PeerQuit, SetState, TypeOK, SenderTypeOK
    <2> QED
      BY <2>1 DEF Window, CacheIsLow, Listed, At
  <1>38. ASSUME NEW c \in Clients, PeerPick(c) PROVE Window'
    <2>1. /\ UNCHANGED <<head, tail, slot, cont, log, lowest, pc, cid>>
          /\ st[c] = "poll" /\ st'[c] = "send"
          /\ cid[c] < head /\ tcont'[c] = At(cid[c])
          /\ \A d \in Clients : d # c => st'[d] = st[d] /\ tcont'[d] = tcont[d]
      BY <1>38 DEF PeerPick, Ready, SetState, TypeOK, SenderTypeOK
    <2> QED
      BY <2>1 DEF Window, CacheIsLow, Listed, At
  <1>39. ASSUME NEW c \in Clients, PeerSent(c) PROVE Window'
    <2>1. /\ UNCHANGED <<head, tail, slot, cont, log, lowest, pc>>
          /\ st[c] = "send" /\ st'[c] = "top" /\ cid'[c] = cid[c] + 1
          /\ \A d \in Clients : d # c => st'[d] = st[d] /\ tcont'[d] = tcont[d] /\ cid'[d] = cid[d]
      BY <1>39 DEF PeerSent, SetState, TypeOK, SenderTypeOK
    <2>2. cid[c] < head /\ c \in Listed
      BY <2>1 DEF Window, Listed
    <2>3. /\ head \in Nat /\ tail \in Nat /\ lowest \in Nat
          /\ \A d \in Clients : cid[d] \in Nat
      BY DEF TypeOK, SenderTypeOK
    <2>4. /\ Listed' = Listed
          /\ \A d \in Listed : cid'[d] = cid[d] \/ (cid'[d] = cid[d] + 1 /\ d = c)
      <3>1. \A d \in Clients : st[d] # "off" <=> st'[d] # "off"
        BY <2>1
      <3>2. Listed' = Listed
        BY <3>1 DEF Listed
      <3>3. \A d \in Clients : cid'[d] = cid[d] \/ (cid'[d] = cid[d] + 1 /\ d = c)
        BY <2>1
      <3> QED
        BY <3>2, <3>3 DEF Listed
    <2>5. \A d \in Listed : tail <= cid'[d] /\ cid'[d] <= head /\ lowest <= cid'[d]
      <3> SUFFICES ASSUME NEW d \in Listed
                   PROVE  tail <= cid'[d] /\ cid'[d] <= head /\ lowest <= cid'[d]
        OBVIOUS
      <3>1. d \in Clients /\ tail <= cid[d] /\ cid[d] <= head /\ lowest <= cid[d]
        BY DEF Window, CacheIsLow, Listed
      <3> QED
        BY <2>2, <2>3, <2>4, <3>1
    <2>6. (\A d \in Listed : tail < cid[d]) => (\A d \in Listed : tail < cid'[d])
      <3> SUFFICES ASSUME NEW d \in Listed, tail < cid[d] PROVE tail < cid'[d]
        OBVIOUS
      <3> QED
        BY <2>3, <2>4 DEF Listed
    <2>7. \A d \in Clients : st'[d] = "send" => d # c
      BY <2>1
    <2> QED
      BY <2>1, <2>4, <2>5, <2>6, <2>7 DEF Window, CacheIsLow, At
  <1>40. ASSUME NEW c \in Clients, PeerBroken(c) PROVE Window'
    <2>1. /\ UNCHANGED <<head, tail, slot, cont, log, lowest, pc, cid>>
          /\ st[c] # "off" /\ st'[c] \notin {"off", "send"}
          /\ \A d \in Clients : d # c => st'[d] = st[d] /\ tcont'[d] = tcont[d]
      BY <1>40 DEF PeerBroken, SetState, TypeOK, SenderTypeOK
    <2> QED
      BY <2>1 DEF Window, CacheIsLow, Listed, At
  <1>41. ASSUME NEW c \in Clients, PeerLeave(c) PROVE Window'
    <2>1. /\ UNCHANGED <<head, tail, slot, cont, log, lowest, pc, tcont>>
          /\ st'[c] = "off"
          /\ \A d \in Clients : d # c => st'[d] = st[d] /\ cid'[d] = cid[d]
      BY <1>41 DEF PeerLeave, Disconnect, TypeOK, SenderTypeOK
    <2> QED
      BY <2>1 DEF Window, CacheIsLow, Listed, At
  <1>42. CASE UNCHANGED vars
    BY <1>42 DEF vars, Window, CacheIsLow, Listed, At
  <1> QED
    BY
    <1>1, <1>2, <1>3, <1>4, <1>5, <1>6, <1>7, <1>8, <1>9, <1>10, <1>11,
    <1>12, <1>13, <1>14, <1>15, <1>16, <1>17, <1>18, <1>19, <1>20, <1>21,
    <1>22, <1>23, <1>24, <1>25, <1>26, <1>27, <1>28, <1>29, <1>30, <1>31,
    <1>32, <1>33, <1>34, <1>35, <1>36, <1>37, <1>38, <1>39, <1>40, <1>41,
    <1>42
    DEF Next, SharedStep, ThreadStep, AcceptStep, TerminateStep, PeerStep

-----------------------------------------------------------------------------
LEMMA InvInit == Init => Inv
  <1> SUFFICES ASSUME Init PROVE Inv
    OBVIOUS
  <1> USE DEF Init, SenderInit, EmptyAtFirst
  <1>1. TypeOK
    BY TypeInit
  <1>2. Mutex /\ Serving
    BY ThreadAssumption DEF Mutex, Serving, Holding
  <1>3. NeverDeferred
    BY DEF NeverDeferred
  <1>4. Owned
    <2>1. \A j \in RingSlots : slot[j] = NoContainer
      BY DEF RingSlots
    <2>2. Len(empty) = BufferCount + MaxClients
          /\ \A i \in 1 .. Len(empty) : empty[i] = i - 1 /\ i \in Int
      BY RingAssumption
    <2>3. \A i \in 1 .. Len(empty) : empty[i] # active /\ empty[i] # NoContainer
      BY <2>2, RingAssumption DEF NoContainer
    <2>4. active # NoContainer
      BY RingAssumption DEF NoContainer
    <2>5. \A i, j \in 1 .. Len(empty) : empty[i] = empty[j] => i = j
      <3> HIDE DEF Init, SenderInit, EmptyAtFirst
      <3> SUFFICES ASSUME NEW i \in 1 .. Len(empty), NEW j \in 1 .. Len(empty),
                          empty[i] = empty[j]
                   PROVE  i = j
        OBVIOUS
      <3>1. i \in Int /\ j \in Int /\ empty[i] = i - 1 /\ empty[j] = j - 1
        BY <2>2
      <3>2. i - 1 = j - 1
        BY <3>1
      <3> QED
        BY <3>1, <3>2
    <2> QED
      BY <2>1, <2>3, <2>4, <2>5 DEF Owned
  <1>5. Counted
    <2>1. Listed = {}
      BY DEF Listed
    <2> QED
      BY <2>1, FS_EmptySet DEF Counted
  <1>6. Window
    BY RingAssumption DEF Window, Listed, CacheIsLow
  <1> QED
    BY <1>1, <1>2, <1>3, <1>4, <1>5, <1>6 DEF Inv

LEMMA InvStep == Inv /\ [Next]_vars => Inv'
  BY TypeStep, MutexStep, ServingStep, DeferStep, OwnedStep, CountedStep, WindowStep DEF Inv

(* What the inductive invariant is for: whatever the number of clients,    *)
(* storing threads, slots and messages, it holds of every state.           *)
THEOREM Invariance == Spec => []Inv
  BY InvInit, InvStep, PTL DEF Spec

(* Every variable keeps its type: ids index the ring, containers are those *)
(* of the pool, the reference counter fits its byte.                       *)
THEOREM TypeCorrect == Spec => []TypeOK
  <1>1. Inv => TypeOK
    BY DEF Inv
  <1> QED
    BY <1>1, Invariance, PTL

(* send_blocking_mode takes no reference to the container it sends, and    *)
(* none is needed: it sends what was published under the id it is at.      *)
THEOREM ReadsWhatWasPublished == Spec => []ReadsPublished
  <1>1. Inv => ReadsPublished
    <2> SUFFICES ASSUME Inv, NEW c \in Clients, st[c] = "send"
                 PROVE  cid[c] < head /\ cont[tcont[c]].msgs = log[cid[c] + 1]
      BY DEF ReadsPublished
    <2>1. c \in Listed
      BY DEF Listed
    <2>2. tail <= cid[c] /\ cid[c] < head /\ tcont[c] = At(cid[c])
      BY <2>1 DEF Inv, Window
    <2>3. cid[c] \in tail .. head - 1
      BY <2>2 DEF Inv, TypeOK, SenderTypeOK
    <2> QED
      BY <2>2, <2>3 DEF Inv, Window
  <1> QED
    BY <1>1, Invariance, PTL

(* finish_container may skip the scan of clients_list_head on account of   *)
(* lowest_container_id: it never passes a client.                          *)
THEOREM CachedIdIsLow == Spec => []CacheIsLow
  <1>1. Inv => CacheIsLow
    BY DEF Inv, Window
  <1> QED
    BY <1>1, Invariance, PTL

-----------------------------------------------------------------------------
(* A step that publishes nothing, and moves no listed client, stutters.    *)
LEMMA Stutters ==
  ASSUME UNCHANGED <<log, rcvd>>, Listed' = Listed, \A c \in Listed : cid'[c] = cid[c]
  PROVE  UNCHANGED Abstract!vars
  BY DEF Abstract!vars

(* A client's thread that goes from one place to another stays listed.     *)
LEMMA StaysListed ==
  ASSUME TypeOK, NEW c \in Clients, NEW s \in ClientStates \ {"off"},
         st[c] # "off", SetState(c, s)
  PROVE  Listed' = Listed
  BY DEF Listed, SetState, TypeOK, SenderTypeOK

(* The publisher is less than a ring ahead of every client when it         *)
(* publishes.                                                              *)
LEMMA RoomToPublish ==
  ASSUME Inv, NEW t \in Threads, pc[t] = "publish", NEW c \in Listed
  PROVE  Len(log) - cid[c] < BufferCount
  <1>1. head \in Nat /\ tail \in Nat /\ cid[c] \in Nat /\ BufferCount \in Nat
    BY RingAssumption DEF Inv, TypeOK, SenderTypeOK, Listed
  <1>2. Len(log) = head /\ tail <= cid[c]
    BY DEF Inv, Window
  <1>3. head - tail >= BufferCount - 1 => tail < cid[c]
    BY DEF Inv, Window
  <1>4. head - tail <= BufferCount
    BY DEF Inv, Window
  <1> QED
    BY <1>1, <1>2, <1>3, <1>4

LEMMA PublishRefines ==
  ASSUME Inv, NEW t \in Threads, RingPublish(t), UNCHANGED peerVars
  PROVE  Abstract!Publish
  <1> USE DEF RingPublish, clientVars, peerVars, threadVars, ctlVars
  <1>1. Listed' = Listed
    BY DEF Listed
  <1>2. \A c \in Listed : Len(log) - cid[c] < BufferCount
    BY RoomToPublish
  <1>3. log \in Seq(Seq(Nat)) /\ cont[active].msgs \in Seq(Nat)
    BY ContainerFields DEF Inv, TypeOK, SenderTypeOK
  <1>4. log' = Append(log, cont[active].msgs)
    OBVIOUS
  <1>5. Len(log') = Len(log) + 1 /\ log'[Len(log) + 1] = cont[active].msgs
    BY <1>3, <1>4
  <1> QED
    BY <1>1, <1>2, <1>3, <1>4, <1>5 DEF Abstract!Publish, Listed

LEMMA SentRefines ==
  ASSUME Inv, NEW c \in Clients, PeerSent(c)
  PROVE  Abstract!Deliver(c)
  <1> USE DEF PeerSent
  <1>1. TypeOK /\ st[c] = "send" /\ c \in Listed
    BY DEF Inv, Listed
  <1>2. Listed' = Listed
    BY <1>1, StaysListed DEF ClientStates
  <1>3. cid[c] < Len(log) /\ tcont[c] = At(cid[c]) /\ tail <= cid[c]
    BY <1>1 DEF Inv, Window
  <1>4. cid[c] \in tail .. head - 1
    BY <1>1, <1>3 DEF Inv, Window, TypeOK, SenderTypeOK
  <1>5. cont[tcont[c]].msgs = log[cid[c] + 1]
    BY <1>3, <1>4 DEF Inv, Window
  <1>6. rcvd' = [rcvd EXCEPT ![c] = @ \o log[cid[c] + 1]]
    BY <1>5
  <1>7. cid' = [cid EXCEPT ![c] = @ + 1] /\ cid \in [Clients -> Nat]
    BY <1>1 DEF TypeOK, SenderTypeOK
  <1>8. UNCHANGED log
    BY DEF historyVars
  <1> QED
    BY <1>1, <1>2, <1>3, <1>6, <1>7, <1>8 DEF Abstract!Deliver

LEMMA LeaveRefines ==
  ASSUME Inv, NEW c \in Clients, PeerLeave(c)
  PROVE  Abstract!Leave(c)
  <1> USE DEF PeerLeave, Disconnect
  <1>1. TypeOK /\ c \in Listed
    BY DEF Inv, Listed
  <1>2. Listed' = Listed \ {c}
    BY <1>1 DEF Listed, TypeOK, SenderTypeOK
  <1>3. cid' = [cid EXCEPT ![c] = 0] /\ cid \in [Clients -> Nat]
    BY <1>1 DEF TypeOK, SenderTypeOK
  <1>4. UNCHANGED log
    BY DEF historyVars
  <1> QED
    BY <1>1, <1>2, <1>3, <1>4 DEF Abstract!Leave

LEMMA ListRefines ==
  ASSUME Inv, AcceptList, UNCHANGED peerVars
  PROVE  \E c \in Clients : Abstract!Join(c)
  <1> USE DEF AcceptList, peerVars
  <1>1. TypeOK /\ accClient \in Clients /\ st[accClient] = "off" /\ cid[accClient] = head
    BY DEF Inv, Serving, Counted
  <1>2. PICK c \in Clients : c = accClient
    BY <1>1
  <1>3. c \notin Listed /\ Listed' = Listed \cup {c}
    BY <1>1, <1>2 DEF Listed, TypeOK, SenderTypeOK
  <1>4. UNCHANGED <<cid, log, rcvd>> /\ Len(log) = head /\ cid[c] = head
    BY <1>1, <1>2 DEF historyVars, Inv, Window
  <1>5. Abstract!Join(c)
    BY <1>3, <1>4 DEF Abstract!Join
  <1> QED
    BY <1>5

(* Every other step of the shared part stutters.                           *)
LEMMA SharedStutters ==
  ASSUME Inv, SharedStep, UNCHANGED peerVars,
         ~AcceptList, \A t \in Threads : ~RingPublish(t)
  PROVE  UNCHANGED Abstract!vars
  <1> SUFFICES UNCHANGED <<log, rcvd>> /\ Listed' = Listed
               /\ \A c \in Listed : cid'[c] = cid[c]
    BY Stutters
  <1>0. UNCHANGED rcvd
    BY DEF peerVars
  <1> USE DEF historyVars
  <1>1. ASSUME NEW t \in Threads, SendCall(t) \/ FlushCall(t) \/ AutoFlushCall(t)
        PROVE  UNCHANGED <<log, st, cid>>
    BY <1>1 DEF SendCall, FlushCall, AutoFlushCall, clientVars
  <1>2. ASSUME NEW t \in Threads, ThreadStep(t)
        PROVE  UNCHANGED <<log, st, cid>>
    <2>1. CASE SendStore(t) \/ SendFull(t) \/ FlushLocked(t)
      BY <2>1 DEF SendStore, SendFull, FlushLocked, clientVars
    <2>2. CASE FinishHeader(t) \/ FinishRepeat(t) \/ FinishYield(t) \/ FinishRelock(t)
      BY <2>2 DEF FinishHeader, FinishRepeat, FinishYield, FinishRelock, clientVars
    <2>3. CASE RingStore(t) \/ RingAdvanceTail(t)
      BY <2>3 DEF RingStore, RingAdvanceTail, clientVars
    <2>4. CASE OldPeek(t) \/ OldUnref(t) \/ OldClear(t) \/ OldWipe(t)
      BY <2>4 DEF OldPeek, OldUnref, OldClear, OldWipe, clientVars
    <2>5. CASE ScanBegin(t) \/ ScanLook(t) \/ ScanReclaim(t) \/ ScanWipe(t) \/ ScanEnd(t)
      BY <2>5 DEF ScanBegin, ScanLook, ScanReclaim, ScanWipe, ScanEnd, clientVars
    <2>6. CASE TakeForSend(t) \/ TakeForSwitch(t) \/ TakeForFlush(t)
      BY <2>6 DEF TakeForSend, TakeForSwitch, TakeForFlush, clientVars
    <2> QED
      BY <1>2, <2>1, <2>2, <2>3, <2>4, <2>5, <2>6 DEF ThreadStep
  <1>3. ASSUME AcceptTop \/ AcceptCount \/ (\E c \in Clients : AcceptPeer(c))
        PROVE  UNCHANGED <<log, st, cid>>
    BY <1>3 DEF AcceptTop, AcceptCount, AcceptPeer
  <1>4. ASSUME AcceptLock \/ AcceptRefuse
        PROVE  UNCHANGED <<log, st>> /\ \A c \in Listed : cid'[c] = cid[c]
    <2>1. accClient \in Clients /\ st[accClient] = "off" /\ cid \in [Clients -> Nat]
      BY <1>4 DEF AcceptLock, AcceptRefuse, Inv, Serving, Counted, TypeOK, SenderTypeOK
    <2> QED
      BY <1>4, <2>1 DEF AcceptLock, AcceptRefuse, Listed
  <1>5. ASSUME TerminateCall \/ TerminateStep \/ SetBufferSwitch
        PROVE  UNCHANGED <<log, st, cid>>
    BY <1>5 DEF TerminateCall, TerminateStep, TerminateDrained, TerminateSet,
                SetBufferSwitch, clientVars
  <1>6. UNCHANGED <<log, st>> /\ \A c \in Listed : cid'[c] = cid[c]
    BY <1>1, <1>2, <1>3, <1>4, <1>5 DEF SharedStep, AcceptStep
  <1> QED
    BY <1>0, <1>6 DEF Listed

(* So do the steps of a client's thread that neither send nor leave.       *)
LEMMA PeerStutters ==
  ASSUME Inv, NEW c \in Clients,
         PeerTop(c) \/ PeerQuit(c) \/ PeerPick(c) \/ PeerBroken(c)
  PROVE  UNCHANGED Abstract!vars
  <1>1. UNCHANGED <<log, rcvd, cid>>
    BY DEF PeerTop, PeerQuit, PeerPick, PeerBroken, peerVars, historyVars
  <1>2. st[c] # "off" /\ TypeOK
    BY DEF PeerTop, PeerQuit, PeerPick, PeerBroken, Inv
  <1>3. \E s \in ClientStates \ {"off"} : SetState(c, s)
    BY DEF PeerTop, PeerQuit, PeerPick, PeerBroken, ClientStates
  <1>4. Listed' = Listed
    BY <1>2, <1>3, StaysListed
  <1> QED
    BY <1>1, <1>4, Stutters

LEMMA InitRefines == Init => Abstract!Init
  BY DEF Init, SenderInit, EmptyAtFirst, Abstract!Init, Listed

LEMMA StepRefines == Inv /\ [Next]_vars => [Abstract!Next]_(Abstract!vars)
  <1> SUFFICES ASSUME Inv, [Next]_vars
               PROVE  Abstract!Next \/ UNCHANGED Abstract!vars
    OBVIOUS
  <1>1. CASE SharedStep /\ UNCHANGED peerVars
    <2>1. CASE \E t \in Threads : RingPublish(t)
      BY <1>1, <2>1, PublishRefines DEF Abstract!Next
    <2>2. CASE AcceptList
      BY <1>1, <2>2, ListRefines DEF Abstract!Next
    <2> QED
      BY <1>1, <2>1, <2>2, SharedStutters
  <1>2. ASSUME NEW c \in Clients, PeerStep(c)
        PROVE  Abstract!Next \/ UNCHANGED Abstract!vars
    BY <1>2, PeerStutters, SentRefines, LeaveRefines DEF PeerStep, Abstract!Next
  <1>3. CASE UNCHANGED vars
    <2>1. UNCHANGED <<log, rcvd, cid, st>>
      BY <1>3 DEF vars, senderVars, historyVars, clientVars, peerVars
    <2> QED
      BY <2>1, Stutters DEF Listed
  <1> QED
    BY <1>1, <1>2, <1>3 DEF Next

(* Every behaviour of send_blocking_mode, finish_container and the         *)
(* accepting thread is one of the reliable broadcast: each client gets the *)
(* containers published since it joined, in order, each once, and is never *)
(* more than a ring behind.                                                *)
THEOREM Refinement == Spec => ImplementsBroadcast
  <1>1. Inv /\ [Next]_vars => [Abstract!Next]_(Abstract!vars)
    BY StepRefines
  <1> QED
    BY <1>1, InitRefines, Invariance, PTL DEF Spec, ImplementsBroadcast, Abstract!Spec

-----------------------------------------------------------------------------
(* What termination, clients and their ids are about.                      *)
DrainVars == <<terminated, term, drainFrom, head, acc, accClient, st, cid>>

(* What leaves these variables alone keeps Draining.                       *)
LEMMA DrainStutter ==
  ASSUME Draining, UNCHANGED DrainVars
  PROVE  Draining'
  BY DEF Draining, DrainedFirst, DrainVars, Listed

(* Of the steps of a storing thread only the publication of a container    *)
(* matters to termination.                                                 *)
LEMMA ThreadLeaves ==
  ASSUME NEW t \in Threads, ThreadStep(t), ~RingPublish(t)
  PROVE  UNCHANGED DrainVars
  <1> USE DEF DrainVars, mbufVars, threadVars, clientVars, ctlVars
  <1>1. CASE SendStore(t) \/ SendFull(t) \/ FlushLocked(t)
    BY <1>1 DEF SendStore, SendFull, FlushLocked
  <1>2. CASE FinishHeader(t) \/ FinishRepeat(t) \/ FinishYield(t) \/ FinishRelock(t)
    BY <1>2 DEF FinishHeader, FinishRepeat, FinishYield, FinishRelock
  <1>3. CASE RingStore(t) \/ RingAdvanceTail(t)
    BY <1>3 DEF RingStore, RingAdvanceTail
  <1>4. CASE OldPeek(t) \/ OldUnref(t) \/ OldClear(t) \/ OldWipe(t)
    BY <1>4 DEF OldPeek, OldUnref, OldClear, OldWipe
  <1>5. CASE ScanBegin(t) \/ ScanLook(t) \/ ScanReclaim(t) \/ ScanWipe(t) \/ ScanEnd(t)
    BY <1>5 DEF ScanBegin, ScanLook, ScanReclaim, ScanWipe, ScanEnd
  <1>6. CASE TakeForSend(t) \/ TakeForSwitch(t) \/ TakeForFlush(t)
    BY <1>6 DEF TakeForSend, TakeForSwitch, TakeForFlush
  <1> QED
    BY <1>1, <1>2, <1>3, <1>4, <1>5, <1>6 DEF ThreadStep

(* tcpip_sender_terminate against the accepting thread, the clients'       *)
(* threads and the storing threads.                                        *)
LEMMA DrainingStep == Inv /\ Draining /\ [Next]_vars => Draining'
  <1> SUFFICES ASSUME Inv, Draining, [Next]_vars PROVE Draining'
    OBVIOUS
  <1> USE DEF senderVars, mbufVars, threadVars, clientVars, ctlVars, historyVars, peerVars
  <1>0. /\ TypeOK /\ Mutex /\ Serving /\ Counted /\ Window
        /\ head \in Nat /\ drainFrom \in Nat /\ \A c \in Clients : cid[c] \in Nat
        /\ st \in [Clients -> ClientStates] /\ cid \in [Clients -> Nat]
    BY DEF Inv, TypeOK, SenderTypeOK
  <1>1. ASSUME NEW t \in Threads, SendCall(t) \/ FlushCall(t) \/ AutoFlushCall(t)
        PROVE  Draining'
    BY <1>1, DrainStutter DEF SendCall, FlushCall, AutoFlushCall, DrainVars
  <1>2. ASSUME NEW t \in Threads, RingPublish(t) PROVE Draining'
    <2>1. acc # "count"
      BY <1>0, <1>2, ThreadAssumption DEF RingPublish, Mutex, Holding
    <2>2. UNCHANGED <<terminated, term, drainFrom, acc, accClient, st, cid>> /\ head' = head + 1
      BY <1>2 DEF RingPublish
    <2> QED
      BY <1>0, <2>1, <2>2 DEF Draining, DrainedFirst, Listed
  <1>3. ASSUME NEW t \in Threads, ThreadStep(t), ~RingPublish(t) PROVE Draining'
    BY <1>3, ThreadLeaves, DrainStutter
  <1>4. ASSUME NEW c \in Clients, AcceptPeer(c) PROVE Draining'
    BY <1>4 DEF AcceptPeer, Draining, DrainedFirst, Listed
  <1>5. CASE AcceptTop
    BY <1>5 DEF AcceptTop, Draining, DrainedFirst, Listed
  <1>6. CASE AcceptLock
    <2>1. accClient \notin Listed
      BY <1>0, <1>6 DEF AcceptLock, Counted, Listed
    <2> QED
      BY <1>0, <1>6, <2>1 DEF AcceptLock, Draining, DrainedFirst, Listed
  <1>7. CASE AcceptRefuse
    <2>1. accClient \notin Listed
      BY <1>0, <1>7 DEF AcceptRefuse, Counted, Listed
    <2> QED
      BY <1>0, <1>7, <2>1 DEF AcceptRefuse, Draining, DrainedFirst, Listed
  <1>8. CASE AcceptList
    <2>1. accClient \in Clients /\ cid[accClient] = head
      BY <1>0, <1>8 DEF AcceptList, Counted, Serving
    <2>2. /\ Listed' = Listed \cup {accClient} /\ st'[accClient] = "top"
          /\ UNCHANGED <<terminated, term, drainFrom, head, accClient, cid>>
      BY <1>0, <1>8, <2>1 DEF AcceptList, Listed
    <2> QED
      BY <1>0, <2>1, <2>2 DEF Draining, DrainedFirst
  <1>9. CASE AcceptCount
    BY <1>9 DEF AcceptCount, Draining, DrainedFirst, Listed
  <1>10. CASE TerminateCall
    BY <1>0, <1>10 DEF TerminateCall, Draining, DrainedFirst, Listed
  <1>11. CASE TerminateDrained
    <2>1. ~terminated
      BY <1>11 DEF TerminateDrained, Draining
    <2>2. \A c \in Listed : cid[c] >= drainFrom
      <3>1. CASE IsLowestId(head)
        BY <1>0, <3>1 DEF IsLowestId, Draining, Listed
      <3>2. CASE connected = 0 /\ acc = "count"
        <4>1. Cardinality(Listed) = 1
          BY <1>0, <3>2, ListedFinite DEF Counted
        <4>2. PICK x : Listed = {x}
          BY <4>1, ListedFinite, FS_Singleton
        <4> QED
          BY <1>0, <2>1, <3>2, <4>2 DEF Draining
      <3>3. CASE connected = 0 /\ acc # "count"
        <4>1. Cardinality(Listed) = 0
          BY <1>0, <3>3, ListedFinite DEF Counted
        <4>2. Listed = {}
          BY <4>1, ListedFinite, FS_EmptySet
        <4> QED
          BY <4>2
      <3> QED
        BY <1>11, <3>1, <3>2, <3>3 DEF TerminateDrained
    <2> QED
      BY <1>11, <2>1, <2>2 DEF TerminateDrained, Draining, DrainedFirst, Listed
  <1>12. CASE TerminateSet
    BY <1>12 DEF TerminateSet, Draining, DrainedFirst, Listed
  <1>13. CASE SetBufferSwitch
    BY <1>13, DrainStutter DEF SetBufferSwitch, DrainVars
  <1>14. ASSUME NEW c \in Clients, PeerTop(c) PROVE Draining'
    BY <1>0, <1>14 DEF PeerTop, SetState, Draining, DrainedFirst, Listed
  <1>15. ASSUME NEW c \in Clients, PeerQuit(c) PROVE Draining'
    BY <1>0, <1>15 DEF PeerQuit, SetState, Draining, DrainedFirst, Listed
  <1>16. ASSUME NEW c \in Clients, PeerPick(c) PROVE Draining'
    BY <1>0, <1>16 DEF PeerPick, Ready, SetState, Draining, DrainedFirst, Listed
  <1>17. ASSUME NEW c \in Clients, PeerSent(c) PROVE Draining'
    BY <1>0, <1>17 DEF PeerSent, SetState, Draining, DrainedFirst, Listed
  <1>18. ASSUME NEW c \in Clients, PeerBroken(c) PROVE Draining'
    BY <1>0, <1>18 DEF PeerBroken, SetState, Draining, DrainedFirst, Listed
  <1>19. ASSUME NEW c \in Clients, PeerLeave(c) PROVE Draining'
    BY <1>0, <1>19 DEF PeerLeave, Disconnect, Draining, DrainedFirst, Listed
  <1>20. CASE UNCHANGED vars
    BY <1>20, DrainStutter DEF vars, DrainVars
  <1> QED
    BY <1>1, <1>2, <1>3, <1>4, <1>5, <1>6, <1>7, <1>8, <1>9, <1>10, <1>11, <1>12, <1>13,
       <1>14, <1>15, <1>16, <1>17, <1>18, <1>19, <1>20
    DEF Next, SharedStep, AcceptStep, TerminateStep, PeerStep

(* tcpip_sender_terminate raises the flag only once every connected client *)
(* has what was finished before, whatever connects or leaves meanwhile.    *)
THEOREM TerminationDrains == Spec => []DrainedFirst
  <1>1. Init => Draining
    BY DEF Init, SenderInit, Draining, DrainedFirst, Listed
  <1>2. Draining => DrainedFirst
    BY DEF Draining
  <1> QED
    BY <1>1, <1>2, DrainingStep, Invariance, PTL DEF Spec

-----------------------------------------------------------------------------
(* The active container is in the ring.                                     *)
Retaining == Handling \cup {"get", "scan", "pop"}

(* A step that moves no container and takes no thread into or out of the   *)
(* handling of one keeps Located.                                          *)
LEMMA LocatedStutter ==
  ASSUME Located, UNCHANGED <<slot, empty, active, old>>, terminated => terminated',
         \A u \in Threads : pc[u] \in Handling => pc'[u] \in Handling,
         \A u \in Threads : pc'[u] \in Retaining => pc[u] \in Retaining
  PROVE  Located'
  BY DEF Located, Retaining

(* From RingStore, which puts the active container in the ring and takes   *)
(* the one it replaces out, to TakeEmpty, which takes the next.            *)
LEMMA LocatedStep == Inv /\ Located /\ [Next]_vars => Located'
  <1> SUFFICES ASSUME Inv, Located, [Next]_vars PROVE Located'
    OBVIOUS
  <1> USE DEF senderVars, mbufVars, threadVars, clientVars, ctlVars, historyVars, peerVars,
              Handling, Retaining
  <1>0. TypeOK /\ Mutex /\ NeverDeferred /\ Owned /\ Window
    BY DEF Inv
  <1>a. /\ slot \in [RingSlots -> Containers \cup {NoContainer}] /\ empty \in Seq(Containers)
        /\ Len(empty) \in Nat /\ active \in Containers /\ pc \in [Threads -> ThreadStates]
    BY <1>0 DEF TypeOK, SenderTypeOK, RingSlots
  <1>1. ASSUME NEW t \in Threads, SendCall(t) \/ FlushCall(t) \/ AutoFlushCall(t) PROVE Located'
    <2>1. pc[t] = "idle" /\ Goto(t, "lock") /\ UNCHANGED <<slot, empty, active, old, terminated>>
      BY <1>1 DEF SendCall, FlushCall, AutoFlushCall
    <2> QED
      BY <1>0, <2>1, MovesAlone, LocatedStutter DEF TypeOK
  <1>2. ASSUME NEW t \in Threads, SendStore(t) \/ SendFull(t) \/ FlushLocked(t) PROVE Located'
    <2>1. pc[t] = "lock" /\ (Goto(t, "finish") \/ Goto(t, "idle"))
      BY <1>2 DEF SendStore, SendFull, FlushLocked, AfterInsert
    <2>2. UNCHANGED <<slot, empty, active, old, terminated>>
      BY <1>2 DEF SendStore, SendFull, FlushLocked
    <2> QED
      BY <1>0, <2>1, <2>2, MovesAlone, LocatedStutter DEF TypeOK
  <1>3. ASSUME NEW t \in Threads,
               FinishHeader(t) \/ FinishRepeat(t) \/ FinishYield(t) \/ FinishRelock(t)
        PROVE  Located'
    <2>1. UNCHANGED <<slot, empty, active, old, terminated>>
      BY <1>3 DEF FinishHeader, FinishRepeat, FinishYield, FinishRelock
    <2>2. CASE terminated
      BY <2>1, <2>2 DEF Located
    <2>3. CASE ~terminated
      <3>1. \/ pc'= pc
            \/ /\ pc[t] \in {"finish", "repeat", "yield", "relock"}
               /\ \/ Goto(t, "repeat") \/ Goto(t, "store") \/ Goto(t, "yield") \/ Goto(t, "relock")
        BY <1>3, <2>3 DEF FinishHeader, FinishRepeat, FinishYield, FinishRelock
      <3> QED
        BY <1>0, <2>1, <3>1, MovesAlone, LocatedStutter DEF TypeOK
    <2> QED
      BY <2>2, <2>3
  <1>4. ASSUME NEW t \in Threads, RingStore(t) PROVE Located'
    <2>1. \A u \in Threads : u # t => pc[u] \notin Holding
      BY <1>0, <1>4, Alone DEF RingStore, Holding
    <2>2. head % BufferCount \in RingSlots
      BY <1>0, RingAssumption DEF RingSlots, TypeOK, SenderTypeOK
    <2>3. /\ slot' = [slot EXCEPT ![head % BufferCount] = active]
          /\ old' = slot[head % BufferCount] /\ UNCHANGED <<empty, active, terminated>>
          /\ pc[t] = "store" /\ pc'[t] = "publish"
      BY <1>0, <1>4, MovesAlone DEF RingStore, At, TypeOK
    <2>4. \A u \in Threads : pc[u] \notin Retaining
      BY <2>1, <2>3 DEF Holding
    <2>5. /\ slot'[head % BufferCount] = active
          /\ \A j \in RingSlots : j # head % BufferCount => slot'[j] = slot[j]
      BY <1>a, <2>2, <2>3
    <2>6. ASSUME NEW k \in Containers, NEW j \in RingSlots, slot[j] = k
          PROVE  k = old' \/ \E i \in RingSlots : slot'[i] = k
      BY <2>3, <2>5, <2>6
    <2> QED
      BY <2>2, <2>3, <2>4, <2>5, <2>6 DEF Located
  <1>5. ASSUME NEW t \in Threads, RingPublish(t) \/ RingAdvanceTail(t) PROVE Located'
    <2>1. UNCHANGED <<slot, empty, active, old, terminated>> /\ pc[t] \in {"publish", "full"}
      BY <1>5 DEF RingPublish, RingAdvanceTail
    <2>2. Goto(t, "full") \/ Goto(t, "peek") \/ (Goto(t, "get") /\ old = NoContainer)
      BY <1>5 DEF RingPublish, RingAdvanceTail
    <2>3. CASE Goto(t, "get") /\ old = NoContainer
      <3>1. \A u \in Threads : u # t => pc[u] \notin Holding
        BY <1>0, <2>1, Alone DEF Holding
      <3>2. \A k \in Containers : k # old
        BY <2>3 DEF Containers, NoContainer
      <3> QED
        BY <1>0, <2>1, <2>3, <3>1, <3>2, MovesAlone DEF Located, Holding, TypeOK
    <2> QED
      BY <1>0, <2>1, <2>2, <2>3, MovesAlone, LocatedStutter DEF TypeOK
  <1>6. ASSUME NEW t \in Threads, OldPeek(t) \/ OldUnref(t) \/ OldClear(t) PROVE Located'
    <2>1. UNCHANGED <<slot, empty, active, old, terminated>>
          /\ pc[t] \in {"peek", "unref", "clear"}
      BY <1>6 DEF OldPeek, OldUnref, OldClear
    <2>2. Goto(t, "clear") \/ Goto(t, "unref") \/ Goto(t, "wipe")
      <3>1. CASE OldPeek(t)
        BY <3>1 DEF OldPeek
      <3>2. CASE OldClear(t)
        BY <3>2 DEF OldClear
      <3>3. CASE OldUnref(t)
        <4>1. old \in Containers /\ cont[old] \in ContainerType
          BY <1>0, <3>3 DEF OldUnref, NeverDeferred, TypeOK, SenderTypeOK
        <4>2. cont[old].ref = 1
          BY <1>0, <2>1, <3>3, <4>1, Alone DEF OldUnref, NeverDeferred, Holding
        <4>3. Decremented(cont[old]).ref = 0
          BY <4>1, <4>2, DecrementedType
        <4> QED
          BY <3>3, <4>3 DEF OldUnref
      <3> QED
        BY <1>6, <3>1, <3>2, <3>3
    <2> QED
      BY <1>0, <2>1, <2>2, MovesAlone, LocatedStutter DEF TypeOK
  <1>7. ASSUME NEW t \in Threads, OldWipe(t) PROVE Located'
    <2>1. \A u \in Threads : u # t => pc[u] \notin Holding
      BY <1>0, <1>7, Alone DEF OldWipe, Holding
    <2>2. /\ pc[t] = "wipe" /\ pc'[t] = "get" /\ empty' = Append(empty, old)
          /\ UNCHANGED <<slot, active, old, terminated>> /\ old \in Containers
          /\ \A u \in Threads : u # t => pc'[u] = pc[u]
      BY <1>0, <1>7, MovesAlone DEF OldWipe, NeverDeferred, TypeOK
    <2>3. /\ Len(empty') = Len(empty) + 1 /\ empty'[Len(empty) + 1] = old
          /\ \A i \in 1 .. Len(empty) : empty'[i] = empty[i]
      BY <1>a, <2>2, AppendProperties
    <2>4. /\ Len(empty) + 1 \in 1 .. Len(empty')
          /\ \A i \in 1 .. Len(empty) : i \in 1 .. Len(empty')
      BY <1>a, <2>3
    <2> QED
      BY <2>1, <2>2, <2>3, <2>4 DEF Located, Holding
  <1>8. ASSUME NEW t \in Threads, ScanBegin(t) \/ ScanEnd(t) PROVE Located'
    <2>1. UNCHANGED <<slot, empty, active, old, terminated>> /\ pc[t] \in {"get", "scan"}
      BY <1>8 DEF ScanBegin, ScanEnd
    <2>2. Goto(t, "scan") \/ Goto(t, "pop")
      BY <1>8 DEF ScanBegin, ScanEnd
    <2> QED
      BY <1>0, <2>1, <2>2, MovesAlone, LocatedStutter DEF TypeOK
  <1>9. ASSUME NEW t \in Threads, ScanLook(t) PROVE Located'
    <2>1. pc[t] = "scan" /\ scan <= Len(deferred)
      BY <1>9 DEF ScanLook
    <2>2. scan >= 1 /\ deferred = <<>>
      BY <1>0, <2>1 DEF NeverDeferred
    <2> QED
      BY <1>0, <2>1, <2>2, EmptySeq DEF TypeOK, SenderTypeOK
  <1>10. ASSUME NEW t \in Threads, ScanReclaim(t) \/ ScanWipe(t) PROVE Located'
    BY <1>0, <1>10 DEF ScanReclaim, ScanWipe, NeverDeferred
  <1>11. ASSUME NEW t \in Threads, TakeForSend(t) \/ TakeForSwitch(t) \/ TakeForFlush(t)
         PROVE  Located'
    <2>1. TakeEmpty(t) /\ UNCHANGED <<slot, terminated>> /\ (Goto(t, "idle") \/ Goto(t, "finish"))
      BY <1>11 DEF TakeForSend, TakeForSwitch, TakeForFlush, AfterInsert
    <2>2. /\ pc[t] \in {"get", "pop"} /\ pc'[t] \in {"idle", "finish"}
          /\ \A u \in Threads : u # t => pc'[u] = pc[u]
      BY <1>0, <2>1, MovesAlone DEF TakeEmpty, TypeOK
    <2>3. \A u \in Threads : u # t => pc[u] \notin Holding
      BY <1>0, <2>2, Alone DEF Holding
    <2>4. /\ empty # <<>> /\ active' = Last(empty) /\ empty' = Front(empty)
      BY <2>1 DEF TakeEmpty
    <2>5. /\ Len(empty') = Len(empty) - 1 /\ active' = empty[Len(empty)]
          /\ \A i \in 1 .. Len(empty) - 1 : empty'[i] = empty[i]
      BY <1>a, <2>4, PopType
    <2>6. \A i \in 1 .. Len(empty) : i = Len(empty) \/ i \in 1 .. Len(empty')
      BY <1>a, <2>5
    <2>7. SUFFICES ASSUME ~terminated' PROVE Located'
      BY DEF Located
    <2>8. \E j \in RingSlots : slot[j] = active
      BY <2>1, <2>2, <2>7 DEF Located
    <2>9. \A u \in Threads : pc'[u] \notin Retaining /\ pc[u] \notin Handling
      BY <2>2, <2>3 DEF Holding
    <2>10. \A k \in Containers :
             \/ \E j \in RingSlots : slot[j] = k
             \/ \E i \in 1 .. Len(empty) : empty[i] = k
      BY <2>1, <2>7, <2>8, <2>9 DEF Located
    <2>11. \A k \in Containers :
             \/ \E j \in RingSlots : slot[j] = k
             \/ k = active'
             \/ \E i \in 1 .. Len(empty') : empty'[i] = k
      BY <2>5, <2>6, <2>10
    <2> QED
      BY <2>1, <2>9, <2>11 DEF Located
  <1>12. ASSUME NEW c \in Clients, AcceptPeer(c) PROVE Located'
    BY <1>12, LocatedStutter DEF AcceptPeer
  <1>13. CASE AcceptStep
    BY <1>13, LocatedStutter DEF AcceptStep, AcceptTop, AcceptLock, AcceptRefuse, AcceptList,
                                 AcceptCount
  <1>14. CASE TerminateCall \/ TerminateStep \/ SetBufferSwitch
    BY <1>14, LocatedStutter DEF TerminateCall, TerminateStep, TerminateDrained, TerminateSet,
                                 SetBufferSwitch
  <1>15. ASSUME NEW c \in Clients, PeerStep(c) PROVE Located'
    <2>1. UNCHANGED <<slot, empty, active, old, terminated, pc>>
      BY <1>15 DEF PeerStep, PeerTop, PeerQuit, PeerPick, PeerSent, PeerBroken, PeerLeave,
                   Disconnect
    <2> QED
      BY <2>1, LocatedStutter
  <1>16. CASE UNCHANGED vars
    BY <1>16, LocatedStutter DEF vars
  <1> QED
    BY <1>1, <1>2, <1>3, <1>4, <1>5, <1>6, <1>7, <1>8, <1>9, <1>10, <1>11, <1>12, <1>13,
       <1>14, <1>15, <1>16
    DEF Next, SharedStep, ThreadStep

(* Counting the places of a container in the ring or on a stack.           *)
LEMMA CountNone ==
  ASSUME NEW D, NEW f, NEW k, \A i \in D : f[i] # k
  PROVE  Cardinality({i \in D : f[i] = k}) = 0
  <1>1. {i \in D : f[i] = k} = {}
    OBVIOUS
  <1> QED
    BY <1>1, FS_EmptySet

(* What only one index has is counted once.                                *)
LEMMA CountOne ==
  ASSUME NEW D, NEW f, NEW k, NEW i \in D, f[i] = k, \A j \in D : f[j] = k => j = i
  PROVE  Cardinality({j \in D : f[j] = k}) = 1
  <1>1. {j \in D : f[j] = k} = {i}
    OBVIOUS
  <1> QED
    BY <1>1, FS_Singleton

(* With Owned (at most one place) and Located (at least one) it is one.    *)
LEMMA InOnePlace == Inv /\ Located => ContainersKept
  <1> SUFFICES ASSUME Inv, Located,
                      \A t \in Threads : pc[t] \notin Handling \cup {"rewipe"},
                      NEW k \in Containers
               PROVE  Places(k) = 1 \/ (terminated /\ Places(k) = 0)
    BY DEF ContainersKept, Handling
  <1>1. /\ DOMAIN slot = RingSlots /\ DOMAIN empty = 1 .. Len(empty)
        /\ DOMAIN deferred = {} /\ k # NoContainer
    BY EmptySeq DEF Inv, TypeOK, SenderTypeOK, RingSlots, NeverDeferred, Containers, NoContainer
  <1>2. Owned
    BY DEF Inv
  <1> DEFINE Stack == 1 .. Len(empty)
             inRing == Cardinality({i \in RingSlots : slot[i] = k})
             onStack == Cardinality({i \in Stack : empty[i] = k})
  <1>3. Places(k) = inRing + onStack + 0
                      + (IF active = k /\ ~\E i \in RingSlots : slot[i] = k THEN 1 ELSE 0)
    <2>1. Cardinality({i \in DOMAIN deferred : deferred[i] = k}) = 0
      BY <1>1, CountNone
    <2> QED
      BY <1>1, <2>1 DEF Places
  <1> HIDE DEF Stack
  <1>4. CASE \E j \in RingSlots : slot[j] = k
    <2>1. PICK j \in RingSlots : slot[j] = k
      BY <1>4
    <2>2. \A i \in RingSlots : slot[i] = k => i = j
      BY <1>1, <1>2, <2>1 DEF Owned, Stack
    <2>3. \A i \in Stack : empty[i] # k
      BY <1>2, <2>1 DEF Owned, Stack
    <2>4. inRing = 1
      BY <2>1, <2>2, CountOne
    <2>5. onStack = 0
      BY <2>3, CountNone
    <2> HIDE DEF inRing, onStack
    <2> QED
      BY <1>3, <1>4, <2>4, <2>5
  <1>5. CASE ~(\E j \in RingSlots : slot[j] = k) /\ \E i \in Stack : empty[i] = k
    <2>1. PICK i \in Stack : empty[i] = k
      BY <1>5
    <2>2. active # k /\ \A j \in Stack : empty[j] = k => j = i
      BY <1>2, <2>1 DEF Owned, Stack
    <2>3. inRing = 0
      BY <1>5, CountNone
    <2>4. onStack = 1
      BY <2>1, <2>2, CountOne
    <2> HIDE DEF inRing, onStack
    <2> QED
      BY <1>3, <2>2, <2>3, <2>4
  <1>6. CASE ~(\E j \in RingSlots : slot[j] = k) /\ ~(\E i \in Stack : empty[i] = k)
    <2>1. inRing = 0
      BY <1>6, CountNone
    <2>2. onStack = 0
      BY <1>6, CountNone
    <2>3. active = k \/ terminated
      BY <1>6 DEF Located, Stack
    <2> HIDE DEF inRing, onStack
    <2> QED
      BY <1>3, <1>6, <2>1, <2>2, <2>3
  <1> QED
    BY <1>4, <1>5, <1>6

(* At first every container but the active one is empty.                   *)
LEMMA LocatedInit == Init => Located
  <1> SUFFICES ASSUME Init PROVE Located
    OBVIOUS
  <1> USE DEF Init, SenderInit, EmptyAtFirst
  <1>1. Len(empty) = BufferCount + MaxClients
    BY RingAssumption
  <1>2. ASSUME NEW k \in Containers, k # active PROVE \E i \in 1 .. Len(empty) : empty[i] = k
    <2>1. k + 1 \in 1 .. Len(empty) /\ empty[k + 1] = k
      BY <1>1, <1>2, RingAssumption DEF Containers
    <2> QED
      BY <2>1
  <1>3. \A t \in Threads : pc[t] = "idle"
    OBVIOUS
  <1> QED
    BY <1>2, <1>3 DEF Located, Handling

(* No container is lost or put in two places: the pool of                  *)
(* active_containers + max_clients + 1 never runs short of one for a leak. *)
THEOREM ContainersStay == Spec => []ContainersKept
  BY LocatedInit, LocatedStep, InOnePlace, Invariance, PTL DEF Spec

-----------------------------------------------------------------------------
(* Containers on the stack are neither active nor being recycled.          *)
LEMMA CleanStutter ==
  ASSUME TypeOK, Owned, Clean, UNCHANGED empty,
         \A k \in Containers : k # active => cont'[k].msgs = cont[k].msgs
  PROVE  Clean'
  <1>1. \A i \in 1 .. Len(empty) : empty[i] \in Containers /\ empty[i] # active
    BY DEF TypeOK, SenderTypeOK, Owned
  <1> QED
    BY <1>1 DEF Clean

(* t_cont_clear wipes a container before t_stack_push returns it.          *)
LEMMA CleanStep == Inv /\ Clean /\ [Next]_vars => Clean'
  <1> SUFFICES ASSUME Inv, Clean, [Next]_vars PROVE Clean'
    OBVIOUS
  <1> USE DEF senderVars, mbufVars, threadVars, clientVars, ctlVars, historyVars, peerVars
  <1>0. TypeOK /\ Mutex /\ NeverDeferred /\ Owned
    BY DEF Inv
  <1>a. /\ cont \in [Containers -> ContainerType] /\ active \in Containers
        /\ empty \in Seq(Containers) /\ Len(empty) \in Nat /\ head \in Nat
    BY <1>0 DEF TypeOK, SenderTypeOK
  <1>1. ASSUME UNCHANGED <<empty, cont>> PROVE Clean'
    BY <1>0, <1>1, CleanStutter
  <1>2. ASSUME NEW t \in Threads,
               SendCall(t) \/ FlushCall(t) \/ AutoFlushCall(t) \/ SendFull(t) \/ FlushLocked(t)
               \/ FinishRepeat(t) \/ FinishYield(t) \/ FinishRelock(t)
        PROVE  Clean'
    BY <1>1, <1>2 DEF SendCall, FlushCall, AutoFlushCall, SendFull, FlushLocked, FinishRepeat,
                      FinishYield, FinishRelock
  <1>3. ASSUME NEW t \in Threads,
               RingStore(t) \/ RingPublish(t) \/ RingAdvanceTail(t) \/ OldPeek(t)
               \/ ScanBegin(t) \/ ScanLook(t) \/ ScanEnd(t)
        PROVE  Clean'
    BY <1>1, <1>3 DEF RingStore, RingPublish, RingAdvanceTail, OldPeek, ScanBegin, ScanLook,
                      ScanEnd
  <1>4. ASSUME NEW t \in Threads, SendStore(t) \/ FinishHeader(t) PROVE Clean'
    <2>1. UNCHANGED empty /\ \A k \in Containers : k # active => cont'[k] = cont[k]
      BY <1>a, <1>4 DEF SendStore, FinishHeader
    <2> QED
      BY <1>0, <2>1, CleanStutter
  <1>5. ASSUME NEW t \in Threads, OldUnref(t) \/ OldClear(t) PROVE Clean'
    <2>1. old \in Containers /\ cont[old] \in ContainerType
      BY <1>0, <1>a, <1>5 DEF OldUnref, OldClear, NeverDeferred
    <2>2. cont'[old].msgs = cont[old].msgs /\ \A k \in Containers : k # old => cont'[k] = cont[k]
      <3>1. CASE OldClear(t)
        BY <1>a, <2>1, <3>1, RenewedType DEF OldClear
      <3>2. CASE OldUnref(t)
        <4>1. Decremented(cont[old]) \in ContainerType
              /\ Decremented(cont[old]).msgs = cont[old].msgs
          BY <2>1, DecrementedType
        <4>2. Renumbered(Decremented(cont[old])).msgs = cont[old].msgs
          BY <4>1, RenumberedType
        <4>3. \/ cont' = [cont EXCEPT ![old] = Decremented(cont[old])]
              \/ cont' = [cont EXCEPT ![old] = Renumbered(Decremented(cont[old]))]
          BY <3>2 DEF OldUnref
        <4> QED
          BY <1>a, <2>1, <4>1, <4>2, <4>3
      <3> QED
        BY <1>5, <3>1, <3>2
    <2>3. UNCHANGED empty
      BY <1>5 DEF OldUnref, OldClear
    <2> QED
      BY <1>0, <2>2, <2>3, CleanStutter
  <1>6. ASSUME NEW t \in Threads, OldWipe(t) PROVE Clean'
    <2>1. old \in Containers /\ cont[old] \in ContainerType
      BY <1>0, <1>a, <1>6 DEF OldWipe, NeverDeferred
    <2>2. cont'[old].msgs = <<>> /\ \A k \in Containers : k # old => cont'[k] = cont[k]
      BY <1>a, <1>6, <2>1, WipedType DEF OldWipe
    <2>3. /\ Len(empty') = Len(empty) + 1 /\ empty'[Len(empty) + 1] = old
          /\ \A i \in 1 .. Len(empty) : empty'[i] = empty[i] /\ empty[i] \in Containers
      BY <1>a, <1>6, <2>1, AppendProperties DEF OldWipe
    <2>4. \A i \in 1 .. Len(empty') : i \in 1 .. Len(empty) \/ i = Len(empty) + 1
      BY <1>a, <2>3
    <2>5. \A i \in 1 .. Len(empty) : cont'[empty[i]].msgs = <<>>
      BY <2>2, <2>3 DEF Clean
    <2> QED
      BY <2>2, <2>3, <2>4, <2>5 DEF Clean
  <1>7. ASSUME NEW t \in Threads, ScanReclaim(t) \/ ScanWipe(t) PROVE Clean'
    BY <1>0, <1>7 DEF ScanReclaim, ScanWipe, NeverDeferred
  <1>8. ASSUME NEW t \in Threads, TakeForSend(t) \/ TakeForSwitch(t) \/ TakeForFlush(t)
        PROVE  Clean'
    <2>1. empty # <<>> /\ active' = Last(empty) /\ empty' = Front(empty)
      BY <1>8 DEF TakeForSend, TakeForSwitch, TakeForFlush, TakeEmpty
    <2>2. /\ Len(empty') = Len(empty) - 1 /\ active' = empty[Len(empty)]
          /\ \A i \in 1 .. Len(empty) - 1 : empty'[i] = empty[i]
      BY <1>a, <2>1, PopType
    <2>3. \A i \in 1 .. Len(empty') :
            i \in 1 .. Len(empty) /\ i # Len(empty) /\ empty'[i] = empty[i]
            /\ empty[i] \in Containers
      BY <1>a, <2>2
    <2>4. \A i \in 1 .. Len(empty') : empty[i] # active'
      BY <1>0, <1>a, <2>2, <2>3 DEF Owned
    <2>5. \A k \in Containers : k # active' => cont'[k] = cont[k]
      BY <1>a, <1>8 DEF TakeForSend, TakeForSwitch, TakeForFlush
    <2> QED
      BY <2>3, <2>4, <2>5 DEF Clean
  <1>9. ASSUME NEW c \in Clients, AcceptPeer(c) PROVE Clean'
    BY <1>1, <1>9 DEF AcceptPeer
  <1>10. CASE AcceptStep
    BY <1>1, <1>10 DEF AcceptStep, AcceptTop, AcceptLock, AcceptRefuse, AcceptList, AcceptCount
  <1>11. CASE TerminateCall \/ TerminateStep \/ SetBufferSwitch
    BY <1>1, <1>11 DEF TerminateCall, TerminateStep, TerminateDrained, TerminateSet,
                       SetBufferSwitch
  <1>12. ASSUME NEW c \in Clients, PeerStep(c) PROVE Clean'
    BY <1>1, <1>12 DEF PeerStep, PeerTop, PeerQuit, PeerPick, PeerSent, PeerBroken,
                       PeerLeave, Disconnect
  <1>13. CASE UNCHANGED vars
    BY <1>1, <1>13 DEF vars
  <1> QED
    BY <1>2, <1>3, <1>4, <1>5, <1>6, <1>7, <1>8, <1>9, <1>10, <1>11, <1>12, <1>13
    DEF Next, SharedStep, ThreadStep

(* The numbers of the stored messages, with one more.                      *)
LEMMA CountUp ==
  ASSUME NEW a \in Nat
  PROVE  /\ [i \in 1 .. a |-> i] \in Seq(Nat)
         /\ Append([i \in 1 .. a |-> i], a + 1) = [i \in 1 .. a + 1 |-> i]
  <1> DEFINE s == [i \in 1 .. a |-> i]
             r == [i \in 1 .. a + 1 |-> i]
  <1>1. s \in Seq(Nat) /\ r \in Seq(Nat) /\ Len(s) = a /\ Len(r) = a + 1
    BY IsASeq
  <1>2. Append(s, a + 1) \in Seq(Nat) /\ Len(Append(s, a + 1)) = a + 1
    BY <1>1, AppendProperties
  <1>3. \A i \in 1 .. a + 1 : Append(s, a + 1)[i] = r[i]
    BY <1>1, AppendProperties
  <1> QED
    BY <1>1, <1>2, <1>3, SeqEqual

(* Appending to the second part of a concatenation.                        *)
LEMMA ConcatAppend ==
  ASSUME NEW s \in Seq(Nat), NEW m \in Seq(Nat), NEW x \in Nat
  PROVE  s \o Append(m, x) = Append(s \o m, x)
  <1>1. Append(m, x) = m \o <<x>> /\ <<x>> \in Seq(Nat)
    BY AppendIsConcat
  <1>2. s \o m \in Seq(Nat)
    BY ConcatProperties
  <1>3. Append(s \o m, x) = (s \o m) \o <<x>>
    BY <1>2, AppendIsConcat
  <1> QED
    BY <1>1, <1>3, ConcatAssociative

(* A step that moves no message keeps NothingLost.                         *)
LEMMA LostStutter ==
  ASSUME NothingLost, UNCHANGED <<log, accepted>>, terminated => terminated',
         \/ ActiveIsPublished /\ ActiveIsPublished'
         \/ /\ ActiveIsPublished <=> ActiveIsPublished'
            /\ active' = active /\ cont'[active].msgs = cont[active].msgs
  PROVE  NothingLost'
  BY DEF NothingLost

(* Only SendStore and TakeForSend store a message, and only RingPublish    *)
(* publishes messages.                                                     *)
LEMMA NothingLostStep == Inv /\ Clean /\ NothingLost /\ [Next]_vars => NothingLost'
  <1> SUFFICES ASSUME Inv, Clean, NothingLost, [Next]_vars PROVE NothingLost'
    OBVIOUS
  <1> USE DEF senderVars, mbufVars, threadVars, clientVars, ctlVars, historyVars, peerVars
  <1>0. TypeOK /\ Mutex /\ NeverDeferred /\ Owned
    BY DEF Inv
  <1>a. /\ cont \in [Containers -> ContainerType] /\ active \in Containers
        /\ empty \in Seq(Containers) /\ Len(empty) \in Nat /\ head \in Nat
        /\ log \in Seq(Seq(Nat)) /\ accepted \in Nat /\ cont[active].msgs \in Seq(Nat)
        /\ processed \in Nat
    BY <1>0, ContainerFields DEF TypeOK, SenderTypeOK
  <1> DEFINE After == {"full", "peek", "unref", "clear", "wipe",
                       "get", "scan", "reclaim", "rewipe", "pop"}
             Up(n) == [i \in 1 .. n |-> i]
  <1>b. /\ ActiveIsPublished <=> \E u \in Threads : pc[u] \in After
        /\ ActiveIsPublished' <=> \E u \in Threads : pc'[u] \in After
        /\ After \subseteq Holding
    BY DEF ActiveIsPublished, Holding
  <1>c. FlattenSeq(log) \in Seq(Nat)
    BY <1>a, FlattenType
  <1> HIDE DEF After
  <1>1. ASSUME NEW t \in Threads, pc[t] \in After, NEW where \in After, Goto(t, where),
               UNCHANGED <<log, accepted, terminated>>
        PROVE  NothingLost'
    BY <1>0, <1>b, <1>1, MovesAlone, LostStutter DEF TypeOK
  <1>2. ASSUME NEW t \in Threads, pc[t] \notin After, NEW where, where \notin After, Goto(t, where),
               UNCHANGED <<log, accepted, terminated, active>>,
               cont'[active].msgs = cont[active].msgs
        PROVE  NothingLost'
    <2>1. ActiveIsPublished <=> ActiveIsPublished'
      BY <1>0, <1>b, <1>2, MovesAlone DEF TypeOK
    <2> QED
      BY <1>2, <2>1, LostStutter
  <1>3. ASSUME UNCHANGED <<log, accepted, active, cont, pc>>, terminated => terminated'
        PROVE  NothingLost'
    BY <1>3, LostStutter DEF ActiveIsPublished
  <1>4. ASSUME NEW t \in Threads, SendCall(t) \/ FlushCall(t) \/ AutoFlushCall(t) PROVE NothingLost'
    <2>1. /\ pc[t] = "idle" /\ Goto(t, "lock")
          /\ UNCHANGED <<log, accepted, terminated, active, cont>>
      BY <1>4 DEF SendCall, FlushCall, AutoFlushCall
    <2> QED
      BY <1>2, <2>1 DEF After
  <1>5. ASSUME NEW t \in Threads, SendStore(t) PROVE NothingLost'
    <2>1. \A u \in Threads : pc[u] \notin Holding
      BY <1>0, <1>5, ThreadAssumption DEF SendStore, Mutex, TypeOK, SenderTypeOK
    <2>2. /\ pc'[t] \in {"finish", "idle"} /\ \A u \in Threads : u # t => pc'[u] = pc[u]
          /\ UNCHANGED <<log, terminated, active>> /\ accepted' = accepted + 1
          /\ cont' = [cont EXCEPT ![active] = WithMessage(@)]
      BY <1>0, <1>5, MovesAlone DEF SendStore, AfterInsert, TypeOK
    <2>3. ~ActiveIsPublished /\ ~ActiveIsPublished'
      BY <1>b, <2>1, <2>2 DEF After
    <2>4. cont'[active].msgs = Append(cont[active].msgs, accepted + 1)
      BY <1>a, <2>2 DEF WithMessage, ContainerType
    <2>5. SUFFICES ASSUME ~terminated
                   PROVE  FlattenSeq(log) \o cont'[active].msgs = Up(accepted + 1)
      BY <2>2, <2>3 DEF NothingLost
    <2>6. FlattenSeq(log) \o cont[active].msgs = Up(accepted)
      BY <2>3, <2>5 DEF NothingLost
    <2>7. FlattenSeq(log) \o Append(cont[active].msgs, accepted + 1)
            = Append(FlattenSeq(log) \o cont[active].msgs, accepted + 1)
      BY <1>a, <1>c, ConcatAppend
    <2> QED
      BY <1>a, <2>4, <2>6, <2>7, CountUp
  <1>6. ASSUME NEW t \in Threads, SendFull(t) \/ FlushLocked(t) PROVE NothingLost'
    <2>1. /\ pc[t] = "lock" /\ (Goto(t, "finish") \/ Goto(t, "idle"))
          /\ UNCHANGED <<log, accepted, terminated, active, cont>>
      BY <1>6 DEF SendFull, FlushLocked
    <2> QED
      BY <1>2, <2>1 DEF After
  <1>7. ASSUME NEW t \in Threads, FinishHeader(t) PROVE NothingLost'
    <2>1. cont'[active].msgs = cont[active].msgs
      BY <1>a, <1>7, WithHeaderType DEF FinishHeader
    <2>2. /\ pc[t] = "finish" /\ (Goto(t, "repeat") \/ Goto(t, "store"))
          /\ UNCHANGED <<log, accepted, terminated, active>>
      BY <1>7 DEF FinishHeader
    <2> QED
      BY <1>2, <2>1, <2>2 DEF After
  <1>8. ASSUME NEW t \in Threads, FinishRepeat(t) PROVE NothingLost'
    <2>1. UNCHANGED <<log, accepted, terminated, active, cont>> /\ pc[t] = "repeat"
      BY <1>8 DEF FinishRepeat
    <2>2. terminated \/ pc' = pc \/ Goto(t, "store") \/ Goto(t, "yield")
      BY <1>8 DEF FinishRepeat
    <2>3. CASE terminated
      BY <2>1, <2>3 DEF NothingLost
    <2> QED
      BY <1>2, <1>3, <2>1, <2>2, <2>3 DEF After
  <1>9. ASSUME NEW t \in Threads, FinishYield(t) \/ FinishRelock(t) PROVE NothingLost'
    <2>1. /\ pc[t] \in {"yield", "relock"} /\ (Goto(t, "relock") \/ Goto(t, "repeat"))
          /\ UNCHANGED <<log, accepted, terminated, active, cont>>
      BY <1>9 DEF FinishYield, FinishRelock
    <2> QED
      BY <1>2, <2>1 DEF After
  <1>10. ASSUME NEW t \in Threads, RingStore(t) PROVE NothingLost'
    <2>1. /\ pc[t] = "store" /\ Goto(t, "publish")
          /\ UNCHANGED <<log, accepted, terminated, active, cont>>
      BY <1>10 DEF RingStore
    <2> QED
      BY <1>2, <2>1 DEF After
  <1>11. ASSUME NEW t \in Threads, RingPublish(t) PROVE NothingLost'
    <2>1. /\ pc[t] = "publish" /\ pc'[t] = "full" /\ log' = Append(log, cont[active].msgs)
          /\ UNCHANGED <<accepted, terminated, active, cont>>
      BY <1>0, <1>11, MovesAlone DEF RingPublish, TypeOK
    <2>2. \A u \in Threads : u # t => pc[u] \notin Holding
      BY <1>0, <2>1, Alone DEF Holding
    <2>3. ~ActiveIsPublished /\ ActiveIsPublished'
      BY <1>b, <2>1, <2>2 DEF After
    <2>4. FlattenSeq(log') = FlattenSeq(log) \o cont[active].msgs
      BY <1>a, <2>1, FlattenAppend
    <2>5. FlattenSeq(log') \in Seq(Nat)
      BY <1>a, <1>c, <2>4, ConcatProperties
    <2>6. FlattenSeq(log') \o <<>> = FlattenSeq(log')
      BY <2>5, ConcatEmptySeq
    <2>7. SUFFICES ASSUME ~terminated PROVE FlattenSeq(log') = Up(accepted)
      BY <2>1, <2>3, <2>6 DEF NothingLost
    <2> QED
      BY <2>3, <2>4, <2>7 DEF NothingLost
  <1>12. ASSUME NEW t \in Threads, RingAdvanceTail(t) \/ OldPeek(t) PROVE NothingLost'
    <2>1. /\ pc[t] \in {"full", "peek"}
          /\ Goto(t, "get") \/ Goto(t, "peek") \/ Goto(t, "clear") \/ Goto(t, "unref")
          /\ UNCHANGED <<log, accepted, terminated>>
      BY <1>12 DEF RingAdvanceTail, OldPeek
    <2> QED
      BY <1>1, <2>1 DEF After
  <1>13. ASSUME NEW t \in Threads, OldUnref(t) \/ OldClear(t) \/ OldWipe(t) PROVE NothingLost'
    <2>1. /\ pc[t] \in {"unref", "clear", "wipe"}
          /\ Goto(t, "get") \/ Goto(t, "clear") \/ Goto(t, "wipe")
          /\ UNCHANGED <<log, accepted, terminated>>
      BY <1>13 DEF OldUnref, OldClear, OldWipe
    <2> QED
      BY <1>1, <2>1 DEF After
  <1>14. ASSUME NEW t \in Threads, ScanBegin(t) \/ ScanEnd(t) PROVE NothingLost'
    <2>1. /\ pc[t] \in {"get", "scan"} /\ (Goto(t, "scan") \/ Goto(t, "pop"))
          /\ UNCHANGED <<log, accepted, terminated>>
      BY <1>14 DEF ScanBegin, ScanEnd
    <2> QED
      BY <1>1, <2>1 DEF After
  <1>15. ASSUME NEW t \in Threads, ScanLook(t) PROVE NothingLost'
    <2>1. pc[t] = "scan" /\ scan <= Len(deferred)
      BY <1>15 DEF ScanLook
    <2>2. scan >= 1 /\ deferred = <<>>
      BY <1>0, <2>1 DEF NeverDeferred
    <2> QED
      BY <1>0, <2>1, <2>2, EmptySeq DEF TypeOK, SenderTypeOK
  <1>16. ASSUME NEW t \in Threads, ScanReclaim(t) \/ ScanWipe(t) PROVE NothingLost'
    BY <1>0, <1>16 DEF ScanReclaim, ScanWipe, NeverDeferred
  <1>17. ASSUME NEW t \in Threads, TakeForSend(t) \/ TakeForSwitch(t) \/ TakeForFlush(t)
         PROVE  NothingLost'
    <2>1. TakeEmpty(t) /\ UNCHANGED <<log, terminated>> /\ (Goto(t, "idle") \/ Goto(t, "finish"))
      BY <1>17 DEF TakeForSend, TakeForSwitch, TakeForFlush, AfterInsert
    <2>2. /\ pc[t] \in {"get", "pop"} /\ pc'[t] \in {"idle", "finish"}
          /\ \A u \in Threads : u # t => pc'[u] = pc[u]
      BY <1>0, <2>1, MovesAlone DEF TakeEmpty, TypeOK
    <2>3. \A u \in Threads : u # t => pc[u] \notin Holding
      BY <1>0, <2>2, Alone DEF Holding
    <2>4. ActiveIsPublished /\ ~ActiveIsPublished'
      BY <1>b, <2>2, <2>3 DEF After
    <2>5. empty # <<>> /\ active' = Last(empty)
      BY <2>1 DEF TakeEmpty
    <2>6. active' = empty[Len(empty)] /\ Len(empty) \in 1 .. Len(empty) /\ active' \in Containers
      BY <1>a, <2>5, PopType
    <2>7. cont[active'] \in ContainerType /\ cont[active'].msgs = <<>>
      BY <1>a, <2>6 DEF Clean
    <2>8. SUFFICES ASSUME ~terminated
                   PROVE  FlattenSeq(log) \o cont'[active'].msgs = Up(accepted')
      BY <2>1, <2>4 DEF NothingLost
    <2>9. FlattenSeq(log) = Up(accepted)
      <3>1. FlattenSeq(log) \o <<>> = FlattenSeq(log)
        BY <1>c, ConcatEmptySeq
      <3> QED
        BY <2>4, <2>8, <3>1 DEF NothingLost
    <2>10. CASE TakeForSend(t)
      <3>1. /\ accepted' = accepted + 1
            /\ cont' = [cont EXCEPT ![active'] = WithMessage([@ EXCEPT !.seq = processed])]
        BY <2>10 DEF TakeForSend
      <3>2. [cont[active'] EXCEPT !.seq = processed] \in ContainerType
            /\ [cont[active'] EXCEPT !.seq = processed].msgs = <<>>
        BY <1>a, <2>7, NumberedType
      <3>3. cont'[active'].msgs = Append(<<>>, accepted + 1)
        BY <1>a, <2>6, <3>1, <3>2 DEF WithMessage, ContainerType
      <3>4. <<>> \in Seq(Nat)
        BY EmptySeq
      <3>5. FlattenSeq(log) \o Append(<<>>, accepted + 1)
              = Append(FlattenSeq(log) \o <<>>, accepted + 1)
        BY <1>a, <1>c, <3>4, ConcatAppend
      <3>6. FlattenSeq(log) \o <<>> = FlattenSeq(log)
        BY <1>c, ConcatEmptySeq
      <3> QED
        BY <1>a, <2>9, <3>1, <3>3, <3>5, <3>6, CountUp
    <2>11. CASE TakeForSwitch(t) \/ TakeForFlush(t)
      <3>1. UNCHANGED accepted /\ cont' = [cont EXCEPT ![active'].seq = processed]
        BY <2>11 DEF TakeForSwitch, TakeForFlush
      <3>2. cont'[active'].msgs = <<>>
        BY <1>a, <2>6, <2>7, <3>1, NumberedType
      <3> QED
        BY <1>c, <2>9, <3>1, <3>2, ConcatEmptySeq
    <2> QED
      BY <1>17, <2>10, <2>11
  <1>18. ASSUME NEW c \in Clients, AcceptPeer(c) PROVE NothingLost'
    BY <1>3, <1>18 DEF AcceptPeer
  <1>19. CASE AcceptStep
    BY <1>3, <1>19 DEF AcceptStep, AcceptTop, AcceptLock, AcceptRefuse, AcceptList, AcceptCount
  <1>20. CASE TerminateCall \/ TerminateStep \/ SetBufferSwitch
    BY <1>3, <1>20 DEF TerminateCall, TerminateStep, TerminateDrained, TerminateSet,
                       SetBufferSwitch
  <1>21. ASSUME NEW c \in Clients, PeerStep(c) PROVE NothingLost'
    <2>1. UNCHANGED <<log, accepted, active, cont, pc, terminated>>
      BY <1>21 DEF PeerStep, PeerTop, PeerQuit, PeerPick, PeerSent, PeerBroken, PeerLeave,
                   Disconnect
    <2> QED
      BY <1>3, <2>1
  <1>22. CASE UNCHANGED vars
    BY <1>3, <1>22 DEF vars
  <1> QED
    BY <1>4, <1>5, <1>6, <1>7, <1>8, <1>9, <1>10, <1>11, <1>12, <1>13, <1>14, <1>15, <1>16,
       <1>17, <1>18, <1>19, <1>20, <1>21, <1>22
    DEF Next, SharedStep, ThreadStep

(* Nothing has been stored yet.                                            *)
LEMMA LostInit == Init => Clean /\ NothingLost
  <1> SUFFICES ASSUME Init PROVE Clean /\ NothingLost
    OBVIOUS
  <1>1. /\ log = <<>> /\ accepted = 0 /\ ~terminated /\ ~ActiveIsPublished
        /\ \A k \in Containers : cont[k].msgs = <<>>
    BY DEF Init, SenderInit, ActiveIsPublished
  <1>2. active \in Containers /\ \A i \in 1 .. Len(empty) : empty[i] \in Containers
    BY TypeInit DEF TypeOK, SenderTypeOK
  <1>3. FlattenSeq(log) = <<>> /\ [i \in 1 .. 0 |-> i] = <<>>
    BY <1>1 DEF FlattenSeq
  <1> QED
    BY <1>1, <1>2, <1>3 DEF Clean, NothingLost

(* While the interface runs, the containers published so far followed by   *)
(* the active one hold all stored messages, once each, in their order.     *)
THEOREM NoMessageLost == Spec => []NothingLost
  BY LostInit, CleanStep, NothingLostStep, Invariance, PTL DEF Spec

-----------------------------------------------------------------------------
NumberKept(k) == cont'[k].msgs = cont[k].msgs /\ cont'[k].seq = cont[k].seq

(* What the operations on a container do to its number.                    *)
LEMMA NumberedContainer ==
  ASSUME NEW k \in ContainerType
  PROVE  /\ Decremented(k).seq = k.seq /\ Renumbered(k).seq = k.seq /\ Renewed(k).seq = k.seq
         /\ \A id \in Nat : WithHeader(k, id).seq = k.seq
         /\ WithMessage(k).seq = k.seq /\ WithMessage(k).msgs = Append(k.msgs, accepted + 1)
         /\ \A n \in Nat : [k EXCEPT !.seq = n].seq = n
  BY DEF ContainerType, Decremented, Renumbered, Renewed, WithHeader, WithMessage

(* A step that leaves the number and the messages of the active container  *)
(* and of those in the ring alone keeps Numbering.                         *)
LEMMA NumberStutter ==
  ASSUME TypeOK, TypeOK', Window, Numbering, tail' >= tail,
         UNCHANGED <<head, slot, active, bufferswitch, processed, accepted>>,
         \A u \in Threads : task'[u] # "switch",
         \A k \in Containers : k = active \/ (\E j \in RingSlots : slot[j] = k) => NumberKept(k)
  PROVE  Numbering'
  <1>1. /\ FirstNumbered(active)'
        /\ cont'[active].msgs = <<>> => cont'[active].seq = accepted
    BY DEF Numbering, FirstNumbered, NumberKept, TypeOK, SenderTypeOK
  <1>2. ASSUME NEW id \in tail' .. head - 1, cont'[At(id)].msgs # <<>>
        PROVE  cont'[At(id)].msgs[1] = cont'[At(id)].seq + 1
    <2>1. id \in tail .. head - 1
      BY DEF TypeOK, SenderTypeOK
    <2>2. At(id) \in Containers /\ \E j \in RingSlots : slot[j] = At(id)
      BY <2>1, InRing
    <2>3. NumberKept(At(id))
      BY <2>2
    <2> QED
      BY <1>2, <2>1, <2>3 DEF Numbering, Numbered, NumberKept
  <1>3. Numbered'
    BY <1>2 DEF Numbered, At
  <1> QED
    BY <1>1, <1>3 DEF Numbering

LEMMA AppendFirst ==
  ASSUME NEW s \in Seq(Nat), Len(s) > 0, NEW e \in Nat
  PROVE  Append(s, e)[1] = s[1] /\ Append(s, e) # <<>>
  <1>1. Append(s, e) \in Seq(Nat) /\ Len(Append(s, e)) = Len(s) + 1
    BY AppendProperties
  <1>2. 1 \in 1 .. Len(s)
    OBVIOUS
  <1>3. Append(s, e)[1] = s[1]
    BY <1>2, AppendProperties
  <1> QED
    BY <1>1, <1>3

(* processed_messages counts every message stored, so a container taken    *)
(* from the stack is numbered with that of its first message.              *)
LEMMA NumberingStep ==
  ASSUME BufferSwitches \subseteq {1}
  PROVE  Inv /\ Inv' /\ Clean /\ Numbering /\ [Next]_vars => Numbering'
  <1> SUFFICES ASSUME Inv, Inv', Clean, Numbering, [Next]_vars PROVE Numbering'
    OBVIOUS
  <1> USE DEF senderVars, mbufVars, threadVars, clientVars, ctlVars, historyVars, peerVars
  <1>0. TypeOK /\ TypeOK' /\ Mutex /\ NeverDeferred /\ Owned /\ Window
    BY DEF Inv
  <1>a. /\ cont \in [Containers -> ContainerType] /\ active \in Containers
        /\ empty \in Seq(Containers) /\ Len(empty) \in Nat
        /\ head \in Nat /\ tail \in Nat /\ tail' \in Nat
        /\ accepted \in Nat /\ cont[active].msgs \in Seq(Nat) /\ processed \in Nat
        /\ slot \in [RingSlots -> Containers \cup {NoContainer}]
        /\ task \in [Threads -> {"send", "switch", "flush"}]
    <2>1. tail' \in Nat
      BY <1>0 DEF TypeOK, SenderTypeOK
    <2>2. cont \in [Containers -> ContainerType] /\ active \in Containers
      BY <1>0 DEF TypeOK, SenderTypeOK
    <2>3. cont[active].msgs \in Seq(Nat)
      BY <2>2, ContainerFields
    <2>4. slot \in [RingSlots -> Containers \cup {NoContainer}]
      BY <1>0 DEF TypeOK, SenderTypeOK, RingSlots
    <2>5. empty \in Seq(Containers) /\ Len(empty) \in Nat
      BY <1>0 DEF TypeOK, SenderTypeOK
    <2>6. /\ head \in Nat /\ tail \in Nat /\ accepted \in Nat /\ processed \in Nat
          /\ task \in [Threads -> {"send", "switch", "flush"}]
      BY <1>0 DEF TypeOK, SenderTypeOK
    <2> QED
      BY <2>1, <2>2, <2>3, <2>4, <2>5, <2>6
  <1>1. ASSUME UNCHANGED <<head, tail, slot, cont, active, bufferswitch, processed, accepted, task>>
        PROVE  Numbering'
    BY <1>1 DEF Numbering, FirstNumbered, Numbered, At
  <1>2. ASSUME NEW t \in Threads, SendCall(t) \/ FlushCall(t) \/ AutoFlushCall(t) PROVE Numbering'
    <2>1. UNCHANGED <<head, tail, slot, cont, active, bufferswitch, processed, accepted>>
      BY <1>2 DEF SendCall, FlushCall, AutoFlushCall
    <2>2. \A u \in Threads : task'[u] # "switch"
      BY <1>a, <1>2 DEF SendCall, FlushCall, AutoFlushCall, Numbering
    <2> QED
      BY <1>0, <1>a, <2>1, <2>2, NumberStutter DEF NumberKept
  <1>3. ASSUME NEW t \in Threads, SendStore(t) PROVE Numbering'
    <2>1. \A u \in Threads : pc[u] \notin Holding
      BY <1>0, <1>3, ThreadAssumption DEF SendStore, Mutex, TypeOK, SenderTypeOK
    <2>2. /\ processed' = processed + 1 /\ accepted' = accepted + 1
          /\ cont' = [cont EXCEPT ![active] = WithMessage(@)]
          /\ UNCHANGED <<task, head, tail, slot, active, bufferswitch>>
      BY <1>3 DEF SendStore, AfterInsert, Numbering
    <2>3. \A j \in RingSlots : slot[j] # active
      BY <1>0, <2>1 DEF Owned, Holding
    <2>4. \A id \in tail .. head - 1 : At(id) \in Containers /\ At(id) # active
      BY <1>0, <2>3, InRing
    <2>5. \A k \in Containers : k # active => cont'[k] = cont[k]
      BY <1>a, <2>2
    <2>6. Numbered'
      BY <2>2, <2>4, <2>5 DEF Numbering, Numbered, At
    <2>7. /\ cont'[active].seq = cont[active].seq
          /\ cont'[active].msgs = Append(cont[active].msgs, accepted + 1)
      BY <1>a, <2>2, NumberedContainer
    <2>8. cont'[active].msgs # <<>> /\ FirstNumbered(active)'
      <3>1. CASE cont[active].msgs = <<>>
        <4>1. cont'[active].msgs = <<accepted + 1>>
          BY <2>7, <3>1
        <4> QED
          BY <2>2, <2>7, <3>1, <4>1 DEF FirstNumbered, Numbering
      <3>2. CASE cont[active].msgs # <<>>
        <4>1. Len(cont[active].msgs) > 0
          BY <1>a, <3>2, EmptySeq
        <4>3. PICK s : s = cont[active].msgs /\ s \in Seq(Nat) /\ Len(s) > 0
                      /\ accepted + 1 \in Nat
          BY <1>a, <4>1
        <4>4. Append(s, accepted + 1)[1] = s[1] /\ Append(s, accepted + 1) # <<>>
          BY <4>3, AppendFirst
        <4>2. cont'[active].msgs[1] = cont[active].msgs[1] /\ cont'[active].msgs # <<>>
          BY <2>7, <4>3, <4>4
        <4> QED
          BY <2>2, <2>7, <3>2, <4>2 DEF FirstNumbered, Numbering
      <3> QED
        BY <3>1, <3>2
    <2> QED
      BY <2>2, <2>6, <2>8 DEF Numbering
  <1>4. ASSUME NEW t \in Threads, SendFull(t) \/ FlushLocked(t) PROVE Numbering'
    BY <1>1, <1>4 DEF SendFull, FlushLocked
  <1>5. ASSUME NEW t \in Threads, FinishHeader(t) PROVE Numbering'
    <2>1. NumberKept(active) /\ \A k \in Containers : k # active => NumberKept(k)
      BY <1>a, <1>5, WithHeaderType, NumberedContainer DEF FinishHeader, NumberKept
    <2> QED
      BY <1>0, <1>a, <1>5, <2>1, NumberStutter DEF FinishHeader, Numbering
  <1>6. ASSUME NEW t \in Threads, FinishRepeat(t) \/ FinishYield(t) \/ FinishRelock(t)
        PROVE Numbering'
    BY <1>1, <1>6 DEF FinishRepeat, FinishYield, FinishRelock
  <1>7. ASSUME NEW t \in Threads, RingStore(t) PROVE Numbering'
    <2>1. \A u \in Threads : u # t => pc[u] \notin Holding
      BY <1>0, <1>7, Alone DEF RingStore, Holding
    <2>2. /\ UNCHANGED <<head, tail, cont, active, bufferswitch, processed, accepted, task>>
          /\ slot' = [slot EXCEPT ![head % BufferCount] = active] /\ pc[t] = "store"
      BY <1>7 DEF RingStore
    <2>3. head - tail < BufferCount
      BY <1>0, <2>1, <2>2, RingAssumption DEF Window, Holding, TypeOK, SenderTypeOK
    <2>4. ASSUME NEW id \in tail .. head - 1 PROVE At(id)' = At(id)
      <3>1. id \in Nat /\ id < head /\ head - id < BufferCount
        BY <1>a, <2>3, RingAssumption
      <3>2. id % BufferCount # head % BufferCount
        BY <1>a, <3>1, DistinctSlots
      <3> QED
        BY <1>a, <2>2, <3>1, <3>2, SlotOf DEF At
    <2> QED
      BY <2>2, <2>4 DEF Numbering, FirstNumbered, Numbered
  <1>8. ASSUME NEW t \in Threads, RingPublish(t) PROVE Numbering'
    <2>1. /\ UNCHANGED <<tail, slot, cont, active, bufferswitch, processed, accepted, task>>
          /\ head' = head + 1 /\ At(head) = active
      BY <1>0, <1>8 DEF RingPublish, Owned
    <2>2. \A id \in tail .. head' - 1 : id \in tail .. head - 1 \/ id = head
      BY <1>a, <2>1
    <2> QED
      BY <2>1, <2>2 DEF Numbering, FirstNumbered, Numbered, At
  <1>9. ASSUME NEW t \in Threads, RingAdvanceTail(t) PROVE Numbering'
    <2>1. UNCHANGED <<head, slot, cont, active, bufferswitch, processed, accepted, task>>
          /\ tail' >= tail
      BY <1>a, <1>9 DEF RingAdvanceTail
    <2> QED
      BY <1>0, <2>1, NumberStutter DEF Numbering, NumberKept
  <1>10. ASSUME NEW t \in Threads, OldPeek(t) \/ ScanBegin(t) \/ ScanEnd(t) PROVE Numbering'
    BY <1>1, <1>10 DEF OldPeek, ScanBegin, ScanEnd
  <1>11. ASSUME NEW t \in Threads, OldUnref(t) \/ OldClear(t) \/ OldWipe(t) PROVE Numbering'
    <2>1. /\ old \in Containers /\ pc[t] \in {"unref", "clear", "wipe"} /\ old # NoContainer
      BY <1>0, <1>11 DEF OldUnref, OldClear, OldWipe, NeverDeferred, Containers, NoContainer
    <2>2. old # active /\ \A j \in RingSlots : slot[j] # old
      BY <1>0, <2>1 DEF Owned
    <2>3. \A k \in Containers : k # old => cont'[k] = cont[k]
      BY <1>a, <1>11, <2>1 DEF OldUnref, OldClear, OldWipe
    <2>4. UNCHANGED <<head, tail, slot, active, bufferswitch, processed, accepted, task>>
      BY <1>11 DEF OldUnref, OldClear, OldWipe
    <2> QED
      BY <1>0, <1>a, <2>2, <2>3, <2>4, NumberStutter DEF Numbering, NumberKept
  <1>12. ASSUME NEW t \in Threads, ScanLook(t) PROVE Numbering'
    BY <1>1, <1>12 DEF ScanLook
  <1>13. ASSUME NEW t \in Threads, ScanReclaim(t) \/ ScanWipe(t) PROVE Numbering'
    BY <1>0, <1>13 DEF ScanReclaim, ScanWipe, NeverDeferred
  <1>14. ASSUME NEW t \in Threads, TakeForSend(t) \/ TakeForFlush(t) PROVE Numbering'
    <2>1. /\ TakeEmpty(t) /\ UNCHANGED <<head, tail, slot, bufferswitch>>
      BY <1>14 DEF TakeForSend, TakeForFlush
    <2>2. /\ active' = empty[Len(empty)] /\ Len(empty) \in 1 .. Len(empty) /\ active' \in Containers
      BY <1>a, <2>1, PopType DEF TakeEmpty
    <2>3. /\ cont[active'] \in ContainerType /\ cont[active'].msgs = <<>>
          /\ \A j \in RingSlots : slot[j] # active'
      BY <1>0, <1>a, <2>2 DEF Clean, Owned
    <2>4. \A k \in Containers : k # active' => cont'[k] = cont[k]
      BY <1>a, <1>14 DEF TakeForSend, TakeForFlush
    <2>5. \A id \in tail .. head - 1 : At(id) \in Containers /\ At(id) # active'
      BY <1>0, <2>3, InRing
    <2>6. Numbered'
      BY <2>1, <2>4, <2>5 DEF Numbering, Numbered, At
    <2> DEFINE n == [cont[active'] EXCEPT !.seq = processed]
    <2>7. n \in ContainerType /\ n.msgs = <<>> /\ n.seq = processed
      BY <1>a, <2>3, NumberedType
    <2> HIDE DEF n
    <2>8. CASE TakeForFlush(t)
      <3>1. /\ cont'[active'] = n
            /\ UNCHANGED <<processed, accepted, task>>
        BY <1>a, <2>2, <2>8 DEF TakeForFlush, n
      <3> QED
        BY <2>1, <2>6, <2>7, <3>1 DEF Numbering, FirstNumbered
    <2>9. CASE TakeForSend(t)
      <3>1. /\ cont'[active'] = WithMessage(n)
            /\ processed' = processed + 1 /\ accepted' = accepted + 1 /\ UNCHANGED task
        BY <1>a, <2>2, <2>9 DEF TakeForSend, n, AfterInsert, Numbering
      <3>2. /\ cont'[active'].msgs = Append(<<>>, accepted + 1) /\ cont'[active'].seq = processed
        BY <2>7, <3>1, NumberedContainer
      <3>3. cont'[active'].msgs # <<>> /\ cont'[active'].msgs[1] = accepted + 1
        BY <3>2
      <3> QED
        BY <2>1, <2>6, <3>1, <3>2, <3>3 DEF Numbering, FirstNumbered
    <2> QED
      BY <1>14, <2>8, <2>9
  <1>15. ASSUME NEW t \in Threads, TakeForSwitch(t) PROVE Numbering'
    BY <1>15 DEF TakeForSwitch, Numbering
  <1>16. ASSUME NEW c \in Clients, AcceptPeer(c) PROVE Numbering'
    BY <1>1, <1>16 DEF AcceptPeer
  <1>17. CASE AcceptStep
    BY <1>1, <1>17 DEF AcceptStep, AcceptTop, AcceptLock, AcceptRefuse, AcceptList, AcceptCount
  <1>18. CASE TerminateCall \/ TerminateStep
    BY <1>1, <1>18 DEF TerminateCall, TerminateStep, TerminateDrained, TerminateSet
  <1>19. CASE SetBufferSwitch
    BY <1>19 DEF SetBufferSwitch, Numbering
  <1>20. ASSUME NEW c \in Clients, PeerStep(c) PROVE Numbering'
    <2>1. UNCHANGED <<head, tail, slot, cont, active, bufferswitch, processed, accepted, task>>
      BY <1>20 DEF PeerStep, PeerTop, PeerQuit, PeerPick, PeerSent, PeerBroken, PeerLeave,
                   Disconnect
    <2> QED
      BY <1>1, <2>1
  <1>21. CASE UNCHANGED vars
    BY <1>1, <1>21 DEF vars
  <1> QED
    BY <1>2, <1>3, <1>4, <1>5, <1>6, <1>7, <1>8, <1>9, <1>10, <1>11, <1>12, <1>13, <1>14,
       <1>15, <1>16, <1>17, <1>18, <1>19, <1>20, <1>21
    DEF Next, SharedStep, ThreadStep

(* With a buffer (bufferswitch on, the default), the number in a published *)
(* container is that of its first message.                                 *)
THEOREM FirstMessagesNumbered ==
  ASSUME BufferSwitches \subseteq {1}
  PROVE  Spec => []Numbered
  <1>1. Init => Numbering
    <2> SUFFICES ASSUME Init PROVE Numbering
      OBVIOUS
    <2>1. active \in Containers
      BY TypeInit DEF TypeOK, SenderTypeOK
    <2> QED
      BY <2>1 DEF Init, SenderInit, Numbering, Numbered, FirstNumbered
  <1>2. Numbering => Numbered
    BY DEF Numbering
  <1>3. Inv /\ Clean /\ Numbering /\ [Next]_vars => Numbering'
    BY InvStep, NumberingStep
  <1> QED
    BY <1>1, <1>2, <1>3, LostInit, CleanStep, Invariance, PTL DEF Spec

-----------------------------------------------------------------------------
HeaderKept(k) ==
  cont'[k].msgs = cont[k].msgs /\ cont'[k].seq = cont[k].seq /\ cont'[k].hdr = cont[k].hdr

(* t_cont_write_header.                                                    *)
LEMMA HeaderWritten ==
  ASSUME NEW k \in ContainerType, NEW id \in Nat
  PROVE  WithHeader(k, id).hdr = [seq  |-> WithHeader(k, id).seq,
                                  size |-> Len(WithHeader(k, id).msgs)]
  BY DEF ContainerType, WithHeader

(* A step that leaves the containers in the ring alone, and the active one *)
(* while it is being finished, keeps Framing.                              *)
LEMMA FrameStutter ==
  ASSUME TypeOK, TypeOK', Window, Framing, tail' >= tail, UNCHANGED <<head, slot>>,
         \A k \in Containers : (\E j \in RingSlots : slot[j] = k) => HeaderKept(k),
         \A u \in Threads : pc'[u] \in Finishing => Framed(active)'
  PROVE  Framing'
  <1>1. ASSUME NEW id \in tail' .. head - 1 PROVE Framed(At(id))'
    <2>1. id \in tail .. head - 1
      BY DEF TypeOK, SenderTypeOK
    <2>2. At(id) \in Containers /\ \E j \in RingSlots : slot[j] = At(id)
      BY <2>1, InRing
    <2>3. HeaderKept(At(id)) /\ Framed(At(id)) /\ At(id)' = At(id)
      BY <2>1, <2>2 DEF Framing, At
    <2> QED
      BY <2>3 DEF Framed, HeaderKept
  <1> QED
    BY <1>1 DEF Framing

(* With one storing thread nothing is stored between the header of a       *)
(* container and its publication, not even while ifc_mtx is released.      *)
LEMMA FramingStep ==
  ASSUME \A t, u \in Threads : t = u
  PROVE  Inv /\ Inv' /\ Framing /\ [Next]_vars => Framing'
  <1> SUFFICES ASSUME Inv, Inv', Framing, [Next]_vars PROVE Framing'
    OBVIOUS
  <1> USE DEF senderVars, mbufVars, threadVars, clientVars, ctlVars, historyVars, peerVars
  <1>0. TypeOK /\ TypeOK' /\ Mutex /\ NeverDeferred /\ Owned /\ Window
    BY DEF Inv
  <1>a. /\ cont \in [Containers -> ContainerType] /\ active \in Containers
        /\ empty \in Seq(Containers) /\ head \in Nat /\ tail \in Nat
    BY <1>0 DEF TypeOK, SenderTypeOK
  <1>b. /\ tail' \in Nat /\ slot \in [RingSlots -> Containers \cup {NoContainer}]
        /\ Len(empty) \in Nat
    <2>1. slot \in [RingSlots -> Containers \cup {NoContainer}]
      BY <1>0 DEF TypeOK, SenderTypeOK, RingSlots
    <2>2. tail' \in Nat
      BY <1>0 DEF TypeOK, SenderTypeOK
    <2> QED
      BY <1>a, <2>1, <2>2
  <1>1. ASSUME UNCHANGED <<head, tail, slot, cont, active, pc>> PROVE Framing'
    BY <1>1 DEF Framing, Framed, At
  <1>2. ASSUME NEW t \in Threads, NEW where, Goto(t, where), where \notin Finishing,
               tail' >= tail, UNCHANGED <<head, slot>>,
               \A k \in Containers : (\E j \in RingSlots : slot[j] = k) => HeaderKept(k)
        PROVE  Framing'
    BY <1>0, <1>2, MovesAlone, FrameStutter DEF TypeOK
  <1>3. ASSUME NEW t \in Threads, NEW where, Goto(t, where), pc[t] \in Finishing,
               UNCHANGED <<head, slot, tail, cont, active>>
        PROVE  Framing'
    <2>1. Framed(active)'
      BY <1>3 DEF Framing, Framed
    <2> QED
      BY <1>0, <1>a, <1>3, <2>1, FrameStutter DEF HeaderKept
  <1>4. ASSUME NEW t \in Threads, SendCall(t) \/ FlushCall(t) \/ AutoFlushCall(t) PROVE Framing'
    <2>1. UNCHANGED <<head, tail, slot, cont>> /\ Goto(t, "lock")
      BY <1>4 DEF SendCall, FlushCall, AutoFlushCall
    <2> QED
      BY <1>2, <1>a, <2>1 DEF HeaderKept, Finishing
  <1>5. ASSUME NEW t \in Threads, SendStore(t) PROVE Framing'
    <2>1. \A u \in Threads : pc[u] \notin Holding
      BY <1>0, <1>5, ThreadAssumption DEF SendStore, Mutex, TypeOK, SenderTypeOK
    <2>2. /\ Goto(t, "finish") \/ Goto(t, "idle")
          /\ cont' = [cont EXCEPT ![active] = WithMessage(@)]
          /\ UNCHANGED <<head, tail, slot>>
      BY <1>5 DEF SendStore, AfterInsert
    <2>3. \A j \in RingSlots : slot[j] # active
      BY <1>0, <2>1 DEF Owned, Holding
    <2>4. \A k \in Containers : k # active => HeaderKept(k)
      BY <1>a, <2>2 DEF HeaderKept
    <2> QED
      BY <1>2, <1>a, <2>2, <2>3, <2>4 DEF Finishing
  <1>6. ASSUME NEW t \in Threads, SendFull(t) \/ FlushLocked(t) PROVE Framing'
    <2>1. UNCHANGED <<head, tail, slot, cont>> /\ (Goto(t, "finish") \/ Goto(t, "idle"))
      BY <1>6 DEF SendFull, FlushLocked
    <2> QED
      BY <1>2, <1>a, <2>1 DEF HeaderKept, Finishing
  <1>7. ASSUME NEW t \in Threads, FinishHeader(t) PROVE Framing'
    <2>1. \A u \in Threads : pc[u] = "finish"
      BY <1>7 DEF FinishHeader
    <2>2. /\ cont' = [cont EXCEPT ![active] = WithHeader(@, head)]
          /\ UNCHANGED <<head, tail, slot, active>>
      BY <1>7 DEF FinishHeader
    <2>3. \A j \in RingSlots : slot[j] # active
      BY <1>0, <2>1 DEF Owned
    <2>4. \A k \in Containers : k # active => HeaderKept(k)
      BY <1>a, <2>2 DEF HeaderKept
    <2>5. Framed(active)'
      BY <1>a, <2>2, HeaderWritten DEF Framed
    <2> QED
      BY <1>0, <1>a, <2>2, <2>3, <2>4, <2>5, FrameStutter
  <1>8. ASSUME NEW t \in Threads, FinishRepeat(t) PROVE Framing'
    <2>1. UNCHANGED <<head, tail, slot, cont, active>> /\ pc[t] = "repeat"
      BY <1>8 DEF FinishRepeat
    <2>2. pc' = pc \/ Goto(t, "store") \/ Goto(t, "get") \/ Goto(t, "yield")
      BY <1>8 DEF FinishRepeat
    <2> QED
      BY <1>1, <1>3, <2>1, <2>2 DEF Finishing
  <1>9. ASSUME NEW t \in Threads, FinishYield(t) \/ FinishRelock(t) PROVE Framing'
    <2>1. UNCHANGED <<head, tail, slot, cont, active>> /\ pc[t] \in {"yield", "relock"}
          /\ (Goto(t, "relock") \/ Goto(t, "repeat"))
      BY <1>9 DEF FinishYield, FinishRelock
    <2> QED
      BY <1>3, <2>1 DEF Finishing
  <1>10. ASSUME NEW t \in Threads, RingStore(t) PROVE Framing'
    <2>1. /\ UNCHANGED <<head, tail, cont, active>>
          /\ slot' = [slot EXCEPT ![head % BufferCount] = active] /\ pc[t] = "store"
      BY <1>10 DEF RingStore
    <2>2. head - tail < BufferCount
      BY <1>0, <1>10, <2>1, RingAssumption DEF Window, TypeOK, SenderTypeOK
    <2>3. ASSUME NEW id \in tail .. head - 1 PROVE At(id)' = At(id)
      <3>1. id \in Nat /\ id < head /\ head - id < BufferCount
        BY <1>a, <2>2, RingAssumption
      <3>2. id % BufferCount # head % BufferCount
        BY <1>a, <3>1, DistinctSlots
      <3> QED
        BY <1>b, <2>1, <3>1, <3>2, SlotOf DEF At
    <2>4. Framed(active)
      BY <2>1 DEF Framing, Finishing
    <2> QED
      BY <2>1, <2>3, <2>4 DEF Framing, Framed
  <1>11. ASSUME NEW t \in Threads, RingPublish(t) PROVE Framing'
    <2>1. /\ UNCHANGED <<tail, slot, cont, active>> /\ pc[t] = "publish"
          /\ head' = head + 1 /\ At(head) = active
      BY <1>0, <1>11 DEF RingPublish, Owned
    <2>2. \A id \in tail .. head' - 1 : id \in tail .. head - 1 \/ id = head
      BY <1>a, <2>1
    <2>3. Framed(active)
      BY <2>1 DEF Framing, Finishing
    <2> QED
      BY <2>1, <2>2, <2>3 DEF Framing, Framed, At
  <1>12. ASSUME NEW t \in Threads, RingAdvanceTail(t) \/ OldPeek(t) PROVE Framing'
    <2>1. UNCHANGED <<head, slot, cont>> /\ tail' >= tail
      BY <1>a, <1>12 DEF RingAdvanceTail, OldPeek
    <2>2. Goto(t, "get") \/ Goto(t, "peek") \/ Goto(t, "clear") \/ Goto(t, "unref")
      BY <1>12 DEF RingAdvanceTail, OldPeek
    <2> QED
      BY <1>2, <2>1, <2>2 DEF HeaderKept, Finishing
  <1>13. ASSUME NEW t \in Threads, OldUnref(t) \/ OldClear(t) \/ OldWipe(t) PROVE Framing'
    <2>1. /\ old \in Containers /\ pc[t] \in {"unref", "clear", "wipe"} /\ old # NoContainer
      BY <1>0, <1>13 DEF OldUnref, OldClear, OldWipe, NeverDeferred, Containers, NoContainer
    <2>2. \A j \in RingSlots : slot[j] # old
      BY <1>0, <2>1 DEF Owned
    <2>3. \A k \in Containers : k # old => HeaderKept(k)
      BY <1>a, <1>13, <2>1 DEF OldUnref, OldClear, OldWipe, HeaderKept
    <2>4. UNCHANGED <<head, tail, slot>>
          /\ (Goto(t, "get") \/ Goto(t, "clear") \/ Goto(t, "wipe"))
      BY <1>13 DEF OldUnref, OldClear, OldWipe
    <2> QED
      BY <1>2, <1>a, <2>2, <2>3, <2>4 DEF Finishing
  <1>14. ASSUME NEW t \in Threads, ScanBegin(t) \/ ScanEnd(t) PROVE Framing'
    <2>1. UNCHANGED <<head, tail, slot, cont>> /\ (Goto(t, "scan") \/ Goto(t, "pop"))
      BY <1>14 DEF ScanBegin, ScanEnd
    <2> QED
      BY <1>2, <1>a, <2>1 DEF HeaderKept, Finishing
  <1>15. ASSUME NEW t \in Threads, ScanLook(t) PROVE Framing'
    <2>1. pc[t] = "scan" /\ scan <= Len(deferred)
      BY <1>15 DEF ScanLook
    <2>2. scan >= 1 /\ deferred = <<>>
      BY <1>0, <2>1 DEF NeverDeferred
    <2> QED
      BY <1>0, <2>1, <2>2, EmptySeq DEF TypeOK, SenderTypeOK
  <1>16. ASSUME NEW t \in Threads, ScanReclaim(t) \/ ScanWipe(t) PROVE Framing'
    BY <1>0, <1>16 DEF ScanReclaim, ScanWipe, NeverDeferred
  <1>17. ASSUME NEW t \in Threads, TakeForSend(t) \/ TakeForSwitch(t) \/ TakeForFlush(t)
         PROVE  Framing'
    <2>1. TakeEmpty(t) /\ UNCHANGED <<head, tail, slot>> /\ (Goto(t, "idle") \/ Goto(t, "finish"))
      BY <1>17 DEF TakeForSend, TakeForSwitch, TakeForFlush, AfterInsert
    <2>2. active' = empty[Len(empty)] /\ Len(empty) \in 1 .. Len(empty) /\ active' \in Containers
      BY <1>a, <2>1, PopType DEF TakeEmpty
    <2>3. \A j \in RingSlots : slot[j] # active'
      BY <1>0, <2>2 DEF Owned
    <2>4. \A k \in Containers : k # active' => cont'[k] = cont[k]
      BY <1>a, <1>17 DEF TakeForSend, TakeForSwitch, TakeForFlush
    <2> QED
      BY <1>2, <1>a, <2>1, <2>3, <2>4 DEF HeaderKept, Finishing
  <1>18. ASSUME NEW c \in Clients, AcceptPeer(c) PROVE Framing'
    BY <1>1, <1>18 DEF AcceptPeer
  <1>19. CASE AcceptStep
    BY <1>1, <1>19 DEF AcceptStep, AcceptTop, AcceptLock, AcceptRefuse, AcceptList, AcceptCount
  <1>20. CASE TerminateCall \/ TerminateStep \/ SetBufferSwitch
    BY <1>1, <1>20 DEF TerminateCall, TerminateStep, TerminateDrained, TerminateSet,
                       SetBufferSwitch
  <1>21. ASSUME NEW c \in Clients, PeerStep(c) PROVE Framing'
    <2>1. UNCHANGED <<head, tail, slot, cont, active, pc>>
      BY <1>21 DEF PeerStep, PeerTop, PeerQuit, PeerPick, PeerSent, PeerBroken, PeerLeave,
                   Disconnect
    <2> QED
      BY <1>1, <2>1
  <1>22. CASE UNCHANGED vars
    BY <1>1, <1>22 DEF vars
  <1> QED
    BY <1>4, <1>5, <1>6, <1>7, <1>8, <1>9, <1>10, <1>11, <1>12, <1>13, <1>14, <1>15, <1>16,
       <1>17, <1>18, <1>19, <1>20, <1>21, <1>22
    DEF Next, SharedStep, ThreadStep

(* With one storing thread (no autoflush thread beside the sending one) a  *)
(* client's thread sends the header that belongs to the container.         *)
THEOREM FramedForOneThread ==
  ASSUME \A t, u \in Threads : t = u
  PROVE  Spec => []WellFramed
  <1>1. Init => Framing
    BY DEF Init, SenderInit, Framing, Finishing
  <1>2. Inv /\ Framing => WellFramed
    <2> SUFFICES ASSUME Inv, Framing, NEW c \in Clients, st[c] = "send"
                 PROVE  Framed(tcont[c])
      BY DEF WellFramed, Framed
    <2>1. tail <= cid[c] /\ cid[c] < head /\ tcont[c] = At(cid[c])
      BY DEF Inv, Window, Listed
    <2>2. cid[c] \in tail .. head - 1
      BY <2>1 DEF Inv, TypeOK, SenderTypeOK
    <2> QED
      BY <2>1, <2>2 DEF Framing
  <1>3. Inv /\ Framing /\ [Next]_vars => Framing'
    BY InvStep, FramingStep
  <1> QED
    BY <1>1, <1>2, <1>3, Invariance, PTL DEF Spec
=============================================================================
