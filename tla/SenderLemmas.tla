----------------------------- MODULE SenderLemmas -----------------------------
(***************************************************************************)
(* Lemmas about the shared part of the output interface: what its          *)
(* operations on containers, stacks and ids return, and that its steps     *)
(* keep the types and the mutex, whatever the clients' threads do.         *)
(***************************************************************************)
EXTENDS TcpipSender, FiniteSetTheorems, SequenceTheorems, WellFoundedInduction, TLAPS

-----------------------------------------------------------------------------
(* The operations on a container keep its type; what they do to the fields *)
(* the invariants read.                                                    *)
LEMMA ContainerFields ==
  ASSUME NEW k \in ContainerType
  PROVE  /\ k.ref \in 0 .. 255 /\ k.seq \in Nat /\ k.idx \in Int
         /\ k.msgs \in Seq(Nat) /\ k.hdr \in Headers
  BY DEF ContainerType

LEMMA WipedType ==
  ASSUME NEW k \in ContainerType
  PROVE  Wiped(k) \in ContainerType /\ Wiped(k).msgs = <<>> /\ Wiped(k).ref = k.ref
  BY ContainerFields, EmptySeq DEF ContainerType, Wiped

LEMMA RenewedType ==
  ASSUME NEW k \in ContainerType
  PROVE  Renewed(k) \in ContainerType /\ Renewed(k).msgs = k.msgs /\ Renewed(k).ref = 1
  BY DEF ContainerType, Renewed

LEMMA RenumberedType ==
  ASSUME NEW k \in ContainerType
  PROVE  /\ Renumbered(k) \in ContainerType
         /\ Renumbered(k).msgs = k.msgs /\ Renumbered(k).ref = k.ref
  <1>1. k.idx - 1 \in Int
    BY ContainerFields
  <1> QED
    BY <1>1 DEF ContainerType, Renumbered

LEMMA WithHeaderType ==
  ASSUME NEW k \in ContainerType, NEW id \in Nat
  PROVE  /\ WithHeader(k, id) \in ContainerType
         /\ WithHeader(k, id).msgs = k.msgs /\ WithHeader(k, id).ref = k.ref
  <1>1. [seq |-> k.seq, size |-> Len(k.msgs)] \in Headers
    BY ContainerFields DEF Headers
  <1>2. id \in Int
    OBVIOUS
  <1> QED
    BY <1>1, <1>2 DEF ContainerType, WithHeader

LEMMA WithMessageType ==
  ASSUME NEW k \in ContainerType, accepted \in Nat
  PROVE  WithMessage(k) \in ContainerType /\ WithMessage(k).ref = k.ref
  <1>1. Append(k.msgs, accepted + 1) \in Seq(Nat)
    BY ContainerFields
  <1> QED
    BY <1>1 DEF ContainerType, WithMessage

LEMMA DecrementedType ==
  ASSUME NEW k \in ContainerType
  PROVE  /\ Decremented(k) \in ContainerType
         /\ Decremented(k).msgs = k.msgs
         /\ k.ref = 1 => Decremented(k).ref = 0
  <1>1. (IF k.ref = 0 THEN 255 ELSE k.ref - 1) \in 0 .. 255
    BY ContainerFields
  <1>2. Decremented(k) \in ContainerType
    BY <1>1 DEF ContainerType, Decremented
  <1>3. Decremented(k).msgs = k.msgs
    BY DEF ContainerType, Decremented
  <1>4. ASSUME k.ref = 1 PROVE Decremented(k).ref = 0
    BY <1>4 DEF ContainerType, Decremented
  <1> QED
    BY <1>2, <1>3, <1>4

LEMMA NumberedType ==
  ASSUME NEW k \in ContainerType, NEW n \in Nat
  PROVE  /\ [k EXCEPT !.seq = n] \in ContainerType
         /\ [k EXCEPT !.seq = n].msgs = k.msgs /\ [k EXCEPT !.seq = n].ref = k.ref
  BY DEF ContainerType

(* Popping a stack that is not empty.                                      *)
LEMMA PopType ==
  ASSUME NEW S, NEW s \in Seq(S), s # <<>>
  PROVE  /\ Last(s) \in S /\ Front(s) \in Seq(S) /\ Len(s) \in Nat \ {0}
         /\ Len(Front(s)) = Len(s) - 1 /\ Last(s) = s[Len(s)]
         /\ \A i \in 1 .. Len(s) - 1 : Front(s)[i] = s[i]
  <1>1. Len(s) \in Nat \ {0} /\ \A i \in 1 .. Len(s) : s[i] \in S
    BY EmptySeq, ElementOfSeq
  <1> DEFINE n == Len(s) - 1
  <1>2. n \in Nat /\ n = Len(s) - 1 /\ \A i \in 1 .. n : s[i] \in S
    BY <1>1
  <1>3. Front(s) = SubSeq(s, 1, n)
    BY DEF Front
  <1> HIDE DEF n
  <1>4. /\ SubSeq(s, 1, n) \in Seq(S)
        /\ Len(SubSeq(s, 1, n)) = IF 1 <= n THEN n - 1 + 1 ELSE 0
        /\ \A i \in 1 .. n - 1 + 1 : SubSeq(s, 1, n)[i] = s[1 + i - 1]
    BY <1>2, SubSeqProperties
  <1>5. \A i \in 1 .. n : 1 + i - 1 = i /\ i \in 1 .. n - 1 + 1
    BY <1>2
  <1>6. \A i \in 1 .. n : SubSeq(s, 1, n)[i] = s[i]
    BY <1>4, <1>5, Zenon
  <1>7. Len(SubSeq(s, 1, n)) = n
    BY <1>2, <1>4
  <1> QED
    BY <1>1, <1>2, <1>3, <1>4, <1>6, <1>7 DEF Last

-----------------------------------------------------------------------------
(* The initial states: types, and where the containers are.                *)
LEMMA SharedInit == SenderInit => SenderTypeOK
  <1> SUFFICES ASSUME SenderInit PROVE SenderTypeOK
    OBVIOUS
  <1> USE RingAssumption, ModeAssumption, ThreadAssumption
  <1>1. cont \in [Containers -> ContainerType]
    BY EmptySeq DEF SenderInit, EmptyAtFirst, ContainerType, Headers, NoHeader
  <1>2. empty \in Seq(Containers)
    BY IsASeq DEF SenderInit, EmptyAtFirst, Containers
  <1>3. log \in Seq(Seq(Nat)) /\ deferred \in Seq(Containers)
    BY EmptySeq DEF SenderInit
  <1>4. slot \in [0 .. BufferCount - 1 -> Containers \cup {NoContainer}]
    BY DEF SenderInit
  <1>5. active \in Containers /\ old \in Containers \cup {NoContainer}
    BY DEF SenderInit, Containers
  <1>6. bufferswitch \in {0, 1}
    BY DEF SenderInit
  <1>7. pc \in [Threads -> ThreadStates] /\ task \in [Threads -> {"send", "switch", "flush"}]
    BY DEF SenderInit, ThreadStates
  <1>8. st \in [Clients -> ClientStates] /\ cid \in [Clients -> Nat]
    BY DEF SenderInit, ClientStates
  <1>9. /\ head \in Nat /\ tail \in Nat /\ processed \in Nat
        /\ scan \in Nat /\ lowest \in Nat /\ connected \in Int /\ waiting \in Nat
        /\ acc \in {"top", "poll", "lock", "negotiate", "count", "end"}
        /\ accClient \in Clients \cup {"none"}
        /\ term \in {"no", "drain", "set", "done"} /\ drainFrom \in Nat
        /\ accepted \in Nat
    BY DEF SenderInit
  <1>10. mtx \in Threads \cup {"accept", "free"} /\ terminated \in BOOLEAN
    BY DEF SenderInit
  <1> QED
    BY <1>1, <1>2, <1>3, <1>4, <1>5, <1>6, <1>7, <1>8, <1>9, <1>10 DEF SenderTypeOK

LEMMA PlacesAtFirst ==
  ASSUME SenderInit
  PROVE  /\ \A j \in RingSlots : slot[j] = NoContainer
         /\ \A i \in 1 .. Len(empty) :
              empty[i] \in Containers /\ empty[i] # active /\ empty[i] # NoContainer
         /\ \A i, j \in 1 .. Len(empty) : empty[i] = empty[j] => i = j
         /\ active \in Containers /\ active # NoContainer /\ deferred = <<>>
  <1>1. \A j \in RingSlots : slot[j] = NoContainer
    BY DEF SenderInit, RingSlots
  <1>2. /\ Len(empty) = BufferCount + MaxClients
        /\ \A i \in 1 .. Len(empty) : empty[i] = i - 1 /\ i \in Int
    BY RingAssumption DEF SenderInit, EmptyAtFirst
  <1>3. active = BufferCount + MaxClients /\ deferred = <<>>
    BY DEF SenderInit
  <1>4. \A i \in 1 .. Len(empty) :
          empty[i] \in Containers /\ empty[i] # active /\ empty[i] # NoContainer
    BY <1>2, <1>3, RingAssumption DEF NoContainer, Containers
  <1>5. active \in Containers /\ active # NoContainer
    BY <1>3, RingAssumption DEF NoContainer, Containers
  <1>6. ASSUME NEW i \in 1 .. Len(empty), NEW j \in 1 .. Len(empty), empty[i] = empty[j]
        PROVE  i = j
    <2>1. i \in Int /\ j \in Int /\ i - 1 = j - 1
      BY <1>2, <1>6
    <2> QED
      BY <2>1
  <1> QED
    BY <1>1, <1>3, <1>4, <1>5, <1>6

-----------------------------------------------------------------------------
(* A step of the storing threads, the accepting one, or termination: what  *)
(* it changes keeps its type.                                              *)
LEMMA SharedType ==
  ASSUME SenderTypeOK, SharedStep,
         acc \in {"lock", "negotiate", "count"} => accClient \in Clients,
         acc = "lock" => waiting = 1,
         \A t \in Threads : pc[t] \in {"unref", "clear", "wipe", "rewipe"} => old \in Containers,
         \A t \in Threads : pc[t] = "reclaim" => scan \in 1 .. Len(deferred)
  PROVE  SenderTypeOK'
  <1> USE DEF SenderTypeOK, mbufVars, threadVars, clientVars, ctlVars,
              historyVars, senderVars, Goto, Unlock
  <1>1. ASSUME NEW t \in Threads, SendCall(t) PROVE SenderTypeOK'
    BY <1>1 DEF SendCall, ThreadStates
  <1>2. ASSUME NEW t \in Threads, FlushCall(t) PROVE SenderTypeOK'
    BY <1>2 DEF FlushCall, ThreadStates
  <1>3. ASSUME NEW t \in Threads, AutoFlushCall(t) PROVE SenderTypeOK'
    BY <1>3 DEF AutoFlushCall, ThreadStates
  <1>4. ASSUME NEW t \in Threads, SendStore(t) PROVE SenderTypeOK'
    <2>1. cont' \in [Containers -> ContainerType]
      BY <1>4, WithMessageType DEF SendStore
    <2>2. pc' \in [Threads -> ThreadStates] /\ task' \in [Threads -> {"send", "switch", "flush"}]
      BY <1>4 DEF SendStore, ThreadStates, AfterInsert
    <2>3. mtx' \in Threads \cup {"accept", "free"} /\ processed' \in Nat /\ accepted' \in Nat
      BY <1>4 DEF SendStore, AfterInsert
    <2> QED
      BY <1>4, <2>1, <2>2, <2>3 DEF SendStore
  <1>5. ASSUME NEW t \in Threads, SendFull(t) PROVE SenderTypeOK'
    BY <1>5 DEF SendFull, ThreadStates
  <1>6. ASSUME NEW t \in Threads, FlushLocked(t) PROVE SenderTypeOK'
    <2>1. pc' \in [Threads -> ThreadStates]
      BY <1>6 DEF FlushLocked, ThreadStates
    <2>2. task' \in [Threads -> {"send", "switch", "flush"}]
      BY <1>6 DEF FlushLocked
    <2>3. mtx' \in Threads \cup {"accept", "free"}
      BY <1>6 DEF FlushLocked
    <2> QED
      BY <1>6, <2>1, <2>2, <2>3 DEF FlushLocked
  <1>7. ASSUME NEW t \in Threads, FinishHeader(t) PROVE SenderTypeOK'
    <2>1. cont' \in [Containers -> ContainerType]
      BY <1>7, WithHeaderType DEF FinishHeader
    <2>2. pc' \in [Threads -> ThreadStates]
      BY <1>7 DEF FinishHeader, ThreadStates
    <2> QED
      BY <1>7, <2>1, <2>2 DEF FinishHeader
  <1>8. ASSUME NEW t \in Threads, FinishRepeat(t) PROVE SenderTypeOK'
    <2>1. lowest' \in Nat
      BY <1>8 DEF FinishRepeat
    <2>2. pc' \in [Threads -> ThreadStates]
      BY <1>8 DEF FinishRepeat, ThreadStates
    <2>3. mtx' \in Threads \cup {"accept", "free"}
      BY <1>8 DEF FinishRepeat
    <2> QED
      BY <1>8, <2>1, <2>2, <2>3 DEF FinishRepeat
  <1>9. ASSUME NEW t \in Threads, FinishYield(t) PROVE SenderTypeOK'
    BY <1>9 DEF FinishYield, ThreadStates
  <1>10. ASSUME NEW t \in Threads, FinishRelock(t) PROVE SenderTypeOK'
    BY <1>10 DEF FinishRelock, ThreadStates
  <1>11. ASSUME NEW t \in Threads, RingStore(t) PROVE SenderTypeOK'
    <2>1. head % BufferCount \in 0 .. BufferCount - 1
      BY RingAssumption
    <2> QED
      BY <1>11, <2>1 DEF RingStore, ThreadStates, At
  <1>12. ASSUME NEW t \in Threads, RingPublish(t) PROVE SenderTypeOK'
    <2>1. log' \in Seq(Seq(Nat))
      BY <1>12, ContainerFields DEF RingPublish
    <2> QED
      BY <1>12, <2>1 DEF RingPublish, ThreadStates
  <1>13. ASSUME NEW t \in Threads, RingAdvanceTail(t) PROVE SenderTypeOK'
    <2>1. tail' \in Nat
      BY <1>13 DEF RingAdvanceTail
    <2> QED
      BY <1>13, <2>1 DEF RingAdvanceTail, ThreadStates
  <1>14. ASSUME NEW t \in Threads, OldPeek(t) PROVE SenderTypeOK'
    BY <1>14 DEF OldPeek, ThreadStates
  <1>15. ASSUME NEW t \in Threads, OldUnref(t) PROVE SenderTypeOK'
    <2>1. old \in Containers
      BY <1>15 DEF OldUnref
    <2>2. cont' \in [Containers -> ContainerType]
      <3>1. /\ Decremented(cont[old]) \in ContainerType
            /\ Renumbered(Decremented(cont[old])) \in ContainerType
        BY <2>1, DecrementedType, RenumberedType
      <3> QED
        BY <1>15, <2>1, <3>1 DEF OldUnref
    <2>3. Append(deferred, old) \in Seq(Containers)
      BY <2>1, AppendProperties
    <2>4. deferred' \in Seq(Containers)
      BY <1>15, <2>3 DEF OldUnref
    <2>5. pc' \in [Threads -> ThreadStates]
      BY <1>15 DEF OldUnref, ThreadStates
    <2> QED
      BY <1>15, <2>2, <2>4, <2>5 DEF OldUnref
  <1>16. ASSUME NEW t \in Threads, OldClear(t) PROVE SenderTypeOK'
    <2>1. old \in Containers
      BY <1>16 DEF OldClear
    <2>2. cont' \in [Containers -> ContainerType]
      BY <1>16, <2>1, RenewedType DEF OldClear
    <2>3. pc' \in [Threads -> ThreadStates]
      BY <1>16 DEF OldClear, ThreadStates
    <2> QED
      BY <1>16, <2>1, <2>2, <2>3 DEF OldClear
  <1>17. ASSUME NEW t \in Threads, OldWipe(t) PROVE SenderTypeOK'
    <2>1. old \in Containers
      BY <1>17 DEF OldWipe
    <2>2. cont' \in [Containers -> ContainerType]
      BY <1>17, <2>1, WipedType DEF OldWipe
    <2>3. empty' \in Seq(Containers) /\ pc' \in [Threads -> ThreadStates]
      BY <1>17, <2>1, AppendProperties DEF OldWipe, ThreadStates
    <2> QED
      BY <1>17, <2>2, <2>3 DEF OldWipe
  <1>18. ASSUME NEW t \in Threads, ScanBegin(t) PROVE SenderTypeOK'
    BY <1>18 DEF ScanBegin, ThreadStates
  <1>19. ASSUME NEW t \in Threads, ScanLook(t) PROVE SenderTypeOK'
    <2>1. scan' \in Nat
      BY <1>19 DEF ScanLook
    <2>2. pc' \in [Threads -> ThreadStates]
      BY <1>19 DEF ScanLook, ThreadStates
    <2> QED
      BY <1>19, <2>1, <2>2 DEF ScanLook
  <1>20. ASSUME NEW t \in Threads, ScanReclaim(t) PROVE SenderTypeOK'
    <2>1. /\ scan \in 1 .. Len(deferred) /\ deferred[scan] \in Containers
          /\ Last(deferred) \in Containers
      BY <1>20, ElementOfSeq, EmptySeq, PopType DEF ScanReclaim
    <2>2. [deferred EXCEPT ![scan] = Last(deferred)] \in Seq(Containers) \ {<<>>}
      BY <2>1, ExceptSeq, EmptySeq
    <2>3. deferred' \in Seq(Containers)
      BY <1>20, <2>2, PopType DEF ScanReclaim
    <2>4. cont' \in [Containers -> ContainerType]
      BY <1>20, <2>1, RenewedType DEF ScanReclaim
    <2>5. pc' \in [Threads -> ThreadStates]
      BY <1>20 DEF ScanReclaim, ThreadStates
    <2> QED
      BY <1>20, <2>1, <2>3, <2>4, <2>5 DEF ScanReclaim
  <1>21. ASSUME NEW t \in Threads, ScanWipe(t) PROVE SenderTypeOK'
    <2>1. old \in Containers
      BY <1>21 DEF ScanWipe
    <2>2. cont' \in [Containers -> ContainerType]
      BY <1>21, <2>1, WipedType DEF ScanWipe
    <2>3. empty' \in Seq(Containers) /\ pc' \in [Threads -> ThreadStates]
      BY <1>21, <2>1, AppendProperties DEF ScanWipe, ThreadStates
    <2> QED
      BY <1>21, <2>2, <2>3 DEF ScanWipe
  <1>22. ASSUME NEW t \in Threads, ScanEnd(t) PROVE SenderTypeOK'
    BY <1>22 DEF ScanEnd, ThreadStates
  <1>23. ASSUME NEW t \in Threads, TakeForSend(t) PROVE SenderTypeOK'
    <2>1. active' \in Containers /\ empty' \in Seq(Containers)
      BY <1>23, PopType DEF TakeForSend, TakeEmpty
    <2>2. [cont[active'] EXCEPT !.seq = processed] \in ContainerType
      BY <2>1, NumberedType
    <2>3. cont' \in [Containers -> ContainerType]
      BY <1>23, <2>1, <2>2, WithMessageType DEF TakeForSend, TakeEmpty
    <2>4. pc' \in [Threads -> ThreadStates] /\ task' \in [Threads -> {"send", "switch", "flush"}]
      BY <1>23 DEF TakeForSend, TakeEmpty, ThreadStates, AfterInsert
    <2>5. mtx' \in Threads \cup {"accept", "free"} /\ processed' \in Nat /\ accepted' \in Nat
      BY SMTT(60), <1>23 DEF TakeForSend, TakeEmpty, AfterInsert
    <2> QED
      BY <1>23, <2>1, <2>3, <2>4, <2>5 DEF TakeForSend, TakeEmpty
  <1>24. ASSUME NEW t \in Threads, TakeForSwitch(t) PROVE SenderTypeOK'
    <2>1. active' \in Containers /\ empty' \in Seq(Containers)
      BY <1>24, PopType DEF TakeForSwitch, TakeEmpty
    <2>2. cont' \in [Containers -> ContainerType]
      BY <1>24, <2>1, NumberedType DEF TakeForSwitch, TakeEmpty
    <2>3. pc' \in [Threads -> ThreadStates]
      BY <1>24 DEF TakeForSwitch, TakeEmpty, ThreadStates
    <2> QED
      BY SMTT(60), <1>24, <2>1, <2>2, <2>3 DEF TakeForSwitch, TakeEmpty
  <1>25. ASSUME NEW t \in Threads, TakeForFlush(t) PROVE SenderTypeOK'
    <2>1. active' \in Containers /\ empty' \in Seq(Containers)
      BY <1>25, PopType DEF TakeForFlush, TakeEmpty
    <2>2. cont' \in [Containers -> ContainerType]
      BY <1>25, <2>1, NumberedType DEF TakeForFlush, TakeEmpty
    <2>3. pc' \in [Threads -> ThreadStates]
      BY <1>25 DEF TakeForFlush, TakeEmpty, ThreadStates
    <2> QED
      BY <1>25, <2>1, <2>2, <2>3 DEF TakeForFlush, TakeEmpty
  <1>26. ASSUME NEW c \in Clients, AcceptPeer(c) PROVE SenderTypeOK'
    BY <1>26 DEF AcceptPeer
  <1>27. ASSUME AcceptTop PROVE SenderTypeOK'
    BY <1>27 DEF AcceptTop
  <1>28. ASSUME AcceptLock PROVE SenderTypeOK'
    BY <1>28 DEF AcceptLock
  <1>29. ASSUME AcceptRefuse PROVE SenderTypeOK'
    BY <1>29 DEF AcceptRefuse
  <1>30. ASSUME AcceptList PROVE SenderTypeOK'
    BY <1>30 DEF AcceptList, ClientStates, SetState
  <1>31. ASSUME AcceptCount PROVE SenderTypeOK'
    BY <1>31 DEF AcceptCount
  <1>32. ASSUME TerminateCall PROVE SenderTypeOK'
    BY <1>32 DEF TerminateCall
  <1>33. ASSUME TerminateDrained PROVE SenderTypeOK'
    BY <1>33 DEF TerminateDrained
  <1>34. ASSUME TerminateSet PROVE SenderTypeOK'
    BY <1>34 DEF TerminateSet
  <1>35. ASSUME SetBufferSwitch PROVE SenderTypeOK'
    BY <1>35, ModeAssumption DEF SetBufferSwitch
  <1> QED
    BY
    <1>1, <1>2, <1>3, <1>4, <1>5, <1>6, <1>7, <1>8, <1>9, <1>10, <1>11,
    <1>12, <1>13, <1>14, <1>15, <1>16, <1>17, <1>18, <1>19, <1>20, <1>21,
    <1>22, <1>23, <1>24, <1>25, <1>26, <1>27, <1>28, <1>29, <1>30, <1>31,
    <1>32, <1>33, <1>34, <1>35
    DEF SharedStep, ThreadStep, AcceptStep, TerminateStep

(* ifc_mtx is held by one thread at a time: where a thread is tells whether *)
(* it holds it.                                                            *)
LEMMA SharedMutex ==
  ASSUME SenderTypeOK, Mutex, SharedStep
  PROVE  Mutex'
  <1> USE ThreadAssumption DEF SenderTypeOK
  <1> USE DEF Mutex, Holding, mbufVars, threadVars, clientVars, ctlVars,
              historyVars, senderVars, Goto, Unlock
  <1>1. ASSUME NEW t \in Threads, SendCall(t) PROVE Mutex'
    BY <1>1 DEF SendCall
  <1>2. ASSUME NEW t \in Threads, FlushCall(t) PROVE Mutex'
    BY <1>2 DEF FlushCall
  <1>3. ASSUME NEW t \in Threads, AutoFlushCall(t) PROVE Mutex'
    BY <1>3 DEF AutoFlushCall
  <1>4. ASSUME NEW t \in Threads, SendStore(t) PROVE Mutex'
    BY <1>4 DEF SendStore, AfterInsert
  <1>5. ASSUME NEW t \in Threads, SendFull(t) PROVE Mutex'
    BY <1>5 DEF SendFull
  <1>6. ASSUME NEW t \in Threads, FlushLocked(t) PROVE Mutex'
    BY <1>6 DEF FlushLocked
  <1>7. ASSUME NEW t \in Threads, FinishHeader(t) PROVE Mutex'
    BY <1>7 DEF FinishHeader
  <1>8. ASSUME NEW t \in Threads, FinishRepeat(t) PROVE Mutex'
    BY ZenonT(60), <1>8 DEF FinishRepeat
  <1>9. ASSUME NEW t \in Threads, FinishYield(t) PROVE Mutex'
    BY <1>9 DEF FinishYield
  <1>10. ASSUME NEW t \in Threads, FinishRelock(t) PROVE Mutex'
    BY <1>10 DEF FinishRelock
  <1>11. ASSUME NEW t \in Threads, RingStore(t) PROVE Mutex'
    BY <1>11 DEF RingStore
  <1>12. ASSUME NEW t \in Threads, RingPublish(t) PROVE Mutex'
    BY <1>12 DEF RingPublish
  <1>13. ASSUME NEW t \in Threads, RingAdvanceTail(t) PROVE Mutex'
    BY <1>13 DEF RingAdvanceTail
  <1>14. ASSUME NEW t \in Threads, OldPeek(t) PROVE Mutex'
    BY <1>14 DEF OldPeek
  <1>15. ASSUME NEW t \in Threads, OldUnref(t) PROVE Mutex'
    BY <1>15 DEF OldUnref
  <1>16. ASSUME NEW t \in Threads, OldClear(t) PROVE Mutex'
    BY <1>16 DEF OldClear
  <1>17. ASSUME NEW t \in Threads, OldWipe(t) PROVE Mutex'
    BY <1>17 DEF OldWipe
  <1>18. ASSUME NEW t \in Threads, ScanBegin(t) PROVE Mutex'
    BY <1>18 DEF ScanBegin
  <1>19. ASSUME NEW t \in Threads, ScanLook(t) PROVE Mutex'
    BY <1>19 DEF ScanLook
  <1>20. ASSUME NEW t \in Threads, ScanReclaim(t) PROVE Mutex'
    BY <1>20 DEF ScanReclaim
  <1>21. ASSUME NEW t \in Threads, ScanWipe(t) PROVE Mutex'
    BY <1>21 DEF ScanWipe
  <1>22. ASSUME NEW t \in Threads, ScanEnd(t) PROVE Mutex'
    BY <1>22 DEF ScanEnd
  <1>23. ASSUME NEW t \in Threads, TakeForSend(t) PROVE Mutex'
    <2>1. /\ pc[t] \in {"get", "pop"} /\ acc' = acc
          /\ \/ pc' = [pc EXCEPT ![t] = "finish"] /\ mtx' = t
             \/ pc' = [pc EXCEPT ![t] = "idle"] /\ mtx' = "free"
      BY <1>23 DEF TakeForSend, TakeEmpty, AfterInsert
    <2>2. CASE pc' = [pc EXCEPT ![t] = "finish"] /\ mtx' = t
      <3>1. \A u \in Threads : pc'[u] \in Holding <=> mtx' = u
        BY <2>1, <2>2
      <3>2. mtx = t
        BY <2>1
      <3>3. mtx' # "accept" /\ mtx # "accept"
        BY <2>2, <3>2
      <3> QED
        BY <2>1, <3>1, <3>3
    <2>3. CASE pc' = [pc EXCEPT ![t] = "idle"] /\ mtx' = "free"
      <3>1. \A u \in Threads : pc'[u] \in Holding <=> mtx' = u
        BY <2>1, <2>3
      <3>2. mtx = t
        BY <2>1
      <3>3. mtx' # "accept" /\ mtx # "accept"
        BY <2>3, <3>2
      <3> QED
        BY <2>1, <3>1, <3>3
    <2> QED
      BY <2>1, <2>2, <2>3
  <1>24. ASSUME NEW t \in Threads, TakeForSwitch(t) PROVE Mutex'
    BY <1>24 DEF TakeForSwitch, TakeEmpty
  <1>25. ASSUME NEW t \in Threads, TakeForFlush(t) PROVE Mutex'
    BY <1>25 DEF TakeForFlush, TakeEmpty
  <1>26. ASSUME NEW c \in Clients, AcceptPeer(c) PROVE Mutex'
    BY <1>26 DEF AcceptPeer
  <1>27. ASSUME AcceptTop PROVE Mutex'
    BY <1>27 DEF AcceptTop
  <1>28. ASSUME AcceptLock PROVE Mutex'
    BY <1>28 DEF AcceptLock
  <1>29. ASSUME AcceptRefuse PROVE Mutex'
    BY <1>29 DEF AcceptRefuse
  <1>30. ASSUME AcceptList PROVE Mutex'
    BY <1>30 DEF AcceptList
  <1>31. ASSUME AcceptCount PROVE Mutex'
    BY <1>31 DEF AcceptCount
  <1>32. ASSUME TerminateCall PROVE Mutex'
    BY <1>32 DEF TerminateCall
  <1>33. ASSUME TerminateDrained PROVE Mutex'
    BY <1>33 DEF TerminateDrained
  <1>34. ASSUME TerminateSet PROVE Mutex'
    BY <1>34 DEF TerminateSet
  <1>35. ASSUME SetBufferSwitch PROVE Mutex'
    BY <1>35 DEF SetBufferSwitch
  <1> QED
    BY
    <1>1, <1>2, <1>3, <1>4, <1>5, <1>6, <1>7, <1>8, <1>9, <1>10, <1>11,
    <1>12, <1>13, <1>14, <1>15, <1>16, <1>17, <1>18, <1>19, <1>20, <1>21,
    <1>22, <1>23, <1>24, <1>25, <1>26, <1>27, <1>28, <1>29, <1>30, <1>31,
    <1>32, <1>33, <1>34, <1>35
    DEF SharedStep, ThreadStep, AcceptStep, TerminateStep

(* A thread that holds ifc_mtx is the only one that does.                  *)
LEMMA Alone ==
  ASSUME Mutex, NEW t \in Threads, pc[t] \in Holding
  PROVE  \A u \in Threads : u # t => pc[u] \notin Holding
  BY DEF Mutex

(* A step of one thread moves no other.                                    *)
LEMMA MovesAlone ==
  ASSUME SenderTypeOK, NEW t \in Threads, NEW where, Goto(t, where)
  PROVE  pc'[t] = where /\ \A u \in Threads : u # t => pc'[u] = pc[u]
  BY DEF Goto, SenderTypeOK

-----------------------------------------------------------------------------
LEMMA ListedFinite == IsFiniteSet(Listed) /\ Cardinality(Listed) \in Nat
  <1>1. Listed \subseteq Clients
    BY DEF Listed
  <1> QED
    BY <1>1, ThreadAssumption, FS_Subset, FS_CardinalityType

(* An id has one slot, and ids less than a ring apart have different ones.  *)
LEMMA SlotOf == \A id \in Nat : id % BufferCount \in RingSlots
  BY RingAssumption DEF RingSlots

LEMMA DistinctSlots ==
  \A i, j \in Nat : i < j /\ j - i < BufferCount => i % BufferCount # j % BufferCount
  <1> DEFINE N == BufferCount
  <1>1. N \in Nat \ {0}
    BY RingAssumption
  <1>2. \A a \in Nat : a = N * (a \div N) + (a % N) /\ a % N \in 0 .. N - 1 /\ a \div N \in Nat
    BY <1>1
  <1> HIDE DEF N
  <1>3. \A k \in Int : ~(0 < N * k /\ N * k < N)
    <2> SUFFICES ASSUME NEW k \in Int, 0 < N * k, N * k < N PROVE FALSE
      OBVIOUS
    <2>1. CASE k <= 0
      BY <2>1, <1>1
    <2>2. CASE k >= 1
      BY <2>2, <1>1
    <2> QED
      BY <2>1, <2>2
  <1> SUFFICES ASSUME NEW i \in Nat, NEW j \in Nat, i < j, j - i < N, i % N = j % N
               PROVE  FALSE
    BY DEF N
  <1> DEFINE p == i \div N
             q == j \div N
             r == i % N
  <1>4. /\ i = N * p + r /\ j = N * q + r
        /\ p \in Nat /\ q \in Nat /\ r \in 0 .. N - 1
    BY <1>2
  <1> HIDE DEF p, q, r
  <1>5. j - i = N * (q - p) /\ q - p \in Int
    BY <1>1, <1>4
  <1> QED
    BY <1>3, <1>5

-----------------------------------------------------------------------------
(* A set of numbers that is not empty has a least one.                     *)
LEMMA LeastOf ==
  ASSUME NEW T \in SUBSET Nat, T # {}
  PROVE  \E n \in T : \A m \in T : n <= m
  <1>1. IsWellFoundedOn(OpToRel(<, Nat), Nat)
    BY NatLessThanWellFounded, Zenon
  <1>2. PICK n \in T : \A m \in T : ~(<<m, n>> \in OpToRel(<, Nat))
    BY <1>1, WFMin, Zenon
  <1>3. \A m \in T : ~(m < n)
    BY <1>2 DEF OpToRel
  <1> QED
    BY <1>3

(* FlattenSeq by its recursion: Flattens(s, f, n) says that f[i] is the    *)
(* concatenation of the first i sequences of s.                            *)
Flat(s, f, i) == IF i = 1 THEN s[i] ELSE f[i - 1] \o s[i]
Flattens(s, f, n) == f = [i \in 1 .. n |-> Flat(s, f, i)]

(* A step of the recursion.                                                *)
LEMMA FlatAfter ==
  ASSUME NEW s, NEW f, NEW i, i # 1, NEW n, n = i - 1
  PROVE  Flat(s, f, i) = f[n] \o s[i]
  BY Zenon DEF Flat

(* One more sequence can be appended ...                                   *)
LEMMA FlattensStep ==
  ASSUME NEW s, NEW n \in Nat, NEW f, Flattens(s, f, n)
  PROVE  \E g : Flattens(s, g, n + 1)
  <1> DEFINE g == [i \in 1 .. n + 1 |-> IF i \in 1 .. n THEN f[i] ELSE Flat(s, f, i)]
  <1>1. \A i \in 1 .. n + 1 : g[i] = Flat(s, g, i)
    <2> TAKE i \in 1 .. n + 1
    <2>1. i # 1 => i - 1 \in 1 .. n
      OBVIOUS
    <2>2. Flat(s, g, i) = Flat(s, f, i)
      BY <2>1 DEF Flat
    <2>3. i \in 1 .. n => f[i] = Flat(s, f, i)
      BY Zenon DEF Flattens
    <2> QED
      BY <2>2, <2>3
  <1>2. g = [i \in 1 .. n + 1 |-> Flat(s, g, i)]
    BY <1>1
  <1> QED
    BY <1>2 DEF Flattens

(* ... so that the recursion has a solution of every length,               *)
LEMMA FlattensExists ==
  ASSUME NEW s, NEW n \in Nat
  PROVE  \E f : Flattens(s, f, n)
  <1> DEFINE T == {k \in Nat : ~ \E f : Flattens(s, f, k)}
  <1>1. SUFFICES ASSUME T # {} PROVE FALSE
    OBVIOUS
  <1>2. PICK k \in T : \A m \in T : k <= m
    BY <1>1, LeastOf
  <1>3. Flattens(s, [i \in 1 .. 0 |-> s], 0)
    BY DEF Flattens
  <1>4. k # 0
    BY <1>3
  <1>5. k - 1 \in Nat /\ k - 1 \notin T
    BY <1>2, <1>4
  <1>6. PICK f : Flattens(s, f, k - 1)
    BY <1>5
  <1>7. k - 1 + 1 = k
    BY <1>2
  <1>8. \E g : Flattens(s, g, k - 1 + 1)
    BY <1>5, <1>6, FlattensStep
  <1> QED
    BY <1>7, <1>8

(* which has no choice.                                                    *)
LEMMA FlattensUnique ==
  ASSUME NEW s, NEW n \in Nat, NEW f, NEW g, NEW k \in Nat, n <= k,
         Flattens(s, f, n), Flattens(s, g, k)
  PROVE  \A i \in 1 .. n : f[i] = g[i]
  <1> DEFINE T == {i \in 1 .. n : f[i] # g[i]}
  <1>1. SUFFICES ASSUME T # {} PROVE FALSE
    OBVIOUS
  <1>2. PICK i \in T : \A m \in T : i <= m
    <2>1. T \in SUBSET Nat
      OBVIOUS
    <2> HIDE DEF T
    <2> QED
      BY <1>1, <2>1, LeastOf
  <1>3. f[i] = Flat(s, f, i) /\ g[i] = Flat(s, g, i)
    <2>1. i \in 1 .. n /\ i \in 1 .. k
      BY <1>2
    <2> QED
      BY <2>1, Zenon DEF Flattens
  <1>4. i # 1 => f[i - 1] = g[i - 1]
    BY <1>2
  <1> QED
    BY <1>2, <1>3, <1>4 DEF Flat

(* The library chooses a solution for the whole sequence.                  *)
LEMMA FlattenByRecursion ==
  ASSUME NEW s, NEW n \in Nat \ {0}, Len(s) = n
  PROVE  \E f : Flattens(s, f, n) /\ FlattenSeq(s) = f[n]
  <1>1. FlattenSeq(s) = (CHOOSE f : Flattens(s, f, Len(s)))[Len(s)]
    BY DEF FlattenSeq, Flattens, Flat
  <1>2. Flattens(s, CHOOSE f : Flattens(s, f, n), n)
    BY FlattensExists, Zenon
  <1> QED
    BY <1>1, <1>2

(* FlattenSeq of sequences over a set is a sequence over that set.         *)
LEMMA FlattenType ==
  ASSUME NEW S, NEW s \in Seq(Seq(S))
  PROVE  FlattenSeq(s) \in Seq(S)
  <1>1. CASE Len(s) = 0
    BY <1>1, EmptySeq DEF FlattenSeq
  <1>2. CASE Len(s) # 0
    <2> DEFINE n == Len(s)
    <2>1. n \in Nat \ {0}
      BY <1>2
    <2>2. \A i \in 1 .. n : s[i] \in Seq(S)
      OBVIOUS
    <2> HIDE DEF n
    <2>3. PICK f : Flattens(s, f, n) /\ FlattenSeq(s) = f[n]
      BY <2>1, FlattenByRecursion DEF n
    <2>4. \A i \in 1 .. n : f[i] \in Seq(S)
      <3> DEFINE T == {i \in 1 .. n : f[i] \notin Seq(S)}
      <3>1. SUFFICES ASSUME T # {} PROVE FALSE
        OBVIOUS
      <3>2. PICK i \in T : \A m \in T : i <= m
        <4>1. T \in SUBSET Nat
          BY <2>1
        <4> HIDE DEF T
        <4> QED
          BY <3>1, <4>1, LeastOf
      <3>3. f[i] = Flat(s, f, i)
        BY <2>3, <3>2, Zenon DEF Flattens
      <3>4. i # 1 => f[i - 1] \in Seq(S)
        BY <2>1, <3>2
      <3>5. s[i] \in Seq(S) /\ f[i] \notin Seq(S)
        BY <2>2, <3>2
      <3>6. i # 1 => f[i - 1] \o s[i] \in Seq(S)
        BY <3>4, <3>5, ConcatProperties
      <3> QED
        BY <3>3, <3>5, <3>6 DEF Flat
    <2> QED
      BY <2>1, <2>3, <2>4
  <1> QED
    BY <1>1, <1>2

(* FlattenSeq of one more sequence is the concatenation with it.           *)
LEMMA FlattenAppend ==
  ASSUME NEW S, NEW s \in Seq(Seq(S)), NEW m \in Seq(S)
  PROVE  FlattenSeq(Append(s, m)) = FlattenSeq(s) \o m
  <1> DEFINE n == Len(s)
             r == Append(s, m)
  <1>1. n \in Nat /\ Len(r) = n + 1 /\ r[n + 1] = m /\ \A i \in 1 .. n : r[i] = s[i]
    OBVIOUS
  <1> HIDE DEF n, r
  <1>2. PICK g : Flattens(r, g, n + 1) /\ FlattenSeq(r) = g[n + 1]
    BY <1>1, FlattenByRecursion
  <1>3. n + 1 \in 1 .. n + 1
    BY <1>1
  <1>4. g[n + 1] = Flat(r, g, n + 1)
    BY <1>2, <1>3, Zenon DEF Flattens
  <1>5. CASE n = 0
    <2>1. s = <<>>
      BY <1>5, EmptySeq DEF n
    <2>2. FlattenSeq(s) = s
      BY <1>5 DEF FlattenSeq, n
    <2>3. g[n + 1] = m
      BY <1>1, <1>4, <1>5 DEF Flat
    <2>4. <<>> \o m = m
      OBVIOUS
    <2> QED
      BY <1>2, <2>1, <2>2, <2>3, <2>4 DEF r
  <1>6. CASE n # 0
    <2>1. PICK f : Flattens(s, f, n) /\ FlattenSeq(s) = f[n]
      BY <1>1, <1>6, FlattenByRecursion DEF n
    <2>2. Flattens(s, [i \in 1 .. n |-> g[i]], n)
      <3> DEFINE h == [i \in 1 .. n |-> g[i]]
      <3>1. \A i \in 1 .. n : h[i] = Flat(s, h, i)
        <4> TAKE i \in 1 .. n
        <4>1. i \in 1 .. n + 1 /\ (i # 1 => i - 1 \in 1 .. n)
          BY <1>1
        <4>2. g[i] = Flat(r, g, i)
          BY <1>2, <4>1, Zenon DEF Flattens
        <4> QED
          BY <1>1, <4>1, <4>2 DEF Flat
      <3>2. h = [i \in 1 .. n |-> Flat(s, h, i)]
        BY <3>1
      <3> QED
        BY <3>2 DEF Flattens
    <2>3. f[n] = g[n]
      BY <1>1, <1>6, <2>1, <2>2, FlattensUnique
    <2>4. Flat(r, g, n + 1) = g[n] \o r[n + 1]
      <3>1. PICK i \in Nat : i = n + 1 /\ i # 1 /\ n = i - 1
        BY <1>1, <1>6
      <3>2. Flat(r, g, i) = g[n] \o r[i]
        BY <3>1, FlatAfter, Zenon
      <3> QED
        BY <3>1, <3>2, Zenon
    <2> QED
      BY <1>1, <1>2, <1>4, <2>1, <2>3, <2>4 DEF r
  <1> QED
    BY <1>5, <1>6
=============================================================================
