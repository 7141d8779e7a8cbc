------------------------ MODULE SenderNonBlockingProofs ------------------------
(***************************************************************************)
(* The non-blocking clients of the output interface: what a client sends   *)
(* is what was published, for any number of slots from two on, clients up  *)
(* to what the reference counter can count, storing threads and messages.  *)
(***************************************************************************)
EXTENDS SenderNonBlocking, SenderLemmas

-----------------------------------------------------------------------------
(* Where the thread is that holds ifc_mtx, before and after each step.     *)
LEMMA StageIs ==
  ASSUME Mutex, NEW t \in Threads, pc[t] \in Holding
  PROVE  mtx = t /\ Stage = pc[t]
  BY DEF Mutex, Stage

LEMMA StageFree ==
  ASSUME mtx \in {"free", "accept"}
  PROVE  Stage = "idle"
  BY ThreadAssumption DEF Stage

LEMMA StageNext ==
  ASSUME SenderTypeOK, NEW t \in Threads, NEW where, Goto(t, where), mtx' = t
  PROVE  Stage' = where
  BY DEF SenderTypeOK, Goto, Stage

LEMMA StageFreed ==
  ASSUME mtx' \in {"free", "accept"}
  PROVE  Stage' = "idle"
  BY ThreadAssumption DEF Stage

LEMMA StageKept ==
  ASSUME UNCHANGED <<pc, mtx>>
  PROVE  Stage' = Stage
  BY DEF Stage

(* Calls, and the steps that take the lock.                                *)
LEMMA CallStages ==
  ASSUME TypeOK, Mutex, NEW t \in Threads
  PROVE  /\ SendCall(t) \/ FlushCall(t) \/ AutoFlushCall(t) => Stage' = Stage
         /\ SendStore(t) => Stage = "idle" /\ Stage' \in {"idle", "finish"}
         /\ SendFull(t) => Stage = "idle" /\ Stage' = "finish"
         /\ FlushLocked(t) => Stage = "idle" /\ Stage' \in {"idle", "finish"}
  <1>0. SenderTypeOK
    BY DEF TypeOK
  <1>1. ASSUME SendCall(t) \/ FlushCall(t) \/ AutoFlushCall(t) PROVE Stage' = Stage
    <2>1. pc[t] = "idle" /\ Goto(t, "lock") /\ mtx' = mtx
      BY <1>1 DEF SendCall, FlushCall, AutoFlushCall
    <2>2. mtx # t
      BY <2>1 DEF Mutex, Holding
    <2> QED
      BY <1>0, <2>1, <2>2, MovesAlone DEF Stage
  <1>2. ASSUME SendStore(t) PROVE Stage = "idle" /\ Stage' \in {"idle", "finish"}
    <2>1. mtx = "free" /\ AfterInsert(t)
      BY <1>2 DEF SendStore
    <2>2. (Goto(t, "finish") /\ mtx' = t) \/ mtx' = "free"
      BY <2>1 DEF AfterInsert, Unlock
    <2> QED
      BY <1>0, <2>1, <2>2, StageFree, StageNext, StageFreed
  <1>3. ASSUME SendFull(t) PROVE Stage = "idle" /\ Stage' = "finish"
    BY <1>0, <1>3, StageFree, StageNext DEF SendFull
  <1>4. ASSUME FlushLocked(t) PROVE Stage = "idle" /\ Stage' \in {"idle", "finish"}
    <2>1. mtx = "free" /\ ((Goto(t, "finish") /\ mtx' = t) \/ mtx' = "free")
      BY <1>4 DEF FlushLocked
    <2> QED
      BY <1>0, <2>1, StageFree, StageNext, StageFreed
  <1> QED
    BY <1>1, <1>2, <1>3, <1>4

(* finish_container.                                                       *)
LEMMA FinishStages ==
  ASSUME TypeOK, Mutex, NeverWaits, NEW t \in Threads
  PROVE  /\ FinishHeader(t) => Stage = "finish" /\ Stage' = "store"
         /\ ~(FinishRepeat(t) \/ FinishYield(t) \/ FinishRelock(t))
         /\ RingStore(t) => Stage = "store" /\ Stage' = "publish"
         /\ RingPublish(t) => Stage = "publish" /\ Stage' = "full"
         /\ RingAdvanceTail(t) =>
              Stage = "full" /\ Stage' = IF old = NoContainer THEN "get" ELSE "peek"
         /\ OldPeek(t) => Stage = "peek" /\ Stage' = IF cont[old].ref = 0 THEN "clear" ELSE "unref"
         /\ OldUnref(t) =>
              Stage = "unref" /\ Stage' = IF Decremented(cont[old]).ref # 0 THEN "get" ELSE "clear"
         /\ OldClear(t) => Stage = "clear" /\ Stage' = "wipe"
         /\ OldWipe(t) => Stage = "wipe" /\ Stage' = "get"
  <1>0. SenderTypeOK
    BY DEF TypeOK
  <1> USE DEF Holding
  <1>1. ASSUME FinishHeader(t) PROVE Stage = "finish" /\ Stage' = "store"
    <2>1. ~MustWait
      BY NonBlockingAssumption DEF MustWait
    <2>2. pc[t] = "finish" /\ Goto(t, "store") /\ mtx' = mtx
      BY <1>1, <2>1 DEF FinishHeader
    <2> QED
      BY <1>0, <2>2, StageIs, StageNext
  <1>2. ~(FinishRepeat(t) \/ FinishYield(t) \/ FinishRelock(t))
    BY DEF FinishRepeat, FinishYield, FinishRelock, NeverWaits
  <1>3. ASSUME RingStore(t) PROVE Stage = "store" /\ Stage' = "publish"
    BY <1>0, <1>3, StageIs, StageNext DEF RingStore
  <1>4. ASSUME RingPublish(t) PROVE Stage = "publish" /\ Stage' = "full"
    BY <1>0, <1>4, StageIs, StageNext DEF RingPublish
  <1>5. ASSUME RingAdvanceTail(t)
        PROVE  Stage = "full" /\ Stage' = IF old = NoContainer THEN "get" ELSE "peek"
    BY <1>0, <1>5, StageIs, StageNext DEF RingAdvanceTail
  <1>6. ASSUME OldPeek(t)
        PROVE  Stage = "peek" /\ Stage' = IF cont[old].ref = 0 THEN "clear" ELSE "unref"
    BY <1>0, <1>6, StageIs, StageNext DEF OldPeek
  <1>7. ASSUME OldUnref(t)
        PROVE  Stage = "unref" /\ Stage' = IF Decremented(cont[old]).ref # 0 THEN "get" ELSE "clear"
    <2>1. /\ pc[t] = "unref" /\ mtx' = mtx
          /\ Decremented(cont[old]).ref # 0 => Goto(t, "get")
          /\ Decremented(cont[old]).ref = 0 => Goto(t, "clear")
      BY <1>7 DEF OldUnref
    <2> QED
      BY <1>0, <2>1, StageIs, StageNext
  <1>8. ASSUME OldClear(t) PROVE Stage = "clear" /\ Stage' = "wipe"
    BY <1>0, <1>8, StageIs, StageNext DEF OldClear
  <1>9. ASSUME OldWipe(t) PROVE Stage = "wipe" /\ Stage' = "get"
    BY <1>0, <1>9, StageIs, StageNext DEF OldWipe
  <1> QED
    BY <1>1, <1>2, <1>3, <1>4, <1>5, <1>6, <1>7, <1>8, <1>9

(* t_mbuf_get_empty_container, and what its callers do then.               *)
LEMMA TakeStages ==
  ASSUME TypeOK, Mutex, NEW t \in Threads
  PROVE  /\ ScanBegin(t) => Stage = "get" /\ Stage' = "scan"
         /\ ScanLook(t) => /\ Stage = "scan"
                           /\ Stage' = IF cont[deferred[scan]].ref = 0 THEN "reclaim" ELSE "scan"
         /\ ScanReclaim(t) => Stage = "reclaim" /\ Stage' = "rewipe"
         /\ ScanWipe(t) => Stage = "rewipe" /\ Stage' = "scan"
         /\ ScanEnd(t) => Stage = "scan" /\ Stage' = "pop"
         /\ TakeForSend(t) \/ TakeForSwitch(t) \/ TakeForFlush(t) =>
              Stage \in {"get", "pop"} /\ Stage' \in {"idle", "finish"}
  <1>0. SenderTypeOK
    BY DEF TypeOK
  <1> USE DEF Holding
  <1>1. ASSUME ScanBegin(t) PROVE Stage = "get" /\ Stage' = "scan"
    BY <1>0, <1>1, StageIs, StageNext DEF ScanBegin
  <1>2. ASSUME ScanLook(t)
        PROVE  Stage = "scan" /\ Stage' = IF cont[deferred[scan]].ref = 0 THEN "reclaim" ELSE "scan"
    <2>1. /\ pc[t] = "scan" /\ mtx' = mtx
          /\ cont[deferred[scan]].ref = 0 => Goto(t, "reclaim")
          /\ cont[deferred[scan]].ref # 0 => pc' = pc
      BY <1>2 DEF ScanLook
    <2> QED
      BY <1>0, <2>1, StageIs, StageNext, StageKept
  <1>3. ASSUME ScanReclaim(t) PROVE Stage = "reclaim" /\ Stage' = "rewipe"
    BY <1>0, <1>3, StageIs, StageNext DEF ScanReclaim
  <1>4. ASSUME ScanWipe(t) PROVE Stage = "rewipe" /\ Stage' = "scan"
    BY <1>0, <1>4, StageIs, StageNext DEF ScanWipe
  <1>5. ASSUME ScanEnd(t) PROVE Stage = "scan" /\ Stage' = "pop"
    BY <1>0, <1>5, StageIs, StageNext DEF ScanEnd
  <1>6. ASSUME TakeForSend(t) \/ TakeForSwitch(t) \/ TakeForFlush(t)
        PROVE  Stage \in {"get", "pop"} /\ Stage' \in {"idle", "finish"}
    <2>1. pc[t] \in {"get", "pop"}
      BY <1>6 DEF TakeForSend, TakeForSwitch, TakeForFlush, TakeEmpty
    <2>2. (Goto(t, "finish") /\ mtx' = t) \/ mtx' = "free"
      BY <1>6 DEF TakeForSend, TakeForSwitch, TakeForFlush, AfterInsert, Unlock
    <2> QED
      BY <1>0, <2>1, <2>2, StageIs, StageNext, StageFreed
  <1> QED
    BY <1>1, <1>2, <1>3, <1>4, <1>5, <1>6

(* Everybody else leaves the threads and the containers' places alone.     *)
PlaceVars == <<head, slot, active, empty, deferred, old, scan, log>>

LEMMA OtherStages ==
  ASSUME Mutex
  PROVE  /\ \A c \in Clients : AcceptPeer(c) => Stage' = Stage /\ UNCHANGED <<PlaceVars, cont, pc>>
         /\ AcceptStep => Stage' = Stage /\ UNCHANGED <<PlaceVars, cont, pc>>
         /\ TerminateCall \/ TerminateStep \/ SetBufferSwitch =>
              Stage' = Stage /\ UNCHANGED <<PlaceVars, cont, pc>>
         /\ \A c \in Clients : PeerStep(c) => Stage' = Stage /\ UNCHANGED <<PlaceVars, pc>>
  <1> USE DEF PlaceVars, mbufVars, threadVars, clientVars, ctlVars, historyVars
  <1>1. ASSUME NEW c \in Clients, AcceptPeer(c)
        PROVE  Stage' = Stage /\ UNCHANGED <<PlaceVars, cont, pc>>
    BY <1>1, StageKept DEF AcceptPeer
  <1>2. ASSUME AcceptStep PROVE Stage' = Stage /\ UNCHANGED <<PlaceVars, cont, pc>>
    <2>1. CASE AcceptTop
      BY <2>1, StageKept DEF AcceptTop
    <2>2. CASE AcceptLock
      BY <2>2, StageFree, StageFreed DEF AcceptLock
    <2>3. CASE AcceptRefuse
      <3>1. mtx = "accept"
        BY <2>3 DEF AcceptRefuse, Mutex
      <3> QED
        BY <2>3, <3>1, StageFree, StageFreed DEF AcceptRefuse, Unlock
    <2>4. CASE AcceptList
      BY <2>4, StageKept DEF AcceptList
    <2>5. CASE AcceptCount
      <3>1. mtx = "accept"
        BY <2>5 DEF AcceptCount, Mutex
      <3> QED
        BY <2>5, <3>1, StageFree, StageFreed DEF AcceptCount, Unlock
    <2> QED
      BY <1>2, <2>1, <2>2, <2>3, <2>4, <2>5 DEF AcceptStep
  <1>3. ASSUME TerminateCall \/ TerminateStep \/ SetBufferSwitch
        PROVE  Stage' = Stage /\ UNCHANGED <<PlaceVars, cont, pc>>
    BY <1>3, StageKept DEF TerminateCall, TerminateStep, TerminateDrained, TerminateSet,
                           SetBufferSwitch
  <1>4. ASSUME NEW c \in Clients, PeerStep(c)
        PROVE  Stage' = Stage /\ UNCHANGED <<PlaceVars, pc>>
    <2>1. UNCHANGED <<PlaceVars, pc, mtx>>
      BY <1>4 DEF PeerStep, PeerTop, PeerPick, PeerAcquire, PeerVerify, PeerGiveUp, PeerSkip,
                  PeerSent, PeerBroken, PeerRelease, PeerNext, PeerJump, PeerLeave, Disconnect,
                  OnlyPeer
    <2> QED
      BY <2>1, StageKept
  <1> QED
    BY <1>1, <1>2, <1>3, <1>4

-----------------------------------------------------------------------------
(* The parts of the invariant about where everybody is.                    *)
LEMMA PeerFrame ==
  ASSUME NEW c \in Clients, PeerStep(c)
  PROVE  /\ UNCHANGED <<head, tail, slot, active, empty, deferred, processed, threadVars, waiting,
                        acc, terminated, bufferswitch, term, drainFrom, log, accepted>>
         /\ st[c] # "off" /\ (accClient' = accClient)
         /\ \E s \in ClientStates : st' = [st EXCEPT ![c] = s]
  <1> USE DEF SetState, OnlyPeer, ClientStates, ctlVars, historyVars
  <1>1. CASE PeerTop(c)
    BY <1>1 DEF PeerTop
  <1>2. CASE PeerPick(c)
    BY <1>2 DEF PeerPick
  <1>3. CASE PeerAcquire(c)
    BY <1>3 DEF PeerAcquire
  <1>4. CASE PeerVerify(c)
    BY <1>4 DEF PeerVerify
  <1>5. CASE PeerGiveUp(c)
    BY <1>5 DEF PeerGiveUp
  <1>6. CASE PeerSkip(c)
    BY <1>6 DEF PeerSkip
  <1>7. CASE PeerSent(c)
    BY <1>7 DEF PeerSent
  <1>8. CASE PeerBroken(c)
    BY <1>8 DEF PeerBroken
  <1>9. CASE PeerRelease(c)
    BY <1>9 DEF PeerRelease
  <1>10. CASE PeerNext(c)
    BY <1>10 DEF PeerNext
  <1>11. CASE PeerJump(c)
    BY <1>11 DEF PeerJump
  <1>12. CASE PeerLeave(c)
    BY <1>12 DEF PeerLeave, Disconnect, mbufVars
  <1> QED
    BY <1>1, <1>2, <1>3, <1>4, <1>5, <1>6, <1>7, <1>8, <1>9, <1>10, <1>11, <1>12 DEF PeerStep

LEMMA AcquiredType ==
  ASSUME NEW k \in ContainerType
  PROVE  /\ Acquired(k) \in ContainerType
         /\ Acquired(k).idx = k.idx /\ Acquired(k).seq = k.seq /\ Acquired(k).msgs = k.msgs
         /\ Acquired(k).ref = (k.ref + 1) % 256
  <1>1. \A n \in 0 .. 255 : (n + 1) % 256 \in 0 .. 255
    OBVIOUS
  <1>2. k.ref \in 0 .. 255
    BY ContainerFields
  <1>3. (k.ref + 1) % 256 \in 0 .. 255
    BY <1>1, <1>2, Zenon
  <1> QED
    BY <1>3 DEF ContainerType, Acquired

(* A client's thread changes no more of a container than its counter.      *)
LEMMA PeerCont ==
  ASSUME TypeOK, Serving, NEW c \in Clients, PeerStep(c)
  PROVE  /\ cont' \in [Containers -> ContainerType]
         /\ \A k \in Containers : /\ cont'[k].idx = cont[k].idx /\ cont'[k].seq = cont[k].seq
                                 /\ cont'[k].msgs = cont[k].msgs
  <1>0. cont \in [Containers -> ContainerType]
    BY DEF TypeOK, SenderTypeOK
  <1>1. CASE UNCHANGED cont
    BY <1>0, <1>1
  <1>2. CASE PeerAcquire(c)
    <2>1. tcont[c] \in Containers
      BY <1>2 DEF PeerAcquire, Serving
    <2> QED
      BY <1>0, <1>2, <2>1, AcquiredType DEF PeerAcquire
  <1>3. CASE PeerGiveUp(c) \/ PeerBroken(c) \/ PeerRelease(c)
    <2>1. tcont[c] \in Containers
      BY <1>3 DEF PeerGiveUp, PeerBroken, PeerRelease, Serving
    <2>2. UNCHANGED cont \/ cont' = [cont EXCEPT ![tcont[c]] = Decremented(@)]
      BY <1>3 DEF PeerGiveUp, PeerBroken, PeerRelease
    <2>3. /\ Decremented(cont[tcont[c]]) \in ContainerType
          /\ Decremented(cont[tcont[c]]).msgs = cont[tcont[c]].msgs
          /\ Decremented(cont[tcont[c]]).idx = cont[tcont[c]].idx
          /\ Decremented(cont[tcont[c]]).seq = cont[tcont[c]].seq
      BY <1>0, <2>1, DecrementedType DEF Decremented, ContainerType
    <2> QED
      BY <1>0, <2>1, <2>2, <2>3
  <1> QED
    BY <1>1, <1>2, <1>3 DEF PeerStep, PeerTop, PeerPick, PeerVerify, PeerSkip, PeerSent, PeerNext,
                            PeerJump, PeerLeave, Disconnect, mbufVars

(* Types.                                                                  *)
LEMMA TypeStep ==
  ASSUME Structure, Next
  PROVE  TypeOK'
  <1>0. TypeOK /\ SenderTypeOK /\ Mutex /\ Serving /\ Handling /\ Counted
    BY DEF Structure, TypeOK
  <1>1. CASE SharedStep /\ UNCHANGED peerVars
    <2>1. \A t \in Threads : pc[t] \in {"unref", "clear", "wipe", "rewipe"} => old \in Containers
      BY <1>0, StageIs DEF Handling, Holding
    <2>2. \A t \in Threads : pc[t] = "reclaim" => scan \in 1 .. Len(deferred)
      BY <1>0, StageIs DEF Handling, Holding
    <2>3. /\ acc \in {"lock", "negotiate", "count"} => accClient \in Clients
          /\ acc = "lock" => waiting = 1
      BY <1>0 DEF Counted
    <2>4. SenderTypeOK'
      BY <1>0, <1>1, <2>1, <2>2, <2>3, SharedType
    <2> QED
      BY <1>0, <1>1, <2>4 DEF TypeOK, peerVars
  <1>2. ASSUME NEW c \in Clients, PeerStep(c) PROVE TypeOK'
    <2>1. cont' \in [Containers -> ContainerType]
      BY <1>0, <1>2, PeerCont
    <2>2. st' \in [Clients -> ClientStates]
      BY <1>0, <1>2, PeerFrame DEF SenderTypeOK
    <2>3. cid' \in [Clients -> Nat] /\ connected' \in Int
      <3>1. CASE PeerSkip(c) \/ PeerJump(c)
        BY <1>0, <3>1 DEF SenderTypeOK, PeerSkip, PeerJump, OnlyPeer
      <3>2. CASE PeerNext(c)
        <4>1. cid \in [Clients -> Nat] /\ connected \in Int /\ connected' = connected
          BY <1>0, <3>2 DEF SenderTypeOK, PeerNext, OnlyPeer
        <4>2. cid' = cid \/ cid' = [cid EXCEPT ![c] = @ + 1]
          BY <3>2 DEF PeerNext
        <4>3. cid[c] + 1 \in Nat
          BY <4>1
        <4> QED
          BY <4>1, <4>2, <4>3
      <3>3. CASE PeerLeave(c)
        BY <1>0, <3>3 DEF SenderTypeOK, PeerLeave, Disconnect
      <3> QED
        BY <1>0, <1>2, <3>1, <3>2, <3>3 DEF SenderTypeOK, PeerStep, PeerTop, PeerPick, PeerAcquire,
           PeerVerify, PeerGiveUp, PeerSent, PeerBroken, PeerRelease, OnlyPeer
    <2>4. SenderTypeOK'
      BY <1>0, <1>2, <2>1, <2>2, <2>3, PeerFrame DEF SenderTypeOK, threadVars
    <2>5. tcont' \in [Clients -> Containers \cup {NoContainer}] /\ missed' \in BOOLEAN
      <3>1. CASE PeerPick(c)
        <4>1. At(cid[c]) \in Containers \cup {NoContainer}
          BY <1>0, SlotOf DEF SenderTypeOK, At, RingSlots
        <4> QED
          BY <1>0, <3>1, <4>1 DEF TypeOK, PeerPick
      <3>2. CASE PeerVerify(c)
        BY <1>0, <3>2 DEF TypeOK, PeerVerify, Recovering
      <3> QED
        BY <1>0, <1>2, <3>1, <3>2 DEF TypeOK, PeerStep, PeerTop, PeerAcquire,
           PeerGiveUp, PeerSkip, PeerSent, PeerBroken, PeerRelease, PeerNext, PeerJump, PeerLeave,
           peerVars
    <2>6. /\ nextSeq' \in [Clients -> Nat \cup {-1}] /\ skipped' \in [Clients -> Int]
          /\ sent' \in [Clients -> Seq([id : Nat, msgs : Seq(Nat)])]
      <3>1. CASE PeerSent(c)
        <4>1. tcont[c] \in Containers
          BY <1>0, <3>1 DEF PeerSent, Serving
        <4>2. PICK k \in ContainerType : k = cont[tcont[c]]
          BY <1>0, <4>1 DEF SenderTypeOK
        <4>3. k.seq \in Nat /\ k.msgs \in Seq(Nat) /\ Len(k.msgs) \in Nat
          BY ContainerFields, LenProperties
        <4>4. nextSeq[c] \in Int /\ cid[c] \in Nat
          BY <1>0 DEF TypeOK, SenderTypeOK
        <4>5. [id |-> cid[c], msgs |-> k.msgs] \in [id : Nat, msgs : Seq(Nat)]
          BY <4>3, <4>4
        <4>6. Append(sent[c], [id |-> cid[c], msgs |-> k.msgs]) \in Seq([id : Nat, msgs : Seq(Nat)])
          BY <1>0, <4>5 DEF TypeOK
        <4>7. sent' \in [Clients -> Seq([id : Nat, msgs : Seq(Nat)])]
          BY <1>0, <3>1, <4>2, <4>6 DEF PeerSent, TypeOK
        <4>8. Tally(c, k)
          BY <3>1, <4>2 DEF PeerSent
        <4>9. k.seq + Len(k.msgs) \in Nat
          BY <4>3
        <4>10. nextSeq' \in [Clients -> Nat \cup {-1}]
          BY <1>0, <4>8, <4>9 DEF Tally, TypeOK
        <4>11. skipped[c] + (IF nextSeq[c] = -1 THEN 0 ELSE k.seq - nextSeq[c]) \in Int
          BY <1>0, <4>3, <4>4 DEF TypeOK
        <4>12. skipped' \in [Clients -> Int]
          BY <1>0, <4>8, <4>11 DEF Tally, TypeOK
        <4> QED
          BY <4>7, <4>10, <4>12
      <3>2. CASE PeerLeave(c)
        BY <1>0, <3>2, EmptySeq DEF PeerLeave, TypeOK
      <3> QED
        BY <1>0, <1>2, <3>1, <3>2 DEF TypeOK, PeerStep, PeerTop, PeerPick, PeerAcquire, PeerVerify,
           PeerGiveUp, PeerSkip, PeerBroken, PeerRelease, PeerNext, PeerJump, peerVars
    <2> QED
      BY <2>4, <2>5, <2>6 DEF TypeOK
  <1> QED
    BY <1>1, <1>2 DEF Next

(* The lock, the waiting that never happens, and t_cont.                   *)
LEMMA LockStep ==
  ASSUME Structure, Next
  PROVE  Mutex' /\ NeverWaits' /\ Serving'
  <1>0. TypeOK /\ SenderTypeOK /\ Mutex /\ NeverWaits /\ Serving
    BY DEF Structure, TypeOK
  <1>1. CASE SharedStep /\ UNCHANGED peerVars
    <2>1. Mutex'
      BY <1>0, <1>1, SharedMutex
    <2>2. NeverWaits'
      <3>1. ~MustWait
        BY NonBlockingAssumption DEF MustWait
      <3>2. ASSUME NEW t \in Threads, SendCall(t) \/ FlushCall(t) \/ AutoFlushCall(t)
            PROVE  NeverWaits'
        BY <1>0, <3>2 DEF NeverWaits, SendCall, FlushCall, AutoFlushCall, Goto, SenderTypeOK
      <3>3. ASSUME NEW t \in Threads, ThreadStep(t)
            PROVE  NeverWaits'
        <4>1. \/ UNCHANGED pc
              \/ \E s \in ThreadStates \ {"repeat", "yield", "relock"} : Goto(t, s)
          <5> USE DEF ThreadStates
          <5>1. CASE SendStore(t) \/ SendFull(t) \/ FlushLocked(t)
            BY <5>1 DEF SendStore, SendFull, FlushLocked, AfterInsert
          <5>2. CASE FinishHeader(t)
            BY <3>1, <5>2 DEF FinishHeader
          <5>3. CASE FinishRepeat(t) \/ FinishYield(t) \/ FinishRelock(t)
            BY <1>0, <5>3 DEF FinishRepeat, FinishYield, FinishRelock, NeverWaits
          <5>4. CASE RingStore(t) \/ RingPublish(t) \/ RingAdvanceTail(t)
            BY <5>4 DEF RingStore, RingPublish, RingAdvanceTail
          <5>5. CASE OldPeek(t) \/ OldUnref(t) \/ OldClear(t) \/ OldWipe(t)
            BY <5>5 DEF OldPeek, OldUnref, OldClear, OldWipe
          <5>6. CASE ScanBegin(t) \/ ScanLook(t) \/ ScanReclaim(t) \/ ScanWipe(t) \/ ScanEnd(t)
            BY <5>6 DEF ScanBegin, ScanLook, ScanReclaim, ScanWipe, ScanEnd
          <5>7. CASE TakeForSend(t) \/ TakeForSwitch(t) \/ TakeForFlush(t)
            BY <5>7 DEF TakeForSend, TakeForSwitch, TakeForFlush, AfterInsert
          <5> QED
            BY <3>3, <5>1, <5>2, <5>3, <5>4, <5>5, <5>6, <5>7 DEF ThreadStep
        <4> QED
          BY <1>0, <4>1 DEF NeverWaits, Goto, SenderTypeOK
      <3>4. CASE UNCHANGED pc
        BY <1>0, <3>4 DEF NeverWaits
      <3>5. ASSUME \/ \E c \in Clients : AcceptPeer(c)
                   \/ AcceptStep \/ TerminateCall \/ TerminateStep \/ SetBufferSwitch
            PROVE  UNCHANGED pc
        BY <1>0, <3>5, OtherStages
      <3> QED
        BY <1>1, <3>2, <3>3, <3>4, <3>5 DEF SharedStep
    <2>3. UNCHANGED tcont /\ \A c \in Clients : st'[c] # st[c] => st'[c] = "top"
      <3>1. UNCHANGED st \/ AcceptList
        BY <1>1 DEF SharedStep, SendCall, FlushCall, AutoFlushCall, ThreadStep, SendStore, SendFull,
           FlushLocked, FinishHeader, FinishRepeat, FinishYield, FinishRelock, RingStore,
           RingPublish, RingAdvanceTail, OldPeek, OldUnref, OldClear, OldWipe, ScanBegin, ScanLook,
           ScanReclaim, ScanWipe, ScanEnd, TakeForSend, TakeForSwitch, TakeForFlush, AcceptPeer,
           AcceptStep, AcceptTop, AcceptLock, AcceptRefuse, AcceptCount, TerminateCall,
           TerminateStep, TerminateDrained, TerminateSet, SetBufferSwitch, clientVars
      <3> QED
        BY <1>0, <1>1, <3>1 DEF AcceptList, SenderTypeOK, peerVars
    <2> QED
      BY <1>0, <2>1, <2>2, <2>3 DEF Serving
  <1>2. ASSUME NEW c \in Clients, PeerStep(c) PROVE Mutex' /\ NeverWaits' /\ Serving'
    <2>1. UNCHANGED <<pc, mtx, acc>>
      BY <1>2, PeerFrame DEF threadVars
    <2>2. \A d \in Clients : d # c => st'[d] = st[d] /\ tcont'[d] = tcont[d]
      <3>1. \A d \in Clients : d # c => st'[d] = st[d]
        BY <1>0, <1>2, PeerFrame DEF SenderTypeOK
      <3>2. \A d \in Clients : d # c => tcont'[d] = tcont[d]
        BY <1>0, <1>2 DEF PeerStep, PeerTop, PeerPick, PeerAcquire, PeerVerify,
           PeerGiveUp, PeerSkip, PeerSent, PeerBroken, PeerRelease, PeerNext, PeerJump, PeerLeave,
           peerVars, TypeOK
      <3> QED
        BY <3>1, <3>2
    <2>3. st'[c] \in {"acquire", "verify", "send", "release", "giveup"} => tcont'[c] \in Containers
      <3>1. st \in [Clients -> ClientStates] /\ tcont \in [Clients -> Containers \cup {NoContainer}]
        BY <1>0 DEF TypeOK, SenderTypeOK
      <3>2. CASE PeerPick(c)
        <4>1. At(cid[c]) \in Containers
          BY <1>0, <3>2, SlotOf DEF SenderTypeOK, At, RingSlots, PeerPick
        <4> QED
          BY <3>1, <3>2, <4>1 DEF PeerPick, SetState
      <3>3. CASE PeerAcquire(c) \/ PeerVerify(c) \/ PeerSent(c)
        BY <1>0, <3>1, <3>3 DEF Serving, PeerAcquire, PeerVerify, PeerSent, SetState
      <3> QED
        BY <1>0, <1>2, <3>1, <3>2, <3>3 DEF PeerStep, PeerTop, PeerGiveUp, PeerSkip,
           PeerBroken, PeerRelease, PeerNext, PeerJump, PeerLeave, Disconnect, SetState
    <2> QED
      BY <1>0, <2>1, <2>2, <2>3 DEF Mutex, NeverWaits, Serving
  <1> QED
    BY <1>1, <1>2 DEF Next

-----------------------------------------------------------------------------
(* A step that leaves every container, and its place, alone; it may move   *)
(* the thread that holds ifc_mtx.                                          *)
PlacesKept == UNCHANGED <<slot, empty, deferred, active, old>>
RingKept == UNCHANGED <<head, log>>

Quiet ==
  /\ PlacesKept /\ RingKept /\ UNCHANGED <<cont, scan>>
  /\ \/ Stage' = Stage
     \/ Stage = "idle" /\ Stage' = "finish"
     \/ Stage = "full" /\ Stage' = IF old = NoContainer THEN "get" ELSE "peek"
     \/ Stage = "peek" /\ Stage' = IF cont[old].ref = 0 THEN "clear" ELSE "unref"
     \/ Stage = "scan" /\ scan > Len(deferred) /\ Stage' = "pop"
     \/ /\ Stage = "scan" /\ scan <= Len(deferred)
        /\ cont[deferred[scan]].ref = 0 /\ Stage' = "reclaim"

(* The loop index of t_mbuf_get_empty_container moves.                     *)
Looks ==
  /\ PlacesKept /\ RingKept /\ UNCHANGED cont
  /\ Stage' = "scan"
  /\ \/ Stage = "get" /\ scan' = 1
     \/ /\ Stage = "scan" /\ scan <= Len(deferred) /\ cont[deferred[scan]].ref # 0
        /\ scan' = scan + 1

Noisy(t) ==
  \/ SendStore(t) \/ FinishHeader(t) \/ RingStore(t) \/ RingPublish(t)
  \/ OldUnref(t) \/ OldClear(t) \/ OldWipe(t) \/ ScanReclaim(t) \/ ScanWipe(t)
  \/ TakeForSend(t) \/ TakeForSwitch(t) \/ TakeForFlush(t)

LEMMA SharedCases ==
  ASSUME Structure, SharedStep
  PROVE  Quiet \/ Looks \/ \E t \in Threads : Noisy(t)
  <1>0. TypeOK /\ SenderTypeOK /\ Mutex /\ NeverWaits /\ Handling
    BY DEF Structure, TypeOK
  <1> USE DEF PlacesKept, RingKept, mbufVars, historyVars
  <1>1. ASSUME NEW t \in Threads, SendCall(t) \/ FlushCall(t) \/ AutoFlushCall(t) PROVE Quiet
    <2>1. Stage' = Stage
      BY <1>0, <1>1, CallStages
    <2> QED
      BY <1>1, <2>1 DEF Quiet, SendCall, FlushCall, AutoFlushCall
  <1>2. ASSUME NEW t \in Threads, SendFull(t) \/ FlushLocked(t) PROVE Quiet
    <2>1. Stage = "idle" /\ Stage' \in {"idle", "finish"}
      BY <1>0, <1>2, CallStages
    <2> QED
      BY <1>2, <2>1 DEF Quiet, SendFull, FlushLocked
  <1>3. ASSUME NEW t \in Threads, RingAdvanceTail(t) PROVE Quiet
    <2>1. Stage = "full" /\ Stage' = IF old = NoContainer THEN "get" ELSE "peek"
      BY <1>0, <1>3, FinishStages
    <2> QED
      BY <1>3, <2>1 DEF Quiet, RingAdvanceTail
  <1>4. ASSUME NEW t \in Threads, OldPeek(t) PROVE Quiet
    <2>1. Stage = "peek" /\ Stage' = IF cont[old].ref = 0 THEN "clear" ELSE "unref"
      BY <1>0, <1>4, FinishStages
    <2> QED
      BY <1>4, <2>1 DEF Quiet, OldPeek
  <1>5. ASSUME NEW t \in Threads, ScanBegin(t) PROVE Looks
    <2>1. Stage = "get" /\ Stage' = "scan"
      BY <1>0, <1>5, TakeStages
    <2> QED
      BY <1>5, <2>1 DEF Looks, ScanBegin
  <1>6. ASSUME NEW t \in Threads, ScanLook(t) PROVE Quiet \/ Looks
    <2>1. Stage = "scan" /\ Stage' = IF cont[deferred[scan]].ref = 0 THEN "reclaim" ELSE "scan"
      BY <1>0, <1>6, TakeStages
    <2>2. CASE cont[deferred[scan]].ref = 0
      BY <1>6, <2>1, <2>2 DEF Quiet, ScanLook
    <2>3. CASE cont[deferred[scan]].ref # 0
      BY <1>6, <2>1, <2>3 DEF Looks, ScanLook
    <2> QED
      BY <2>2, <2>3
  <1>7. ASSUME NEW t \in Threads, ScanEnd(t) PROVE Quiet
    <2>1. Stage = "scan" /\ Stage' = "pop"
      BY <1>0, <1>7, TakeStages
    <2> QED
      BY <1>7, <2>1 DEF Quiet, ScanEnd
  <1>8. ASSUME \/ \E c \in Clients : AcceptPeer(c)
               \/ AcceptStep \/ TerminateCall \/ TerminateStep \/ SetBufferSwitch
        PROVE  Quiet
    BY <1>0, <1>8, OtherStages DEF Quiet, PlaceVars
  <1>9. \A t \in Threads : ~(FinishRepeat(t) \/ FinishYield(t) \/ FinishRelock(t))
    BY <1>0, FinishStages
  <1> QED
    BY <1>1, <1>2, <1>3, <1>4, <1>5, <1>6, <1>7, <1>8, <1>9 DEF SharedStep, ThreadStep, Noisy

LEMMA PeerQuiet ==
  ASSUME Structure, NEW c \in Clients, PeerStep(c)
  PROVE  PlacesKept /\ RingKept /\ scan' = scan /\ Stage' = Stage
  BY OtherStages DEF Structure, PlaceVars, PlacesKept, RingKept

LEMMA HandlingStep ==
  ASSUME Structure, Next
  PROVE  Handling'
  <1>0. TypeOK /\ SenderTypeOK /\ Mutex /\ NeverWaits /\ Handling
    BY DEF Structure, TypeOK
  <1>1. scan \in Nat /\ old \in Containers \cup {NoContainer} /\ deferred \in Seq(Containers)
    BY <1>0 DEF SenderTypeOK
  <1>2. CASE Quiet
    <2>1. scan >= 1 /\ scan <= Len(deferred) => scan \in 1 .. Len(deferred)
      BY <1>1, LenProperties
    <2> QED
      BY <1>0, <1>1, <1>2, <2>1 DEF Quiet, Handling, PlacesKept
  <1>3. CASE Looks
    <2>1. Stage' = "scan" /\ scan' >= 1
      BY <1>0, <1>1, <1>3 DEF Looks, Handling
    <2> QED
      BY <2>1 DEF Handling
  <1>4. ASSUME NEW t \in Threads, Noisy(t) PROVE Handling'
    <2>1. CASE SendStore(t) \/ FinishHeader(t) \/ RingStore(t) \/ RingPublish(t)
      <3>1. Stage' \in {"idle", "finish", "store", "publish", "full"}
        BY <1>0, <2>1, CallStages, FinishStages
      <3> QED
        BY <3>1 DEF Handling
    <2>2. CASE OldUnref(t) \/ OldClear(t) \/ OldWipe(t)
      <3>1. Stage \in {"unref", "clear", "wipe"} /\ Stage' \in {"get", "clear", "wipe"} /\ old' = old
        BY <1>0, <2>2, FinishStages DEF OldUnref, OldClear, OldWipe
      <3> QED
        BY <1>0, <3>1 DEF Handling
    <2>3. CASE ScanReclaim(t)
      <3>1. Stage = "reclaim" /\ Stage' = "rewipe" /\ old' = deferred[scan]
        BY <1>0, <2>3, TakeStages DEF ScanReclaim
      <3>2. deferred[scan] \in Containers
        BY <1>0, <1>1, <3>1, ElementOfSeq DEF Handling
      <3> QED
        BY <3>1, <3>2 DEF Handling
    <2>4. CASE ScanWipe(t)
      <3>1. Stage' = "scan" /\ scan' = 1
        BY <1>0, <2>4, TakeStages DEF ScanWipe
      <3> QED
        BY <3>1 DEF Handling
    <2>5. CASE TakeForSend(t) \/ TakeForSwitch(t) \/ TakeForFlush(t)
      <3>1. Stage' \in {"idle", "finish"}
        BY <1>0, <2>5, TakeStages
      <3> QED
        BY <3>1 DEF Handling
    <2> QED
      BY <1>4, <2>1, <2>2, <2>3, <2>4, <2>5 DEF Noisy
  <1>5. ASSUME NEW c \in Clients, PeerStep(c) PROVE Handling'
    BY <1>0, <1>5, PeerQuiet DEF Handling, PlacesKept
  <1> QED
    BY <1>2, <1>3, <1>4, <1>5, SharedCases DEF Next

(* The clients listed are counted, and one place is kept for the peer that *)
(* is being accepted.                                                      *)
LEMMA CountedStep ==
  ASSUME Structure, Next
  PROVE  Counted'
  <1>0. TypeOK /\ SenderTypeOK /\ Mutex /\ Counted
    BY DEF Structure, TypeOK
  <1> DEFINE n == Cardinality(Listed)
  <1>1. /\ n \in Nat /\ IsFiniteSet(Listed) /\ connected \in Int /\ MaxClients \in Nat
        /\ st \in [Clients -> ClientStates]
    BY <1>0, ListedFinite, RingAssumption DEF SenderTypeOK
  <1>2. ASSUME UNCHANGED <<connected, waiting, acc, accClient, st>> PROVE Counted'
    BY <1>0, <1>2 DEF Counted, Listed
  <1>3. ASSUME NEW c \in Clients, AcceptPeer(c) PROVE Counted'
    <2>1. UNCHANGED <<connected, st>> /\ acc = "poll" /\ acc' = "lock" /\ accClient' = c
          /\ st[c] = "off" /\ connected < MaxClients /\ waiting' = waiting + 1
      BY <1>3 DEF AcceptPeer
    <2> QED
      BY <1>0, <2>1 DEF Counted, Listed
  <1>4. CASE AcceptTop
    <2>1. UNCHANGED <<connected, st, waiting>> /\ acc = "top" /\ acc' \in {"end", "poll"}
      BY <1>4 DEF AcceptTop
    <2> QED
      BY <1>0, <2>1 DEF Counted, Listed
  <1>5. CASE AcceptLock
    <2>1. /\ UNCHANGED <<connected, st, accClient>> /\ acc = "lock" /\ acc' = "negotiate"
          /\ waiting' = waiting - 1
      BY <1>5 DEF AcceptLock
    <2> QED
      BY <1>0, <2>1 DEF Counted, Listed
  <1>6. CASE AcceptRefuse
    <2>1. UNCHANGED <<connected, st, waiting>> /\ acc = "negotiate" /\ acc' = "top"
      BY <1>6 DEF AcceptRefuse
    <2> QED
      BY <1>0, <2>1 DEF Counted, Listed
  <1>7. CASE AcceptList
    <2>1. /\ UNCHANGED <<connected, waiting, accClient>> /\ acc = "negotiate" /\ acc' = "count"
          /\ st' = [st EXCEPT ![accClient] = "top"]
      BY <1>7 DEF AcceptList
    <2>2. accClient \in Clients /\ st[accClient] = "off"
      BY <1>0, <2>1 DEF Counted
    <2>3. Listed' = Listed \cup {accClient} /\ accClient \notin Listed
      BY <1>1, <2>1, <2>2 DEF Listed
    <2>4. Cardinality(Listed') = n + 1
      BY <1>1, <2>3, FS_AddElement
    <2> QED
      BY <1>0, <1>1, <2>1, <2>4 DEF Counted
  <1>8. CASE AcceptCount
    <2>1. /\ UNCHANGED <<st, waiting>> /\ acc = "count" /\ acc' = "top"
          /\ connected' = connected + 1
      BY <1>8 DEF AcceptCount
    <2> QED
      BY <1>0, <1>1, <2>1 DEF Counted, Listed
  <1>9. ASSUME NEW c \in Clients, PeerStep(c) PROVE Counted'
    <2>1. UNCHANGED <<waiting, acc, accClient>> /\ st[c] # "off"
      BY <1>9, PeerFrame
    <2>2. CASE PeerLeave(c)
      <3>1. st' = [st EXCEPT ![c] = "off"] /\ connected' = connected - 1
        BY <2>2 DEF PeerLeave, Disconnect
      <3>2. Listed' = Listed \ {c} /\ c \in Listed
        BY <1>1, <2>1, <3>1 DEF Listed
      <3>3. Cardinality(Listed') = n - 1
        BY <1>1, <3>2, FS_RemoveElement
      <3>4. \A d \in Clients : st[d] = "off" => st'[d] = "off"
        BY <1>1, <3>1
      <3> QED
        BY <1>0, <1>1, <2>1, <3>1, <3>3, <3>4 DEF Counted
    <2>3. CASE ~PeerLeave(c)
      <3>1. connected' = connected /\ \E s \in ClientStates \ {"off"} : st' = [st EXCEPT ![c] = s]
        BY <1>9, <2>3 DEF PeerStep, PeerTop, PeerPick, PeerAcquire, PeerVerify, PeerGiveUp, PeerSkip,
           PeerSent, PeerBroken, PeerRelease, PeerNext, PeerJump, OnlyPeer, SetState, ClientStates
      <3>2. Listed' = Listed
        BY <1>1, <2>1, <3>1 DEF Listed
      <3>3. \A d \in Clients : st[d] = "off" => st'[d] = "off"
        BY <1>1, <2>1, <3>1
      <3> QED
        BY <1>0, <1>1, <2>1, <3>1, <3>2, <3>3 DEF Counted
    <2> QED
      BY <2>2, <2>3
  <1>10. ASSUME SharedStep
         PROVE  \/ UNCHANGED <<connected, waiting, acc, accClient, st>>
                \/ (\E c \in Clients : AcceptPeer(c)) \/ AcceptStep
    BY <1>10 DEF SharedStep, SendCall, FlushCall, AutoFlushCall, ThreadStep, SendStore, SendFull,
       FlushLocked, FinishHeader, FinishRepeat, FinishYield, FinishRelock, RingStore,
       RingPublish, RingAdvanceTail, OldPeek, OldUnref, OldClear, OldWipe, ScanBegin, ScanLook,
       ScanReclaim, ScanWipe, ScanEnd, TakeForSend, TakeForSwitch, TakeForFlush, TerminateCall,
       TerminateStep, TerminateDrained, TerminateSet, SetBufferSwitch, clientVars
  <1> QED
    BY <1>2, <1>3, <1>4, <1>5, <1>6, <1>7, <1>8, <1>9, <1>10 DEF Next, AcceptStep

-----------------------------------------------------------------------------
(* Stacks: one more on top, the top taken, and one swapped out.            *)
LEMMA PushType ==
  ASSUME NEW S, NEW s \in Seq(S), NEW e \in S
  PROVE  /\ Append(s, e) \in Seq(S) /\ Len(s) \in Nat /\ Len(Append(s, e)) = Len(s) + 1
         /\ \A i \in 1 .. Len(s) : Append(s, e)[i] = s[i]
         /\ Append(s, e)[Len(s) + 1] = e
         /\ \A i \in 1 .. Len(Append(s, e)) : i \in 1 .. Len(s) \/ i = Len(s) + 1
  <1>1. /\ Append(s, e) \in Seq(S) /\ Len(s) \in Nat /\ Len(Append(s, e)) = Len(s) + 1
        /\ \A i \in 1 .. Len(s) : Append(s, e)[i] = s[i]
        /\ Append(s, e)[Len(s) + 1] = e
    BY AppendProperties, LenProperties
  <1> QED
    BY <1>1

(* What t_stack_swap_and_pop leaves of the deferred containers.            *)
LEMMA SwappedOut ==
  ASSUME deferred \in Seq(Containers), scan \in 1 .. Len(deferred),
         deferred' = Front([deferred EXCEPT ![scan] = Last(deferred)])
  PROVE  /\ \A i \in 1 .. Len(deferred') :
              \E j \in 1 .. Len(deferred) : j # scan /\ deferred'[i] = deferred[j]
         /\ \A j \in 1 .. Len(deferred) :
              j # scan => \E i \in 1 .. Len(deferred') : deferred'[i] = deferred[j]
         /\ (\A i, j \in 1 .. Len(deferred) : deferred[i] = deferred[j] => i = j)
              => \A i, j \in 1 .. Len(deferred') : deferred'[i] = deferred'[j] => i = j
  <1>a. PICK d \in Seq(Containers) : d = deferred
    OBVIOUS
  <1>b. PICK n \in 1 .. Len(d) : n = scan
    BY <1>a
  <1>c. PICK r : r = deferred'
    OBVIOUS
  <1>0. r = Front([d EXCEPT ![n] = Last(d)])
    BY <1>a, <1>b, <1>c
  <1> DEFINE e == [d EXCEPT ![n] = Last(d)]
  <1>1. Len(d) \in Nat \ {0} /\ d # <<>> /\ n \in Nat
    BY LenProperties, EmptySeq
  <1>2. Last(d) \in Containers /\ Last(d) = d[Len(d)]
    BY <1>1, PopType
  <1>3. /\ e \in Seq(Containers) /\ Len(e) = Len(d)
        /\ \A i \in 1 .. Len(d) : e[i] = IF i = n THEN Last(d) ELSE d[i]
    BY <1>2, ExceptSeq
  <1>4. e # <<>> /\ r = Front(e)
    BY <1>0, <1>1, <1>3, EmptySeq
  <1> HIDE DEF e
  <1>5. Len(r) = Len(d) - 1 /\ \A i \in 1 .. Len(d) - 1 : r[i] = e[i]
    BY <1>3, <1>4, PopType
  <1>6. \A i \in 1 .. Len(r) : r[i] = d[IF i = n THEN Len(d) ELSE i]
    <2> TAKE i \in 1 .. Len(r)
    <2>1. i \in 1 .. Len(d) - 1 /\ i \in 1 .. Len(d)
      BY <1>1, <1>5
    <2> QED
      BY <1>2, <1>3, <1>5, <2>1
  <1>7. \A i \in 1 .. Len(r) : \E j \in 1 .. Len(d) : j # n /\ r[i] = d[j]
    <2> TAKE i \in 1 .. Len(r)
    <2>1. PICK j \in Int : j = IF i = n THEN Len(d) ELSE i
      BY <1>1
    <2>2. j \in 1 .. Len(d) /\ j # n
      BY <1>1, <1>5, <2>1
    <2> QED
      BY <1>6, <2>1, <2>2
  <1>8. \A j \in 1 .. Len(d) : j # n => \E i \in 1 .. Len(r) : r[i] = d[j]
    <2> SUFFICES ASSUME NEW j \in 1 .. Len(d), j # n PROVE \E i \in 1 .. Len(r) : r[i] = d[j]
      OBVIOUS
    <2>1. CASE j = Len(d)
      <3>1. n \in 1 .. Len(r)
        BY <1>1, <1>5, <2>1
      <3> QED
        BY <1>6, <2>1, <3>1
    <2>2. CASE j # Len(d)
      <3>1. j \in Nat /\ 1 <= j /\ j <= Len(d)
        BY <1>1
      <3>2. j <= Len(d) - 1
        BY <1>1, <2>2, <3>1
      <3>3. j \in 1 .. Len(r)
        BY <1>1, <1>5, <3>1, <3>2
      <3> QED
        BY <1>6, <2>2, <3>1, <3>3
    <2> QED
      BY <2>1, <2>2
  <1>9. ASSUME \A i, j \in 1 .. Len(d) : d[i] = d[j] => i = j,
               NEW i \in 1 .. Len(r), NEW j \in 1 .. Len(r), r[i] = r[j]
        PROVE  i = j
    <2> DEFINE f(x) == IF x = n THEN Len(d) ELSE x
    <2>1. f(i) \in 1 .. Len(d) /\ f(j) \in 1 .. Len(d)
      BY <1>1, <1>5
    <2>2. d[f(i)] = d[f(j)]
      BY <1>6, <1>9
    <2>3. f(i) = f(j)
      BY <1>9, <2>1, <2>2
    <2> QED
      BY <1>1, <1>5, <2>3
  <1>10. (\A i, j \in 1 .. Len(d) : d[i] = d[j] => i = j)
            => \A i, j \in 1 .. Len(r) : r[i] = r[j] => i = j
    BY <1>9
  <1> DEFINE Left(x, m, y) ==
               /\ \A i \in 1 .. Len(y) : \E j \in 1 .. Len(x) : j # m /\ y[i] = x[j]
               /\ \A j \in 1 .. Len(x) : j # m => \E i \in 1 .. Len(y) : y[i] = x[j]
               /\ (\A i, j \in 1 .. Len(x) : x[i] = x[j] => i = j)
                    => \A i, j \in 1 .. Len(y) : y[i] = y[j] => i = j
  <1>11. Left(d, n, r)
    BY <1>7, <1>8, <1>10
  <1> HIDE DEF Left
  <1>12. Left(deferred, scan, deferred')
    BY <1>a, <1>b, <1>c, <1>11
  <1> QED
    BY <1>12 DEF Left

(* A container is in one place.                                            *)
LEMMA SingleKept ==
  ASSUME Single, PlacesKept,
         Stage' = "publish" => Stage = "publish" /\ head' = head,
         Stage' \notin Stored => Stage \notin Stored,
         Stage' \in OutOfPlace => old = NoContainer \/ Stage \in OutOfPlace
  PROVE  Single'
  BY DEF Single, PlacesKept, At

LEMMA SingleStep ==
  ASSUME Structure, Next
  PROVE  Single'
  <1>0. TypeOK /\ SenderTypeOK /\ Mutex /\ NeverWaits /\ Handling /\ Single
    BY DEF Structure, TypeOK
  <1>1. /\ slot \in [RingSlots -> Containers \cup {NoContainer}] /\ head \in Nat
        /\ empty \in Seq(Containers) /\ deferred \in Seq(Containers)
        /\ Len(empty) \in Nat /\ Len(deferred) \in Nat
        /\ active \in Containers /\ old \in Containers \cup {NoContainer}
        /\ active # NoContainer
    <2>1. active \in Containers /\ NoContainer \notin Containers
      BY <1>0, RingAssumption DEF SenderTypeOK, Containers, NoContainer
    <2> QED
      BY <1>0, <2>1, LenProperties DEF SenderTypeOK, RingSlots
  <1> USE DEF OutOfPlace, Stored
  <1>2. CASE Quiet
    BY <1>0, <1>2, SingleKept DEF Quiet, RingKept
  <1>3. CASE Looks
    BY <1>0, <1>3, SingleKept DEF Looks
  <1>4. ASSUME NEW c \in Clients, PeerStep(c) PROVE Single'
    BY <1>0, <1>4, PeerQuiet, SingleKept DEF RingKept
  <1>5. ASSUME NEW t \in Threads, SendStore(t) PROVE Single'
    <2>1. PlacesKept /\ Stage = "idle" /\ Stage' \in {"idle", "finish"}
      BY <1>0, <1>5, CallStages DEF SendStore, PlacesKept
    <2> QED
      BY <1>0, <2>1, SingleKept
  <1>6. ASSUME NEW t \in Threads, FinishHeader(t) PROVE Single'
    <2>1. PlacesKept /\ Stage = "finish" /\ Stage' = "store"
      BY <1>0, <1>6, FinishStages DEF FinishHeader, PlacesKept
    <2> QED
      BY <1>0, <2>1, SingleKept
  <1>7. ASSUME NEW t \in Threads, RingStore(t) PROVE Single'
    <2> DEFINE i0 == head % BufferCount
    <2>1. /\ UNCHANGED <<head, empty, deferred, active>> /\ i0 \in RingSlots
          /\ old' = slot[i0] /\ slot' = [slot EXCEPT ![i0] = active]
          /\ Stage = "store" /\ Stage' = "publish"
      BY <1>0, <1>1, <1>7, FinishStages, SlotOf DEF RingStore, At
    <2>2. At(head)' = slot'[i0]
      BY <2>1 DEF At
    <2> HIDE DEF i0
    <2>3. \A j \in RingSlots : slot[j] # active
      BY <1>0, <2>1 DEF Single
    <2>4. \A i, j \in RingSlots : slot'[i] = slot'[j] /\ i # j => slot'[i] = NoContainer
      BY <1>0, <1>1, <2>1, <2>3 DEF Single
    <2>5. old' # NoContainer => old' # active /\ \A j \in RingSlots : slot'[j] # old'
      BY <1>0, <1>1, <2>1, <2>3 DEF Single
    <2>6. /\ \A i \in 1 .. Len(empty) : empty[i] # old' /\ \A j \in RingSlots : slot'[j] # empty[i]
          /\ \A i \in 1 .. Len(deferred) :
               deferred[i] # old' /\ \A j \in RingSlots : slot'[j] # deferred[i]
      BY <1>0, <1>1, <2>1 DEF Single
    <2> QED
      BY SMTT(30), <1>0, <1>1, <2>1, <2>2, <2>4, <2>5, <2>6 DEF Single
  <1>8. ASSUME NEW t \in Threads, RingPublish(t) PROVE Single'
    <2>1. PlacesKept /\ Stage = "publish" /\ Stage' = "full"
      BY <1>0, <1>8, FinishStages DEF RingPublish, PlacesKept
    <2> QED
      BY <1>0, <2>1, SingleKept
  <1>9. ASSUME NEW t \in Threads, OldUnref(t) PROVE Single'
    <2>1. Stage = "unref" /\ UNCHANGED <<slot, empty, active, old>> /\ old \in Containers
          /\ old # NoContainer
      BY <1>0, <1>9, FinishStages, RingAssumption DEF OldUnref, Handling, Containers, NoContainer
    <2>2. CASE deferred' = deferred /\ Stage' = "clear"
      BY <1>0, <2>1, <2>2, SingleKept DEF PlacesKept
    <2>3. CASE deferred' = Append(deferred, old) /\ Stage' = "get"
      <3>1. /\ Len(deferred') = Len(deferred) + 1
            /\ \A i \in 1 .. Len(deferred) : deferred'[i] = deferred[i]
            /\ deferred'[Len(deferred) + 1] = old
            /\ \A i \in 1 .. Len(deferred') : i \in 1 .. Len(deferred) \/ i = Len(deferred) + 1
        BY <1>1, <2>1, <2>3, PushType
      <3>2. /\ old # active
            /\ \A j \in RingSlots : slot[j] # old
            /\ \A i \in 1 .. Len(empty) : empty[i] # old
            /\ \A i \in 1 .. Len(deferred) : deferred[i] # old
        BY <1>0, <2>1 DEF Single
      <3>3. \A i, j \in 1 .. Len(deferred') : deferred'[i] = deferred'[j] => i = j
        BY <1>0, <1>1, <3>1, <3>2 DEF Single
      <3>4. \A i \in 1 .. Len(deferred') :
              deferred'[i] # active /\ \A j \in RingSlots : slot[j] # deferred'[i]
        BY <1>0, <3>1, <3>2 DEF Single
      <3>5. \A i \in 1 .. Len(empty) : \A j \in 1 .. Len(deferred') : empty[i] # deferred'[j]
        BY <1>0, <3>1, <3>2 DEF Single
      <3> QED
        BY <1>0, <2>1, <2>3, <3>3, <3>4, <3>5 DEF Single
    <2>4. Stage' = IF Decremented(cont[old]).ref # 0 THEN "get" ELSE "clear"
      BY <1>0, <1>9, FinishStages
    <2>5. deferred' = IF Decremented(cont[old]).ref # 0 THEN Append(deferred, old) ELSE deferred
      BY <1>9 DEF OldUnref
    <2> QED
      BY <2>2, <2>3, <2>4, <2>5
  <1>10. ASSUME NEW t \in Threads, OldClear(t) PROVE Single'
    <2>1. PlacesKept /\ Stage = "clear" /\ Stage' = "wipe"
      BY <1>0, <1>10, FinishStages DEF OldClear, PlacesKept
    <2> QED
      BY <1>0, <2>1, SingleKept
  <1>11. ASSUME NEW t \in Threads, OldWipe(t) \/ ScanWipe(t) PROVE Single'
    <2>1. /\ Stage \in {"wipe", "rewipe"} /\ Stage' \in {"get", "scan"}
          /\ UNCHANGED <<slot, deferred, active, old>> /\ empty' = Append(empty, old)
      BY <1>0, <1>11, FinishStages, TakeStages DEF OldWipe, ScanWipe
    <2>2. old \in Containers /\ old # NoContainer
      BY <1>0, <2>1, RingAssumption DEF Handling, Containers, NoContainer
    <2>3. /\ Len(empty') = Len(empty) + 1
          /\ \A i \in 1 .. Len(empty) : empty'[i] = empty[i]
          /\ empty'[Len(empty) + 1] = old
          /\ \A i \in 1 .. Len(empty') : i \in 1 .. Len(empty) \/ i = Len(empty) + 1
      BY <1>1, <2>1, <2>2, PushType
    <2>4. /\ old # active
          /\ \A j \in RingSlots : slot[j] # old
          /\ \A i \in 1 .. Len(empty) : empty[i] # old
          /\ \A i \in 1 .. Len(deferred) : deferred[i] # old
      BY <1>0, <2>1, <2>2 DEF Single
    <2>5. \A i, j \in 1 .. Len(empty') : empty'[i] = empty'[j] => i = j
      BY <1>0, <1>1, <2>3, <2>4 DEF Single
    <2>6. \A i \in 1 .. Len(empty') :
            empty'[i] # active /\ \A j \in RingSlots : slot[j] # empty'[i]
      BY <1>0, <2>3, <2>4 DEF Single
    <2>7. \A i \in 1 .. Len(empty') : \A j \in 1 .. Len(deferred) : empty'[i] # deferred[j]
      BY <1>0, <2>3, <2>4 DEF Single
    <2> QED
      BY <1>0, <2>1, <2>5, <2>6, <2>7 DEF Single
  <1>12. ASSUME NEW t \in Threads, ScanReclaim(t) PROVE Single'
    <2>1. /\ Stage = "reclaim" /\ Stage' = "rewipe"
          /\ UNCHANGED <<slot, empty, active>> /\ old' = deferred[scan]
          /\ deferred' = Front([deferred EXCEPT ![scan] = Last(deferred)])
      BY <1>0, <1>12, TakeStages DEF ScanReclaim
    <2>2. scan \in 1 .. Len(deferred)
      BY <1>0, <2>1 DEF Handling
    <2>3. /\ \A i \in 1 .. Len(deferred') : \E j \in 1 .. Len(deferred) :
               j # scan /\ deferred'[i] = deferred[j]
          /\ (\A i, j \in 1 .. Len(deferred) : deferred[i] = deferred[j] => i = j)
               => \A i, j \in 1 .. Len(deferred') : deferred'[i] = deferred'[j] => i = j
      BY <1>1, <2>1, <2>2, SwappedOut
    <2>4. \A i, j \in 1 .. Len(deferred') : deferred'[i] = deferred'[j] => i = j
      BY <1>0, <2>3 DEF Single
    <2>5. \A i \in 1 .. Len(deferred') :
            /\ deferred'[i] # active /\ deferred'[i] # old'
            /\ \A j \in RingSlots : slot[j] # deferred'[i]
            /\ \A j \in 1 .. Len(empty) : empty[j] # deferred'[i]
      <3> TAKE i \in 1 .. Len(deferred')
      <3>1. PICK j \in 1 .. Len(deferred) : j # scan /\ deferred'[i] = deferred[j]
        BY <2>3
      <3> QED
        BY <1>0, <2>1, <2>2, <3>1 DEF Single
    <2>6. /\ old' # active
          /\ \A j \in RingSlots : slot[j] # old'
          /\ \A i \in 1 .. Len(empty) : empty[i] # old'
      BY <1>0, <2>1, <2>2 DEF Single
    <2> QED
      BY <1>0, <2>1, <2>4, <2>5, <2>6 DEF Single
  <1>13. ASSUME NEW t \in Threads, TakeForSend(t) \/ TakeForSwitch(t) \/ TakeForFlush(t)
         PROVE  Single'
    <2>1. /\ Stage' \in {"idle", "finish"}
          /\ UNCHANGED <<slot, deferred>> /\ empty # <<>>
          /\ active' = Last(empty) /\ empty' = Front(empty)
      BY <1>0, <1>13, TakeStages DEF TakeForSend, TakeForSwitch, TakeForFlush, TakeEmpty
    <2> DEFINE n == Len(empty)
    <2>2. /\ n \in Nat \ {0} /\ Len(empty') = n - 1 /\ active' = empty[n]
          /\ \A i \in 1 .. n - 1 : empty'[i] = empty[i]
      BY <1>1, <2>1, PopType
    <2>3. /\ n \in 1 .. Len(empty) /\ \A i \in 1 .. Len(empty') : i \in 1 .. Len(empty) /\ i # n
          /\ \A i \in 1 .. Len(empty') : empty'[i] = empty[i]
      BY <1>1, <2>2
    <2> HIDE DEF n
    <2>4. /\ \A i, j \in 1 .. Len(empty') : empty'[i] = empty'[j] => i = j
          /\ \A i \in 1 .. Len(empty') : empty'[i] # active' /\ \A j \in RingSlots : slot[j] # empty'[i]
          /\ \A i \in 1 .. Len(empty') : \A j \in 1 .. Len(deferred) : empty'[i] # deferred[j]
      BY <1>0, <2>2, <2>3 DEF Single
    <2>5. /\ \A j \in RingSlots : slot[j] # active'
          /\ \A i \in 1 .. Len(deferred) : deferred[i] # active'
      BY <1>0, <2>2, <2>3 DEF Single
    <2> QED
      BY <1>0, <2>1, <2>4, <2>5 DEF Single
  <1> QED
    BY <1>2, <1>3, <1>4, <1>5, <1>6, <1>7, <1>8, <1>9, <1>10, <1>11, <1>12, <1>13, SharedCases
    DEF Next, Noisy

-----------------------------------------------------------------------------
(* What the containers hold, by where they are.                            *)
Same(k) == cont'[k].idx = cont[k].idx /\ cont'[k].msgs = cont[k].msgs
WithOld == {"publish", "full", "peek", "unref", "rewipe"}

LEMMA SlotAgain == \A id \in Nat : (id + BufferCount) % BufferCount = id % BufferCount
  <1> DEFINE N == BufferCount
  <1>1. N \in Nat \ {0}
    BY RingAssumption
  <1>2. \A a \in Nat : a = N * (a \div N) + (a % N) /\ a % N \in 0 .. N - 1 /\ a \div N \in Nat
    BY <1>1
  <1> HIDE DEF N
  <1>3. \A k \in Int : ~(0 < N * k /\ N * k < N)
    <2> SUFFICES ASSUME NEW k \in Int, 0 < N * k, N * k < N PROVE FALSE
      OBVIOUS
    <2>1. CASE k <= 0
      BY <2>1, <1>1
    <2>2. CASE k >= 1
      BY <2>2, <1>1
    <2> QED
      BY <2>1, <2>2
  <1> SUFFICES ASSUME NEW id \in Nat PROVE (id + N) % N = id % N
    BY DEF N
  <1>4. id + N \in Nat
    BY <1>1
  <1> DEFINE p == id \div N
             q == (id + N) \div N
             r == id % N
             s == (id + N) % N
  <1>5. /\ id = N * p + r /\ id + N = N * q + s
        /\ p \in Nat /\ q \in Nat /\ r \in 0 .. N - 1 /\ s \in 0 .. N - 1
    BY <1>2, <1>4
  <1> HIDE DEF p, q, r, s
  <1>6. r - s = N * (q - p - 1) /\ s - r = N * (p + 1 - q) /\ q - p - 1 \in Int /\ p + 1 - q \in Int
    BY <1>1, <1>5
  <1>7. r = s
    BY <1>1, <1>3, <1>5, <1>6
  <1> QED
    BY <1>7 DEF r, s

LEMMA ContentsKept ==
  ASSUME Contents, RingKept, slot' = slot,
         \A i \in RingSlots : slot[i] \in Containers => Same(slot[i]),
         Stage' = "publish" <=> Stage = "publish",
         \A i \in 1 .. Len(deferred') :
           Same(deferred'[i]) /\ Published(deferred'[i]) /\ Overtaken(deferred'[i]),
         Stage' \in WithOld /\ old' \in Containers => Same(old') /\ Published(old') /\ Overtaken(old'),
         \A i \in 1 .. Len(empty') : cont'[empty'[i]].idx = 0,
         Stage' \in {"idle", "finish"} => cont'[active'].idx = 0,
         Stage' = "store" => cont'[active'].idx = head
  PROVE  Contents'
  <1> USE DEF RingKept, Same, Published, Overtaken
  <1>1. Len(log)' = head' /\ (Stage' = "store" => cont'[active'].idx = head')
    BY DEF Contents
  <1>2. \A i \in RingSlots : slot'[i] \in Containers =>
          IF Stage' = "publish" /\ i = head' % BufferCount
            THEN cont'[slot'[i]].idx = head'
            ELSE /\ Published(slot[i])'
                 /\ cont'[slot'[i]].idx % BufferCount = i
                 /\ cont'[slot'[i]].idx + BufferCount >= head'
    BY DEF Contents
  <1>3. \A i \in 1 .. Len(deferred') :
          /\ cont'[deferred'[i]].idx \in 0 .. head' - 1
          /\ cont'[deferred'[i]].msgs = log'[cont'[deferred'[i]].idx + 1]
          /\ cont'[deferred'[i]].idx + BufferCount <= head'
    OBVIOUS
  <1>4. Stage' \in WithOld /\ old' \in Containers =>
          /\ cont'[old'].idx \in 0 .. head' - 1
          /\ cont'[old'].msgs = log'[cont'[old'].idx + 1]
          /\ cont'[old'].idx + BufferCount <= head'
    OBVIOUS
  <1> QED
    BY <1>1, <1>2, <1>3, <1>4 DEF Contents, WithOld

(* The same when no place changes either.                                  *)
LEMMA ContentsStay ==
  ASSUME TypeOK, Contents, PlacesKept, RingKept, \A k \in Containers : Same(k),
         Stage' = "publish" <=> Stage = "publish",
         Stage' \in WithOld => old = NoContainer \/ Stage \in WithOld,
         Stage' \in {"idle", "finish"} => Stage \in {"idle", "finish"},
         Stage' = "store" => Stage = "store"
  PROVE  Contents'
  <1>1. /\ \A i \in 1 .. Len(deferred) : deferred[i] \in Containers
        /\ \A i \in 1 .. Len(empty) : empty[i] \in Containers
        /\ active \in Containers /\ NoContainer \notin Containers
    BY ElementOfSeq, RingAssumption DEF TypeOK, SenderTypeOK, Containers, NoContainer
  <1> USE DEF PlacesKept, Contents
  <1>2. \A i \in 1 .. Len(deferred') :
          Same(deferred'[i]) /\ Published(deferred'[i]) /\ Overtaken(deferred'[i])
    BY <1>1
  <1>3. Stage' \in WithOld /\ old' \in Containers => Same(old') /\ Published(old') /\ Overtaken(old')
    BY <1>1 DEF WithOld
  <1>4. \A i \in 1 .. Len(empty') : cont'[empty'[i]].idx = 0
    BY <1>1 DEF Same
  <1>5. /\ Stage' \in {"idle", "finish"} => cont'[active'].idx = 0
        /\ Stage' = "store" => cont'[active'].idx = head
    BY <1>1 DEF Same
  <1>6. \A i \in RingSlots : slot[i] \in Containers => Same(slot[i])
    OBVIOUS
  <1> QED
    BY <1>2, <1>3, <1>4, <1>5, <1>6, ContentsKept

LEMMA ContentsStep ==
  ASSUME Structure, Next
  PROVE  Contents'
  <1>0. TypeOK /\ SenderTypeOK /\ Mutex /\ NeverWaits /\ Serving /\ Handling /\ Single /\ Contents
    BY DEF Structure, TypeOK
  <1>1. /\ slot \in [RingSlots -> Containers \cup {NoContainer}] /\ head \in Nat
        /\ empty \in Seq(Containers) /\ deferred \in Seq(Containers)
        /\ Len(empty) \in Nat /\ Len(deferred) \in Nat
        /\ active \in Containers /\ old \in Containers \cup {NoContainer}
        /\ cont \in [Containers -> ContainerType] /\ BufferCount \in Nat \ {0}
        /\ \A i \in 1 .. Len(deferred) : deferred[i] \in Containers
        /\ \A i \in 1 .. Len(empty) : empty[i] \in Containers
        /\ NoContainer \notin Containers
    BY <1>0, LenProperties, ElementOfSeq, RingAssumption
    DEF SenderTypeOK, RingSlots, Containers, NoContainer
  <1>2. CASE Quiet
    BY <1>0, <1>2, ContentsStay DEF Quiet, Same, WithOld
  <1>3. CASE Looks
    BY <1>0, <1>3, ContentsStay DEF Looks, Same, WithOld
  <1>4. ASSUME NEW c \in Clients, PeerStep(c) PROVE Contents'
    <2>1. \A k \in Containers : Same(k)
      BY <1>0, <1>4, PeerCont DEF Same
    <2> QED
      BY <1>0, <1>4, <2>1, PeerQuiet, ContentsStay
  <1>5. ASSUME NEW t \in Threads, SendStore(t) PROVE Contents'
    <2>1. /\ PlacesKept /\ RingKept /\ Stage = "idle" /\ Stage' \in {"idle", "finish"}
          /\ cont' = [cont EXCEPT ![active] = WithMessage(@)]
      BY <1>0, <1>5, CallStages DEF SendStore, PlacesKept, RingKept
    <2>2. /\ \A k \in Containers : k # active => Same(k)
          /\ cont'[active].idx = cont[active].idx
      <3>1. cont'[active] = WithMessage(cont[active]) /\ cont[active] \in ContainerType
        BY <1>1, <2>1
      <3> QED
        BY <1>1, <2>1, <3>1 DEF Same, WithMessage, ContainerType
    <2>3. /\ \A j \in RingSlots : slot[j] # active
          /\ \A i \in 1 .. Len(deferred) : deferred[i] # active
          /\ \A i \in 1 .. Len(empty) : empty[i] # active
      BY <1>0, <2>1 DEF Single, Stored, OutOfPlace
    <2>4. /\ \A i \in 1 .. Len(deferred') :
               Same(deferred'[i]) /\ Published(deferred'[i]) /\ Overtaken(deferred'[i])
          /\ \A i \in 1 .. Len(empty') : cont'[empty'[i]].idx = 0
          /\ cont'[active'].idx = 0
      BY <1>0, <1>1, <2>1, <2>2, <2>3 DEF Contents, PlacesKept, Same
    <2> QED
      BY <1>0, <2>1, <2>2, <2>3, <2>4, ContentsKept DEF PlacesKept, WithOld
  <1>6. ASSUME NEW t \in Threads, FinishHeader(t) PROVE Contents'
    <2>1. /\ PlacesKept /\ RingKept /\ Stage = "finish" /\ Stage' = "store"
          /\ cont' = [cont EXCEPT ![active] = WithHeader(@, head)]
      BY <1>0, <1>6, FinishStages DEF FinishHeader, PlacesKept, RingKept, historyVars
    <2>2. /\ \A k \in Containers : k # active => Same(k)
          /\ cont'[active].idx = head
      <3>1. cont'[active] = WithHeader(cont[active], head) /\ cont[active] \in ContainerType
        BY <1>1, <2>1
      <3> QED
        BY <1>1, <2>1, <3>1 DEF Same, WithHeader, ContainerType
    <2>3. /\ \A j \in RingSlots : slot[j] # active
          /\ \A i \in 1 .. Len(deferred) : deferred[i] # active
          /\ \A i \in 1 .. Len(empty) : empty[i] # active
      BY <1>0, <2>1 DEF Single, Stored, OutOfPlace
    <2>4. /\ \A i \in 1 .. Len(deferred') :
               Same(deferred'[i]) /\ Published(deferred'[i]) /\ Overtaken(deferred'[i])
          /\ \A i \in 1 .. Len(empty') : cont'[empty'[i]].idx = 0
          /\ cont'[active'].idx = head
      BY <1>0, <1>1, <2>1, <2>2, <2>3 DEF Contents, PlacesKept, Same
    <2> QED
      BY <1>0, <2>1, <2>2, <2>3, <2>4, ContentsKept DEF PlacesKept, WithOld
  <1>7. ASSUME NEW t \in Threads, RingStore(t) PROVE Contents'
    <2> DEFINE i0 == head % BufferCount
    <2>1. /\ UNCHANGED <<head, log, cont, empty, deferred, active>> /\ i0 \in RingSlots
          /\ old' = slot[i0] /\ slot' = [slot EXCEPT ![i0] = active]
          /\ Stage = "store" /\ Stage' = "publish"
      BY <1>0, <1>1, <1>7, FinishStages, SlotOf DEF RingStore, At, historyVars
    <2>2. \A i \in RingSlots : slot'[i] \in Containers =>
            IF i = i0
              THEN cont[slot'[i]].idx = head
              ELSE /\ Published(slot'[i])
                   /\ cont[slot'[i]].idx % BufferCount = i
                   /\ cont[slot'[i]].idx + BufferCount >= head
      BY <1>0, <1>1, <2>1 DEF Contents
    <2>3. ASSUME old' \in Containers PROVE Published(old') /\ Overtaken(old')
      <3> DEFINE x == cont[slot[i0]].idx
      <3>1. Published(slot[i0]) /\ x % BufferCount = head % BufferCount
        BY <1>0, <2>1, <2>3 DEF Contents
      <3>2. x \in Nat /\ x < head
        BY <1>1, <3>1 DEF Published
      <3>3. ~(head - x < BufferCount)
        BY <1>1, <3>1, <3>2, DistinctSlots
      <3>4. x + BufferCount <= head
        BY <1>1, <3>2, <3>3
      <3> QED
        BY <2>1, <3>1, <3>4 DEF Overtaken
    <2>4. \A i \in 1 .. Len(deferred) : Published(deferred[i]) /\ Overtaken(deferred[i])
      BY <1>0 DEF Contents
    <2> QED
      BY <1>0, <2>1, <2>2, <2>3, <2>4 DEF Contents, Published, Overtaken
  <1>8. ASSUME NEW t \in Threads, RingPublish(t) PROVE Contents'
    <2> DEFINE i0 == head % BufferCount
    <2>1. /\ PlacesKept /\ UNCHANGED cont /\ Stage = "publish" /\ Stage' = "full"
          /\ head' = head + 1 /\ log' = Append(log, cont[active].msgs)
      BY <1>0, <1>8, FinishStages DEF RingPublish, PlacesKept
    <2>2. Len(log) = head /\ i0 \in RingSlots /\ slot[i0] = active
      BY <1>0, <1>1, <2>1, SlotOf DEF Contents, Single, At
    <2>3. /\ Len(log') = head + 1 /\ log'[head + 1] = cont[active].msgs
          /\ \A i \in 1 .. head : log'[i] = log[i]
      <3>1. log \in Seq(Seq(Nat)) /\ cont[active].msgs \in Seq(Nat)
        BY <1>0, <1>1, ContainerFields DEF SenderTypeOK
      <3> QED
        BY <2>1, <2>2, <3>1, PushType
    <2>4. ASSUME NEW k \in Containers, Published(k)
          PROVE  Published(k)' /\ (Overtaken(k) => Overtaken(k)')
      <3>1. cont'[k] = cont[k] /\ cont[k].idx \in 0 .. head - 1
            /\ cont[k].msgs = log[cont[k].idx + 1]
        BY <2>1, <2>4 DEF Published
      <3>2. cont[k].idx + 1 \in 1 .. head /\ cont[k].idx \in 0 .. head' - 1
        BY <1>1, <2>1, <3>1
      <3>3. Overtaken(k) => Overtaken(k)'
        BY <1>1, <2>1, <3>1 DEF Overtaken
      <3> QED
        BY <2>3, <3>1, <3>2, <3>3 DEF Published
    <2>5. ASSUME NEW i \in RingSlots, slot'[i] \in Containers
          PROVE  /\ Published(slot[i])'
                 /\ cont'[slot'[i]].idx % BufferCount = i
                 /\ cont'[slot'[i]].idx + BufferCount >= head'
      <3> DEFINE x == cont[slot[i]].idx
      <3>1. CASE i = i0
        <4>1. x = head
          BY <1>0, <1>1, <2>1, <2>2, <2>5, <3>1 DEF Contents
        <4>2. Published(slot[i])'
          BY <1>1, <2>1, <2>2, <2>3, <3>1, <4>1 DEF Published, PlacesKept
        <4> QED
          BY <1>1, <2>1, <3>1, <4>1, <4>2 DEF PlacesKept
      <3>2. CASE i # i0
        <4>1. Published(slot[i]) /\ x % BufferCount = i /\ x + BufferCount >= head
              /\ slot[i] \in Containers
          BY <1>0, <2>1, <2>5, <3>2 DEF Contents, PlacesKept
        <4>2. x \in Nat
          BY <1>1, <4>1 DEF Published
        <4>3. x + BufferCount # head
          BY <1>1, <3>2, <4>1, <4>2, SlotAgain
        <4>4. x + BufferCount >= head + 1
          <5>1. PICK y \in Nat : y = x
            BY <4>2
          <5>2. y + BufferCount >= head /\ y + BufferCount # head
            BY <4>1, <4>3, <5>1
          <5>3. y + BufferCount >= head + 1
            <6>1. head \in Nat /\ BufferCount \in Nat
              BY <1>1, RingAssumption
            <6> QED
              BY <5>2, <6>1
          <5> QED
            BY <5>1, <5>3
        <4> QED
          BY <2>1, <2>4, <4>1, <4>4 DEF PlacesKept
      <3> QED
        BY <3>1, <3>2
    <2>6. /\ \A i \in 1 .. Len(deferred) : Published(deferred[i])' /\ Overtaken(deferred[i])'
          /\ old \in Containers => Published(old)' /\ Overtaken(old)'
      BY <1>0, <1>1, <2>1, <2>4 DEF Contents, PlacesKept
    <2>7. \A i \in 1 .. Len(empty) : cont'[empty[i]].idx = 0
      BY <1>0, <2>1 DEF Contents
    <2> QED
      BY <1>0, <2>1, <2>3, <2>5, <2>6, <2>7 DEF Contents, PlacesKept, Published, Overtaken
  <1>9. ASSUME NEW t \in Threads, OldUnref(t) PROVE Contents'
    <2> DEFINE d == Decremented(cont[old])
    <2>1. /\ Stage = "unref" /\ UNCHANGED <<slot, empty, active, old>> /\ RingKept
          /\ old \in Containers /\ old # NoContainer
      BY <1>0, <1>1, <1>9, FinishStages DEF OldUnref, Handling, RingKept, historyVars
    <2>2. d \in ContainerType /\ d.idx = cont[old].idx /\ d.msgs = cont[old].msgs
      <3>1. cont[old] \in ContainerType
        BY <1>1, <2>1
      <3>2. d.idx = cont[old].idx
        BY <3>1 DEF Decremented, ContainerType
      <3> QED
        BY <3>1, <3>2, DecrementedType
    <2> HIDE DEF d
    <2>3. /\ d.ref # 0 => /\ cont' = [cont EXCEPT ![old] = d] /\ Stage' = "get"
                          /\ deferred' = Append(deferred, old)
          /\ d.ref = 0 => /\ cont' = [cont EXCEPT ![old] = Renumbered(d)] /\ Stage' = "clear"
                          /\ deferred' = deferred
      BY <1>0, <1>9, FinishStages DEF OldUnref, d
    <2>4. /\ old # active
          /\ \A j \in RingSlots : slot[j] # old
          /\ \A i \in 1 .. Len(empty) : empty[i] # old
          /\ \A i \in 1 .. Len(deferred) : deferred[i] # old
      BY <1>0, <2>1 DEF Single, OutOfPlace
    <2>5. \A k \in Containers : k # old => Same(k)
      BY <1>1, <2>1, <2>3 DEF Same
    <2>6. \A i \in RingSlots : slot[i] \in Containers => Same(slot[i])
      BY <2>4, <2>5
    <2>7. \A i \in 1 .. Len(empty') : cont'[empty'[i]].idx = 0
      BY <1>0, <1>1, <2>1, <2>4, <2>5 DEF Contents, Same
    <2>8. \A i \in 1 .. Len(deferred) :
            Same(deferred[i]) /\ Published(deferred[i]) /\ Overtaken(deferred[i])
      BY <1>0, <1>1, <2>4, <2>5 DEF Contents
    <2>9. CASE d.ref # 0
      <3>1. Same(old) /\ Published(old) /\ Overtaken(old)
        BY <1>0, <1>1, <2>1, <2>2, <2>3, <2>9 DEF Contents, Same
      <3>2. /\ Len(deferred') = Len(deferred) + 1
            /\ \A i \in 1 .. Len(deferred) : deferred'[i] = deferred[i]
            /\ deferred'[Len(deferred) + 1] = old
            /\ \A i \in 1 .. Len(deferred') : i \in 1 .. Len(deferred) \/ i = Len(deferred) + 1
        <4>1. deferred \in Seq(Containers) /\ deferred' = Append(deferred, old)
          BY <1>1, <2>3, <2>9
        <4> QED
          BY <2>1, <4>1, PushType
      <3>3. \A i \in 1 .. Len(deferred') :
              Same(deferred'[i]) /\ Published(deferred'[i]) /\ Overtaken(deferred'[i])
        BY <2>8, <3>1, <3>2
      <3> QED
        BY <1>0, <2>1, <2>3, <2>6, <2>7, <2>9, <3>3, ContentsKept DEF WithOld
    <2>10. CASE d.ref = 0
      BY <1>0, <2>1, <2>3, <2>6, <2>7, <2>8, <2>10, ContentsKept DEF WithOld
    <2> QED
      BY <2>9, <2>10
  <1>10. ASSUME NEW t \in Threads, OldClear(t) PROVE Contents'
    <2>1. /\ PlacesKept /\ RingKept /\ Stage = "clear" /\ Stage' = "wipe" /\ old \in Containers
          /\ cont' = [cont EXCEPT ![old] = Renewed(@)]
      BY <1>0, <1>10, FinishStages DEF OldClear, PlacesKept, RingKept, Handling, historyVars
    <2>2. \A k \in Containers : Same(k)
      BY <1>1, <2>1 DEF Same, Renewed, ContainerType
    <2> QED
      BY <1>0, <2>1, <2>2, ContentsStay DEF WithOld
  <1>11. ASSUME NEW t \in Threads, OldWipe(t) \/ ScanWipe(t) PROVE Contents'
    <2>1. /\ Stage \in {"wipe", "rewipe"} /\ Stage' \in {"get", "scan"} /\ RingKept
          /\ UNCHANGED <<slot, deferred, active, old>> /\ empty' = Append(empty, old)
          /\ cont' = [cont EXCEPT ![old] = Wiped(@)]
      BY <1>0, <1>11, FinishStages, TakeStages DEF OldWipe, ScanWipe, RingKept, historyVars
    <2>2. old \in Containers /\ old # NoContainer
      BY <1>0, <1>1, <2>1 DEF Handling
    <2>3. /\ \A j \in RingSlots : slot[j] # old
          /\ \A i \in 1 .. Len(empty) : empty[i] # old
          /\ \A i \in 1 .. Len(deferred) : deferred[i] # old
      BY <1>0, <2>1, <2>2 DEF Single, OutOfPlace
    <2>4. (\A k \in Containers : k # old => Same(k)) /\ cont'[old].idx = 0
      BY <1>1, <2>1, <2>2 DEF Same, Wiped, ContainerType
    <2>5. /\ \A i \in 1 .. Len(empty) : empty'[i] = empty[i]
          /\ empty'[Len(empty) + 1] = old
          /\ \A i \in 1 .. Len(empty') : i \in 1 .. Len(empty) \/ i = Len(empty) + 1
      BY <1>1, <2>1, <2>2, PushType
    <2>6. \A i \in 1 .. Len(empty') : cont'[empty'[i]].idx = 0
      <3>1. \A i \in 1 .. Len(empty) : empty[i] \in Containers /\ cont[empty[i]].idx = 0
        BY <1>0, <1>1 DEF Contents
      <3>2. \A i \in 1 .. Len(empty) : cont'[empty[i]].idx = 0
        BY <2>3, <2>4, <3>1 DEF Same
      <3> QED
        BY <2>4, <2>5, <3>2
    <2>7. \A i \in 1 .. Len(deferred') :
            Same(deferred'[i]) /\ Published(deferred'[i]) /\ Overtaken(deferred'[i])
      BY <1>0, <1>1, <2>1, <2>3, <2>4 DEF Contents
    <2>8. \A i \in RingSlots : slot[i] \in Containers => Same(slot[i])
      BY <2>3, <2>4
    <2> QED
      BY <1>0, <2>1, <2>6, <2>7, <2>8, ContentsKept DEF WithOld
  <1>12. ASSUME NEW t \in Threads, ScanReclaim(t) PROVE Contents'
    <2>1. /\ Stage = "reclaim" /\ Stage' = "rewipe" /\ RingKept
          /\ UNCHANGED <<slot, empty, active>> /\ old' = deferred[scan]
          /\ deferred' = Front([deferred EXCEPT ![scan] = Last(deferred)])
          /\ cont' = [cont EXCEPT ![old'] = Renewed(@)]
      BY <1>0, <1>12, TakeStages DEF ScanReclaim, RingKept, historyVars
    <2>2. scan \in 1 .. Len(deferred) /\ old' \in Containers
      BY <1>0, <1>1, <2>1 DEF Handling
    <2>3. \A i \in 1 .. Len(deferred') : \E j \in 1 .. Len(deferred) : deferred'[i] = deferred[j]
      BY <1>1, <2>1, <2>2, SwappedOut
    <2>4. \A k \in Containers : Same(k)
      <3>1. PICK k0 \in Containers : k0 = old'
        BY <2>2
      <3>2. cont' = [cont EXCEPT ![k0] = Renewed(@)] /\ cont[k0] \in ContainerType
        BY <1>1, <2>1, <3>1
      <3>3. cont'[k0] = Renewed(cont[k0]) /\ \A k \in Containers : k # k0 => cont'[k] = cont[k]
        BY <1>1, <3>2
      <3> QED
        BY <3>2, <3>3 DEF Same, Renewed, ContainerType
    <2>5. \A i \in 1 .. Len(deferred) :
            Same(deferred[i]) /\ Published(deferred[i]) /\ Overtaken(deferred[i])
      BY <1>0, <1>1, <2>4 DEF Contents
    <2>6. \A i \in 1 .. Len(deferred') :
            Same(deferred'[i]) /\ Published(deferred'[i]) /\ Overtaken(deferred'[i])
      BY <2>3, <2>5
    <2>7. Same(old') /\ Published(old') /\ Overtaken(old')
      BY <2>1, <2>2, <2>5
    <2>8. \A i \in 1 .. Len(empty') : cont'[empty'[i]].idx = 0
      BY <1>0, <1>1, <2>1, <2>4 DEF Contents, Same
    <2> QED
      BY <1>0, <2>1, <2>4, <2>6, <2>7, <2>8, ContentsKept DEF WithOld
  <1>13. ASSUME NEW t \in Threads, TakeForSend(t) \/ TakeForSwitch(t) \/ TakeForFlush(t)
         PROVE  Contents'
    <2>1. /\ Stage \in {"get", "pop"} /\ Stage' \in {"idle", "finish"} /\ RingKept
          /\ UNCHANGED <<slot, deferred>> /\ empty # <<>>
          /\ active' = Last(empty) /\ empty' = Front(empty)
      BY <1>0, <1>13, TakeStages
      DEF TakeForSend, TakeForSwitch, TakeForFlush, TakeEmpty, RingKept, historyVars
    <2>2. PICK a \in Containers : a = active'
      BY <1>1, <2>1, PopType
    <2>3. cont' \in {[cont EXCEPT ![a] = WithMessage([@ EXCEPT !.seq = processed])],
                     [cont EXCEPT ![a].seq = processed]}
      BY <1>13, <2>2 DEF TakeForSend, TakeForSwitch, TakeForFlush
    <2>4. (\A k \in Containers : k # a => Same(k)) /\ cont'[a].idx = cont[a].idx
      <3>1. \A k \in Containers : k # a => cont'[k] = cont[k]
        BY <1>1, <2>3
      <3>2. cont'[a] \in {WithMessage([cont[a] EXCEPT !.seq = processed]),
                         [cont[a] EXCEPT !.seq = processed]}
        BY <1>1, <2>3
      <3>3. cont'[a].idx = cont[a].idx
        BY <1>1, <3>2 DEF WithMessage, ContainerType
      <3> QED
        BY <3>1, <3>3 DEF Same
    <2>5. /\ \A i \in 1 .. Len(empty') : i \in 1 .. Len(empty) /\ i # Len(empty)
          /\ \A i \in 1 .. Len(empty') : empty'[i] = empty[i]
          /\ Len(empty) \in 1 .. Len(empty) /\ a = empty[Len(empty)]
      <3>1. /\ Len(empty) \in Nat \ {0} /\ Len(empty') = Len(empty) - 1 /\ a = empty[Len(empty)]
            /\ \A i \in 1 .. Len(empty) - 1 : empty'[i] = empty[i]
        BY <1>1, <2>1, <2>2, PopType
      <3> QED
        BY <1>1, <3>1
    <2>6. /\ \A j \in RingSlots : slot[j] # a
          /\ \A i \in 1 .. Len(deferred) : deferred[i] # a
          /\ \A i \in 1 .. Len(empty') : empty'[i] # a
      BY <1>0, <2>5 DEF Single
    <2>7. \A i \in 1 .. Len(empty') : cont'[empty'[i]].idx = 0
      BY <1>0, <1>1, <2>4, <2>5, <2>6 DEF Contents, Same
    <2>8. cont'[active'].idx = 0
      BY <1>0, <2>2, <2>4, <2>5 DEF Contents
    <2>9. \A i \in 1 .. Len(deferred') :
            Same(deferred'[i]) /\ Published(deferred'[i]) /\ Overtaken(deferred'[i])
      BY <1>0, <1>1, <2>1, <2>4, <2>6 DEF Contents
    <2>10. \A i \in RingSlots : slot[i] \in Containers => Same(slot[i])
      BY <2>4, <2>6
    <2> QED
      BY <1>0, <2>1, <2>7, <2>8, <2>9, <2>10, ContentsKept DEF WithOld
  <1> QED
    BY <1>2, <1>3, <1>4, <1>5, <1>6, <1>7, <1>8, <1>9, <1>10, <1>11, <1>12, <1>13, SharedCases
    DEF Next, Noisy

LEMMA StructureStep ==
  ASSUME Structure, Next
  PROVE  Structure'
  BY TypeStep, LockStep, HandlingStep, SingleStep, ContentsStep, CountedStep DEF Structure

-----------------------------------------------------------------------------
(* The reference counters.                                                 *)
LEMMA HoldersFinite ==
  ASSUME NEW k
  PROVE  IsFiniteSet(Holders(k)) /\ Cardinality(Holders(k)) \in Nat
  <1>1. Holders(k) \subseteq Clients
    BY DEF Holders
  <1> QED
    BY <1>1, ThreadAssumption, FS_Subset, FS_CardinalityType

LEMMA BusyBound ==
  ASSUME Structure
  PROVE  /\ IsFiniteSet(Busy) /\ Cardinality(Busy) \in Nat /\ MayEnter \in {0, 1}
         /\ Cardinality(Busy) + MayEnter <= MaxClients + 1
         /\ Cardinality(Busy) <= MaxClients
  <1>1. Busy \subseteq Listed /\ IsFiniteSet(Listed) /\ Cardinality(Listed) \in Nat
    BY ListedFinite DEF Busy, Listed
  <1>2. /\ IsFiniteSet(Busy) /\ Cardinality(Busy) \in Nat
        /\ Cardinality(Busy) <= Cardinality(Listed)
    BY <1>1, FS_Subset, FS_CardinalityType
  <1>3. Cardinality(Listed) <= MaxClients
    <2>1. connected \in Int /\ MaxClients \in Nat
      BY RingAssumption DEF Structure, TypeOK, SenderTypeOK
    <2>2. /\ connected = Cardinality(Listed) - (IF acc = "count" THEN 1 ELSE 0)
          /\ acc = "count" => connected < MaxClients
          /\ connected <= MaxClients
      BY DEF Structure, Counted
    <2> QED
      BY <1>1, <2>1, <2>2
  <1>4. MayEnter \in {0, 1} /\ MaxClients \in Nat
    BY RingAssumption DEF MayEnter
  <1> QED
    BY <1>1, <1>2, <1>3, <1>4

(* A counter is as high as its place and its holders make it.              *)
LEMMA RefAtLeast ==
  ASSUME Structure, References, NEW k \in Containers
  PROVE  /\ cont[k].ref \in 0 .. 255 /\ Own(k) \in {0, 1} /\ Kept(k) \in Nat
         /\ cont[k].ref = Kept(k) + Own(k) + Cardinality(Holders(k))
         /\ \A c \in Holders(k) : cont[k].ref >= 1
  <1>1. cont[k].ref \in 0 .. 255
    BY ContainerFields DEF Structure, TypeOK, SenderTypeOK
  <1>2. Own(k) \in {0, 1} /\ Cardinality(Holders(k)) \in Nat
    BY HoldersFinite DEF Own
  <1>3. Kept(k) = cont[k].ref - Own(k) - Cardinality(Holders(k)) /\ Kept(k) >= 0
    BY DEF Kept, References
  <1>4. PICK r \in 0 .. 255, o \in {0, 1}, h \in Nat :
          r = cont[k].ref /\ o = Own(k) /\ h = Cardinality(Holders(k))
    BY <1>1, <1>2
  <1>5. Kept(k) \in Nat /\ cont[k].ref = Kept(k) + Own(k) + Cardinality(Holders(k))
    <2>1. Kept(k) = r - o - h /\ Kept(k) >= 0
      BY <1>3, <1>4
    <2>2. Kept(k) \in Nat /\ r = Kept(k) + o + h
      BY <2>1
    <2> QED
      BY <1>4, <2>2
  <1>6. ASSUME NEW c \in Holders(k) PROVE cont[k].ref >= 1
    <2>1. Cardinality(Holders(k)) # 0
      BY <1>6, HoldersFinite, FS_EmptySet
    <2> QED
      BY <1>2, <1>5, <2>1
  <1> QED
    BY <1>1, <1>2, <1>5, <1>6

(* A replaced container still has the reference of the ring.               *)
LEMMA OldHeld ==
  ASSUME Structure, References, Stage \in {"peek", "unref", "wipe"}
  PROVE  old \in Containers /\ Own(old) = 1 /\ cont[old].ref >= 1
  <1>1. old \in Containers /\ NoContainer \notin Containers
    BY RingAssumption DEF Structure, Handling, Containers, NoContainer
  <1>2. Own(old) = 1
    BY <1>1 DEF Structure, Own, Single, OutOfPlace
  <1>3. PICK k \in Containers : k = old
    BY <1>1
  <1>4. cont[k].ref >= 1
    BY <1>2, <1>3, RefAtLeast, HoldersFinite
  <1> QED
    BY <1>1, <1>2, <1>3, <1>4

(* The storing threads keep what a counter has above its place's share.    *)
LEMMA OwnShared ==
  ASSUME Structure, References, SharedStep
  PROVE  /\ \A k \in Containers : cont'[k].ref - Own(k)' = cont[k].ref - Own(k)
         /\ Stage' = "clear" => cont'[old'].ref = 0
         /\ Stage' = "reclaim" => cont'[deferred'[scan']].ref = 0
  <1> DEFINE Goal == /\ \A k \in Containers : cont'[k].ref - Own(k)' = cont[k].ref - Own(k)
                     /\ Stage' = "clear" => cont'[old'].ref = 0
                     /\ Stage' = "reclaim" => cont'[deferred'[scan']].ref = 0
  <1>0. TypeOK /\ SenderTypeOK /\ Mutex /\ NeverWaits /\ Serving /\ Handling /\ Single
    BY DEF Structure, TypeOK
  <1>1. /\ empty \in Seq(Containers) /\ deferred \in Seq(Containers)
        /\ Len(deferred) \in Nat
        /\ active \in Containers /\ old \in Containers \cup {NoContainer}
        /\ cont \in [Containers -> ContainerType]
        /\ \A i \in 1 .. Len(deferred) : deferred[i] \in Containers
        /\ NoContainer \notin Containers
    BY <1>0, LenProperties, ElementOfSeq, RingAssumption
    DEF SenderTypeOK, Containers, NoContainer
  (* A step at which only the stage matters.                               *)
  <1>2. ASSUME UNCHANGED <<deferred, old>>, Stage' = "clear" <=> Stage = "clear"
        PROVE  \A k \in Containers : Own(k)' = Own(k)
    BY <1>2 DEF Own
  <1>3. ASSUME Stage \in {"peek", "unref", "wipe"}
        PROVE  old \in Containers /\ Own(old) = 1 /\ cont[old].ref >= 1
    BY <1>3, OldHeld
  <1>4. CASE Quiet
    <2>1. UNCHANGED <<deferred, old, scan, cont>>
      BY <1>4 DEF Quiet, PlacesKept
    <2>2. Stage = "peek" => cont[old].ref # 0
      BY <1>3
    <2>3. Stage' = "clear" <=> Stage = "clear"
      BY <1>4, <2>2 DEF Quiet
    <2>4. Stage' = "reclaim" => cont[deferred[scan]].ref = 0
      BY <1>4 DEF Quiet, References
    <2> QED
      BY <1>2, <2>1, <2>3, <2>4 DEF References
  <1>5. CASE Looks
    BY <1>2, <1>5 DEF Looks, PlacesKept
  <1>6. ASSUME NEW t \in Threads, SendStore(t) PROVE Goal
    <2>1. Stage = "idle" /\ Stage' \in {"idle", "finish"} /\ UNCHANGED <<deferred, old>>
          /\ cont' = [cont EXCEPT ![active] = WithMessage(@)]
      BY <1>0, <1>6, CallStages DEF SendStore
    <2>2. \A k \in Containers : cont'[k].ref = cont[k].ref
      BY <1>1, <2>1 DEF WithMessage, ContainerType
    <2> QED
      BY <1>2, <2>1, <2>2
  <1>7. ASSUME NEW t \in Threads, FinishHeader(t) PROVE Goal
    <2>1. Stage = "finish" /\ Stage' = "store" /\ UNCHANGED <<deferred, old>>
          /\ cont' = [cont EXCEPT ![active] = WithHeader(@, head)]
      BY <1>0, <1>7, FinishStages DEF FinishHeader
    <2>2. \A k \in Containers : cont'[k].ref = cont[k].ref
      BY <1>1, <2>1 DEF WithHeader, ContainerType
    <2> QED
      BY <1>2, <2>1, <2>2
  <1>8. ASSUME NEW t \in Threads, RingStore(t) \/ RingPublish(t) PROVE Goal
    <2>1. /\ Stage \in {"store", "publish"} /\ Stage' \in {"publish", "full"}
          /\ UNCHANGED <<deferred, cont>>
      BY <1>0, <1>8, FinishStages DEF RingStore, RingPublish
    <2>2. \A k \in Containers : Own(k)' = Own(k)
      BY <2>1 DEF Own
    <2> QED
      BY <2>1, <2>2
  <1>9. ASSUME NEW t \in Threads, OldUnref(t) PROVE Goal
    <2> DEFINE d == Decremented(cont[old])
    <2>1. Stage = "unref" /\ old' = old
      BY <1>0, <1>9, FinishStages DEF OldUnref
    <2>2. PICK k0 \in Containers : k0 = old
      BY <1>3, <2>1
    <2>3. cont[k0].ref \in 1 .. 255 /\ Own(k0) = 1 /\ cont[k0] \in ContainerType
      BY <1>1, <1>3, <2>1, <2>2, ContainerFields
    <2>4. d \in ContainerType /\ d.ref = cont[k0].ref - 1
      <3>1. cont[k0].ref # 0 /\ d = Decremented(cont[k0])
        BY <2>2, <2>3
      <3>2. d \in ContainerType
        BY <2>3, <3>1, DecrementedType
      <3>3. d.ref = cont[k0].ref - 1
        BY <2>3, <3>1 DEF Decremented, ContainerType
      <3> QED
        BY <3>2, <3>3
    <2> HIDE DEF d
    <2>5. /\ d.ref # 0 => /\ cont' = [cont EXCEPT ![k0] = d] /\ Stage' = "get"
                          /\ deferred' = Append(deferred, k0)
          /\ d.ref = 0 => /\ cont' = [cont EXCEPT ![k0] = Renumbered(d)] /\ Stage' = "clear"
                          /\ deferred' = deferred
      BY <1>0, <1>9, <2>2, FinishStages DEF OldUnref, d
    <2>6. Renumbered(d).ref = d.ref
      BY <2>4, RenumberedType
    <2>7. cont'[k0].ref = cont[k0].ref - 1 /\ \A k \in Containers : k # k0 => cont'[k] = cont[k]
      BY <1>1, <2>4, <2>5, <2>6
    <2>8. Own(k0)' = 0 /\ \A k \in Containers : k # k0 => Own(k)' = Own(k)
      <3>1. CASE d.ref # 0
        <4>1. /\ \A i \in 1 .. Len(deferred) : i \in 1 .. Len(deferred') /\ deferred'[i] = deferred[i]
              /\ deferred'[Len(deferred) + 1] = k0 /\ Len(deferred) + 1 \in 1 .. Len(deferred')
              /\ \A i \in 1 .. Len(deferred') : i \in 1 .. Len(deferred) \/ i = Len(deferred) + 1
          <5>1. /\ Len(deferred') = Len(deferred) + 1
                /\ \A i \in 1 .. Len(deferred) : deferred'[i] = deferred[i]
                /\ deferred'[Len(deferred) + 1] = k0
                /\ \A i \in 1 .. Len(deferred') : i \in 1 .. Len(deferred) \/ i = Len(deferred) + 1
            BY <1>1, <2>5, <3>1, PushType
          <5> QED
            BY <1>1, <5>1
        <4>2. Own(k0)' = 0
          BY <4>1 DEF Own
        <4>3. ASSUME NEW k \in Containers, k # k0 PROVE Own(k)' = Own(k)
          <5>1. (\E i \in 1 .. Len(deferred') : deferred'[i] = k)
                  <=> \E i \in 1 .. Len(deferred) : deferred[i] = k
            BY <4>1, <4>3
          <5> QED
            BY <2>1, <2>5, <3>1, <5>1 DEF Own
        <4> QED
          BY <4>2, <4>3
      <3>2. CASE d.ref = 0
        BY <2>1, <2>2, <2>5, <3>2 DEF Own
      <3> QED
        BY <3>1, <3>2
    <2>9. Stage' = "clear" => cont'[old'].ref = 0
      BY <2>1, <2>2, <2>4, <2>5, <2>7
    <2>10. cont'[k0].ref - Own(k0)' = cont[k0].ref - Own(k0)
      BY <2>3, <2>7, <2>8
    <2> QED
      BY <2>5, <2>7, <2>8, <2>9, <2>10
  <1>10. ASSUME NEW t \in Threads, OldClear(t) PROVE Goal
    <2>1. /\ Stage = "clear" /\ Stage' = "wipe" /\ UNCHANGED <<deferred, old>>
          /\ cont' = [cont EXCEPT ![old] = Renewed(@)]
      BY <1>0, <1>10, FinishStages DEF OldClear
    <2>2. PICK k0 \in Containers : k0 = old
      BY <1>0, <2>1 DEF Handling
    <2>3. cont[k0].ref = 0 /\ cont[k0] \in ContainerType
      BY <1>1, <2>1, <2>2 DEF References
    <2>4. cont'[k0].ref = 1 /\ \A k \in Containers : k # k0 => cont'[k] = cont[k]
      BY <1>1, <2>1, <2>2, <2>3, RenewedType
    <2>5. Own(k0) = 0 /\ Own(k0)' = 1 /\ \A k \in Containers : k # k0 => Own(k)' = Own(k)
      <3>1. \A i \in 1 .. Len(deferred) : deferred[i] # k0
        BY <1>0, <1>1, <2>1, <2>2 DEF Single, OutOfPlace
      <3> QED
        BY <2>1, <2>2, <3>1 DEF Own
    <2> QED
      BY <2>1, <2>3, <2>4, <2>5
  <1>11. ASSUME NEW t \in Threads, OldWipe(t) \/ ScanWipe(t) PROVE Goal
    <2>1. /\ Stage \in {"wipe", "rewipe"} /\ Stage' \in {"get", "scan"}
          /\ UNCHANGED <<deferred, old>> /\ cont' = [cont EXCEPT ![old] = Wiped(@)]
      BY <1>0, <1>11, FinishStages, TakeStages DEF OldWipe, ScanWipe
    <2>2. old \in Containers
      BY <1>0, <2>1 DEF Handling
    <2>3. \A k \in Containers : cont'[k].ref = cont[k].ref
      BY <1>1, <2>1, <2>2, WipedType
    <2> QED
      BY <1>2, <2>1, <2>3
  <1>12. ASSUME NEW t \in Threads, ScanReclaim(t) PROVE Goal
    <2>1. /\ Stage = "reclaim" /\ Stage' = "rewipe" /\ old' = deferred[scan]
          /\ deferred' = Front([deferred EXCEPT ![scan] = Last(deferred)])
          /\ cont' = [cont EXCEPT ![old'] = Renewed(@)]
      BY <1>0, <1>12, TakeStages DEF ScanReclaim
    <2>2. scan \in 1 .. Len(deferred)
      BY <1>0, <2>1 DEF Handling
    <2>3. PICK k0 \in Containers : k0 = old'
      BY <1>1, <2>1, <2>2
    <2>4. cont[k0].ref = 0 /\ cont[k0] \in ContainerType
      BY <1>1, <2>1, <2>3 DEF References
    <2>5. cont'[k0].ref = 1 /\ \A k \in Containers : k # k0 => cont'[k] = cont[k]
      <3>1. cont' = [cont EXCEPT ![k0] = Renewed(@)]
        BY <2>1, <2>3
      <3> QED
        BY <1>1, <2>4, <3>1, RenewedType
    <2>6. /\ \A i \in 1 .. Len(deferred') :
               \E j \in 1 .. Len(deferred) : j # scan /\ deferred'[i] = deferred[j]
          /\ \A j \in 1 .. Len(deferred) :
               j # scan => \E i \in 1 .. Len(deferred') : deferred'[i] = deferred[j]
      BY <1>1, <2>1, <2>2, SwappedOut
    <2>7. Own(k0) = 0 /\ Own(k0)' = 1
      <3>1. \A j \in 1 .. Len(deferred) : deferred[j] = k0 => j = scan
        BY <1>0, <2>1, <2>2, <2>3 DEF Single
      <3>2. \A i \in 1 .. Len(deferred') : deferred'[i] # k0
        BY <2>6, <3>1
      <3> QED
        BY <2>1, <2>2, <2>3, <3>2 DEF Own
    <2>8. ASSUME NEW k \in Containers, k # k0 PROVE Own(k)' = Own(k)
      <3>1. (\E i \in 1 .. Len(deferred') : deferred'[i] = k)
              <=> \E i \in 1 .. Len(deferred) : deferred[i] = k
        <4>1. ASSUME NEW i \in 1 .. Len(deferred'), deferred'[i] = k
              PROVE  \E j \in 1 .. Len(deferred) : deferred[j] = k
          BY <2>6, <4>1
        <4>2. ASSUME NEW j \in 1 .. Len(deferred), deferred[j] = k
              PROVE  \E i \in 1 .. Len(deferred') : deferred'[i] = k
          <5>1. j # scan
            BY <2>1, <2>3, <2>8, <4>2
          <5> QED
            BY <2>6, <4>2, <5>1
        <4> QED
          BY <4>1, <4>2
      <3> QED
        BY <2>1, <3>1 DEF Own
    <2> QED
      BY <2>1, <2>4, <2>5, <2>7, <2>8
  <1>13. ASSUME NEW t \in Threads, TakeForSend(t) \/ TakeForSwitch(t) \/ TakeForFlush(t)
         PROVE  Goal
    <2>1. /\ Stage \in {"get", "pop"} /\ Stage' \in {"idle", "finish"} /\ deferred' = deferred
          /\ empty # <<>> /\ active' = Last(empty)
      BY <1>0, <1>13, TakeStages DEF TakeForSend, TakeForSwitch, TakeForFlush, TakeEmpty
    <2>2. PICK a \in Containers : a = active'
      BY <1>1, <2>1, PopType
    <2>3. cont' \in {[cont EXCEPT ![a] = WithMessage([@ EXCEPT !.seq = processed])],
                     [cont EXCEPT ![a].seq = processed]}
      BY <1>13, <2>2 DEF TakeForSend, TakeForSwitch, TakeForFlush
    <2>4. \A k \in Containers : cont'[k].ref = cont[k].ref
      <3>1. \A k \in Containers : k # a => cont'[k] = cont[k]
        BY <1>1, <2>3
      <3>2. cont'[a] \in {WithMessage([cont[a] EXCEPT !.seq = processed]),
                         [cont[a] EXCEPT !.seq = processed]}
        BY <1>1, <2>3
      <3>3. cont'[a].ref = cont[a].ref
        BY <1>1, <3>2 DEF WithMessage, ContainerType
      <3> QED
        BY <3>1, <3>3
    <2>5. \A k \in Containers : Own(k)' = Own(k)
      BY <2>1 DEF Own
    <2> QED
      BY <2>1, <2>4, <2>5
  <1> QED
    BY <1>4, <1>5, <1>6, <1>7, <1>8, <1>9, <1>10, <1>11, <1>12, <1>13, SharedCases DEF Noisy

(* The accepting thread and termination use up what the bound leaves.      *)
LEMMA ReferencesShared ==
  ASSUME Structure, References, SharedStep, UNCHANGED peerVars
  PROVE  References' /\ \A k \in Containers : Kept(k)' = Kept(k)
  <1>0. TypeOK /\ SenderTypeOK /\ Counted
    BY DEF Structure, TypeOK
  <1> DEFINE Bound == Cardinality(Busy) + MayEnter
  <1>1. /\ st \in [Clients -> ClientStates] /\ MaxClients \in Nat
        /\ terminated \in BOOLEAN /\ terminated' \in BOOLEAN
    BY <1>0, TypeStep, RingAssumption DEF SenderTypeOK, TypeOK, Next
  <1>2. /\ IsFiniteSet(Busy) /\ Cardinality(Busy) \in Nat /\ MayEnter \in {0, 1}
        /\ Bound \in Nat /\ Bound <= MaxClients + 1
    BY BusyBound
  <1>3. \/ UNCHANGED <<st, acc, terminated>>
        \/ \E c \in Clients : AcceptPeer(c)
        \/ AcceptStep \/ TerminateSet
    BY DEF SharedStep, SendCall, FlushCall, AutoFlushCall, ThreadStep, SendStore, SendFull,
       FlushLocked, FinishHeader, FinishRepeat, FinishYield, FinishRelock, RingStore,
       RingPublish, RingAdvanceTail, OldPeek, OldUnref, OldClear, OldWipe, ScanBegin, ScanLook,
       ScanReclaim, ScanWipe, ScanEnd, TakeForSend, TakeForSwitch, TakeForFlush, TerminateCall,
       TerminateStep, TerminateDrained, SetBufferSwitch, clientVars, ctlVars
  <1>4. /\ \A k \in Containers : Holders(k)' = Holders(k)
        /\ terminated' => /\ Bound' \in Nat /\ Bound' <= MaxClients + 1
                          /\ terminated => Bound' <= Bound
    <2>1. UNCHANGED tcont
      BY DEF peerVars
    <2>2. ASSUME UNCHANGED st, MayEnter' \in {0, 1}, MayEnter' <= MayEnter
          PROVE  /\ \A k \in Containers : Holders(k)' = Holders(k)
                 /\ Bound' \in Nat /\ Bound' <= MaxClients + 1 /\ Bound' <= Bound
      <3>1. \A k \in Containers : Holders(k)' = Holders(k)
        BY <2>1, <2>2 DEF Holders
      <3>2. Busy' = Busy
        BY <2>2 DEF Busy
      <3> HIDE DEF Busy, MayEnter
      <3>3. Bound' = Cardinality(Busy) + MayEnter'
        BY <3>2
      <3> QED
        BY <1>1, <1>2, <2>2, <3>1, <3>3
    <2>3. ASSUME UNCHANGED <<st, acc>> PROVE MayEnter' \in {0, 1} /\ MayEnter' <= MayEnter
      BY <2>3 DEF MayEnter
    <2>4. CASE UNCHANGED <<st, acc, terminated>>
      BY <2>2, <2>3, <2>4
    <2>5. ASSUME NEW c \in Clients, AcceptPeer(c) PROVE UNCHANGED st /\ MayEnter' = 1 /\ MayEnter = 1
      BY <2>5 DEF AcceptPeer, MayEnter
    <2>6. CASE AcceptTop
      <3>1. UNCHANGED <<st, terminated>> /\ acc = "top" /\ acc' = IF terminated THEN "end" ELSE "poll"
        BY <2>6 DEF AcceptTop, ctlVars
      <3>2. CASE terminated
        BY <2>2, <3>1, <3>2 DEF MayEnter
      <3>3. CASE ~terminated
        BY <2>1, <3>1, <3>3 DEF Holders
      <3> QED
        BY <3>2, <3>3
    <2>7. CASE AcceptLock
      BY <2>2, <2>7 DEF AcceptLock, MayEnter
    <2>8. CASE AcceptRefuse
      BY <2>2, <2>8 DEF AcceptRefuse, MayEnter
    <2>9. CASE AcceptList
      <3>1. /\ acc = "negotiate" /\ acc' = "count"
            /\ st' = [st EXCEPT ![accClient] = "top"]
        BY <2>9 DEF AcceptList
      <3>2. accClient \in Clients /\ st[accClient] = "off"
        BY <1>0, <3>1 DEF Counted
      <3>3. Busy' = Busy \cup {accClient} /\ accClient \notin Busy
        BY <1>1, <3>1, <3>2 DEF Busy
      <3>4. Cardinality(Busy') = Cardinality(Busy) + 1
        BY <1>2, <3>3, FS_AddElement
      <3>5. MayEnter = 1 /\ MayEnter' = 0
        BY <3>1 DEF MayEnter
      <3>6. \A k \in Containers : Holders(k)' = Holders(k)
        BY <1>1, <2>1, <3>1, <3>2 DEF Holders
      <3>7. Bound' = Bound
        BY <1>2, <3>4, <3>5
      <3> QED
        BY <1>2, <3>6, <3>7
    <2>10. CASE AcceptCount
      BY <2>2, <2>10 DEF AcceptCount, MayEnter
    <2>11. CASE TerminateSet
      <3>1. UNCHANGED <<st, acc>>
        BY <2>11 DEF TerminateSet, clientVars
      <3> QED
        BY <2>2, <2>3, <3>1
    <2> QED
      BY <1>3, <2>2, <2>4, <2>5, <2>6, <2>7, <2>8, <2>9, <2>10, <2>11 DEF AcceptStep
  <1>5. ASSUME NEW k \in Containers
        PROVE  /\ Kept(k)' = Kept(k) /\ Kept(k) >= 0
               /\ ~terminated' => Kept(k)' = 0
               /\ terminated' => Kept(k)' + Bound' <= MaxClients + 1
    <2>1. Kept(k)' = Kept(k) /\ Kept(k) \in Nat
      <3>1. cont'[k].ref - Own(k)' = cont[k].ref - Own(k) /\ Holders(k)' = Holders(k)
        BY <1>4, OwnShared
      <3>2. Kept(k)' = Kept(k)
        BY <3>1 DEF Kept
      <3> QED
        BY <3>2, RefAtLeast
    <2>2. /\ ~terminated => Kept(k) = 0
          /\ terminated => Kept(k) + Bound <= MaxClients + 1
      BY DEF References
    <2>3. terminated => terminated'
      <3>1. UNCHANGED terminated \/ TerminateSet
        BY <1>3 DEF AcceptPeer, AcceptStep, AcceptTop, AcceptLock, AcceptRefuse, AcceptList,
                    AcceptCount, ctlVars
      <3> QED
        BY <3>1 DEF TerminateSet
    <2>4. ~terminated' => Kept(k)' = 0
      BY <1>1, <2>1, <2>2, <2>3
    <2>5. CASE terminated /\ terminated'
      <3>1. PICK b \in Nat, b1 \in Nat : b = Bound /\ b1 = Bound'
        BY <1>2, <1>4, <2>5
      <3>2. Kept(k) + b <= MaxClients + 1 /\ b1 <= b
        BY <1>4, <2>2, <2>5, <3>1
      <3>3. Kept(k)' + b1 <= MaxClients + 1
        BY <1>1, <2>1, <3>2
      <3> QED
        BY <2>1, <2>4, <3>1, <3>3
    <2>6. CASE ~terminated /\ terminated'
      BY <1>4, <2>1, <2>2, <2>4, <2>6
    <2>7. CASE ~terminated'
      BY <2>1, <2>4, <2>7
    <2> QED
      BY <1>1, <2>5, <2>6, <2>7
  <1>6. References'
    BY <1>5, OwnShared DEF References
  <1> QED
    BY <1>5, <1>6

(* A client's thread: t_cont_acquiere and t_cont_release keep count.       *)
LEMMA ReferencesPeer ==
  ASSUME MaxClients <= 253, Structure, References, NEW c \in Clients, PeerStep(c), ~missed'
  PROVE  /\ References'
         /\ ~(PeerBroken(c) /\ terminated) => \A k \in Containers : Kept(k)' = Kept(k)
  <1>0. TypeOK /\ SenderTypeOK /\ Serving
    BY DEF Structure, TypeOK
  <1>1. /\ st \in [Clients -> ClientStates] /\ MaxClients \in Nat
        /\ tcont \in [Clients -> Containers \cup {NoContainer}]
        /\ cont \in [Containers -> ContainerType]
        /\ terminated \in BOOLEAN /\ NoContainer \notin Containers
    BY <1>0, RingAssumption DEF SenderTypeOK, TypeOK, Containers, NoContainer
  <1>2. /\ IsFiniteSet(Busy) /\ Cardinality(Busy) \in Nat /\ MayEnter \in {0, 1}
        /\ Cardinality(Busy) <= MaxClients
    BY BusyBound
  <1>3. /\ \A k \in Containers : Own(k)' = Own(k)
        /\ MayEnter' = MayEnter /\ terminated' = terminated
        /\ UNCHANGED <<old, scan, deferred>> /\ Stage' = Stage
    <2>1. UNCHANGED <<old, scan, deferred, acc, terminated>> /\ Stage' = Stage
      BY PeerFrame, PeerQuiet DEF PlacesKept
    <2> QED
      BY <2>1 DEF Own, MayEnter
  <1>4. PICK s \in ClientStates : st' = [st EXCEPT ![c] = s]
    BY PeerFrame
  <1>5. st[c] # "off" /\ st'[c] = s /\ \A d \in Clients : d # c => st'[d] = st[d]
    BY <1>1, <1>4, PeerFrame
  <1>6. \A d \in Clients : d # c => tcont'[d] = tcont[d]
    BY <1>1 DEF PeerStep, PeerTop, PeerPick, PeerAcquire, PeerVerify,
       PeerGiveUp, PeerSkip, PeerSent, PeerBroken, PeerRelease, PeerNext, PeerJump, PeerLeave,
       peerVars
  (* How many clients may still keep a reference.                          *)
  <1>7. /\ Cardinality(Busy') \in Nat /\ Cardinality(Busy') <= Cardinality(Busy)
        /\ st[c] # "cleanup" /\ s = "cleanup" => Cardinality(Busy') = Cardinality(Busy) - 1
    <2>1. CASE st[c] = "cleanup"
      <3>1. s = "off"
        BY <1>1, <1>4, <2>1 DEF PeerStep, PeerTop, PeerPick, PeerAcquire, PeerVerify, PeerGiveUp,
           PeerSkip, PeerSent, PeerBroken, PeerRelease, PeerNext, PeerJump, PeerLeave, Disconnect
      <3>2. Busy' = Busy
        BY <1>5, <2>1, <3>1 DEF Busy
      <3> QED
        BY <1>2, <2>1, <3>2
    <2>2. CASE st[c] # "cleanup" /\ s \in {"off", "cleanup"}
      <3>1. Busy' = Busy \ {c} /\ c \in Busy
        BY <1>5, <2>2 DEF Busy
      <3>2. Cardinality(Busy') = Cardinality(Busy) - 1 /\ Cardinality(Busy') \in Nat
        BY <1>2, <3>1, FS_RemoveElement, FS_CardinalityType
      <3> QED
        BY <1>2, <3>2
    <2>3. CASE st[c] # "cleanup" /\ s \notin {"off", "cleanup"}
      <3>1. Busy' = Busy
        BY <1>5, <2>3 DEF Busy
      <3> QED
        BY <1>2, <2>3, <3>1
    <2> QED
      BY <2>1, <2>2, <2>3
  (* The counter and its holders, container by container.                  *)
  <1> DEFINE Held(k) == Cardinality(Holders(k))
  <1>8. \A k \in Containers : Held(k) \in Nat /\ Held(k)' \in Nat
    <2> TAKE k \in Containers
    <2>1. IsFiniteSet(Clients) /\ Holders(k) \subseteq Clients /\ Holders(k)' \subseteq Clients
      BY ThreadAssumption DEF Holders
    <2> QED
      BY <2>1, FS_Subset, FS_CardinalityType
  <1>9. \A k \in Containers : k # tcont[c] /\ k # tcont'[c] => Holders(k)' = Holders(k)
    BY <1>5, <1>6 DEF Holders
  <1> DEFINE Balanced == /\ \A k \in Containers : cont'[k].ref - Held(k)' = cont[k].ref - Held(k)
                         /\ \A k \in Containers :
                              cont[k].ref = 0 => cont'[k].ref = 0
  <1>10. ASSUME \/ PeerTop(c) \/ PeerPick(c) \/ PeerVerify(c) \/ PeerSkip(c) \/ PeerSent(c)
                \/ PeerNext(c) \/ PeerJump(c) \/ PeerLeave(c)
         PROVE  Balanced
    <2>1. UNCHANGED cont
      BY <1>10 DEF PeerTop, PeerPick, PeerVerify, PeerSkip, PeerSent, PeerNext, PeerJump,
                   PeerLeave, Disconnect, mbufVars
    <2> DEFINE Working == {"verify", "send", "release", "giveup"}
    <2>2. \/ st[c] \notin Working /\ s \notin Working
          \/ st[c] \in Working /\ s \in Working /\ tcont' = tcont
      BY <1>1, <1>5, <1>10 DEF PeerTop, PeerPick, PeerVerify, PeerSkip, PeerSent, PeerNext, PeerJump,
                         PeerLeave, Disconnect, SetState, peerVars
    <2>3. \A k \in Containers : Holders(k)' = Holders(k)
      BY <1>5, <1>6, <2>2 DEF Holders
    <2> QED
      BY <2>1, <2>3
  <1>11. ASSUME PeerAcquire(c) PROVE Balanced
    <2>1. PICK k0 \in Containers : k0 = tcont[c]
      BY <1>0, <1>11 DEF PeerAcquire, Serving
    <2>2. /\ cont' = [cont EXCEPT ![k0] = Acquired(@)] /\ cont[k0].ref >= 1
          /\ st[c] = "acquire" /\ s = "verify" /\ tcont' = tcont
      <3>1. cont[k0].ref \in 0 .. 255 /\ ~(cont[k0].ref < 1)
        BY <1>1, <1>11, <2>1, ContainerFields DEF PeerAcquire
      <3>2. cont[k0].ref >= 1
        BY <3>1
      <3>3. /\ cont' = [cont EXCEPT ![k0] = Acquired(@)]
            /\ st[c] = "acquire" /\ tcont' = tcont /\ SetState(c, "verify")
        BY <1>11, <2>1, <3>1 DEF PeerAcquire
      <3> QED
        BY <1>1, <1>5, <3>2, <3>3 DEF SetState
    <2>3. Holders(k0)' = Holders(k0) \cup {c} /\ c \notin Holders(k0)
      BY <1>5, <1>6, <2>1, <2>2 DEF Holders
    <2>4. Held(k0)' = Held(k0) + 1
      BY <2>3, HoldersFinite, FS_AddElement
    <2>5. Held(k0) + 1 <= Cardinality(Busy)
      <3>1. Holders(k0)' \subseteq Busy
        BY <1>5, <2>2, <2>3 DEF Holders, Busy
      <3> QED
        BY <1>2, <2>4, <3>1, FS_Subset
    <2>6. cont[k0].ref <= 254
      <3>1. /\ cont[k0].ref = Kept(k0) + Own(k0) + Held(k0) /\ Kept(k0) \in Nat
            /\ Own(k0) \in {0, 1} /\ cont[k0].ref \in 0 .. 255
        BY RefAtLeast
      <3>2. PICK r \in Nat, o \in {0, 1}, h \in Nat, b \in Nat, e \in {0, 1}, w \in Nat :
              /\ r = cont[k0].ref /\ o = Own(k0) /\ h = Held(k0) /\ b = Cardinality(Busy)
              /\ e = MayEnter /\ w = Kept(k0)
        BY <1>2, <1>8, <3>1
      <3>3. r = w + o + h /\ h + 1 <= b /\ b <= MaxClients
            /\ (w = 0 \/ w + (b + e) <= MaxClients + 1)
        BY <1>1, <1>2, <2>5, <3>1, <3>2 DEF References
      <3>4. r <= 254
        BY <1>1, <3>3
      <3> QED
        BY <3>2, <3>4
    <2>7. cont'[k0].ref = cont[k0].ref + 1
      <3>1. cont[k0] \in ContainerType /\ cont[k0].ref \in 0 .. 254
        BY <1>1, <2>6, ContainerFields
      <3>2. \A n \in 0 .. 254 : (n + 1) % 256 = n + 1
        OBVIOUS
      <3>3. (cont[k0].ref + 1) % 256 = cont[k0].ref + 1
        BY <3>1, <3>2
      <3> QED
        BY <1>1, <2>2, <3>1, <3>3, AcquiredType
    <2>8. cont'[k0].ref - Held(k0)' = cont[k0].ref - Held(k0) /\ cont[k0].ref # 0
      <3>1. cont[k0].ref \in 0 .. 255
        BY <1>1, ContainerFields
      <3> QED
        BY <1>8, <2>2, <2>4, <2>7, <3>1
    <2>9. \A k \in Containers : k # k0 => cont'[k] = cont[k] /\ Holders(k)' = Holders(k)
      BY <1>1, <1>9, <2>1, <2>2
    <2> QED
      BY <2>8, <2>9
  <1>12. ASSUME PeerGiveUp(c) \/ PeerRelease(c) \/ (PeerBroken(c) /\ ~terminated) PROVE Balanced
    <2>1. PICK k0 \in Containers : k0 = tcont[c]
      BY <1>0, <1>12 DEF PeerGiveUp, PeerRelease, PeerBroken, Serving
    <2>2. /\ cont' = [cont EXCEPT ![k0] = Decremented(@)]
          /\ st[c] \in {"giveup", "release", "send"} /\ tcont'[c] = NoContainer
      BY <1>1, <1>12, <2>1 DEF PeerGiveUp, PeerRelease, PeerBroken
    <2>3. Holders(k0)' = Holders(k0) \ {c} /\ c \in Holders(k0)
      BY <1>1, <1>5, <1>6, <2>1, <2>2 DEF Holders
    <2>4. Held(k0)' = Held(k0) - 1
      BY <2>3, HoldersFinite, FS_RemoveElement
    <2>5. cont[k0].ref >= 1 /\ cont[k0].ref \in 0 .. 255 /\ cont[k0] \in ContainerType
      BY <1>1, <2>3, RefAtLeast
    <2>6. cont'[k0].ref = cont[k0].ref - 1
      <3>1. cont[k0].ref # 0 /\ cont'[k0] = Decremented(cont[k0])
        BY <1>1, <2>2, <2>5
      <3> QED
        BY <2>5, <3>1 DEF Decremented, ContainerType
    <2>7. cont'[k0].ref - Held(k0)' = cont[k0].ref - Held(k0) /\ cont[k0].ref # 0
      BY <1>8, <2>4, <2>5, <2>6
    <2>8. \A k \in Containers : k # k0 => cont'[k] = cont[k] /\ Holders(k)' = Holders(k)
      BY <1>1, <1>9, <2>1, <2>2
    <2> QED
      BY <2>7, <2>8
  <1>13. ASSUME Balanced
         PROVE  References' /\ \A k \in Containers : Kept(k)' = Kept(k)
    <2>1. ASSUME NEW k \in Containers
          PROVE  /\ Kept(k)' = Kept(k) /\ Kept(k)' >= 0
                 /\ ~terminated' => Kept(k)' = 0
                 /\ terminated' => Kept(k)' + (Cardinality(Busy') + MayEnter') <= MaxClients + 1
      <3>1. Kept(k)' = Kept(k)
        <4>1. PICK r \in Int, r1 \in Int, h \in Nat, h1 \in Nat, o \in {0, 1} :
                /\ r = cont[k].ref /\ r1 = cont'[k].ref /\ h = Held(k) /\ h1 = Held(k)'
                /\ o = Own(k)
          <5>1. cont'[k].ref \in Int /\ cont[k].ref \in Int /\ Own(k) \in {0, 1}
            <6>1. cont'[k] \in ContainerType /\ cont[k] \in ContainerType
              BY <1>0, <1>1, PeerCont
            <6>2. cont'[k].ref \in 0 .. 255 /\ cont[k].ref \in 0 .. 255
              BY <6>1, ContainerFields
            <6> QED
              BY <6>2, RefAtLeast
          <5> QED
            BY <1>8, <5>1
        <4>2. r1 - h1 = r - h
          BY <1>13, <4>1
        <4>3. r1 - o - h1 = r - o - h
          BY <4>2
        <4> QED
          BY <1>3, <4>1, <4>3 DEF Kept
      <3>2. /\ Kept(k) \in Nat /\ (~terminated => Kept(k) = 0)
            /\ terminated => Kept(k) + (Cardinality(Busy) + MayEnter) <= MaxClients + 1
        BY RefAtLeast DEF References
      <3>3. Kept(k) + (Cardinality(Busy) + MayEnter) <= MaxClients + 1 =>
              Kept(k) + (Cardinality(Busy') + MayEnter) <= MaxClients + 1
        BY <1>1, <1>2, <1>7, <3>2
      <3> QED
        BY <1>3, <3>1, <3>2, <3>3
    <2>2. /\ Stage' = "clear" => cont'[old'].ref = 0
          /\ Stage' = "reclaim" => cont'[deferred'[scan']].ref = 0
      <3>1. Stage = "clear" => old \in Containers
        BY DEF Structure, Handling
      <3>2. Stage = "reclaim" => deferred[scan] \in Containers
        BY <1>0, ElementOfSeq DEF Structure, Handling, SenderTypeOK
      <3> QED
        BY <1>3, <1>13, <3>1, <3>2 DEF References
    <2>3. References'
      BY <2>1, <2>2 DEF References
    <2> QED
      BY <2>1, <2>3
  (* After termination a client that fails keeps its reference, and leaves. *)
  <1>14. ASSUME PeerBroken(c), terminated PROVE References'
    <2>1. PICK k0 \in Containers : k0 = tcont[c]
      BY <1>0, <1>14 DEF PeerBroken, Serving
    <2>2. /\ cont' = cont /\ st[c] = "send" /\ s = "cleanup" /\ tcont'[c] = NoContainer
      BY <1>1, <1>5, <1>14 DEF PeerBroken, SetState
    <2>3. Holders(k0)' = Holders(k0) \ {c} /\ c \in Holders(k0)
      BY <1>1, <1>5, <1>6, <2>1, <2>2 DEF Holders
    <2>4. Held(k0)' = Held(k0) - 1
      BY <2>3, HoldersFinite, FS_RemoveElement
    <2>5. \A k \in Containers : k # k0 => Holders(k)' = Holders(k)
      BY <1>1, <1>9, <2>1, <2>2
    <2>6. Cardinality(Busy') = Cardinality(Busy) - 1
      BY <1>7, <2>2
    <2>7. ASSUME NEW k \in Containers
          PROVE  Kept(k)' >= 0 /\ Kept(k)' + (Cardinality(Busy') + MayEnter') <= MaxClients + 1
      <3>1. /\ Kept(k) \in Nat
            /\ Kept(k) + (Cardinality(Busy) + MayEnter) <= MaxClients + 1
        BY <1>14, RefAtLeast DEF References
      <3>2. Kept(k)' \in {Kept(k), Kept(k) + 1}
        <4>1. CASE k = k0
          <5>1. PICK r \in Int, h \in Nat, o \in {0, 1} :
                  r = cont[k].ref /\ h = Held(k) /\ o = Own(k)
            BY <1>8, RefAtLeast
          <5>2. Kept(k)' = r - o - (h - 1)
            BY <1>3, <2>2, <2>4, <4>1, <5>1 DEF Kept
          <5>3. Kept(k) = r - o - h
            BY <5>1 DEF Kept
          <5>4. Kept(k)' = Kept(k) + 1
            BY <5>2, <5>3
          <5> QED
            BY <5>4
        <4>2. CASE k # k0
          BY <1>3, <2>2, <2>5, <4>2 DEF Kept
        <4> QED
          BY <4>1, <4>2
      <3>3. PICK w \in Nat, w1 \in Nat, b \in Nat, e \in {0, 1} :
              w = Kept(k) /\ w1 = Kept(k)' /\ b = Cardinality(Busy) /\ e = MayEnter
        BY <1>2, <3>1, <3>2
      <3>4. w + (b + e) <= MaxClients + 1 /\ w1 \in {w, w + 1}
        BY <3>1, <3>2, <3>3
      <3>5. w1 >= 0 /\ w1 + ((b - 1) + e) <= MaxClients + 1
        BY <1>1, <3>4
      <3> QED
        BY <1>3, <2>6, <3>3, <3>5
    <2> QED
      BY <1>3, <1>14, <2>2, <2>7 DEF References
  <1> QED
    BY <1>1, <1>10, <1>11, <1>12, <1>13, <1>14 DEF PeerStep

-----------------------------------------------------------------------------
(* What a client has picked, or sends, over a step of the other threads.   *)
LEMMA FoundKept ==
  ASSUME NEW k \in Containers, NEW id \in Nat, Findable(k, id), Same(k), RingKept,
         Recycling(k)' <=> Recycling(k)
  PROVE  Findable(k, id)'
  <1>1. /\ cont'[k].idx = cont[k].idx /\ cont'[k].msgs = cont[k].msgs
        /\ head' = head /\ log' = log
    BY DEF Same, RingKept
  <1>2. Published(k)' <=> Published(k)
    BY <1>1 DEF Published
  <1> QED
    BY <1>1, <1>2 DEF Findable

(* The ring has gone round since the container was wanted.                 *)
LEMMA FoundLate ==
  ASSUME NEW k \in Containers, NEW id \in Nat, head' \in Nat, head' >= head, head \in Nat,
         id + BufferCount <= head,
         \/ cont'[k].idx = 0
         \/ cont'[k].idx >= id + BufferCount
         \/ Recycling(k)' /\ cont'[k].idx # id
  PROVE  Findable(k, id)'
  <1>1. id + BufferCount <= head' /\ id < head'
    BY RingAssumption
  <1> QED
    BY <1>1 DEF Findable

(* What has been published stays in the log.                               *)
LEMMA Republished ==
  ASSUME Structure, cont' = cont, head' = head + 1, log' = Append(log, cont[active].msgs),
         NEW k \in Containers, Published(k)
  PROVE  Published(k)'
  <1>1. /\ Len(log) = head /\ head \in Nat /\ log \in Seq(Seq(Nat))
        /\ cont[active].msgs \in Seq(Nat)
    BY ContainerFields DEF Structure, Contents, TypeOK, SenderTypeOK
  <1>2. \A i \in 1 .. head : log'[i] = log[i]
    BY <1>1, PushType
  <1>3. cont[k].idx \in 0 .. head - 1 /\ cont[k].msgs = log[cont[k].idx + 1]
    BY DEF Published
  <1>4. cont[k].idx + 1 \in 1 .. head /\ cont[k].idx \in 0 .. head' - 1
    BY <1>1, <1>3
  <1> QED
    BY <1>2, <1>3, <1>4 DEF Published

LEMMA SharedFound ==
  ASSUME BufferCount > 1, Structure, References, SharedStep,
         NEW k \in Containers, NEW id \in Nat \ {0}, Findable(k, id)
  PROVE  Findable(k, id)'
  <1>0. TypeOK /\ SenderTypeOK /\ Mutex /\ NeverWaits /\ Handling /\ Single /\ Contents
    BY DEF Structure, TypeOK
  <1>1. /\ head \in Nat /\ BufferCount \in Nat /\ BufferCount >= 2 /\ id \in Nat /\ id # 0
        /\ cont \in [Containers -> ContainerType] /\ cont[k].idx \in Int
        /\ empty \in Seq(Containers) /\ deferred \in Seq(Containers)
        /\ active \in Containers /\ old \in Containers \cup {NoContainer}
        /\ NoContainer \notin Containers
    BY <1>0, RingAssumption, ContainerFields DEF SenderTypeOK, Containers, NoContainer
  <1>2. ASSUME cont[k].idx = 0
        PROVE  id + BufferCount <= head
    BY <1>1, <1>2 DEF Findable
  <1> USE DEF Recycling
  <1>3. CASE Quiet
    <2>1. Stage = "peek" => cont[old].ref # 0
      BY OldHeld
    <2>2. Same(k) /\ RingKept /\ (Recycling(k)' <=> Recycling(k))
      BY <1>3, <2>1 DEF Quiet, PlacesKept, Same
    <2> QED
      BY <1>1, <2>2, FoundKept
  <1>4. CASE Looks
    BY <1>1, <1>4, FoundKept DEF Looks, PlacesKept, Same
  <1>5. ASSUME NEW t \in Threads, SendStore(t) PROVE Findable(k, id)'
    <2>1. /\ Stage = "idle" /\ Stage' \in {"idle", "finish"} /\ RingKept
          /\ cont' = [cont EXCEPT ![active] = WithMessage(@)]
      BY <1>0, <1>5, CallStages DEF SendStore, RingKept
    <2>2. CASE k = active
      <3>1. cont[k].idx = 0
        BY <1>0, <2>1, <2>2 DEF Contents
      <3>2. cont'[k].idx = cont[k].idx
        BY <1>1, <2>1, <2>2 DEF WithMessage, ContainerType
      <3> QED
        BY <1>1, <1>2, <2>1, <3>1, <3>2, FoundLate DEF RingKept
    <2>3. CASE k # active
      BY <1>1, <2>1, <2>3, FoundKept DEF Same
    <2> QED
      BY <2>2, <2>3
  <1>6. ASSUME NEW t \in Threads, FinishHeader(t) PROVE Findable(k, id)'
    <2>1. /\ Stage = "finish" /\ Stage' = "store" /\ RingKept
          /\ cont' = [cont EXCEPT ![active] = WithHeader(@, head)]
      BY <1>0, <1>6, FinishStages DEF FinishHeader, RingKept, historyVars
    <2>2. CASE k = active
      <3>1. cont[k].idx = 0
        BY <1>0, <2>1, <2>2 DEF Contents
      <3>2. cont'[k].idx = head
        BY <1>1, <2>1, <2>2 DEF WithHeader, ContainerType
      <3> QED
        BY <1>1, <1>2, <2>1, <3>1, <3>2, FoundLate DEF RingKept
    <2>3. CASE k # active
      BY <1>1, <2>1, <2>3, FoundKept DEF Same
    <2> QED
      BY <2>2, <2>3
  <1>7. ASSUME NEW t \in Threads, RingStore(t) PROVE Findable(k, id)'
    <2>1. Stage = "store" /\ Stage' = "publish" /\ RingKept /\ cont' = cont
      BY <1>0, <1>7, FinishStages DEF RingStore, RingKept, historyVars
    <2> QED
      BY <1>1, <2>1, FoundKept DEF Same
  <1>8. ASSUME NEW t \in Threads, RingPublish(t) PROVE Findable(k, id)'
    <2>1. /\ Stage = "publish" /\ Stage' = "full" /\ cont' = cont
          /\ head' = head + 1 /\ log' = Append(log, cont[active].msgs)
      BY <1>0, <1>8, FinishStages DEF RingPublish
    <2>2. CASE Published(k) /\ cont[k].idx = id
      <3>1. Published(k)'
        BY <2>1, <2>2, Republished
      <3> QED
        <4>1. id < head
          BY DEF Findable
        <4>2. id < head'
          BY <1>1, <2>1, <4>1
        <4>3. cont'[k].idx = id /\ ~Recycling(k)'
          BY <2>1, <2>2
        <4> QED
          BY <3>1, <4>2, <4>3 DEF Findable
    <2>3. CASE ~(Published(k) /\ cont[k].idx = id)
      BY <1>1, <2>1, <2>3, FoundLate DEF Findable
    <2> QED
      BY <2>2, <2>3
  <1>9. ASSUME NEW t \in Threads, OldUnref(t) PROVE Findable(k, id)'
    <2> DEFINE d == Decremented(cont[old])
    <2>1. /\ Stage = "unref" /\ old' = old /\ RingKept /\ old \in Containers
      BY <1>0, <1>9, FinishStages DEF OldUnref, Handling, RingKept, historyVars
    <2>2. d \in ContainerType /\ d.idx = cont[old].idx /\ d.msgs = cont[old].msgs
      <3>1. PICK r \in ContainerType : r = cont[old]
        BY <1>1, <2>1
      <3>2. Decremented(r) \in ContainerType /\ Decremented(r).msgs = r.msgs
        BY DecrementedType
      <3>3. Decremented(r).idx = r.idx
        BY DEF Decremented, ContainerType
      <3> QED
        BY <3>1, <3>2, <3>3
    <2> HIDE DEF d
    <2>3. /\ d.ref # 0 => cont' = [cont EXCEPT ![old] = d] /\ Stage' = "get"
          /\ d.ref = 0 => cont' = [cont EXCEPT ![old] = Renumbered(d)] /\ Stage' = "clear"
      BY <1>0, <1>9, FinishStages DEF OldUnref, d
    <2>4. CASE k # old \/ d.ref # 0
      <3>1. Same(k)
        BY <1>1, <2>1, <2>2, <2>3, <2>4 DEF Same
      <3> QED
        BY <1>1, <2>1, <2>3, <2>4, <3>1, FoundKept
    <2>5. CASE k = old /\ d.ref = 0
      <3>1. Overtaken(k)
        BY <1>0, <2>1, <2>5 DEF Contents
      <3>2. cont'[k].idx = cont[k].idx - 1
        BY <1>1, <2>2, <2>3, <2>5 DEF Renumbered, ContainerType
      <3>3. PICK x \in Int : x = cont[k].idx
        BY <1>1
      <3>4. \/ x = id /\ x + BufferCount <= head
            \/ id + BufferCount <= head /\ (x = 0 \/ x >= id + BufferCount)
        BY <2>1, <3>1, <3>3 DEF Findable, Overtaken
      <3>5. id + BufferCount <= head /\ x - 1 # id
        BY <1>1, <3>4
      <3> QED
        BY <1>1, <2>1, <2>3, <2>5, <3>2, <3>3, <3>5, FoundLate DEF RingKept
    <2> QED
      BY <2>4, <2>5
  <1>10. ASSUME NEW t \in Threads, OldClear(t) PROVE Findable(k, id)'
    <2>1. /\ Stage = "clear" /\ Stage' = "wipe" /\ old' = old /\ RingKept /\ old \in Containers
          /\ cont' = [cont EXCEPT ![old] = Renewed(@)]
      BY <1>0, <1>10, FinishStages DEF OldClear, Handling, RingKept, historyVars
    <2>2. Same(k)
      BY <1>1, <2>1 DEF Same, Renewed, ContainerType
    <2> QED
      BY <1>1, <2>1, <2>2, FoundKept
  <1>11. ASSUME NEW t \in Threads, OldWipe(t) \/ ScanWipe(t) PROVE Findable(k, id)'
    <2>1. /\ Stage \in {"wipe", "rewipe"} /\ Stage' \in {"get", "scan"} /\ RingKept
          /\ cont' = [cont EXCEPT ![old] = Wiped(@)] /\ old \in Containers
          /\ Stage = "wipe" \/ Stage = "rewipe"
      BY <1>0, <1>11, FinishStages, TakeStages DEF OldWipe, ScanWipe, Handling, RingKept, historyVars
    <2>2. CASE k = old
      <3>1. cont'[k].idx = 0
        BY <1>1, <2>1, <2>2 DEF Wiped, ContainerType
      <3>2. id + BufferCount <= head
        <4>1. Stage = "rewipe" => Overtaken(k)
          BY <1>0, <2>1, <2>2 DEF Contents
        <4> QED
          BY <2>1, <2>2, <4>1 DEF Findable, Overtaken
      <3> QED
        BY <1>1, <2>1, <3>1, <3>2, FoundLate DEF RingKept
    <2>3. CASE k # old
      BY <1>1, <2>1, <2>3, FoundKept DEF Same
    <2> QED
      BY <2>2, <2>3
  <1>12. ASSUME NEW t \in Threads, ScanReclaim(t) PROVE Findable(k, id)'
    <2>1. /\ Stage = "reclaim" /\ Stage' = "rewipe" /\ RingKept
          /\ old' = deferred[scan] /\ cont' = [cont EXCEPT ![old'] = Renewed(@)]
      BY <1>0, <1>12, TakeStages DEF ScanReclaim, RingKept, historyVars
    <2>2. deferred[scan] \in Containers
      BY <1>0, <1>1, <2>1, ElementOfSeq DEF Handling
    <2>3. PICK k0 \in Containers : k0 = old'
      BY <2>1, <2>2
    <2>4. Same(k)
      <3>1. cont' = [cont EXCEPT ![k0] = Renewed(@)] /\ cont[k0] \in ContainerType
        BY <1>1, <2>1, <2>3
      <3> QED
        BY <1>1, <3>1 DEF Same, Renewed, ContainerType
    <2> QED
      BY <1>1, <2>1, <2>4, FoundKept
  <1>13. ASSUME NEW t \in Threads, TakeForSend(t) \/ TakeForSwitch(t) \/ TakeForFlush(t)
         PROVE  Findable(k, id)'
    <2>1. /\ Stage \in {"get", "pop"} /\ Stage' \in {"idle", "finish"} /\ RingKept
          /\ empty # <<>> /\ active' = Last(empty)
      BY <1>0, <1>13, TakeStages
      DEF TakeForSend, TakeForSwitch, TakeForFlush, TakeEmpty, RingKept, historyVars
    <2>2. PICK a \in Containers : a = active'
      BY <1>1, <2>1, PopType
    <2>3. cont' \in {[cont EXCEPT ![a] = WithMessage([@ EXCEPT !.seq = processed])],
                     [cont EXCEPT ![a].seq = processed]}
      BY <1>13, <2>2 DEF TakeForSend, TakeForSwitch, TakeForFlush
    <2>4. CASE k = a
      <3>1. cont[a].idx = 0
        <4>1. a = empty[Len(empty)] /\ Len(empty) \in 1 .. Len(empty)
          BY <1>1, <2>1, <2>2, PopType
        <4> QED
          BY <1>0, <4>1 DEF Contents
      <3>2. cont'[a].idx = cont[a].idx
        <4>1. cont'[a] \in {WithMessage([cont[a] EXCEPT !.seq = processed]),
                           [cont[a] EXCEPT !.seq = processed]}
          BY <1>1, <2>3
        <4>2. cont[a] \in ContainerType
          BY <1>1
        <4> QED
          BY <4>1, <4>2 DEF WithMessage, ContainerType
      <3>3. cont'[k].idx = 0 /\ id + BufferCount <= head /\ head' = head
        BY <1>2, <2>1, <2>4, <3>1, <3>2 DEF RingKept
      <3>4. head' \in Nat /\ head' >= head
        BY <1>1, <3>3
      <3> QED
        BY <1>1, <3>3, <3>4, FoundLate
    <2>5. CASE k # a
      BY <1>1, <2>1, <2>3, <2>5, FoundKept DEF Same
    <2> QED
      BY <2>4, <2>5
  <1> QED
    BY <1>3, <1>4, <1>5, <1>6, <1>7, <1>8, <1>9, <1>10, <1>11, <1>12, <1>13, SharedCases DEF Noisy

LEMMA SharedUnharmed ==
  ASSUME Structure, References, SharedStep,
         NEW k \in Containers, NEW id \in Nat \ {0}, Holders(k) # {}, Unharmed(k, id)
  PROVE  Unharmed(k, id)'
  <1>0. TypeOK /\ SenderTypeOK /\ Mutex /\ NeverWaits /\ Handling /\ Single /\ Contents
    BY DEF Structure, TypeOK
  <1>1. /\ head \in Nat /\ id \in Nat /\ id # 0 /\ id < head
        /\ cont \in [Containers -> ContainerType]
        /\ empty \in Seq(Containers) /\ deferred \in Seq(Containers)
        /\ active \in Containers /\ old \in Containers \cup {NoContainer}
        /\ NoContainer \notin Containers
        /\ Published(k) /\ cont[k].idx = id
    BY <1>0, RingAssumption DEF SenderTypeOK, Containers, NoContainer, Unharmed
  <1>2. cont[k].ref >= 1 /\ cont[k].ref \in Nat
    <2>1. PICK c \in Holders(k) : TRUE
      OBVIOUS
    <2>2. cont[k].ref \in 0 .. 255 /\ cont[k].ref >= 1
      BY <2>1, RefAtLeast
    <2> QED
      BY <2>2
  <1>3. ASSUME Same(k), RingKept, Stage' \in {"clear", "wipe", "rewipe"} => old' # k
        PROVE  Unharmed(k, id)'
    BY <1>1, <1>3 DEF Unharmed, Published, Same, RingKept
  <1> DEFINE Safe == Stage' \in {"clear", "wipe", "rewipe"} => old' # k
  <1>4. Stage \in {"clear", "wipe", "rewipe"} => old # k
    BY DEF Unharmed
  <1>5. CASE Quiet
    <2>1. Stage = "peek" => cont[old].ref # 0
      BY OldHeld
    <2>2. Same(k) /\ RingKept /\ Safe
      BY <1>4, <1>5, <2>1 DEF Quiet, PlacesKept, Same
    <2> QED
      BY <1>3, <2>2
  <1>6. CASE Looks
    BY <1>3, <1>6 DEF Looks, Same
  <1>7. ASSUME NEW t \in Threads, SendStore(t) PROVE Unharmed(k, id)'
    <2>1. /\ Stage = "idle" /\ Stage' \in {"idle", "finish"} /\ RingKept
          /\ cont' = [cont EXCEPT ![active] = WithMessage(@)]
      BY <1>0, <1>7, CallStages DEF SendStore, RingKept
    <2>2. k # active
      BY <1>0, <1>1, <2>1 DEF Contents
    <2> QED
      BY <1>1, <1>3, <2>1, <2>2 DEF Same
  <1>8. ASSUME NEW t \in Threads, FinishHeader(t) PROVE Unharmed(k, id)'
    <2>1. /\ Stage = "finish" /\ Stage' = "store" /\ RingKept
          /\ cont' = [cont EXCEPT ![active] = WithHeader(@, head)]
      BY <1>0, <1>8, FinishStages DEF FinishHeader, RingKept, historyVars
    <2>2. k # active
      BY <1>0, <1>1, <2>1 DEF Contents
    <2> QED
      BY <1>1, <1>3, <2>1, <2>2 DEF Same
  <1>9. ASSUME NEW t \in Threads, RingStore(t) PROVE Unharmed(k, id)'
    <2>1. Stage' = "publish" /\ RingKept /\ cont' = cont
      BY <1>0, <1>9, FinishStages DEF RingStore, RingKept, historyVars
    <2> QED
      BY <1>3, <2>1 DEF Same
  <1>10. ASSUME NEW t \in Threads, RingPublish(t) PROVE Unharmed(k, id)'
    <2>1. /\ Stage' = "full" /\ cont' = cont
          /\ head' = head + 1 /\ log' = Append(log, cont[active].msgs)
      BY <1>0, <1>10, FinishStages DEF RingPublish
    <2>2. Published(k)' /\ id < head'
      BY <1>1, <2>1, Republished
    <2> QED
      BY <1>1, <2>1, <2>2 DEF Unharmed
  <1>11. ASSUME NEW t \in Threads, OldUnref(t) PROVE Unharmed(k, id)'
    <2> DEFINE d == Decremented(cont[old])
    <2>1. /\ Stage = "unref" /\ old' = old /\ RingKept /\ old \in Containers
      BY <1>0, <1>11, FinishStages DEF OldUnref, Handling, RingKept, historyVars
    <2>2. d \in ContainerType /\ d.idx = cont[old].idx /\ d.msgs = cont[old].msgs
          /\ cont[old].ref \in 0 .. 255
          /\ (cont[old].ref >= 2 => d.ref # 0)
      <3>1. PICK r \in ContainerType : r = cont[old]
        BY <1>1, <2>1
      <3>2. Decremented(r) \in ContainerType /\ Decremented(r).msgs = r.msgs
        BY DecrementedType
      <3>3. Decremented(r).idx = r.idx /\ (r.ref >= 2 => Decremented(r).ref # 0)
        BY ContainerFields DEF Decremented, ContainerType
      <3> QED
        BY <3>1, <3>2, <3>3, ContainerFields
    <2> HIDE DEF d
    <2>3. /\ d.ref # 0 => cont' = [cont EXCEPT ![old] = d] /\ Stage' = "get"
          /\ d.ref = 0 => cont' = [cont EXCEPT ![old] = Renumbered(d)] /\ Stage' = "clear"
      BY <1>0, <1>11, FinishStages DEF OldUnref, d
    <2>4. CASE k = old
      <3>1. Own(k) = 1 /\ Kept(k) \in Nat
        BY <2>1, <2>4, OldHeld, RefAtLeast
      <3>2. Cardinality(Holders(k)) \in Nat \ {0}
        BY HoldersFinite, FS_EmptySet
      <3>3. cont[k].ref = Kept(k) + Own(k) + Cardinality(Holders(k))
        BY RefAtLeast
      <3>4. cont[old].ref >= 2
        BY <2>4, <3>1, <3>2, <3>3
      <3>5. Same(k) /\ Safe
        BY <1>1, <2>1, <2>2, <2>3, <2>4, <3>4 DEF Same
      <3> QED
        BY <1>3, <2>1, <3>5
    <2>5. CASE k # old
      <3>1. Same(k)
        BY <1>1, <2>1, <2>3, <2>5 DEF Same
      <3> QED
        BY <1>3, <2>1, <2>5, <3>1
    <2> QED
      BY <2>4, <2>5
  <1>12. ASSUME NEW t \in Threads, OldClear(t) PROVE Unharmed(k, id)'
    <2>1. /\ Stage = "clear" /\ Stage' = "wipe" /\ old' = old /\ RingKept /\ old \in Containers
          /\ cont' = [cont EXCEPT ![old] = Renewed(@)]
      BY <1>0, <1>12, FinishStages DEF OldClear, Handling, RingKept, historyVars
    <2> QED
      BY <1>1, <1>3, <1>4, <2>1 DEF Same
  <1>13. ASSUME NEW t \in Threads, OldWipe(t) \/ ScanWipe(t) PROVE Unharmed(k, id)'
    <2>1. /\ Stage \in {"wipe", "rewipe"} /\ Stage' \in {"get", "scan"} /\ RingKept
          /\ cont' = [cont EXCEPT ![old] = Wiped(@)] /\ old \in Containers
      BY <1>0, <1>13, FinishStages, TakeStages DEF OldWipe, ScanWipe, Handling, RingKept, historyVars
    <2> QED
      BY <1>1, <1>3, <1>4, <2>1 DEF Same
  <1>14. ASSUME NEW t \in Threads, ScanReclaim(t) PROVE Unharmed(k, id)'
    <2>1. /\ Stage = "reclaim" /\ Stage' = "rewipe" /\ RingKept
          /\ old' = deferred[scan] /\ cont' = [cont EXCEPT ![old'] = Renewed(@)]
      BY <1>0, <1>14, TakeStages DEF ScanReclaim, RingKept, historyVars
    <2>2. cont[deferred[scan]].ref = 0
      BY <2>1 DEF References
    <2>3. old' # k
      BY <1>2, <2>1, <2>2
    <2> QED
      BY <1>1, <1>3, <2>1, <2>3 DEF Same
  <1>15. ASSUME NEW t \in Threads, TakeForSend(t) \/ TakeForSwitch(t) \/ TakeForFlush(t)
         PROVE  Unharmed(k, id)'
    <2>1. /\ Stage' \in {"idle", "finish"} /\ RingKept
          /\ empty # <<>> /\ active' = Last(empty)
      BY <1>0, <1>15, TakeStages
      DEF TakeForSend, TakeForSwitch, TakeForFlush, TakeEmpty, RingKept, historyVars
    <2>2. PICK a \in Containers : a = active'
      BY <1>1, <2>1, PopType
    <2>3. cont' \in {[cont EXCEPT ![a] = WithMessage([@ EXCEPT !.seq = processed])],
                     [cont EXCEPT ![a].seq = processed]}
      BY <1>15, <2>2 DEF TakeForSend, TakeForSwitch, TakeForFlush
    <2>4. a = empty[Len(empty)] /\ Len(empty) \in 1 .. Len(empty)
      BY <1>1, <2>1, <2>2, PopType
    <2>5. k # a
      BY <1>0, <1>1, <2>4 DEF Contents
    <2>6. Same(k)
      BY <1>1, <2>3, <2>5 DEF Same
    <2> QED
      BY <1>3, <2>1, <2>6
  <1> QED
    BY <1>5, <1>6, <1>7, <1>8, <1>9, <1>10, <1>11, <1>12, <1>13, <1>14, <1>15, SharedCases DEF Noisy

-----------------------------------------------------------------------------
(* The container read from the slot of an id is the one published under    *)
(* it, or a later one by the length of the ring.                           *)
LEMMA PickFound ==
  ASSUME BufferCount > 1, Structure, NEW id \in Nat \ {0}, id < head, At(id) # NoContainer
  PROVE  At(id) \in Containers /\ Findable(At(id), id)
  <1>0. TypeOK /\ SenderTypeOK /\ Single /\ Contents
    BY DEF Structure, TypeOK
  <1> DEFINE i == id % BufferCount
             k == slot[i]
             x == cont[k].idx
  <1>1. /\ head \in Nat /\ id \in Nat /\ BufferCount \in Nat
        /\ i \in RingSlots /\ k \in Containers /\ k # NoContainer /\ k = At(id)
    BY <1>0, RingAssumption, SlotOf DEF SenderTypeOK, At, RingSlots
  <1>2. \A a, b \in Nat : a < b /\ a % BufferCount = b % BufferCount => a + BufferCount <= b
    <2> SUFFICES ASSUME NEW a \in Nat, NEW b \in Nat, a < b, a % BufferCount = b % BufferCount
                 PROVE  a + BufferCount <= b
      OBVIOUS
    <2>1. ~(b - a < BufferCount)
      BY DistinctSlots
    <2> QED
      BY <1>1, <2>1
  <1>3. ~Recycling(k)
    BY <1>0, <1>1 DEF Single, Recycling, OutOfPlace
  <1>4. CASE Stage = "publish" /\ i = head % BufferCount
    <2>1. x = head
      BY <1>0, <1>1, <1>4 DEF Contents
    <2>2. id + BufferCount <= head
      BY <1>1, <1>2, <1>4
    <2> QED
      BY <1>1, <2>1, <2>2 DEF Findable
  <1>5. CASE ~(Stage = "publish" /\ i = head % BufferCount)
    <2>1. Published(k) /\ x % BufferCount = i /\ x + BufferCount >= head
      BY <1>0, <1>1, <1>5 DEF Contents
    <2> HIDE DEF k
    <2>2. PICK y \in Nat : y = x
      BY <1>1, <2>1 DEF Published
    <2>3. /\ y < head /\ y % BufferCount = id % BufferCount /\ y + BufferCount >= head
          /\ cont[k].idx = y
      BY <1>1, <2>1, <2>2 DEF Published
    <2> HIDE DEF x
    <2>4. ~(y < id)
      <3> SUFFICES ASSUME y < id PROVE FALSE
        OBVIOUS
      <3>1. y + BufferCount <= id
        BY <1>1, <1>2, <2>3
      <3> QED
        BY <1>1, <2>3, <3>1
    <2>5. CASE y = id
      BY <1>1, <1>3, <2>1, <2>3, <2>5 DEF Findable
    <2>6. CASE id < y
      <3>1. id + BufferCount <= y
        BY <1>1, <1>2, <2>3, <2>6
      <3>2. id + BufferCount <= head
        BY <1>1, <2>3, <3>1
      <3> QED
        BY <1>1, <2>3, <3>1, <3>2 DEF Findable
    <2> QED
      BY <1>1, <2>4, <2>5, <2>6
  <1> QED
    BY <1>4, <1>5

(* The other threads move no client that is at work.                       *)
LEMMA SharedClients ==
  ASSUME Structure, SharedStep, UNCHANGED peerVars, NEW c \in Clients,
         st'[c] \in {"acquire", "verify", "send", "release"}
  PROVE  st[c] = st'[c] /\ cid[c] = cid'[c] /\ tcont[c] = tcont'[c]
  <1>0. SenderTypeOK /\ Counted
    BY DEF Structure, TypeOK
  <1>1. \/ UNCHANGED <<st, cid>>
        \/ acc = "negotiate" /\ st' = [st EXCEPT ![accClient] = "top"] /\ UNCHANGED cid
        \/ /\ acc \in {"lock", "negotiate"} /\ UNCHANGED st
           /\ \E n \in {0, head} : cid' = [cid EXCEPT ![accClient] = n]
    BY DEF SharedStep, SendCall, FlushCall, AutoFlushCall, ThreadStep, SendStore, SendFull,
       FlushLocked, FinishHeader, FinishRepeat, FinishYield, FinishRelock, RingStore,
       RingPublish, RingAdvanceTail, OldPeek, OldUnref, OldClear, OldWipe, ScanBegin, ScanLook,
       ScanReclaim, ScanWipe, ScanEnd, TakeForSend, TakeForSwitch, TakeForFlush, AcceptPeer,
       AcceptStep, AcceptTop, AcceptLock, AcceptRefuse, AcceptList, AcceptCount, TerminateCall,
       TerminateStep, TerminateDrained, TerminateSet, SetBufferSwitch, clientVars
  <1>2. acc \in {"lock", "negotiate"} => st[accClient] = "off" /\ accClient \in Clients
    BY <1>0 DEF Counted
  <1> QED
    BY <1>0, <1>1, <1>2 DEF SenderTypeOK, peerVars

LEMMA UntouchedShared ==
  ASSUME BufferCount > 1, Structure, Untouched, SharedStep, UNCHANGED peerVars
  PROVE  Untouched'
  <1> SUFFICES ASSUME ~missed'
               PROVE  References' /\ \A c \in Clients : cid'[c] # 0 => Picked(c)' /\ Whole(c)'
    BY DEF Untouched
  <1>1. References /\ \A c \in Clients : cid[c] # 0 => Picked(c) /\ Whole(c)
    BY DEF Untouched, peerVars
  <1>2. References'
    BY <1>1, ReferencesShared
  <1> SUFFICES ASSUME NEW c \in Clients, cid'[c] # 0
               PROVE  Picked(c)' /\ Whole(c)'
    BY <1>2
  <1>3. cid' \in [Clients -> Nat] /\ TypeOK /\ Serving
    BY TypeStep DEF Next, TypeOK, SenderTypeOK, Structure
  <1>4. CASE st'[c] \in {"acquire", "verify"}
    <2>1. st[c] = st'[c] /\ cid[c] = cid'[c] /\ tcont[c] = tcont'[c]
      BY <1>4, SharedClients
    <2>2. PICK k \in Containers : k = tcont[c]
      BY <1>3, <1>4, <2>1 DEF Serving
    <2>3. PICK id \in Nat \ {0} : id = cid[c]
      BY <1>3, <2>1
    <2>4. Findable(k, id)
      BY <1>1, <1>4, <2>1, <2>2, <2>3 DEF Picked
    <2>5. Findable(k, id)'
      BY <1>1, <2>4, SharedFound
    <2> QED
      BY <1>4, <2>1, <2>2, <2>3, <2>5 DEF Picked, Whole, Findable
  <1>5. CASE st'[c] \in {"send", "release"}
    <2>1. st[c] = st'[c] /\ cid[c] = cid'[c] /\ tcont[c] = tcont'[c]
      BY <1>5, SharedClients
    <2>2. PICK k \in Containers : k = tcont[c]
      BY <1>3, <1>5, <2>1 DEF Serving
    <2>3. PICK id \in Nat \ {0} : id = cid[c]
      BY <1>3, <2>1
    <2>4. Unharmed(k, id) /\ c \in Holders(k)
      BY <1>1, <1>5, <2>1, <2>2, <2>3 DEF Whole, Holders
    <2>5. Unharmed(k, id)'
      BY <1>1, <2>4, SharedUnharmed
    <2> QED
      BY <1>5, <2>1, <2>2, <2>3, <2>5 DEF Picked, Whole, Unharmed
  <1>6. CASE st'[c] \notin {"acquire", "verify", "send", "release"}
    BY <1>6 DEF Picked, Whole
  <1> QED
    BY <1>4, <1>5, <1>6

(* A step of a client's thread, as seen by the containers.                 *)
LEMMA PeerKeeps ==
  ASSUME Structure, NEW c \in Clients, PeerStep(c), NEW k \in Containers, NEW id \in Nat
  PROVE  /\ Findable(k, id) => Findable(k, id)'
         /\ Unharmed(k, id) => Unharmed(k, id)'
  <1>1. Same(k)
    BY PeerCont DEF Structure, Same
  <1>2. RingKept /\ old' = old /\ Stage' = Stage
    BY PeerQuiet DEF PlacesKept
  <1>3. Findable(k, id) => Findable(k, id)'
    BY <1>1, <1>2, FoundKept DEF Recycling
  <1>4. Unharmed(k, id) => Unharmed(k, id)'
    BY <1>1, <1>2 DEF Unharmed, Published, Same, RingKept
  <1> QED
    BY <1>3, <1>4

LEMMA UntouchedPeer ==
  ASSUME BufferCount > 1, MaxClients <= 253, Structure, Untouched,
         NEW c \in Clients, PeerStep(c)
  PROVE  Untouched'
  <1> SUFFICES ASSUME ~missed'
               PROVE  References' /\ \A d \in Clients : cid'[d] # 0 => Picked(d)' /\ Whole(d)'
    BY DEF Untouched
  <1>0. TypeOK /\ SenderTypeOK /\ Serving /\ Serving'
    BY LockStep DEF Next, Structure, TypeOK
  <1>1. /\ st \in [Clients -> ClientStates] /\ cid \in [Clients -> Nat] /\ missed \in BOOLEAN
        /\ tcont \in [Clients -> Containers \cup {NoContainer}]
        /\ cid' \in [Clients -> Nat] /\ st' \in [Clients -> ClientStates]
    BY <1>0, TypeStep DEF Next, TypeOK, SenderTypeOK
  <1>2. ~missed
    BY <1>1 DEF PeerStep, PeerTop, PeerPick, PeerAcquire, PeerVerify, PeerGiveUp, PeerSkip,
       PeerSent, PeerBroken, PeerRelease, PeerNext, PeerJump, PeerLeave, peerVars
  <1>3. References /\ \A d \in Clients : cid[d] # 0 => Picked(d) /\ Whole(d)
    BY <1>2 DEF Untouched
  <1>4. References'
    BY <1>3, ReferencesPeer
  <1> SUFFICES ASSUME NEW d \in Clients, cid'[d] # 0
               PROVE  Picked(d)' /\ Whole(d)'
    BY <1>4
  (* A client that goes on with the same container and the same id.        *)
  <1>5. ASSUME st'[d] = st[d], cid'[d] = cid[d], tcont'[d] = tcont[d]
        PROVE  Picked(d)' /\ Whole(d)'
    <2>1. CASE st[d] \in {"acquire", "verify", "send", "release"}
      <3>1. PICK k \in Containers : k = tcont[d]
        BY <1>0, <2>1 DEF Serving
      <3>2. PICK id \in Nat : id = cid[d] /\ id # 0
        BY <1>1, <1>5
      <3>3. /\ Findable(k, id) => Findable(k, id)'
            /\ Unharmed(k, id) => Unharmed(k, id)'
        BY PeerKeeps
      <3>4. /\ st[d] \in {"acquire", "verify"} => Findable(k, id)
            /\ st[d] \in {"send", "release"} => Unharmed(k, id)
        BY <1>3, <3>1, <3>2 DEF Picked, Whole
      <3>5. /\ st'[d] \in {"acquire", "verify"} => Findable(tcont[d], cid[d])'
            /\ st'[d] \in {"send", "release"} => Unharmed(tcont[d], cid[d])'
        BY <1>5, <3>1, <3>2, <3>3, <3>4 DEF Findable, Unharmed
      <3> QED
        BY <3>5 DEF Picked, Whole
    <2>2. CASE st[d] \notin {"acquire", "verify", "send", "release"}
      BY <1>5, <2>2 DEF Picked, Whole
    <2> QED
      BY <2>1, <2>2
  <1>6. CASE d # c
    <2>1. st'[d] = st[d]
      BY <1>1, <1>6, PeerFrame
    <2>2. tcont'[d] = tcont[d] /\ cid'[d] = cid[d]
      BY <1>1, <1>6 DEF PeerStep, PeerTop, PeerPick, PeerAcquire, PeerVerify, PeerGiveUp, PeerSkip,
         PeerSent, PeerBroken, PeerRelease, PeerNext, PeerJump, PeerLeave, Disconnect, peerVars
    <2> QED
      BY <1>5, <2>1, <2>2
  <1>7. CASE d = c
    <2>1. CASE st'[c] \notin {"acquire", "verify", "send", "release"}
      BY <1>7, <2>1 DEF Picked, Whole
    <2>2. CASE PeerPick(c)
      <3>1. /\ st'[c] = "acquire" /\ tcont'[c] = At(cid[c]) /\ cid' = cid
            /\ cid[c] < head /\ At(cid[c]) # NoContainer
        BY <1>1, <2>2 DEF PeerPick, SetState, Ready
      <3>2. PICK id \in Nat \ {0} : id = cid[c]
        BY <1>1, <1>7, <3>1
      <3>3. PICK k \in Containers : k = At(id) /\ Findable(k, id)
        BY <3>1, <3>2, PickFound
      <3>4. Findable(k, id)'
        BY <3>3, PeerKeeps
      <3>5. Findable(tcont[c], cid[c])'
        BY <3>1, <3>2, <3>3, <3>4 DEF Findable
      <3> QED
        BY <1>7, <3>1, <3>5 DEF Picked, Whole
    <2>3. CASE PeerAcquire(c)
      <3>1. st[c] = "acquire" /\ cid' = cid /\ tcont' = tcont /\ st'[c] \in {"verify", "giveup"}
        BY <1>1, <2>3 DEF PeerAcquire, SetState
      <3>2. PICK k \in Containers : k = tcont[c]
        BY <1>0, <3>1 DEF Serving
      <3>3. PICK id \in Nat : id = cid[c] /\ id # 0
        BY <1>1, <1>7, <3>1
      <3>4. Findable(k, id)
        BY <1>3, <3>1, <3>2, <3>3 DEF Picked
      <3>5. Findable(k, id)'
        BY <3>4, PeerKeeps
      <3>6. Findable(tcont[c], cid[c])'
        BY <3>1, <3>2, <3>3, <3>5 DEF Findable
      <3> QED
        BY <1>7, <3>1, <3>6 DEF Picked, Whole
    <2>4. CASE PeerVerify(c)
      <3>1. /\ st[c] = "verify" /\ cid' = cid /\ tcont' = tcont
            /\ st'[c] = IF cont[tcont[c]].idx = cid[c] THEN "send" ELSE "giveup"
            /\ ~Recovering(tcont[c])
        BY <1>1, <2>4 DEF PeerVerify, SetState
      <3>2. PICK k \in Containers : k = tcont[c]
        BY <1>0, <3>1 DEF Serving
      <3>3. PICK id \in Nat : id = cid[c] /\ id # 0
        BY <1>1, <1>7, <3>1
      <3>4. CASE cont[k].idx = id
        <4>1. Findable(k, id)
          BY <1>3, <3>1, <3>2, <3>3 DEF Picked
        <4>2. Published(k) /\ ~Recycling(k) /\ id < head
          <5>1. ~(id >= id + BufferCount)
            BY RingAssumption
          <5> QED
            BY <3>3, <3>4, <4>1, <5>1 DEF Findable
        <4>3. ~(Stage = "rewipe" /\ old = k)
          BY <3>1, <3>2 DEF Recovering, Stage
        <4>4. Unharmed(k, id)
          BY <3>4, <4>2, <4>3 DEF Unharmed, Recycling
        <4>5. Unharmed(k, id)'
          BY <4>4, PeerKeeps
        <4>6. Unharmed(tcont[c], cid[c])'
          BY <3>1, <3>2, <3>3, <4>5 DEF Unharmed
        <4>7. st'[c] = "send"
          BY <3>1, <3>2, <3>3, <3>4
        <4> QED
          BY <1>7, <4>6, <4>7 DEF Picked, Whole
      <3>5. CASE cont[k].idx # id
        BY <1>7, <3>1, <3>2, <3>3, <3>5 DEF Picked, Whole
      <3> QED
        BY <3>4, <3>5
    <2>5. CASE PeerSent(c)
      <3>1. st[c] = "send" /\ cid' = cid /\ tcont' = tcont /\ st'[c] = "release"
        BY <1>1, <2>5 DEF PeerSent, SetState
      <3>2. PICK k \in Containers : k = tcont[c]
        BY <1>0, <3>1 DEF Serving
      <3>3. PICK id \in Nat : id = cid[c] /\ id # 0
        BY <1>1, <1>7, <3>1
      <3>4. Unharmed(k, id)
        BY <1>3, <3>1, <3>2, <3>3 DEF Whole
      <3>5. Unharmed(k, id)'
        BY <3>4, PeerKeeps
      <3>6. Unharmed(tcont[c], cid[c])'
        BY <3>1, <3>2, <3>3, <3>5 DEF Unharmed
      <3> QED
        BY <1>7, <3>1, <3>6 DEF Picked, Whole
    <2>6. ASSUME ~PeerPick(c), ~PeerAcquire(c), ~PeerVerify(c), ~PeerSent(c)
          PROVE  st'[c] \notin {"acquire", "verify", "send", "release"}
      BY <1>1, <2>6 DEF PeerStep, PeerTop, PeerGiveUp, PeerSkip, PeerBroken, PeerRelease, PeerNext,
         PeerJump, PeerLeave, Disconnect, SetState
    <2> QED
      BY <2>1, <2>2, <2>3, <2>4, <2>5, <2>6
  <1> QED
    BY <1>6, <1>7

-----------------------------------------------------------------------------
LEMMA InvInit == Init => Inv
  <1> SUFFICES ASSUME Init PROVE Inv
    OBVIOUS
  <1>1. TypeOK
    <2>1. SenderTypeOK
      BY SharedInit DEF Init
    <2>2. <<>> \in Seq([id : Nat, msgs : Seq(Nat)])
      BY EmptySeq
    <2>3. tcont \in [Clients -> Containers \cup {NoContainer}]
      BY DEF Init
    <2>4. nextSeq \in [Clients -> Nat \cup {-1}]
      BY DEF Init
    <2>5. skipped \in [Clients -> Int]
      BY DEF Init
    <2>7. missed \in BOOLEAN
      BY DEF Init
    <2>6. sent \in [Clients -> Seq([id : Nat, msgs : Seq(Nat)])]
      BY <2>2 DEF Init
    <2> QED
      BY <2>1, <2>3, <2>4, <2>5, <2>6, <2>7 DEF TypeOK
  <1>2. /\ mtx = "free" /\ Stage = "idle" /\ acc = "top" /\ terminated = FALSE
        /\ \A t \in Threads : pc[t] = "idle"
        /\ \A c \in Clients : st[c] = "off" /\ cid[c] = 0
    BY StageFree DEF Init, SenderInit
  <1>3. Mutex /\ NeverWaits /\ Serving /\ Handling
    BY <1>2, ThreadAssumption DEF Mutex, NeverWaits, Serving, Handling, Holding
  <1>4. /\ \A j \in RingSlots : slot[j] = NoContainer
        /\ \A i \in 1 .. Len(empty) :
             empty[i] \in Containers /\ empty[i] # active /\ empty[i] # NoContainer
        /\ \A i, j \in 1 .. Len(empty) : empty[i] = empty[j] => i = j
        /\ active \in Containers /\ active # NoContainer
        /\ Len(deferred) = 0 /\ 1 .. Len(deferred) = {}
    BY PlacesAtFirst, EmptySeq DEF Init
  <1>5. Single
    BY <1>2, <1>4 DEF Single, OutOfPlace
  <1>6. /\ head = 0 /\ log = <<>> /\ NoContainer \notin Containers
        /\ \A k \in Containers : cont[k].idx = 0 /\ cont[k].ref = 1
    BY RingAssumption DEF Init, SenderInit, Containers, NoContainer
  <1>7. Contents
    BY <1>2, <1>4, <1>6, EmptySeq DEF Contents
  <1>8. Counted
    <2>1. Listed = {} /\ connected = 0 /\ waiting = 0
      BY DEF Init, SenderInit, Listed
    <2> QED
      BY <1>2, <2>1, FS_EmptySet, RingAssumption DEF Counted
  <1>9. References
    <2>1. ASSUME NEW k \in Containers PROVE Kept(k) = 0
      <3>1. Holders(k) = {} /\ Own(k) = 1
        BY <1>2, <1>4 DEF Holders, Own
      <3>2. Cardinality(Holders(k)) = 0
        BY <3>1, FS_EmptySet
      <3> QED
        BY <1>6, <3>1, <3>2 DEF Kept
    <2> QED
      BY <1>2, <2>1 DEF References
  <1> QED
    BY <1>1, <1>2, <1>3, <1>5, <1>7, <1>8, <1>9 DEF Inv, Structure, Untouched

LEMMA StructureStutter ==
  ASSUME Structure, UNCHANGED vars
  PROVE  Structure'
  BY DEF Structure, vars, senderVars, mbufVars, threadVars, clientVars, ctlVars, historyVars,
         peerVars, TypeOK, SenderTypeOK, Mutex, NeverWaits, Serving, Handling, Single, Contents,
         Counted, Stage, Published, Overtaken, Listed, At

LEMMA UntouchedStutter ==
  ASSUME Untouched, UNCHANGED vars
  PROVE  Untouched'
  <1>1. UNCHANGED <<cont, slot, head, deferred, active, empty, log, old, scan, pc, mtx, st, cid,
                    tcont, acc, terminated, missed>>
    BY DEF vars, senderVars, mbufVars, threadVars, clientVars, ctlVars, historyVars, peerVars
  <1>2. Stage' = Stage
    BY <1>1 DEF Stage
  <1>3. \A k \in Containers : Kept(k)' = Kept(k)
    BY <1>1, <1>2 DEF Kept, Own, Holders
  <1>4. References => References'
    BY <1>1, <1>2, <1>3 DEF References, Busy, MayEnter
  <1>5. \A c \in Clients : (Picked(c) => Picked(c)') /\ (Whole(c) => Whole(c)')
    BY <1>1, <1>2 DEF Picked, Findable, Published, Recycling, Whole, Unharmed
  <1> QED
    BY <1>1, <1>4, <1>5 DEF Untouched

LEMMA InvStep ==
  ASSUME BufferCount > 1, MaxClients <= 253, Inv, [Next]_vars
  PROVE  Inv'
  <1>1. CASE Next
    BY <1>1, StructureStep, UntouchedShared, UntouchedPeer DEF Inv, Next
  <1>2. CASE UNCHANGED vars
    BY <1>2, StructureStutter, UntouchedStutter DEF Inv
  <1> QED
    BY <1>1, <1>2

LEMMA StructureNext == Structure /\ [Next]_vars => Structure'
  BY StructureStep, StructureStutter

(* Types, the lock, where every container is and what it holds, whatever   *)
(* the clients are too late for: of any ring, any number of clients.       *)
THEOREM StructureKept == Spec => []Structure
  <1>1. Init => Structure
    BY InvInit DEF Inv
  <1> QED
    BY <1>1, StructureNext, PTL DEF Spec

(* Every variable keeps its type: what is popped from the stack, put in    *)
(* the ring or reclaimed is a container, and its reference counter a byte. *)
THEOREM NonBlockingTypeCorrect == Spec => []TypeOK
  <1>1. Structure => TypeOK
    BY DEF Structure
  <1> QED
    BY <1>1, StructureKept, PTL

(* The containers clients refer to are counted and kept, and the client    *)
(* that verifies a container finds the one its id is for, or is late: of a *)
(* ring of two slots or more and clients the reference counter can count.  *)
THEOREM NonBlockingInvariance ==
  ASSUME BufferCount > 1, MaxClients <= 253
  PROVE  Spec => []Inv
  <1>1. Inv /\ [Next]_vars => Inv'
    BY InvStep
  <1> QED
    BY <1>1, InvInit, PTL DEF Spec

(* send_non_blocking_mode sends a container as it was published, although  *)
(* it looked it up in the ring without a lock: until a client comes too    *)
(* late for one, what it sends is what was published under its id.         *)
THEOREM SentWhole ==
  ASSUME BufferCount > 1, MaxClients <= 253
  PROVE  Spec => []SentIntactUntilMiss
  <1>1. Inv => SentIntactUntilMiss
    BY DEF Inv, Untouched, SentIntactUntilMiss, Intact, Whole, Unharmed, Published
  <1> QED
    BY <1>1, NonBlockingInvariance, PTL

-----------------------------------------------------------------------------
(* The numbers of the messages and of the containers.                      *)
NumberStays(k) == cont'[k].msgs = cont[k].msgs /\ cont'[k].seq = cont[k].seq

(* A step that moves no message and takes no container keeps Numbering.    *)
LEMMA NumberingKept ==
  ASSUME Structure, Numbering, UNCHANGED <<active, empty, log>>,
         UNCHANGED <<processed, accepted, bufferswitch>>,
         \A t \in Threads : task'[t] # "switch",
         \A k \in Containers : NumberStays(k),
         Stage' = "idle" => Stage = "idle",
         Stage' \in {"finish", "store", "publish"} =>
           Stage \in {"finish", "store", "publish"} \/ cont[active].msgs # <<>>
  PROVE  Numbering'
  <1>1. active \in Containers /\ \A i \in 1 .. Len(empty) : empty[i] \in Containers
    BY ElementOfSeq DEF Structure, TypeOK, SenderTypeOK
  <1>2. \A k \in Containers : Consecutive(k)'
    BY DEF Numbering, Consecutive, NumberStays
  <1>3. \A i \in 1 .. Len(empty') : cont'[empty'[i]].msgs = <<>>
    BY <1>1 DEF Numbering, NumberStays
  <1>4. /\ Stage' = "idle" => cont'[active'].seq + Len(cont'[active'].msgs) = accepted'
        /\ Stage' \in {"finish", "store", "publish"} => cont'[active'].msgs # <<>>
    BY <1>1 DEF Numbering, NumberStays
  <1> QED
    BY <1>2, <1>3, <1>4 DEF Numbering

(* t_cont_insert goes on where the container's messages end.               *)
LEMMA OneMore ==
  ASSUME NEW r \in ContainerType, \A i \in 1 .. Len(r.msgs) : r.msgs[i] = r.seq + i,
         accepted \in Nat, r.seq + Len(r.msgs) = accepted
  PROVE  /\ WithMessage(r).seq + Len(WithMessage(r).msgs) = accepted + 1
         /\ \A i \in 1 .. Len(WithMessage(r).msgs) :
              WithMessage(r).msgs[i] = WithMessage(r).seq + i
  <1>1. r.msgs \in Seq(Nat) /\ r.seq \in Nat
    BY ContainerFields
  <1>2. WithMessage(r).seq = r.seq /\ WithMessage(r).msgs = Append(r.msgs, accepted + 1)
    BY DEF WithMessage, ContainerType
  <1> DEFINE e == accepted + 1
             w == Append(r.msgs, e)
  <1>3. PICK m \in Seq(Nat), s \in Nat : m = r.msgs /\ s = r.seq
    BY <1>1
  <1>4. /\ Len(m) \in Nat /\ Len(w) = Len(m) + 1 /\ w[Len(m) + 1] = accepted + 1
        /\ \A i \in 1 .. Len(m) : w[i] = m[i]
    <2>1. e \in Nat /\ w = Append(m, e)
      BY <1>3
    <2> QED
      BY <2>1, AppendProperties
  <1> HIDE DEF w
  <1>5. s + Len(m) = accepted /\ \A i \in 1 .. Len(m) : m[i] = s + i
    BY <1>3
  <1>6. s + Len(w) = accepted + 1 /\ \A i \in 1 .. Len(w) : w[i] = s + i
    BY <1>4, <1>5
  <1> QED
    BY <1>2, <1>3, <1>6 DEF w

(* Only the active container is given messages, and only a step that holds *)
(* ifc_mtx can take another.                                               *)
LEMMA NumberingShared ==
  ASSUME BufferSwitches = {1}, Structure, Numbering, SharedStep
  PROVE  Numbering'
  <1>0. TypeOK /\ SenderTypeOK /\ Mutex /\ NeverWaits /\ Handling /\ Single
    BY DEF Structure, TypeOK
  <1>1. /\ cont \in [Containers -> ContainerType] /\ active \in Containers
        /\ empty \in Seq(Containers) /\ Len(empty) \in Nat /\ old \in Containers \cup {NoContainer}
        /\ processed \in Nat /\ accepted \in Nat /\ log \in Seq(Seq(Nat))
        /\ \A i \in 1 .. Len(empty) : empty[i] \in Containers
        /\ task \in [Threads -> {"send", "switch", "flush"}] /\ NoContainer \notin Containers
    BY <1>0, LenProperties, ElementOfSeq, RingAssumption
    DEF SenderTypeOK, Containers, NoContainer
  <1>2. bufferswitch = 1 /\ processed = accepted /\ \A t \in Threads : task[t] # "switch"
    BY DEF Numbering
  <1> USE DEF historyVars, ctlVars, mbufVars
  <1>3. ASSUME NEW t \in Threads, SendCall(t) \/ FlushCall(t) \/ AutoFlushCall(t)
        PROVE  Numbering'
    <2>1. Stage' = Stage
      BY <1>0, <1>3, CallStages
    <2>2. UNCHANGED <<cont, active, empty, log, processed, accepted, bufferswitch>>
      BY <1>3 DEF SendCall, FlushCall, AutoFlushCall
    <2>3. \A u \in Threads : task'[u] # "switch"
      BY <1>1, <1>2, <1>3 DEF SendCall, FlushCall, AutoFlushCall
    <2> QED
      BY <2>1, <2>2, <2>3, NumberingKept DEF NumberStays
  <1>4. ASSUME NEW t \in Threads, SendFull(t) \/ FlushLocked(t) PROVE Numbering'
    <2>1. Stage = "idle" /\ Stage' \in {"idle", "finish"}
      BY <1>0, <1>4, CallStages
    <2>2. UNCHANGED <<cont, active, empty, log, processed, accepted, bufferswitch, task>>
      BY <1>4 DEF SendFull, FlushLocked
    <2>3. cont[active].msgs = <<>> => Stage' = "idle"
      <3>1. SUFFICES ASSUME cont[active].msgs = <<>> PROVE Stage' = "idle"
        OBVIOUS
      <3>2. HasSpace(cont[active])
        BY <3>1, EmptySeq, RingAssumption DEF HasSpace
      <3>3. FlushLocked(t)
        BY <1>4, <3>2 DEF SendFull
      <3>4. mtx' = "free"
        BY <3>1, <3>3 DEF FlushLocked
      <3> QED
        BY <3>4, StageFreed
    <2> QED
      BY <1>2, <2>1, <2>2, <2>3, NumberingKept DEF NumberStays
  <1>5. ASSUME NEW t \in Threads, FinishHeader(t) PROVE Numbering'
    <2>1. /\ Stage = "finish" /\ Stage' = "store"
          /\ UNCHANGED <<active, empty, log, processed, accepted, bufferswitch, task>>
          /\ cont' = [cont EXCEPT ![active] = WithHeader(@, head)]
      BY <1>0, <1>5, FinishStages DEF FinishHeader
    <2>2. \A k \in Containers : NumberStays(k)
      BY <1>1, <2>1 DEF NumberStays, WithHeader, ContainerType
    <2> QED
      BY <1>2, <2>1, <2>2, NumberingKept
  <1>6. ASSUME NEW t \in Threads,
               \/ RingStore(t) \/ RingAdvanceTail(t) \/ OldPeek(t)
               \/ ScanBegin(t) \/ ScanLook(t) \/ ScanEnd(t)
        PROVE  Numbering'
    <2>1. UNCHANGED <<cont, active, empty, log, processed, accepted, bufferswitch, task>>
      BY <1>6 DEF RingStore, RingAdvanceTail, OldPeek, ScanBegin, ScanLook, ScanEnd
    <2>2. /\ Stage' # "idle"
          /\ Stage' \in {"finish", "store", "publish"} => Stage \in {"finish", "store", "publish"}
      BY <1>0, <1>6, FinishStages, TakeStages
    <2> QED
      BY <1>2, <2>1, <2>2, NumberingKept DEF NumberStays
  <1>7. ASSUME NEW t \in Threads, RingPublish(t) PROVE Numbering'
    <2>1. /\ Stage = "publish" /\ Stage' = "full" /\ log' = Append(log, cont[active].msgs)
          /\ UNCHANGED <<cont, active, empty, processed, accepted, bufferswitch, task>>
      BY <1>0, <1>7, FinishStages DEF RingPublish
    <2>2. cont[active].msgs \in Seq(Nat) /\ cont[active].msgs # <<>>
      BY <1>1, <2>1, ContainerFields DEF Numbering
    <2>3. \A i \in 1 .. Len(log') : log'[i] # <<>>
      <3>1. PICK m \in Seq(Nat) : m = cont[active].msgs
        BY <2>2
      <3>2. /\ Len(log) \in Nat /\ Len(log') = Len(log) + 1 /\ log'[Len(log) + 1] = m
            /\ \A i \in 1 .. Len(log) : log'[i] = log[i]
        BY <1>1, <2>1, <3>1, AppendProperties
      <3> QED
        BY <2>2, <3>1, <3>2 DEF Numbering
    <2> QED
      BY <2>1, <2>3 DEF Numbering, Consecutive
  <1>8. ASSUME NEW t \in Threads, OldUnref(t) PROVE Numbering'
    <2> DEFINE d == Decremented(cont[old])
    <2>1. /\ Stage = "unref" /\ Stage' \in {"get", "clear"} /\ old \in Containers
          /\ UNCHANGED <<active, empty, log, processed, accepted, bufferswitch, task>>
          /\ cont' \in {[cont EXCEPT ![old] = d], [cont EXCEPT ![old] = Renumbered(d)]}
      BY <1>0, <1>1, <1>8, FinishStages DEF OldUnref, Handling
    <2>2. d.msgs = cont[old].msgs /\ d.seq = cont[old].seq /\ d \in ContainerType
      <3>1. cont[old] \in ContainerType
        BY <1>1, <2>1
      <3>2. d \in ContainerType
        BY <3>1, DecrementedType
      <3>3. d.msgs = cont[old].msgs /\ d.seq = cont[old].seq
        BY <3>1 DEF Decremented, ContainerType
      <3> QED
        BY <3>2, <3>3
    <2> HIDE DEF d
    <2>3. Renumbered(d).msgs = d.msgs /\ Renumbered(d).seq = d.seq
      BY <2>2 DEF Renumbered, ContainerType
    <2>4. \A k \in Containers : NumberStays(k)
      BY <1>1, <2>1, <2>2, <2>3 DEF NumberStays
    <2> QED
      BY <1>2, <2>1, <2>4, NumberingKept
  <1>9. ASSUME NEW t \in Threads, OldClear(t) \/ ScanReclaim(t) PROVE Numbering'
    <2>1. /\ Stage' \in {"wipe", "rewipe"}
          /\ UNCHANGED <<active, empty, log, processed, accepted, bufferswitch, task>>
      BY <1>0, <1>9, FinishStages, TakeStages DEF OldClear, ScanReclaim
    <2>2. cont' = [cont EXCEPT ![old'] = Renewed(@)]
      BY <1>9 DEF OldClear, ScanReclaim
    <2>3. \A k \in Containers : NumberStays(k)
      <3> TAKE k \in Containers
      <3>1. cont'[k] = cont[k] \/ cont'[k] = Renewed(cont[k])
        BY <1>1, <2>2
      <3> QED
        BY <1>1, <3>1 DEF NumberStays, Renewed, ContainerType
    <2> QED
      BY <1>2, <2>1, <2>3, NumberingKept
  <1>10. ASSUME NEW t \in Threads, OldWipe(t) \/ ScanWipe(t) PROVE Numbering'
    <2>1. /\ Stage \in {"wipe", "rewipe"} /\ Stage' \in {"get", "scan"}
          /\ UNCHANGED <<active, log, processed, accepted, bufferswitch, task>>
          /\ empty' = Append(empty, old) /\ cont' = [cont EXCEPT ![old] = Wiped(@)]
      BY <1>0, <1>10, FinishStages, TakeStages DEF OldWipe, ScanWipe
    <2>2. old \in Containers /\ old # NoContainer
      BY <1>0, <1>1, <2>1 DEF Handling
    <2>3. \A i \in 1 .. Len(empty) : empty[i] # old
      BY <1>0, <2>1, <2>2 DEF Single, OutOfPlace
    <2>4. /\ \A k \in Containers : k # old => cont'[k] = cont[k]
          /\ cont'[old].msgs = <<>>
      BY <1>1, <2>1, <2>2 DEF Wiped
    <2>5. /\ \A i \in 1 .. Len(empty) : empty'[i] = empty[i]
          /\ empty'[Len(empty) + 1] = old
          /\ \A i \in 1 .. Len(empty') : i \in 1 .. Len(empty) \/ i = Len(empty) + 1
      BY <1>1, <2>1, <2>2, PushType
    <2>6. \A i \in 1 .. Len(empty') : cont'[empty'[i]].msgs = <<>>
      <3>1. \A i \in 1 .. Len(empty) : empty[i] \in Containers /\ cont[empty[i]].msgs = <<>>
        BY <1>1 DEF Numbering
      <3>2. \A i \in 1 .. Len(empty) : cont'[empty[i]].msgs = <<>>
        BY <2>3, <2>4, <3>1
      <3> QED
        BY <2>4, <2>5, <3>2
    <2>7. \A k \in Containers : Consecutive(k)'
      <3> TAKE k \in Containers
      <3>1. CASE k = old
        BY <2>4, <3>1, EmptySeq DEF Consecutive
      <3>2. CASE k # old
        BY <2>4, <3>2 DEF Consecutive, Numbering
      <3> QED
        BY <3>1, <3>2
    <2> QED
      BY <2>1, <2>6, <2>7 DEF Numbering
  <1>11. ASSUME NEW t \in Threads, SendStore(t) PROVE Numbering'
    <2>1. /\ Stage = "idle" /\ cont' = [cont EXCEPT ![active] = WithMessage(@)]
          /\ UNCHANGED <<active, empty, log, bufferswitch>> /\ accepted' = accepted + 1
          /\ AfterInsert(t)
      BY <1>0, <1>11, CallStages DEF SendStore
    <2>2. processed' = processed + 1 /\ UNCHANGED task /\ mtx' = "free"
      BY <1>2, <2>1 DEF AfterInsert, Unlock
    <2>3. Stage' = "idle"
      BY <2>2, StageFreed
    <2>4. \A i \in 1 .. Len(empty) : empty[i] # active
      BY <1>0 DEF Single
    <2>5. PICK r \in ContainerType : r = cont[active]
      BY <1>1
    <2>6. /\ r.seq + Len(r.msgs) = accepted
          /\ \A i \in 1 .. Len(r.msgs) : r.msgs[i] = r.seq + i
      BY <1>1, <2>1, <2>5 DEF Numbering, Consecutive
    <2>7. cont'[active] = WithMessage(r) /\ \A k \in Containers : k # active => cont'[k] = cont[k]
      BY <1>1, <2>1, <2>5
    <2>8. /\ cont'[active].seq + Len(cont'[active].msgs) = accepted + 1
          /\ Consecutive(active)'
      BY <1>1, <2>1, <2>6, <2>7, OneMore DEF Consecutive
    <2>9. \A k \in Containers : Consecutive(k)'
      <3> TAKE k \in Containers
      <3>1. CASE k = active
        BY <2>1, <2>8, <3>1 DEF Consecutive
      <3>2. CASE k # active
        BY <2>7, <3>2 DEF Consecutive, Numbering
      <3> QED
        BY <3>1, <3>2
    <2>10. \A i \in 1 .. Len(empty') : cont'[empty'[i]].msgs = <<>>
      BY <1>1, <2>1, <2>4, <2>7 DEF Numbering
    <2> QED
      BY <1>1, <1>2, <2>1, <2>2, <2>3, <2>8, <2>9, <2>10 DEF Numbering
  <1>12. ASSUME NEW t \in Threads, TakeForSend(t) \/ TakeForSwitch(t) \/ TakeForFlush(t)
         PROVE  Numbering'
    <2>1. /\ empty # <<>> /\ active' = Last(empty) /\ empty' = Front(empty)
          /\ UNCHANGED <<log, bufferswitch>> /\ ~TakeForSwitch(t)
      BY <1>2, <1>12 DEF TakeForSend, TakeForSwitch, TakeForFlush, TakeEmpty
    <2>2. PICK a \in Containers : a = active'
      BY <1>1, <2>1, PopType
    <2>3. /\ \A i \in 1 .. Len(empty') : i \in 1 .. Len(empty) /\ i # Len(empty)
          /\ \A i \in 1 .. Len(empty') : empty'[i] = empty[i]
          /\ Len(empty) \in 1 .. Len(empty) /\ a = empty[Len(empty)]
      <3>1. /\ Len(empty) \in Nat \ {0} /\ Len(empty') = Len(empty) - 1 /\ a = empty[Len(empty)]
            /\ \A i \in 1 .. Len(empty) - 1 : empty'[i] = empty[i]
        BY <1>1, <2>1, <2>2, PopType
      <3> QED
        BY <1>1, <3>1
    <2>4. \A i \in 1 .. Len(empty') : empty'[i] # a
      BY <1>0, <2>3 DEF Single
    <2> DEFINE r == [cont[a] EXCEPT !.seq = processed]
    <2>5. r \in ContainerType /\ r.seq = accepted /\ r.msgs = cont[a].msgs
      BY <1>1, <1>2, NumberedType DEF ContainerType
    <2>6. cont[a].msgs = <<>>
      BY <2>3 DEF Numbering
    <2>7. /\ r.seq + Len(r.msgs) = accepted
          /\ \A i \in 1 .. Len(r.msgs) : r.msgs[i] = r.seq + i
      BY <1>1, <2>5, <2>6, EmptySeq
    <2>8. \/ cont' = [cont EXCEPT ![a] = WithMessage(r)] /\ accepted' = accepted + 1
             /\ processed' = processed + 1
          \/ cont' = [cont EXCEPT ![a] = r] /\ UNCHANGED <<accepted, processed>>
      BY <1>1, <1>2, <1>12, <2>1, <2>2 DEF TakeForSend, TakeForFlush, AfterInsert
    <2>9. mtx' = "free" /\ UNCHANGED task
      BY <1>2, <1>12, <2>1 DEF TakeForSend, TakeForFlush, AfterInsert, Unlock
    <2>10. Stage' = "idle"
      BY <2>9, StageFreed
    <2> HIDE DEF r
    <2>11. \A k \in Containers : k # a => cont'[k] = cont[k]
      BY <1>1, <2>8
    <2>12. cont'[a].seq + Len(cont'[a].msgs) = accepted' /\ Consecutive(a)' /\ processed' = accepted'
      <3>1. CASE cont' = [cont EXCEPT ![a] = WithMessage(r)] /\ accepted' = accepted + 1
                 /\ processed' = processed + 1
        <4>1. cont'[a] = WithMessage(r)
          BY <1>1, <3>1
        <4>2. /\ cont'[a].seq + Len(cont'[a].msgs) = accepted'
              /\ \A i \in 1 .. Len(cont'[a].msgs) : cont'[a].msgs[i] = cont'[a].seq + i
          BY <1>1, <2>5, <2>7, <3>1, <4>1, OneMore
        <4> QED
          BY <1>2, <3>1, <4>2 DEF Consecutive
      <3>2. CASE cont' = [cont EXCEPT ![a] = r] /\ UNCHANGED <<accepted, processed>>
        <4>1. cont'[a] = r
          BY <1>1, <3>2
        <4> QED
          BY <1>2, <2>7, <3>2, <4>1 DEF Consecutive
      <3> QED
        BY <2>8, <3>1, <3>2
    <2>13. \A k \in Containers : Consecutive(k)'
      <3> TAKE k \in Containers
      <3>1. CASE k = a
        BY <2>12, <3>1 DEF Consecutive
      <3>2. CASE k # a
        BY <2>11, <3>2 DEF Consecutive, Numbering
      <3> QED
        BY <3>1, <3>2
    <2>14. \A i \in 1 .. Len(empty') : cont'[empty'[i]].msgs = <<>>
      BY <1>1, <2>3, <2>4, <2>11 DEF Numbering
    <2>15. cont'[active'].seq + Len(cont'[active'].msgs) = accepted'
      BY <2>2, <2>12
    <2> QED
      BY <1>2, <2>1, <2>9, <2>10, <2>12, <2>13, <2>14, <2>15 DEF Numbering
  <1>13. ASSUME \/ \E c \in Clients : AcceptPeer(c)
                \/ AcceptStep \/ TerminateCall \/ TerminateStep
         PROVE  Numbering'
    <2>1. Stage' = Stage
      BY <1>0, <1>13, OtherStages
    <2>2. UNCHANGED <<cont, active, empty, log, processed, accepted, bufferswitch, task>>
      BY <1>13 DEF AcceptPeer, AcceptStep, AcceptTop, AcceptLock, AcceptRefuse, AcceptList,
         AcceptCount, TerminateCall, TerminateStep, TerminateDrained, TerminateSet, threadVars
    <2> QED
      BY <1>2, <2>1, <2>2, NumberingKept DEF NumberStays
  <1>14. ~SetBufferSwitch
    BY <1>2 DEF SetBufferSwitch
  <1>15. \A t \in Threads : ~(FinishRepeat(t) \/ FinishYield(t) \/ FinishRelock(t))
    BY <1>0, FinishStages
  <1> QED
    BY <1>3, <1>4, <1>5, <1>6, <1>7, <1>8, <1>9, <1>10, <1>11, <1>12, <1>13, <1>14, <1>15
    DEF SharedStep, ThreadStep

LEMMA NumberingPeer ==
  ASSUME Structure, Numbering, NEW c \in Clients, PeerStep(c)
  PROVE  Numbering'
  <1>1. UNCHANGED <<active, empty, log, processed, accepted, bufferswitch, task>> /\ Stage' = Stage
    BY PeerFrame, PeerQuiet DEF threadVars
  <1>2. \A k \in Containers : NumberStays(k)
    BY PeerCont DEF Structure, NumberStays
  <1> QED
    BY <1>1, <1>2, NumberingKept DEF Numbering

-----------------------------------------------------------------------------
(* The clients' accounts.  A client goes forward, whoever moves.           *)
LEMMA ForwardShared ==
  ASSUME Structure, Forward, SharedStep, UNCHANGED peerVars
  PROVE  Forward'
  <1>0. SenderTypeOK /\ SenderTypeOK' /\ Counted
    BY TypeStep DEF Next, Structure, TypeOK
  <1>1. head' \in {head, head + 1} /\ head \in Nat
    BY <1>0 DEF SenderTypeOK, SharedStep, SendCall, FlushCall, AutoFlushCall, ThreadStep,
       SendStore, SendFull, FlushLocked, FinishHeader, FinishRepeat, FinishYield, FinishRelock,
       RingStore, RingPublish, RingAdvanceTail, OldPeek, OldUnref, OldClear, OldWipe, ScanBegin,
       ScanLook, ScanReclaim, ScanWipe, ScanEnd, TakeForSend, TakeForSwitch, TakeForFlush,
       AcceptPeer, AcceptStep, AcceptTop, AcceptLock, AcceptRefuse, AcceptList, AcceptCount,
       TerminateCall, TerminateStep, TerminateDrained, TerminateSet, SetBufferSwitch, mbufVars
  <1>2. \/ UNCHANGED <<st, cid>>
        \/ acc = "negotiate" /\ st' = [st EXCEPT ![accClient] = "top"] /\ UNCHANGED cid
        \/ /\ acc \in {"lock", "negotiate"} /\ UNCHANGED <<st, head>>
           /\ \E n \in {0, head} : cid' = [cid EXCEPT ![accClient] = n]
    BY DEF SharedStep, SendCall, FlushCall, AutoFlushCall, ThreadStep, SendStore, SendFull,
       FlushLocked, FinishHeader, FinishRepeat, FinishYield, FinishRelock, RingStore,
       RingPublish, RingAdvanceTail, OldPeek, OldUnref, OldClear, OldWipe, ScanBegin, ScanLook,
       ScanReclaim, ScanWipe, ScanEnd, TakeForSend, TakeForSwitch, TakeForFlush, AcceptPeer,
       AcceptStep, AcceptTop, AcceptLock, AcceptRefuse, AcceptList, AcceptCount, TerminateCall,
       TerminateStep, TerminateDrained, TerminateSet, SetBufferSwitch, clientVars, mbufVars
  <1>3. acc \in {"lock", "negotiate"} => st[accClient] = "off" /\ accClient \in Clients
    BY <1>0 DEF Counted
  <1>4. st \in [Clients -> ClientStates] /\ cid \in [Clients -> Nat]
    BY <1>0 DEF SenderTypeOK
  <1> SUFFICES ASSUME NEW c \in Clients
               PROVE  /\ cid'[c] <= head'
                      /\ st'[c] \in {"acquire", "verify", "send", "release", "next"} =>
                           cid'[c] < head'
                      /\ st'[c] = "off" => sent[c] = <<>>
                      /\ sent[c] = <<>> => nextSeq[c] = -1 /\ skipped[c] = 0
                      /\ sent[c] # <<>> => sent[c][1].id <= cid'[c]
    BY DEF Forward, peerVars
  <1>5. /\ cid[c] <= head
        /\ st[c] \in {"acquire", "verify", "send", "release", "next"} => cid[c] < head
        /\ st[c] = "off" => sent[c] = <<>>
        /\ sent[c] = <<>> => nextSeq[c] = -1 /\ skipped[c] = 0
        /\ sent[c] # <<>> => sent[c][1].id <= cid[c]
    BY DEF Forward
  <1>6. CASE cid'[c] = cid[c] /\ (st'[c] = st[c] \/ st'[c] = "top")
    <2>1. PICK h \in Nat, i \in Nat : h = head /\ i = cid[c]
      BY <1>1, <1>4
    <2>2. i <= head' /\ (i < h => i < head')
      BY <1>1, <1>5, <2>1
    <2> QED
      BY <1>5, <1>6, <2>1, <2>2
  <1>7. CASE st'[c] = st[c] /\ st[c] = "off" /\ cid'[c] \in {0, head} /\ head' = head
    BY <1>1, <1>5, <1>7
  <1>8. (cid'[c] = cid[c] /\ (st'[c] = st[c] \/ st'[c] = "top"))
        \/ (st'[c] = st[c] /\ st[c] = "off" /\ cid'[c] \in {0, head} /\ head' = head)
    BY <1>2, <1>3, <1>4
  <1> QED
    BY <1>6, <1>7, <1>8

(* Appending one container to what a client was sent.                      *)
LEMMA SentOneMore ==
  ASSUME NEW s \in Seq([id : Nat, msgs : Seq(Nat)]), NEW e \in [id : Nat, msgs : Seq(Nat)]
  PROVE  /\ Append(s, e) # <<>>
         /\ s # <<>> => Append(s, e)[1] = s[1]
         /\ s = <<>> => Append(s, e)[1] = e
  <1>1. /\ Len(s) \in Nat /\ Len(Append(s, e)) = Len(s) + 1 /\ Append(s, e)[Len(s) + 1] = e
        /\ \A i \in 1 .. Len(s) : Append(s, e)[i] = s[i]
    BY AppendProperties
  <1>2. s # <<>> => 1 \in 1 .. Len(s)
    BY <1>1, EmptySeq
  <1>3. s = <<>> => Len(s) = 0
    BY EmptySeq
  <1>4. Append(s, e) # <<>>
    <2>1. Len(Append(s, e)) # 0
      BY <1>1
    <2> QED
      BY <2>1, EmptySeq
  <1> QED
    BY <1>1, <1>2, <1>3, <1>4

LEMMA FirstSent ==
  ASSUME NEW s \in Seq([id : Nat, msgs : Seq(Nat)]), s # <<>>
  PROVE  s[1].id \in Nat
  <1>1. Len(s) \in Nat /\ Len(s) # 0
    BY LenProperties, EmptySeq
  <1>2. 1 \in 1 .. Len(s)
    BY <1>1
  <1>3. s[1] \in [id : Nat, msgs : Seq(Nat)]
    BY <1>2, ElementOfSeq
  <1> QED
    BY <1>3

LEMMA ForwardPeer ==
  ASSUME Structure, Forward, NEW c \in Clients, PeerStep(c)
  PROVE  Forward'
  <1>0. TypeOK /\ SenderTypeOK /\ TypeOK' /\ head' = head
    BY TypeStep, PeerFrame DEF Next, Structure, TypeOK
  <1>1. /\ st \in [Clients -> ClientStates] /\ cid \in [Clients -> Nat] /\ head \in Nat
        /\ sent \in [Clients -> Seq([id : Nat, msgs : Seq(Nat)])]
        /\ nextSeq \in [Clients -> Nat \cup {-1}] /\ skipped \in [Clients -> Int]
    BY <1>0 DEF TypeOK, SenderTypeOK
  <1>2. \A d \in Clients :
          /\ cid[d] <= head
          /\ st[d] \in {"acquire", "verify", "send", "release", "next"} => cid[d] < head
          /\ st[d] = "off" => sent[d] = <<>>
          /\ sent[d] = <<>> => nextSeq[d] = -1 /\ skipped[d] = 0
          /\ sent[d] # <<>> => sent[d][1].id <= cid[d]
    BY DEF Forward
  <1> SUFFICES ASSUME NEW d \in Clients
               PROVE  /\ cid'[d] <= head
                      /\ st'[d] \in {"acquire", "verify", "send", "release", "next"} =>
                           cid'[d] < head
                      /\ st'[d] = "off" => sent'[d] = <<>>
                      /\ sent'[d] = <<>> => nextSeq'[d] = -1 /\ skipped'[d] = 0
                      /\ sent'[d] # <<>> => sent'[d][1].id <= cid'[d]
    BY <1>0 DEF Forward
  <1>3. CASE d # c
    BY <1>1, <1>2, <1>3
    DEF PeerStep, PeerTop, PeerPick, PeerAcquire, PeerVerify, PeerGiveUp, PeerSkip, PeerSent,
        PeerBroken, PeerRelease, PeerNext, PeerJump, PeerLeave, Disconnect, peerVars, SetState,
        Tally
  <1>4. CASE d = c
    <2>1. CASE PeerSent(c)
      <3> DEFINE e == [id |-> cid[c], msgs |-> cont[tcont[c]].msgs]
      <3>1. /\ st[c] = "send" /\ st'[c] = "release" /\ cid' = cid
            /\ sent'[c] = Append(sent[c], e)
        BY <1>1, <2>1 DEF PeerSent, SetState
      <3>2. e \in [id : Nat, msgs : Seq(Nat)]
        <4>1. tcont[c] \in Containers /\ cont \in [Containers -> ContainerType]
          BY <1>0, <3>1 DEF Structure, Serving, SenderTypeOK
        <4> QED
          BY <1>1, <4>1, ContainerFields
      <3>3. e.id = cid[c]
        OBVIOUS
      <3> HIDE DEF e
      <3>4. /\ sent'[c] # <<>>
            /\ sent[c] # <<>> => sent'[c][1] = sent[c][1]
            /\ sent[c] = <<>> => sent'[c][1] = e
        <4>1. sent[c] \in Seq([id : Nat, msgs : Seq(Nat)])
          BY <1>1
        <4>2. /\ Append(sent[c], e) # <<>>
              /\ sent[c] # <<>> => Append(sent[c], e)[1] = sent[c][1]
              /\ sent[c] = <<>> => Append(sent[c], e)[1] = e
          BY <3>2, <4>1, SentOneMore, Zenon
        <4> QED
          BY <3>1, <4>2, Zenon
      <3>5. sent'[c][1].id <= cid[c]
        BY <1>1, <1>2, <3>3, <3>4
      <3> QED
        BY <1>1, <1>2, <1>4, <3>1, <3>4, <3>5
    <2>2. CASE PeerNext(c)
      <3>1. /\ st[c] = "next" /\ UNCHANGED <<sent, nextSeq, skipped>>
            /\ \/ st'[c] = "jump" /\ cid'[c] = cid[c]
               \/ st'[c] = "top" /\ cid'[c] = cid[c] + 1
        BY <1>1, <2>2 DEF PeerNext, SetState, peerVars
      <3>2. PICK i \in Nat : i = cid[c] /\ i < head
        BY <1>1, <1>2, <3>1
      <3>3. cid'[c] \in Nat /\ cid'[c] <= head /\ cid'[c] >= cid[c]
        BY <1>1, <3>1, <3>2
      <3>4. sent[c] # <<>> => sent[c][1].id <= cid'[c]
        <4>1. sent[c] # <<>> => sent[c][1].id \in Nat
          BY <1>1, FirstSent
        <4> QED
          BY <1>1, <1>2, <3>3, <4>1
      <3> QED
        BY <1>2, <1>4, <3>1, <3>3, <3>4
    <2>3. CASE PeerSkip(c) \/ PeerJump(c)
      <3>1. /\ st[c] \in {"skip", "jump"} /\ UNCHANGED <<sent, nextSeq, skipped>>
            /\ st'[c] \in {"poll", "top"} /\ cid'[c] = head
        BY <1>1, <2>3 DEF PeerSkip, PeerJump, SetState, peerVars
      <3>2. sent[c] # <<>> => sent[c][1].id <= head
        <4>1. sent[c] # <<>> => sent[c][1].id \in Nat
          BY <1>1, FirstSent
        <4> QED
          BY <1>1, <1>2, <4>1
      <3> QED
        BY <1>1, <1>2, <1>4, <3>1, <3>2
    <2>4. CASE PeerLeave(c)
      <3>1. /\ st'[c] = "off" /\ cid'[c] = 0 /\ sent'[c] = <<>>
            /\ nextSeq'[c] = -1 /\ skipped'[c] = 0
        BY <1>1, <2>4 DEF PeerLeave, Disconnect
      <3> QED
        BY <1>1, <1>4, <3>1
    <2>5. CASE PeerPick(c)
      <3>1. /\ UNCHANGED <<sent, nextSeq, skipped, cid>> /\ st'[c] = "acquire" /\ cid[c] < head
        BY <1>1, <2>5 DEF PeerPick, SetState, Ready
      <3> QED
        BY <1>2, <1>4, <3>1
    <2>6. CASE \/ PeerTop(c) \/ PeerAcquire(c) \/ PeerVerify(c) \/ PeerGiveUp(c)
               \/ PeerBroken(c) \/ PeerRelease(c)
      <3>1. /\ UNCHANGED <<sent, nextSeq, skipped, cid>> /\ st'[c] # "off"
            /\ \/ st'[c] \notin {"acquire", "verify", "send", "release", "next"}
               \/ st[c] \in {"acquire", "verify", "send", "release", "next"}
        BY <1>1, <2>6 DEF PeerTop, PeerAcquire, PeerVerify, PeerGiveUp, PeerBroken, PeerRelease,
           SetState, peerVars
      <3> QED
        BY <1>2, <1>4, <3>1
    <2> QED
      BY <2>1, <2>2, <2>3, <2>4, <2>5, <2>6 DEF PeerStep
  <1> QED
    BY <1>3, <1>4

(* The account is kept by the sequence numbers of the containers sent, and *)
(* those are the numbers of their messages.                                *)
LEMMA ConcatEnds ==
  ASSUME NEW s \in Seq(Nat), NEW m \in Seq(Nat), m # <<>>
  PROVE  /\ s \o m \in Seq(Nat) /\ s \o m # <<>>
         /\ Len(s \o m) = Len(s) + Len(m) /\ Last(s \o m) = m[Len(m)]
         /\ s # <<>> => (s \o m)[1] = s[1]
         /\ s = <<>> => s \o m = m
  <1>1. /\ Len(s) \in Nat /\ Len(m) \in Nat /\ Len(m) # 0 /\ s \o m \in Seq(Nat)
        /\ Len(s \o m) = Len(s) + Len(m)
    BY EmptySeq, ConcatProperties
  <1>2. Len(s) + Len(m) \in 1 .. Len(s) + Len(m) /\ ~(Len(s) + Len(m) <= Len(s))
    BY <1>1
  <1>3. (s \o m)[Len(s) + Len(m)] = m[Len(m)]
    BY <1>1, <1>2
  <1>4. s # <<>> => (s \o m)[1] = s[1]
    <2>1. s # <<>> => 1 \in 1 .. Len(s)
      BY <1>1, EmptySeq
    <2> QED
      BY <1>1, <2>1
  <1>5. s \o m # <<>>
    BY <1>1, EmptySeq
  <1>6. s = <<>> => s \o m = m
    OBVIOUS
  <1> QED
    BY <1>1, <1>3, <1>4, <1>5, <1>6 DEF Last

Msgs(s) == [i \in DOMAIN s |-> s[i].msgs]

LEMMA MsgsAppend ==
  ASSUME NEW s \in Seq([id : Nat, msgs : Seq(Nat)]), NEW e \in [id : Nat, msgs : Seq(Nat)]
  PROVE  /\ FlattenSeq(Msgs(s)) \in Seq(Nat)
         /\ FlattenSeq(Msgs(Append(s, e))) = FlattenSeq(Msgs(s)) \o e.msgs
         /\ s = <<>> => FlattenSeq(Msgs(s)) = <<>>
  <1>1. /\ Len(s) \in Nat /\ DOMAIN s = 1 .. Len(s) /\ e.msgs \in Seq(Nat)
        /\ \A i \in 1 .. Len(s) : s[i].msgs \in Seq(Nat)
    <2>1. \A i \in 1 .. Len(s) : s[i] \in [id : Nat, msgs : Seq(Nat)]
      BY ElementOfSeq
    <2> QED
      BY <2>1, LenProperties
  <1>2. Msgs(s) \in Seq(Seq(Nat)) /\ Len(Msgs(s)) = Len(s)
    BY <1>1, IsASeq DEF Msgs
  <1>3. /\ Append(s, e) \in Seq([id : Nat, msgs : Seq(Nat)]) /\ Len(Append(s, e)) = Len(s) + 1
        /\ DOMAIN Append(s, e) = 1 .. Len(s) + 1 /\ Append(s, e)[Len(s) + 1] = e
        /\ \A i \in 1 .. Len(s) : Append(s, e)[i] = s[i]
    BY <1>1, AppendProperties, LenProperties
  <1> DEFINE l == Msgs(Append(s, e))
             r == Append(Msgs(s), e.msgs)
  <1>4. l = [i \in 1 .. Len(s) + 1 |-> Append(s, e)[i].msgs]
    BY <1>3 DEF Msgs
  <1>5. \A i \in 1 .. Len(s) + 1 :
          l[i] \in Seq(Nat) /\ l[i] = IF i = Len(s) + 1 THEN e.msgs ELSE s[i].msgs
    BY <1>1, <1>3, <1>4
  <1>6. l \in Seq(Seq(Nat)) /\ Len(l) = Len(s) + 1
    BY <1>1, <1>4, <1>5, IsASeq
  <1>7. /\ r \in Seq(Seq(Nat)) /\ Len(r) = Len(s) + 1 /\ r[Len(s) + 1] = e.msgs
        /\ \A i \in 1 .. Len(s) : r[i] = Msgs(s)[i]
    BY <1>1, <1>2, AppendProperties
  <1>8. \A i \in 1 .. Len(s) : Msgs(s)[i] = s[i].msgs
    BY <1>1 DEF Msgs
  <1> HIDE DEF l, r
  <1>9. l = r
    <2>1. \A i \in 1 .. Len(s) + 1 : i = Len(s) + 1 \/ i \in 1 .. Len(s)
      BY <1>1
    <2>2. \A i \in 1 .. Len(s) : i # Len(s) + 1 /\ i \in 1 .. Len(s) + 1
      BY <1>1
    <2>3. Len(s) + 1 \in 1 .. Len(s) + 1
      BY <1>1
    <2>4. l[Len(s) + 1] = r[Len(s) + 1]
      BY <1>5, <1>7, <2>3
    <2>5. \A i \in 1 .. Len(s) : l[i] = r[i]
      BY <1>5, <1>7, <1>8, <2>2
    <2>6. \A i \in 1 .. Len(l) : l[i] = r[i]
      BY <1>6, <2>1, <2>4, <2>5, Zenon
    <2> QED
      BY <1>6, <1>7, <2>6, SeqEqual
  <1>10. FlattenSeq(r) = FlattenSeq(Msgs(s)) \o e.msgs
    BY <1>1, <1>2, FlattenAppend DEF r
  <1>11. FlattenSeq(Msgs(s)) \in Seq(Nat)
    BY <1>2, FlattenType
  <1>12. s = <<>> => FlattenSeq(Msgs(s)) = <<>>
    <2>1. s = <<>> => Msgs(s) = <<>>
      BY <1>1, <1>2, EmptySeq
    <2> QED
      BY <2>1, EmptySeq DEF FlattenSeq
  <1> QED
    BY <1>9, <1>10, <1>11, <1>12 DEF l

(* The arithmetic of skipped_messages.                                     *)
LEMMA AccountAdds ==
  ASSUME NEW f \in Seq(Nat), NEW m \in Seq(Nat), m # <<>>, NEW q \in Nat,
         \A i \in 1 .. Len(m) : m[i] = q + i
  PROVE  /\ Last(f \o m) = q + Len(m) /\ f \o m # <<>>
         /\ f = <<>> => 0 = (q + Len(m)) - (f \o m)[1] + 1 - Len(f \o m)
         /\ f # <<>> => \A k \in Int :
              k = Last(f) - f[1] + 1 - Len(f) =>
                k + (q - Last(f)) = (q + Len(m)) - (f \o m)[1] + 1 - Len(f \o m)
  <1>1. Len(m) \in Nat /\ Len(m) # 0 /\ Len(f) \in Nat
    BY EmptySeq
  <1>2. 1 \in 1 .. Len(m) /\ Len(m) \in 1 .. Len(m)
    BY <1>1
  <1>3. m[1] = q + 1 /\ m[Len(m)] = q + Len(m)
    BY <1>2
  <1>4. f # <<>> => f[1] \in Nat /\ Last(f) \in Nat
    <2>1. f # <<>> => 1 \in 1 .. Len(f) /\ Len(f) \in 1 .. Len(f)
      BY <1>1, EmptySeq
    <2> QED
      BY <2>1, ElementOfSeq DEF Last
  <1>5. /\ Last(f \o m) = q + Len(m) /\ f \o m # <<>> /\ Len(f \o m) = Len(f) + Len(m)
        /\ f # <<>> => (f \o m)[1] = f[1]
        /\ f = <<>> => f \o m = m
    BY <1>3, ConcatEnds
  <1>6. f = <<>> => 0 = (q + Len(m)) - (f \o m)[1] + 1 - Len(f \o m)
    <2>1. f = <<>> => (f \o m)[1] = q + 1 /\ Len(f \o m) = Len(m)
      BY <1>3, <1>5
    <2> QED
      BY <1>1, <2>1
  <1>7. ASSUME f # <<>>, NEW k \in Int, k = Last(f) - f[1] + 1 - Len(f)
        PROVE  k + (q - Last(f)) = (q + Len(m)) - (f \o m)[1] + 1 - Len(f \o m)
    <2>1. PICK a \in Nat, z \in Nat, n \in Nat, p \in Nat :
            a = f[1] /\ z = Last(f) /\ n = Len(f) /\ p = Len(m)
      BY <1>1, <1>4, <1>7
    <2>2. (f \o m)[1] = a /\ Len(f \o m) = n + p
      BY <1>5, <1>7, <2>1
    <2>3. k = z - a + 1 - n
      BY <1>7, <2>1
    <2>4. k + (q - z) = (q + p) - a + 1 - (n + p)
      BY <2>3
    <2> QED
      BY <2>1, <2>2, <2>4
  <1> QED
    BY <1>5, <1>6, <1>7

LEMMA AccountedPeer ==
  ASSUME Inv, Numbering, Forward, ~missed, NEW c \in Clients, PeerStep(c),
         NEW d \in Clients, Accounted(d)
  PROVE  Accounted(d)'
  <1>0. TypeOK /\ SenderTypeOK /\ Serving /\ Contents
    BY DEF Inv, Structure, TypeOK
  <1>1. /\ sent \in [Clients -> Seq([id : Nat, msgs : Seq(Nat)])] /\ cid \in [Clients -> Nat]
        /\ nextSeq \in [Clients -> Nat \cup {-1}] /\ skipped \in [Clients -> Int]
        /\ cont \in [Containers -> ContainerType] /\ head \in Nat
    BY <1>0 DEF TypeOK, SenderTypeOK
  <1>2. CASE sent'[d] = sent[d] /\ nextSeq'[d] = nextSeq[d] /\ skipped'[d] = skipped[d]
    BY <1>2 DEF Accounted, SentMsgs
  <1>3. CASE sent'[d] = <<>>
    BY <1>3 DEF Accounted
  <1>4. CASE PeerSent(c) /\ d = c
    <2> SUFFICES ASSUME sent'[c] # <<>>, sent'[c][1].id # 0 PROVE Accounted(c)'
      BY <1>4 DEF Accounted
    <2> DEFINE e == [id |-> cid[c], msgs |-> cont[tcont[c]].msgs]
    <2>1. tcont[c] \in Containers /\ st[c] = "send"
      BY <1>0, <1>4 DEF PeerSent, Serving
    <2>2. PICK k \in Containers : k = tcont[c]
      BY <2>1
    <2>3. PICK m \in Seq(Nat), q \in Nat : m = cont[k].msgs /\ q = cont[k].seq
      BY <1>1, ContainerFields
    <2>4. PICK s \in Seq([id : Nat, msgs : Seq(Nat)]) : s = sent[c]
      BY <1>1
    <2>5. /\ sent'[c] = Append(s, e) /\ e \in [id : Nat, msgs : Seq(Nat)]
          /\ e.id = cid[c] /\ e.msgs = m
          /\ nextSeq'[c] = q + Len(m)
          /\ skipped'[c] = skipped[c] + IF nextSeq[c] = -1 THEN 0 ELSE q - nextSeq[c]
      BY <1>1, <1>4, <2>2, <2>3, <2>4 DEF PeerSent, Tally
    <2> HIDE DEF e
    <2>6. cid[c] # 0
      <3>1. CASE s = <<>>
        <4>1. sent'[c][1] = e
          BY <2>5, <3>1, SentOneMore
        <4> QED
          BY <2>5, <4>1
      <3>2. CASE s # <<>>
        <4>1. sent'[c][1] = s[1] /\ s[1].id \in Nat
          BY <2>5, <3>2, SentOneMore, FirstSent
        <4>2. s[1].id <= cid[c]
          BY <2>4, <3>2 DEF Forward
        <4> QED
          BY <1>1, <4>1, <4>2
      <3> QED
        BY <3>1, <3>2
    <2>7. m # <<>>
      <3>1. Published(k)
        BY <2>1, <2>2, <2>6 DEF Inv, Untouched, Whole, Unharmed
      <3>2. cont[k].idx + 1 \in 1 .. Len(log) /\ m = log[cont[k].idx + 1]
        <4>1. cont[k].idx \in 0 .. head - 1 /\ cont[k].msgs = log[cont[k].idx + 1]
          BY <3>1 DEF Published
        <4>2. Len(log) = head /\ head \in Nat
          BY <1>0, <1>1 DEF Contents
        <4> QED
          BY <2>3, <4>1, <4>2
      <3> QED
        BY <3>2 DEF Numbering
    <2>8. \A i \in 1 .. Len(m) : m[i] = q + i
      BY <2>3 DEF Numbering, Consecutive
    <2>9. PICK f \in Seq(Nat) : f = SentMsgs(c) /\ (s = <<>> => f = <<>>)
      BY <2>4, <2>5, MsgsAppend DEF SentMsgs, Msgs
    <2>10. SentMsgs(c)' = f \o m
      BY <2>4, <2>5, <2>9, MsgsAppend DEF SentMsgs, Msgs
    <2>11. /\ Last(f \o m) = q + Len(m) /\ f \o m # <<>>
           /\ f = <<>> => 0 = (q + Len(m)) - (f \o m)[1] + 1 - Len(f \o m)
           /\ f # <<>> => \A n \in Int :
                n = Last(f) - f[1] + 1 - Len(f) =>
                  n + (q - Last(f)) = (q + Len(m)) - (f \o m)[1] + 1 - Len(f \o m)
      BY <2>7, <2>8, AccountAdds
    <2>12. skipped'[c] = (q + Len(m)) - (f \o m)[1] + 1 - Len(f \o m)
      <3>1. CASE s = <<>>
        <4>1. nextSeq[c] = -1 /\ skipped[c] = 0
          BY <2>4, <3>1 DEF Forward
        <4> QED
          BY <2>5, <2>9, <2>11, <3>1, <4>1
      <3>2. CASE s # <<>>
        <4>1. s[1].id # 0
          BY <2>5, <3>2, SentOneMore
        <4>2. /\ f # <<>> /\ nextSeq[c] = Last(f)
              /\ skipped[c] = nextSeq[c] - f[1] + 1 - Len(f)
          BY <1>4, <2>4, <2>9, <3>2, <4>1 DEF Accounted
        <4>3. nextSeq[c] # -1
          <5>1. Len(f) \in 1 .. Len(f)
            BY <4>2, EmptySeq
          <5>2. Last(f) \in Nat
            BY <5>1, ElementOfSeq DEF Last
          <5> QED
            BY <4>2, <5>2
        <4>4. skipped[c] \in Int
          BY <1>1
        <4>5. skipped'[c] = skipped[c] + (q - Last(f))
          BY <2>5, <4>2, <4>3
        <4> QED
          BY <2>11, <4>2, <4>4, <4>5
      <3> QED
        BY <3>1, <3>2
    <2>13. SentMsgs(c)' # <<>> /\ nextSeq'[c] = Last(SentMsgs(c)')
      BY <2>5, <2>10, <2>11
    <2>14. skipped'[c] = nextSeq'[c] - SentMsgs(c)'[1] + 1 - Len(SentMsgs(c)')
      <3>1. nextSeq'[c] = q + Len(m)
        BY <2>5
      <3> QED
        BY <2>10, <2>12, <3>1, Zenon
    <2> QED
      BY <2>13, <2>14, Zenon DEF Accounted
  <1>5. \/ sent'[d] = sent[d] /\ nextSeq'[d] = nextSeq[d] /\ skipped'[d] = skipped[d]
        \/ sent'[d] = <<>>
        \/ PeerSent(c) /\ d = c
    BY <1>1
    DEF PeerStep, PeerTop, PeerPick, PeerAcquire, PeerVerify, PeerGiveUp, PeerSkip, PeerSent,
        PeerBroken, PeerRelease, PeerNext, PeerJump, PeerLeave, Disconnect, peerVars, Tally
  <1> QED
    BY <1>2, <1>3, <1>4, <1>5

LEMMA NumberingStutter ==
  ASSUME Numbering, Forward, UNCHANGED vars
  PROVE  Numbering' /\ Forward' /\ \A c \in Clients : Accounted(c) => Accounted(c)'
  BY DEF Numbering, Forward, Accounted, SentMsgs, Consecutive, Stage, vars, senderVars, mbufVars,
         threadVars, clientVars, ctlVars, historyVars, peerVars

LEMMA CountStep ==
  ASSUME BufferCount > 1, MaxClients <= 253, BufferSwitches = {1}, CountInv, [Next]_vars
  PROVE  CountInv'
  <1>0. Inv /\ Inv' /\ Structure /\ Numbering /\ Forward
    BY InvStep DEF CountInv, Inv
  <1>1. CASE SharedStep /\ UNCHANGED peerVars
    <2>1. Numbering' /\ Forward'
      BY <1>0, <1>1, NumberingShared, ForwardShared
    <2>2. ~missed' => \A c \in Clients : Accounted(c)'
      BY <1>1 DEF CountInv, Accounted, SentMsgs, peerVars
    <2> QED
      BY <1>0, <2>1, <2>2 DEF CountInv
  <1>2. ASSUME NEW c \in Clients, PeerStep(c) PROVE CountInv'
    <2>1. Numbering' /\ Forward'
      BY <1>0, <1>2, NumberingPeer, ForwardPeer
    <2>2. ~missed' => ~missed
      BY <1>0, <1>2
      DEF Inv, Structure, TypeOK, PeerStep, PeerTop, PeerPick, PeerAcquire, PeerVerify, PeerGiveUp,
          PeerSkip, PeerSent, PeerBroken, PeerRelease, PeerNext, PeerJump, PeerLeave, peerVars
    <2>3. ~missed' => \A d \in Clients : Accounted(d)'
      BY <1>0, <1>2, <2>2, AccountedPeer DEF CountInv
    <2> QED
      BY <1>0, <2>1, <2>3 DEF CountInv
  <1>3. CASE UNCHANGED vars
    <2>1. Numbering' /\ Forward' /\ \A c \in Clients : Accounted(c) => Accounted(c)'
      BY <1>0, <1>3, NumberingStutter
    <2>2. missed' = missed
      BY <1>3 DEF vars, peerVars
    <2> QED
      BY <1>0, <2>1, <2>2 DEF CountInv
  <1> QED
    BY <1>1, <1>2, <1>3 DEF Next

LEMMA CountInit ==
  ASSUME BufferSwitches = {1}, Init
  PROVE  CountInv
  <1>1. Inv /\ TypeOK /\ SenderTypeOK
    BY InvInit DEF Inv, Structure, TypeOK
  <1>2. /\ \A k \in Containers : cont[k].msgs = <<>> /\ cont[k].seq = 0
        /\ log = <<>> /\ head = 0 /\ processed = 0 /\ accepted = 0 /\ bufferswitch = 1
        /\ \A t \in Threads : task[t] # "switch"
        /\ mtx = "free"
    BY DEF Init, SenderInit
  <1>3. active \in Containers /\ \A i \in 1 .. Len(empty) : empty[i] \in Containers
    BY <1>1, ElementOfSeq DEF SenderTypeOK
  <1>4. Stage = "idle"
    BY <1>2, StageFree
  <1>5. \A k \in Containers : Consecutive(k)
    BY <1>2, EmptySeq DEF Consecutive
  <1>6. Numbering
    BY <1>2, <1>3, <1>4, <1>5, EmptySeq DEF Numbering
  <1>7. Forward
    BY <1>2 DEF Init, SenderInit, Forward
  <1>8. \A c \in Clients : Accounted(c)
    BY DEF Init, Accounted
  <1> QED
    BY <1>1, <1>6, <1>7, <1>8 DEF CountInv

LEMMA CountRight ==
  ASSUME TypeOK, Forward, \A c \in Clients : Accounted(c)
  PROVE  \A c \in Clients : SentMsgs(c) # <<>> /\ sent[c][1].id # 0 =>
           skipped[c] = Last(SentMsgs(c)) - SentMsgs(c)[1] + 1 - Len(SentMsgs(c))
  <1> TAKE c \in Clients
  <1>1. PICK s \in Seq([id : Nat, msgs : Seq(Nat)]) : s = sent[c]
    BY DEF TypeOK
  <1>2. SentMsgs(c) # <<>> => s # <<>>
    <2>1. [id |-> 0, msgs |-> <<>>] \in [id : Nat, msgs : Seq(Nat)]
      BY EmptySeq
    <2>2. s = <<>> => FlattenSeq(Msgs(s)) = <<>>
      BY <2>1, MsgsAppend
    <2> QED
      BY <1>1, <2>2 DEF SentMsgs, Msgs
  <1> QED
    BY <1>1, <1>2 DEF Accounted

(* send_non_blocking_mode counts in skipped_messages what it did not send: *)
(* while bufferswitch stays on and until a client comes too late, the      *)
(* counter is the length of the gaps between the messages sent.            *)
THEOREM SkippedRight ==
  ASSUME BufferCount > 1, MaxClients <= 253, BufferSwitches = {1}
  PROVE  Spec => []SkippedCounted
  <1>1. Init => CountInv
    BY CountInit
  <1>2. CountInv /\ [Next]_vars => CountInv'
    BY CountStep
  <1>3. CountInv => SkippedCounted
    BY CountRight DEF CountInv, Inv, Structure, SkippedCounted, SentMsgs
  <1> QED
    BY <1>1, <1>2, <1>3, PTL DEF Spec
=============================================================================
