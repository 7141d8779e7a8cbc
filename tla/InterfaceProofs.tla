--------------------------- MODULE InterfaceProofs ---------------------------
(***************************************************************************)
(* The output interface over TLS: the pool of containers is never empty    *)
(* when a storing thread needs one, whatever the clients do, as long as    *)
(* none of them comes too late or leaves with a reference.  Then the input *)
(* interface over TLS: what a call returns is one container's payload,     *)
(* whole, however often reading it was interrupted, as long as no read has *)
(* failed in a way that the code takes for bytes.  Then the file           *)
(* interface: the files hold what was accepted, in order, and a reader     *)
(* gets what they hold.                                                    *)
(***************************************************************************)
EXTENDS TlsSender, TlsReceiver, IfcFile, SenderNonBlockingProofs

(* The steps of this interface are those of the one over TCP, but for the  *)
(* client that leaves by an error the code does not expect.                *)
LEMMA TlsCases ==
  ASSUME TypeOK, TlsNext
  PROVE  \/ SharedStep /\ UNCHANGED <<peerVars, leaks>>
         \/ \E c \in Clients :
              \/ PeerStep(c) /\ ~(PeerBroken(c) /\ terminated) /\ leaks' = leaks
              \/ PeerStep(c) /\ leaks' = leaks + 1
              \/ TlsPeerUnhandled(c)
  <1>1. ASSUME NEW t \in Threads, TlsThread(t)
        PROVE  SharedStep /\ UNCHANGED <<peerVars, leaks>>
    BY <1>1 DEF TlsThread, TlsSend, TlsFlush, TlsAutoFlush, TlsFinish, TlsGetEmpty, SharedStep,
                ThreadStep
  <1>2. ASSUME NEW c \in Clients, TlsAcceptPeer(c)
        PROVE  SharedStep /\ UNCHANGED <<peerVars, leaks>>
    BY <1>2 DEF TlsAcceptPeer, SharedStep
  <1>3. ASSUME TlsAcceptLock \/ TlsHandshake \/ TlsAcceptCount \/ TlsTerminate \/ TlsSetBufferSwitch
        PROVE  SharedStep /\ UNCHANGED <<peerVars, leaks>>
    BY <1>3 DEF TlsAcceptLock, TlsHandshake, TlsAcceptCount, TlsTerminate, TlsSetBufferSwitch,
                SharedStep, AcceptStep
  <1>4. ASSUME NEW c \in Clients, TlsPeerStep(c)
        PROVE  \/ PeerStep(c) /\ ~(PeerBroken(c) /\ terminated) /\ leaks' = leaks
               \/ PeerStep(c) /\ leaks' = leaks + 1
               \/ TlsPeerUnhandled(c)
    <2>1. CASE TlsPeerLoop(c) /\ UNCHANGED leaks
      <3>1. PeerStep(c)
        BY <2>1 DEF TlsPeerLoop, PeerStep
      <3>2. ~(PeerBroken(c) /\ terminated)
        <4>1. SUFFICES ASSUME PeerBroken(c) PROVE FALSE
          OBVIOUS
        <4>2. st[c] = "send"
          BY <4>1 DEF PeerBroken
        <4> QED
          BY <2>1, <4>2 DEF TlsPeerLoop, PeerTop, PeerPick, PeerAcquire, PeerVerify, PeerGiveUp,
                            PeerSkip, PeerRelease, PeerNext, PeerJump
      <3> QED
        BY <2>1, <3>1, <3>2
    <2>2. CASE TlsPeerSend(c) /\ UNCHANGED leaks
      <3>1. PeerSent(c)
        BY <2>2 DEF TlsPeerSend
      <3>2. st' = [st EXCEPT ![c] = "release"] /\ st \in [Clients -> ClientStates]
        BY <3>1 DEF PeerSent, SetState, TypeOK, SenderTypeOK
      <3>3. ~PeerBroken(c)
        BY <3>2 DEF PeerBroken, SetState
      <3> QED
        BY <2>2, <3>1, <3>3 DEF PeerStep
    <2>3. CASE PeerLeave(c) /\ UNCHANGED leaks
      BY <2>3 DEF PeerStep, PeerLeave, Disconnect, PeerBroken
    <2>4. CASE TlsPeerBroken(c)
      BY <2>4 DEF TlsPeerBroken, PeerStep
    <2> QED
      BY <1>4, <2>1, <2>2, <2>3, <2>4 DEF TlsPeerStep
  <1> QED
    BY <1>1, <1>2, <1>3, <1>4 DEF TlsNext

-----------------------------------------------------------------------------
(* A client that leaves by such an error disturbs no container's place.    *)
LEMMA StructureUnhandled ==
  ASSUME Structure, NEW c \in Clients, TlsPeerUnhandled(c)
  PROVE  Structure'
  <1>0. TypeOK /\ SenderTypeOK /\ Mutex /\ NeverWaits /\ Serving /\ Handling /\ Single
        /\ Contents /\ Counted
    BY DEF Structure, TypeOK
  <1>1. /\ st[c] = "send" /\ st' = [st EXCEPT ![c] = "cleanup"]
        /\ tcont' = [tcont EXCEPT ![c] = NoContainer]
        /\ UNCHANGED <<cont, cid, nextSeq, skipped, sent, missed>>
        /\ UNCHANGED <<head, tail, slot, active, empty, deferred, processed, mtx, pc, task, old,
                       scan, lowest, connected, waiting, acc, accClient, bufferswitch,
                       terminated, term, drainFrom, log, accepted>>
    BY DEF TlsPeerUnhandled, SetState, OnlyPeer, threadVars, ctlVars, historyVars
  <1>2. st \in [Clients -> ClientStates] /\ tcont \in [Clients -> Containers \cup {NoContainer}]
    BY <1>0 DEF TypeOK, SenderTypeOK
  <1>3. st'[c] = "cleanup" /\ \A d \in Clients : d # c => st'[d] = st[d] /\ tcont'[d] = tcont[d]
    BY <1>1, <1>2
  <1>4. st' \in [Clients -> ClientStates] /\ tcont' \in [Clients -> Containers \cup {NoContainer}]
    BY <1>1, <1>2 DEF ClientStates
  <1>5. TypeOK'
    <2>1. SenderTypeOK'
      BY <1>0, <1>1, <1>4 DEF TypeOK, SenderTypeOK
    <2> QED
      BY <1>0, <1>1, <1>4, <2>1 DEF TypeOK
  <1>6. Mutex' /\ NeverWaits' /\ Stage' = Stage
    BY <1>0, <1>1 DEF Mutex, NeverWaits, Stage
  <1>7. Serving'
    BY <1>0, <1>3 DEF Serving
  <1>8. Handling' /\ Single' /\ Contents'
    <2>1. Handling' /\ Single'
      BY <1>0, <1>1, <1>6 DEF Handling, Single, At
    <2> QED
      BY <1>0, <1>1, <1>6, <2>1 DEF Contents, Published, Overtaken
  <1>9. Counted'
    <2>1. Listed' = Listed
      BY <1>1, <1>3 DEF Listed
    <2>2. acc \in {"lock", "negotiate"} => accClient \in Clients /\ accClient # c
      BY <1>0, <1>1 DEF Counted
    <2> QED
      BY <1>0, <1>1, <1>3, <2>1, <2>2 DEF Counted
  <1> QED
    BY <1>5, <1>6, <1>7, <1>8, <1>9 DEF Structure

-----------------------------------------------------------------------------
(* No container is lost.                                                   *)
LEMMA LostKept ==
  ASSUME NoneLost, PlacesKept,
         Stage \in OutOfPlace => Stage' \in OutOfPlace \/ old = NoContainer,
         Stage' \in Stored => Stage \in Stored
  PROVE  NoneLost'
  <1>1. NoContainer \notin Containers
    BY RingAssumption DEF Containers, NoContainer
  <1>2. ASSUME NEW k \in Containers PROVE Stowed(k)'
    <2>1. Stowed(k) /\ k # NoContainer
      BY <1>1 DEF NoneLost
    <2> QED
      BY <2>1 DEF Stowed, PlacesKept
  <1> QED
    BY <1>2 DEF NoneLost, PlacesKept

LEMMA LostShared ==
  ASSUME Structure, NoneLost, SharedStep
  PROVE  NoneLost'
  <1>0. TypeOK /\ SenderTypeOK /\ Mutex /\ NeverWaits /\ Handling /\ Single
    BY DEF Structure, TypeOK
  <1>1. /\ slot \in [RingSlots -> Containers \cup {NoContainer}] /\ head \in Nat
        /\ empty \in Seq(Containers) /\ deferred \in Seq(Containers)
        /\ Len(empty) \in Nat /\ Len(deferred) \in Nat
        /\ active \in Containers /\ old \in Containers \cup {NoContainer}
        /\ NoContainer \notin Containers
    BY <1>0, LenProperties, RingAssumption DEF SenderTypeOK, RingSlots, Containers, NoContainer
  <1>2. \A k \in Containers : Stowed(k)
    BY DEF NoneLost
  <1> USE DEF OutOfPlace, Stored
  <1>3. CASE Quiet
    BY <1>3, LostKept DEF Quiet
  <1>4. CASE Looks
    BY <1>4, LostKept DEF Looks
  <1>5. ASSUME NEW t \in Threads, SendStore(t) \/ FinishHeader(t) \/ RingPublish(t) \/ OldClear(t)
        PROVE  NoneLost'
    <2>1. PlacesKept
      BY <1>5 DEF SendStore, FinishHeader, RingPublish, OldClear, PlacesKept
    <2>2. \/ Stage = "idle" /\ Stage' \in {"idle", "finish"}
          \/ Stage = "finish" /\ Stage' = "store"
          \/ Stage = "publish" /\ Stage' = "full"
          \/ Stage = "clear" /\ Stage' = "wipe"
      BY <1>0, <1>5, CallStages, FinishStages
    <2> QED
      BY <2>1, <2>2, LostKept
  <1>6. ASSUME NEW t \in Threads, RingStore(t) PROVE NoneLost'
    <2> DEFINE i0 == head % BufferCount
    <2>1. /\ UNCHANGED <<empty, deferred, active>> /\ i0 \in RingSlots
          /\ old' = slot[i0] /\ slot' = [slot EXCEPT ![i0] = active]
          /\ Stage = "store" /\ Stage' = "publish"
      BY <1>0, <1>1, <1>6, FinishStages, SlotOf DEF RingStore, At
    <2> HIDE DEF i0
    <2>2. slot'[i0] = active' /\ \A j \in RingSlots : j # i0 => slot'[j] = slot[j]
      BY <1>1, <2>1
    <2>3. ASSUME NEW k \in Containers PROVE Stowed(k)'
      <3>1. CASE \E j \in RingSlots : slot[j] = k
        BY <2>1, <2>2, <3>1 DEF Stowed
      <3>2. CASE ~\E j \in RingSlots : slot[j] = k
        BY <1>2, <2>1, <3>2 DEF Stowed
      <3> QED
        BY <3>1, <3>2
    <2> QED
      BY <2>1, <2>2, <2>3 DEF NoneLost
  <1>7. ASSUME NEW t \in Threads, OldUnref(t) PROVE NoneLost'
    <2>1. Stage = "unref" /\ UNCHANGED <<slot, empty, active, old>> /\ old \in Containers
      BY <1>0, <1>7, FinishStages DEF OldUnref, Handling
    <2>2. CASE deferred' = deferred /\ Stage' = "clear"
      BY <2>1, <2>2, LostKept DEF PlacesKept
    <2>3. CASE deferred' = Append(deferred, old) /\ Stage' = "get"
      <3>1. /\ Len(deferred') = Len(deferred) + 1
            /\ \A i \in 1 .. Len(deferred) : deferred'[i] = deferred[i]
            /\ deferred'[Len(deferred) + 1] = old
        BY <1>1, <2>1, <2>3, PushType
      <3>2. /\ Len(deferred) + 1 \in 1 .. Len(deferred')
            /\ \A i \in 1 .. Len(deferred) : i \in 1 .. Len(deferred')
        BY <1>1, <3>1
      <3>3. ASSUME NEW k \in Containers PROVE Stowed(k)'
        <4>1. CASE k = old
          BY <3>1, <3>2, <4>1 DEF Stowed
        <4>2. CASE \E i \in 1 .. Len(deferred) : deferred[i] = k
          BY <3>1, <3>2, <4>2 DEF Stowed
        <4>3. CASE k # old /\ ~\E i \in 1 .. Len(deferred) : deferred[i] = k
          BY <1>2, <2>1, <4>3 DEF Stowed
        <4> QED
          BY <4>1, <4>2, <4>3
      <3> QED
        BY <2>1, <3>3 DEF NoneLost
    <2>4. Stage' = IF Decremented(cont[old]).ref # 0 THEN "get" ELSE "clear"
      BY <1>0, <1>7, FinishStages
    <2>5. deferred' = IF Decremented(cont[old]).ref # 0 THEN Append(deferred, old) ELSE deferred
      BY <1>7 DEF OldUnref
    <2> QED
      BY <2>2, <2>3, <2>4, <2>5
  <1>8. ASSUME NEW t \in Threads, OldWipe(t) \/ ScanWipe(t) PROVE NoneLost'
    <2>1. /\ Stage \in {"wipe", "rewipe"} /\ Stage' \in {"get", "scan"}
          /\ UNCHANGED <<slot, deferred, active, old>> /\ empty' = Append(empty, old)
      BY <1>0, <1>8, FinishStages, TakeStages DEF OldWipe, ScanWipe
    <2>2. old \in Containers
      BY <1>0, <2>1 DEF Handling
    <2>3. /\ Len(empty') = Len(empty) + 1
          /\ \A i \in 1 .. Len(empty) : empty'[i] = empty[i]
          /\ empty'[Len(empty) + 1] = old
      BY <1>1, <2>1, <2>2, PushType
    <2>4. /\ Len(empty) + 1 \in 1 .. Len(empty')
          /\ \A i \in 1 .. Len(empty) : i \in 1 .. Len(empty')
      BY <1>1, <2>3
    <2>5. ASSUME NEW k \in Containers PROVE Stowed(k)'
      <3>1. CASE k = old
        BY <2>3, <2>4, <3>1 DEF Stowed
      <3>2. CASE \E i \in 1 .. Len(empty) : empty[i] = k
        BY <2>3, <2>4, <3>2 DEF Stowed
      <3>3. CASE k # old /\ ~\E i \in 1 .. Len(empty) : empty[i] = k
        BY <1>2, <2>1, <3>3 DEF Stowed
      <3> QED
        BY <3>1, <3>2, <3>3
    <2> QED
      BY <2>1, <2>5 DEF NoneLost
  <1>9. ASSUME NEW t \in Threads, ScanReclaim(t) PROVE NoneLost'
    <2>1. /\ Stage = "reclaim" /\ Stage' = "rewipe"
          /\ UNCHANGED <<slot, empty, active>> /\ old' = deferred[scan]
          /\ deferred' = Front([deferred EXCEPT ![scan] = Last(deferred)])
      BY <1>0, <1>9, TakeStages DEF ScanReclaim
    <2>2. scan \in 1 .. Len(deferred)
      BY <1>0, <2>1 DEF Handling
    <2>3. \A j \in 1 .. Len(deferred) :
            j # scan => \E i \in 1 .. Len(deferred') : deferred'[i] = deferred[j]
      BY <1>1, <2>1, <2>2, SwappedOut
    <2>4. ASSUME NEW k \in Containers PROVE Stowed(k)'
      <3>1. CASE k = old'
        BY <2>1, <3>1 DEF Stowed
      <3>2. ASSUME NEW j \in 1 .. Len(deferred), deferred[j] = k, k # old' PROVE Stowed(k)'
        <4>1. j # scan
          BY <2>1, <3>2
        <4>2. \E i \in 1 .. Len(deferred') : deferred'[i] = k
          BY <2>3, <3>2, <4>1
        <4> QED
          BY <4>2 DEF Stowed
      <3>3. CASE k # old' /\ ~\E i \in 1 .. Len(deferred) : deferred[i] = k
        BY <1>2, <2>1, <3>3 DEF Stowed
      <3> QED
        BY <3>1, <3>2, <3>3
    <2> QED
      BY <2>1, <2>4 DEF NoneLost
  <1>10. ASSUME NEW t \in Threads, TakeForSend(t) \/ TakeForSwitch(t) \/ TakeForFlush(t)
         PROVE  NoneLost'
    <2>1. /\ Stage \in {"get", "pop"} /\ Stage' \in {"idle", "finish"}
          /\ UNCHANGED <<slot, deferred>> /\ empty # <<>>
          /\ active' = Last(empty) /\ empty' = Front(empty)
      BY <1>0, <1>10, TakeStages DEF TakeForSend, TakeForSwitch, TakeForFlush, TakeEmpty
    <2> DEFINE n == Len(empty)
    <2>2. /\ n \in Nat \ {0} /\ Len(empty') = n - 1 /\ active' = empty[n]
          /\ \A i \in 1 .. n - 1 : empty'[i] = empty[i]
      BY <1>1, <2>1, PopType
    <2>3. \A i \in 1 .. n : i = n \/ i \in 1 .. Len(empty')
      BY <2>2
    <2>4. \A i \in 1 .. n : empty[i] = active' \/ \E j \in 1 .. Len(empty') : empty'[j] = empty[i]
      BY <2>2, <2>3
    <2>5. \E j \in RingSlots : slot[j] = active
      BY <2>1 DEF NoneLost
    <2>6. ASSUME NEW k \in Containers PROVE Stowed(k)'
      <3>1. CASE \E i \in 1 .. Len(empty) : empty[i] = k
        BY <2>4, <3>1 DEF Stowed
      <3>2. CASE ~\E i \in 1 .. Len(empty) : empty[i] = k
        BY <1>2, <2>1, <2>5, <3>2 DEF Stowed
      <3> QED
        BY <3>1, <3>2
    <2> QED
      BY <2>1, <2>6 DEF NoneLost
  <1> QED
    BY <1>3, <1>4, <1>5, <1>6, <1>7, <1>8, <1>9, <1>10, SharedCases DEF Noisy

-----------------------------------------------------------------------------
LEMMA LadenShared ==
  ASSUME Structure, Laden, SharedStep, UNCHANGED peerVars
  PROVE  Laden'
  <1>1. st \in [Clients -> ClientStates] /\ Counted
    BY DEF Structure, TypeOK, SenderTypeOK
  <1>2. tcont' = tcont
    BY DEF peerVars
  <1>3. UNCHANGED st \/ AcceptList
    BY DEF SharedStep, SendCall, FlushCall, AutoFlushCall, ThreadStep, SendStore, SendFull,
       FlushLocked, FinishHeader, FinishRepeat, FinishYield, FinishRelock, RingStore,
       RingPublish, RingAdvanceTail, OldPeek, OldUnref, OldClear, OldWipe, ScanBegin, ScanLook,
       ScanReclaim, ScanWipe, ScanEnd, TakeForSend, TakeForSwitch, TakeForFlush, AcceptPeer,
       AcceptStep, AcceptTop, AcceptLock, AcceptRefuse, AcceptCount, TerminateCall,
       TerminateStep, TerminateDrained, TerminateSet, SetBufferSwitch, clientVars
  <1>4. CASE AcceptList
    <2>1. accClient \in Clients /\ st[accClient] = "off" /\ st' = [st EXCEPT ![accClient] = "top"]
      BY <1>1, <1>4 DEF AcceptList, Counted
    <2> QED
      BY <1>1, <1>2, <2>1 DEF Laden
  <1> QED
    BY <1>2, <1>3, <1>4 DEF Laden

LEMMA LadenPeer ==
  ASSUME Structure, Laden, NEW c \in Clients, PeerStep(c) \/ TlsPeerUnhandled(c)
  PROVE  /\ Laden'
         /\ \A d \in Clients : \/ tcont'[d] \in {tcont[d], NoContainer}
                             \/ \E j \in RingSlots : tcont'[d] = slot[j]
  <1>1. /\ st \in [Clients -> ClientStates] /\ cid \in [Clients -> Nat]
        /\ tcont \in [Clients -> Containers \cup {NoContainer}]
    BY DEF Structure, TypeOK, SenderTypeOK
  <1>2. ASSUME NEW d \in Clients
        PROVE  /\ tcont'[d] # NoContainer =>
                    st'[d] \in {"acquire", "verify", "send", "release", "giveup"}
               /\ tcont'[d] \in {tcont[d], NoContainer} \/ \E j \in RingSlots : tcont'[d] = slot[j]
    <2> USE DEF Laden, SetState
    <2>1. CASE PeerPick(c)
      <3>1. cid[c] % BufferCount \in RingSlots
        BY <1>1, SlotOf
      <3> QED
        BY <1>1, <2>1, <3>1 DEF PeerPick, At
    <2>2. CASE PeerTop(c) \/ PeerSkip(c) \/ PeerNext(c) \/ PeerJump(c)
      BY <1>1, <2>2 DEF PeerTop, PeerSkip, PeerNext, PeerJump, peerVars
    <2>3. CASE PeerAcquire(c) \/ PeerVerify(c) \/ PeerSent(c)
      BY <1>1, <2>3 DEF PeerAcquire, PeerVerify, PeerSent
    <2>4. CASE PeerGiveUp(c) \/ PeerRelease(c) \/ PeerBroken(c) \/ TlsPeerUnhandled(c)
      BY <1>1, <2>4 DEF PeerGiveUp, PeerRelease, PeerBroken, TlsPeerUnhandled
    <2>5. CASE PeerLeave(c)
      BY <1>1, <2>5 DEF PeerLeave, Disconnect
    <2> QED
      BY <2>1, <2>2, <2>3, <2>4, <2>5 DEF PeerStep
  <1> QED
    BY <1>2 DEF Laden

-----------------------------------------------------------------------------
(* Those the search has still to pass are no more than the busy clients.   *)
LEMMA AheadFew ==
  ASSUME Structure, Laden
  PROVE  /\ IsFiniteSet(Ahead) /\ Cardinality(Ahead) \in Nat
         /\ scan >= 1 => Cardinality(Ahead) <= MaxClients
  <1>1. \A i \in 1 .. Len(deferred) : deferred[i] \in Containers /\ deferred[i] # NoContainer
    BY ElementOfSeq, RingAssumption DEF Structure, TypeOK, SenderTypeOK, Containers, NoContainer
  <1>2. IsFiniteSet(Ahead) /\ Cardinality(Ahead) \in Nat
    <2>1. Ahead \subseteq Clients /\ IsFiniteSet(Clients)
      BY ThreadAssumption DEF Ahead
    <2> QED
      BY <2>1, FS_Subset, FS_CardinalityType
  <1>3. ASSUME scan >= 1 PROVE Cardinality(Ahead) <= MaxClients
    <2>1. scan \in Nat /\ Len(deferred) \in Nat
      BY LenProperties DEF Structure, TypeOK, SenderTypeOK
    <2>2. \A i \in scan .. Len(deferred) : i \in 1 .. Len(deferred)
      BY <1>3, <2>1
    <2>3. \A c \in Ahead : tcont[c] # NoContainer
      BY <1>1, <2>2 DEF Ahead
    <2>4. Ahead \subseteq Busy
      BY <2>3 DEF Ahead, Busy, Laden
    <2>5. /\ Cardinality(Ahead) <= Cardinality(Busy)
          /\ Cardinality(Busy) \in Nat /\ Cardinality(Busy) <= MaxClients
      BY <2>4, BusyBound, FS_Subset
    <2> QED
      BY <1>2, <2>5, RingAssumption
  <1> QED
    BY <1>2, <1>3

FewAhead == Cardinality(Ahead) \in Nat /\ (scan >= 1 => Cardinality(Ahead) <= MaxClients)

LEMMA FewBusy == Structure /\ Laden => FewAhead
  BY AheadFew DEF FewAhead

(* A search that passes a container passes a client that holds it.         *)
LEMMA PassesHolder ==
  ASSUME Structure, References, Laden, \A k \in Containers : Kept(k) = 0,
         scan \in 1 .. Len(deferred), Stage = "scan",
         cont[deferred[scan]].ref # 0, scan' = scan + 1, UNCHANGED <<deferred, tcont>>
  PROVE  Cardinality(Ahead') + 1 <= Cardinality(Ahead)
  <1>1. Single /\ scan \in Nat /\ Len(deferred) \in Nat /\ deferred[scan] \in Containers
    BY LenProperties, ElementOfSeq DEF Structure, TypeOK, SenderTypeOK
  <1>2. PICK k \in Containers : k = deferred[scan]
    BY <1>1
  <1>3. Own(k) = 0 /\ Kept(k) = 0 /\ cont[k].ref # 0
    BY <1>2 DEF Own
  <1>4. cont[k].ref = Kept(k) + Own(k) + Cardinality(Holders(k)) /\ Cardinality(Holders(k)) \in Nat
    BY RefAtLeast, HoldersFinite
  <1>5. Cardinality(Holders(k)) # 0
    BY <1>3, <1>4
  <1>6. Holders(k) # {}
    BY <1>5, FS_EmptySet
  <1>7. PICK c \in Clients : tcont[c] = k
    BY <1>6 DEF Holders
  <1>8. scan \in scan .. Len(deferred)
        /\ \A i \in scan + 1 .. Len(deferred) : /\ i \in scan .. Len(deferred) /\ i # scan
                                                /\ i \in 1 .. Len(deferred)
    BY <1>1
  <1>9. c \in Ahead
    BY <1>2, <1>7, <1>8 DEF Ahead
  <1>10. \A i \in scan + 1 .. Len(deferred) : deferred[i] # k
    BY <1>1, <1>2, <1>8 DEF Single
  <1>11. Ahead' \subseteq Ahead \ {c}
    BY <1>7, <1>8, <1>10 DEF Ahead
  <1>12. /\ Cardinality(Ahead \ {c}) = Cardinality(Ahead) - 1 /\ IsFiniteSet(Ahead \ {c})
         /\ Cardinality(Ahead) \in Nat
    BY <1>9, AheadFew, FS_RemoveElement
  <1>13. IsFiniteSet(Ahead') /\ Cardinality(Ahead') <= Cardinality(Ahead \ {c})
    BY <1>11, <1>12, FS_Subset
  <1>14. Cardinality(Ahead') \in Nat
    BY <1>13, FS_CardinalityType
  <1> QED
    BY <1>12, <1>13, <1>14

LEMMA ScanningShared ==
  ASSUME Structure, References, NoneLost, Laden, \A k \in Containers : Kept(k) = 0, Scanning,
         SharedStep, UNCHANGED peerVars
  PROVE  Scanning'
  <1>0. TypeOK /\ SenderTypeOK /\ Mutex /\ NeverWaits /\ Handling /\ Structure' /\ Laden'
    BY StructureStep, LadenShared DEF Structure, TypeOK, Next
  <1>1. /\ scan \in Nat /\ scan' \in Nat /\ Len(deferred) \in Nat /\ Len(deferred') \in Nat
        /\ MaxClients \in Nat
    BY <1>0, LenProperties, RingAssumption DEF Structure, TypeOK, SenderTypeOK
  <1>2. tcont' = tcont
    BY DEF peerVars
  <1>3. IsFiniteSet(Ahead) /\ Cardinality(Ahead) \in Nat /\ Cardinality(Ahead') \in Nat
        /\ (scan' >= 1 => Cardinality(Ahead') <= MaxClients)
    <2>1. (Structure /\ Laden => FewAhead)'
      BY FewBusy, PTL
    <2> QED
      BY <1>0, <2>1, AheadFew DEF FewAhead
  (* The search starts.                                                    *)
  <1>4. ASSUME Stage' = "scan", scan' = 1 PROVE Scanning'
    <2>1. scan' \in 1 .. Len(deferred') + 1 /\ (scan' - 1) + Cardinality(Ahead') <= MaxClients
      BY <1>1, <1>3, <1>4
    <2> QED
      BY <1>4, <2>1 DEF Scanning
  <1>5. CASE Quiet
    <2>1. UNCHANGED <<deferred, scan>> /\ Ahead' = Ahead
      BY <1>2, <1>5 DEF Quiet, PlacesKept, Ahead
    <2>2. Stage' \in {"scan", "reclaim", "pop"} => Stage \in {"scan", "reclaim", "pop"}
      BY <1>5 DEF Quiet
    <2>3. Stage' = "pop" => \/ Stage = "pop"
                            \/ Stage = "scan" /\ scan > Len(deferred)
      BY <1>5 DEF Quiet
    <2>4. Stage' = "pop" => scan = Len(deferred) + 1
      <3>1. scan > Len(deferred) /\ scan \in 1 .. Len(deferred) + 1 => scan = Len(deferred) + 1
        BY <1>1
      <3> QED
        BY <2>3, <3>1 DEF Scanning
    <2> QED
      BY <2>1, <2>2, <2>4 DEF Scanning
  <1>6. CASE Looks
    <2>1. CASE Stage = "get"
      BY <1>4, <1>6, <2>1 DEF Looks
    <2>2. CASE Stage = "scan"
      <3>1. /\ scan <= Len(deferred) /\ cont[deferred[scan]].ref # 0 /\ scan' = scan + 1
            /\ deferred' = deferred /\ Stage' = "scan"
        BY <1>6, <2>2 DEF Looks, PlacesKept
      <3>2. scan \in 1 .. Len(deferred) /\ (scan - 1) + Cardinality(Ahead) <= MaxClients
        BY <1>1, <2>2, <3>1 DEF Scanning
      <3>3. Cardinality(Ahead') + 1 <= Cardinality(Ahead)
        BY <1>2, <2>2, <3>1, <3>2, PassesHolder
      <3>4. scan' \in 1 .. Len(deferred') + 1 /\ (scan' - 1) + Cardinality(Ahead') <= MaxClients
        BY <1>1, <1>3, <3>1, <3>2, <3>3
      <3> QED
        BY <3>1, <3>4 DEF Scanning
    <2> QED
      BY <1>6, <2>1, <2>2 DEF Looks
  <1>7. ASSUME NEW t \in Threads, Noisy(t) PROVE Scanning'
    <2>1. CASE ScanWipe(t)
      <3>1. Stage' = "scan" /\ scan' = 1
        BY <1>0, <2>1, TakeStages DEF ScanWipe
      <3> QED
        BY <1>4, <3>1
    <2>2. CASE ~ScanWipe(t)
      <3>1. Stage' \notin {"scan", "reclaim", "pop"}
        BY <1>0, <1>7, <2>2, CallStages, FinishStages, TakeStages DEF Noisy
      <3> QED
        BY <3>1 DEF Scanning
    <2> QED
      BY <2>1, <2>2
  <1> QED
    BY <1>5, <1>6, <1>7, SharedCases

LEMMA ScanningPeer ==
  ASSUME Structure, Laden, Scanning, NEW c \in Clients, PeerStep(c)
  PROVE  Scanning'
  <1>1. UNCHANGED <<scan, deferred>> /\ Stage' = Stage
    BY PeerQuiet DEF PlacesKept
  <1>2. Single /\ scan \in Nat /\ Len(deferred) \in Nat /\ MaxClients \in Nat
        /\ \A i \in 1 .. Len(deferred) : deferred[i] # NoContainer
    BY LenProperties, ElementOfSeq, RingAssumption
    DEF Structure, TypeOK, SenderTypeOK, Containers, NoContainer
  <1>3. CASE Stage \in {"scan", "reclaim", "pop"}
    <2>1. scan \in 1 .. Len(deferred) + 1 /\ (scan - 1) + Cardinality(Ahead) <= MaxClients
      BY <1>3 DEF Scanning
    <2>2. \A i \in scan .. Len(deferred) : i \in 1 .. Len(deferred)
      BY <1>2, <2>1
    <2>3. ASSUME NEW d \in Clients, NEW i \in scan .. Len(deferred), tcont'[d] = deferred[i]
          PROVE  tcont[d] = deferred[i]
      <3>1. deferred[i] # NoContainer /\ \A j \in RingSlots : slot[j] # deferred[i]
        BY <1>2, <2>2 DEF Single
      <3> QED
        BY <2>3, <3>1, LadenPeer
    <2>4. Ahead' \subseteq Ahead
      BY <1>1, <2>3 DEF Ahead
    <2>5. IsFiniteSet(Ahead) /\ Cardinality(Ahead) \in Nat
      BY AheadFew
    <2>6. Cardinality(Ahead') <= Cardinality(Ahead) /\ Cardinality(Ahead') \in Nat
      BY <2>4, <2>5, FS_Subset, FS_CardinalityType
    <2>7. (scan - 1) + Cardinality(Ahead') <= MaxClients
      BY <1>2, <2>1, <2>5, <2>6
    <2> QED
      BY <1>1, <2>1, <2>7 DEF Scanning
  <1>4. CASE Stage \notin {"scan", "reclaim", "pop"}
    BY <1>1, <1>4 DEF Scanning
  <1> QED
    BY <1>3, <1>4

-----------------------------------------------------------------------------
LEMMA PoolInit == TlsInit => PoolInv
  <1> SUFFICES ASSUME TlsInit PROVE PoolInv
    OBVIOUS
  <1>1. Init /\ leaks = 0 /\ Inv /\ ~missed
    BY InvInit DEF TlsInit, Init
  <1>2. Structure /\ References
    BY <1>1 DEF Inv, Untouched
  <1>3. Stage = "idle" /\ terminated = FALSE
    BY <1>1, StageFree DEF Init, SenderInit
  <1>4. ASSUME NEW k \in Containers PROVE Stowed(k)
    <2>1. CASE k = BufferCount + MaxClients
      BY <1>1, <2>1 DEF Init, SenderInit, Stowed
    <2>2. CASE k # BufferCount + MaxClients
      <3>1. BufferCount \in Nat /\ MaxClients \in Nat /\ BufferCount + MaxClients \in Nat
        BY RingAssumption
      <3>2. k \in Nat /\ k + 1 \in 1 .. BufferCount + MaxClients
        BY <2>2, <3>1 DEF Containers
      <3>3. Len(empty) = BufferCount + MaxClients /\ empty[k + 1] = k
        BY <1>1, <3>1, <3>2 DEF Init, SenderInit, EmptyAtFirst
      <3> QED
        BY <3>2, <3>3 DEF Stowed
    <2> QED
      BY <2>1, <2>2
  <1>5. NoneLost
    BY <1>3, <1>4 DEF NoneLost, Stored, OutOfPlace
  <1>6. Laden
    BY <1>1 DEF Init, Laden
  <1>7. Scanning
    BY <1>3 DEF Scanning
  <1> QED
    BY <1>1, <1>2, <1>3, <1>5, <1>6, <1>7 DEF PoolInv, NoLeaks, References

LEMMA PoolStep ==
  ASSUME MaxClients <= 253, PoolInv, [TlsNext]_tlsVars
  PROVE  PoolInv'
  <1>0. Structure /\ TypeOK /\ NoneLost /\ Laden /\ leaks \in Nat /\ NoLeaks
    BY DEF PoolInv, Structure
  <1>1. CASE SharedStep /\ UNCHANGED <<peerVars, leaks>>
    <2>1. Structure' /\ NoneLost' /\ Laden'
      BY <1>0, <1>1, StructureStep, LostShared, LadenShared DEF Next
    <2>2. missed' = missed /\ leaks' = leaks
      BY <1>1 DEF peerVars
    <2>3. ASSUME ~missed, leaks = 0
          PROVE  References' /\ (\A k \in Containers : Kept(k)' = 0) /\ Scanning'
      <3>1. References /\ (\A k \in Containers : Kept(k) = 0) /\ Scanning
        BY <1>0, <2>3 DEF NoLeaks
      <3>2. References' /\ \A k \in Containers : Kept(k)' = Kept(k)
        BY <1>0, <1>1, <3>1, ReferencesShared
      <3>3. Scanning'
        BY <1>0, <1>1, <3>1, ScanningShared
      <3> QED
        BY <3>1, <3>2, <3>3
    <2> QED
      BY <1>0, <2>1, <2>2, <2>3 DEF PoolInv, NoLeaks
  <1>2. ASSUME NEW c \in Clients, PeerStep(c),
               leaks' \in Nat, leaks' = 0 => leaks = 0 /\ ~(PeerBroken(c) /\ terminated)
        PROVE  PoolInv'
    <2>1. Structure' /\ Laden'
      BY <1>0, <1>2, StructureStep, LadenPeer DEF Next
    <2>2. PlacesKept /\ Stage' = Stage
      BY <1>0, <1>2, PeerQuiet
    <2>3. NoneLost'
      BY <1>0, <2>2, LostKept
    <2>4. ~missed' => ~missed
      BY <1>0, <1>2
      DEF TypeOK, PeerStep, PeerTop, PeerPick, PeerAcquire, PeerVerify, PeerGiveUp, PeerSkip,
          PeerSent, PeerBroken, PeerRelease, PeerNext, PeerJump, PeerLeave, peerVars
    <2>5. ASSUME ~missed', leaks' = 0
          PROVE  References' /\ (\A k \in Containers : Kept(k)' = 0) /\ Scanning'
      <3>1. References /\ (\A k \in Containers : Kept(k) = 0) /\ Scanning
        BY <1>0, <1>2, <2>4, <2>5 DEF NoLeaks
      <3>2. References' /\ \A k \in Containers : Kept(k)' = Kept(k)
        BY <1>0, <1>2, <2>5, <3>1, ReferencesPeer
      <3>3. Scanning'
        BY <1>0, <1>2, <3>1, ScanningPeer
      <3> QED
        BY <3>1, <3>2, <3>3
    <2> QED
      BY <1>2, <2>1, <2>3, <2>5 DEF PoolInv, NoLeaks
  <1>3. ASSUME NEW c \in Clients, TlsPeerUnhandled(c) PROVE PoolInv'
    <2>1. Structure' /\ Laden'
      BY <1>0, <1>3, StructureUnhandled, LadenPeer
    <2>2. PlacesKept /\ Stage' = Stage
      BY <1>3, StageKept DEF TlsPeerUnhandled, OnlyPeer, threadVars, PlacesKept
    <2>3. NoneLost'
      BY <1>0, <2>2, LostKept
    <2>4. leaks' \in Nat /\ leaks' # 0
      BY <1>0, <1>3 DEF TlsPeerUnhandled
    <2> QED
      BY <2>1, <2>3, <2>4 DEF PoolInv, NoLeaks
  <1>4. CASE UNCHANGED tlsVars
    <2>1. UNCHANGED vars /\ UNCHANGED leaks
      BY <1>4 DEF tlsVars
    <2>2. Structure'
      BY <1>0, <2>1, StructureStutter
    <2> QED
      BY <1>0, <2>1, <2>2
      DEF PoolInv, NoLeaks, NoneLost, Stowed, Laden, Scanning, Ahead, References, Kept, Own,
          Holders, Busy, MayEnter, Stage, vars, senderVars, mbufVars, threadVars, clientVars,
          ctlVars, historyVars, peerVars
  <1>5. ASSUME NEW c \in Clients, PeerStep(c), leaks' = leaks + 1 PROVE PoolInv'
    BY <1>0, <1>2, <1>5
  <1>6. ASSUME NEW c \in Clients, PeerStep(c), ~(PeerBroken(c) /\ terminated), leaks' = leaks
        PROVE  PoolInv'
    BY <1>0, <1>2, <1>6
  <1> QED
    BY <1>0, <1>1, <1>3, <1>4, <1>5, <1>6, TlsCases

(* The search has passed every deferred container, each for a client that  *)
(* held it, so there are max_clients of them at most; the others are in    *)
(* the ring, and one is missing.                                           *)
LEMMA PoolSuffices == PoolInv => OnlyLeaksDrainPool
  <1> SUFFICES ASSUME PoolInv, ~missed, leaks = 0, NEW t \in Threads, pc[t] = "pop", empty = <<>>
               PROVE  FALSE
    BY DEF OnlyLeaksDrainPool
  <1>0. Structure /\ TypeOK /\ SenderTypeOK /\ Mutex /\ NoneLost /\ Laden /\ Scanning
    BY DEF PoolInv, NoLeaks, Structure, TypeOK
  <1>1. Stage = "pop"
    BY <1>0, StageIs DEF Holding
  <1> DEFINE n == Len(deferred)
             N == BufferCount
             M == MaxClients
  <1>2. n \in Nat /\ N \in Nat \ {0} /\ M \in Nat /\ 1 .. Len(empty) = {}
    BY <1>0, LenProperties, EmptySeq, RingAssumption DEF SenderTypeOK
  <1>3. n <= M
    <2>1. scan = n + 1 /\ (scan - 1) + Cardinality(Ahead) <= M /\ Cardinality(Ahead) \in Nat
      BY <1>0, <1>1, AheadFew DEF Scanning
    <2> QED
      BY <1>2, <2>1
  <1>4. ASSUME NEW k \in Containers
        PROVE  (\E i \in 1 .. n : deferred[i] = k) \/ \E j \in RingSlots : slot[j] = k
    BY <1>0, <1>1, <1>2 DEF NoneLost, Stowed, Stored, OutOfPlace
  <1> DEFINE Place(i) == IF i <= n THEN deferred[i] ELSE slot[i - n - 1]
             f == [k \in Containers |-> CHOOSE i \in 1 .. n + N : Place(i) = k]
  <1>5. ASSUME NEW k \in Containers PROVE \E i \in 1 .. n + N : Place(i) = k
    <2>1. ASSUME NEW i \in 1 .. n, deferred[i] = k PROVE i \in 1 .. n + N /\ Place(i) = k
      BY <1>2, <2>1
    <2>2. ASSUME NEW j \in RingSlots, slot[j] = k
          PROVE  n + 1 + j \in 1 .. n + N /\ Place(n + 1 + j) = k
      <3>1. j \in 0 .. N - 1
        BY DEF RingSlots
      <3>2. n + 1 + j \in 1 .. n + N /\ ~(n + 1 + j <= n) /\ (n + 1 + j) - n - 1 = j
        BY <1>2, <3>1
      <3> QED
        BY <2>2, <3>2
    <2> QED
      BY <1>4, <2>1, <2>2
  <1>6. \A k \in Containers : f[k] \in 1 .. n + N /\ Place(f[k]) = k
    BY <1>5
  <1>7. f \in [Containers -> 1 .. n + N]
    BY <1>6
  <1> HIDE DEF f, Place
  <1>8. \A x, y \in Containers : f[x] = f[y] => x = y
    BY <1>6
  <1>9. /\ IsFiniteSet(1 .. n + N) /\ Cardinality(1 .. n + N) = n + N
        /\ IsFiniteSet(Containers) /\ Cardinality(Containers) = N + M + 1
    <2>1. n + N \in Int /\ N + M \in Int /\ n + N >= 1 /\ N + M >= 0
      BY <1>2
    <2>2. Containers = 0 .. N + M
      BY DEF Containers
    <2> HIDE DEF n, N, M
    <2>3. /\ IsFiniteSet(1 .. n + N)
          /\ Cardinality(1 .. n + N) = IF 1 > n + N THEN 0 ELSE (n + N) - 1 + 1
      BY <2>1, FS_Interval
    <2>4. /\ IsFiniteSet(0 .. N + M)
          /\ Cardinality(0 .. N + M) = IF 0 > N + M THEN 0 ELSE (N + M) - 0 + 1
      BY <2>1, FS_Interval
    <2> QED
      BY <1>2, <2>1, <2>2, <2>3, <2>4
  <1>10. Cardinality(1 .. n + N) < Cardinality(Containers)
    BY <1>2, <1>3, <1>9
  <1> HIDE DEF n, N, M
  <1>11. \E x, y \in Containers : x # y /\ f[x] = f[y]
    BY <1>7, <1>9, <1>10, FS_PigeonHole
  <1> QED
    BY <1>8, <1>11

(* t_stack_pop in t_mbuf_get_empty_container never finds the stack empty:  *)
(* buffer_count + max_clients + 1 containers are enough, unless a client   *)
(* comes too late for a container or leaves without giving one back.       *)
THEOREM OnlyLeaksDrain ==
  ASSUME MaxClients <= 253
  PROVE  TlsSpec => []OnlyLeaksDrainPool
  <1>1. PoolInv /\ [TlsNext]_tlsVars => PoolInv'
    BY PoolStep
  <1> QED
    BY <1>1, PoolInit, PoolSuffices, PTL DEF TlsSpec

-----------------------------------------------------------------------------
(* The input interface.                                                    *)
(* The largest payload is there, and the buffer takes every other.         *)
LEMMA TrPayloadSizes ==
  /\ TrPayloads \subseteq Nat \ {0} /\ {0} \cup TrPayloads \subseteq Nat
  /\ TrMaxPayload \in TrPayloads /\ \A m \in TrPayloads : m <= TrMaxPayload
  <1>1. TrPayloads \subseteq Nat \ {0}
    BY TlsReceiverAssumption
  <1>2. TrMaxPayload \in TrPayloads /\ \A m \in TrPayloads : m <= TrMaxPayload
    BY TlsReceiverAssumption DEF TrMaxPayload
  <1> QED
    BY <1>1, <1>2

LEMMA TrPeerNumbers ==
  ASSUME NEW p \in [number : Nat, size : {0} \cup TrPayloads, next : Nat \ {0}]
  PROVE  p.number \in Nat /\ p.size \in Nat /\ p.next \in Nat \ {0}
  <1>1. p.size \in {0} \cup TrPayloads
    OBVIOUS
  <1>2. p.size \in Nat
    BY <1>1, TrPayloadSizes
  <1> QED
    BY <1>2

LEMMA TrInitially ==
  ASSUME TlsReceiverInit PROVE TrInv
  <1> USE DEF TlsReceiverInit
  <1>1. TrTypeOK
    <2>1. TrNoByte \in TrBytes
      BY DEF TrNoByte, TrByte, TrBytes
    <2>2. trCall \in TrCalls
      BY DEF TrCalls
    <2>3. trLink \in [state : {"down", "up", "closed"}, count : Nat]
          /\ trPeer \in [number : Nat, size : {0} \cup TrPayloads, next : Nat \ {0}]
          /\ trWire \in Seq(Seq(TrBytes)) /\ trHeld \in Seq(TrBytes)
      OBVIOUS
    <2>4. /\ trConfig \in [connected : BOOLEAN, pointer : Nat, wait : Nat]
          /\ trTerminated \in BOOLEAN
      OBVIOUS
    <2>5. trGiven \in [before : Nat, bytes : Seq(TrBytes), size : Nat,
                        begun : BOOLEAN, slipped : BOOLEAN]
      <3>1. <<>> \in Seq(TrBytes) /\ 0 \in Nat /\ FALSE \in BOOLEAN
        OBVIOUS
      <3> QED
        BY <3>1
    <2>6. trSlipped \in BOOLEAN
      OBVIOUS
    <2>7. trBuf \in [1 .. TrMaxPayload -> TrBytes]
      BY <2>1
    <2> QED
      BY <2>2, <2>3, <2>4, <2>5, <2>6, <2>7 DEF TrTypeOK
  <1>2. TrConfigured
    BY DEF TrConfigured, TrReading, TrWritten
  <1>3. TrRuns
    BY DEF TrRuns, TrRun
  <1>4. TrInPlace
    <2>1. TrByte(0, 1, 0) \in TrBytes
      BY DEF TrByte, TrBytes
    <2>2. TrExpects(TrByte(0, 1, 0)) /\ TrStream(TrByte(0, 1, 0))
      BY DEF TrExpects, TrReading, TrHeadNext, TrStream, TrLastNumber, TrByte
    <2> QED
      BY <2>1, <2>2 DEF TrInPlace, TrByte
  <1>5. TrCounted
    BY DEF TrCounted, TrReading
  <1>6. TrOld
    BY DEF TrOld, TrLastNumber, TrNoByte, TrByte
  <1> QED
    BY <1>1, <1>2, <1>3, <1>4, <1>5, <1>6 DEF TrInv, TlsReadWhole

-----------------------------------------------------------------------------
(* The types, action by action where more than the state of a call changes. *)
LEMMA TrTypeTake ==
  ASSUME TrTypeOK, TrTake PROVE TrTypeOK'
  <1> DEFINE n == IF trCall.left < Len(trHeld) THEN trCall.left ELSE Len(trHeld)
  <1>1. trHeld \in Seq(TrBytes) /\ trHeld # <<>> /\ trCall.left \in Nat /\ trCall.at \in Nat
        /\ trBuf \in [1 .. TrMaxPayload -> TrBytes] /\ trCall.left > 0
    BY DEF TrTypeOK, TrCalls, TrTake
  <1>2. n \in 1 .. Len(trHeld) /\ n <= trCall.left /\ Len(trHeld) \in Nat
    BY <1>1
  <1>3. SubSeq(trHeld, n + 1, Len(trHeld)) \in Seq(TrBytes)
    BY <1>1, <1>2
  <1>4. ASSUME 1 \in trCall.at .. trCall.at + n - 1
        PROVE  TrHeadLength(trHeld[2 - trCall.at]) \in Int
    <2>1. 2 - trCall.at \in 1 .. Len(trHeld)
      BY <1>1, <1>2, <1>4
    <2>2. trHeld[2 - trCall.at] \in TrBytes
      BY <1>1, <2>1
    <2> QED
      BY <2>2 DEF TrBytes, TrHeadLength
  <1>5. trHeld' \in Seq(TrBytes)
    BY <1>3 DEF TrTake
  <1>6. trCall.at + n \in Nat /\ trCall.left - n \in Nat
    BY <1>1, <1>2
  <1>7. trCall' \in TrCalls
    <2> HIDE DEF n
    <2> DEFINE moved == [trCall EXCEPT !.at = @ + n, !.left = @ - n]
    <2>1. moved \in TrCalls
      BY <1>6 DEF TrTypeOK, TrCalls
    <2>2. trCall' = moved
          \/ \E len \in Int : trCall' = [moved EXCEPT !.length = len]
      <3>1. trCall.length \in Int
        BY DEF TrTypeOK, TrCalls
      <3>2. CASE trCall.phase = "head"
        <4>1. trCall' = [moved EXCEPT !.length = IF 1 \in trCall.at .. trCall.at + n - 1
                            THEN TrHeadLength(trHeld[2 - trCall.at]) ELSE trCall.length]
          BY <3>2 DEF TrTake, n, TrTypeOK, TrCalls
        <4> QED
          BY <1>4, <3>1, <4>1
      <3>3. CASE trCall.phase # "head"
        BY <3>3 DEF TrTake, n
      <3> QED
        BY <3>2, <3>3
    <2> HIDE DEF moved
    <2> QED
      BY <2>1, <2>2 DEF TrCalls
  <1>8. trBuf' \in [1 .. TrMaxPayload -> TrBytes]
    <2> HIDE DEF n
    <2>1. CASE trBuf' = trBuf
      BY <2>1, <1>1
    <2>2. CASE trBuf' = [i \in DOMAIN trBuf |->
                 IF i \in trCall.at .. trCall.at + n - 1 THEN trHeld[i - trCall.at + 1]
                 ELSE trBuf[i]]
      <3>1. ASSUME NEW i \in 1 .. TrMaxPayload, i \in trCall.at .. trCall.at + n - 1
            PROVE  trHeld[i - trCall.at + 1] \in TrBytes
        <4>1. i - trCall.at + 1 \in 1 .. Len(trHeld)
          BY <1>1, <1>2, <3>1, TrPayloadSizes
        <4> QED
          BY <4>1, <1>1
      <3> QED
        BY <2>2, <3>1, <1>1
    <2> QED
      BY <2>1, <2>2 DEF TrTake, n
  <1> QED
    BY <1>5, <1>7, <1>8 DEF TrTypeOK, TrTake, trPeerVars

(* A part of a container's payload, and its header with the first part.    *)
LEMMA TrPiece ==
  ASSUME NEW number \in Nat, NEW total \in Nat, NEW from \in Nat \ {0}, NEW upto \in from .. total
  PROVE  LET piece == SubSeq(TrPayload(number, total), from, upto) IN
         /\ piece \in Seq(TrBytes) /\ Len(piece) = upto - from + 1
         /\ \A i \in 1 .. Len(piece) : piece[i] = TrByte(number, from + i - 1, total)
  <1> DEFINE all   == TrPayload(number, total)
             piece == SubSeq(all, from, upto)
  <1>1. \A i \in Nat : TrByte(number, i, total) \in TrBytes
    BY DEF TrByte, TrBytes
  <1>2. all \in Seq(TrBytes) /\ Len(all) = total
        /\ \A i \in 1 .. total : all[i] = TrByte(number, i, total)
    BY <1>1 DEF TrPayload
  <1> HIDE DEF all
  <1>3. piece \in Seq(TrBytes) /\ Len(piece) = upto - from + 1
        /\ \A i \in 1 .. Len(piece) : piece[i] = all[from + i - 1]
    BY <1>2
  <1>4. \A i \in 1 .. Len(piece) : piece[i] = TrByte(number, from + i - 1, total)
    <2>1. ASSUME NEW i \in 1 .. Len(piece) PROVE from + i - 1 \in 1 .. total
      BY <1>3
    <2> HIDE DEF piece
    <2> QED
      BY <2>1, <1>2, <1>3
  <1> QED
    BY <1>3, <1>4 DEF all

LEMMA TrFront ==
  ASSUME NEW number \in Nat, NEW total \in Nat, NEW upto \in 1 .. total
  PROVE  LET front == <<TrByte(number, 0, total)>> \o SubSeq(TrPayload(number, total), 1, upto) IN
         /\ front \in Seq(TrBytes) /\ Len(front) = upto + 1
         /\ \A i \in 1 .. Len(front) : front[i] = TrByte(number, i - 1, total)
  <1> DEFINE rest  == SubSeq(TrPayload(number, total), 1, upto)
             front == <<TrByte(number, 0, total)>> \o rest
  <1>1. TrByte(number, 0, total) \in TrBytes
    BY DEF TrByte, TrBytes
  <1>2. 1 \in Nat \ {0} /\ upto \in Nat
    OBVIOUS
  <1>3. rest \in Seq(TrBytes) /\ Len(rest) = upto - 1 + 1
        /\ \A i \in 1 .. Len(rest) : rest[i] = TrByte(number, 1 + i - 1, total)
    BY <1>2, TrPiece
  <1> HIDE DEF rest
  <1>4. Len(rest) = upto
    BY <1>2, <1>3
  <1>5. front \in Seq(TrBytes) /\ Len(front) = upto + 1
        /\ \A i \in 1 .. Len(front) :
             front[i] = IF i = 1 THEN TrByte(number, 0, total) ELSE rest[i - 1]
    BY <1>1, <1>2, <1>3, <1>4
  <1> HIDE DEF front
  <1>6. \A i \in 1 .. Len(front) : front[i] = TrByte(number, i - 1, total)
    <2> SUFFICES ASSUME NEW i \in 1 .. Len(front) PROVE front[i] = TrByte(number, i - 1, total)
      OBVIOUS
    <2>1. CASE i = 1
      BY <2>1, <1>5
    <2>2. CASE i # 1
      <3>1. i - 1 \in 1 .. Len(rest) /\ 1 + (i - 1) - 1 = i - 1
        BY <2>2, <1>2, <1>4, <1>5
      <3> QED
        BY <2>2, <3>1, <1>3, <1>5
    <2> QED
      BY <2>1, <2>2
  <1> QED
    BY <1>5, <1>6 DEF front, rest

LEMMA TrHeadWaitType ==
  ASSUME TrTypeOK, TrHeadWait(TRUE)
  PROVE  /\ trCall' \in TrCalls
         /\ trConfig' \in [connected : BOOLEAN, pointer : Nat, wait : Nat]
  <1>1. trConfig' = [trConfig EXCEPT !.connected = TRUE, !.wait = 1]
        /\ trCall' = [trCall EXCEPT !.pc = "select", !.phase = "head", !.at = 1, !.left = 1]
    BY DEF TrHeadWait, TrWaitFor
  <1> QED
    BY <1>1 DEF TrTypeOK, TrCalls

LEMMA TrTypeStep ==
  ASSUME TrTypeOK, TrCounted, [TlsReceiverNext]_trVars
  PROVE  TrTypeOK'
  <1> USE TrPayloadSizes
  <1>1. CASE UNCHANGED trVars
    BY <1>1 DEF TrTypeOK, trVars
  <1>2. CASE TrPeerContainer
    <2>0. PICK total \in TrPayloads : \E upto \in 1 .. total :
            /\ trPeer' = [number |-> trPeer.number + 1, size |-> total, next |-> upto + 1]
            /\ trWire' = Append(trWire, <<TrByte(trPeer.number + 1, 0, total)>>
                                 \o SubSeq(TrPayload(trPeer.number + 1, total), 1, upto))
      BY <1>2 DEF TrPeerContainer
    <2>1. PICK upto \in 1 .. total :
            /\ trPeer' = [number |-> trPeer.number + 1, size |-> total, next |-> upto + 1]
            /\ trWire' = Append(trWire, <<TrByte(trPeer.number + 1, 0, total)>>
                                 \o SubSeq(TrPayload(trPeer.number + 1, total), 1, upto))
      BY <2>0
    <2>2. trPeer.number + 1 \in Nat /\ total \in Nat /\ upto \in Nat /\ upto + 1 \in Nat \ {0}
      BY DEF TrTypeOK
    <2>3. trWire' \in Seq(Seq(TrBytes))
      <3> DEFINE front == <<TrByte(trPeer.number + 1, 0, total)>>
                            \o SubSeq(TrPayload(trPeer.number + 1, total), 1, upto)
      <3>1. front \in Seq(TrBytes)
        BY <2>2, TrFront
      <3>2. trWire' = Append(trWire, front) /\ trWire \in Seq(Seq(TrBytes))
        BY <2>1 DEF TrTypeOK
      <3> HIDE DEF front
      <3> QED
        BY <3>1, <3>2
    <2> QED
      BY <1>2, <2>1, <2>2, <2>3 DEF TrTypeOK, TrPeerContainer
  <1>3. CASE TrPeerRecord
    <2>1. PICK upto \in trPeer.next .. trPeer.size :
            /\ trPeer' = [trPeer EXCEPT !.next = upto + 1]
            /\ trWire' = Append(trWire, SubSeq(TrPayload(trPeer.number, trPeer.size),
                                               trPeer.next, upto))
      BY <1>3 DEF TrPeerRecord
    <2>2. trPeer.number \in Nat /\ trPeer.size \in Nat /\ trPeer.next \in Nat \ {0}
          /\ upto \in Nat \ {0} /\ upto + 1 \in Nat \ {0} /\ upto \in trPeer.next .. trPeer.size
      <3>1. trPeer.number \in Nat /\ trPeer.size \in {0} \cup TrPayloads
            /\ trPeer.next \in Nat \ {0}
        BY DEF TrTypeOK
      <3>2. trPeer.size \in Nat
        BY <3>1
      <3> QED
        BY <3>1, <3>2
    <2>3. trWire' \in Seq(Seq(TrBytes))
      <3> DEFINE piece == SubSeq(TrPayload(trPeer.number, trPeer.size), trPeer.next, upto)
      <3>1. piece \in Seq(TrBytes)
        BY <2>2, TrPiece
      <3>2. trWire' = Append(trWire, piece) /\ trWire \in Seq(Seq(TrBytes))
        BY <2>1 DEF TrTypeOK
      <3> HIDE DEF piece
      <3> QED
        BY <3>1, <3>2
    <2> QED
      BY <1>3, <2>1, <2>2, <2>3 DEF TrTypeOK, TrPeerRecord
  <1>4. CASE TrPeerClose
    <2>1. trLink' \in [state : {"down", "up", "closed"}, count : Nat]
      BY <1>4 DEF TrTypeOK, TrPeerClose
    <2>2. trPeer' \in [number : Nat, size : {0} \cup TrPayloads, next : Nat \ {0}]
      <3>0. trPeer.size \in {0} \cup TrPayloads
        BY DEF TrTypeOK
      <3>1. trPeer.size + 1 \in Nat \ {0}
        <4>1. trPeer.size \in Nat
          BY <3>0
        <4> QED
          BY <4>1
      <3> QED
        BY <1>4, <3>1 DEF TrTypeOK, TrPeerClose
    <2>3. trWire' \in Seq(Seq(TrBytes))
      <3>1. trWire \in Seq(Seq(TrBytes)) /\ <<>> \in Seq(Seq(TrBytes))
        BY DEF TrTypeOK
      <3>2. trWire' = trWire \/ trWire' = <<>>
        BY <1>4 DEF TrPeerClose
      <3> QED
        BY <3>1, <3>2
    <2> QED
      BY <1>4, <2>1, <2>2, <2>3 DEF TrTypeOK, TrPeerClose
  <1>5. CASE \E timeout \in TrTimeouts : TlsRecv(timeout)
    <2>1. PICK t \in TrTimeouts : TlsRecv(t)
      BY <1>5
    <2>2. trCall' \in TrCalls
      <3>1. t \in {"WAIT", "SOME"}
        BY TlsReceiverAssumption
      <3>2. \/ trCall' = [trCall EXCEPT !.pc = "idle", !.timeout = t, !.length = -1]
            \/ trCall' = [trCall EXCEPT !.pc = "init", !.timeout = t, !.length = -1]
        BY <2>1 DEF TlsRecv
      <3>3. trCall \in TrCalls
        BY DEF TrTypeOK
      <3>6. -1 \in Int
        OBVIOUS
      <3>4. CASE trCall' = [trCall EXCEPT !.pc = "idle", !.timeout = t, !.length = -1]
        BY <3>1, <3>3, <3>4, <3>6 DEF TrCalls
      <3>5. CASE trCall' = [trCall EXCEPT !.pc = "init", !.timeout = t, !.length = -1]
        BY <3>1, <3>3, <3>5, <3>6 DEF TrCalls
      <3> QED
        BY <3>2, <3>4, <3>5
    <2> QED
      BY <2>1, <2>2 DEF TrTypeOK, TlsRecv, trPeerVars
  <1>6. CASE TlsRecvInit
    <2>1. CASE TrGoto("connect") /\ UNCHANGED trConfig
      BY <1>6, <2>1 DEF TrTypeOK, TrCalls, TlsRecvInit, TrGoto, trPeerVars
    <2>2. CASE TrHeadWait(TRUE)
      BY <1>6, <2>2, TrHeadWaitType DEF TrTypeOK, TlsRecvInit, trPeerVars
    <2>3. CASE TrWaitFor("mess", trConfig.pointer, trConfig.wait) /\ UNCHANGED trConfig
      <3>1. trCall' = [trCall EXCEPT !.pc = "select", !.phase = "mess", !.at = trConfig.pointer,
                                     !.left = trConfig.wait]
        BY <2>3 DEF TrWaitFor
      <3>2. trConfig.pointer \in Nat /\ trConfig.wait \in Nat
        BY DEF TrTypeOK
      <3>3. trCall' \in TrCalls
        BY <3>1, <3>2 DEF TrTypeOK, TrCalls
      <3> QED
        BY <1>6, <2>3, <3>3 DEF TrTypeOK, TlsRecvInit, trPeerVars
    <2> QED
      BY <1>6, <2>1, <2>2, <2>3 DEF TlsRecvInit
  <1>7. CASE TlsConnectFails \/ TlsRecvReset \/ TrSelect
    BY <1>7 DEF TrTypeOK, TrCalls, TlsConnectFails, TlsRecvReset, TrSelect, TrReturn, TrGoto,
                trPeerVars
  <1>8. CASE TlsConnect \/ TlsConnectMismatch
    <2>1. TrHeadWait(TRUE) \/ (TrReturn /\ trConfig' = [trConfig EXCEPT !.connected = TRUE])
      <3>1. CASE TlsConnect
        BY <3>1 DEF TlsConnect
      <3>2. CASE TlsConnectMismatch
        BY <3>2 DEF TlsConnectMismatch
      <3> QED
        BY <1>8, <3>1, <3>2
    <2>2. /\ trCall' \in TrCalls
          /\ trConfig' \in [connected : BOOLEAN, pointer : Nat, wait : Nat]
      <3>1. CASE TrHeadWait(TRUE)
        BY <3>1, TrHeadWaitType
      <3>2. CASE TrReturn /\ trConfig' = [trConfig EXCEPT !.connected = TRUE]
        BY <3>2 DEF TrTypeOK, TrCalls, TrReturn, TrGoto
      <3> QED
        BY <2>1, <3>1, <3>2
    <2>3. TrNewLink
      BY <1>8 DEF TlsConnect, TlsConnectMismatch
    <2>4. trLink' \in [state : {"down", "up", "closed"}, count : Nat]
      BY <2>3 DEF TrNewLink, TrTypeOK
    <2>5. trWire' \in Seq(Seq(TrBytes)) /\ trHeld' \in Seq(TrBytes)
      BY <2>3 DEF TrNewLink
    <2> QED
      BY <2>2, <2>3, <2>4, <2>5 DEF TrTypeOK, TrNewLink
  <1>9. CASE TrTerminatedInside \/ TrSelectTimeout \/ TrAgain
    <2>1. TrInterrupted(trCall.at, trCall.left)
          /\ UNCHANGED <<trLink, trPeer, trWire, trHeld, trTerminated, trBuf, trGiven, trSlipped>>
      BY <1>9 DEF TrTerminatedInside, TrSelectTimeout, TrAgain, trPeerVars
    <2>2. trCall.at \in Nat /\ trCall.left \in Nat /\ trCall' \in TrCalls
      BY <2>1 DEF TrTypeOK, TrCalls, TrInterrupted, TrGoto
    <2>3. trConfig' \in [connected : BOOLEAN, pointer : Nat, wait : Nat]
      BY <2>1, <2>2 DEF TrTypeOK, TrInterrupted
    <2> QED
      BY <2>1, <2>2, <2>3 DEF TrTypeOK
  <1>10. CASE TrDecrypt
    BY <1>10 DEF TrTypeOK, TrDecrypt
  <1>11. CASE TrTake
    BY <1>11, TrTypeTake
  <1>12. CASE TrBroken
    BY <1>12 DEF TrTypeOK, TrCalls, TrBroken, TrDiscard, TrGoto
  <1>13. CASE TlsHeadDone \/ TlsHeadMisread
    <2>1. trCall.length \in Nat /\ trCall \in TrCalls
          /\ trConfig \in [connected : BOOLEAN, pointer : Nat, wait : Nat]
      BY <1>13 DEF TlsHeadDone, TlsHeadMisread, TrTypeOK, TrCalls
    <2>2. CASE TlsHeadDone
      <3>1. trCall' \in TrCalls /\ trConfig' \in [connected : BOOLEAN, pointer : Nat, wait : Nat]
        BY <2>1, <2>2 DEF TrCalls, TlsHeadDone, TrWaitFor
      <3> QED
        BY <2>2, <3>1 DEF TrTypeOK, TlsHeadDone, trPeerVars
    <2>3. CASE TlsHeadMisread
      <3>1. trCall' \in TrCalls
        BY <2>1, <2>3 DEF TrCalls, TlsHeadMisread, TrGoto
      <3> QED
        BY <2>3, <3>1 DEF TrTypeOK, TlsHeadMisread, trPeerVars
    <2> QED
      BY <1>13, <2>2, <2>3
  <1>14. CASE TlsMessDone
    <2>3. trCall.at \in Nat /\ trCall.at + trCall.left - 1 \in TrPayloads /\ trCall.left = 0
      BY <1>14 DEF TlsMessDone, TrCounted, TrCounts, TrReading, TrTypeOK, TrCalls
    <2>4. trCall.at - 1 \in 1 .. TrMaxPayload
      <3>1. trCall.at + 0 - 1 = trCall.at - 1
        BY <2>3
      <3>2. trCall.at - 1 \in TrPayloads
        BY <2>3, <3>1
      <3>3. PICK n \in TrPayloads : n = trCall.at - 1
        BY <3>2
      <3>4. n \in Nat \ {0} /\ n <= TrMaxPayload /\ TrMaxPayload \in Nat
        BY TrPayloadSizes
      <3> QED
        BY <3>3, <3>4
    <2>5. trBuf \in Seq(TrBytes) /\ Len(trBuf) = TrMaxPayload
      BY DEF TrTypeOK
    <2>6. SubSeq(trBuf, 1, trCall.at - 1) \in Seq(TrBytes)
      BY <2>4, <2>5
    <2>7. PICK size \in Nat :
            trGiven' = [before |-> IF trGiven.bytes = <<>> THEN 0 ELSE trGiven.bytes[1].number,
                        bytes |-> SubSeq(trBuf, 1, trCall.at - 1), size |-> size,
                        begun |-> trCall.length > 0, slipped |-> trSlipped]
      <3>1. PICK size \in IF trCall.length > 0 THEN {trCall.length} ELSE 0 .. TrMaxPayload :
              trGiven' = [before |-> IF trGiven.bytes = <<>> THEN 0 ELSE trGiven.bytes[1].number,
                          bytes |-> SubSeq(trBuf, 1, trCall.at - 1), size |-> size,
                          begun |-> trCall.length > 0, slipped |-> trSlipped]
        BY <1>14 DEF TlsMessDone
      <3>2. size \in Nat
        BY DEF TrTypeOK, TrCalls
      <3> QED
        BY <3>1, <3>2
    <2>8. trGiven.bytes # <<>> => trGiven.bytes[1].number \in Nat
      <3>1. trGiven.bytes # <<>> => trGiven.bytes[1] \in TrBytes
        BY DEF TrTypeOK
      <3> QED
        BY <3>1 DEF TrBytes
    <2>9. trGiven' \in [before : Nat, bytes : Seq(TrBytes), size : Nat,
                        begun : BOOLEAN, slipped : BOOLEAN]
      <3>1. (trCall.length > 0) \in BOOLEAN /\ trSlipped \in BOOLEAN
        BY DEF TrTypeOK
      <3> QED
        BY <2>6, <2>7, <2>8, <3>1
    <2> QED
      BY <1>14, <2>9 DEF TrTypeOK, TrCalls, TlsMessDone, TrGoto, trPeerVars
  <1>15. CASE TlsReceiverTerminate
    BY <1>15 DEF TrTypeOK, TlsReceiverTerminate, trPeerVars
  <1>16. CASE TlsReceiverDestroy
    <2>1. trCall' \in TrCalls
      BY <1>16 DEF TrTypeOK, TrCalls, TlsReceiverDestroy, TrGoto
    <2>2. trConfig' \in [connected : BOOLEAN, pointer : Nat, wait : Nat]
          /\ trLink' \in [state : {"down", "up", "closed"}, count : Nat]
      BY <1>16 DEF TrTypeOK, TlsReceiverDestroy
    <2>3. trWire' \in Seq(Seq(TrBytes)) /\ trHeld' \in Seq(TrBytes)
      BY <1>16 DEF TlsReceiverDestroy
    <2> QED
      BY <1>16, <2>1, <2>2, <2>3 DEF TrTypeOK, TlsReceiverDestroy
  <1>17. CASE TrReadFails
    <2>0. trCall \in TrCalls /\ trConfig \in [connected : BOOLEAN, pointer : Nat, wait : Nat]
          /\ trLink \in [state : {"down", "up", "closed"}, count : Nat]
          /\ trPeer \in [number : Nat, size : {0} \cup TrPayloads, next : Nat \ {0}]
      BY DEF TrTypeOK
    <2>1. trCall' \in TrCalls
      <3>1. trCall.at > 0 => trCall.at - 1 \in Nat /\ trCall.left + 1 \in Nat
        BY <2>0 DEF TrCalls
      <3>2. \/ trCall' = [trCall EXCEPT !.pc = "reset"]
            \/ trCall' = [trCall EXCEPT !.at = @ - 1, !.left = @ + 1] /\ trCall.at > 0
        BY <1>17, <2>0 DEF TrReadFails, TrGoto, TrCalls
      <3> QED
        BY <2>0, <3>1, <3>2 DEF TrCalls
    <2>2. trLink' \in [state : {"down", "up", "closed"}, count : Nat]
      <3>1. trLink' = trLink \/ trLink' = [trLink EXCEPT !.state = "down"]
        BY <1>17 DEF TrReadFails
      <3> QED
        BY <2>0, <3>1
    <2>4. trConfig' \in [connected : BOOLEAN, pointer : Nat, wait : Nat]
      <3>1. PICK pointer \in {trConfig.pointer, 1} :
              \/ trConfig' = trConfig
              \/ trConfig' = [trConfig EXCEPT !.connected = FALSE, !.pointer = pointer]
        BY <1>17 DEF TrReadFails
      <3>2. pointer \in Nat
        BY <2>0
      <3> QED
        BY <2>0, <3>1, <3>2
    <2>3. trPeer' \in [number : Nat, size : {0} \cup TrPayloads, next : Nat \ {0}]
      <3>1. trPeer.size + 1 \in Nat \ {0}
        BY <2>0, TrPeerNumbers
      <3> QED
        BY <1>17, <2>0, <3>1 DEF TrReadFails
    <2> QED
      BY <1>17, <2>1, <2>2, <2>3, <2>4 DEF TrTypeOK, TrReadFails
  <1> QED
    BY <1>1, <1>2, <1>3, <1>4, <1>5, <1>6, <1>7, <1>8, <1>9, <1>10, <1>11, <1>12, <1>13, <1>14,
       <1>15, <1>16, <1>17 DEF TlsReceiverNext

-----------------------------------------------------------------------------
LEMMA TrConfiguredStep ==
  ASSUME TrTypeOK, TrConfigured, [TlsReceiverNext]_trVars
  PROVE  TrConfigured'
  <1>0. trCall \in TrCalls /\ trConfig \in [connected : BOOLEAN, pointer : Nat, wait : Nat]
        /\ trLink \in [state : {"down", "up", "closed"}, count : Nat]
        /\ trPeer \in [number : Nat, size : {0} \cup TrPayloads, next : Nat \ {0}]
    BY DEF TrTypeOK
  <1>1. CASE UNCHANGED trVars
    BY <1>1 DEF TrConfigured, TrReading, TrWritten, trVars
  <1>2. CASE TrPeerContainer
    BY <1>0, <1>2 DEF TrConfigured, TrReading, TrWritten, TrPeerContainer
  <1>3. CASE TrPeerRecord
    BY <1>0, <1>3 DEF TrConfigured, TrReading, TrWritten, TrPeerRecord
  <1>4. CASE TrPeerClose
    <2>1. trPeer' = [trPeer EXCEPT !.next = trPeer.size + 1] /\ trPeer.size \in Nat
      BY <1>0, <1>4, TrPayloadSizes DEF TrPeerClose
    <2>2. TrWritten'
      BY <1>0, <2>1 DEF TrWritten
    <2>3. trLink.state = "up" /\ trLink'.state = "closed"
      BY <1>0, <1>4 DEF TrPeerClose
    <2> QED
      BY <1>4, <2>2, <2>3 DEF TrConfigured, TrReading, TrPeerClose
  <1>5. CASE \E timeout \in TrTimeouts : TlsRecv(timeout)
    BY <1>0, <1>5 DEF TrConfigured, TrReading, TrWritten, TlsRecv, trPeerVars, TrCalls
  <1>6. CASE TlsRecvInit
    <2>1. CASE TrGoto("connect") /\ ~trConfig.connected /\ UNCHANGED trConfig
      BY <1>0, <1>6, <2>1 DEF TrConfigured, TrReading, TrWritten, TlsRecvInit, TrGoto, trPeerVars,
                              TrCalls
    <2>2. CASE trConfig.connected /\ trConfig.pointer = 0 /\ TrHeadWait(TRUE)
      BY <1>0, <1>6, <2>2 DEF TrConfigured, TrReading, TrWritten, TlsRecvInit, TrHeadWait,
                              TrWaitFor, trPeerVars, TrCalls
    <2>3. CASE /\ trConfig.connected /\ trConfig.pointer # 0
               /\ TrWaitFor("mess", trConfig.pointer, trConfig.wait) /\ UNCHANGED trConfig
      BY <1>0, <1>6, <2>3 DEF TrConfigured, TrReading, TrWritten, TlsRecvInit, TrWaitFor,
                              trPeerVars, TrCalls
    <2> QED
      BY <1>6, <2>1, <2>2, <2>3 DEF TlsRecvInit
  <1>7. CASE TlsConnectFails \/ TlsRecvReset
    BY <1>0, <1>7 DEF TrConfigured, TrReading, TrWritten, TlsConnectFails, TlsRecvReset, TrReturn,
                      TrGoto, trPeerVars, TrCalls
  <1>8. CASE TrSelect
    BY <1>0, <1>8 DEF TrConfigured, TrReading, TrWritten, TrSelect, TrGoto, trPeerVars, TrCalls
  <1>9. CASE TlsConnect
    BY <1>0, <1>9 DEF TrConfigured, TrReading, TrWritten, TlsConnect, TrNewLink, TrHeadWait,
                      TrWaitFor, TrCalls
  <1>10. CASE TlsConnectMismatch
    BY <1>0, <1>10 DEF TrConfigured, TrReading, TrWritten, TlsConnectMismatch, TrNewLink, TrReturn,
                       TrGoto, TrCalls
  <1>11. CASE TrTerminatedInside \/ TrSelectTimeout \/ TrAgain
    <2>1. TrReading /\ trCall.left > 0 /\ TrInterrupted(trCall.at, trCall.left)
      BY <1>11 DEF TrConfigured, TrReading, TrTerminatedInside, TrSelectTimeout, TrAgain
    <2>2. UNCHANGED <<trLink, trPeer, trWire, trHeld>>
      BY <1>11 DEF TrTerminatedInside, TrSelectTimeout, TrAgain, trPeerVars
    <2>3. trConfig'.connected = trConfig.connected /\ trConfig.connected
          /\ trConfig'.wait = trCall.left /\ trCall'.pc = "reset"
          /\ (trCall.phase = "head" => trConfig'.pointer = 0)
      BY <1>0, <2>1 DEF TrInterrupted, TrGoto, TrCalls, TrConfigured
    <2> QED
      BY <2>1, <2>2, <2>3 DEF TrConfigured, TrReading, TrWritten
  <1>12. CASE TrDecrypt
    BY <1>0, <1>12 DEF TrConfigured, TrReading, TrWritten, TrDecrypt
  <1>13. CASE TrTake
    <2> DEFINE n == IF trCall.left < Len(trHeld) THEN trCall.left ELSE Len(trHeld)
    <2>1. trCall.left \in Nat /\ trCall.left > 0 /\ trHeld # <<>> /\ trHeld \in Seq(TrBytes)
          /\ trCall.pc = "read" /\ trConfig.connected
      BY <1>13 DEF TrTake, TrTypeOK, TrCalls, TrConfigured, TrReading
    <2>2. n \in Nat /\ n > 0 /\ n <= trCall.left
      BY <2>1
    <2> HIDE DEF n
    <2>4. trCall'.pc = "read" /\ trCall'.phase = trCall.phase /\ trCall'.left = trCall.left - n
          /\ trCall'.at = trCall.at + n
      <3>1. CASE trCall.phase = "head"
        BY <1>0, <1>13, <3>1 DEF TrTake, TrCalls, n
      <3>2. CASE trCall.phase # "head"
        BY <1>0, <1>13, <3>2 DEF TrTake, TrCalls, n
      <3> QED
        BY <3>1, <3>2
    <2>5. trCall.phase = "head" => trCall'.at + trCall'.left = 2
                                   /\ (trSlipped \/ trCall'.left < 2)
      BY <1>0, <2>1, <2>2, <2>4 DEF TrConfigured, TrReading, TrCalls
    <2>6. UNCHANGED <<trLink, trPeer, trWire, trConfig, trTerminated, trSlipped>>
      BY <1>13 DEF TrTake, trPeerVars
    <2>7. trCall.phase = "head" => trConfig.pointer = 0
      BY <2>1 DEF TrConfigured, TrReading
    <2> QED
      BY <2>1, <2>4, <2>5, <2>6, <2>7 DEF TrConfigured, TrReading, TrWritten
  <1>14. CASE TrBroken
    BY <1>0, <1>14 DEF TrConfigured, TrReading, TrWritten, TrBroken, TrDiscard, TrGoto, TrCalls
  <1>15. CASE TlsHeadDone \/ TlsHeadMisread
    BY <1>0, <1>15 DEF TrConfigured, TrReading, TrWritten, TlsHeadDone, TlsHeadMisread, TrWaitFor,
                       TrGoto, trPeerVars, TrCalls
  <1>16. CASE TlsMessDone
    BY <1>0, <1>16 DEF TrConfigured, TrReading, TrWritten, TlsMessDone, TrGoto, trPeerVars, TrCalls
  <1>17. CASE TlsReceiverTerminate
    BY <1>17 DEF TrConfigured, TrReading, TrWritten, TlsReceiverTerminate, trPeerVars
  <1>18. CASE TlsReceiverDestroy
    BY <1>0, <1>18 DEF TrConfigured, TrReading, TrWritten, TlsReceiverDestroy, TrGoto, TrCalls
  <1>19. CASE TrReadFails
    <2>1. TrReading /\ trCall.pc = "read" /\ trSlipped' /\ trConfig.connected
          /\ trHeld' = <<>> /\ trWire' = <<>> /\ UNCHANGED trTerminated
      BY <1>19 DEF TrReadFails, TrConfigured, TrReading
    <2>2. CASE /\ trCall.at > (IF trCall.phase = "head" THEN 0 ELSE 1)
               /\ trCall' = [trCall EXCEPT !.at = @ - 1, !.left = @ + 1]
               /\ UNCHANGED <<trLink, trPeer, trConfig>>
      <3>1. trCall'.pc = "read" /\ trCall'.phase = trCall.phase
            /\ trCall'.at + trCall'.left = trCall.at + trCall.left
        BY <1>0, <2>1, <2>2 DEF TrCalls
      <3> QED
        BY <2>1, <2>2, <3>1 DEF TrConfigured, TrReading, TrWritten
    <2>3. CASE /\ trTerminated /\ TrGoto("reset") /\ trLink' = [trLink EXCEPT !.state = "down"]
               /\ trPeer' = [trPeer EXCEPT !.next = trPeer.size + 1]
               /\ trConfig' = [trConfig EXCEPT !.connected = FALSE,
                    !.pointer = IF trCall.phase = "head" \/ @ # 0 THEN @ ELSE 1]
      <3>1. trCall'.pc = "reset" /\ ~trConfig'.connected /\ trLink'.state = "down"
        BY <1>0, <2>3 DEF TrGoto, TrCalls
      <3>2. TrWritten'
        <4>1. trPeer'.next = trPeer.size + 1 /\ trPeer'.size = trPeer.size /\ trPeer.size \in Nat
          BY <1>0, <2>3, TrPeerNumbers
        <4> QED
          BY <4>1 DEF TrWritten
      <3> QED
        BY <2>1, <2>3, <3>1, <3>2 DEF TrConfigured, TrReading
    <2> QED
      BY <1>19, <2>2, <2>3 DEF TrReadFails
  <1> QED
    BY <1>1, <1>2, <1>3, <1>4, <1>5, <1>6, <1>7, <1>8, <1>9, <1>10, <1>11, <1>12, <1>13, <1>14,
       <1>15, <1>16, <1>17, <1>18, <1>19 DEF TlsReceiverNext

-----------------------------------------------------------------------------
(* The records stay runs of one container's bytes.                         *)
LEMMA TrRunMore ==
  ASSUME NEW s \in Seq(TrBytes), NEW begun \in Nat, NEW more \in Nat, begun <= more,
         TrRun(s, begun)
  PROVE  TrRun(s, more)
  <1>1. ASSUME NEW i \in 1 .. Len(s) PROVE s[1].number \in Nat
    <2>1. 1 \in 1 .. Len(s)
      OBVIOUS
    <2>2. s[1] \in TrBytes
      BY <2>1
    <2> QED
      BY <2>2 DEF TrBytes
  <1> QED
    BY <1>1 DEF TrRun

LEMMA TrRunRest ==
  ASSUME NEW s \in Seq(TrBytes), NEW begun \in Nat, TrRun(s, begun), NEW n \in 1 .. Len(s)
  PROVE  LET rest == SubSeq(s, n + 1, Len(s)) IN
         /\ rest \in Seq(TrBytes) /\ Len(rest) = Len(s) - n /\ TrRun(rest, begun)
         /\ rest # <<>> => rest[1] = TrByte(s[1].number, s[1].place + n, s[1].total)
  <1> DEFINE rest == SubSeq(s, n + 1, Len(s))
  <1>1. Len(s) \in Nat /\ s \in Seq(TrBytes)
    OBVIOUS
  <1>2. rest \in Seq(TrBytes) /\ Len(rest) = Len(s) - n
        /\ \A i \in 1 .. Len(rest) : rest[i] = s[n + i]
    BY <1>1
  <1> HIDE DEF rest
  <1>3. s[1] \in TrBytes /\ s[1].place \in Nat
    <2>1. 1 \in 1 .. Len(s)
      BY <1>1
    <2>2. s[1] \in TrBytes
      BY <2>1
    <2> QED
      BY <2>2 DEF TrBytes
  <1>4. ASSUME NEW i \in 1 .. Len(rest)
        PROVE  rest[i] = TrByte(s[1].number, s[1].place + n + i - 1, s[1].total)
    <2>1. n + i \in 1 .. Len(s) /\ s[1].place + (n + i) - 1 = s[1].place + n + i - 1
      <3>1. n \in Nat /\ i \in Nat /\ n + i \in 1 .. Len(s)
        BY <1>1, <1>2
      <3>2. PICK p \in Nat : p = s[1].place
        BY <1>3
      <3>3. p + (n + i) - 1 = p + n + i - 1
        BY <3>1
      <3> QED
        BY <3>1, <3>2, <3>3
    <2>2. s[n + i] = TrByte(s[1].number, s[1].place + (n + i) - 1, s[1].total)
      BY <2>1 DEF TrRun
    <2> QED
      BY <1>2, <2>1, <2>2
  <1>5. rest # <<>> => rest[1] = TrByte(s[1].number, s[1].place + n, s[1].total)
    <2> SUFFICES ASSUME rest # <<>> PROVE rest[1] = TrByte(s[1].number, s[1].place + n, s[1].total)
      OBVIOUS
    <2>1. 1 \in 1 .. Len(rest) /\ s[1].place + n + 1 - 1 = s[1].place + n
      BY <1>2, <1>3
    <2> QED
      BY <1>4, <2>1
  <1>6. TrRun(rest, begun)
    <2> SUFFICES ASSUME NEW i \in 1 .. Len(rest)
                 PROVE  /\ rest[i] = TrByte(rest[1].number, rest[1].place + i - 1, rest[1].total)
                        /\ rest[i].place <= rest[1].total
                        /\ rest[1].total \in TrPayloads /\ rest[1].number <= begun
      BY DEF TrRun
    <2>1. rest # <<>> /\ 1 \in 1 .. Len(s) /\ n + i \in 1 .. Len(s)
      BY <1>1, <1>2
    <2>2. rest[1].number = s[1].number /\ rest[1].place = s[1].place + n
          /\ rest[1].total = s[1].total
      BY <1>5, <2>1 DEF TrByte
    <2>3. rest[i] = s[n + i] /\ s[n + i].place <= s[1].total
          /\ s[1].total \in TrPayloads /\ s[1].number <= begun
      BY <1>2, <2>1 DEF TrRun
    <2> QED
      BY <1>4, <2>2, <2>3
  <1> QED
    BY <1>2, <1>5, <1>6 DEF rest

(* The records that the peer writes.                                       *)
LEMMA TrPieceRun ==
  ASSUME NEW number \in Nat, NEW total \in TrPayloads, NEW from \in Nat \ {0},
         NEW upto \in from .. total
  PROVE  LET piece == SubSeq(TrPayload(number, total), from, upto) IN
         /\ piece # <<>> /\ TrRun(piece, number) /\ piece[1] = TrByte(number, from, total)
         /\ TrAfter(piece) = TrByte(number, upto + 1, total)
  <1> DEFINE piece == SubSeq(TrPayload(number, total), from, upto)
  <1>1. total \in Nat /\ upto \in Nat /\ from \in Nat
    BY TrPayloadSizes
  <1>2. piece \in Seq(TrBytes) /\ Len(piece) = upto - from + 1
        /\ \A i \in 1 .. Len(piece) : piece[i] = TrByte(number, from + i - 1, total)
    BY <1>1, TrPiece
  <1> HIDE DEF piece
  <1>3. 1 \in 1 .. Len(piece) /\ from + 1 - 1 = from /\ from + Len(piece) = upto + 1
    BY <1>1, <1>2
  <1>4. piece[1] = TrByte(number, from, total) /\ piece # <<>>
    BY <1>2, <1>3
  <1>5. \A i \in 1 .. Len(piece) : from + i - 1 <= total
    BY <1>1, <1>2
  <1>6. TrRun(piece, number)
    BY <1>1, <1>2, <1>4, <1>5 DEF TrRun, TrByte
  <1>7. TrAfter(piece) = TrByte(number, upto + 1, total)
    BY <1>3, <1>4 DEF TrAfter, TrByte
  <1> QED
    BY <1>4, <1>6, <1>7 DEF piece

LEMMA TrFrontRun ==
  ASSUME NEW number \in Nat, NEW total \in TrPayloads, NEW upto \in 1 .. total
  PROVE  LET front == <<TrByte(number, 0, total)>> \o SubSeq(TrPayload(number, total), 1, upto) IN
         /\ front # <<>> /\ TrRun(front, number) /\ front[1] = TrByte(number, 0, total)
         /\ TrAfter(front) = TrByte(number, upto + 1, total)
  <1> DEFINE front == <<TrByte(number, 0, total)>> \o SubSeq(TrPayload(number, total), 1, upto)
  <1>1. total \in Nat /\ upto \in Nat
    BY TrPayloadSizes
  <1>2. front \in Seq(TrBytes) /\ Len(front) = upto + 1
        /\ \A i \in 1 .. Len(front) : front[i] = TrByte(number, i - 1, total)
    BY <1>1, TrFront
  <1> HIDE DEF front
  <1>3. 1 \in 1 .. Len(front) /\ 1 - 1 = 0 /\ 0 + Len(front) = upto + 1
        /\ \A i \in 1 .. Len(front) : 0 + i - 1 = i - 1 /\ i - 1 <= total
    BY <1>1, <1>2
  <1>4. front[1] = TrByte(number, 0, total) /\ front # <<>>
    BY <1>2, <1>3
  <1>5. TrRun(front, number)
    BY <1>1, <1>2, <1>3, <1>4 DEF TrRun, TrByte
  <1>6. TrAfter(front) = TrByte(number, upto + 1, total)
    BY <1>3, <1>4 DEF TrAfter, TrByte
  <1> QED
    BY <1>4, <1>5, <1>6 DEF front

(* What a step of the peer adds to the socket.                             *)
LEMMA TrPeerAdds ==
  ASSUME TrTypeOK, TrPeerContainer \/ TrPeerRecord
  PROVE  \E r \in Seq(TrBytes) :
           /\ trPeer' \in [number : Nat, size : {0} \cup TrPayloads, next : Nat \ {0}]
           /\ r # <<>> /\ TrRun(r, trPeer'.number) /\ trWire' = Append(trWire, r)
           /\ TrAfter(r) = TrByte(trPeer'.number, trPeer'.next, trPeer'.size)
           /\ \/ TrWritten /\ trPeer'.number = trPeer.number + 1 /\ r[1].place = 0
                 /\ r[1].number = trPeer'.number
              \/ ~TrWritten /\ trPeer'.number = trPeer.number
                 /\ r[1] = TrByte(trPeer.number, trPeer.next, trPeer.size)
  <1>0. trPeer \in [number : Nat, size : {0} \cup TrPayloads, next : Nat \ {0}]
    BY DEF TrTypeOK
  <1>1. CASE TrPeerContainer
    <2>1. PICK total \in TrPayloads : \E upto \in 1 .. total :
            /\ trPeer' = [number |-> trPeer.number + 1, size |-> total, next |-> upto + 1]
            /\ trWire' = Append(trWire, <<TrByte(trPeer.number + 1, 0, total)>>
                                 \o SubSeq(TrPayload(trPeer.number + 1, total), 1, upto))
      BY <1>1 DEF TrPeerContainer
    <2>2. PICK upto \in 1 .. total :
            /\ trPeer' = [number |-> trPeer.number + 1, size |-> total, next |-> upto + 1]
            /\ trWire' = Append(trWire, <<TrByte(trPeer.number + 1, 0, total)>>
                                 \o SubSeq(TrPayload(trPeer.number + 1, total), 1, upto))
      BY <2>1
    <2> DEFINE front == <<TrByte(trPeer.number + 1, 0, total)>>
                          \o SubSeq(TrPayload(trPeer.number + 1, total), 1, upto)
    <2>3. trPeer.number + 1 \in Nat /\ total \in Nat
      BY <1>0, TrPayloadSizes
    <2>4. front \in Seq(TrBytes)
      BY <2>3, TrFront
    <2>5. /\ front # <<>> /\ TrRun(front, trPeer.number + 1)
          /\ front[1] = TrByte(trPeer.number + 1, 0, total)
          /\ TrAfter(front) = TrByte(trPeer.number + 1, upto + 1, total)
      BY <2>3, TrFrontRun
    <2>6. trWire' = Append(trWire, front) /\ trPeer'.number = trPeer.number + 1
          /\ trPeer'.next = upto + 1 /\ trPeer'.size = total
      BY <2>2
    <2>7. TrWritten
      BY <1>1 DEF TrPeerContainer
    <2>8. trPeer' \in [number : Nat, size : {0} \cup TrPayloads, next : Nat \ {0}]
      BY <2>2, <2>3
    <2> HIDE DEF front
    <2> QED
      BY <2>4, <2>5, <2>6, <2>7, <2>8 DEF TrByte
  <1>2. CASE TrPeerRecord
    <2>1. PICK upto \in trPeer.next .. trPeer.size :
            /\ trPeer' = [trPeer EXCEPT !.next = upto + 1]
            /\ trWire' = Append(trWire, SubSeq(TrPayload(trPeer.number, trPeer.size),
                                               trPeer.next, upto))
      BY <1>2 DEF TrPeerRecord
    <2> DEFINE piece == SubSeq(TrPayload(trPeer.number, trPeer.size), trPeer.next, upto)
    <2>2. trPeer.number \in Nat /\ trPeer.next \in Nat \ {0} /\ trPeer.size \in Nat
          /\ upto \in trPeer.next .. trPeer.size
      BY <1>0, TrPayloadSizes
    <2>3. trPeer.size # 0
      BY <2>2
    <2>4. trPeer.size \in TrPayloads
      BY <1>0, <2>3
    <2>5. piece \in Seq(TrBytes)
      BY <2>2, TrPiece
    <2>6. /\ piece # <<>> /\ TrRun(piece, trPeer.number)
          /\ piece[1] = TrByte(trPeer.number, trPeer.next, trPeer.size)
          /\ TrAfter(piece) = TrByte(trPeer.number, upto + 1, trPeer.size)
      BY <2>2, <2>4, TrPieceRun
    <2>7. trWire' = Append(trWire, piece) /\ trPeer'.number = trPeer.number
          /\ trPeer'.next = upto + 1 /\ trPeer'.size = trPeer.size
      BY <1>0, <2>1
    <2>8. ~TrWritten
      BY <1>2 DEF TrPeerRecord
    <2>9. trPeer' \in [number : Nat, size : {0} \cup TrPayloads, next : Nat \ {0}]
      <3>1. upto + 1 \in Nat \ {0}
        BY <2>2
      <3> QED
        BY <1>0, <2>1, <3>1
    <2> HIDE DEF piece
    <2> QED
      BY <2>5, <2>6, <2>7, <2>8, <2>9
  <1> QED
    BY <1>1, <1>2

(* What a step leaves alone.                                               *)
LEMMA TrGivenKept ==
  ASSUME [TlsReceiverNext]_trVars, ~TlsMessDone PROVE trGiven' = trGiven
  <1> DEFINE Alike == trGiven' = trGiven
  <1>1. TrPeerContainer \/ TrPeerRecord \/ TrPeerClose => Alike
    BY DEF TrPeerContainer, TrPeerRecord, TrPeerClose
  <1>2. (\E timeout \in TrTimeouts : TlsRecv(timeout)) \/ TlsRecvInit \/ TlsConnectFails
        \/ TlsRecvReset \/ TlsConnect \/ TlsConnectMismatch => Alike
    BY DEF TlsRecv, TlsRecvInit, TlsConnectFails, TlsRecvReset, TlsConnect, TlsConnectMismatch,
           TrNewLink
  <1>3. TrTerminatedInside \/ TrSelectTimeout \/ TrSelect \/ TrDecrypt \/ TrTake \/ TrAgain => Alike
    BY DEF TrTerminatedInside, TrSelectTimeout, TrSelect, TrDecrypt, TrTake, TrAgain
  <1>4. TrBroken \/ TrReadFails \/ TlsHeadDone \/ TlsHeadMisread \/ TlsReceiverTerminate
        \/ TlsReceiverDestroy => Alike
    BY DEF TrBroken, TrReadFails, TlsHeadDone, TlsHeadMisread, TlsReceiverTerminate,
           TlsReceiverDestroy
  <1>5. UNCHANGED trVars => Alike
    BY DEF trVars
  <1> HIDE DEF Alike
  <1>6. Alike
    BY <1>1, <1>2, <1>3, <1>4, <1>5 DEF TlsReceiverNext
  <1> QED
    BY <1>6 DEF Alike

LEMMA TrBufferKept ==
  ASSUME [TlsReceiverNext]_trVars, ~TrTake PROVE trBuf' = trBuf
  <1> DEFINE Alike == trBuf' = trBuf
  <1>1. TrPeerContainer \/ TrPeerRecord \/ TrPeerClose => Alike
    BY DEF TrPeerContainer, TrPeerRecord, TrPeerClose
  <1>2. (\E timeout \in TrTimeouts : TlsRecv(timeout)) \/ TlsRecvInit \/ TlsConnectFails
        \/ TlsRecvReset \/ TlsConnect \/ TlsConnectMismatch => Alike
    BY DEF TlsRecv, TlsRecvInit, TlsConnectFails, TlsRecvReset, TlsConnect, TlsConnectMismatch,
           TrNewLink
  <1>3. TrTerminatedInside \/ TrSelectTimeout \/ TrSelect \/ TrDecrypt \/ TrAgain => Alike
    BY DEF TrTerminatedInside, TrSelectTimeout, TrSelect, TrDecrypt, TrAgain
  <1>4. TrBroken \/ TrReadFails \/ TlsHeadDone \/ TlsHeadMisread \/ TlsMessDone
        \/ TlsReceiverTerminate \/ TlsReceiverDestroy => Alike
    BY DEF TrBroken, TrReadFails, TlsHeadDone, TlsHeadMisread, TlsMessDone, TlsReceiverTerminate,
           TlsReceiverDestroy
  <1>5. UNCHANGED trVars => Alike
    BY DEF trVars
  <1> HIDE DEF Alike
  <1>6. Alike
    BY <1>1, <1>2, <1>3, <1>4, <1>5 DEF TlsReceiverNext
  <1> QED
    BY <1>6 DEF Alike

LEMMA TrPeerCounts ==
  ASSUME TrTypeOK, [TlsReceiverNext]_trVars
  PROVE  trPeer'.number = trPeer.number \/ trPeer'.number = trPeer.number + 1
  <1>0. trPeer \in [number : Nat, size : {0} \cup TrPayloads, next : Nat \ {0}]
    BY DEF TrTypeOK
  <1>1. CASE TrPeerContainer \/ TrPeerRecord
    BY <1>1, TrPeerAdds
  <1>2. CASE TrPeerClose \/ TrReadFails
    BY <1>0, <1>2 DEF TrPeerClose, TrReadFails
  <1>3. CASE trPeer' = trPeer
    BY <1>3
  <1>4. CASE UNCHANGED trVars
    BY <1>3, <1>4 DEF trVars
  <1>5. CASE (\E timeout \in TrTimeouts : TlsRecv(timeout)) \/ TlsRecvInit \/ TlsConnectFails
             \/ TlsRecvReset \/ TlsConnect \/ TlsConnectMismatch
    BY <1>3, <1>5 DEF TlsRecv, TlsRecvInit, TlsConnectFails, TlsRecvReset, TlsConnect,
                      TlsConnectMismatch, TrNewLink, trPeerVars
  <1>6. CASE TrTerminatedInside \/ TrSelectTimeout \/ TrSelect \/ TrDecrypt \/ TrTake \/ TrAgain
    BY <1>3, <1>6 DEF TrTerminatedInside, TrSelectTimeout, TrSelect, TrDecrypt, TrTake, TrAgain,
                      trPeerVars
  <1>7. CASE TrBroken \/ TlsHeadDone \/ TlsHeadMisread \/ TlsMessDone \/ TlsReceiverTerminate
             \/ TlsReceiverDestroy
    BY <1>3, <1>7 DEF TrBroken, TlsHeadDone, TlsHeadMisread, TlsMessDone, TlsReceiverTerminate,
                      TlsReceiverDestroy, trPeerVars
  <1> QED
    BY <1>1, <1>2, <1>4, <1>5, <1>6, <1>7 DEF TlsReceiverNext

LEMMA TrRunsStep ==
  ASSUME TrTypeOK, TrRuns, [TlsReceiverNext]_trVars
  PROVE  TrRuns'
  <1>0. trPeer.number \in Nat /\ trWire \in Seq(Seq(TrBytes)) /\ trHeld \in Seq(TrBytes)
    BY DEF TrTypeOK
  <1>1. CASE TrPeerContainer \/ TrPeerRecord
    <2>1. PICK r \in Seq(TrBytes) :
            /\ r # <<>> /\ TrRun(r, trPeer'.number) /\ trWire' = Append(trWire, r)
            /\ trPeer'.number = trPeer.number + 1 \/ trPeer'.number = trPeer.number
      BY <1>1, TrPeerAdds
    <2>2. PICK more \in Nat : more = trPeer'.number
      BY <1>0, <2>1
    <2>3. trPeer.number <= more
      BY <1>0, <2>1, <2>2
    <2>4. TrRun(trHeld, more)
      BY <1>0, <2>3, TrRunMore DEF TrRuns
    <2>5. ASSUME NEW i \in 1 .. Len(trWire) PROVE trWire[i] # <<>> /\ TrRun(trWire[i], more)
      <3>1. trWire[i] \in Seq(TrBytes) /\ TrRun(trWire[i], trPeer.number) /\ trWire[i] # <<>>
        BY <1>0 DEF TrRuns
      <3> QED
        BY <1>0, <2>3, <3>1, TrRunMore
    <2>6. \A i \in 1 .. Len(trWire') : trWire'[i] = IF i <= Len(trWire) THEN trWire[i] ELSE r
      BY <1>0, <2>1
    <2>7. \A i \in 1 .. Len(trWire') : trWire'[i] # <<>> /\ TrRun(trWire'[i], more)
      <3> SUFFICES ASSUME NEW i \in 1 .. Len(trWire')
                   PROVE  trWire'[i] # <<>> /\ TrRun(trWire'[i], more)
        OBVIOUS
      <3>1. CASE i <= Len(trWire)
        <4>1. i \in 1 .. Len(trWire)
          BY <1>0, <2>1, <3>1
        <4> QED
          BY <2>5, <2>6, <3>1, <4>1
      <3>2. CASE ~(i <= Len(trWire))
        BY <2>1, <2>2, <2>6, <3>2
      <3> QED
        BY <3>1, <3>2
    <2>8. trHeld' = trHeld
      BY <1>1 DEF TrPeerContainer, TrPeerRecord
    <2> QED
      BY <2>2, <2>4, <2>7, <2>8 DEF TrRuns
  <1>2. CASE UNCHANGED <<trHeld, trWire>> /\ trPeer'.number = trPeer.number
    BY <1>2 DEF TrRuns
  <1>3. CASE trHeld' = <<>> /\ trWire' = <<>>
    BY <1>3 DEF TrRuns, TrRun
  <1>4. CASE TrDecrypt
    <2>1. trHeld' = Head(trWire) /\ trWire' = Tail(trWire) /\ trWire # <<>> /\ trPeer' = trPeer
      BY <1>4 DEF TrDecrypt
    <2>2. trHeld' = trWire[1] /\ 1 \in 1 .. Len(trWire)
      BY <1>0, <2>1
    <2>3. \A i \in 1 .. Len(trWire') : trWire'[i] = trWire[i + 1] /\ i + 1 \in 1 .. Len(trWire)
      BY <1>0, <2>1
    <2> QED
      BY <2>1, <2>2, <2>3 DEF TrRuns
  <1>5. CASE TrTake
    <2> DEFINE n == IF trCall.left < Len(trHeld) THEN trCall.left ELSE Len(trHeld)
    <2>1. trCall.left \in Nat /\ trCall.left > 0 /\ trHeld # <<>> /\ Len(trHeld) \in Nat
      BY <1>0, <1>5 DEF TrTake, TrTypeOK, TrCalls
    <2>2. n \in 1 .. Len(trHeld)
      BY <1>0, <2>1
    <2>3. trHeld' = SubSeq(trHeld, n + 1, Len(trHeld)) /\ UNCHANGED <<trWire, trPeer>>
      BY <1>5 DEF TrTake, trPeerVars
    <2> HIDE DEF n
    <2>4. TrRun(trHeld', trPeer.number)
      BY <1>0, <2>2, <2>3, TrRunRest DEF TrRuns
    <2> QED
      BY <2>3, <2>4 DEF TrRuns
  <1>6. CASE UNCHANGED trVars
    BY <1>2, <1>6 DEF trVars
  <1>7. CASE TrPeerClose
    <2>1. trPeer'.number = trPeer.number /\ trHeld' = trHeld /\ (trWire' = trWire \/ trWire' = <<>>)
      BY <1>7 DEF TrPeerClose, TrTypeOK
    <2>2. CASE trWire' = <<>>
      BY <2>1, <2>2 DEF TrRuns
    <2> QED
      BY <1>2, <2>1, <2>2
  <1>8. CASE \E timeout \in TrTimeouts : TlsRecv(timeout)
    BY <1>2, <1>8 DEF TlsRecv, trPeerVars
  <1>9. CASE TlsRecvInit \/ TlsConnectFails \/ TlsRecvReset \/ TrSelect
    BY <1>2, <1>9 DEF TlsRecvInit, TlsConnectFails, TlsRecvReset, TrSelect, trPeerVars
  <1>10. CASE TlsConnect \/ TlsConnectMismatch
    BY <1>3, <1>10 DEF TlsConnect, TlsConnectMismatch, TrNewLink
  <1>11. CASE TrTerminatedInside \/ TrSelectTimeout \/ TrAgain \/ TrBroken
    BY <1>2, <1>11 DEF TrTerminatedInside, TrSelectTimeout, TrAgain, TrBroken, trPeerVars
  <1>12. CASE TlsHeadDone \/ TlsMessDone \/ TlsReceiverTerminate
    BY <1>2, <1>12 DEF TlsHeadDone, TlsMessDone, TlsReceiverTerminate, trPeerVars
  <1>13. CASE TlsReceiverDestroy
    BY <1>3, <1>13 DEF TlsReceiverDestroy
  <1>14. CASE TrReadFails \/ TlsHeadMisread
    <2>1. trPeer'.number = trPeer.number
      BY <1>14 DEF TrReadFails, TlsHeadMisread, trPeerVars, TrTypeOK
    <2>2. UNCHANGED <<trHeld, trWire>>
      BY <1>14 DEF TrReadFails, TlsHeadMisread, trPeerVars
    <2> QED
      BY <1>2, <2>1, <2>2
  <1> QED
    BY <1>1, <1>4, <1>5, <1>6, <1>7, <1>8, <1>9, <1>10, <1>11, <1>12, <1>13, <1>14
    DEF TlsReceiverNext

-----------------------------------------------------------------------------
(* The end of the payload: at + left only changes where a phase begins.    *)
LEMMA TrCountsKept ==
  ASSUME NEW n, TrCounts(n), trCall'.length = trCall.length
  PROVE  TrCounts(n)'
  BY DEF TrCounts

LEMMA TrReadingKept ==
  ASSUME TrTypeOK, TrCounted, TrReading, trCall'.pc \in {"select", "read"},
         trCall.pc = "read" \/ trCall'.left = trCall.left,
         trCall'.phase = trCall.phase,
         trCall'.at + trCall'.left - 1 = trCall.at + trCall.left - 1,
         trCall.phase = "mess" => trCall'.length = trCall.length,
         trCall.phase = "head" /\ trCall'.left = 0 => trCall'.length \in {0} \cup TrPayloads,
         UNCHANGED trConfig
  PROVE  TrCounted'
  <1>1. TrReading'
    BY DEF TrReading
  <1>2. ASSUME trCall.phase = "mess" PROVE TrCounts(trCall.at + trCall.left - 1)'
    <2>1. TrCounts(trCall.at + trCall.left - 1)
      BY <1>2 DEF TrCounted
    <2> QED
      BY <1>2, <2>1 DEF TrCounts
  <1> QED
    BY <1>1, <1>2 DEF TrCounted

LEMMA TrHeadBegins ==
  ASSUME TrTypeOK, trConfig.pointer = 0, TrHeadWait(TRUE)
  PROVE  TrCounted'
  <1>1. trCall'.phase = "head" /\ trCall'.left = 1 /\ TrReading' /\ trConfig'.pointer = 0
    BY DEF TrHeadWait, TrWaitFor, TrTypeOK, TrCalls, TrReading
  <1> QED
    BY <1>1 DEF TrCounted

LEMMA TrCountedTake ==
  ASSUME TrTypeOK, TrConfigured, TrCounted, TrRuns, TrTake
  PROVE  TrCounted'
  <1>0. trHeld \in Seq(TrBytes) /\ trHeld # <<>> /\ trCall \in TrCalls /\ trCall.pc = "read"
        /\ trCall.left > 0 /\ UNCHANGED trConfig
    BY DEF TrTypeOK, TrTake
  <1>1. PICK n \in 1 .. Len(trHeld) :
          /\ n = IF trCall.left < Len(trHeld) THEN trCall.left ELSE Len(trHeld)
          /\ n <= trCall.left
    BY <1>0 DEF TrCalls
  <1>2. trCall.at \in Nat /\ trCall.left \in Nat /\ n \in Nat
    BY <1>0 DEF TrCalls
  <1>3. CASE trCall.phase = "head"
    <2>1. trCall' = [[trCall EXCEPT !.at = @ + n, !.left = @ - n] EXCEPT !.length =
                       IF 1 \in trCall.at .. trCall.at + n - 1
                       THEN TrHeadLength(trHeld[2 - trCall.at]) ELSE @]
      BY <1>1, <1>3 DEF TrTake
    <2>2. trCall'.pc = "read" /\ trCall'.phase = "head" /\ trCall'.at = trCall.at + n
          /\ trCall'.left = trCall.left - n
          /\ trCall'.length = IF 1 \in trCall.at .. trCall.at + n - 1
                              THEN TrHeadLength(trHeld[2 - trCall.at]) ELSE trCall.length
      BY <1>0, <1>3, <2>1 DEF TrCalls
    <2>3. trCall.at + trCall.left = 2
      BY <1>0, <1>3 DEF TrConfigured, TrReading
    <2>4. ASSUME trCall'.left = 0 PROVE trCall'.length \in {0} \cup TrPayloads
      <3>1. 1 \in trCall.at .. trCall.at + n - 1 /\ 2 - trCall.at \in 1 .. Len(trHeld)
        BY <1>0, <1>1, <1>2, <2>2, <2>3, <2>4
      <3>2. 1 \in 1 .. Len(trHeld)
        BY <1>0
      <3>3. trHeld[2 - trCall.at].total = trHeld[1].total /\ trHeld[1].total \in TrPayloads
        <4>1. PICK i \in 1 .. Len(trHeld) : i = 2 - trCall.at
          BY <3>1
        <4>2. trHeld[i] = TrByte(trHeld[1].number, trHeld[1].place + i - 1, trHeld[1].total)
              /\ trHeld[1].total \in TrPayloads
          BY DEF TrRuns, TrRun
        <4>3. trHeld[i].total = trHeld[1].total
          BY <4>2 DEF TrByte
        <4> QED
          BY <4>1, <4>2, <4>3
      <3> QED
        BY <2>2, <3>1, <3>3 DEF TrHeadLength
    <2>5. trCall'.at + trCall'.left - 1 = trCall.at + trCall.left - 1
      BY <1>2, <2>2
    <2> QED
      BY <1>0, <1>3, <2>2, <2>4, <2>5, TrReadingKept DEF TrReading
  <1>4. CASE trCall.phase # "head"
    <2>1. trCall' = [trCall EXCEPT !.at = @ + n, !.left = @ - n]
      BY <1>1, <1>4 DEF TrTake
    <2>2. trCall'.pc = "read" /\ trCall'.phase = trCall.phase /\ trCall'.length = trCall.length
          /\ trCall'.at + trCall'.left - 1 = trCall.at + trCall.left - 1
      BY <1>0, <1>2, <2>1 DEF TrCalls
    <2> QED
      BY <1>0, <1>4, <2>2, TrReadingKept DEF TrReading
  <1> QED
    BY <1>3, <1>4

LEMMA TrCountedStep ==
  ASSUME TrTypeOK, TrConfigured, TrCounted, TrRuns, [TlsReceiverNext]_trVars
  PROVE  TrCounted'
  <1>0. trCall \in TrCalls /\ trConfig \in [connected : BOOLEAN, pointer : Nat, wait : Nat]
        /\ trHeld \in Seq(TrBytes)
    BY DEF TrTypeOK
  <1>1. CASE UNCHANGED <<trCall, trConfig>>
    BY <1>1 DEF TrCounted, TrCounts, TrReading
  <1>2. CASE UNCHANGED trVars \/ TrPeerContainer \/ TrPeerRecord \/ TrPeerClose \/ TrDecrypt
             \/ TlsReceiverTerminate
    BY <1>1, <1>2 DEF trVars, TrPeerContainer, TrPeerRecord, TrPeerClose, TrDecrypt,
                      TlsReceiverTerminate
  <1>3. CASE \E timeout \in TrTimeouts : TlsRecv(timeout)
    <2>1. ~TrReading' /\ trCall'.length = -1 /\ UNCHANGED trConfig
      BY <1>0, <1>3 DEF TlsRecv, TrCalls, TrReading
    <2> QED
      BY <2>1 DEF TrCounted, TrCounts
  <1>4. CASE TlsConnectFails \/ TlsRecvReset \/ TlsHeadMisread \/ TlsReceiverDestroy
    <2>1. ~TrReading' /\ trCall'.length = trCall.length /\ (trConfig'.connected => UNCHANGED trConfig)
          /\ (trCall'.pc # "idle" /\ trConfig'.connected =>
                (~TrReading /\ trCall.pc # "idle") \/ trConfig'.pointer = 0)
      BY <1>0, <1>4 DEF TlsConnectFails, TlsRecvReset, TlsHeadMisread, TlsReceiverDestroy, TrReturn,
                        TrGoto, TrCalls, TrReading, TrConfigured
    <2> QED
      BY <2>1 DEF TrCounted, TrCounts
  <1>5. CASE TlsRecvInit
    <2>1. trCall.pc = "init" /\ ~TrReading
      BY <1>5 DEF TlsRecvInit, TrReading
    <2>2. CASE TrGoto("connect") /\ UNCHANGED trConfig
      BY <1>0, <2>1, <2>2 DEF TrGoto, TrCalls, TrReading, TrCounted, TrCounts
    <2>3. CASE trConfig.pointer = 0 /\ TrHeadWait(TRUE)
      BY <1>0, <2>1, <2>3, TrHeadBegins
    <2>4. CASE /\ trConfig.connected /\ trConfig.pointer # 0
               /\ TrWaitFor("mess", trConfig.pointer, trConfig.wait) /\ UNCHANGED trConfig
      <3>1. trCall'.phase = "mess" /\ trCall'.at = trConfig.pointer /\ trCall'.left = trConfig.wait
            /\ trCall'.length = trCall.length /\ TrReading'
        BY <1>0, <2>4 DEF TrWaitFor, TrCalls, TrReading
      <3>2. TrCounts(trConfig.pointer + trConfig.wait - 1)
        BY <2>1, <2>4 DEF TrCounted
      <3>3. TrCounts(trCall.at + trCall.left - 1)'
        BY <3>1, <3>2 DEF TrCounts
      <3> QED
        BY <2>4, <3>1, <3>3 DEF TrCounted
    <2> QED
      BY <1>5, <2>2, <2>3, <2>4 DEF TlsRecvInit
  <1>6. CASE TlsConnect
    <2>1. trConfig.pointer = 0 /\ TrHeadWait(TRUE)
      BY <1>6 DEF TlsConnect, TrNewLink, TrConfigured
    <2> QED
      BY <2>1, TrHeadBegins
  <1>7. CASE TlsConnectMismatch
    <2>1. trConfig'.pointer = 0 /\ ~TrReading'
      BY <1>0, <1>7 DEF TlsConnectMismatch, TrNewLink, TrConfigured, TrReturn, TrGoto, TrCalls,
                        TrReading
    <2> QED
      BY <2>1 DEF TrCounted
  <1>8. CASE TrTerminatedInside \/ TrSelectTimeout \/ TrAgain
    <2>1. TrReading /\ TrInterrupted(trCall.at, trCall.left)
      BY <1>8 DEF TrReading, TrTerminatedInside, TrSelectTimeout, TrAgain
    <2>2. ~TrReading' /\ trCall'.length = trCall.length /\ trConfig'.wait = trCall.left
          /\ trConfig'.pointer = IF trCall.phase = "mess" THEN trCall.at ELSE trConfig.pointer
      BY <1>0, <2>1 DEF TrInterrupted, TrGoto, TrCalls, TrReading
    <2>3. CASE trCall.phase = "mess"
      <3>1. TrCounts(trCall.at + trCall.left - 1)
        BY <2>1, <2>3 DEF TrCounted
      <3>2. TrCounts(trConfig.pointer + trConfig.wait - 1)'
        BY <2>2, <2>3, <3>1 DEF TrCounts
      <3> QED
        BY <2>2, <3>2 DEF TrCounted, TrCounts
    <2>4. CASE trCall.phase # "mess"
      <3>1. trConfig'.pointer = 0
        BY <1>0, <2>1, <2>2, <2>4 DEF TrConfigured, TrCalls
      <3> QED
        BY <2>2, <3>1 DEF TrCounted
    <2> QED
      BY <2>3, <2>4
  <1>9. CASE TrSelect
    <2>1. trCall'.pc = "read" /\ trCall.pc = "select" /\ trCall'.phase = trCall.phase
          /\ trCall'.at = trCall.at /\ trCall'.left = trCall.left /\ trCall'.length = trCall.length
          /\ UNCHANGED trConfig
      BY <1>0, <1>9 DEF TrSelect, TrGoto, TrCalls
    <2>2. TrReading /\ trCall.left > 0
      BY <2>1 DEF TrReading, TrConfigured
    <2>3. trCall.left # 0
      BY <1>0, <2>2 DEF TrCalls
    <2> QED
      BY <2>1, <2>2, <2>3, TrReadingKept
  <1>10. CASE TrTake
    BY <1>10, TrCountedTake
  <1>11. CASE TrBroken
    <2>1. trConfig'.pointer = 0 /\ ~TrReading'
      BY <1>0, <1>11 DEF TrBroken, TrDiscard, TrGoto, TrCalls, TrReading
    <2> QED
      BY <2>1 DEF TrCounted
  <1>12. CASE TrReadFails
    <2>1. TrReading /\ trCall.pc = "read"
      BY <1>12 DEF TrReadFails, TrReading
    <2>2. CASE trCall' = [trCall EXCEPT !.at = @ - 1, !.left = @ + 1] /\ UNCHANGED trConfig
      <3>1. trCall.at \in Nat /\ trCall.left \in Nat
        BY <1>0 DEF TrCalls
      <3>2. trCall'.pc = "read" /\ trCall'.phase = trCall.phase /\ trCall'.length = trCall.length
            /\ trCall'.at + trCall'.left - 1 = trCall.at + trCall.left - 1 /\ trCall'.left # 0
        BY <1>0, <2>1, <2>2, <3>1 DEF TrCalls
      <3> QED
        BY <2>1, <2>2, <3>2, TrReadingKept
    <2>3. CASE TrGoto("reset") /\ ~trConfig'.connected
      <3>1. ~TrReading'
        BY <1>0, <2>3 DEF TrGoto, TrCalls, TrReading
      <3> QED
        BY <2>3, <3>1 DEF TrCounted
    <2> QED
      BY <1>0, <1>12, <2>2, <2>3 DEF TrReadFails
  <1>13. CASE TlsHeadDone
    <2>1. TrReading /\ trCall.phase = "head" /\ trCall.left = 0 /\ trCall.length > 0
      BY <1>13 DEF TlsHeadDone, TrReading
    <2>2. trCall.length \in TrPayloads /\ trCall.length \in Nat
      BY <1>0, <2>1, TrPayloadSizes DEF TrCounted, TrCalls
    <2>3. trCall'.phase = "mess" /\ trCall'.at = 1 /\ trCall'.left = trCall.length /\ TrReading'
          /\ trCall'.length = trCall.length /\ trConfig'.pointer = 0
      BY <1>0, <1>13, <2>1 DEF TlsHeadDone, TrWaitFor, TrCalls, TrReading, TrConfigured
    <2>4. trCall'.at + trCall'.left - 1 = trCall.length
      BY <2>2, <2>3
    <2> QED
      BY <2>2, <2>3, <2>4 DEF TrCounted, TrCounts
  <1>14. CASE TlsMessDone
    <2>1. trConfig'.pointer = 0 /\ ~TrReading'
      BY <1>0, <1>14 DEF TlsMessDone, TrGoto, TrCalls, TrReading
    <2> QED
      BY <2>1 DEF TrCounted
  <1> QED
    BY <1>2, <1>3, <1>4, <1>5, <1>6, <1>7, <1>8, <1>9, <1>10, <1>11, <1>12, <1>13, <1>14
    DEF TlsReceiverNext

-----------------------------------------------------------------------------
(* What is in the buffer, and was returned, is not newer than the peer.    *)
LEMMA TrLastType ==
  ASSUME TrTypeOK PROVE TrLastNumber \in Nat
  <1>1. trGiven.bytes \in Seq(TrBytes)
    BY DEF TrTypeOK
  <1>2. trGiven.bytes # <<>> => trGiven.bytes[1] \in TrBytes
    BY <1>1
  <1> QED
    BY <1>2 DEF TrLastNumber, TrBytes

LEMMA TrGivenNow ==
  ASSUME TlsMessDone
  PROVE  /\ trGiven'.before = TrLastNumber
         /\ trGiven'.bytes = SubSeq(trBuf, 1, trCall.at - 1)
         /\ trGiven'.begun => trCall.length > 0
         /\ trCall.length > 0 => trGiven'.size = trCall.length
         /\ trGiven'.slipped = trSlipped
  <1>1. PICK size \in IF trCall.length > 0 THEN {trCall.length} ELSE 0 .. TrMaxPayload :
          trGiven' = [before |-> TrLastNumber,
                      bytes |-> SubSeq(trBuf, 1, trCall.at - 1), size |-> size,
                      begun |-> trCall.length > 0, slipped |-> trSlipped]
    BY DEF TlsMessDone, TrLastNumber
  <1> QED
    BY <1>1

LEMMA TrGivenSize ==
  ASSUME TrTypeOK, TrCounted, TlsMessDone
  PROVE  /\ Len(trGiven'.bytes) = trCall.at - 1 /\ trCall.at - 1 \in TrPayloads
         /\ trGiven'.bytes # <<>> /\ trGiven'.bytes[1] = trBuf[1]
         /\ trGiven'.begun => trGiven'.size = Len(trGiven'.bytes)
  <1>1. trCall.at \in Nat /\ trCall.left = 0 /\ TrCounts(trCall.at + trCall.left - 1)
        /\ trCall.length \in Int
    BY DEF TlsMessDone, TrCounted, TrReading, TrTypeOK, TrCalls
  <1>2. TrCounts(trCall.at - 1)
    <2>1. trCall.at + trCall.left - 1 = trCall.at - 1
      BY <1>1
    <2> QED
      BY <1>1, <2>1
  <1>3. trCall.at - 1 \in Nat \ {0} /\ trCall.at - 1 <= TrMaxPayload /\ TrMaxPayload \in Nat
    BY <1>2, TrPayloadSizes DEF TrCounts
  <1>4. trBuf \in Seq(TrBytes) /\ Len(trBuf) = TrMaxPayload
    BY <1>3 DEF TrTypeOK
  <1> DEFINE given == SubSeq(trBuf, 1, trCall.at - 1)
  <1>5. given \in Seq(TrBytes) /\ Len(given) = trCall.at - 1 /\ given[1] = trBuf[1]
    <2>1. PICK n \in Nat \ {0} : n = trCall.at - 1 /\ n <= TrMaxPayload
      BY <1>3
    <2>2. n \in Nat \ {0} /\ n <= TrMaxPayload /\ TrMaxPayload \in Nat
      BY <1>3, <2>1
    <2>3. SubSeq(trBuf, 1, n) \in Seq(TrBytes) /\ Len(SubSeq(trBuf, 1, n)) = n
          /\ SubSeq(trBuf, 1, n)[1] = trBuf[1]
      BY <1>4, <2>2
    <2> QED
      BY <2>1, <2>3
  <1>6. trGiven'.bytes = given /\ (trGiven'.begun => trCall.length > 0)
        /\ (trCall.length > 0 => trGiven'.size = trCall.length)
    BY TrGivenNow
  <1> HIDE DEF given
  <1>7. given # <<>>
    BY <1>3, <1>5
  <1> QED
    BY <1>1, <1>2, <1>5, <1>6, <1>7 DEF TrCounts

LEMMA TrOldStep ==
  ASSUME TrTypeOK, TrCounted, TrOld, TrRuns, [TlsReceiverNext]_trVars
  PROVE  TrOld'
  <1>0. trPeer.number \in Nat /\ trBuf \in [1 .. TrMaxPayload -> TrBytes] /\ TrLastNumber \in Nat
    BY TrLastType DEF TrTypeOK
  <1>1. PICK more \in Nat : more = trPeer'.number /\ trPeer.number <= more
    BY <1>0, TrPeerCounts
  <1>2. \A i \in 1 .. TrMaxPayload : trBuf[i].number \in Nat /\ trBuf[i].number <= more
    <2>1. \A i \in 1 .. TrMaxPayload : trBuf[i].number \in Nat
      BY <1>0 DEF TrBytes
    <2> QED
      BY <1>0, <1>1, <2>1 DEF TrOld
  <1>3. TrLastNumber <= more
    BY <1>0, <1>1 DEF TrOld
  <1>4. CASE TlsMessDone
    <2>1. trGiven'.bytes # <<>> /\ trGiven'.bytes[1] = trBuf[1] /\ trCall.at - 1 \in TrPayloads
      BY <1>4, TrGivenSize
    <2>2. 1 \in 1 .. TrMaxPayload
      BY TrPayloadSizes
    <2>3. trBuf' = trBuf
      BY <1>4 DEF TlsMessDone
    <2> QED
      BY <1>0, <1>1, <1>2, <2>1, <2>2, <2>3 DEF TrOld, TrLastNumber
  <1>5. CASE TrTake
    <2>1. trGiven' = trGiven
      BY <1>5 DEF TrTake
    <2>2. DOMAIN trBuf' = 1 .. TrMaxPayload
      BY <1>0, <1>5 DEF TrTake
    <2>3. ASSUME NEW i \in 1 .. TrMaxPayload PROVE trBuf'[i].number <= more
      <3> DEFINE n == IF trCall.left < Len(trHeld) THEN trCall.left ELSE Len(trHeld)
      <3>1. CASE trBuf' = trBuf
        BY <1>2, <3>1
      <3>2. CASE trBuf' = [j \in DOMAIN trBuf |->
                   IF j \in trCall.at .. trCall.at + n - 1 THEN trHeld[j - trCall.at + 1]
                   ELSE trBuf[j]]
        <4>1. trHeld \in Seq(TrBytes) /\ trCall.at \in Nat /\ trCall.left \in Nat
          BY DEF TrTypeOK, TrCalls
        <4>2. CASE i \in trCall.at .. trCall.at + n - 1
          <5>1. i - trCall.at + 1 \in 1 .. Len(trHeld) /\ 1 \in 1 .. Len(trHeld)
            BY <4>1, <4>2, TrPayloadSizes
          <5>2. trHeld[i - trCall.at + 1].number = trHeld[1].number
                /\ trHeld[1].number <= trPeer.number
            <6>1. PICK j \in 1 .. Len(trHeld) : j = i - trCall.at + 1
              BY <5>1
            <6>2. trHeld[j] = TrByte(trHeld[1].number, trHeld[1].place + j - 1, trHeld[1].total)
                  /\ trHeld[1].number <= trPeer.number
              BY DEF TrRuns, TrRun
            <6>3. trHeld[j].number = trHeld[1].number
              BY <6>2 DEF TrByte
            <6> QED
              BY <6>1, <6>2, <6>3
          <5>3. trHeld[1].number \in Nat
            <6>1. trHeld[1] \in TrBytes
              BY <4>1, <5>1
            <6> QED
              BY <6>1 DEF TrBytes
          <5> HIDE DEF n
          <5>4. trBuf'[i] = trHeld[i - trCall.at + 1]
            BY <1>0, <3>2, <4>2
          <5> QED
            BY <1>0, <1>1, <5>2, <5>3, <5>4
        <4>3. CASE i \notin trCall.at .. trCall.at + n - 1
          <5> HIDE DEF n
          <5> QED
            BY <1>0, <1>2, <3>2, <4>3
        <4> QED
          BY <4>2, <4>3
      <3> QED
        BY <1>5, <3>1, <3>2 DEF TrTake
    <2> QED
      BY <1>1, <1>3, <2>1, <2>2, <2>3 DEF TrOld, TrLastNumber
  <1>6. CASE ~TlsMessDone /\ ~TrTake
    <2>1. trGiven' = trGiven
      BY <1>6, TrGivenKept
    <2>2. trBuf' = trBuf
      BY <1>6, TrBufferKept
    <2> QED
      BY <1>0, <1>1, <1>2, <1>3, <2>1, <2>2 DEF TrOld, TrLastNumber
  <1> QED
    BY <1>4, <1>5, <1>6

-----------------------------------------------------------------------------
(* The stream of bytes over the steps that move it.                        *)
LEMMA TrStreamKept ==
  ASSUME NEW q, TrStream(q), UNCHANGED <<trLink, trPeer, trWire, trHeld>>
  PROVE  TrStream(q)'
  BY DEF TrStream, TrAtPeer, TrWritten

LEMMA TrStreamWritten ==
  ASSUME TrTypeOK, NEW q \in TrBytes, TrStream(q), TrPeerContainer \/ TrPeerRecord,
         TrRuns
  PROVE  TrStream(q)'
  <1>0. trPeer \in [number : Nat, size : {0} \cup TrPayloads, next : Nat \ {0}]
        /\ trWire \in Seq(Seq(TrBytes)) /\ trHeld \in Seq(TrBytes)
    BY DEF TrTypeOK
  <1>1. PICK r \in Seq(TrBytes) :
          /\ trPeer' \in [number : Nat, size : {0} \cup TrPayloads, next : Nat \ {0}]
          /\ r # <<>> /\ TrRun(r, trPeer'.number) /\ trWire' = Append(trWire, r)
          /\ TrAfter(r) = TrByte(trPeer'.number, trPeer'.next, trPeer'.size)
          /\ \/ TrWritten /\ trPeer'.number = trPeer.number + 1 /\ r[1].place = 0
                /\ r[1].number = trPeer'.number
             \/ ~TrWritten /\ trPeer'.number = trPeer.number
                /\ r[1] = TrByte(trPeer.number, trPeer.next, trPeer.size)
    BY TrPeerAdds
  <1>2. trLink.state = "up" /\ UNCHANGED <<trLink, trHeld>>
    BY DEF TrPeerContainer, TrPeerRecord
  <1> DEFINE e == IF trWire = <<>> THEN IF trHeld = <<>> THEN q ELSE TrAfter(trHeld)
                  ELSE TrAfter(trWire[Len(trWire)])
  <1>3. TrAtPeer(e)
    BY <1>2 DEF TrStream
  <1>4. TrComes(e, r[1])
    <2> HIDE DEF e
    <2>1. CASE e.place <= e.total
      <3>1. e = TrByte(trPeer.number, trPeer.next, trPeer.size)
        BY <1>3, <2>1 DEF TrAtPeer
      <3>2. ~TrWritten
        <4>1. trPeer.next <= trPeer.size
          BY <2>1, <3>1 DEF TrByte
        <4>2. trPeer.next \in Int /\ trPeer.size \in Int
          BY <1>0, TrPeerNumbers
        <4> QED
          BY <4>1, <4>2 DEF TrWritten
      <3> QED
        BY <1>1, <2>1, <3>1, <3>2 DEF TrComes
    <2>2. CASE ~(e.place <= e.total)
      <3>1. TrWritten /\ e.number <= trPeer.number
        BY <1>3, <2>2 DEF TrAtPeer
      <3>2. e.number \in Nat
        <4>1. trHeld # <<>> => trHeld[1] \in TrBytes
          BY <1>0
        <4>2. trWire # <<>> => trWire[Len(trWire)] \in Seq(TrBytes)
                               /\ trWire[Len(trWire)] # <<>>
          BY <1>0 DEF TrRuns
        <4>3. trWire # <<>> => trWire[Len(trWire)][1] \in TrBytes
          BY <4>2
        <4> QED
          BY <4>1, <4>3 DEF e, TrAfter, TrByte, TrBytes
      <3>3. r[1].place = 0 /\ r[1].number > e.number
        BY <1>0, <1>1, <3>1, <3>2
      <3> QED
        BY <2>2, <3>3 DEF TrComes
    <2> QED
      BY <2>1, <2>2
  <1>5. Len(trWire') = Len(trWire) + 1 /\ trWire'[Len(trWire')] = r /\ trWire' # <<>>
        /\ (\A i \in 1 .. Len(trWire) : trWire'[i] = trWire[i])
        /\ (trWire = <<>> => trWire'[1] = r) /\ (trWire # <<>> => trWire'[1] = trWire[1])
    <2>1. Len(trWire') = Len(trWire) + 1 /\ trWire'[Len(trWire')] = r /\ trWire' # <<>>
          /\ \A i \in 1 .. Len(trWire) : trWire'[i] = trWire[i]
      BY <1>0, <1>1
    <2>2. trWire = <<>> => Len(trWire') = 1
      BY <1>0, <2>1
    <2>3. trWire # <<>> => 1 \in 1 .. Len(trWire)
      BY <1>0
    <2> QED
      BY <2>1, <2>2, <2>3
  <1>6. \A i \in 1 .. Len(trWire') - 1 : TrComes(TrAfter(trWire'[i]), trWire'[i + 1][1])
    <2> SUFFICES ASSUME NEW i \in 1 .. Len(trWire') - 1
                 PROVE  TrComes(TrAfter(trWire'[i]), trWire'[i + 1][1])
      OBVIOUS
    <2>1. i \in 1 .. Len(trWire) /\ trWire'[i] = trWire[i] /\ trWire # <<>>
      BY <1>0, <1>5
    <2>2. CASE i = Len(trWire)
      <3>1. trWire'[i + 1] = r /\ e = TrAfter(trWire[i])
        BY <1>5, <2>1, <2>2
      <3> QED
        BY <1>4, <2>1, <3>1
    <2>3. CASE i # Len(trWire)
      <3>1. i \in 1 .. Len(trWire) - 1 /\ i + 1 \in 1 .. Len(trWire)
        BY <1>0, <2>1, <2>3
      <3>2. trWire'[i + 1] = trWire[i + 1] /\ TrComes(TrAfter(trWire[i]), trWire[i + 1][1])
        BY <1>5, <3>1 DEF TrStream
      <3> QED
        BY <2>1, <3>2
    <2> QED
      BY <2>2, <2>3
  <1>7. TrAtPeer(TrAfter(r))'
    <2>1. CASE trPeer'.next <= trPeer'.size
      BY <1>1, <2>1 DEF TrAtPeer, TrByte
    <2>2. CASE ~(trPeer'.next <= trPeer'.size)
      <3>1. trPeer'.next \in Int /\ trPeer'.size \in Int /\ trPeer'.number \in Int
        BY <1>1, TrPeerNumbers
      <3>2. TrWritten'
        BY <2>2, <3>1 DEF TrWritten
      <3> QED
        BY <1>1, <2>2, <3>1, <3>2 DEF TrAtPeer, TrByte
    <2> QED
      BY <2>1, <2>2
  <1>8. LET s == IF trHeld' = <<>> THEN q ELSE TrAfter(trHeld') IN TrComes(s, trWire'[1][1])
    <2>1. CASE trWire = <<>>
      BY <1>2, <1>4, <1>5, <2>1
    <2>2. CASE trWire # <<>>
      BY <1>2, <1>5, <2>2 DEF TrStream
    <2> QED
      BY <2>1, <2>2
  <1> HIDE DEF e
  <1>9. trHeld' # <<>> => TrComes(q, trHeld'[1])
    BY <1>2 DEF TrStream
  <1>10. TrAtPeer(IF trWire = <<>> THEN IF trHeld = <<>> THEN q ELSE TrAfter(trHeld)
                  ELSE TrAfter(trWire[Len(trWire)]))'
    <2>1. (IF trWire = <<>> THEN IF trHeld = <<>> THEN q ELSE TrAfter(trHeld)
           ELSE TrAfter(trWire[Len(trWire)]))' = TrAfter(r)
      BY <1>5
    <2> QED
      BY <1>7, <2>1 DEF TrAtPeer
  <1> QED
    BY <1>6, <1>8, <1>9, <1>10 DEF TrStream

LEMMA TrStreamDecrypt ==
  ASSUME TrTypeOK, TrRuns, NEW q \in TrBytes, TrStream(q), TrDecrypt
  PROVE  TrStream(q)'
  <1>1. trHeld = <<>> /\ trWire # <<>> /\ trHeld' = Head(trWire) /\ trWire' = Tail(trWire)
        /\ UNCHANGED <<trLink, trPeer>>
    BY DEF TrDecrypt
  <1>2. trWire \in Seq(Seq(TrBytes)) /\ 1 \in 1 .. Len(trWire) /\ Len(trWire) \in Nat
    BY <1>1 DEF TrTypeOK
  <1>3. trHeld' = trWire[1] /\ trHeld' # <<>>
    BY <1>1, <1>2 DEF TrRuns
  <1>4. Len(trWire') = Len(trWire) - 1
        /\ \A i \in 1 .. Len(trWire') : trWire'[i] = trWire[i + 1] /\ i + 1 \in 1 .. Len(trWire)
    BY <1>1, <1>2
  <1>5. TrComes(q, trHeld'[1])
    BY <1>1, <1>3 DEF TrStream
  <1>6. \A i \in 1 .. Len(trWire) - 1 : TrComes(TrAfter(trWire[i]), trWire[i + 1][1])
    BY DEF TrStream
  <1>7. trWire' # <<>> => TrComes(TrAfter(trHeld'), trWire'[1][1])
    <2> SUFFICES ASSUME trWire' # <<>> PROVE TrComes(TrAfter(trHeld'), trWire'[1][1])
      OBVIOUS
    <2>1. 1 \in 1 .. Len(trWire') /\ 1 \in 1 .. Len(trWire) - 1
      BY <1>1, <1>2, <1>4
    <2> QED
      BY <1>3, <1>4, <1>6, <2>1
  <1>8. \A i \in 1 .. Len(trWire') - 1 : TrComes(TrAfter(trWire'[i]), trWire'[i + 1][1])
    <2> SUFFICES ASSUME NEW i \in 1 .. Len(trWire') - 1
                 PROVE  TrComes(TrAfter(trWire'[i]), trWire'[i + 1][1])
      OBVIOUS
    <2>1. i \in 1 .. Len(trWire') /\ i + 1 \in 1 .. Len(trWire') /\ i + 1 \in 1 .. Len(trWire) - 1
      BY <1>2, <1>4
    <2> QED
      BY <1>4, <1>6, <2>1
  <1>9. ASSUME trLink.state = "up"
        PROVE  TrAtPeer(IF trWire = <<>> THEN IF trHeld = <<>> THEN q ELSE TrAfter(trHeld)
                        ELSE TrAfter(trWire[Len(trWire)]))'
    <2>1. TrAtPeer(TrAfter(trWire[Len(trWire)]))
      BY <1>1, <1>9 DEF TrStream
    <2>2. (IF trWire' = <<>> THEN trHeld' ELSE trWire'[Len(trWire')]) = trWire[Len(trWire)]
      <3>1. CASE trWire' = <<>>
        <4>1. Len(trWire) = 1
          BY <1>2, <1>4, <3>1
        <4> QED
          BY <1>3, <3>1, <4>1
      <3>2. CASE trWire' # <<>>
        <4>1. Len(trWire') \in 1 .. Len(trWire') /\ Len(trWire') + 1 = Len(trWire)
          BY <1>1, <1>2, <1>4, <3>2
        <4> QED
          BY <1>4, <3>2, <4>1
      <3> QED
        BY <3>1, <3>2
    <2>3. (IF trWire = <<>> THEN IF trHeld = <<>> THEN q ELSE TrAfter(trHeld)
           ELSE TrAfter(trWire[Len(trWire)]))' = TrAfter(trWire[Len(trWire)])
      BY <1>3, <2>2
    <2> QED
      BY <1>1, <2>1, <2>3 DEF TrAtPeer, TrWritten
  <1> QED
    BY <1>1, <1>3, <1>5, <1>7, <1>8, <1>9 DEF TrStream

(* What the receiver takes the next byte for depends on its own state.     *)
LEMMA TrExpectsKept ==
  ASSUME NEW q, TrExpects(q), UNCHANGED <<trCall, trConfig, trBuf, trGiven>>
  PROVE  TrExpects(q)'
  BY DEF TrExpects, TrReading, TrInside, TrHeadNext, TrLastNumber

LEMMA TrInsideKept ==
  ASSUME NEW q, NEW at, NEW left, TrInside(q, at, left), UNCHANGED <<trBuf, trGiven>>
  PROVE  TrInside(q, at, left)'
  BY DEF TrInside, TrLastNumber

LEMMA TrByteParts ==
  ASSUME NEW number, NEW place, NEW total
  PROVE  LET b == TrByte(number, place, total)
         IN b.number = number /\ b.place = place /\ b.total = total
  BY DEF TrByte

LEMMA TrByteType ==
  ASSUME NEW number \in Nat, NEW place \in Nat, NEW total \in Nat
  PROVE  TrByte(number, place, total) \in TrBytes
  BY DEF TrByte, TrBytes

(* After the data have been dropped, it waits for a later container.       *)
LEMMA TrNewPlace ==
  ASSUME TrTypeOK, TrOld, TrWritten
  PROVE  LET q == TrByte(trPeer.number, 1, 0) IN
         q \in TrBytes /\ q.number = trPeer.number /\ TrHeadNext(q) /\ TrAtPeer(q)
  <1> DEFINE q == TrByte(trPeer.number, 1, 0)
  <1>1. trPeer.number \in Nat
    BY DEF TrTypeOK
  <1>2. q \in TrBytes /\ q.number = trPeer.number /\ q.place = 1 /\ q.total = 0
    BY <1>1, TrByteType, TrByteParts
  <1>3. TrLastNumber <= q.number /\ TrLastNumber \in Nat
    BY <1>2, TrLastType DEF TrOld
  <1> HIDE DEF q
  <1> QED
    BY <1>1, <1>2, <1>3 DEF q, TrHeadNext, TrAtPeer

LEMMA TrStreamMoved ==
  ASSUME NEW q, NEW p, TrStream(q), trHeld # <<>>, UNCHANGED <<trLink, trPeer, trWire>>,
         trHeld' # <<>> => TrComes(p, trHeld'[1]),
         TrAfter(trHeld) = (IF trHeld = <<>> THEN p ELSE TrAfter(trHeld))'
  PROVE  TrStream(p)'
  <1> DEFINE e == IF trWire = <<>> THEN TrAfter(trHeld) ELSE TrAfter(trWire[Len(trWire)])
  <1>1. trWire # <<>> => TrComes(TrAfter(trHeld), trWire[1][1])
    BY DEF TrStream
  <1>2. trLink.state = "up" => TrAtPeer(e)
    BY DEF TrStream
  <1>3. \A i \in 1 .. Len(trWire) - 1 : TrComes(TrAfter(trWire[i]), trWire[i + 1][1])
    BY DEF TrStream
  <1>4. trWire' # <<>> => TrComes((IF trHeld = <<>> THEN p ELSE TrAfter(trHeld))', trWire'[1][1])
    BY <1>1
  <1>5. (IF trWire = <<>> THEN IF trHeld = <<>> THEN p ELSE TrAfter(trHeld)
         ELSE TrAfter(trWire[Len(trWire)]))' = e
    OBVIOUS
  <1>6. trLink'.state = "up" =>
          TrAtPeer(IF trWire = <<>> THEN IF trHeld = <<>> THEN p ELSE TrAfter(trHeld)
                   ELSE TrAfter(trWire[Len(trWire)]))'
    <2> HIDE DEF e
    <2> QED
      BY <1>2, <1>5 DEF TrAtPeer, TrWritten
  <1> QED
    BY <1>3, <1>4, <1>6 DEF TrStream

(* SSL_read has given the header, or the bytes that follow in a payload.   *)
LEMMA TrInPlaceTake ==
  ASSUME TrTypeOK, TrConfigured, TrRuns, TrInPlace, TrTake, ~trSlipped
  PROVE  TrInPlace'
  <1>0. trHeld \in Seq(TrBytes) /\ trHeld # <<>> /\ Len(trHeld) \in Nat /\ 1 \in 1 .. Len(trHeld)
        /\ trCall \in TrCalls /\ trCall.pc = "read" /\ trPeer.number \in Nat
    BY DEF TrTypeOK, TrTake
  <1>1. trCall.left \in Nat /\ trCall.left > 0 /\ trCall.at \in Nat
    BY <1>0 DEF TrCalls, TrTake
  <1>2. PICK n \in 1 .. Len(trHeld) :
          /\ n = IF trCall.left < Len(trHeld) THEN trCall.left ELSE Len(trHeld)
          /\ n <= trCall.left
    BY <1>0, <1>1
  <1>3. PICK F \in TrBytes : F = trHeld[1]
    BY <1>0
  <1>4. F.number \in Nat /\ F.place \in Nat /\ F.total \in Nat \ {0} /\ F.total \in TrPayloads
        /\ F.number <= trPeer.number /\ F.place <= F.total
    BY <1>0, <1>3, TrPayloadSizes DEF TrBytes, TrRuns, TrRun
  <1>5. UNCHANGED <<trLink, trPeer, trWire, trConfig, trGiven>>
    BY DEF TrTake, trPeerVars
  <1>6. trHeld' = SubSeq(trHeld, n + 1, Len(trHeld))
    BY <1>2 DEF TrTake
  <1>7. PICK q \in TrBytes : q.number <= trPeer.number /\ TrExpects(q) /\ TrStream(q)
    BY DEF TrInPlace
  <1>8. TrComes(q, F)
    BY <1>0, <1>3, <1>7 DEF TrStream
  <1>9. q.number \in Nat /\ q.place \in Nat /\ q.total \in Nat
    BY DEF TrBytes
  <1>10. TrAfter(trHeld) = TrByte(F.number, F.place + Len(trHeld), F.total)
    BY <1>3 DEF TrAfter
  <1>11. /\ Len(trHeld') = Len(trHeld) - n /\ trHeld' \in Seq(TrBytes)
         /\ trHeld' # <<>> => trHeld'[1] = TrByte(F.number, F.place + n, F.total)
    BY <1>0, <1>2, <1>3, <1>6, TrRunRest DEF TrRuns
  <1>12. TrReading /\ TrReading'
    BY <1>0 DEF TrReading, TrTake, TrCalls
  <1>13. CASE trCall.phase = "head"
    <2>1. trCall.left = 1 /\ n = 1 /\ trCall.at = 1
      <3>1. trCall.left < 2 /\ trCall.at + trCall.left = 2
        BY <1>12, <1>13 DEF TrConfigured
      <3>2. trCall.left = 1 /\ trCall.at = 1
        BY <1>1, <3>1
      <3>3. n \in Int /\ n >= 1 /\ n <= 1
        BY <1>0, <1>2, <3>2
      <3> QED
        BY <3>2, <3>3
    <2>2. TrHeadNext(q)
      BY <1>1, <1>7, <1>12, <1>13 DEF TrExpects
    <2>3. F.place = 0 /\ F.number > q.number
      BY <1>8, <1>9, <2>2 DEF TrComes, TrHeadNext
    <2>4. PICK p \in TrBytes : /\ p = TrByte(F.number, 1, F.total)
                              /\ p.number = F.number /\ p.place = 1 /\ p.total = F.total
      <3>1. TrByte(F.number, 1, F.total) \in TrBytes
        BY <1>4, TrByteType
      <3> QED
        BY <3>1 DEF TrByte
    <2>5. trBuf' = trBuf
          /\ trCall' = [[trCall EXCEPT !.at = @ + n, !.left = @ - n] EXCEPT !.length =
                          IF 1 \in trCall.at .. trCall.at + n - 1
                          THEN TrHeadLength(trHeld[2 - trCall.at]) ELSE @]
      BY <1>2, <1>13 DEF TrTake
    <2>6. 1 \in trCall.at .. trCall.at + n - 1 /\ trHeld[2 - trCall.at] = F
          /\ TrHeadLength(F) = F.total
      BY <1>3, <2>1, <2>3 DEF TrHeadLength
    <2>7. trCall'.left = 0 /\ trCall'.length = F.total /\ trCall'.phase = "head"
      BY <1>0, <2>1, <2>5, <2>6, <1>13 DEF TrCalls
    <2>8. TrLastNumber \in Nat
      BY TrLastType
    <2>9. p.number > TrLastNumber
      <3>1. q.number >= TrLastNumber
        BY <2>2 DEF TrHeadNext
      <3> QED
        BY <1>4, <1>9, <2>3, <2>4, <2>8, <3>1
    <2>10. \A i \in 1 .. 1 - 1 : trBuf[i] = TrByte(p.number, i, p.total)
      OBVIOUS
    <2>11. 1 + F.total = p.total + 1
      <3> QED
        BY <1>4, <2>4
    <2>12. TrInside(p, 1, F.total)
      BY <1>4, <2>4, <2>9, <2>10, <2>11 DEF TrInside
    <2>13. TrExpects(p)'
      <3>1. TrInside(p, 1, F.total)'
        BY <1>5, <2>5, <2>12, TrInsideKept
      <3>2. PICK len \in Nat : len = F.total
        BY <1>4
      <3>3. TrInside(p, 1, len)' /\ trCall'.length = len
        BY <2>7, <3>1, <3>2
      <3> QED
        BY <1>12, <2>7, <3>3 DEF TrExpects, TrInside, TrLastNumber
    <2>14. p.place <= p.total
      BY <1>4, <2>4
    <2>15. trHeld' # <<>> => trHeld'[1] = p
      BY <1>11, <2>1, <2>3, <2>4
    <2>16. TrAfter(trHeld) = (IF trHeld = <<>> THEN p ELSE TrAfter(trHeld))'
      <3>1. CASE trHeld' = <<>>
        <4>1. Len(trHeld) = 1
          BY <1>0, <1>11, <2>1, <3>1
        <4> QED
          BY <1>10, <2>3, <2>4, <3>1, <4>1
      <3>2. CASE trHeld' # <<>>
        <4>1. Len(trHeld') = Len(trHeld) - 1 /\ 1 + Len(trHeld') = 0 + Len(trHeld)
          BY <1>0, <1>11, <2>1
        <4>2. TrAfter(trHeld') = TrByte(F.number, 1 + Len(trHeld'), F.total)
          BY <2>4, <2>15, <3>2 DEF TrAfter
        <4> QED
          BY <1>10, <2>3, <3>2, <4>1, <4>2
      <3> QED
        BY <3>1, <3>2
    <2>17. TrStream(p)'
      <3>1. trHeld' # <<>> => TrComes(p, trHeld'[1])
        BY <2>14, <2>15 DEF TrComes
      <3> QED
        BY <1>0, <1>5, <1>7, <2>16, <3>1, TrStreamMoved
    <2>18. p.number <= trPeer'.number
      BY <1>4, <1>5, <2>4
    <2> QED
      BY <2>4, <2>13, <2>17, <2>18 DEF TrInPlace
  <1>14. CASE trCall.phase # "head"
    <2>1. trCall.phase = "mess" /\ TrInside(q, trCall.at, trCall.left)
      BY <1>0, <1>7, <1>12, <1>14 DEF TrExpects, TrCalls
    <2>2. q.place = trCall.at /\ trCall.at > 0 /\ trCall.at + trCall.left = q.total + 1
          /\ q.total \in TrPayloads /\ q.number > TrLastNumber
          /\ \A i \in 1 .. trCall.at - 1 : trBuf[i] = TrByte(q.number, i, q.total)
      BY <2>1 DEF TrInside
    <2>3. q.place <= q.total
      BY <1>1, <1>9, <2>2
    <2>4. F = q
      BY <1>8, <2>3 DEF TrComes
    <2>5. Len(trHeld) \in 1 .. Len(trHeld)
      BY <1>0
    <2>6. trHeld[Len(trHeld)].place = q.place + Len(trHeld) - 1
          /\ trHeld[Len(trHeld)].place <= q.total
      <3>1. trHeld[Len(trHeld)] = TrByte(F.number, F.place + Len(trHeld) - 1, F.total)
            /\ trHeld[Len(trHeld)].place <= F.total
        BY <1>3, <2>5 DEF TrRuns, TrRun
      <3> QED
        BY <2>4, <3>1 DEF TrByte
    <2>7. n = Len(trHeld)
      BY <1>0, <1>1, <1>2, <1>9, <2>2, <2>6
    <2>8. trCall' = [trCall EXCEPT !.at = @ + n, !.left = @ - n]
      BY <1>2, <1>14 DEF TrTake
    <2>9. trBuf' = [i \in DOMAIN trBuf |->
               IF i \in trCall.at .. trCall.at + n - 1 THEN trHeld[i - trCall.at + 1] ELSE trBuf[i]]
      BY <1>2, <1>14 DEF TrTake
    <2>10. PICK p \in TrBytes :
             /\ p = TrByte(q.number, q.place + n, q.total)
             /\ p.number = q.number /\ p.place = q.place + n /\ p.total = q.total
      <3>1. q.place + n \in Nat
        BY <1>0, <1>2, <1>9
      <3>2. TrByte(q.number, q.place + n, q.total) \in TrBytes
        BY <1>9, <3>1, TrByteType
      <3> QED
        BY <3>2 DEF TrByte
    <2>11. trHeld' = <<>>
      BY <1>0, <1>11, <2>7
    <2>12. TrAfter(trHeld) = p
      BY <1>10, <2>4, <2>7, <2>10
    <2>13. trCall'.at = trCall.at + n /\ trCall'.left = trCall.left - n /\ trCall'.phase = "mess"
      BY <1>0, <2>1, <2>8 DEF TrCalls
    <2>14. \A i \in 1 .. trCall.at + n - 1 : trBuf'[i] = TrByte(q.number, i, q.total)
      <3> SUFFICES ASSUME NEW i \in 1 .. trCall.at + n - 1
                   PROVE  trBuf'[i] = TrByte(q.number, i, q.total)
        OBVIOUS
      <3>1. DOMAIN trBuf = 1 .. TrMaxPayload /\ TrMaxPayload \in Nat /\ q.total <= TrMaxPayload
        BY <2>2, TrPayloadSizes DEF TrTypeOK
      <3>2. i \in DOMAIN trBuf
        <4>1. trCall.at + n <= trCall.at + trCall.left
          BY <1>1, <1>2
        <4>2. i >= 1 /\ i <= q.total
          BY <1>1, <1>2, <1>9, <2>2, <4>1
        <4>3. i \in 1 .. TrMaxPayload
          BY <2>2, <3>1, <4>2 DEF TrBytes
        <4> QED
          BY <3>1, <4>3
      <3>3. CASE i \in trCall.at .. trCall.at + n - 1
        <4>1. i - trCall.at + 1 \in 1 .. Len(trHeld)
          BY <1>0, <1>1, <1>2, <3>3
        <4>2. trHeld[i - trCall.at + 1] = TrByte(q.number, q.place + (i - trCall.at + 1) - 1, q.total)
          BY <1>3, <2>4, <4>1 DEF TrRuns, TrRun
        <4>3. q.place + (i - trCall.at + 1) - 1 = i
          BY <1>1, <2>2
        <4> QED
          BY <2>9, <3>2, <3>3, <4>2, <4>3
      <3>4. CASE i \notin trCall.at .. trCall.at + n - 1
        <4>1. i \in 1 .. trCall.at - 1
          BY <1>1, <1>2, <3>4
        <4> QED
          BY <2>2, <2>9, <3>2, <3>4, <4>1
      <3> QED
        BY <3>3, <3>4
    <2>15. /\ p.place = trCall'.at /\ trCall'.at > 0 /\ trCall'.at + trCall'.left = p.total + 1
           /\ \A i \in 1 .. trCall'.at - 1 : trBuf'[i] = TrByte(p.number, i, p.total)
      <3>1. p.place = trCall'.at /\ trCall'.at > 0 /\ trCall'.at + trCall'.left = p.total + 1
        BY <1>1, <1>2, <1>9, <2>2, <2>10, <2>13
      <3>2. \A i \in 1 .. trCall'.at - 1 : trBuf'[i] = TrByte(p.number, i, p.total)
        <4>1. 1 .. trCall'.at - 1 = 1 .. trCall.at + n - 1
          <5>1. trCall'.at - 1 = trCall.at + n - 1
            BY <1>0, <1>1, <1>2, <2>13
          <5> QED
            BY <5>1
        <4>2. p.number = q.number /\ p.total = q.total
          BY <2>10
        <4> QED
          BY <4>1, <4>2, <2>14
      <3> QED
        BY <3>1, <3>2
    <2>16. p.number > TrLastNumber' /\ p.total \in TrPayloads
      BY <1>5, <2>2, <2>10 DEF TrLastNumber
    <2>17. TrInside(p, trCall.at, trCall.left)'
      BY <2>15, <2>16 DEF TrInside
    <2>18. TrExpects(p)'
      BY <1>12, <2>13, <2>17 DEF TrExpects
    <2>19. TrStream(p)'
      BY <1>0, <1>5, <1>7, <2>11, <2>12, TrStreamMoved
    <2>20. p.number <= trPeer'.number
      BY <1>5, <1>7, <2>10
    <2> QED
      BY <2>10, <2>18, <2>19, <2>20 DEF TrInPlace
  <1> QED
    BY <1>13, <1>14

(* Only a failed read makes the stream slip, and only a new connection ends *)
(* it.                                                                     *)
LEMMA TrSlips ==
  ASSUME [TlsReceiverNext]_trVars
  PROVE  trSlipped' = trSlipped \/ trSlipped' \/ TlsConnect \/ TlsConnectMismatch
  <1> DEFINE Alike == trSlipped' = trSlipped
  <1>1. TrPeerContainer \/ TrPeerRecord \/ TrPeerClose => Alike
    BY DEF TrPeerContainer, TrPeerRecord, TrPeerClose
  <1>2. (\E timeout \in TrTimeouts : TlsRecv(timeout)) \/ TlsRecvInit \/ TlsConnectFails
        \/ TlsRecvReset => Alike
    BY DEF TlsRecv, TlsRecvInit, TlsConnectFails, TlsRecvReset
  <1>3. TrTerminatedInside \/ TrSelectTimeout \/ TrSelect \/ TrDecrypt \/ TrTake \/ TrAgain => Alike
    BY DEF TrTerminatedInside, TrSelectTimeout, TrSelect, TrDecrypt, TrTake, TrAgain
  <1>4. TrBroken \/ TlsHeadDone \/ TlsHeadMisread \/ TlsMessDone \/ TlsReceiverTerminate
        \/ TlsReceiverDestroy => Alike
    BY DEF TrBroken, TlsHeadDone, TlsHeadMisread, TlsMessDone, TlsReceiverTerminate,
           TlsReceiverDestroy
  <1>5. TrReadFails => trSlipped'
    BY DEF TrReadFails
  <1>6. UNCHANGED trVars => Alike
    BY DEF trVars
  <1> HIDE DEF Alike
  <1>7. Alike \/ trSlipped' \/ TlsConnect \/ TlsConnectMismatch
    BY <1>1, <1>2, <1>3, <1>4, <1>5, <1>6 DEF TlsReceiverNext
  <1> QED
    BY <1>7 DEF Alike

LEMMA TrInPlaceConnect ==
  ASSUME TrTypeOK, TrConfigured, TrOld, TlsConnect \/ TlsConnectMismatch
  PROVE  TrInPlace'
  <1>0. trCall \in TrCalls /\ trConfig \in [connected : BOOLEAN, pointer : Nat, wait : Nat]
        /\ trPeer.number \in Nat
    BY DEF TrTypeOK
  <1>1. TrNewLink /\ trCall.pc = "connect"
    BY DEF TlsConnect, TlsConnectMismatch, TrNewLink
  <1>2. TrWritten /\ trConfig.pointer = 0
    <2>1. trLink.state = "down" /\ trConfig.pointer = 0
      BY <1>1 DEF TrConfigured
    <2> QED
      BY <1>1, <2>1 DEF TrConfigured
  <1>3. PICK p \in TrBytes : p.number = trPeer.number /\ TrHeadNext(p) /\ TrAtPeer(p)
    BY <1>2, TrNewPlace
  <1>4. trWire' = <<>> /\ trHeld' = <<>> /\ UNCHANGED <<trPeer, trBuf, trGiven>>
    BY <1>1 DEF TrNewLink
  <1>5. TrStream(p)'
    BY <1>3, <1>4 DEF TrStream, TrAtPeer, TrWritten
  <1>6. TrHeadNext(p)'
    BY <1>3, <1>4 DEF TrHeadNext, TrLastNumber
  <1>7. \/ TrReading' /\ trCall'.phase = "head" /\ trCall'.left = 1
        \/ ~TrReading' /\ trConfig'.pointer = 0
    BY <1>0, <1>2 DEF TlsConnect, TlsConnectMismatch, TrHeadWait, TrWaitFor, TrReturn,
                             TrGoto, TrCalls, TrReading
  <1>8. TrExpects(p)'
    BY <1>6, <1>7 DEF TrExpects
  <1>9. p.number <= trPeer'.number
    BY <1>0, <1>3, <1>4
  <1> QED
    BY <1>5, <1>8, <1>9 DEF TrInPlace

LEMMA TrInPlaceMoves ==
  ASSUME TrTypeOK, TrConfigured, TrOld, TrRuns, TrInPlace, ~trSlipped, [TlsReceiverNext]_trVars
  PROVE  TrInPlace'
  <1>0. trCall \in TrCalls /\ trConfig \in [connected : BOOLEAN, pointer : Nat, wait : Nat]
        /\ trLink \in [state : {"down", "up", "closed"}, count : Nat]
        /\ trPeer \in [number : Nat, size : {0} \cup TrPayloads, next : Nat \ {0}]
        /\ trPeer.number \in Nat
    BY DEF TrTypeOK
  <1>1. PICK q \in TrBytes : q.number <= trPeer.number /\ TrExpects(q) /\ TrStream(q)
    BY DEF TrInPlace
  <1>2. q.number \in Nat
    BY DEF TrBytes
  <1>3. CASE UNCHANGED trVars
    BY <1>1, <1>3, TrStreamKept, TrExpectsKept DEF TrInPlace, trVars
  <1>4. CASE TrPeerContainer \/ TrPeerRecord
    <2>1. TrStream(q)'
      BY <1>1, <1>4, TrStreamWritten
    <2>2. TrExpects(q)'
      BY <1>1, <1>4, TrExpectsKept DEF TrPeerContainer, TrPeerRecord
    <2>3. trPeer'.number = trPeer.number \/ trPeer'.number = trPeer.number + 1
      BY <1>4, TrPeerAdds
    <2>4. q.number <= trPeer'.number
      BY <1>0, <1>1, <1>2, <2>3
    <2> QED
      BY <2>1, <2>2, <2>4 DEF TrInPlace
  <1>5. CASE TrPeerClose
    <2>1. TrExpects(q)'
      BY <1>1, <1>5, TrExpectsKept DEF TrPeerClose
    <2>2. trLink'.state = "closed" /\ (trWire' = trWire \/ trWire' = <<>>) /\ trHeld' = trHeld
          /\ trPeer'.number = trPeer.number
      BY <1>0, <1>5 DEF TrPeerClose
    <2>3. TrStream(q)'
      BY <1>1, <2>2 DEF TrStream
    <2> QED
      BY <1>1, <2>1, <2>2, <2>3 DEF TrInPlace
  <1>6. CASE TrDecrypt
    <2>1. TrStream(q)'
      BY <1>1, <1>6, TrStreamDecrypt
    <2>2. TrExpects(q)' /\ trPeer' = trPeer
      BY <1>1, <1>6, TrExpectsKept DEF TrDecrypt
    <2> QED
      BY <1>1, <2>1, <2>2 DEF TrInPlace
  <1>7. CASE TrTake
    BY <1>7, TrInPlaceTake
  <1>8. CASE TlsReceiverTerminate
    BY <1>1, <1>8, TrStreamKept, TrExpectsKept DEF TlsReceiverTerminate, TrInPlace, trPeerVars
  <1>9. ASSUME UNCHANGED <<trLink, trPeer, trWire, trHeld>>, TrExpects(q)'
        PROVE  TrInPlace'
    BY <1>1, <1>9, TrStreamKept DEF TrInPlace
  <1>10. CASE \E timeout \in TrTimeouts : TlsRecv(timeout)
    <2>1. trCall.pc = "idle" /\ (trCall'.pc \in {"idle", "init"}) /\ ~TrReading /\ ~TrReading'
          /\ UNCHANGED <<trConfig, trBuf, trGiven>>
      BY <1>0, <1>10 DEF TlsRecv, TrCalls, TrReading
    <2>2. TrExpects(q)'
      BY <1>1, <2>1 DEF TrExpects, TrInside, TrHeadNext, TrLastNumber
    <2> QED
      BY <1>9, <1>10, <2>2 DEF TlsRecv, trPeerVars
  <1>11. CASE TlsConnectFails \/ TlsRecvReset
    <2>1. ~TrReading /\ ~TrReading' /\ UNCHANGED <<trConfig, trBuf, trGiven>>
      BY <1>0, <1>11 DEF TlsConnectFails, TlsRecvReset, TrReturn, TrGoto, TrCalls, TrReading
    <2>2. TrExpects(q)'
      BY <1>1, <2>1 DEF TrExpects, TrInside, TrHeadNext, TrLastNumber
    <2> QED
      BY <1>9, <1>11, <2>2 DEF TlsConnectFails, TlsRecvReset, trPeerVars
  <1>12. CASE TlsRecvInit
    <2>0. trCall.pc = "init" /\ ~TrReading /\ UNCHANGED <<trBuf, trGiven, trPeerVars, trHeld>>
      BY <1>12 DEF TlsRecvInit, TrReading
    <2>1. CASE TrGoto("connect") /\ UNCHANGED trConfig
      <3>1. ~TrReading'
        BY <1>0, <2>1 DEF TrGoto, TrCalls, TrReading
      <3> QED
        BY <1>1, <1>9, <2>0, <2>1, <3>1 DEF TrExpects, TrInside, TrHeadNext, TrLastNumber, trPeerVars
    <2>2. CASE trConfig.pointer = 0 /\ TrHeadWait(TRUE)
      <3>1. TrReading' /\ trCall'.phase = "head" /\ trCall'.left = 1
        BY <1>0, <2>2 DEF TrHeadWait, TrWaitFor, TrCalls, TrReading
      <3>2. TrHeadNext(q)'
        BY <1>1, <2>0, <2>2 DEF TrExpects, TrHeadNext, TrLastNumber
      <3> QED
        BY <1>9, <2>0, <3>1, <3>2 DEF TrExpects, trPeerVars
    <2>3. CASE /\ trConfig.pointer # 0 /\ TrWaitFor("mess", trConfig.pointer, trConfig.wait)
               /\ UNCHANGED trConfig
      <3>1. TrReading' /\ trCall'.phase = "mess" /\ trCall'.at = trConfig.pointer
            /\ trCall'.left = trConfig.wait
        BY <1>0, <2>3 DEF TrWaitFor, TrCalls, TrReading
      <3>2. TrInside(q, trConfig.pointer, trConfig.wait)
        BY <1>1, <2>0, <2>3 DEF TrExpects
      <3>3. TrInside(q, trCall.at, trCall.left)'
        BY <2>0, <3>1, <3>2 DEF TrInside, TrLastNumber
      <3> QED
        BY <1>9, <2>0, <3>1, <3>3 DEF TrExpects, trPeerVars
    <2> QED
      BY <1>12, <2>1, <2>2, <2>3 DEF TlsRecvInit
  <1>13. CASE TrSelect
    <2>1. TrReading /\ TrReading' /\ trCall'.phase = trCall.phase /\ trCall'.left = trCall.left
          /\ trCall'.at = trCall.at /\ trCall'.length = trCall.length
          /\ UNCHANGED <<trBuf, trGiven>>
      BY <1>0, <1>13 DEF TrSelect, TrGoto, TrCalls, TrReading
    <2>2. TrExpects(q)'
      BY <1>1, <2>1 DEF TrExpects, TrInside, TrHeadNext, TrLastNumber
    <2> QED
      BY <1>9, <1>13, <2>2 DEF TrSelect, trPeerVars
  <1>14. CASE TrTerminatedInside \/ TrSelectTimeout \/ TrAgain
    <2>1. TrReading /\ trCall.left > 0 /\ TrInterrupted(trCall.at, trCall.left)
          /\ UNCHANGED <<trLink, trPeer, trWire, trHeld, trBuf, trGiven>>
      BY <1>14 DEF TrConfigured, TrReading, TrTerminatedInside, TrSelectTimeout, TrAgain, trPeerVars
    <2>2. ~TrReading' /\ trConfig'.wait = trCall.left
          /\ trConfig'.pointer = IF trCall.phase = "mess" THEN trCall.at ELSE trConfig.pointer
      BY <1>0, <2>1 DEF TrInterrupted, TrGoto, TrCalls, TrReading
    <2>3. CASE trCall.phase = "mess"
      <3>1. TrInside(q, trCall.at, trCall.left)
        BY <1>1, <2>1, <2>3 DEF TrExpects
      <3>2. TrInside(q, trConfig.pointer, trConfig.wait)' /\ trConfig'.pointer # 0
        BY <2>1, <2>2, <2>3, <3>1 DEF TrInside, TrLastNumber
      <3> QED
        BY <1>9, <2>1, <2>2, <3>2 DEF TrExpects
    <2>4. CASE trCall.phase # "mess"
      <3>1. trCall.phase = "head" /\ trConfig.pointer = 0 /\ trCall.left # 0
        BY <1>0, <2>1, <2>4 DEF TrConfigured, TrCalls
      <3>2. TrHeadNext(q)'
        BY <1>1, <2>1, <3>1 DEF TrExpects, TrHeadNext, TrLastNumber
      <3> QED
        BY <1>9, <2>1, <2>2, <2>4, <3>1, <3>2 DEF TrExpects
    <2> QED
      BY <2>3, <2>4
  <1>20. CASE TlsHeadMisread
    <2>1. TrInside(q, 1, 0)
      BY <1>1, <1>20 DEF TlsHeadMisread, TrExpects, TrReading
    <2>2. q.total \in Nat \ {0} /\ 1 + 0 = q.total + 1
      BY <2>1, TrPayloadSizes DEF TrInside
    <2> QED
      BY <2>2
  <1>15. CASE TlsHeadDone
    <2>1. TrReading /\ trCall.phase = "head" /\ trCall.left = 0
          /\ UNCHANGED <<trLink, trPeer, trWire, trHeld, trBuf, trGiven>>
      BY <1>15 DEF TlsHeadDone, TrReading, trPeerVars
    <2>2. TrInside(q, 1, trCall.length)
      BY <1>1, <2>1 DEF TrExpects
    <2>3. TrReading' /\ trCall'.phase = "mess" /\ trCall'.at = 1 /\ trCall'.left = trCall.length
      BY <1>0, <1>15 DEF TlsHeadDone, TrWaitFor, TrCalls, TrReading
    <2>4. TrInside(q, trCall.at, trCall.left)'
      BY <2>1, <2>2, <2>3 DEF TrInside, TrLastNumber
    <2> QED
      BY <1>9, <2>1, <2>3, <2>4 DEF TrExpects
  <1>16. CASE TlsMessDone
    <2>1. TrInside(q, trCall.at, trCall.left) /\ trCall.left = 0
      BY <1>1, <1>16 DEF TlsMessDone, TrExpects, TrReading
    <2>2. trCall.at = q.total + 1 /\ q.place = trCall.at /\ q.total \in TrPayloads
          /\ trBuf[1] = TrByte(q.number, 1, q.total)
      <3>1. trCall.at \in Nat /\ q.total \in Nat \ {0}
        BY <1>0, <2>1, TrPayloadSizes DEF TrInside, TrCalls
      <3>2. trCall.at + 0 = q.total + 1 /\ 1 \in 1 .. trCall.at - 1
        BY <2>1, <3>1 DEF TrInside
      <3> QED
        BY <2>1, <3>1, <3>2 DEF TrInside
    <2>3. trGiven'.bytes # <<>> /\ trGiven'.bytes[1] = TrByte(q.number, 1, q.total)
      <3>1. q.total \in Nat \ {0} /\ q.total <= TrMaxPayload /\ TrMaxPayload \in Nat
        BY <2>2, TrPayloadSizes
      <3>2. trCall.at - 1 = q.total
        BY <2>2, <3>1
      <3>3. trBuf \in Seq(TrBytes) /\ Len(trBuf) = TrMaxPayload
        BY <3>1 DEF TrTypeOK
      <3>4. SubSeq(trBuf, 1, q.total) \in Seq(TrBytes) /\ Len(SubSeq(trBuf, 1, q.total)) = q.total
            /\ SubSeq(trBuf, 1, q.total)[1] = trBuf[1]
        BY <3>1, <3>3
      <3>5. trGiven'.bytes = SubSeq(trBuf, 1, q.total)
        BY <1>16, <3>2, TrGivenNow
      <3>6. SubSeq(trBuf, 1, q.total) # <<>>
        BY <3>1, <3>4
      <3> QED
        BY <2>2, <3>4, <3>5, <3>6
    <2>4. TrLastNumber' = q.number
      BY <2>3 DEF TrLastNumber, TrByte
    <2>5. q.place > q.total /\ q.number >= TrLastNumber'
      <3>1. q.total \in Nat
        BY DEF TrBytes
      <3> QED
        BY <1>2, <2>2, <2>4, <3>1
    <2>6. ~TrReading' /\ trConfig'.pointer = 0
      BY <1>0, <1>16 DEF TlsMessDone, TrGoto, TrCalls, TrReading
    <2> QED
      BY <1>9, <1>16, <2>5, <2>6 DEF TlsMessDone, TrExpects, TrHeadNext, trPeerVars
  <1>17. CASE TlsConnect \/ TlsConnectMismatch
    BY <1>17, TrInPlaceConnect
  <1>18. CASE TrBroken
    <2>1. trCall.pc = "read" /\ trLink.state = "closed" /\ trLink'.state = "down"
          /\ trWire' = <<>> /\ trHeld' = <<>> /\ UNCHANGED <<trPeer, trBuf, trGiven>>
      BY <1>0, <1>18 DEF TrBroken
    <2>2. TrWritten
      BY <2>1 DEF TrConfigured
    <2>3. PICK p \in TrBytes : p.number = trPeer.number /\ TrHeadNext(p) /\ TrAtPeer(p)
      BY <2>2, TrNewPlace
    <2>4. TrStream(p)' /\ TrHeadNext(p)'
      BY <2>1, <2>3 DEF TrStream, TrHeadNext, TrLastNumber
    <2>5. ~TrReading' /\ trConfig'.pointer = 0
      BY <1>0, <1>18 DEF TrBroken, TrDiscard, TrGoto, TrCalls, TrReading
    <2>6. TrExpects(p)'
      BY <2>4, <2>5 DEF TrExpects
    <2>7. p.number <= trPeer'.number
      BY <1>0, <2>1, <2>3
    <2> QED
      BY <2>4, <2>6, <2>7 DEF TrInPlace
  <1>19. CASE TlsReceiverDestroy
    <2>1. ~TrReading /\ ~TrReading' /\ trConfig'.pointer = trConfig.pointer
          /\ trConfig'.wait = trConfig.wait /\ UNCHANGED <<trPeer, trBuf, trGiven>>
          /\ trLink'.state = "down" /\ trWire' = <<>> /\ trHeld' = <<>>
      BY <1>0, <1>19 DEF TlsReceiverDestroy, TrGoto, TrCalls, TrReading
    <2>2. TrExpects(q)'
      BY <1>1, <2>1 DEF TrExpects, TrInside, TrHeadNext, TrLastNumber
    <2>3. TrStream(q)'
      BY <2>1 DEF TrStream
    <2> QED
      BY <1>1, <2>1, <2>2, <2>3 DEF TrInPlace
  <1>21. CASE TrReadFails
    BY <1>21 DEF TrReadFails, TrInPlace
  <1> QED
    BY <1>3, <1>4, <1>5, <1>6, <1>7, <1>8, <1>10, <1>11, <1>12, <1>13, <1>14, <1>15, <1>16, <1>17,
       <1>18, <1>19, <1>20, <1>21 DEF TlsReceiverNext

LEMMA TrInPlaceStep ==
  ASSUME TrTypeOK, TrConfigured, TrOld, TrRuns, TrInPlace, [TlsReceiverNext]_trVars
  PROVE  TrInPlace'
  <1>1. CASE ~trSlipped
    BY <1>1, TrInPlaceMoves
  <1>2. CASE trSlipped'
    BY <1>2 DEF TrInPlace
  <1>3. CASE TlsConnect \/ TlsConnectMismatch
    BY <1>3, TrInPlaceConnect
  <1> QED
    BY <1>1, <1>2, <1>3, TrSlips

-----------------------------------------------------------------------------
(* What a call returns: the first bytes of the buffer when the last byte   *)
(* of the payload is there.                                                *)
LEMMA TrGivenWhole ==
  ASSUME TrTypeOK, TrInPlace, TlsMessDone, ~trSlipped
  PROVE  \E number \in trGiven'.before + 1 .. trPeer'.number :
           trGiven'.bytes = TrPayload(number, Len(trGiven'.bytes))
  <1>0. trPeer.number \in Nat
    BY DEF TrTypeOK
  <1>1. PICK q \in TrBytes : TrInside(q, trCall.at, trCall.left) /\ q.number <= trPeer.number
    BY DEF TlsMessDone, TrInPlace, TrExpects, TrReading
  <1>2. q.number \in Nat /\ trCall.at \in Nat /\ trCall.left = 0
        /\ q.total \in Nat \ {0} /\ q.total <= TrMaxPayload /\ TrMaxPayload \in Nat
    BY <1>1, TrPayloadSizes DEF TrBytes, TlsMessDone, TrTypeOK, TrCalls, TrInside
  <1>3. trCall.at - 1 = q.total /\ q.number > TrLastNumber
        /\ \A i \in 1 .. q.total : trBuf[i] = TrByte(q.number, i, q.total)
    <2>1. trCall.at + 0 = q.total + 1
      BY <1>1, <1>2 DEF TrInside
    <2>2. trCall.at - 1 = q.total
      BY <1>2, <2>1
    <2> QED
      BY <1>1, <2>2 DEF TrInside
  <1>4. trBuf \in Seq(TrBytes) /\ Len(trBuf) = TrMaxPayload
    BY <1>2 DEF TrTypeOK
  <1> DEFINE given == SubSeq(trBuf, 1, q.total)
  <1>5. given \in Seq(TrBytes) /\ Len(given) = q.total /\ \A i \in 1 .. q.total : given[i] = trBuf[i]
    BY <1>2, <1>4
  <1>6. trGiven'.bytes = given /\ trGiven'.before = TrLastNumber
    BY <1>3, TrGivenNow
  <1> HIDE DEF given
  <1>7. given = TrPayload(q.number, Len(given))
    BY <1>3, <1>5 DEF TrPayload
  <1>8. TrLastNumber \in Nat
    BY TrLastType
  <1>9. trPeer' = trPeer
    BY DEF TlsMessDone, trPeerVars
  <1>10. q.number \in trGiven'.before + 1 .. trPeer'.number
    BY <1>0, <1>1, <1>2, <1>3, <1>6, <1>8, <1>9
  <1> QED
    BY <1>6, <1>7, <1>10

LEMMA TlsReadWholeStep ==
  ASSUME TrTypeOK, TrCounted, TrInPlace, TlsReadWhole, [TlsReceiverNext]_trVars
  PROVE  TlsReadWhole'
  <1>0. trPeer.number \in Nat
    BY DEF TrTypeOK
  <1>1. CASE TlsMessDone
    <2>1. trGiven'.slipped = trSlipped
      BY <1>1, TrGivenNow
    <2> QED
      BY <1>1, <2>1, TrGivenWhole, TrGivenSize DEF TlsReadWhole
  <1>2. CASE trGiven' = trGiven /\ (trPeer'.number = trPeer.number
                                    \/ trPeer'.number = trPeer.number + 1)
    <2>1. trGiven'.begun => trGiven'.size = Len(trGiven'.bytes)
      BY <1>2 DEF TlsReadWhole
    <2> SUFFICES ASSUME trGiven.bytes # <<>>, ~trGiven.slipped
                 PROVE  \E number \in trGiven.before + 1 .. trPeer'.number :
                          trGiven.bytes = TrPayload(number, Len(trGiven.bytes))
      BY <1>2, <2>1 DEF TlsReadWhole
    <2>2. PICK number \in trGiven.before + 1 .. trPeer.number :
            trGiven.bytes = TrPayload(number, Len(trGiven.bytes))
      BY DEF TlsReadWhole
    <2>3. number \in trGiven.before + 1 .. trPeer'.number
      BY <1>0, <1>2 DEF TrTypeOK
    <2> QED
      BY <2>2, <2>3
  <1>3. CASE ~TlsMessDone
    <2>1. trGiven' = trGiven
      BY <1>3, TrGivenKept
    <2> QED
      BY <1>2, <2>1, TrPeerCounts
  <1> QED
    BY <1>1, <1>3

LEMMA TrInvStep == TrInv /\ [TlsReceiverNext]_trVars => TrInv'
  BY TrTypeStep, TrConfiguredStep, TrCountedStep, TrOldStep, TrRunsStep, TrInPlaceStep,
     TlsReadWholeStep DEF TrInv

(* TlsReadWhole, for containers of any sizes and any number of them and of *)
(* connections: what a call of the input interface over TLS leaves in the  *)
(* buffer is one container's payload, whole and in its order, and of a     *)
(* later container than the one before, wherever reading stopped and began *)
(* again, unless a read of this connection has failed with an error that   *)
(* ifc_tls.c 319-345 counts as -1 bytes; and the size returned is that of  *)
(* the payload in a call that has itself read the header.                  *)
THEOREM TlsReadsWhole == TlsReceiverSpec => []TlsReadWhole
  <1>1. TlsReceiverInit => TrInv
    BY TrInitially
  <1>2. TrInv => TlsReadWhole
    BY DEF TrInv
  <1> QED
    BY <1>1, <1>2, TrInvStep, PTL DEF TlsReceiverSpec

-----------------------------------------------------------------------------
(* The file interface: its files as records.                               *)
IsFile(f) ==
  /\ DOMAIN f = {"open", "name", "neg", "index", "created", "ok", "disk", "names",
                 "failures", "reused"}
  /\ FileRight(f)

\* What giving the file a name, and failing, leave as it is.
SameFiles(f, g) == /\ g.open = f.open /\ g.neg = f.neg /\ g.disk = f.disk /\ g.names = f.names
                   /\ g.failures = f.failures /\ g.reused = f.reused

LEMMA NamedOnly ==
  ASSUME NEW f, IsFile(f), NEW g, DOMAIN g = DOMAIN f, SameFiles(f, g),
         g.ok \in BOOLEAN, g.index \in Nat, g.name = f.name \/ ~f.open
  PROVE  IsFile(g)
  BY DEF IsFile, FileRight, SameFiles

LEMMA NextNameIs ==
  ASSUME NEW f, DOMAIN f = {"open", "name", "neg", "index", "created", "ok", "disk", "names",
                 "failures", "reused"}, f.index \in Nat, NEW fault,
         NEW g, g = NextName(f, fault), f.ok \in BOOLEAN
  PROVE  /\ DOMAIN g = DOMAIN f /\ SameFiles(f, g) /\ g.index \in Nat
         /\ (g.ok = FALSE /\ g.name = f.name)
            \/ (g.ok = f.ok /\ (config.append => g.name \notin DOMAIN f.disk))
  <1> DEFINE now == IF config.byTime THEN Stamp[clock] ELSE 0
             free == {k \in f.index .. IndexMod - 2 : <<now, k>> \notin DOMAIN f.disk}
             h == [f EXCEPT !.created = clock]
  <1>1. IndexMod \in Nat \ {0, 1}
    BY FileAssumption
  <1>2. DOMAIN h = DOMAIN f /\ SameFiles(f, h) /\ h.index = f.index /\ h.ok = f.ok /\ h.name = f.name
    BY DEF SameFiles
  <1>3. g = CASE fault = "name" -> [h EXCEPT !.ok = FALSE]
              [] fault # "name" /\ config.append /\ free = {} ->
                   [h EXCEPT !.ok = FALSE, !.index = 0]
              [] fault # "name" /\ config.append /\ free # {} ->
                   [h EXCEPT !.name = <<now, Min(free)>>, !.index = Min(free) + 1]
              [] fault # "name" /\ ~config.append /\ config.bySize ->
                   [h EXCEPT !.name = <<now, f.index>>, !.index = (f.index + 1) % IndexMod]
              [] OTHER -> [h EXCEPT !.name = <<now, NoSuffix>>]
    BY DEF NextName
  <1>4. free # {} => Min(free) \in free /\ Min(free) \in Nat
    <2>1. free \in SUBSET Nat
      BY <1>1
    <2>2. ASSUME NEW T \in SUBSET Nat, T # {} PROVE Min(T) \in T
      <3>1. \E n \in T : \A m \in T : n <= m
        BY <2>2, LeastOf
      <3> QED
        BY <3>1 DEF Min
    <2> QED
      BY <2>1, <2>2
  <1>5. (f.index + 1) % IndexMod \in Nat
    BY <1>1
  <1> HIDE DEF h, now
  <1>6. CASE fault = "name"
    <2>1. g = [h EXCEPT !.ok = FALSE]
      BY <1>3, <1>6
    <2> QED
      BY <1>2, <2>1 DEF SameFiles
  <1>7. CASE fault # "name" /\ config.append /\ free = {}
    <2>1. g = [h EXCEPT !.ok = FALSE, !.index = 0]
      BY <1>3, <1>7
    <2> HIDE DEF free
    <2>2. g.ok = FALSE /\ g.index = 0 /\ g.name = h.name
      BY <1>2, <2>1
    <2>3. DOMAIN g = DOMAIN f /\ SameFiles(f, g)
      BY <1>2, <2>1 DEF SameFiles
    <2> QED
      BY <1>2, <2>2, <2>3
  <1>8. CASE fault # "name" /\ config.append /\ free # {}
    <2>1. g = [h EXCEPT !.name = <<now, Min(free)>>, !.index = Min(free) + 1]
      BY <1>3, <1>8
    <2>2. <<now, Min(free)>> \notin DOMAIN f.disk
      BY <1>4, <1>8
    <2>3. PICK k \in Nat : k = Min(free)
      BY <1>4, <1>8
    <2> HIDE DEF free
    <2> QED
      BY <1>2, <2>1, <2>2, <2>3 DEF SameFiles
  <1>9. CASE fault # "name" /\ ~config.append /\ config.bySize
    <2>1. g = [h EXCEPT !.name = <<now, f.index>>, !.index = (f.index + 1) % IndexMod]
      BY <1>3, <1>9
    <2> QED
      BY <1>2, <1>5, <1>9, <2>1 DEF SameFiles
  <1>10. CASE fault # "name" /\ ~config.append /\ ~config.bySize
    <2>1. g = [h EXCEPT !.name = <<now, NoSuffix>>]
      BY <1>3, <1>10
    <2> QED
      BY <1>2, <1>10, <2>1 DEF SameFiles
  <1> QED
    BY <1>6, <1>7, <1>8, <1>9, <1>10

-----------------------------------------------------------------------------
(* Sequences of sequences, and what is left of a sequence without one place.*)
LEMMA ConcatThree ==
  ASSUME NEW S, NEW a \in Seq(S), NEW c \in Seq(S), NEW e \in Seq(S), NEW p, NEW q,
         p = a \o c, q = c \o e
  PROVE  p \o e = a \o q
  BY ConcatAssociative

LEMMA ConcatOfAppend ==
  ASSUME NEW U, NEW s \in Seq(U), NEW v \in Seq(U), NEW e \in U
  PROVE  s \o Append(v, e) = Append(s \o v, e)
  <1>1. Append(v, e) \in Seq(U) /\ Len(Append(v, e)) = Len(v) + 1
        /\ s \o v \in Seq(U) /\ Len(s \o v) = Len(s) + Len(v)
        /\ Len(s) \in Nat /\ Len(v) \in Nat
    OBVIOUS
  <1>2. PICK t \in Seq(U) : t = Append(v, e)
    BY <1>1
  <1>3. PICK u \in Seq(U) : u = s \o v
    BY <1>1
  <1>4. s \o t \in Seq(U) /\ Len(s \o t) = Len(s) + Len(v) + 1
    BY <1>1, <1>2
  <1>5. Append(u, e) \in Seq(U) /\ Len(Append(u, e)) = Len(s) + Len(v) + 1
    BY <1>1, <1>3
  <1>6. ASSUME NEW i \in 1 .. Len(s) + Len(v) + 1 PROVE (s \o t)[i] = Append(u, e)[i]
    BY <1>1, <1>2, <1>3
  <1>7. s \o t = Append(u, e)
    BY <1>4, <1>5, <1>6, SeqEqual
  <1> QED
    BY <1>2, <1>3, <1>7

LEMMA FlattenEmpty == FlattenSeq(<<>>) = <<>>
  BY EmptySeq DEF FlattenSeq

LEMMA FlattenConcat ==
  ASSUME NEW S, NEW s \in Seq(Seq(S)), NEW t \in Seq(Seq(S))
  PROVE  FlattenSeq(s \o t) = FlattenSeq(s) \o FlattenSeq(t)
  <1> DEFINE Splits(u) == FlattenSeq(s \o u) = FlattenSeq(s) \o FlattenSeq(u)
             T == {m \in Nat : \E u \in Seq(Seq(S)) : Len(u) = m /\ ~ Splits(u)}
  <1>1. SUFFICES ASSUME T # {} PROVE FALSE
    <2>1. Len(t) \in Nat
      OBVIOUS
    <2> QED
      BY <2>1
  <1>2. PICK m \in T : \A n \in T : m <= n
    BY <1>1, LeastOf
  <1>3. PICK u \in Seq(Seq(S)) : Len(u) = m /\ ~ Splits(u)
    BY <1>2
  <1>4. u # <<>>
    <2>1. FlattenSeq(s) \o <<>> = FlattenSeq(s) /\ s \o <<>> = s
      BY FlattenType, ConcatEmptySeq
    <2>2. Splits(<<>>)
      BY <2>1, FlattenEmpty
    <2> QED
      BY <1>3, <2>2
  <1>5. PICK v \in Seq(Seq(S)), e \in Seq(S) : u = Append(v, e)
    BY <1>4, SequenceEmptyOrAppend
  <1>6. Splits(v)
    <2>1. Len(v) \in Nat /\ Len(v) < m
      BY <1>3, <1>5, AppendProperties
    <2>2. Len(v) \notin T
      BY <1>2, <2>1
    <2> QED
      BY <2>1, <2>2
  <1>7. s \o Append(v, e) = Append(s \o v, e)
    <2> DEFINE U == Seq(S)
    <2>1. s \in Seq(U) /\ v \in Seq(U) /\ e \in U
      OBVIOUS
    <2> HIDE DEF U, T, Splits
    <2>2. PICK w \in Seq(U) : w = v
      BY <2>1
    <2>3. PICK x \in U : x = e
      BY <2>1
    <2>4. s \o Append(w, x) = Append(s \o w, x)
      BY <2>1, ConcatOfAppend
    <2> QED
      BY <2>2, <2>3, <2>4
  <1>8. s \o v \in Seq(Seq(S))
    OBVIOUS
  <1>9. FlattenSeq(s) \in Seq(S) /\ FlattenSeq(v) \in Seq(S)
    BY FlattenType
  <1>10. FlattenSeq(Append(s \o v, e)) = FlattenSeq(s \o v) \o e
    BY <1>8, FlattenAppend
  <1>11. FlattenSeq(Append(v, e)) = FlattenSeq(v) \o e
    BY FlattenAppend
  <1>12. Splits(Append(v, e))
    <2>1. PICK a \in Seq(S) : a = FlattenSeq(s)
      BY <1>9
    <2>2. PICK c \in Seq(S) : c = FlattenSeq(v)
      BY <1>9
    <2>3. PICK p : p = FlattenSeq(s \o v)
      OBVIOUS
    <2>4. PICK q : q = FlattenSeq(Append(v, e))
      OBVIOUS
    <2>5. p = a \o c /\ q = c \o e
      BY <1>6, <1>11, <2>1, <2>2, <2>3, <2>4
    <2> HIDE DEF T, Splits
    <2>6. p \o e = a \o q
      <3>1. (a \o c) \o e = a \o (c \o e)
        BY ConcatThree, SMTT(30)
      <3> QED
        BY <2>5, <3>1
    <2> QED
      BY <1>7, <1>10, <2>1, <2>3, <2>4, <2>6 DEF Splits
  <1> QED
    BY <1>3, <1>5, <1>12

\* The first k of some sequences, flattened, are a prefix of all.
LEMMA FlattenSplits ==
  ASSUME NEW S, NEW s \in Seq(Seq(S)), NEW k \in 0 .. Len(s)
  PROVE  /\ SubSeq(s, 1, k) \in Seq(Seq(S)) /\ SubSeq(s, k + 1, Len(s)) \in Seq(Seq(S))
         /\ FlattenSeq(s) = FlattenSeq(SubSeq(s, 1, k)) \o FlattenSeq(SubSeq(s, k + 1, Len(s)))
  <1> DEFINE U == Seq(S)
  <1>1. s \in Seq(U) /\ Len(s) \in Nat /\ 1 \in 1 .. Len(s) + 1 /\ k \in 1 - 1 .. Len(s)
        /\ Len(s) \in k .. Len(s)
    OBVIOUS
  <1> HIDE DEF U
  <1>2. SubSeq(s, 1, k) \in Seq(U) /\ SubSeq(s, k + 1, Len(s)) \in Seq(U)
    <2>1. \A i \in 1 .. Len(s) : s[i] \in U
      BY <1>1
    <2>2. (\A i \in 1 .. k : s[i] \in U) /\ (\A i \in k + 1 .. Len(s) : s[i] \in U)
      BY <1>1, <2>1
    <2> QED
      BY <1>1, <2>2, SubSeqProperties
  <1>3. SubSeq(s, 1, k) \o SubSeq(s, k + 1, Len(s)) = SubSeq(s, 1, Len(s))
    BY <1>1, ConcatAdjacentSubSeq
  <1>4. SubSeq(s, 1, Len(s)) = s
    BY <1>1, SubSeqFull
  <1> QED
    BY <1>2, <1>3, <1>4, FlattenConcat DEF U

LEMMA PrefixOf ==
  ASSUME NEW S, NEW s \in Seq(S), NEW t \in Seq(S)
  PROVE  IsPrefix(s, s \o t)
  <1>1. Len(s \o t) = Len(s) + Len(t) /\ Len(s) \in Nat /\ Len(t) \in Nat
        /\ \A i \in 1 .. Len(s) : (s \o t)[i] = s[i]
    BY ConcatProperties
  <1>2. SubSeq(s, 1, Len(s)) = s
    BY SubSeqFull
  <1>3. SubSeq(s \o t, 1, Len(s)) = s
    <2>1. \A i \in 1 .. Len(s) : (s \o t)[i] \in S
      BY <1>1
    <2>2. /\ SubSeq(s \o t, 1, Len(s)) \in Seq(S)
          /\ Len(SubSeq(s \o t, 1, Len(s))) = IF 1 <= Len(s) THEN Len(s) - 1 + 1 ELSE 0
          /\ \A i \in 1 .. Len(s) - 1 + 1 : SubSeq(s \o t, 1, Len(s))[i] = (s \o t)[1 + i - 1]
      BY <1>1, <2>1, SubSeqProperties
    <2>3. Len(SubSeq(s \o t, 1, Len(s))) = Len(s)
      BY <1>1, <2>2
    <2>4. \A i \in 1 .. Len(s) : SubSeq(s \o t, 1, Len(s))[i] = s[i]
      BY <1>1, <2>2
    <2> QED
      BY <2>2, <2>3, <2>4, SeqEqual
  <1> QED
    BY <1>1, <1>2, <1>3 DEF IsPrefix

LEMMA RemoveAtIs ==
  ASSUME NEW S, NEW s \in Seq(S), NEW i \in 1 .. Len(s)
  PROVE  /\ RemoveAt(s, i) \in Seq(S) /\ Len(RemoveAt(s, i)) = Len(s) - 1
         /\ \A j \in 1 .. Len(s) - 1 : RemoveAt(s, i)[j] = IF j < i THEN s[j] ELSE s[j + 1]
  <1>1. Len(s) \in Nat /\ \A j \in 1 .. Len(s) : s[j] \in S
    OBVIOUS
  <1>2. PICK a : a = SubSeq(s, 1, i - 1)
    OBVIOUS
  <1>3. PICK b : b = SubSeq(s, i + 1, Len(s))
    OBVIOUS
  <1>4. (\A j \in 1 .. i - 1 : s[j] \in S) /\ (\A j \in i + 1 .. Len(s) : s[j] \in S)
    BY <1>1
  <1>5. a \in Seq(S) /\ Len(a) = i - 1 /\ \A j \in 1 .. i - 1 : a[j] = s[j]
    BY <1>1, <1>2, <1>4, SubSeqProperties
  <1>6. b \in Seq(S) /\ Len(b) = Len(s) - i /\ \A j \in 1 .. Len(s) - i : b[j] = s[i + j]
    <2>1. /\ b \in Seq(S) /\ Len(b) = IF i + 1 <= Len(s) THEN Len(s) - (i + 1) + 1 ELSE 0
          /\ \A j \in 1 .. Len(s) - (i + 1) + 1 : b[j] = s[i + 1 + j - 1]
      BY <1>1, <1>3, <1>4, SubSeqProperties
    <2>2. \A j \in 1 .. Len(s) - i : b[j] = s[i + j]
      <3> TAKE j \in 1 .. Len(s) - i
      <3>1. j \in 1 .. Len(s) - (i + 1) + 1 /\ i + 1 + j - 1 = i + j
        BY <1>1
      <3> QED
        BY <2>1, <3>1
    <2> QED
      BY <1>1, <2>1, <2>2
  <1>7. RemoveAt(s, i) = a \o b
    BY <1>2, <1>3 DEF RemoveAt
  <1>8. a \o b \in Seq(S) /\ Len(a \o b) = Len(s) - 1
    <2>1. a \o b \in Seq(S) /\ Len(a \o b) = Len(a) + Len(b)
      BY <1>5, <1>6, ConcatProperties
    <2> QED
      BY <1>1, <1>5, <1>6, <2>1
  <1>9. ASSUME NEW j \in 1 .. Len(s) - 1 PROVE (a \o b)[j] = IF j < i THEN s[j] ELSE s[j + 1]
    <2>1. CASE j < i
      BY <1>1, <1>5, <1>6, <2>1
    <2>2. CASE j >= i
      <3>1. (a \o b)[j] = b[j - (i - 1)] /\ j - (i - 1) \in 1 .. Len(s) - i
            /\ i + (j - (i - 1)) = j + 1
        BY <1>1, <1>5, <1>6, <2>2
      <3> QED
        BY <1>1, <1>6, <2>2, <3>1
    <2>3. j < i \/ j >= i
      BY <1>1
    <2> QED
      BY <2>1, <2>2, <2>3
  <1> QED
    BY <1>7, <1>8, <1>9

LEMMA ConcatIs ==
  ASSUME NEW S, NEW s \in Seq(S), NEW t \in Seq(S), NEW u, u = s \o t,
         NEW n, n = Len(s), NEW m, m = Len(t)
  PROVE  /\ n \in Nat /\ m \in Nat
         /\ u \in Seq(S) /\ Len(u) = n + m /\ DOMAIN u = 1 .. n + m
         /\ \A i \in 1 .. n : u[i] = s[i]
         /\ \A i \in 1 .. m : u[n + i] = t[i]
  OBVIOUS

\* One more of the sequences.
LEMMA FlattenUpTo ==
  ASSUME NEW S, NEW s \in Seq(Seq(S)), NEW i \in 1 .. Len(s)
  PROVE  /\ FlattenSeq(SubSeq(s, 1, i)) = FlattenSeq(SubSeq(s, 1, i - 1)) \o s[i]
         /\ FlattenSeq(SubSeq(s, 1, i - 1)) \in Seq(S) /\ s[i] \in Seq(S)
  <1>1. Len(s) \in Nat /\ i - 1 \in 0 .. Len(s) /\ s[i] \in Seq(S)
    OBVIOUS
  <1>2. PICK x \in Seq(Seq(S)) : x = SubSeq(s, 1, i - 1)
    BY <1>1, FlattenSplits
  <1> DEFINE U == Seq(S)
  <1>3. s \in Seq(U) /\ 1 \in 1 .. Len(s) /\ i \in 1 .. Len(s) /\ x \in Seq(U) /\ s[i] \in U
    BY <1>1
  <1>4. SubSeq(s, 1, i) = Append(x, s[i])
    <2> HIDE DEF U
    <2>1. SubSeq(s, 1, i) = x \o <<s[i]>>
      BY <1>2, <1>3, SubSeqRecursiveSecond
    <2> QED
      BY <1>3, <2>1, AppendIsConcat
  <1>5. FlattenSeq(Append(x, s[i])) = FlattenSeq(x) \o s[i]
    BY <1>1, FlattenAppend
  <1> QED
    BY <1>1, <1>2, <1>4, <1>5, FlattenType

\* Without one of the sequences, a piece of the whole is missing.
CutOut(S, t, m, r) == \E a, b \in Seq(S) : t = (a \o m) \o b /\ r = a \o b

LEMMA FlattenRemove ==
  ASSUME NEW S, NEW s \in Seq(Seq(S)), NEW i \in 1 .. Len(s)
  PROVE  CutOut(S, FlattenSeq(s), s[i], FlattenSeq(RemoveAt(s, i)))
  <1>1. Len(s) \in Nat /\ i - 1 \in 0 .. Len(s) /\ i \in 0 .. Len(s) /\ s[i] \in Seq(S)
        /\ i - 1 + 1 = i
    OBVIOUS
  <1>2. PICK x, y \in Seq(Seq(S)) : x = SubSeq(s, 1, i - 1) /\ y = SubSeq(s, i + 1, Len(s))
    BY <1>1, FlattenSplits
  <1>3. FlattenSeq(s) = FlattenSeq(SubSeq(s, 1, i)) \o FlattenSeq(y)
    BY <1>1, <1>2, FlattenSplits
  <1>4. FlattenSeq(SubSeq(s, 1, i)) = FlattenSeq(x) \o s[i]
    BY <1>2, FlattenUpTo
  <1>5. RemoveAt(s, i) = x \o y
    BY <1>2 DEF RemoveAt
  <1>6. FlattenSeq(x \o y) = FlattenSeq(x) \o FlattenSeq(y)
    BY FlattenConcat
  <1>7. FlattenSeq(x) \in Seq(S) /\ FlattenSeq(y) \in Seq(S)
    BY FlattenType
  <1> QED
    BY <1>3, <1>4, <1>5, <1>6, <1>7 DEF CutOut

-----------------------------------------------------------------------------
(* The messages of files.                                                  *)
LEMMA EntryMsgsType ==
  ASSUME NEW e \in Seq(FileEntries)
  PROVE  EntryMsgs(e) \in Seq(Seq(Messages)) /\ Len(EntryMsgs(e)) = Len(e)
         /\ \A i \in 1 .. Len(e) : EntryMsgs(e)[i] = e[i].msgs
  <1>1. Len(e) \in Nat /\ DOMAIN e = 1 .. Len(e) /\ \A i \in 1 .. Len(e) : e[i] \in FileEntries
    OBVIOUS
  <1>2. \A x \in FileEntries : x.msgs \in Seq(Messages)
    BY DEF FileEntries
  <1>3. EntryMsgs(e) = [i \in 1 .. Len(e) |-> e[i].msgs]
    BY <1>1 DEF EntryMsgs
  <1>4. \A i \in 1 .. Len(e) : e[i].msgs \in Seq(Messages)
    BY <1>1, <1>2
  <1> QED
    BY <1>1, <1>3, <1>4

LEMMA FileMsgsType ==
  ASSUME NEW f, IsFile(f)
  PROVE  /\ FileMsgs(f) \in Seq(Seq(Messages)) /\ Len(FileMsgs(f)) = Len(f.names)
         /\ \A i \in 1 .. Len(f.names) :
              /\ f.disk[f.names[i]] \in Seq(FileEntries)
              /\ FileMsgs(f)[i] = FlattenSeq(EntryMsgs(f.disk[f.names[i]]))
         /\ FlattenSeq(FileMsgs(f)) \in Seq(Messages)
  <1>1. /\ Len(f.names) \in Nat /\ DOMAIN f.names = 1 .. Len(f.names)
        /\ \A i \in 1 .. Len(f.names) : f.disk[f.names[i]] \in Seq(FileEntries)
    BY DEF IsFile, FileRight, ToSet
  <1>2. \A i \in 1 .. Len(f.names) :
          FlattenSeq(EntryMsgs(f.disk[f.names[i]])) \in Seq(Messages)
    BY <1>1, EntryMsgsType, FlattenType
  <1>3. FileMsgs(f) = [i \in 1 .. Len(f.names) |-> FlattenSeq(EntryMsgs(f.disk[f.names[i]]))]
    BY <1>1 DEF FileMsgs
  <1>4. FileMsgs(f) \in Seq(Seq(Messages)) /\ Len(FileMsgs(f)) = Len(f.names)
    BY <1>1, <1>2, <1>3
  <1> QED
    BY <1>1, <1>3, <1>4, FlattenType

-----------------------------------------------------------------------------
(* Messages in order.                                                      *)
LEMMA MessagesAssociative ==
  \A a, b, c \in Seq(Messages) : (a \o b) \o c = a \o (b \o c)
  BY ConcatAssociative

LEMMA IdsConcat ==
  ASSUME NEW s \in Seq(Messages), NEW t \in Seq(Messages)
  PROVE  \A k : k \in IdsIn(s \o t) <=> k \in IdsIn(s) \/ k \in IdsIn(t)
  <1>1. /\ Len(s \o t) = Len(s) + Len(t) /\ Len(s) \in Nat /\ Len(t) \in Nat
        /\ DOMAIN s = 1 .. Len(s) /\ DOMAIN t = 1 .. Len(t)
        /\ DOMAIN (s \o t) = 1 .. Len(s) + Len(t)
        /\ \A i \in 1 .. Len(s) : (s \o t)[i] = s[i]
        /\ \A i \in 1 .. Len(t) : (s \o t)[Len(s) + i] = t[i]
    OBVIOUS
  <1>2. PICK u : u = s \o t
    OBVIOUS
  <1>3. ASSUME NEW k, k \in IdsIn(u) PROVE k \in IdsIn(s) \/ k \in IdsIn(t)
    <2>1. PICK i \in 1 .. Len(s) + Len(t) : k = u[i].id
      BY <1>1, <1>2, <1>3 DEF IdsIn
    <2>2. CASE i <= Len(s)
      <3>1. i \in DOMAIN s /\ u[i] = s[i]
        BY <1>1, <1>2, <2>1, <2>2
      <3> QED
        BY <2>1, <3>1 DEF IdsIn
    <2>3. CASE i > Len(s)
      <3>1. i - Len(s) \in 1 .. Len(t) /\ Len(s) + (i - Len(s)) = i
        BY <1>1, <2>3
      <3>2. u[i] = t[i - Len(s)]
        BY <1>1, <1>2, <3>1
      <3> QED
        BY <1>1, <2>1, <3>1, <3>2 DEF IdsIn
    <2> QED
      BY <1>1, <2>2, <2>3
  <1>4. ASSUME NEW k, k \in IdsIn(s) \/ k \in IdsIn(t) PROVE k \in IdsIn(u)
    <2>1. CASE k \in IdsIn(s)
      <3>1. PICK i \in 1 .. Len(s) : k = s[i].id
        BY <1>1, <2>1 DEF IdsIn
      <3>2. i \in DOMAIN u /\ u[i] = s[i]
        BY <1>1, <1>2
      <3> QED
        BY <3>1, <3>2 DEF IdsIn
    <2>2. CASE k \in IdsIn(t)
      <3>1. PICK i \in 1 .. Len(t) : k = t[i].id
        BY <1>1, <2>2 DEF IdsIn
      <3>2. Len(s) + i \in DOMAIN u /\ u[Len(s) + i] = t[i]
        BY <1>1, <1>2
      <3> QED
        BY <3>1, <3>2 DEF IdsIn
    <2> QED
      BY <1>4, <2>1, <2>2
  <1> QED
    BY <1>2, <1>3, <1>4

\* A sequence in which those before s and after t are kept.
Keeps(s, t) ==
  /\ \A b \in Seq(Messages) : Ascending(s \o b) => Ascending(t \o b)
  /\ \A k \in IdsIn(t) : k \in IdsIn(s)

LEMMA CutKeeps ==
  ASSUME NEW a \in Seq(Messages), NEW m \in Seq(Messages), NEW b \in Seq(Messages)
  PROVE  Keeps((a \o m) \o b, a \o b)
  <1> DEFINE la == Len(a)
             lm == Len(m)
             lb == Len(b)
  <1>1. la \in Nat /\ lm \in Nat /\ lb \in Nat
    OBVIOUS
  <1>2. PICK s : s = (a \o m) \o b
    OBVIOUS
  <1>3. PICK t : t = a \o b
    OBVIOUS
  <1>4. PICK am : am = a \o m
    OBVIOUS
  <1>5. /\ am \in Seq(Messages) /\ Len(am) = la + lm
        /\ \A i \in 1 .. la : am[i] = a[i]
    BY <1>4
  <1>6. /\ s \in Seq(Messages) /\ Len(s) = la + lm + lb
        /\ \A i \in 1 .. la : s[i] = a[i]
        /\ \A i \in 1 .. lb : s[la + lm + i] = b[i]
    <2>1. s = am \o b
      BY <1>2, <1>4
    <2>2. s \in Seq(Messages) /\ Len(s) = la + lm + lb
          /\ (\A i \in 1 .. la + lm : s[i] = am[i])
          /\ (\A i \in 1 .. lb : s[la + lm + i] = b[i])
      <3>1. PICK n : n = Len(am)
        OBVIOUS
      <3>2. /\ s \in Seq(Messages) /\ Len(s) = n + lb
            /\ (\A i \in 1 .. n : s[i] = am[i])
            /\ (\A i \in 1 .. lb : s[n + i] = b[i])
        <4>1. am \in Seq(Messages) /\ lb = Len(b)
          BY <1>5
        <4> HIDE DEF la, lm, lb
        <4> QED
          BY <2>1, <3>1, <4>1, ConcatIs
      <3>3. n = la + lm
        BY <1>5, <3>1
      <3> QED
        BY <3>2, <3>3
    <2> QED
      BY <1>1, <1>5, <2>2
  <1>7. /\ t \in Seq(Messages) /\ Len(t) = la + lb
        /\ \A i \in 1 .. la : t[i] = a[i]
        /\ \A i \in 1 .. lb : t[la + i] = b[i]
    BY <1>3
  <1> HIDE DEF la, lm, lb
  <1>8. \A i \in 1 .. la : t[i] = s[i]
    BY <1>6, <1>7
  <1>9. \A i \in la + 1 .. la + lb : t[i] = s[i + lm]
    <2> TAKE i \in la + 1 .. la + lb
    <2>1. i - la \in 1 .. lb /\ la + (i - la) = i /\ la + lm + (i - la) = i + lm
      BY <1>1
    <2> QED
      BY <1>6, <1>7, <2>1
  <1>10. ASSUME NEW c \in Seq(Messages), Ascending(s \o c) PROVE Ascending(t \o c)
    <2> DEFINE lc == Len(c)
               Place(i) == IF i <= la THEN i ELSE i + lm
    <2>1. lc \in Nat
      OBVIOUS
    <2>2. PICK u : u = s \o c
      OBVIOUS
    <2>3. PICK v : v = t \o c
      OBVIOUS
    <2>4. PICK p : p = la + lm + lb
      OBVIOUS
    <2>5. PICK q : q = la + lb
      OBVIOUS
    <2>9. DOMAIN u = 1 .. p + lc /\ (\A i \in 1 .. p : u[i] = s[i])
          /\ (\A i \in 1 .. lc : u[p + i] = c[i])
      <3>1. p = Len(s) /\ lc = Len(c) /\ s \in Seq(Messages)
        BY <1>6, <2>4
      <3> HIDE DEF lc
      <3> QED
        BY <2>2, <3>1, ConcatIs
    <2>10. DOMAIN v = 1 .. q + lc /\ (\A i \in 1 .. q : v[i] = t[i])
          /\ (\A i \in 1 .. lc : v[q + i] = c[i])
      <3>1. q = Len(t) /\ lc = Len(c) /\ t \in Seq(Messages)
        BY <1>7, <2>5
      <3> HIDE DEF lc
      <3> QED
        BY <2>3, <3>1, ConcatIs
    <2>11. p \in Nat /\ q \in Nat /\ p = q + lm /\ la <= q
      BY <1>1, <2>4, <2>5
    <2> HIDE DEF lc
    <2>6. ASSUME NEW i \in DOMAIN v PROVE Place(i) \in DOMAIN u /\ v[i] = u[Place(i)]
      <3>1. i \in 1 .. q + lc
        BY <2>10
      <3>2. CASE i <= la
        <4>1. i \in 1 .. la /\ i \in 1 .. p /\ i \in 1 .. q /\ i \in 1 .. p + lc
          BY <1>1, <2>1, <2>11, <3>1, <3>2
        <4> QED
          BY <1>8, <2>9, <2>10, <3>2, <4>1
      <3>3. CASE i > la /\ i <= q
        <4>1. i \in la + 1 .. q /\ i + lm \in 1 .. p /\ i \in 1 .. q /\ i + lm \in 1 .. p + lc
              /\ ~(i <= la)
          BY <1>1, <2>1, <2>11, <3>1, <3>3
        <4>2. v[i] = t[i] /\ t[i] = s[i + lm] /\ s[i + lm] = u[i + lm]
          BY <1>9, <2>5, <2>9, <2>10, <4>1
        <4> QED
          BY <2>9, <4>1, <4>2
      <3>4. CASE i > q
        <4>1. i - q \in 1 .. lc /\ q + (i - q) = i /\ p + (i - q) = i + lm
              /\ i + lm \in 1 .. p + lc /\ ~(i <= la)
          BY <1>1, <2>1, <2>11, <3>1, <3>4
        <4>2. v[i] = c[i - q] /\ u[i + lm] = c[i - q]
          BY <2>9, <2>10, <4>1
        <4> QED
          BY <2>9, <4>1, <4>2
      <3> QED
        BY <1>1, <2>1, <2>11, <3>1, <3>2, <3>3, <3>4
    <2>7. ASSUME NEW i \in DOMAIN v, NEW j \in DOMAIN v, i < j PROVE Place(i) < Place(j)
      BY <1>1, <2>1, <2>10, <2>11, <2>7
    <2> HIDE DEF Place
    <2>8. ASSUME NEW i \in DOMAIN v, NEW j \in DOMAIN v, i < j PROVE v[i].id < v[j].id
      <3>1. u[Place(i)].id < u[Place(j)].id
        BY <1>10, <2>2, <2>6, <2>7, <2>8 DEF Ascending
      <3> QED
        BY <2>6, <3>1
    <2> QED
      BY <2>3, <2>8 DEF Ascending
  <1>11. ASSUME NEW k \in IdsIn(t) PROVE k \in IdsIn(s)
    <2>1. PICK i \in 1 .. la + lb : k = t[i].id
      BY <1>7, <1>11 DEF IdsIn
    <2>2. PICK j \in 1 .. la + lm + lb : k = s[j].id
      <3>1. CASE i <= la
        BY <1>1, <1>8, <2>1, <3>1
      <3>2. CASE i > la
        <4>1. i \in la + 1 .. la + lb /\ i + lm \in 1 .. la + lm + lb
          BY <1>1, <3>2
        <4> QED
          BY <1>9, <2>1, <4>1
      <3> QED
        BY <1>1, <3>1, <3>2
    <2>3. j \in DOMAIN s
      BY <1>6
    <2> QED
      BY <2>2, <2>3 DEF IdsIn
  <1> QED
    BY <1>2, <1>3, <1>10, <1>11 DEF Keeps

-----------------------------------------------------------------------------
(* The names of the files.                                                 *)
LEMMA OthersIs ==
  ASSUME NEW S, NEW names \in Seq(S), IsInjective(names), NEW name, NEW o, o = Others(names, name)
  PROVE  /\ o \in Seq(S) /\ IsInjective(o)
         /\ \A j \in 1 .. Len(o) : o[j] # name /\ o[j] \in ToSet(names)
         /\ name \notin ToSet(names) => o = names
         /\ name \in ToSet(names) =>
              \E i \in 1 .. Len(names) : names[i] = name /\ o = RemoveAt(names, i)
  <1>1. DOMAIN names = 1 .. Len(names) /\ Len(names) \in Nat
    OBVIOUS
  <1>2. CASE name \notin ToSet(names)
    BY <1>1, <1>2 DEF Others, ToSet
  <1>3. CASE name \in ToSet(names)
    <2>1. PICK i \in 1 .. Len(names) : names[i] = name /\ o = RemoveAt(names, i)
      <3>1. \E i \in DOMAIN names : names[i] = name
        BY <1>3 DEF ToSet
      <3>2. PICK i \in DOMAIN names : i = CHOOSE k \in DOMAIN names : names[k] = name
        BY <3>1
      <3>3. names[i] = name
        BY <3>1, <3>2
      <3>4. o = RemoveAt(names, i)
        BY <1>3, <3>2 DEF Others
      <3> QED
        BY <1>1, <3>3, <3>4
    <2>2. /\ o \in Seq(S) /\ Len(o) = Len(names) - 1
          /\ \A j \in 1 .. Len(names) - 1 : o[j] = IF j < i THEN names[j] ELSE names[j + 1]
      BY <2>1, RemoveAtIs
    <2> DEFINE p(j) == IF j < i THEN j ELSE j + 1
    <2>3. \A j \in 1 .. Len(o) : p(j) \in 1 .. Len(names) /\ p(j) # i /\ o[j] = names[p(j)]
      BY <1>1, <2>2
    <2>4. \A j, k \in 1 .. Len(o) : p(j) = p(k) => j = k
      BY <1>1, <2>2
    <2> HIDE DEF p
    <2>5. \A j, k \in 1 .. Len(names) : names[j] = names[k] => j = k
      BY <1>1 DEF IsInjective
    <2>6. DOMAIN o = 1 .. Len(o)
      BY <2>2
    <2>7. IsInjective(o)
      <3>1. ASSUME NEW j \in 1 .. Len(o), NEW k \in 1 .. Len(o), o[j] = o[k] PROVE j = k
        <4>1. names[p(j)] = names[p(k)] /\ p(j) \in 1 .. Len(names) /\ p(k) \in 1 .. Len(names)
          BY <2>3, <3>1
        <4>2. p(j) = p(k)
          BY <2>5, <4>1
        <4> QED
          BY <2>4, <4>2
      <3> QED
        BY <2>6, <3>1 DEF IsInjective
    <2>8. ASSUME NEW j \in 1 .. Len(o) PROVE o[j] # name /\ o[j] \in ToSet(names)
      <3>1. o[j] = names[p(j)] /\ p(j) \in 1 .. Len(names) /\ p(j) # i
        BY <2>3
      <3>2. o[j] # name
        BY <2>1, <2>5, <3>1
      <3> QED
        BY <1>1, <3>1, <3>2 DEF ToSet
    <2> QED
      BY <1>3, <2>1, <2>2, <2>7, <2>8
  <1> QED
    BY <1>2, <1>3

\* A name that is not among some is put after them.
PutLast(S, o, name, n) ==
  /\ n \in Seq(S) /\ IsInjective(n) /\ n # <<>> /\ Last(n) = name /\ Len(n) = Len(o) + 1
  /\ \A j \in 1 .. Len(o) : n[j] = o[j]
  /\ \A x \in ToSet(n) : x = name \/ \E j \in 1 .. Len(o) : x = o[j]

LEMMA NameAppended ==
  ASSUME NEW S, NEW o \in Seq(S), IsInjective(o), NEW name \in S,
         \A j \in 1 .. Len(o) : o[j] # name, NEW n, n = Append(o, name)
  PROVE  PutLast(S, o, name, n)
  <1>1. /\ n \in Seq(S) /\ Len(n) = Len(o) + 1 /\ Len(o) \in Nat /\ DOMAIN n = 1 .. Len(o) + 1
        /\ n[Len(o) + 1] = name /\ (\A j \in 1 .. Len(o) : n[j] = o[j]) /\ DOMAIN o = 1 .. Len(o)
    OBVIOUS
  <1>2. \A j \in 1 .. Len(o) + 1 : j \in 1 .. Len(o) \/ j = Len(o) + 1
    BY <1>1
  <1>3. IsInjective(n)
    <2>1. ASSUME NEW j \in 1 .. Len(o) + 1, NEW k \in 1 .. Len(o) + 1, n[j] = n[k] PROVE j = k
      <3>1. CASE j \in 1 .. Len(o) /\ k \in 1 .. Len(o)
        BY <1>1, <2>1, <3>1 DEF IsInjective
      <3>2. CASE j = Len(o) + 1 \/ k = Len(o) + 1
        BY <1>1, <1>2, <2>1, <3>2
      <3> QED
        BY <1>2, <3>1, <3>2
    <2> QED
      BY <1>1, <2>1 DEF IsInjective
  <1>4. n # <<>> /\ Last(n) = name
    BY <1>1 DEF Last
  <1>5. \A x \in ToSet(n) : x = name \/ \E j \in 1 .. Len(o) : x = o[j]
    BY <1>1, <1>2 DEF ToSet
  <1> QED
    BY <1>1, <1>3, <1>4, <1>5 DEF PutLast

-----------------------------------------------------------------------------
(* Another file.                                                           *)
Content(f) == FlattenSeq(FileMsgs(f))

\* What changing the file does to what is in the files.
Thinned(f, g) ==
  /\ IsFile(g) /\ g.failures = f.failures /\ (f.reused => g.reused)
  /\ Keeps(Content(f), Content(g))
  /\ ~g.reused => Content(g) = Content(f)
  /\ f.names # <<>> => g.names # <<>>

LEMMA SameContent ==
  ASSUME NEW f, NEW g, g.names = f.names, g.disk = f.disk
  PROVE  FileMsgs(g) = FileMsgs(f) /\ Content(g) = Content(f)
  BY DEF FileMsgs, Content

LEMMA KeepsItself == \A s : Keeps(s, s)
  BY DEF Keeps

LEMMA ThinnedTwice ==
  ASSUME NEW f, NEW g, NEW h, Thinned(f, g), Thinned(g, h)
  PROVE  Thinned(f, h)
  BY DEF Thinned, Keeps

LEMMA ContentType ==
  ASSUME NEW f, IsFile(f)
  PROVE  Content(f) \in Seq(Messages)
  BY FileMsgsType DEF Content

OpenedLast(S, f, o, n) ==
  /\ o \in Seq(S) /\ IsInjective(o)
  /\ \A j \in 1 .. Len(o) : o[j] # f.name /\ o[j] \in ToSet(f.names)
  /\ f.name \notin ToSet(f.names) => o = f.names
  /\ f.name \in ToSet(f.names) =>
       \E i \in 1 .. Len(f.names) : f.names[i] = f.name /\ o = RemoveAt(f.names, i)
  /\ n \in Seq(S) /\ IsInjective(n) /\ n # <<>> /\ Last(n) = f.name /\ Len(n) = Len(o) + 1
  /\ \A j \in 1 .. Len(o) : n[j] = o[j]
  /\ \A x \in ToSet(n) : x = f.name \/ x \in ToSet(f.names)

LEMMA SwitchedNames ==
  ASSUME NEW f, IsFile(f), NEW o, o = Others(f.names, f.name), NEW n, n = Append(o, f.name),
         NEW S, S = DOMAIN f.disk \cup {f.name}
  PROVE  OpenedLast(S, f, o, n)
  <1>1. f.names \in Seq(S) /\ IsInjective(f.names) /\ f.name \in S
    <2>1. f.names \in Seq(DOMAIN f.disk)
      BY DEF IsFile, FileRight
    <2>2. f.names \in Seq(S)
      BY <2>1
    <2> QED
      BY <2>2 DEF IsFile, FileRight
  <1>2. PICK names : names = f.names
    OBVIOUS
  <1>3. PICK name \in S : name = f.name
    BY <1>1
  <1>4. names \in Seq(S) /\ IsInjective(names) /\ o = Others(names, name) /\ n = Append(o, name)
    BY <1>1, <1>2, <1>3
  <1>5. /\ o \in Seq(S) /\ IsInjective(o)
        /\ \A j \in 1 .. Len(o) : o[j] # name /\ o[j] \in ToSet(names)
        /\ name \notin ToSet(names) => o = names
        /\ name \in ToSet(names) =>
             \E i \in 1 .. Len(names) : names[i] = name /\ o = RemoveAt(names, i)
    BY <1>4, OthersIs
  <1>6. PutLast(S, o, name, n)
    BY <1>4, <1>5, NameAppended
  <1> QED
    BY <1>2, <1>3, <1>5, <1>6 DEF PutLast, OpenedLast

\* g has the files of f once more, with the one it is to write to empty and last.
Emptied(f, g) ==
  /\ g.names = Append(Others(f.names, f.name), f.name)
  /\ g.disk = [n \in DOMAIN f.disk \cup {f.name} |-> IF n = f.name THEN <<>> ELSE f.disk[n]]

OneEmptied(f, g) ==
  /\ f.name \notin ToSet(f.names) => FileMsgs(g) = Append(FileMsgs(f), <<>>)
  /\ f.name \in ToSet(f.names) =>
       \E i \in 1 .. Len(f.names) : FileMsgs(g) = Append(RemoveAt(FileMsgs(f), i), <<>>)

LEMMA SwitchedMsgs ==
  ASSUME NEW f, IsFile(f), NEW g, Emptied(f, g)
  PROVE  OneEmptied(f, g)
  <1>0. PICK o : o = Others(f.names, f.name) /\ g.names = Append(o, f.name)
    BY DEF Emptied
  <1> DEFINE S == DOMAIN f.disk \cup {f.name}
             M(e) == FlattenSeq(EntryMsgs(e))
  <1>1. f.names \in Seq(S)
    <2>1. f.names \in Seq(DOMAIN f.disk)
      BY DEF IsFile, FileRight
    <2> QED
      BY <2>1
  <1>2. OpenedLast(S, f, o, g.names)
    BY <1>0, SwitchedNames
  <1>3. /\ o \in Seq(S)
        /\ \A j \in 1 .. Len(o) : o[j] # f.name /\ o[j] \in ToSet(f.names)
        /\ f.name \notin ToSet(f.names) => o = f.names
        /\ f.name \in ToSet(f.names) =>
             \E i \in 1 .. Len(f.names) : f.names[i] = f.name /\ o = RemoveAt(f.names, i)
        /\ g.names \in Seq(S) /\ Len(g.names) = Len(o) + 1 /\ Last(g.names) = f.name
        /\ \A j \in 1 .. Len(o) : g.names[j] = o[j]
    BY <1>2 DEF OpenedLast
  <1>4. Len(o) \in Nat /\ DOMAIN g.names = 1 .. Len(o) + 1 /\ g.names[Len(o) + 1] = f.name
    BY <1>3 DEF Last
  <1>5. g.disk[f.name] = <<>> /\ \A n \in DOMAIN f.disk : n # f.name => g.disk[n] = f.disk[n]
    BY DEF Emptied
  <1>6. M(<<>>) = <<>>
    <2>1. EntryMsgs(<<>>) = <<>>
      BY DEF EntryMsgs
    <2> QED
      BY <2>1, FlattenEmpty
  <1>7. \A x \in ToSet(f.names) : x \in DOMAIN f.disk
    BY DEF IsFile, FileRight, ToSet
  <1> HIDE DEF M, S
  <1>8. \A j \in 1 .. Len(o) : g.disk[g.names[j]] = f.disk[o[j]]
    BY <1>3, <1>5, <1>7
  <1>9. FileMsgs(g) = [i \in 1 .. Len(o) + 1 |-> M(g.disk[g.names[i]])]
    BY <1>4 DEF FileMsgs, M
  <1>10. FileMsgs(g) = [i \in 1 .. Len(o) + 1 |->
                          IF i = Len(o) + 1 THEN <<>> ELSE M(f.disk[o[i]])]
    <2>1. \A i \in 1 .. Len(o) + 1 : i \in 1 .. Len(o) \/ i = Len(o) + 1
      BY <1>4
    <2>2. \A i \in 1 .. Len(o) + 1 :
            M(g.disk[g.names[i]]) = IF i = Len(o) + 1 THEN <<>> ELSE M(f.disk[o[i]])
      BY <1>4, <1>5, <1>6, <1>8, <2>1
    <2> QED
      BY <1>9, <2>2
  <1>11. /\ FileMsgs(f) \in Seq(Seq(Messages)) /\ Len(FileMsgs(f)) = Len(f.names)
         /\ \A i \in 1 .. Len(f.names) : FileMsgs(f)[i] = M(f.disk[f.names[i]])
    BY FileMsgsType DEF M
  <1>12. ASSUME NEW u \in Seq(Seq(Messages)), Len(u) = Len(o),
                \A i \in 1 .. Len(o) : u[i] = M(f.disk[o[i]])
         PROVE  FileMsgs(g) = Append(u, <<>>)
    <2>1. PICK w : w = Append(u, <<>>)
      OBVIOUS
    <2>2. /\ w \in Seq(Seq(Messages)) /\ DOMAIN w = 1 .. Len(o) + 1 /\ w[Len(o) + 1] = <<>>
          /\ \A i \in 1 .. Len(o) : w[i] = u[i]
      <3>1. <<>> \in Seq(Messages)
        OBVIOUS
      <3> QED
        BY <1>12, <2>1, <3>1
    <2>3. \A i \in 1 .. Len(o) + 1 : w[i] = IF i = Len(o) + 1 THEN <<>> ELSE M(f.disk[o[i]])
      <3> TAKE i \in 1 .. Len(o) + 1
      <3>1. CASE i = Len(o) + 1
        BY <2>2, <3>1
      <3>2. CASE i # Len(o) + 1
        <4>1. i \in 1 .. Len(o)
          BY <1>4, <3>2
        <4> QED
          BY <1>12, <2>2, <3>2, <4>1
      <3> QED
        BY <3>1, <3>2
    <2>4. w = [i \in 1 .. Len(o) + 1 |-> w[i]]
      BY <2>2
    <2> QED
      BY <1>10, <2>1, <2>3, <2>4
  <1>13. CASE f.name \notin ToSet(f.names)
    BY <1>3, <1>11, <1>12, <1>13 DEF OneEmptied
  <1>14. CASE f.name \in ToSet(f.names)
    <2>1. PICK i \in 1 .. Len(f.names) : o = RemoveAt(f.names, i)
      BY <1>3, <1>14
    <2>2. /\ Len(o) = Len(f.names) - 1 /\ Len(f.names) \in Nat
          /\ \A j \in 1 .. Len(o) : o[j] = IF j < i THEN f.names[j] ELSE f.names[j + 1]
      <3>1. PICK s : s = f.names
        OBVIOUS
      <3>2. s \in Seq(S) /\ i \in 1 .. Len(s) /\ o = RemoveAt(s, i)
        BY <1>1, <2>1, <3>1
      <3>3. /\ Len(o) = Len(s) - 1
            /\ \A j \in 1 .. Len(s) - 1 : o[j] = IF j < i THEN s[j] ELSE s[j + 1]
        BY <3>2, RemoveAtIs
      <3>4. Len(s) \in Nat
        BY <3>2
      <3> QED
        BY <3>1, <3>3, <3>4
    <2>3. PICK u : u = RemoveAt(FileMsgs(f), i)
      OBVIOUS
    <2>4. /\ u \in Seq(Seq(Messages)) /\ Len(u) = Len(f.names) - 1
          /\ \A j \in 1 .. Len(f.names) - 1 :
               u[j] = IF j < i THEN FileMsgs(f)[j] ELSE FileMsgs(f)[j + 1]
      <3>1. PICK s : s = FileMsgs(f)
        OBVIOUS
      <3>2. s \in Seq(Seq(Messages)) /\ i \in 1 .. Len(s) /\ Len(s) = Len(f.names)
        BY <1>11, <3>1
      <3>3. PICK V : V = Seq(Messages)
        OBVIOUS
      <3>4. s \in Seq(V)
        BY <3>2, <3>3
      <3>5. /\ RemoveAt(s, i) \in Seq(V) /\ Len(RemoveAt(s, i)) = Len(s) - 1
            /\ \A j \in 1 .. Len(s) - 1 : RemoveAt(s, i)[j] = IF j < i THEN s[j] ELSE s[j + 1]
        BY <3>2, <3>4, RemoveAtIs
      <3> QED
        BY <2>3, <3>1, <3>2, <3>3, <3>5
    <2>5. \A j \in 1 .. Len(o) : u[j] = M(f.disk[o[j]])
      <3> TAKE j \in 1 .. Len(o)
      <3>1. j \in 1 .. Len(f.names) /\ j + 1 \in 1 .. Len(f.names)
        BY <2>2
      <3> QED
        BY <1>11, <2>2, <2>4, <3>1
    <2> QED
      <3>1. FileMsgs(g) = Append(RemoveAt(FileMsgs(f), i), <<>>)
        BY <1>12, <2>2, <2>3, <2>4, <2>5
      <3> QED
        BY <1>14, <3>1 DEF OneEmptied
  <1> QED
    BY <1>13, <1>14 DEF OneEmptied

ThinsOut(f, g) ==
  Keeps(Content(f), Content(g)) /\ (f.name \notin ToSet(f.names) => Content(g) = Content(f))

LEMMA SwitchedContent ==
  ASSUME NEW f, IsFile(f), NEW g, Emptied(f, g)
  PROVE  ThinsOut(f, g)
  <1>1. FileMsgs(f) \in Seq(Seq(Messages)) /\ Content(f) \in Seq(Messages)
        /\ Len(FileMsgs(f)) = Len(f.names) /\ <<>> \in Seq(Messages)
    BY FileMsgsType, ContentType
  <1>4. OneEmptied(f, g)
    BY SwitchedMsgs
  <1>2. CASE f.name \notin ToSet(f.names)
    <2>1. FileMsgs(g) = Append(FileMsgs(f), <<>>)
      BY <1>2, <1>4 DEF OneEmptied
    <2>2. Content(g) = Content(f) \o <<>>
      BY <1>1, <2>1, FlattenAppend DEF Content
    <2>3. Content(g) = Content(f)
      BY <1>1, <2>2
    <2> QED
      BY <2>3, KeepsItself DEF ThinsOut
  <1>3. CASE f.name \in ToSet(f.names)
    <2>1. PICK i \in 1 .. Len(f.names) : FileMsgs(g) = Append(RemoveAt(FileMsgs(f), i), <<>>)
      BY <1>3, <1>4 DEF OneEmptied
    <2>2. PICK s \in Seq(Seq(Messages)) : s = FileMsgs(f) /\ i \in 1 .. Len(s)
      BY <1>1
    <2>3. CutOut(Messages, FlattenSeq(s), s[i], FlattenSeq(RemoveAt(s, i)))
      BY <2>2, FlattenRemove
    <2>4. PICK a, b \in Seq(Messages) : /\ FlattenSeq(s) = (a \o s[i]) \o b
                                        /\ FlattenSeq(RemoveAt(s, i)) = a \o b
      BY <2>3 DEF CutOut
    <2>5. PICK m \in Seq(Messages) : m = s[i]
      BY <2>2
    <2>6. RemoveAt(s, i) \in Seq(Seq(Messages))
      BY <2>2, RemoveAtIs
    <2>7. FlattenSeq(RemoveAt(s, i)) \in Seq(Messages)
      BY <2>6, FlattenType
    <2>8. FlattenSeq(Append(RemoveAt(s, i), <<>>)) = FlattenSeq(RemoveAt(s, i)) \o <<>>
      BY <1>1, <2>6, FlattenAppend
    <2>9. Content(g) = FlattenSeq(RemoveAt(s, i))
      BY <2>1, <2>2, <2>7, <2>8 DEF Content
    <2>10. Content(f) = (a \o m) \o b
      BY <2>2, <2>4, <2>5 DEF Content
    <2>11. Keeps((a \o m) \o b, a \o b)
      BY CutKeeps
    <2> QED
      BY <1>3, <2>4, <2>9, <2>10, <2>11 DEF ThinsOut
  <1> QED
    BY <1>2, <1>3

LEMMA ClosedIs ==
  ASSUME NEW f, IsFile(f), NEW g, DOMAIN g = DOMAIN f, g.open = FALSE,
         g.neg \in BOOLEAN, g.ok \in BOOLEAN, g.index \in Nat,
         g.disk = f.disk, g.names = f.names, g.failures = f.failures, g.reused = f.reused
  PROVE  IsFile(g)
  <1>1. FileRight(f)
    BY DEF IsFile
  <1>2. {g.open, g.neg, g.ok, g.reused} \subseteq BOOLEAN /\ g.index \in Nat
        /\ g.failures \in Nat /\ (g.reused => ~config.append)
    BY <1>1 DEF FileRight
  <1>3. g.names \in Seq(DOMAIN g.disk) /\ IsInjective(g.names)
    BY <1>1 DEF FileRight
  <1>4. \A n \in ToSet(g.names) :
          /\ g.disk[n] \in Seq(FileEntries)
          /\ \A j \in DOMAIN g.disk[n] :
               /\ g.disk[n][j].kind = "hello" <=> j = 1
               /\ g.disk[n][j].kind # "block" => g.disk[n][j].msgs = <<>>
               /\ g.disk[n][j].kind = "torn" => g.failures > 0
    BY <1>1 DEF FileRight
  <1>5. FileRight(g)
    BY <1>2, <1>3, <1>4 DEF FileRight
  <1> QED
    BY <1>5 DEF IsFile

LEMMA SwitchedIs ==
  ASSUME NEW f, IsFile(f), NEW h, DOMAIN h = DOMAIN f, h.ok = TRUE, h.index \in Nat,
         h.name = f.name, h.disk = f.disk, h.names = f.names, h.failures = f.failures,
         h.reused = f.reused, config.append => f.name \notin DOMAIN f.disk, NEW fault,
         NEW g, g = Switched(h, fault)
  PROVE  Thinned(f, g) /\ (g.ok => g.open /\ g.names # <<>>)
  <1>1. CASE fault = "open"
    <2>1. g = [[h EXCEPT !.open = FALSE, !.neg = FALSE] EXCEPT !.ok = FALSE]
      BY <1>1 DEF Switched
    <2>2. DOMAIN g = DOMAIN f /\ g.open = FALSE /\ g.neg = FALSE /\ g.ok = FALSE
          /\ g.names = f.names /\ g.disk = f.disk /\ g.failures = f.failures
          /\ g.reused = f.reused /\ g.index \in Nat
      BY <2>1 DEF IsFile
    <2>3. IsFile(g)
      BY <2>2, ClosedIs
    <2> QED
      BY <2>2, <2>3, SameContent, KeepsItself DEF Thinned
  <1>2. CASE fault # "open"
    <2> DEFINE o == Others(h.names, h.name)
               N == Append(o, h.name)
               D == [n \in DOMAIN h.disk \cup {h.name} |-> IF n = h.name THEN <<>> ELSE h.disk[n]]
               R == h.reused \/ h.name \in ToSet(h.names)
    <2>1. g = [[h EXCEPT !.open = FALSE, !.neg = FALSE]
                 EXCEPT !.open = TRUE, !.disk = D, !.names = N, !.reused = R]
      BY <1>2 DEF Switched
    <2> HIDE DEF D, N, R
    <2>2. DOMAIN g = DOMAIN f /\ g.open = TRUE /\ g.neg = FALSE /\ g.ok = TRUE
          /\ g.names = N /\ g.disk = D /\ g.failures = f.failures
          /\ g.reused = R /\ g.index \in Nat /\ g.name = f.name
      BY <2>1 DEF IsFile
    <2>3. OpenedLast(DOMAIN f.disk \cup {f.name}, f, o, N)
      BY SwitchedNames DEF N
    <2>4. DOMAIN D = DOMAIN f.disk \cup {f.name} /\ D[f.name] = <<>>
          /\ \A n \in DOMAIN f.disk : n # f.name => D[n] = f.disk[n]
      BY DEF D
    <2>5. \A n \in ToSet(f.names) : n \in DOMAIN f.disk
      BY DEF IsFile, FileRight, ToSet
    <2> HIDE DEF o
    <2>6. IsInjective(N) /\ N # <<>> /\ Last(N) = f.name
          /\ N \in Seq(DOMAIN D) /\ (\A n \in ToSet(N) : n = f.name \/ n \in ToSet(f.names))
      BY <2>3, <2>4 DEF OpenedLast
    <2>7. R \in BOOLEAN /\ (R => ~config.append) /\ (f.reused => R)
          /\ (~R => f.name \notin ToSet(f.names))
      BY <2>5 DEF R, IsFile, FileRight
    <2>8. ASSUME NEW n \in ToSet(N)
          PROVE  /\ D[n] \in Seq(FileEntries)
                 /\ \A j \in DOMAIN D[n] :
                      /\ D[n][j].kind = "hello" <=> j = 1
                      /\ D[n][j].kind # "block" => D[n][j].msgs = <<>>
                      /\ D[n][j].kind = "torn" => f.failures > 0
      <3>1. CASE n = f.name
        <4>1. D[n] = <<>> /\ DOMAIN <<>> = {} /\ <<>> \in Seq(FileEntries)
          BY <2>4, <3>1
        <4> QED
          BY <4>1
      <3>2. CASE n # f.name
        <4>1. n \in ToSet(f.names) /\ D[n] = f.disk[n]
          BY <2>4, <2>5, <2>6, <3>2
        <4> QED
          BY <4>1 DEF IsFile, FileRight
      <3> QED
        BY <3>1, <3>2
    <2>9. f.failures \in Nat
      BY DEF IsFile, FileRight
    <2>10. FileRight(g)
      <3>1. {g.open, g.neg, g.ok, g.reused} \subseteq BOOLEAN /\ g.index \in Nat
            /\ g.failures \in Nat /\ (g.reused => ~config.append)
        BY <2>2, <2>7, <2>9
      <3>2. g.names \in Seq(DOMAIN g.disk) /\ IsInjective(g.names) /\ g.names # <<>>
            /\ g.name = Last(g.names)
        BY <2>2, <2>6
      <3>3. g.neg <=> g.disk[g.name] # <<>>
        BY <2>2, <2>4
      <3>4. \A n \in ToSet(g.names) :
              /\ g.disk[n] \in Seq(FileEntries)
              /\ \A j \in DOMAIN g.disk[n] :
                   /\ g.disk[n][j].kind = "hello" <=> j = 1
                   /\ g.disk[n][j].kind # "block" => g.disk[n][j].msgs = <<>>
                   /\ g.disk[n][j].kind = "torn" => g.failures > 0
        BY <2>2, <2>8
      <3> QED
        BY <3>1, <3>2, <3>3, <3>4 DEF FileRight
    <2>11. IsFile(g)
      BY <2>2, <2>10 DEF IsFile
    <2>12. ThinsOut(f, g)
      <3>1. Emptied(f, g)
        BY <2>2 DEF o, N, D, Emptied
      <3> QED
        BY <3>1, SwitchedContent
    <2> QED
      BY <2>2, <2>6, <2>7, <2>11, <2>12 DEF Thinned, ThinsOut
  <1> QED
    BY <1>1, <1>2

LEMMA NextFileIs ==
  ASSUME NEW f, IsFile(f), f.ok = TRUE, NEW fault, NEW g, g = NextFile(f, fault)
  PROVE  Thinned(f, g) /\ (g.ok => g.open /\ g.names # <<>>)
  <1>1. PICK h : h = NextName(f, fault)
    OBVIOUS
  <1>2. g = IF h.ok THEN Switched(h, fault) ELSE h
    BY <1>1 DEF NextFile
  <1>3. DOMAIN f = {"open", "name", "neg", "index", "created", "ok", "disk", "names",
                    "failures", "reused"} /\ f.index \in Nat
    BY DEF IsFile, FileRight
  <1>4. DOMAIN h = DOMAIN f /\ SameFiles(f, h) /\ h.index \in Nat
        /\ \/ h.ok = FALSE /\ h.name = f.name
           \/ h.ok = TRUE /\ (config.append => h.name \notin DOMAIN f.disk)
    BY <1>1, <1>3, NextNameIs
  <1>5. CASE h.ok = FALSE
    <2>1. h.ok \in BOOLEAN /\ h.name = f.name
      BY <1>4, <1>5
    <2>2. IsFile(h)
      BY <1>4, <2>1, NamedOnly
    <2>3. g = h
      BY <1>2, <1>5
    <2>4. h.names = f.names /\ h.disk = f.disk /\ h.failures = f.failures /\ h.reused = f.reused
      BY <1>4 DEF SameFiles
    <2> QED
      BY <1>5, <2>2, <2>3, <2>4, SameContent, KeepsItself DEF Thinned
  <1>6. CASE h.ok = TRUE
    <2>1. PICK k : k = [h EXCEPT !.open = FALSE]
      OBVIOUS
    <2>2. DOMAIN k = DOMAIN f /\ k.open = FALSE /\ k.neg = f.neg /\ k.disk = f.disk
          /\ k.names = f.names /\ k.failures = f.failures /\ k.reused = f.reused
          /\ k.index \in Nat /\ k.ok = TRUE /\ k.name = h.name
      BY <1>3, <1>4, <1>6, <2>1 DEF SameFiles
    <2>3. IsFile(k)
      <3>1. f.neg \in BOOLEAN
        BY DEF IsFile, FileRight
      <3> QED
        BY <2>2, <3>1, ClosedIs
    <2>4. h.disk = k.disk /\ h.names = k.names /\ h.failures = k.failures /\ h.reused = k.reused
          /\ h.index \in Nat /\ DOMAIN h = DOMAIN k
      BY <1>4, <2>2 DEF SameFiles
    <2>7. g = Switched(h, fault)
      BY <1>2, <1>6
    <2>8. Thinned(k, g) /\ (g.ok => g.open /\ g.names # <<>>)
      <3>1. config.append => k.name \notin DOMAIN k.disk
        BY <1>4, <1>6, <2>2
      <3> QED
        BY <1>6, <2>2, <2>3, <2>4, <2>7, <3>1, SwitchedIs
    <2>9. Content(k) = Content(f)
      BY <2>2, SameContent
    <2> QED
      BY <2>2, <2>8, <2>9 DEF Thinned
  <1> QED
    BY <1>4, <1>5, <1>6

-----------------------------------------------------------------------------
(* One more entry in the last file.                                        *)
Written(f, g, e) ==
  /\ DOMAIN g = DOMAIN f /\ g.open = TRUE /\ f.open = TRUE /\ g.neg = TRUE /\ g.ok \in BOOLEAN
  /\ g.index = f.index /\ g.name = f.name /\ g.names = f.names /\ g.reused = f.reused
  /\ g.failures \in Nat /\ (f.failures > 0 => g.failures > 0)
  /\ g.disk = [f.disk EXCEPT ![f.name] = Append(@, e)]

LEMMA LastName ==
  ASSUME NEW f, IsFile(f), f.open = TRUE
  PROVE  /\ Len(f.names) \in Nat \ {0} /\ f.names[Len(f.names)] = f.name
         /\ f.name \in ToSet(f.names) /\ f.name \in DOMAIN f.disk
         /\ \A i \in 1 .. Len(f.names) - 1 : f.names[i] # f.name
  <1>1. f.names \in Seq(DOMAIN f.disk) /\ f.names # <<>> /\ f.name = Last(f.names)
        /\ IsInjective(f.names)
    BY DEF IsFile, FileRight
  <1>2. PICK names \in Seq(DOMAIN f.disk) : names = f.names
    BY <1>1
  <1>3. Len(names) \in Nat \ {0} /\ DOMAIN names = 1 .. Len(names)
        /\ \A i \in 1 .. Len(names) : names[i] \in DOMAIN f.disk
    BY <1>1, <1>2, EmptySeq
  <1>4. names[Len(names)] = f.name /\ Len(names) \in DOMAIN names
    BY <1>1, <1>2, <1>3 DEF Last
  <1>5. \A i \in 1 .. Len(names) - 1 : names[i] # f.name
    BY <1>1, <1>2, <1>3, <1>4 DEF IsInjective
  <1>6. f.name \in ToSet(names) /\ f.name \in DOMAIN f.disk
    BY <1>3, <1>4 DEF ToSet
  <1> QED
    BY <1>2, <1>3, <1>4, <1>5, <1>6

LEMMA EntryAppended ==
  ASSUME NEW d \in Seq(FileEntries), NEW e \in FileEntries
  PROVE  FlattenSeq(EntryMsgs(Append(d, e))) = FlattenSeq(EntryMsgs(d)) \o e.msgs
  <1>1. PICK a : a = Append(d, e)
    OBVIOUS
  <1>2. /\ a \in Seq(FileEntries) /\ Len(a) = Len(d) + 1 /\ Len(d) \in Nat /\ a[Len(d) + 1] = e
        /\ \A i \in 1 .. Len(d) : a[i] = d[i]
    BY <1>1
  <1>3. e.msgs \in Seq(Messages)
    BY DEF FileEntries
  <1>4. /\ EntryMsgs(a) \in Seq(Seq(Messages)) /\ Len(EntryMsgs(a)) = Len(d) + 1
        /\ \A i \in 1 .. Len(d) + 1 : EntryMsgs(a)[i] = a[i].msgs
    BY <1>2, EntryMsgsType
  <1>5. /\ EntryMsgs(d) \in Seq(Seq(Messages)) /\ Len(EntryMsgs(d)) = Len(d)
        /\ \A i \in 1 .. Len(d) : EntryMsgs(d)[i] = d[i].msgs
    BY EntryMsgsType
  <1>6. PICK U : U = Seq(Messages)
    OBVIOUS
  <1>7. PICK v : v = Append(EntryMsgs(d), e.msgs)
    OBVIOUS
  <1>8. /\ v \in Seq(U) /\ Len(v) = Len(d) + 1 /\ v[Len(d) + 1] = e.msgs
        /\ \A i \in 1 .. Len(d) : v[i] = EntryMsgs(d)[i]
    BY <1>3, <1>5, <1>6, <1>7
  <1>9. \A i \in 1 .. Len(d) + 1 : EntryMsgs(a)[i] = v[i]
    <2> TAKE i \in 1 .. Len(d) + 1
    <2>1. i \in 1 .. Len(d) \/ i = Len(d) + 1
      BY <1>2
    <2> QED
      BY <1>2, <1>4, <1>5, <1>8, <2>1
  <1>10. EntryMsgs(a) = v
    BY <1>4, <1>6, <1>8, <1>9, SeqEqual
  <1> QED
    BY <1>1, <1>3, <1>5, <1>7, <1>10, FlattenAppend

LEMMA WrittenIs ==
  ASSUME NEW f, IsFile(f), NEW e \in FileEntries, NEW g, Written(f, g, e),
         e.kind = "hello" <=> f.disk[f.name] = <<>>,
         e.kind # "block" => e.msgs = <<>>,
         e.kind = "torn" => g.failures > 0
  PROVE  IsFile(g)
  <1> DEFINE d == f.disk[f.name]
  <1>1. FileRight(f) /\ f.name \in ToSet(f.names) /\ f.name \in DOMAIN f.disk
        /\ Len(f.names) \in Nat \ {0}
    BY LastName DEF IsFile, Written
  <1>2. DOMAIN g.disk = DOMAIN f.disk /\ g.disk[f.name] = Append(d, e)
        /\ \A n \in DOMAIN f.disk : n # f.name => g.disk[n] = f.disk[n]
    BY <1>1 DEF Written
  <1>3. \A n \in ToSet(f.names) : n \in DOMAIN f.disk
    BY <1>1 DEF FileRight, ToSet
  <1>4. d \in Seq(FileEntries) /\ \A j \in DOMAIN d :
               /\ d[j].kind = "hello" <=> j = 1
               /\ d[j].kind # "block" => d[j].msgs = <<>>
               /\ d[j].kind = "torn" => f.failures > 0
    BY <1>1 DEF FileRight
  <1> HIDE DEF d
  <1>5. PICK a : a = Append(d, e)
    OBVIOUS
  <1>6. /\ a \in Seq(FileEntries) /\ DOMAIN a = 1 .. Len(d) + 1 /\ Len(d) \in Nat /\ a[Len(d) + 1] = e
        /\ (\A i \in 1 .. Len(d) : a[i] = d[i]) /\ DOMAIN d = 1 .. Len(d) /\ a # <<>>
        /\ (d = <<>> <=> Len(d) = 0)
    BY <1>4, <1>5, EmptySeq
  <1>7. \A j \in DOMAIN a :
           /\ a[j].kind = "hello" <=> j = 1
           /\ a[j].kind # "block" => a[j].msgs = <<>>
           /\ a[j].kind = "torn" => g.failures > 0
    <2> TAKE j \in DOMAIN a
    <2>1. CASE j = Len(d) + 1
      <3>1. a[j] = e /\ (j = 1 <=> d = <<>>)
        BY <1>6, <2>1
      <3> QED
        BY <3>1 DEF d
    <2>2. CASE j # Len(d) + 1
      <3>1. j \in DOMAIN d /\ a[j] = d[j]
        BY <1>6, <2>2
      <3> QED
        BY <1>4, <3>1 DEF Written
    <2> QED
      BY <2>1, <2>2
  <1>8. \A n \in ToSet(g.names) :
          /\ g.disk[n] \in Seq(FileEntries)
          /\ \A j \in DOMAIN g.disk[n] :
               /\ g.disk[n][j].kind = "hello" <=> j = 1
               /\ g.disk[n][j].kind # "block" => g.disk[n][j].msgs = <<>>
               /\ g.disk[n][j].kind = "torn" => g.failures > 0
    <2> TAKE n \in ToSet(g.names)
    <2>1. n \in ToSet(f.names) /\ n \in DOMAIN f.disk
      BY <1>3 DEF Written
    <2>2. CASE n = f.name
      <3>1. g.disk[n] = a
        BY <1>2, <1>5, <2>2
      <3> QED
        BY <1>6, <1>7, <3>1
    <2>3. CASE n # f.name
      <3>1. g.disk[n] = f.disk[n]
        BY <1>2, <2>1, <2>3
      <3>2. f.failures > 0 => g.failures > 0
        BY DEF Written
      <3> QED
        BY <1>1, <2>1, <3>1, <3>2 DEF FileRight
    <2> QED
      BY <2>2, <2>3
  <1>9. {g.open, g.neg, g.ok, g.reused} \subseteq BOOLEAN /\ g.index \in Nat
        /\ g.failures \in Nat /\ (g.reused => ~config.append)
    BY <1>1 DEF FileRight, Written
  <1>10. g.names \in Seq(DOMAIN g.disk) /\ IsInjective(g.names)
         /\ (g.open => g.names # <<>> /\ g.name = Last(g.names))
    BY <1>1, <1>2 DEF FileRight, Written
  <1>11. g.open => (g.neg <=> g.disk[g.name] # <<>>)
    BY <1>2, <1>5, <1>6 DEF Written
  <1>12. FileRight(g)
    BY <1>8, <1>9, <1>10, <1>11 DEF FileRight
  <1> QED
    BY <1>12 DEF IsFile, Written

LEMMA WrittenContent ==
  ASSUME NEW f, IsFile(f), NEW e \in FileEntries, NEW g, Written(f, g, e)
  PROVE  Content(g) = Content(f) \o e.msgs
  <1> DEFINE L == Len(f.names)
             M(d) == FlattenSeq(EntryMsgs(d))
             d == f.disk[f.name]
  <1>1. /\ L \in Nat \ {0} /\ f.names[L] = f.name
        /\ f.name \in DOMAIN f.disk /\ \A i \in 1 .. L - 1 : f.names[i] # f.name
    BY LastName DEF Written
  <1>2. /\ FileMsgs(f) \in Seq(Seq(Messages)) /\ Len(FileMsgs(f)) = L
        /\ \A i \in 1 .. L : /\ f.disk[f.names[i]] \in Seq(FileEntries)
                             /\ FileMsgs(f)[i] = M(f.disk[f.names[i]])
    BY FileMsgsType
  <1>3. f.names \in Seq(DOMAIN f.disk)
    BY DEF IsFile, FileRight
  <1>4. DOMAIN f.names = 1 .. L /\ \A i \in 1 .. L : f.names[i] \in DOMAIN f.disk
    BY <1>3
  <1>5. g.disk[f.name] = Append(d, e) /\ g.names = f.names
        /\ \A n \in DOMAIN f.disk : n # f.name => g.disk[n] = f.disk[n]
    BY <1>1 DEF Written
  <1>6. d \in Seq(FileEntries)
    BY <1>1, <1>2
  <1>7. e.msgs \in Seq(Messages)
    BY DEF FileEntries
  <1> HIDE DEF L, M, d
  <1>8. M(Append(d, e)) = M(d) \o e.msgs
    BY <1>6, EntryAppended DEF M
  <1>9. M(d) \in Seq(Messages) /\ M(d) \o e.msgs \in Seq(Messages)
    <2>1. M(d) \in Seq(Messages)
      BY <1>6, EntryMsgsType, FlattenType DEF M
    <2> QED
      BY <1>7, <2>1
  <1>10. PICK U : U = Seq(Messages)
    OBVIOUS
  <1>11. PICK s \in Seq(U) : s = FileMsgs(f)
    BY <1>2, <1>10
  <1>12. PICK v \in Seq(U), x \in U : s = Append(v, x)
    <2>1. s # <<>>
      BY <1>1, <1>2, <1>11, EmptySeq
    <2> QED
      BY <2>1, SequenceEmptyOrAppend
  <1>13. Len(v) = L - 1 /\ x = s[L] /\ \A i \in 1 .. L - 1 : v[i] = s[i]
    <2>1. Len(s) = Len(v) + 1 /\ Len(v) \in Nat /\ s[Len(v) + 1] = x
          /\ \A i \in 1 .. Len(v) : v[i] = s[i]
      BY <1>12
    <2>2. Len(s) = L
      BY <1>2, <1>11
    <2> QED
      BY <1>1, <2>1, <2>2
  <1>14. x = M(d)
    BY <1>1, <1>2, <1>11, <1>13 DEF d
  <1>15. PICK w : w = Append(v, M(d) \o e.msgs)
    OBVIOUS
  <1>16. /\ w \in Seq(U) /\ Len(w) = L /\ w[L] = M(d) \o e.msgs
         /\ \A i \in 1 .. L - 1 : w[i] = v[i]
    <2>1. PICK z \in U : z = M(d) \o e.msgs
      BY <1>9, <1>10
    <2> QED
      BY <1>1, <1>13, <1>15, <2>1
  <1>17. FileMsgs(g) = [i \in 1 .. L |-> M(g.disk[f.names[i]])]
    BY <1>4, <1>5 DEF FileMsgs, M
  <1>18. \A i \in 1 .. L : M(g.disk[f.names[i]]) = w[i]
    <2> TAKE i \in 1 .. L
    <2>1. CASE i = L
      BY <1>1, <1>5, <1>8, <1>16, <2>1
    <2>2. CASE i # L
      <3>1. i \in 1 .. L - 1
        BY <1>1, <2>2
      <3>2. g.disk[f.names[i]] = f.disk[f.names[i]]
        BY <1>1, <1>4, <1>5, <3>1
      <3> QED
        BY <1>2, <1>11, <1>13, <1>16, <3>1, <3>2
    <2> QED
      BY <2>1, <2>2
  <1>19. FileMsgs(g) = w
    <2>1. w = [i \in 1 .. L |-> w[i]]
      BY <1>16
    <2> QED
      BY <1>17, <1>18, <2>1
  <1>20. v \in Seq(Seq(Messages)) /\ FlattenSeq(v) \in Seq(Messages)
    BY <1>10, FlattenType
  <1>21. FlattenSeq(Append(v, M(d))) = FlattenSeq(v) \o M(d)
    BY <1>9, <1>20, FlattenAppend
  <1>22. FlattenSeq(w) = FlattenSeq(v) \o (M(d) \o e.msgs)
    BY <1>9, <1>15, <1>20, FlattenAppend
  <1>23. (FlattenSeq(v) \o M(d)) \o e.msgs = FlattenSeq(v) \o (M(d) \o e.msgs)
    <2>1. PICK a \in Seq(Messages), c \in Seq(Messages), b \in Seq(Messages) :
            a = FlattenSeq(v) /\ c = M(d) /\ b = e.msgs
      BY <1>7, <1>9, <1>20
    <2>2. (a \o c) \o b = a \o (c \o b)
      BY ConcatAssociative
    <2> QED
      BY <2>1, <2>2
  <1> QED
    BY <1>11, <1>12, <1>14, <1>19, <1>21, <1>22, <1>23 DEF Content

-----------------------------------------------------------------------------
(* What file_write_buffer does to the files.                               *)
LEMMA ThinnedItself ==
  ASSUME NEW f, IsFile(f)
  PROVE  Thinned(f, f)
  BY KeepsItself DEF Thinned

\* The names of the fields of a file.
FileDomain == {"open", "name", "neg", "index", "created", "ok", "disk", "names",
               "failures", "reused"}

LEMMA FileFields ==
  ASSUME NEW f, IsFile(f)
  PROVE  /\ DOMAIN f = FileDomain /\ f.index \in Nat /\ f.failures \in Nat
         /\ f.open \in BOOLEAN /\ f.ok \in BOOLEAN /\ f.neg \in BOOLEAN /\ f.reused \in BOOLEAN
         /\ f.reused => ~config.append
  BY DEF IsFile, FileRight, FileDomain

LEMMA OtherFields ==
  ASSUME NEW f, IsFile(f), NEW g, DOMAIN g = DOMAIN f, SameFiles(f, g),
         g.ok \in BOOLEAN, g.index \in Nat, g.name = f.name
  PROVE  IsFile(g) /\ Thinned(f, g) /\ Content(g) = Content(f)
  <1>1. IsFile(g)
    BY NamedOnly
  <1>2. g.names = f.names /\ g.disk = f.disk
    BY DEF SameFiles
  <1>3. Content(g) = Content(f)
    BY <1>2, SameContent
  <1> QED
    BY <1>1, <1>2, <1>3, KeepsItself DEF Thinned, SameFiles

LEMMA RotatedIs ==
  ASSUME NEW f, IsFile(f), f.ok => f.open, NEW fault, NEW g, g = Rotated(f, fault)
  PROVE  Thinned(f, g) /\ (g.ok => g.open)
  <1>1. DOMAIN f = FileDomain /\ f.ok \in BOOLEAN
    BY FileFields
  <1>2. PICK z : z = [f EXCEPT !.index = 0]
    OBVIOUS
  <1>3. DOMAIN z = DOMAIN f /\ SameFiles(f, z) /\ z.ok = f.ok /\ z.index \in Nat /\ z.name = f.name
    BY <1>1, <1>2 DEF SameFiles, FileDomain
  <1>4. IsFile(z) /\ Thinned(f, z)
    BY <1>1, <1>3, OtherFields
  <1>5. PICK h : h = IF f.ok /\ config.byTime /\ clock > f.created THEN NextFile(z, fault) ELSE f
    OBVIOUS
  <1>6. g = IF h.ok /\ config.bySize /\ Blocks(h.disk[h.name]) >= PerFile
              THEN NextFile(h, fault) ELSE h
    BY <1>2, <1>5 DEF Rotated
  <1>7. Thinned(f, h) /\ (h.ok => h.open)
    <2>1. CASE h = f
      BY <2>1, ThinnedItself
    <2>2. CASE h = NextFile(z, fault) /\ f.ok
      <3>1. z.ok = TRUE
        BY <1>1, <1>3, <2>2
      <3>2. Thinned(z, h) /\ (h.ok => h.open /\ h.names # <<>>)
        BY <1>4, <2>2, <3>1, NextFileIs
      <3> QED
        BY <1>4, <3>2, ThinnedTwice
    <2> QED
      BY <1>5, <2>1, <2>2
  <1>8. IsFile(h)
    BY <1>7 DEF Thinned
  <1>9. CASE g = h
    BY <1>7, <1>9
  <1>10. CASE g = NextFile(h, fault) /\ h.ok
    <2>1. h.ok = TRUE
      BY <1>8, <1>10, FileFields
    <2>2. Thinned(h, g) /\ (g.ok => g.open /\ g.names # <<>>)
      BY <1>8, <1>10, <2>1, NextFileIs
    <2> QED
      BY <1>7, <2>2, ThinnedTwice
  <1> QED
    BY <1>6, <1>9, <1>10

EntryAdded(f, e, g) ==
  /\ DOMAIN g = FileDomain /\ g.open = f.open /\ g.neg = f.neg /\ g.ok = f.ok
  /\ g.index = f.index /\ g.name = f.name /\ g.names = f.names /\ g.reused = f.reused
  /\ g.failures = f.failures /\ g.disk = [f.disk EXCEPT ![f.name] = Append(@, e)]

LEMMA EntryFields ==
  ASSUME NEW f, DOMAIN f = FileDomain, NEW e, NEW g, g = WithEntry(f, e)
  PROVE  EntryAdded(f, e, g)
  BY DEF EntryAdded, WithEntry, FileDomain

\* What writing an entry leaves as it is.
SameCounts(f, g) == g.failures = f.failures /\ g.reused = f.reused /\ g.names = f.names

LEMMA AnnouncedIs ==
  ASSUME NEW f, IsFile(f), f.ok => f.open, NEW fault, format \in AnyFormat,
         NEW g, g = Announced(f, fault)
  PROVE  /\ IsFile(g) /\ Content(g) = Content(f) /\ SameCounts(f, g)
         /\ g.ok => g.open /\ g.neg
  <1>1. DOMAIN f = FileDomain /\ f.ok \in BOOLEAN /\ f.neg \in BOOLEAN /\ f.open \in BOOLEAN
        /\ f.index \in Nat /\ f.failures \in Nat
    BY FileFields
  <1>2. CASE ~f.ok \/ f.neg
    <2>1. g = f
      BY <1>2 DEF Announced
    <2> QED
      BY <1>2, <2>1 DEF SameCounts
  <1>3. CASE f.ok /\ ~f.neg /\ (format = NoFormat \/ fault = "hello")
    <2>1. g = [f EXCEPT !.ok = FALSE]
      BY <1>3 DEF Announced
    <2>2. DOMAIN g = DOMAIN f /\ SameFiles(f, g) /\ g.ok = FALSE /\ g.index = f.index /\ g.name = f.name
      BY <1>1, <2>1 DEF SameFiles, FileDomain
    <2>3. IsFile(g) /\ Content(g) = Content(f)
      BY <1>1, <2>2, OtherFields
    <2> QED
      BY <2>2, <2>3 DEF SameFiles, SameCounts
  <1>4. CASE f.ok /\ ~f.neg /\ ~(format = NoFormat \/ fault = "hello")
    <2>1. PICK z : z = [f EXCEPT !.neg = TRUE]
      OBVIOUS
    <2>2. PICK e : e = HelloOf(format)
      OBVIOUS
    <2>3. e \in FileEntries /\ e.kind = "hello" /\ e.msgs = <<>>
      BY <2>2 DEF HelloOf, FileEntries
    <2>4. Written(f, g, e) /\ SameCounts(f, g)
      <3>1. g = WithEntry(z, e)
        BY <1>4, <2>1, <2>2 DEF Announced
      <3>2. /\ DOMAIN z = FileDomain /\ z.open = f.open /\ z.neg = TRUE /\ z.ok = f.ok
            /\ z.index = f.index /\ z.name = f.name /\ z.names = f.names /\ z.reused = f.reused
            /\ z.failures = f.failures /\ z.disk = f.disk
        BY <1>1, <2>1 DEF FileDomain
      <3>3. /\ DOMAIN g = FileDomain /\ g.open = f.open /\ g.neg = TRUE /\ g.ok = f.ok
            /\ g.index = f.index /\ g.name = f.name /\ g.names = f.names /\ g.reused = f.reused
            /\ g.failures = f.failures /\ g.disk = [f.disk EXCEPT ![f.name] = Append(@, e)]
        <4>1. EntryAdded(z, e, g)
          BY <3>1, <3>2, EntryFields
        <4> QED
          BY <3>2, <4>1 DEF EntryAdded
      <3> QED
        BY <1>1, <1>4, <3>3 DEF Written, SameCounts
    <2>5. f.disk[f.name] = <<>>
      BY <1>1, <1>4 DEF IsFile, FileRight
    <2>6. IsFile(g)
      BY <2>3, <2>4, <2>5, WrittenIs
    <2>7. Content(g) = Content(f) \o e.msgs
      BY <2>3, <2>4, WrittenContent
    <2>8. Content(g) = Content(f)
      BY <2>3, <2>7, ContentType
    <2> QED
      BY <2>4, <2>6, <2>8 DEF Written
  <1> QED
    BY <1>2, <1>3, <1>4

LEMMA FailedIs ==
  ASSUME NEW f, IsFile(f), NEW g, g = [f EXCEPT !.failures = @ + 1]
  PROVE  IsFile(g) /\ Content(g) = Content(f) /\ g.failures = f.failures + 1
         /\ g.reused = f.reused /\ g.names = f.names /\ g.ok = f.ok
  <1>1. DOMAIN f = FileDomain /\ f.failures \in Nat
    BY FileFields
  <1>2. /\ DOMAIN g = DOMAIN f /\ g.open = f.open /\ g.neg = f.neg /\ g.disk = f.disk
        /\ g.names = f.names /\ g.failures = f.failures + 1 /\ g.reused = f.reused
        /\ g.ok = f.ok /\ g.index = f.index /\ g.name = f.name
    BY <1>1 DEF FileDomain
  <1>3. FileRight(f)
    BY DEF IsFile
  <1>4. {g.open, g.neg, g.ok, g.reused} \subseteq BOOLEAN /\ g.index \in Nat
        /\ g.failures \in Nat /\ g.failures > 0 /\ (g.reused => ~config.append)
    BY <1>1, <1>2, <1>3 DEF FileRight
  <1>5. g.names \in Seq(DOMAIN g.disk) /\ IsInjective(g.names)
        /\ (g.open => g.names # <<>> /\ g.name = Last(g.names))
        /\ (g.open => (g.neg <=> g.disk[g.name] # <<>>))
    BY <1>2, <1>3 DEF FileRight
  <1>6. \A n \in ToSet(g.names) :
          /\ g.disk[n] \in Seq(FileEntries)
          /\ \A j \in DOMAIN g.disk[n] :
               /\ g.disk[n][j].kind = "hello" <=> j = 1
               /\ g.disk[n][j].kind # "block" => g.disk[n][j].msgs = <<>>
               /\ g.disk[n][j].kind = "torn" => g.failures > 0
    BY <1>2, <1>3, <1>4 DEF FileRight
  <1>7. FileRight(g)
    BY <1>4, <1>5, <1>6 DEF FileRight
  <1> QED
    BY <1>2, <1>7, SameContent DEF IsFile

\* What file_write_buffer leaves: what it has been given is in the files, or a
\* failure has been counted.
StoredIn(f, g, ms) ==
  \E h : /\ Thinned(f, h) /\ IsFile(g) /\ g.reused = h.reused /\ g.names = h.names
         /\ IF g.ok THEN g.failures = f.failures /\ Content(g) = Content(h) \o ms
                    ELSE g.failures = f.failures + 1 /\ Content(g) = Content(h)

LEMMA BufferedIs ==
  ASSUME IsFile(file), format \in AnyFormat, NEW ms \in Seq(Messages), NEW fault,
         NEW g, g = Buffered(ms, fault)
  PROVE  StoredIn(file, g, ms)
  <1>1. PICK z : z = [file EXCEPT !.ok = file.open]
    OBVIOUS
  <1>2. IsFile(z) /\ Thinned(file, z) /\ (z.ok => z.open)
    <2>1. DOMAIN file = FileDomain /\ file.open \in BOOLEAN /\ file.index \in Nat
      BY FileFields
    <2>2. DOMAIN z = DOMAIN file /\ SameFiles(file, z) /\ z.ok = file.open /\ z.index = file.index
          /\ z.name = file.name /\ z.open = file.open
      BY <1>1, <2>1 DEF FileDomain, SameFiles
    <2> QED
      BY <2>1, <2>2, OtherFields
  <1>3. PICK h : h = Rotated(z, fault)
    OBVIOUS
  <1>4. Thinned(z, h) /\ (h.ok => h.open)
    BY <1>2, <1>3, RotatedIs
  <1>5. Thinned(file, h) /\ IsFile(h) /\ h.failures = file.failures
    BY <1>2, <1>4, ThinnedTwice DEF Thinned
  <1>6. PICK f : f = Announced(h, fault)
    OBVIOUS
  <1>7. IsFile(f) /\ Content(f) = Content(h) /\ SameCounts(h, f) /\ (f.ok => f.open /\ f.neg)
    BY <1>4, <1>5, <1>6, AnnouncedIs
  <1>8. PICK y : y = CASE ~f.ok -> f
                       [] f.ok /\ fault = "write" -> [WithEntry(f, Torn) EXCEPT !.ok = FALSE]
                       [] OTHER -> WithEntry(f, Block(ms))
    OBVIOUS
  <1>9. g = IF y.ok THEN y ELSE [y EXCEPT !.failures = @ + 1]
    BY <1>1, <1>3, <1>6, <1>8, Zenon DEF Buffered
  <1>10. DOMAIN f = FileDomain /\ f.ok \in BOOLEAN /\ f.open \in BOOLEAN /\ f.neg \in BOOLEAN
         /\ f.failures \in Nat
    BY <1>7, FileFields
  <1>11. CASE ~f.ok
    <2>1. y = f /\ ~y.ok /\ g = [f EXCEPT !.failures = @ + 1]
      BY <1>8, <1>9, <1>11
    <2>2. IsFile(g) /\ Content(g) = Content(f) /\ g.failures = f.failures + 1
          /\ g.reused = f.reused /\ g.names = f.names /\ g.ok = f.ok
      BY <1>7, <2>1, FailedIs
    <2> QED
      BY <1>5, <1>7, <1>11, <2>2 DEF StoredIn, SameCounts
  <1>12. f.ok => f.disk[f.name] # <<>>
    BY <1>7 DEF IsFile, FileRight
  <1>13. CASE f.ok /\ fault = "write"
    <2>7. PICK e : e = Torn
      OBVIOUS
    <2>1. PICK w : w = WithEntry(f, e)
      OBVIOUS
    <2>2. y = [w EXCEPT !.ok = FALSE]
      BY <1>8, <1>13, <2>1, <2>7
    <2>3. /\ DOMAIN w = FileDomain /\ w.open = f.open /\ w.neg = f.neg /\ w.ok = f.ok
          /\ w.index = f.index /\ w.name = f.name /\ w.names = f.names /\ w.reused = f.reused
          /\ w.failures = f.failures /\ w.disk = [f.disk EXCEPT ![f.name] = Append(@, e)]
      <3>1. EntryAdded(f, e, w)
        BY <1>10, <2>1, EntryFields
      <3> QED
        BY <3>1 DEF EntryAdded
    <2>4. /\ DOMAIN y = FileDomain /\ y.open = f.open /\ y.neg = f.neg /\ y.ok = FALSE
          /\ y.index = f.index /\ y.name = f.name /\ y.names = f.names /\ y.reused = f.reused
          /\ y.failures = f.failures /\ y.disk = [f.disk EXCEPT ![f.name] = Append(@, e)]
      BY <2>2, <2>3 DEF FileDomain
    <2>5. g = [y EXCEPT !.failures = @ + 1]
      BY <1>9, <2>4
    <2>6. /\ DOMAIN g = FileDomain /\ g.open = f.open /\ g.neg = f.neg /\ g.ok = FALSE
          /\ g.index = f.index /\ g.name = f.name /\ g.names = f.names /\ g.reused = f.reused
          /\ g.failures = f.failures + 1 /\ g.disk = [f.disk EXCEPT ![f.name] = Append(@, e)]
      BY <2>4, <2>5 DEF FileDomain
    <2>8. e \in FileEntries /\ e.kind = "torn" /\ e.msgs = <<>>
      BY <2>7 DEF Torn, FileEntries, AnyFormat
    <2>9. Written(f, g, e)
      <3>1. f.open = TRUE /\ f.neg = TRUE
        BY <1>7, <1>10, <1>13
      <3> QED
        <4>1. g.failures \in Nat /\ g.failures > 0
          BY <1>10, <2>6
        <4>2. g.ok \in BOOLEAN /\ g.open = TRUE /\ g.neg = TRUE /\ DOMAIN g = DOMAIN f
          BY <1>10, <2>6, <3>1
        <4>3. g.disk = [f.disk EXCEPT ![f.name] = Append(@, e)]
          BY <2>6
        <4> QED
          BY <2>6, <3>1, <4>1, <4>2, <4>3 DEF Written
    <2>10. g.failures > 0
      BY <1>10, <2>6
    <2>11. IsFile(g)
      BY <1>7, <1>12, <1>13, <2>8, <2>9, <2>10, WrittenIs
    <2>12. Content(g) = Content(f) \o e.msgs
      BY <1>7, <2>8, <2>9, WrittenContent
    <2>13. Content(g) = Content(f)
      BY <1>7, <2>8, <2>12, ContentType
    <2> QED
      BY <1>5, <1>7, <2>6, <2>11, <2>13 DEF StoredIn, SameCounts
  <1>14. CASE f.ok /\ fault # "write"
    <2>1. PICK e : e = Block(ms)
      OBVIOUS
    <2>2. e \in FileEntries /\ e.kind = "block" /\ e.msgs = ms
      BY <2>1 DEF Block, FileEntries, AnyFormat
    <2>3. y = WithEntry(f, e)
      BY <1>8, <1>14, <2>1
    <2>4. /\ DOMAIN y = FileDomain /\ y.open = f.open /\ y.neg = f.neg /\ y.ok = f.ok
          /\ y.index = f.index /\ y.name = f.name /\ y.names = f.names /\ y.reused = f.reused
          /\ y.failures = f.failures /\ y.disk = [f.disk EXCEPT ![f.name] = Append(@, e)]
      <3>1. EntryAdded(f, e, y)
        BY <1>10, <2>3, EntryFields
      <3> QED
        BY <3>1 DEF EntryAdded
    <2>5. g = y
      BY <1>9, <1>14, <2>4
    <2>6. Written(f, g, e)
      <3>1. f.open = TRUE /\ f.neg = TRUE
        BY <1>7, <1>10, <1>14
      <3> QED
        BY <1>10, <2>4, <2>5, <3>1 DEF Written
    <2>7. IsFile(g)
      BY <1>7, <1>12, <1>14, <2>2, <2>6, WrittenIs
    <2>8. Content(g) = Content(f) \o ms
      BY <1>7, <2>2, <2>6, WrittenContent
    <2>9. g.ok = TRUE /\ g.failures = file.failures /\ g.reused = h.reused /\ g.names = h.names
          /\ Content(g) = Content(h) \o ms
      BY <1>5, <1>7, <1>10, <1>14, <2>4, <2>5, <2>8 DEF SameCounts
    <2> QED
      BY <1>5, <2>7, <2>9 DEF StoredIn
  <1> QED
    BY <1>11, <1>13, <1>14

-----------------------------------------------------------------------------
(* What has been written and what is in the buffer, and the calls of        *)
(* trap_send.                                                              *)
InOrderTo(T, n) == T \in Seq(Messages) /\ Ascending(T) /\ \A k \in IdsIn(T) : k <= n

LEMMA OneMoreMessage ==
  ASSUME NEW n \in Nat, NEW T, InOrderTo(T, n), NEW m \in Messages, m.id = n + 1
  PROVE  InOrderTo(Append(T, m), n + 1)
         /\ \A k : k \in IdsIn(Append(T, m)) <=> k \in IdsIn(T) \/ k = n + 1
  <1>1. PICK a : a = Append(T, m)
    OBVIOUS
  <1>2. /\ T \in Seq(Messages) /\ Len(T) \in Nat /\ DOMAIN T = 1 .. Len(T)
        /\ a \in Seq(Messages) /\ DOMAIN a = 1 .. Len(T) + 1 /\ a[Len(T) + 1] = m
        /\ \A i \in 1 .. Len(T) : a[i] = T[i]
    BY <1>1 DEF InOrderTo
  <1>3. \A i \in 1 .. Len(T) : T[i].id \in Nat /\ T[i].id <= n
    <2> TAKE i \in 1 .. Len(T)
    <2>1. T[i] \in Messages /\ T[i].id \in IdsIn(T)
      BY <1>2 DEF IdsIn
    <2> QED
      BY <2>1 DEF InOrderTo, Messages
  <1>4. Ascending(a)
    <2>1. ASSUME NEW i \in 1 .. Len(T) + 1, NEW j \in 1 .. Len(T) + 1, i < j
          PROVE  a[i].id < a[j].id
      <3>1. i \in 1 .. Len(T) /\ a[i] = T[i]
        BY <1>2, <2>1
      <3>2. CASE j = Len(T) + 1
        BY <1>2, <1>3, <3>1, <3>2
      <3>3. CASE j # Len(T) + 1
        <4>1. j \in 1 .. Len(T) /\ a[j] = T[j]
          BY <1>2, <3>3
        <4> QED
          BY <1>2, <2>1, <3>1, <4>1 DEF InOrderTo, Ascending
      <3> QED
        BY <3>2, <3>3
    <2> QED
      BY <1>2, <2>1 DEF Ascending
  <1>5. ASSUME NEW k PROVE k \in IdsIn(a) <=> k \in IdsIn(T) \/ k = n + 1
    <2>1. ASSUME k \in IdsIn(a) PROVE k \in IdsIn(T) \/ k = n + 1
      <3>1. PICK i \in 1 .. Len(T) + 1 : k = a[i].id
        BY <1>2, <2>1 DEF IdsIn
      <3>2. i \in 1 .. Len(T) \/ i = Len(T) + 1
        BY <1>2
      <3> QED
        BY <1>2, <3>1, <3>2 DEF IdsIn
    <2>2. ASSUME k \in IdsIn(T) PROVE k \in IdsIn(a)
      <3>1. PICK i \in 1 .. Len(T) : k = T[i].id
        BY <1>2, <2>2 DEF IdsIn
      <3>2. i \in DOMAIN a /\ a[i] = T[i]
        BY <1>2
      <3> QED
        BY <3>1, <3>2 DEF IdsIn
    <2>3. n + 1 \in IdsIn(a)
      <3>1. Len(T) + 1 \in DOMAIN a /\ n + 1 = a[Len(T) + 1].id
        BY <1>2
      <3> QED
        BY <3>1 DEF IdsIn
    <2> QED
      BY <2>1, <2>2, <2>3
  <1>6. \A k \in IdsIn(T) : k \in Nat /\ k <= n
    <2> TAKE k \in IdsIn(T)
    <2>1. PICK i \in 1 .. Len(T) : k = T[i].id
      BY <1>2 DEF IdsIn
    <2> QED
      BY <1>3, <2>1
  <1>7. \A k \in IdsIn(a) : k <= n + 1
    BY <1>5, <1>6
  <1> QED
    BY <1>1, <1>2, <1>4, <1>5, <1>7 DEF InOrderTo

LEMMA KeptInOrder ==
  ASSUME NEW C \in Seq(Messages), NEW H \in Seq(Messages), NEW B \in Seq(Messages), Keeps(C, H),
         NEW n, InOrderTo(C \o B, n)
  PROVE  InOrderTo(H \o B, n)
  <1>1. H \o B \in Seq(Messages)
    OBVIOUS
  <1>2. Ascending(H \o B)
    BY DEF Keeps, InOrderTo
  <1>3. \A k \in IdsIn(H \o B) : k \in IdsIn(C \o B)
    BY IdsConcat DEF Keeps
  <1> QED
    BY <1>1, <1>2, <1>3 DEF InOrderTo

\* A call that has succeeded and whose message is not there.
LEMMA AckedFinite ==
  ASSUME NEW n \in Nat, NEW ack \in Seq(1 .. n), NEW X
  PROVE  IsFiniteSet(ToSet(ack) \ X) /\ Cardinality(ToSet(ack) \ X) \in Nat
  <1>1. ToSet(ack) \subseteq 1 .. n
    BY DEF ToSet
  <1>2. IsFiniteSet(1 .. n)
    BY FS_Interval
  <1>3. ToSet(ack) \ X \subseteq 1 .. n
    BY <1>1
  <1>4. IsFiniteSet(ToSet(ack) \ X)
    BY <1>2, <1>3, FS_Subset
  <1> QED
    BY <1>4, FS_CardinalityType

LEMMA AckedOneMore ==
  ASSUME NEW n \in Nat, NEW ack \in Seq(1 .. n), NEW k \in 1 .. n + 1
  PROVE  /\ ack \in Seq(1 .. n + 1) /\ Append(ack, k) \in Seq(1 .. n + 1)
         /\ \A x : x \in ToSet(Append(ack, k)) <=> x \in ToSet(ack) \/ x = k
  <1>1. \A i \in 1 .. Len(ack) : ack[i] \in 1 .. n
    OBVIOUS
  <1>2. ack \in Seq(1 .. n + 1)
    <2>1. \A i \in 1 .. Len(ack) : ack[i] \in 1 .. n + 1
      BY <1>1
    <2> QED
      BY <2>1
  <1>3. PICK a : a = Append(ack, k)
    OBVIOUS
  <1>4. /\ a \in Seq(1 .. n + 1) /\ DOMAIN a = 1 .. Len(ack) + 1 /\ a[Len(ack) + 1] = k
        /\ (\A i \in 1 .. Len(ack) : a[i] = ack[i]) /\ Len(ack) \in Nat
        /\ DOMAIN ack = 1 .. Len(ack)
    BY <1>2, <1>3
  <1>5. ASSUME NEW x PROVE x \in ToSet(a) <=> x \in ToSet(ack) \/ x = k
    <2>1. ASSUME x \in ToSet(a) PROVE x \in ToSet(ack) \/ x = k
      <3>1. PICK i \in 1 .. Len(ack) + 1 : x = a[i]
        BY <1>4, <2>1 DEF ToSet
      <3>2. i \in 1 .. Len(ack) \/ i = Len(ack) + 1
        BY <1>4
      <3> QED
        BY <1>4, <3>1, <3>2 DEF ToSet
    <2>2. ASSUME x \in ToSet(ack) \/ x = k PROVE x \in ToSet(a)
      <3>1. \E i \in 1 .. Len(ack) + 1 : x = a[i]
        BY <1>4, <2>2 DEF ToSet
      <3> QED
        BY <1>4, <3>1 DEF ToSet
    <2> QED
      BY <2>1, <2>2
  <1> QED
    BY <1>2, <1>3, <1>4, <1>5

LEMMA FewerMissing ==
  ASSUME NEW A, IsFiniteSet(A), NEW B, \A x \in B : x \in A
  PROVE  Cardinality(B) <= Cardinality(A)
  BY FS_Subset

LEMMA OneMoreMissing ==
  ASSUME NEW A, IsFiniteSet(A), NEW B, NEW k, \A x \in B : x \in A \/ x = k
  PROVE  Cardinality(B) <= Cardinality(A) + 1
  <1>1. IsFiniteSet(A \cup {k}) /\ Cardinality(A \cup {k}) <= Cardinality(A) + 1
        /\ Cardinality(A) \in Nat
    BY FS_AddElement, FS_CardinalityType
  <1>2. B \subseteq A \cup {k}
    OBVIOUS
  <1>3. Cardinality(B) <= Cardinality(A \cup {k})
    BY <1>1, <1>2, FS_Subset
  <1>4. Cardinality(B) \in Nat /\ Cardinality(A \cup {k}) \in Nat
    BY <1>1, <1>2, FS_Subset, FS_CardinalityType
  <1> QED
    BY <1>1, <1>3, <1>4

-----------------------------------------------------------------------------
(* What is kept of the calls, as the calls go on.                          *)
KeptFor(T, n, ack, reused, fin, fails) ==
  /\ InOrderTo(T, n) /\ n \in Nat /\ ack \in Seq(1 .. n) /\ fin \in BOOLEAN /\ fails \in Nat
  /\ ~reused => Cardinality(ToSet(ack) \ IdsIn(T)) + (IF fin THEN 1 ELSE 0) <= fails

LEMMA KeptMoved ==
  ASSUME NEW C \in Seq(Messages), NEW H \in Seq(Messages), NEW B \in Seq(Messages), Keeps(C, H),
         NEW n, NEW ack, NEW reused, NEW fin, NEW fails,
         KeptFor(C \o B, n, ack, reused, fin, fails),
         NEW now, ~now => H = C /\ ~reused
  PROVE  KeptFor(H \o B, n, ack, now, fin, fails)
  <1>1. InOrderTo(H \o B, n)
    BY KeptInOrder DEF KeptFor
  <1> QED
    BY <1>1 DEF KeptFor

LEMMA KeptTried ==
  ASSUME NEW T, NEW n, NEW ack, NEW reused, NEW fin, NEW fails,
         KeptFor(T, n, ack, reused, fin, fails)
  PROVE  /\ KeptFor(T, n, ack, reused, FALSE, fails)
         /\ KeptFor(T, n, ack, reused, TRUE, fails + 1)
  <1>1. Cardinality(ToSet(ack) \ IdsIn(T)) \in Nat
    BY AckedFinite DEF KeptFor
  <1> QED
    BY <1>1 DEF KeptFor

LEMMA KeptAccepted ==
  ASSUME NEW T, NEW n, NEW ack, NEW reused, NEW fin, NEW fails,
         KeptFor(T, n, ack, reused, fin, fails), NEW m \in Messages, m.id = n + 1
  PROVE  /\ KeptFor(Append(T, m), n + 1, Append(ack, n + 1), reused, fin, fails)
         /\ KeptFor(Append(T, m), n + 1, ack, reused, fin, fails)
  <1>1. n \in Nat /\ ack \in Seq(1 .. n) /\ fails \in Nat /\ fin \in BOOLEAN
    BY DEF KeptFor
  <1>2. PICK a : a = Append(T, m)
    OBVIOUS
  <1>3. InOrderTo(a, n + 1) /\ \A k : k \in IdsIn(a) <=> k \in IdsIn(T) \/ k = n + 1
    BY <1>1, <1>2, OneMoreMessage DEF KeptFor
  <1>4. PICK b : b = Append(ack, n + 1)
    OBVIOUS
  <1>5. n + 1 \in 1 .. n + 1 /\ n + 1 \in Nat
    BY <1>1
  <1>6. /\ ack \in Seq(1 .. n + 1) /\ b \in Seq(1 .. n + 1)
        /\ \A x : x \in ToSet(b) <=> x \in ToSet(ack) \/ x = n + 1
    BY <1>1, <1>4, <1>5, AckedOneMore
  <1>7. PICK A : A = ToSet(ack) \ IdsIn(T)
    OBVIOUS
  <1>8. IsFiniteSet(A) /\ Cardinality(A) \in Nat
    BY <1>1, <1>7, AckedFinite
  <1>9. PICK M : M = ToSet(b) \ IdsIn(a)
    OBVIOUS
  <1>10. PICK N : N = ToSet(ack) \ IdsIn(a)
    OBVIOUS
  <1>11. Cardinality(M) <= Cardinality(A) /\ Cardinality(N) <= Cardinality(A)
    <2>1. (\A x \in M : x \in A) /\ (\A x \in N : x \in A)
      BY <1>3, <1>6, <1>7, <1>9, <1>10
    <2> QED
      BY <1>8, <2>1, FewerMissing
  <1>12. Cardinality(M) \in Nat /\ Cardinality(N) \in Nat
    <2>1. n + 1 \in Nat
      BY <1>1
    <2> QED
      BY <2>1, <1>6, <1>9, <1>10, AckedFinite
  <1>13. ~reused => Cardinality(A) + (IF fin THEN 1 ELSE 0) <= fails
    BY <1>7 DEF KeptFor
  <1>14. ~reused => /\ Cardinality(M) + (IF fin THEN 1 ELSE 0) <= fails
                    /\ Cardinality(N) + (IF fin THEN 1 ELSE 0) <= fails
    BY <1>1, <1>8, <1>11, <1>12, <1>13
  <1>15. KeptFor(a, n + 1, b, reused, fin, fails)
    BY <1>1, <1>3, <1>5, <1>6, <1>9, <1>14 DEF KeptFor
  <1>16. KeptFor(a, n + 1, ack, reused, fin, fails)
    BY <1>1, <1>3, <1>5, <1>6, <1>10, <1>14 DEF KeptFor
  <1> QED
    BY <1>2, <1>4, <1>15, <1>16

LEMMA KeptWithout ==
  ASSUME NEW T, NEW n, NEW ack, NEW reused, NEW fin, NEW fails,
         KeptFor(T, n, ack, reused, fin, fails)
  PROVE  /\ KeptFor(T, n + 1, ack, reused, fin, fails)
         /\ fin => KeptFor(T, n + 1, Append(ack, n + 1), reused, FALSE, fails)
  <1>1. n \in Nat /\ ack \in Seq(1 .. n) /\ fails \in Nat /\ fin \in BOOLEAN /\ InOrderTo(T, n)
    BY DEF KeptFor
  <1>2. InOrderTo(T, n + 1)
    <2>1. \A k \in IdsIn(T) : k \in Nat /\ k <= n
      <3> TAKE k \in IdsIn(T)
      <3>1. PICK i \in DOMAIN T : k = T[i].id
        BY DEF IdsIn
      <3>2. T[i] \in Messages
        BY <1>1, <3>1 DEF InOrderTo
      <3> QED
        BY <1>1, <3>1, <3>2 DEF InOrderTo, Messages
    <2> QED
      BY <1>1, <2>1 DEF InOrderTo
  <1>4. PICK b : b = Append(ack, n + 1)
    OBVIOUS
  <1>5. n + 1 \in 1 .. n + 1 /\ n + 1 \in Nat
    BY <1>1
  <1>6. /\ ack \in Seq(1 .. n + 1) /\ b \in Seq(1 .. n + 1)
        /\ \A x : x \in ToSet(b) <=> x \in ToSet(ack) \/ x = n + 1
    BY <1>1, <1>4, <1>5, AckedOneMore
  <1>7. PICK A : A = ToSet(ack) \ IdsIn(T)
    OBVIOUS
  <1>8. IsFiniteSet(A) /\ Cardinality(A) \in Nat
    BY <1>1, <1>7, AckedFinite
  <1>9. PICK M : M = ToSet(b) \ IdsIn(T)
    OBVIOUS
  <1>10. \A x \in M : x \in A \/ x = n + 1
    BY <1>6, <1>7, <1>9
  <1>11. Cardinality(M) <= Cardinality(A) + 1
    BY <1>8, <1>10, OneMoreMissing
  <1>12. Cardinality(M) \in Nat
    BY <1>5, <1>6, <1>9, AckedFinite
  <1>13. ~reused => Cardinality(A) + (IF fin THEN 1 ELSE 0) <= fails
    BY <1>7 DEF KeptFor
  <1>14. KeptFor(T, n + 1, ack, reused, fin, fails)
    BY <1>1, <1>2, <1>5, <1>6 DEF KeptFor
  <1>15. ASSUME fin PROVE KeptFor(T, n + 1, b, reused, FALSE, fails)
    <2>1. ~reused => Cardinality(M) + 0 <= fails
      BY <1>1, <1>8, <1>11, <1>12, <1>13, <1>15
    <2> QED
      BY <1>1, <1>2, <1>5, <1>6, <1>9, <2>1 DEF KeptFor
  <1> QED
    BY <1>4, <1>14, <1>15

-----------------------------------------------------------------------------
(* The output interface.                                                   *)
WriterRight == FileTypeOK /\ MessagesKept

LEMMA WriterIs ==
  ASSUME WriterRight
  PROVE  /\ IsFile(file) /\ format \in AnyFormat /\ file.names # <<>> /\ buffer \in Seq(Messages)
         /\ OnDisk = Content(file) /\ OnDisk \in Seq(Messages)
         /\ KeptFor(OnDisk \o buffer, offered, acked, file.reused, finished, file.failures)
         /\ config \in FileConfigs
  <1>1. IsFile(file)
    BY DEF WriterRight, FileTypeOK, IsFile, NoFile
  <1>2. OnDisk = Content(file)
    BY DEF OnDisk, Content
  <1>3. OnDisk \in Seq(Messages) /\ buffer \in Seq(Messages)
    BY <1>1, <1>2, ContentType DEF WriterRight, FileTypeOK
  <1>4. OnDisk \o buffer \in Seq(Messages)
    BY <1>3
  <1>5. InOrderTo(OnDisk \o buffer, offered)
    BY <1>4 DEF WriterRight, MessagesKept, InOrderTo
  <1>6. file.failures \in Nat
    BY <1>1, FileFields
  <1>7. KeptFor(OnDisk \o buffer, offered, acked, file.reused, finished, file.failures)
    BY <1>5, <1>6 DEF WriterRight, FileTypeOK, MessagesKept, Unwritten, KeptFor
  <1> QED
    BY <1>1, <1>2, <1>3, <1>7 DEF WriterRight, FileTypeOK

LEMMA WriterAfter ==
  ASSUME config' = config, config \in FileConfigs, IsFile(file'), file'.names # <<>>,
         buffer' \in Seq(Messages), format' \in AnyFormat,
         KeptFor(Content(file') \o buffer', offered', acked', file'.reused, finished',
                 file'.failures)
  PROVE  WriterRight'
  <1>1. FileRight(file')
    BY DEF IsFile
  <1>2. FileRight(file)'
    BY <1>1 DEF FileRight
  <1>3. DOMAIN file' = (DOMAIN NoFile)'
    BY DEF IsFile, NoFile
  <1>4. OnDisk' = Content(file')
    BY DEF OnDisk, Content
  <1>5. FileTypeOK'
    BY <1>2, <1>3 DEF FileTypeOK, KeptFor
  <1>6. MessagesKept'
    BY <1>4 DEF MessagesKept, Unwritten, KeptFor, InOrderTo
  <1> QED
    BY <1>5, <1>6 DEF WriterRight

\* What a change of the file leaves of what is in the files and the buffer.
Passed(H, g) ==
  /\ H \in Seq(Messages) /\ IsFile(g) /\ g.names # <<>>
  /\ KeptFor(H \o buffer, offered, acked, g.reused, finished, file.failures)

LEMMA ThinnedPasses ==
  ASSUME WriterRight, NEW h, Thinned(file, h)
  PROVE  Passed(Content(h), h)
  <1>1. IsFile(h) /\ Content(h) \in Seq(Messages) /\ h.names # <<>>
    BY WriterIs, ContentType DEF Thinned
  <1>2. PICK C \in Seq(Messages) : C = Content(file)
    BY WriterIs, ContentType
  <1>3. PICK H \in Seq(Messages) : H = Content(h)
    BY <1>1
  <1>4. PICK B \in Seq(Messages) : B = buffer
    BY WriterIs
  <1>5. PICK r : r = file.reused
    OBVIOUS
  <1>6. PICK w : w = h.reused
    OBVIOUS
  <1>7. PICK fails : fails = file.failures
    OBVIOUS
  <1>8. KeptFor(C \o B, offered, acked, r, finished, fails)
    BY <1>2, <1>4, <1>5, <1>7, WriterIs
  <1>9. Keeps(C, H) /\ (~w => H = C /\ ~r)
    BY <1>2, <1>3, <1>5, <1>6 DEF Thinned
  <1>10. KeptFor(H \o B, offered, acked, w, finished, fails)
    BY <1>8, <1>9, KeptMoved
  <1> QED
    BY <1>1, <1>3, <1>4, <1>6, <1>7, <1>10 DEF Passed

Outcome(H, g, ms) ==
  /\ Passed(H, g)
  /\ IF g.ok THEN g.failures = file.failures /\ Content(g) = H \o ms
             ELSE g.failures = file.failures + 1 /\ Content(g) = H

LEMMA BufferedOutcome ==
  ASSUME WriterRight, NEW ms \in Seq(Messages), NEW fault, NEW g, g = Buffered(ms, fault)
  PROVE  \E H : Outcome(H, g, ms)
  <1>1. StoredIn(file, g, ms)
    BY WriterIs, BufferedIs
  <1>2. PICK h : /\ Thinned(file, h) /\ IsFile(g) /\ g.reused = h.reused /\ g.names = h.names
                 /\ IF g.ok THEN g.failures = file.failures /\ Content(g) = Content(h) \o ms
                            ELSE g.failures = file.failures + 1 /\ Content(g) = Content(h)
    BY <1>1 DEF StoredIn
  <1>3. Passed(Content(h), h)
    BY <1>2, ThinnedPasses
  <1>4. Outcome(Content(h), g, ms)
    BY <1>2, <1>3 DEF Passed, Outcome
  <1> QED
    BY <1>4

LEMMA FlushedRight ==
  ASSUME WriterRight, NEW fault, Flushed(fault),
         config' = config, format' \in AnyFormat, offered' = offered, acked' = acked
  PROVE  WriterRight'
  <1>1. IsFile(file) /\ format \in AnyFormat /\ file.names # <<>> /\ buffer \in Seq(Messages)
        /\ OnDisk = Content(file) /\ OnDisk \in Seq(Messages)
        /\ KeptFor(OnDisk \o buffer, offered, acked, file.reused, finished, file.failures)
        /\ config \in FileConfigs
    BY WriterIs
  <1>2. CASE buffer = <<>>
    <2>1. file' = file /\ buffer' = buffer /\ finished' = finished
      BY <1>2 DEF Flushed
    <2> QED
      BY <1>1, <2>1, WriterAfter
  <1>3. CASE buffer # <<>>
    <2>1. PICK g : g = Buffered(buffer, fault)
      OBVIOUS
    <2>2. file' = g /\ finished' = ~g.ok /\ buffer' = IF g.ok THEN <<>> ELSE buffer
      BY <1>3, <2>1 DEF Flushed
    <2>3. PICK H : Outcome(H, g, buffer)
      BY <1>1, <2>1, BufferedOutcome
    <2>4. H \in Seq(Messages) /\ IsFile(g) /\ g.names # <<>>
          /\ KeptFor(H \o buffer, offered, acked, g.reused, finished, file.failures)
      BY <2>3 DEF Outcome, Passed
    <2>5. g.ok \in BOOLEAN
      BY <2>4, FileFields
    <2>6. CASE g.ok
      <3>1. Content(g) \o <<>> = H \o buffer
        <4>1. Content(g) = H \o buffer /\ H \o buffer \in Seq(Messages)
          BY <1>1, <2>3, <2>4, <2>6 DEF Outcome
        <4> QED
          BY <4>1
      <3>2. g.failures = file.failures
        BY <2>3, <2>6 DEF Outcome
      <3>3. KeptFor(H \o buffer, offered, acked, g.reused, FALSE, file.failures)
        BY <2>4, KeptTried
      <3>4. buffer' = <<>> /\ finished' = FALSE /\ <<>> \in Seq(Messages)
        <4>1. finished' = FALSE
          BY <2>2, <2>5, <2>6
        <4>2. <<>> \in Seq(Messages)
          OBVIOUS
        <4> QED
          BY <2>2, <2>6, <4>1, <4>2
      <3>5. KeptFor(Content(file') \o buffer', offered', acked', file'.reused, finished',
                    file'.failures)
        BY <2>2, <3>1, <3>2, <3>3, <3>4
      <3> QED
        BY <1>1, <2>2, <2>4, <3>4, <3>5, WriterAfter
    <2>7. CASE ~g.ok
      <3>1. Content(g) = H /\ g.failures = file.failures + 1
        BY <2>3, <2>7 DEF Outcome
      <3>2. KeptFor(H \o buffer, offered, acked, g.reused, TRUE, file.failures + 1)
        BY <2>4, KeptTried
      <3>3. buffer' = buffer /\ finished' = TRUE
        BY <2>2, <2>5, <2>7
      <3>4. KeptFor(Content(file') \o buffer', offered', acked', file'.reused, finished',
                    file'.failures)
        BY <2>2, <3>1, <3>2, <3>3
      <3> QED
        BY <1>1, <2>2, <2>4, <3>3, <3>4, WriterAfter
    <2> QED
      BY <2>6, <2>7
  <1> QED
    BY <1>2, <1>3

LEMMA SetFormatRight ==
  ASSUME WriterRight, NEW f \in FileFormats, NEW fault, FileSetFormat(f, fault)
  PROVE  WriterRight'
  <1>1. IsFile(file) /\ format \in AnyFormat /\ file.names # <<>> /\ buffer \in Seq(Messages)
        /\ OnDisk = Content(file) /\ OnDisk \in Seq(Messages)
        /\ KeptFor(OnDisk \o buffer, offered, acked, file.reused, finished, file.failures)
        /\ config \in FileConfigs
    BY WriterIs
  <1>2. format' \in AnyFormat /\ config' = config /\ buffer' = buffer /\ finished' = finished
        /\ offered' = offered /\ acked' = acked
    BY DEF FileSetFormat, AnyFormat
  <1>3. PICK z : z = [file EXCEPT !.ok = TRUE]
    OBVIOUS
  <1>4. file' = IF format = NoFormat THEN file ELSE NextFile(z, fault)
    BY <1>3 DEF FileSetFormat
  <1>5. CASE format = NoFormat
    <2>1. file' = file
      BY <1>4, <1>5
    <2> QED
      BY <1>1, <1>2, <2>1, WriterAfter
  <1>6. CASE format # NoFormat
    <2>1. PICK g : g = NextFile(z, fault)
      OBVIOUS
    <2>2. DOMAIN file = FileDomain /\ file.index \in Nat
      BY <1>1, FileFields
    <2>3. DOMAIN z = DOMAIN file /\ SameFiles(file, z) /\ z.ok = TRUE /\ z.index = file.index
          /\ z.name = file.name
      BY <1>3, <2>2 DEF FileDomain, SameFiles
    <2>4. IsFile(z) /\ Thinned(file, z)
      BY <1>1, <2>2, <2>3, OtherFields
    <2>5. Thinned(z, g)
      BY <2>1, <2>3, <2>4, NextFileIs
    <2>6. Thinned(file, g)
      BY <2>4, <2>5, ThinnedTwice
    <2>7. Passed(Content(g), g) /\ g.failures = file.failures
      BY <2>6, ThinnedPasses DEF Thinned
    <2>8. file' = g
      BY <1>4, <1>6, <2>1
    <2> QED
      BY <1>1, <1>2, <2>7, <2>8, WriterAfter DEF Passed
  <1> QED
    BY <1>5, <1>6

LEMMA TimeRight ==
  ASSUME WriterRight, Time
  PROVE  WriterRight'
  <1>1. IsFile(file) /\ format \in AnyFormat /\ file.names # <<>> /\ buffer \in Seq(Messages)
        /\ OnDisk = Content(file)
        /\ KeptFor(OnDisk \o buffer, offered, acked, file.reused, finished, file.failures)
        /\ config \in FileConfigs
    BY WriterIs
  <1> QED
    BY <1>1, WriterAfter DEF Time

LEMMA PutAfter ==
  ASSUME NEW s \in Seq(Messages), NEW b \in Seq(Messages), NEW m \in Messages
  PROVE  /\ s \o Append(b, m) = Append(s \o b, m)
         /\ (s \o b) \o <<m>> = Append(s \o b, m)
         /\ (s \o b) \o <<>> = s \o b
         /\ (s \o Append(b, m)) \o <<>> = Append(s \o b, m)
  <1>1. s \o Append(b, m) = Append(s \o b, m)
    BY ConcatOfAppend
  <1>2. PICK u \in Seq(Messages) : u = s \o b
    <2>1. s \o b \in Seq(Messages)
      BY ConcatProperties
    <2> QED
      BY <2>1
  <1>3. Append(u, m) = u \o <<m>>
    BY AppendIsConcat
  <1>4. u \o <<>> = u
    BY <1>2
  <1>5. PICK v \in Seq(Messages) : v = Append(u, m)
    <2>1. Append(u, m) \in Seq(Messages)
      BY AppendProperties
    <2> QED
      BY <2>1
  <1>6. v \o <<>> = v
    BY <1>5
  <1> QED
    BY <1>1, <1>2, <1>3, <1>4, <1>5, <1>6

LEMMA SendRight ==
  ASSUME WriterRight, NEW fault, NEW b \in BOOLEAN, FileSend(fault, b)
  PROVE  WriterRight'
  <1>1. IsFile(file) /\ format \in AnyFormat /\ file.names # <<>> /\ buffer \in Seq(Messages)
        /\ OnDisk = Content(file) /\ OnDisk \in Seq(Messages)
        /\ KeptFor(OnDisk \o buffer, offered, acked, file.reused, finished, file.failures)
        /\ config \in FileConfigs
    BY WriterIs
  <1>2. offered \in Nat /\ finished \in BOOLEAN
    BY <1>1 DEF KeptFor
  <1>3. PICK m : m = [id |-> offered + 1, fmt |-> format]
    OBVIOUS
  <1>4. m \in Messages /\ m.id = offered + 1
    BY <1>1, <1>2, <1>3 DEF Messages
  <1>5. PICK fits \in BOOLEAN : fits = (~finished /\ Len(buffer) < PerBuffer)
    OBVIOUS
  <1>6. PICK ms : ms = IF fits THEN Append(buffer, m) ELSE buffer
    OBVIOUS
  <1>7. ms \in Seq(Messages) /\ Append(buffer, m) \in Seq(Messages)
    BY <1>1, <1>4, <1>6
  <1>8. PICK g : g = Buffered(ms, fault)
    OBVIOUS
  <1>9. PICK reinsert \in BOOLEAN : reinsert = (~finished /\ ~fits)
    OBVIOUS
  <1>10. /\ offered' = offered + 1 /\ config' = config /\ format' = format
         /\ IF ~(finished \/ reinsert \/ ~b)
              THEN /\ buffer' = ms /\ file' = file /\ finished' = finished
                   /\ acked' = Append(acked, m.id)
              ELSE /\ file' = g /\ finished' = ~g.ok
                   /\ buffer' = CASE ~g.ok -> ms
                                  [] g.ok /\ reinsert -> <<m>>
                                  [] OTHER -> <<>>
                   /\ acked' = IF g.ok THEN Append(acked, m.id) ELSE acked
    BY <1>3, <1>5, <1>6, <1>8, <1>9 DEF FileSend
  <1>11. format' \in AnyFormat
    BY <1>1, <1>10
  <1>12. CASE ~(finished \/ reinsert \/ ~b)
    <2>1. fits /\ buffer' = Append(buffer, m) /\ file' = file /\ finished' = finished
          /\ acked' = Append(acked, offered + 1)
      BY <1>2, <1>4, <1>6, <1>9, <1>10, <1>12
    <2>2. PICK T : T = OnDisk \o buffer
      OBVIOUS
    <2>3. OnDisk \o Append(buffer, m) = Append(T, m)
      BY <1>1, <1>4, <2>2, PutAfter
    <2>4. KeptFor(T, offered, acked, file.reused, finished, file.failures)
      BY <1>1, <2>2
    <2>5. KeptFor(Append(T, m), offered + 1, Append(acked, offered + 1), file.reused, finished,
                  file.failures)
      BY <1>4, <2>4, KeptAccepted
    <2>6. KeptFor(Content(file') \o buffer', offered', acked', file'.reused, finished',
                  file'.failures)
      BY <1>1, <1>10, <2>1, <2>3, <2>5
    <2> QED
      BY <1>1, <1>7, <1>10, <1>11, <2>1, <2>6, WriterAfter
  <1>13. CASE finished \/ reinsert \/ ~b
    <2>1. /\ file' = g /\ finished' = ~g.ok
          /\ buffer' = CASE ~g.ok -> ms [] g.ok /\ reinsert -> <<m>> [] OTHER -> <<>>
          /\ acked' = IF g.ok THEN Append(acked, m.id) ELSE acked
      BY <1>10, <1>13
    <2>2. PICK H : Outcome(H, g, ms)
      BY <1>7, <1>8, BufferedOutcome
    <2>3. H \in Seq(Messages) /\ IsFile(g) /\ g.names # <<>>
          /\ KeptFor(H \o buffer, offered, acked, g.reused, finished, file.failures)
      BY <2>2 DEF Outcome, Passed
    <2>4. g.ok \in BOOLEAN
      BY <2>3, FileFields
    <2>5. PICK T : T = H \o buffer
      OBVIOUS
    <2>6. /\ H \o Append(buffer, m) = Append(T, m) /\ T \o <<m>> = Append(T, m)
          /\ T \o <<>> = T /\ (H \o Append(buffer, m)) \o <<>> = Append(T, m)
      BY <1>1, <1>4, <2>3, <2>5, PutAfter
    <2>7. PICK r : r = g.reused
      OBVIOUS
    <2>8. PICK fails : fails = file.failures
      OBVIOUS
    <2>9. KeptFor(T, offered, acked, r, finished, fails)
      BY <2>3, <2>5, <2>7, <2>8
    <2>10. /\ KeptFor(Append(T, m), offered + 1, Append(acked, offered + 1), r, finished, fails)
           /\ KeptFor(Append(T, m), offered + 1, acked, r, finished, fails)
      BY <1>4, <2>9, KeptAccepted
    <2>11. /\ KeptFor(T, offered + 1, acked, r, finished, fails)
           /\ finished => KeptFor(T, offered + 1, Append(acked, offered + 1), r, FALSE, fails)
      BY <2>9, KeptWithout
    <2>12. CASE ~g.ok
      <3>1. buffer' = ms /\ acked' = acked /\ finished' = TRUE
        BY <2>1, <2>4, <2>12
      <3>2. Content(g) = H /\ g.failures = fails + 1
        BY <2>2, <2>8, <2>12 DEF Outcome
      <3>3. PICK V : V = H \o ms
        OBVIOUS
      <3>4. KeptFor(V, offered + 1, acked, r, finished, fails)
        BY <1>6, <2>5, <2>6, <2>10, <2>11, <3>3
      <3>5. KeptFor(V, offered + 1, acked, r, TRUE, fails + 1)
        BY <3>4, KeptTried
      <3>6. KeptFor(Content(file') \o buffer', offered', acked', file'.reused, finished',
                    file'.failures)
        BY <1>10, <2>1, <2>7, <3>1, <3>2, <3>3, <3>5
      <3>7. buffer' \in Seq(Messages)
        BY <1>7, <3>1
      <3> QED
        BY <1>1, <1>10, <1>11, <2>1, <2>3, <3>6, <3>7, WriterAfter
    <2>13. CASE g.ok
      <3>1. acked' = Append(acked, offered + 1) /\ finished' = FALSE
        BY <1>4, <2>1, <2>4, <2>13
      <3>2. Content(g) = H \o ms /\ g.failures = fails
        BY <2>2, <2>8, <2>13 DEF Outcome
      <3>3. PICK V : V = Content(g) \o buffer'
        OBVIOUS
      <3>4. buffer' = IF reinsert THEN <<m>> ELSE <<>>
        BY <2>1, <2>13
      <3>5. buffer' \in Seq(Messages)
        <4>1. <<m>> \in Seq(Messages) /\ <<>> \in Seq(Messages)
          BY <1>4
        <4> QED
          BY <3>4, <4>1
      <3>6. KeptFor(V, offered + 1, Append(acked, offered + 1), r, FALSE, fails)
        <4>1. CASE finished
          <5>1. ~fits /\ ~reinsert
            BY <1>2, <1>5, <1>9, <4>1
          <5>2. V = T
            BY <1>6, <2>5, <2>6, <3>2, <3>3, <3>4, <5>1
          <5> QED
            BY <2>11, <4>1, <5>2
        <4>2. CASE ~finished
          <5>1. V = Append(T, m)
            <6>1. CASE reinsert
              BY <1>6, <1>9, <2>5, <2>6, <3>2, <3>3, <3>4, <6>1
            <6>2. CASE ~reinsert
              <7>1. fits
                BY <1>9, <4>2, <6>2
              <7> QED
                BY <1>6, <2>6, <3>2, <3>3, <3>4, <6>2, <7>1
            <6> QED
              BY <6>1, <6>2
          <5>2. finished = FALSE
            BY <1>2, <4>2
          <5> QED
            BY <2>10, <5>1, <5>2
        <4> QED
          BY <4>1, <4>2
      <3>7. KeptFor(Content(file') \o buffer', offered', acked', file'.reused, finished',
                    file'.failures)
        BY <1>10, <2>1, <2>7, <3>1, <3>2, <3>3, <3>6
      <3> QED
        BY <1>1, <1>10, <1>11, <2>1, <2>3, <3>5, <3>7, WriterAfter
    <2> QED
      BY <2>12, <2>13
  <1> QED
    BY <1>12, <1>13

LEMMA InitRight ==
  ASSUME FileInit
  PROVE  WriterRight
  <1>1. config \in FileConfigs /\ file = NextFile(NoFile, "none") /\ file.ok
        /\ buffer = <<>> /\ finished = FALSE /\ format \in AnyFormat /\ offered = 0 /\ acked = <<>>
    BY DEF FileInit, AnyFormat
  <1>2. PICK z : z = NoFile
    OBVIOUS
  <1>3. /\ DOMAIN z = FileDomain /\ z.open = FALSE /\ z.neg = FALSE /\ z.ok = TRUE /\ z.index = 0
        /\ z.names = <<>> /\ z.failures = 0 /\ z.reused = FALSE
    BY <1>2 DEF NoFile, FileDomain
  <1>4. IsFile(z)
    <2>1. {z.open, z.neg, z.ok, z.reused} \subseteq BOOLEAN /\ z.index \in Nat
          /\ z.failures \in Nat
      <3>1. {z.open, z.neg, z.ok, z.reused} \subseteq BOOLEAN
        BY <1>3
      <3> QED
        BY <1>3, <3>1
    <2>2. z.names \in Seq(DOMAIN z.disk) /\ IsInjective(z.names) /\ ToSet(z.names) = {}
      BY <1>3 DEF IsInjective, ToSet
    <2>3. FileRight(z)
      BY <1>3, <2>1, <2>2 DEF FileRight
    <2> QED
      BY <1>3, <2>3 DEF IsFile, FileDomain
  <1>5. Thinned(z, file) /\ (file.ok => file.open /\ file.names # <<>>)
    BY <1>1, <1>2, <1>3, <1>4, NextFileIs
  <1>6. Content(z) = <<>>
    <2>1. FileMsgs(z) = <<>>
      BY <1>3 DEF FileMsgs
    <2> QED
      BY <2>1, FlattenEmpty DEF Content
  <1>7. IsFile(file) /\ Content(file) \in Seq(Messages)
    BY <1>5, ContentType DEF Thinned
  <1>8. Content(file) = <<>>
    <2>1. \A k \in IdsIn(Content(file)) : k \in IdsIn(<<>>)
      BY <1>5, <1>6 DEF Thinned, Keeps
    <2>2. IdsIn(Content(file)) = {}
      BY <2>1 DEF IdsIn
    <2>3. DOMAIN Content(file) = {}
      BY <2>2 DEF IdsIn
    <2>4. Len(Content(file)) = 0
      BY <1>7, <2>3
    <2> QED
      BY <1>7, <2>4, EmptySeq
  <1>9. OnDisk = <<>>
    BY <1>8 DEF OnDisk, Content
  <1>10. OnDisk \o buffer = <<>> /\ IdsIn(<<>>) = {} /\ Ascending(<<>>)
    BY <1>1, <1>9 DEF IdsIn, Ascending
  <1>11. Unwritten = {} /\ Cardinality({}) = 0
    BY <1>1, FS_EmptySet DEF Unwritten, ToSet
  <1>12. file.failures = 0
    BY <1>3, <1>5 DEF Thinned
  <1>13. MessagesKept
    BY <1>1, <1>10, <1>11, <1>12 DEF MessagesKept
  <1>14. FileTypeOK
    <2>1. buffer \in Seq(Messages) /\ acked \in Seq(1 .. offered) /\ offered \in Nat
          /\ finished \in BOOLEAN
      <3>1. <<>> \in Seq(Messages) /\ <<>> \in Seq(1 .. offered)
        OBVIOUS
      <3> QED
        BY <1>1, <3>1
    <2>2. DOMAIN file = DOMAIN NoFile /\ FileRight(file)
      BY <1>7 DEF IsFile, NoFile
    <2> QED
      BY <1>1, <1>5, <2>1, <2>2 DEF FileTypeOK
  <1> QED
    BY <1>13, <1>14 DEF WriterRight

LEMMA WriteRight ==
  ASSUME WriterRight, FileWrite
  PROVE  WriterRight' /\ rd' = rd
  <1>1. PICK fault : \/ Time
                     \/ \E b \in BOOLEAN : FileSend(fault, b)
                     \/ FileFlush(fault)
                     \/ \E f \in FileFormats : FileSetFormat(f, fault)
    BY DEF FileWrite
  <1>2. CASE Time
    BY <1>2, TimeRight DEF Time
  <1>3. ASSUME NEW b \in BOOLEAN, FileSend(fault, b) PROVE WriterRight' /\ rd' = rd
    <2>1. rd' = rd
      BY <1>3 DEF FileSend
    <2> QED
      BY <1>3, <2>1, SendRight
  <1>4. CASE FileFlush(fault)
    <2>1. Flushed(fault) /\ config' = config /\ format' = format /\ offered' = offered
          /\ acked' = acked /\ rd' = rd
      BY <1>4 DEF FileFlush
    <2>2. format' \in AnyFormat
      BY <2>1, WriterIs
    <2> QED
      BY <2>1, <2>2, FlushedRight
  <1>5. ASSUME NEW f \in FileFormats, FileSetFormat(f, fault) PROVE WriterRight' /\ rd' = rd
    <2>1. rd' = rd
      BY <1>5 DEF FileSetFormat
    <2> QED
      BY <1>5, <2>1, SetFormatRight
  <1> QED
    BY <1>1, <1>2, <1>3, <1>4, <1>5

-----------------------------------------------------------------------------
(* The input interface.                                                    *)
EntriesOf(r) == file.disk[file.names[r.file]]

SoFar(r) ==
  FlattenSeq(SubSeq(FileMsgs(file), 1, r.file - 1))
    \o FlattenSeq(SubSeq(EntryMsgs(EntriesOf(r)), 1, r.pos - 1))

\* Where the reader may be, apart from what it has read.
Placed(r) ==
  /\ r.file \in DOMAIN file.names /\ r.pos \in 1 .. Len(EntriesOf(r)) + 1
  /\ (r.state = "ok" /\ r.neg) \/ r.state = "unagreed" => r.pos > 1
  /\ r.state = "unagreed" \/ (r.state = "ok" /\ ~r.neg /\ r.pos > 1) => r.fmt \in JsonFormats
  /\ r.state = "confused" => file.failures > 0 \/ r.fmt \in JsonFormats
  /\ r.ended => r.file = Len(file.names) /\ r.pos = Len(EntriesOf(r)) + 1

Fields(r) == /\ DOMAIN r = {"on", "file", "pos", "neg", "fmt", "got", "state", "ended"}
             /\ r.on \in BOOLEAN /\ r.neg \in BOOLEAN /\ r.ended \in BOOLEAN

ReaderAt(r) == Placed(r) /\ r.got = SoFar(r) /\ Fields(r)

LEMMA ReaderIs ==
  ASSUME ReaderRight, ReaderTypeOK
  PROVE  ReaderAt(rd) /\ Entries = EntriesOf(rd)
  <1>1. Fields(rd)
    BY DEF ReaderTypeOK, NothingRead, Fields
  <1>2. rd.got = SoFar(rd) /\ Entries = EntriesOf(rd)
    BY DEF ReaderRight, ReadSoFar, SoFar, Entries, EntriesOf
  <1>3. Placed(rd)
    BY DEF ReaderRight, Placed, Entries, EntriesOf
  <1> QED
    BY <1>1, <1>2, <1>3 DEF ReaderAt

LEMMA ReaderAfter ==
  ASSUME file' = file, ReaderAt(rd')
  PROVE  ReaderRight' /\ ReaderTypeOK'
  <1>1. ReaderTypeOK'
    BY DEF ReaderTypeOK, NothingRead, Fields, ReaderAt
  <1>2. rd'.got = ReadSoFar' /\ Entries' = EntriesOf(rd')
    BY DEF ReaderAt, ReadSoFar, SoFar, Entries, EntriesOf
  <1>3. ReaderRight'
    BY <1>2 DEF ReaderRight, Placed, ReaderAt
  <1> QED
    BY <1>1, <1>3

LEMMA EntriesAre ==
  ASSUME IsFile(file), NEW r, r.file \in DOMAIN file.names
  PROVE  /\ EntriesOf(r) \in Seq(FileEntries)
         /\ \A j \in 1 .. Len(EntriesOf(r)) :
              /\ EntriesOf(r)[j].kind \in {"hello", "block", "torn"}
              /\ EntriesOf(r)[j].kind = "hello" <=> j = 1
              /\ EntriesOf(r)[j].kind # "block" => EntriesOf(r)[j].msgs = <<>>
              /\ EntriesOf(r)[j].kind = "torn" => file.failures > 0
  <1>1. file.names[r.file] \in ToSet(file.names)
    BY DEF ToSet
  <1>2. PICK e : e = EntriesOf(r)
    OBVIOUS
  <1>3. /\ e \in Seq(FileEntries)
        /\ \A j \in DOMAIN e :
             /\ e[j].kind = "hello" <=> j = 1
             /\ e[j].kind # "block" => e[j].msgs = <<>>
             /\ e[j].kind = "torn" => file.failures > 0
    BY <1>1, <1>2 DEF IsFile, FileRight, EntriesOf
  <1>4. DOMAIN e = 1 .. Len(e) /\ \A j \in 1 .. Len(e) : e[j] \in FileEntries
    BY <1>3
  <1>5. \A x \in FileEntries : x.kind \in {"hello", "block", "torn"}
    BY DEF FileEntries
  <1> QED
    BY <1>2, <1>3, <1>4, <1>5

\* A part of the entries more.
LEMMA SoFarNext ==
  ASSUME IsFile(file), NEW r, NEW q, r.file \in DOMAIN file.names, q.file = r.file,
         r.pos \in 1 .. Len(EntriesOf(r)), q.pos = r.pos + 1
  PROVE  /\ SoFar(q) = SoFar(r) \o EntriesOf(r)[r.pos].msgs
         /\ SoFar(r) \in Seq(Messages)
  <1>1. PICK e \in Seq(FileEntries) : e = EntriesOf(r)
    BY EntriesAre
  <1>2. PICK p \in 1 .. Len(e) : p = r.pos
    BY <1>1
  <1>3. PICK s \in Seq(Seq(Messages)) : s = EntryMsgs(e)
    BY EntryMsgsType
  <1>4. Len(s) = Len(e) /\ \A i \in 1 .. Len(e) : s[i] = e[i].msgs
    BY <1>3, EntryMsgsType
  <1>5. PICK A : A = FlattenSeq(SubSeq(FileMsgs(file), 1, r.file - 1))
    OBVIOUS
  <1>6. EntriesOf(q) = e
    BY <1>1 DEF EntriesOf
  <1>7. SoFar(r) = A \o FlattenSeq(SubSeq(s, 1, p - 1))
    BY <1>1, <1>2, <1>3, <1>5 DEF SoFar
  <1>8. SoFar(q) = A \o FlattenSeq(SubSeq(s, 1, p))
    <2>1. q.pos - 1 = p
      BY <1>1, <1>2
    <2> QED
      BY <1>3, <1>5, <1>6, <2>1 DEF SoFar
  <1>9. /\ FlattenSeq(SubSeq(s, 1, p)) = FlattenSeq(SubSeq(s, 1, p - 1)) \o s[p]
        /\ FlattenSeq(SubSeq(s, 1, p - 1)) \in Seq(Messages) /\ s[p] \in Seq(Messages)
    BY <1>4, FlattenUpTo
  <1>10. A \in Seq(Messages)
    <2>1. FileMsgs(file) \in Seq(Seq(Messages)) /\ Len(FileMsgs(file)) = Len(file.names)
      BY FileMsgsType
    <2>2. PICK v \in Seq(Seq(Messages)) : v = FileMsgs(file)
      BY <2>1
    <2>3. r.file \in 1 .. Len(v)
      <3>1. file.names \in Seq(DOMAIN file.disk)
        BY DEF IsFile, FileRight
      <3> QED
        BY <2>1, <2>2, <3>1
    <2>4. FlattenSeq(SubSeq(v, 1, r.file - 1)) \in Seq(Messages)
      BY <2>3, FlattenUpTo
    <2> QED
      BY <1>5, <2>2, <2>4
  <1>11. PICK b \in Seq(Messages), c \in Seq(Messages) :
            b = FlattenSeq(SubSeq(s, 1, p - 1)) /\ c = s[p]
    BY <1>9
  <1>12. PICK a \in Seq(Messages) : a = A
    BY <1>10
  <1>13. PICK x : x = a \o b
    OBVIOUS
  <1>14. PICK y : y = b \o c
    OBVIOUS
  <1>15. x \o c = a \o y
    BY <1>13, <1>14, MessagesAssociative
  <1>16. x \in Seq(Messages)
    BY <1>13, ConcatProperties
  <1>17. c = e[p].msgs
    BY <1>4, <1>11
  <1>18. SoFar(r) = x
    BY <1>7, <1>11, <1>12, <1>13
  <1>19. SoFar(q) = a \o y
    BY <1>8, <1>9, <1>11, <1>12, <1>14
  <1> QED
    BY <1>1, <1>2, <1>15, <1>16, <1>17, <1>18, <1>19

\* The end of a file.
LEMMA SoFarEnd ==
  ASSUME IsFile(file), NEW r, r.file \in DOMAIN file.names,
         r.pos = Len(EntriesOf(r)) + 1
  PROVE  /\ SoFar(r) = FlattenSeq(SubSeq(FileMsgs(file), 1, r.file))
         /\ SoFar(r) \in Seq(Messages)
  <1>1. PICK e \in Seq(FileEntries) : e = EntriesOf(r)
    BY EntriesAre
  <1>2. PICK s \in Seq(Seq(Messages)) : s = EntryMsgs(e) /\ Len(s) = Len(e)
    BY EntryMsgsType
  <1>3. r.pos - 1 = Len(s) /\ Len(s) \in Nat
    BY <1>1, <1>2
  <1>4. SubSeq(s, 1, r.pos - 1) = s
    <2> DEFINE U == Seq(Messages)
    <2>1. s \in Seq(U)
      OBVIOUS
    <2> HIDE DEF U
    <2>2. SubSeq(s, 1, Len(s)) = s
      BY <2>1, SubSeqFull
    <2> QED
      BY <1>3, <2>2
  <1>5. /\ FileMsgs(file) \in Seq(Seq(Messages)) /\ Len(FileMsgs(file)) = Len(file.names)
        /\ r.file \in 1 .. Len(file.names)
    <2>1. file.names \in Seq(DOMAIN file.disk)
      BY DEF IsFile, FileRight
    <2> QED
      BY <2>1, FileMsgsType
  <1>6. PICK v \in Seq(Seq(Messages)) : v = FileMsgs(file) /\ r.file \in 1 .. Len(v)
    BY <1>5
  <1>7. v[r.file] = FlattenSeq(s)
    BY <1>1, <1>2, <1>5, <1>6, FileMsgsType DEF EntriesOf
  <1>8. /\ FlattenSeq(SubSeq(v, 1, r.file)) = FlattenSeq(SubSeq(v, 1, r.file - 1)) \o v[r.file]
        /\ FlattenSeq(SubSeq(v, 1, r.file - 1)) \in Seq(Messages) /\ v[r.file] \in Seq(Messages)
    BY <1>6, FlattenUpTo
  <1>9. SoFar(r) = FlattenSeq(SubSeq(v, 1, r.file - 1)) \o v[r.file]
    BY <1>1, <1>2, <1>4, <1>6, <1>7 DEF SoFar
  <1>10. PICK x \in Seq(Messages), y \in Seq(Messages) :
            x = FlattenSeq(SubSeq(v, 1, r.file - 1)) /\ y = v[r.file]
    BY <1>8
  <1>11. x \o y \in Seq(Messages)
    BY ConcatProperties
  <1> QED
    BY <1>6, <1>8, <1>9, <1>10, <1>11

\* A reader at the beginning of a file.
LEMMA SoFarFirst ==
  ASSUME IsFile(file), NEW r, r.file \in DOMAIN file.names, r.pos = 1
  PROVE  SoFar(r) = FlattenSeq(SubSeq(FileMsgs(file), 1, r.file - 1))
  <1>1. SubSeq(EntryMsgs(EntriesOf(r)), 1, r.pos - 1) = <<>>
    BY SubSeqEmpty
  <1>2. /\ FileMsgs(file) \in Seq(Seq(Messages)) /\ Len(FileMsgs(file)) = Len(file.names)
        /\ r.file \in 1 .. Len(file.names)
    <2>1. file.names \in Seq(DOMAIN file.disk)
      BY DEF IsFile, FileRight
    <2> QED
      BY <2>1, FileMsgsType
  <1>3. PICK v \in Seq(Seq(Messages)) : v = FileMsgs(file) /\ r.file \in 1 .. Len(v)
    BY <1>2
  <1>4. FlattenSeq(SubSeq(v, 1, r.file - 1)) \in Seq(Messages)
    BY <1>3, FlattenUpTo
  <1>5. PICK x \in Seq(Messages) : x = FlattenSeq(SubSeq(v, 1, r.file - 1))
    BY <1>4
  <1>6. x \o <<>> = x
    BY ConcatEmptySeq
  <1>7. SoFar(r) = x \o <<>>
    BY <1>1, <1>3, <1>5, FlattenEmpty DEF SoFar
  <1> QED
    BY <1>3, <1>5, <1>6, <1>7

LEMMA HelloRight ==
  ASSUME IsFile(file), ReaderAt(rd), Entries = EntriesOf(rd), ReadHello
  PROVE  ReaderAt(rd')
  <1> DEFINE E == EntriesOf(rd)
             h == E[rd.pos].fmt
             changed == h \in JsonFormats /\ rd.fmt \notin {NoFormat, h}
  <1>1. rd.on /\ rd.state = "ok" /\ ~rd.ended /\ ~rd.neg
        /\ rd' = IF rd.pos > Len(E) THEN [rd EXCEPT !.state = "failed"]
                 ELSE CASE E[rd.pos].kind # "hello" -> [rd EXCEPT !.state = "confused"]
                        [] E[rd.pos].kind = "hello" /\ h \in Refused ->
                             [rd EXCEPT !.state = "mismatch", !.pos = @ + 1]
                        [] E[rd.pos].kind = "hello" /\ changed ->
                             [rd EXCEPT !.state = "unagreed", !.pos = @ + 1, !.fmt = h]
                        [] OTHER -> [rd EXCEPT !.neg = TRUE, !.pos = @ + 1, !.fmt = h]
    BY DEF ReadHello
  <1>2. Placed(rd) /\ rd.got = SoFar(rd) /\ Fields(rd)
    BY DEF ReaderAt
  <1>3. /\ rd.file \in DOMAIN file.names /\ E \in Seq(FileEntries) /\ Len(E) \in Nat
        /\ rd.pos \in 1 .. Len(E) + 1
        /\ \A j \in 1 .. Len(E) : /\ E[j].kind = "hello" <=> j = 1
                                  /\ E[j].kind # "block" => E[j].msgs = <<>>
    BY <1>2, EntriesAre DEF Placed
  <1>4. \A q : q.file = rd.file => EntriesOf(q) = E
    BY DEF EntriesOf
  <1>5. \A q : q.file = rd.file /\ q.pos = rd.pos => SoFar(q) = SoFar(rd)
    BY <1>4 DEF SoFar
  <1> HIDE DEF E, h, changed
  <1>6. CASE rd.pos > Len(E)
    <2>1. rd' = [rd EXCEPT !.state = "failed"]
      BY <1>1, <1>6
    <2>2. rd'.file = rd.file /\ rd'.pos = rd.pos /\ rd'.state = "failed" /\ rd'.got = rd.got
          /\ rd'.ended = rd.ended /\ Fields(rd')
      BY <1>2, <2>1 DEF Fields
    <2>4. EntriesOf(rd') = E /\ ~rd'.ended
      BY <1>1, <1>4, <2>2
    <2>3. Placed(rd')
      BY <1>3, <2>2, <2>4 DEF Placed
    <2> QED
      BY <1>2, <1>5, <2>2, <2>3 DEF ReaderAt
  <1>7. CASE rd.pos <= Len(E) /\ E[rd.pos].kind # "hello"
    <2>1. rd' = [rd EXCEPT !.state = "confused"]
      BY <1>1, <1>3, <1>7
    <2>2. rd'.file = rd.file /\ rd'.pos = rd.pos /\ rd'.state = "confused" /\ rd'.got = rd.got
          /\ rd'.ended = rd.ended /\ rd'.fmt = rd.fmt /\ Fields(rd')
      BY <1>2, <2>1 DEF Fields
    <2>3. rd.pos > 1
      BY <1>3, <1>7
    <2>4. rd.fmt \in JsonFormats
      BY <1>1, <1>2, <2>3 DEF Placed
    <2>6. EntriesOf(rd') = E /\ ~rd'.ended
      BY <1>1, <1>4, <2>2
    <2>5. Placed(rd')
      BY <1>3, <2>2, <2>4, <2>6 DEF Placed
    <2> QED
      BY <1>2, <1>5, <2>2, <2>5 DEF ReaderAt
  <1>8. CASE rd.pos <= Len(E) /\ E[rd.pos].kind = "hello"
    <2>1. rd.pos = 1 /\ rd.pos \in 1 .. Len(E) /\ E[rd.pos].msgs = <<>>
      <3>1. rd.pos \in 1 .. Len(E)
        BY <1>3, <1>8
      <3> QED
        BY <1>3, <1>8, <3>1
    <2>2. \/ rd' = [rd EXCEPT !.state = "mismatch", !.pos = @ + 1]
          \/ rd' = [rd EXCEPT !.state = "unagreed", !.pos = @ + 1, !.fmt = h] /\ changed
          \/ rd' = [rd EXCEPT !.neg = TRUE, !.pos = @ + 1, !.fmt = h]
      BY <1>1, <1>3, <1>8
    <2>3. rd'.file = rd.file /\ rd'.pos = 2 /\ rd'.got = rd.got /\ rd'.ended = rd.ended /\ Fields(rd')
          /\ \/ rd'.state = "mismatch"
             \/ rd'.state = "unagreed" /\ rd'.fmt = h /\ changed
             \/ rd'.state = "ok" /\ rd'.neg
      <3>1. DOMAIN rd = {"on", "file", "pos", "neg", "fmt", "got", "state", "ended"}
            /\ rd.on \in BOOLEAN /\ rd.neg \in BOOLEAN /\ rd.ended \in BOOLEAN /\ rd.state = "ok"
        BY <1>1, <1>2 DEF Fields
      <3>2. CASE rd' = [rd EXCEPT !.state = "mismatch", !.pos = @ + 1]
        BY <2>1, <3>1, <3>2 DEF Fields
      <3>3. CASE rd' = [rd EXCEPT !.state = "unagreed", !.pos = @ + 1, !.fmt = h] /\ changed
        BY <2>1, <3>1, <3>3 DEF Fields
      <3>4. CASE rd' = [rd EXCEPT !.neg = TRUE, !.pos = @ + 1, !.fmt = h]
        BY <2>1, <3>1, <3>4 DEF Fields
      <3> QED
        BY <2>2, <3>2, <3>3, <3>4
    <2>4. SoFar(rd') = SoFar(rd) \o E[rd.pos].msgs /\ SoFar(rd) \in Seq(Messages)
      <3>1. PICK q : q = rd'
        OBVIOUS
      <3>2. q.file = rd.file /\ q.pos = rd.pos + 1
        BY <2>1, <2>3, <3>1
      <3>3. rd.pos \in 1 .. Len(EntriesOf(rd))
        BY <2>1 DEF E
      <3>4. SoFar(q) = SoFar(rd) \o EntriesOf(rd)[rd.pos].msgs /\ SoFar(rd) \in Seq(Messages)
        BY <1>3, <3>2, <3>3, SoFarNext
      <3> QED
        BY <3>1, <3>4 DEF E
    <2>5. SoFar(rd') = SoFar(rd)
      <3>1. PICK x \in Seq(Messages) : x = SoFar(rd)
        BY <2>4
      <3>2. x \o <<>> = x
        BY ConcatEmptySeq
      <3> QED
        BY <2>1, <2>4, <3>1, <3>2
    <2>7. EntriesOf(rd') = E /\ ~rd'.ended /\ 2 \in 1 .. Len(E) + 1
      <3>1. EntriesOf(rd') = E /\ ~rd'.ended
        BY <1>1, <1>4, <2>3
      <3>2. 2 \in 1 .. Len(E) + 1
        BY <1>3, <2>1
      <3> QED
        BY <3>1, <3>2
    <2>8. rd'.file \in DOMAIN file.names /\ rd'.pos > 1
      BY <1>3, <2>3
    <2>9. /\ rd'.state = "unagreed" => rd'.fmt \in JsonFormats
          /\ rd'.state = "ok" => rd'.neg
          /\ rd'.state # "confused"
      BY <2>3 DEF changed
    <2>6. Placed(rd')
      BY <2>3, <2>7, <2>8, <2>9 DEF Placed
    <2> QED
      BY <1>2, <2>3, <2>5, <2>6 DEF ReaderAt
  <1> QED
    BY <1>3, <1>6, <1>7, <1>8

LEMMA BlockRight ==
  ASSUME IsFile(file), ReaderAt(rd), Entries = EntriesOf(rd), ReadBlock
  PROVE  ReaderAt(rd')
  <1> DEFINE E == EntriesOf(rd)
  <1>1. /\ rd.on /\ ~rd.ended /\ rd.pos <= Len(E)
        /\ (rd.state = "ok" /\ rd.neg) \/ rd.state = "unagreed"
        /\ rd' = IF E[rd.pos].kind # "block" THEN [rd EXCEPT !.state = "confused"]
                 ELSE [rd EXCEPT !.pos = @ + 1, !.got = @ \o E[rd.pos].msgs, !.state = "ok"]
    BY DEF ReadBlock
  <1>2. Placed(rd) /\ rd.got = SoFar(rd) /\ Fields(rd)
    BY DEF ReaderAt
  <1>3. /\ rd.file \in DOMAIN file.names /\ E \in Seq(FileEntries) /\ Len(E) \in Nat
        /\ rd.pos \in 1 .. Len(E) + 1
        /\ \A j \in 1 .. Len(E) : /\ E[j].kind \in {"hello", "block", "torn"}
                                  /\ E[j].kind = "hello" <=> j = 1
                                  /\ E[j].kind = "torn" => file.failures > 0
    BY <1>2, EntriesAre DEF Placed
  <1>4. \A q : q.file = rd.file => EntriesOf(q) = E
    BY DEF EntriesOf
  <1>5. \A q : q.file = rd.file /\ q.pos = rd.pos => SoFar(q) = SoFar(rd)
    BY <1>4 DEF SoFar
  <1> HIDE DEF E
  <1>6. rd.pos \in 1 .. Len(E) /\ rd.pos > 1 /\ rd.pos + 1 \in 1 .. Len(E) + 1
    <2>1. rd.pos > 1
      BY <1>1, <1>2 DEF Placed
    <2> QED
      BY <1>1, <1>3, <2>1
  <1>7. CASE E[rd.pos].kind # "block"
    <2>1. rd' = [rd EXCEPT !.state = "confused"]
      BY <1>1, <1>7
    <2>2. rd'.file = rd.file /\ rd'.pos = rd.pos /\ rd'.state = "confused" /\ rd'.got = rd.got
          /\ rd'.ended = rd.ended /\ Fields(rd')
      BY <1>2, <2>1 DEF Fields
    <2>3. file.failures > 0
      BY <1>3, <1>6, <1>7
    <2>4. EntriesOf(rd') = E /\ ~rd'.ended
      BY <1>1, <1>4, <2>2
    <2>5. Placed(rd')
      BY <1>3, <2>2, <2>3, <2>4 DEF Placed
    <2> QED
      BY <1>2, <1>5, <2>2, <2>5 DEF ReaderAt
  <1>8. CASE E[rd.pos].kind = "block"
    <2>1. rd' = [rd EXCEPT !.pos = @ + 1, !.got = @ \o E[rd.pos].msgs, !.state = "ok"]
      BY <1>1, <1>8
    <2>2. /\ rd'.file = rd.file /\ rd'.pos = rd.pos + 1 /\ rd'.state = "ok" /\ rd'.neg = rd.neg
          /\ rd'.got = rd.got \o E[rd.pos].msgs /\ rd'.ended = rd.ended /\ rd'.fmt = rd.fmt
          /\ Fields(rd')
      BY <1>2, <2>1 DEF Fields
    <2>3. SoFar(rd') = SoFar(rd) \o E[rd.pos].msgs
      <3>1. PICK q : q = rd'
        OBVIOUS
      <3>2. q.file = rd.file /\ q.pos = rd.pos + 1
        BY <2>2, <3>1
      <3>3. rd.pos \in 1 .. Len(EntriesOf(rd))
        BY <1>6 DEF E
      <3>4. SoFar(q) = SoFar(rd) \o EntriesOf(rd)[rd.pos].msgs
        BY <1>3, <3>2, <3>3, SoFarNext
      <3> QED
        BY <3>1, <3>4 DEF E
    <2>4. EntriesOf(rd') = E /\ ~rd'.ended
      BY <1>1, <1>4, <2>2
    <2>5. rd'.pos \in 1 .. Len(E) + 1 /\ rd'.pos > 1
      BY <1>3, <1>6, <2>2
    <2>6. ~rd'.neg => rd'.fmt \in JsonFormats
      BY <1>1, <1>2, <2>2 DEF Placed
    <2>7. Placed(rd')
      BY <1>3, <2>2, <2>4, <2>5, <2>6 DEF Placed
    <2> QED
      BY <1>2, <2>2, <2>3, <2>7 DEF ReaderAt
  <1> QED
    BY <1>7, <1>8

LEMMA EndRight ==
  ASSUME IsFile(file), ReaderAt(rd), Entries = EntriesOf(rd), ReadEnd
  PROVE  ReaderAt(rd')
  <1> DEFINE E == EntriesOf(rd)
  <1>1. /\ rd.on /\ ~rd.ended /\ rd.pos > Len(E)
        /\ (rd.state = "ok" /\ rd.neg) \/ rd.state = "unagreed"
        /\ rd' = IF rd.file = Len(file.names) THEN [rd EXCEPT !.ended = TRUE]
                 ELSE [rd EXCEPT !.file = @ + 1, !.pos = 1, !.neg = FALSE, !.state = "ok"]
    BY DEF ReadEnd
  <1>2. Placed(rd) /\ rd.got = SoFar(rd) /\ Fields(rd)
    BY DEF ReaderAt
  <1>3. /\ rd.file \in DOMAIN file.names /\ E \in Seq(FileEntries) /\ Len(E) \in Nat
        /\ rd.pos \in 1 .. Len(E) + 1
    BY <1>2, EntriesAre DEF Placed
  <1>4. rd.pos = Len(E) + 1
    BY <1>1, <1>3
  <1>5. file.names \in Seq(DOMAIN file.disk)
    BY DEF IsFile, FileRight
  <1>6. Len(file.names) \in Nat /\ DOMAIN file.names = 1 .. Len(file.names)
    BY <1>5
  <1>7. CASE rd.file = Len(file.names)
    <2>1. rd' = [rd EXCEPT !.ended = TRUE]
      BY <1>1, <1>7
    <2>2. rd'.file = rd.file /\ rd'.pos = rd.pos /\ rd'.state = rd.state /\ rd'.got = rd.got
          /\ rd'.neg = rd.neg /\ rd'.fmt = rd.fmt /\ Fields(rd')
      BY <1>2, <2>1 DEF Fields
    <2>3. EntriesOf(rd') = E
      BY <2>2 DEF EntriesOf
    <2>4. SoFar(rd') = SoFar(rd)
      BY <2>2, <2>3 DEF SoFar
    <2> HIDE DEF E
    <2>5. Placed(rd')
      <3>1. EntriesOf(rd) = E
        BY DEF E
      <3> QED
        BY <1>2, <1>4, <1>7, <2>2, <2>3, <3>1 DEF Placed
    <2> QED
      BY <1>2, <2>2, <2>4, <2>5 DEF ReaderAt
  <1>8. CASE rd.file # Len(file.names)
    <2>1. rd' = [rd EXCEPT !.file = @ + 1, !.pos = 1, !.neg = FALSE, !.state = "ok"]
      BY <1>1, <1>8
    <2>2. rd'.file = rd.file + 1 /\ rd'.pos = 1 /\ rd'.state = "ok" /\ rd'.got = rd.got
          /\ rd'.neg = FALSE /\ rd'.ended = rd.ended /\ Fields(rd')
      BY <1>2, <2>1 DEF Fields
    <2>3. rd'.file \in DOMAIN file.names
      BY <1>3, <1>6, <1>8, <2>2
    <2>4. SoFar(rd') = FlattenSeq(SubSeq(FileMsgs(file), 1, rd'.file - 1))
      BY <2>2, <2>3, SoFarFirst
    <2>5. rd'.file - 1 = rd.file
      BY <1>3, <1>6, <2>2
    <2>6. SoFar(rd) = FlattenSeq(SubSeq(FileMsgs(file), 1, rd.file))
      BY <1>3, <1>4, SoFarEnd
    <2>7. SoFar(rd') = SoFar(rd)
      BY <2>4, <2>5, <2>6
    <2>8. rd'.pos \in 1 .. Len(EntriesOf(rd')) + 1
      <3>1. PICK q : q = rd'
        OBVIOUS
      <3>2. EntriesOf(q) \in Seq(FileEntries)
        BY <2>3, <3>1, EntriesAre
      <3>3. PICK e \in Seq(FileEntries) : e = EntriesOf(q)
        BY <3>2
      <3>4. Len(e) \in Nat
        OBVIOUS
      <3>5. 1 \in 1 .. Len(e) + 1
        BY <3>4
      <3> QED
        BY <2>2, <3>1, <3>3, <3>5
    <2>9. ~(rd'.pos > 1) /\ ~rd'.ended /\ ~rd'.neg
      BY <1>1, <2>2
    <2>10. Placed(rd')
      BY <2>2, <2>3, <2>8, <2>9 DEF Placed
    <2> QED
      BY <1>2, <2>2, <2>7, <2>10 DEF ReaderAt
  <1> QED
    BY <1>7, <1>8

\* The reader when it begins.
LEMMA BeginRight ==
  ASSUME IsFile(file'), file'.names # <<>>, rd = NothingRead, rd' = [rd EXCEPT !.on = TRUE]
  PROVE  ReaderRight' /\ ReaderTypeOK'
  <1>1. /\ rd'.on = TRUE /\ rd'.file = 1 /\ rd'.pos = 1 /\ rd'.neg = FALSE /\ rd'.got = <<>>
        /\ rd'.state = "ok" /\ rd'.ended = FALSE
        /\ DOMAIN rd' = (DOMAIN NothingRead)'
    BY DEF NothingRead
  <1>2. file'.names \in Seq(DOMAIN file'.disk)
    BY DEF IsFile, FileRight
  <1>3. DOMAIN file'.names = 1 .. Len(file'.names) /\ Len(file'.names) \in Nat
        /\ Len(file'.names) # 0
    BY <1>2, EmptySeq
  <1>4. 1 \in DOMAIN file'.names
    BY <1>3
  <1>5. PICK e : e = file'.disk[file'.names[1]]
    OBVIOUS
  <1>6. e \in Seq(FileEntries)
    <2>1. file'.names[1] \in ToSet(file'.names)
      BY <1>4 DEF ToSet
    <2> QED
      BY <1>5, <2>1 DEF IsFile, FileRight
  <1>7. Entries' = e
    BY <1>1, <1>5 DEF Entries
  <1>8. ReadSoFar' = <<>>
    <2>1. \A s : SubSeq(s, 1, 0) = <<>>
      BY SubSeqEmpty
    <2>2. rd'.file - 1 = 0 /\ rd'.pos - 1 = 0
      BY <1>1
    <2>3. ReadSoFar' = FlattenSeq(<<>>) \o FlattenSeq(<<>>)
      BY <2>1, <2>2 DEF ReadSoFar
    <2>4. <<>> \o <<>> = <<>>
      OBVIOUS
    <2> QED
      BY <2>3, <2>4, FlattenEmpty
  <1>9. rd'.pos \in 1 .. Len(Entries') + 1
    <2>1. Len(e) \in Nat
      BY <1>6
    <2> QED
      BY <1>1, <1>7, <2>1
  <1>10. ReaderRight'
    BY <1>1, <1>4, <1>8, <1>9 DEF ReaderRight
  <1>11. ReaderTypeOK'
    <2>1. {rd'.on, rd'.neg, rd'.ended} \subseteq BOOLEAN
      BY <1>1
    <2> QED
      BY <1>1, <2>1 DEF ReaderTypeOK
  <1> QED
    BY <1>10, <1>11

-----------------------------------------------------------------------------
(* The invariant.                                                          *)
LEMMA FileInitInv ==
  ASSUME FileInit
  PROVE  FileInv
  <1>1. rd = NothingRead
    BY DEF FileInit
  <1>2. ~rd.on /\ ReaderTypeOK
    <2>1. {rd.on, rd.neg, rd.ended} \subseteq BOOLEAN /\ ~rd.on
      BY <1>1 DEF NothingRead
    <2> QED
      BY <1>1, <2>1 DEF ReaderTypeOK
  <1> QED
    BY <1>1, <1>2, InitRight DEF FileInv, WriterRight

LEMMA FileStepInv ==
  ASSUME FileInv, [FileNext]_fileVars
  PROVE  FileInv'
  <1>1. WriterRight /\ ReaderTypeOK /\ (IF rd.on THEN ReaderRight ELSE rd = NothingRead)
    BY DEF FileInv, WriterRight
  <1>2. IsFile(file) /\ file.names # <<>>
    BY <1>1, WriterIs
  <1>3. ASSUME UNCHANGED writerVars PROVE WriterRight' /\ file' = file
    <2>1. /\ config' = config /\ file' = file /\ buffer' = buffer /\ finished' = finished
          /\ format' = format /\ offered' = offered /\ acked' = acked
      BY <1>3 DEF writerVars
    <2> QED
      BY <1>1, <2>1, WriterIs, WriterAfter
  <1>4. CASE FileWrite
    <2>1. WriterRight' /\ rd' = rd /\ ~rd.on
      BY <1>1, <1>4, WriteRight DEF FileWrite
    <2>2. ReaderTypeOK'
      BY <1>1, <2>1 DEF ReaderTypeOK, NothingRead
    <2>3. rd' = NothingRead /\ ~rd'.on
      BY <1>1, <2>1
    <2>4. (rd = NothingRead)'
      BY <2>3 DEF NothingRead
    <2> QED
      BY <2>1, <2>2, <2>3, <2>4 DEF FileInv, WriterRight
  <1>5. CASE FileFinalize
    <2>1. ~rd.on /\ Flushed("none") /\ rd' = [rd EXCEPT !.on = TRUE] /\ config' = config
          /\ format' = format /\ offered' = offered /\ acked' = acked
      BY <1>5 DEF FileFinalize
    <2>2. format' \in AnyFormat
      BY <1>1, <2>1, WriterIs
    <2>3. WriterRight'
      BY <1>1, <2>1, <2>2, FlushedRight
    <2>4. IsFile(file') /\ file'.names # <<>>
      <3>1. FileTypeOK'
        BY <2>3 DEF WriterRight
      <3>2. FileRight(file')
        BY <2>1, <3>1 DEF FileTypeOK, FileRight
      <3>3. DOMAIN file' = FileDomain
        BY <3>1 DEF FileTypeOK, NoFile, FileDomain
      <3> QED
        BY <3>1, <3>2, <3>3 DEF IsFile, FileDomain, FileTypeOK
    <2>5. ReaderRight' /\ ReaderTypeOK'
      BY <1>1, <2>1, <2>4, BeginRight
    <2>6. rd'.on
      BY <1>1, <2>1 DEF NothingRead
    <2> QED
      BY <2>3, <2>5, <2>6 DEF FileInv, WriterRight
  <1>6. CASE ReadHello \/ ReadBlock \/ ReadEnd
    <2>1. UNCHANGED writerVars /\ rd.on
      BY <1>6 DEF ReadHello, ReadBlock, ReadEnd
    <2>2. WriterRight' /\ file' = file
      BY <1>3, <2>1
    <2>3. ReaderAt(rd) /\ Entries = EntriesOf(rd)
      BY <1>1, <2>1, ReaderIs
    <2>4. ReaderAt(rd')
      BY <1>2, <1>6, <2>3, HelloRight, BlockRight, EndRight
    <2>5. ReaderRight' /\ ReaderTypeOK'
      BY <2>2, <2>4, ReaderAfter
    <2>6. rd'.on
      BY <1>6, <2>1, <2>3 DEF ReadHello, ReadBlock, ReadEnd, ReaderAt, Fields
    <2> QED
      BY <2>2, <2>5, <2>6 DEF FileInv, WriterRight
  <1>7. CASE UNCHANGED fileVars
    <2>1. UNCHANGED writerVars /\ rd' = rd
      BY <1>7 DEF fileVars
    <2>2. WriterRight' /\ file' = file
      BY <1>3, <2>1
    <2>3. CASE rd.on
      <3>1. ReaderAt(rd')
        BY <1>1, <2>1, <2>3, ReaderIs
      <3>2. ReaderRight' /\ ReaderTypeOK'
        BY <2>2, <3>1, ReaderAfter
      <3> QED
        BY <2>1, <2>2, <2>3, <3>2 DEF FileInv, WriterRight
    <2>4. CASE ~rd.on
      <3>1. (rd = NothingRead)' /\ ReaderTypeOK'
        BY <1>1, <2>1, <2>4 DEF NothingRead, ReaderTypeOK
      <3> QED
        BY <2>1, <2>2, <2>4, <3>1 DEF FileInv, WriterRight
    <2> QED
      BY <2>3, <2>4
  <1> QED
    BY <1>4, <1>5, <1>6, <1>7 DEF FileNext

-----------------------------------------------------------------------------
(* What is in the files, and what is read of it.                           *)
LEMMA ArchiveFollows ==
  ASSUME FileInv
  PROVE  Archive
  <1>1. WriterRight
    BY DEF FileInv, WriterRight
  <1>2. /\ KeptFor(OnDisk \o buffer, offered, acked, file.reused, finished, file.failures)
        /\ IsFile(file)
    BY <1>1, WriterIs
  <1>3. PICK T : T = OnDisk \o buffer
    OBVIOUS
  <1>4. /\ T \in Seq(Messages) /\ Ascending(T) /\ offered \in Nat /\ acked \in Seq(1 .. offered)
        /\ file.failures \in Nat
        /\ ~file.reused =>
             Cardinality(ToSet(acked) \ IdsIn(T)) + (IF finished THEN 1 ELSE 0) <= file.failures
    BY <1>2, <1>3 DEF KeptFor, InOrderTo
  <1>5. PICK ids : ids = MsgIds(T)
    OBVIOUS
  <1>6. DOMAIN T = 1 .. Len(T) /\ Len(T) \in Nat
    BY <1>4
  <1>7. ids = [i \in 1 .. Len(T) |-> T[i].id]
    BY <1>5, <1>6 DEF MsgIds
  <1>8. Len(ids) = Len(T) /\ \A i \in 1 .. Len(T) : ids[i] = T[i].id
    BY <1>6, <1>7
  <1>9. \A i \in 1 .. Len(ids) - 1 : ids[i] < ids[i + 1]
    <2> TAKE i \in 1 .. Len(ids) - 1
    <2>1. i \in 1 .. Len(T) /\ i + 1 \in 1 .. Len(T) /\ i < i + 1
      BY <1>6, <1>8
    <2>2. T[i].id < T[i + 1].id
      BY <1>4, <1>6, <2>1 DEF Ascending
    <2> QED
      BY <1>8, <2>1, <2>2
  <1>10. file.reused => ~config.append
    BY <1>2 DEF IsFile, FileRight
  <1>11. ToSet(ids) = IdsIn(T)
    BY <1>6, <1>7, <1>8 DEF ToSet, IdsIn
  <1>12. Cardinality(ToSet(acked) \ IdsIn(T)) \in Nat
    BY <1>4, AckedFinite
  <1>13. ~file.reused => Cardinality(ToSet(acked) \ ToSet(ids)) <= file.failures
    BY <1>4, <1>11, <1>12
  <1> QED
    BY <1>3, <1>5, <1>9, <1>10, <1>13 DEF Archive

LEMMA PrefixOfParts ==
  ASSUME NEW a \in Seq(Messages), NEW b \in Seq(Messages), NEW c \in Seq(Messages),
         NEW d \in Seq(Messages), NEW o, o = (a \o (b \o c)) \o d
  PROVE  IsPrefix(a \o b, o)
  <1>1. /\ a \o b \in Seq(Messages) /\ b \o c \in Seq(Messages) /\ c \o d \in Seq(Messages)
    BY ConcatProperties
  <1>2. a \o (b \o c) = (a \o b) \o c
    BY MessagesAssociative, Zenon
  <1>3. ((a \o b) \o c) \o d = (a \o b) \o (c \o d)
    <2>1. PICK x \in Seq(Messages) : x = a \o b
      BY <1>1
    <2>2. (x \o c) \o d = x \o (c \o d)
      BY MessagesAssociative, Zenon
    <2> QED
      BY <2>1, <2>2
  <1>4. IsPrefix(a \o b, (a \o b) \o (c \o d))
    BY <1>1, PrefixOf
  <1> QED
    BY <1>2, <1>3, <1>4

\* What is before a place in the files is the beginning of them.
LEMMA SoFarPrefix ==
  ASSUME IsFile(file), NEW r, r.file \in DOMAIN file.names,
         r.pos \in 1 .. Len(EntriesOf(r)) + 1
  PROVE  IsPrefix(SoFar(r), OnDisk)
  <1>1. PICK e \in Seq(FileEntries) : e = EntriesOf(r)
    BY EntriesAre
  <1>2. PICK s \in Seq(Seq(Messages)) : s = EntryMsgs(e) /\ Len(s) = Len(e)
    BY EntryMsgsType
  <1>3. PICK k \in 0 .. Len(s) : k = r.pos - 1
    <2>1. Len(e) \in Nat /\ r.pos \in 1 .. Len(e) + 1
      BY <1>1
    <2> QED
      BY <1>2, <2>1
  <1>4. /\ FileMsgs(file) \in Seq(Seq(Messages)) /\ Len(FileMsgs(file)) = Len(file.names)
        /\ r.file \in 1 .. Len(file.names)
    <2>1. file.names \in Seq(DOMAIN file.disk)
      BY DEF IsFile, FileRight
    <2> QED
      BY <2>1, FileMsgsType
  <1>5. PICK v \in Seq(Seq(Messages)) : v = FileMsgs(file) /\ r.file \in 1 .. Len(v)
    BY <1>4
  <1>6. PICK n \in 1 .. Len(v) : n = r.file
    BY <1>5
  <1>7. n \in 0 .. Len(v)
    OBVIOUS
  <1>8. v[n] = FlattenSeq(s)
    BY <1>1, <1>2, <1>4, <1>5, <1>6, FileMsgsType DEF EntriesOf
  <1>9. PICK a \in Seq(Messages) :
           /\ a = FlattenSeq(SubSeq(v, 1, n - 1))
           /\ FlattenSeq(SubSeq(v, 1, n)) = a \o v[n]
    BY FlattenUpTo
  <1>10. PICK w \in Seq(Seq(Messages)) :
           FlattenSeq(v) = FlattenSeq(SubSeq(v, 1, n)) \o FlattenSeq(w)
    BY <1>7, FlattenSplits
  <1>11. PICK y, z \in Seq(Seq(Messages)) :
           /\ y = SubSeq(s, 1, k) /\ z = SubSeq(s, k + 1, Len(s))
           /\ FlattenSeq(s) = FlattenSeq(y) \o FlattenSeq(z)
    BY FlattenSplits
  <1>12. PICK b \in Seq(Messages) : b = FlattenSeq(y)
    BY FlattenType
  <1>13. PICK c \in Seq(Messages) : c = FlattenSeq(z)
    BY FlattenType
  <1>14. PICK d \in Seq(Messages) : d = FlattenSeq(w)
    BY FlattenType
  <1>15. OnDisk = (a \o (b \o c)) \o d
    BY <1>5, <1>8, <1>9, <1>10, <1>11, <1>12, <1>13, <1>14 DEF OnDisk
  <1>16. SoFar(r) = a \o b
    BY <1>1, <1>2, <1>3, <1>5, <1>6, <1>9, <1>11, <1>12 DEF SoFar
  <1>17. PICK o : o = OnDisk
    OBVIOUS
  <1>18. IsPrefix(a \o b, o)
    BY <1>15, <1>17, PrefixOfParts
  <1> QED
    BY <1>16, <1>17, <1>18

LEMMA ReadBackFollows ==
  ASSUME FileInv
  PROVE  ReadBack
  <1>1. WriterRight /\ ReaderTypeOK
    BY DEF FileInv, WriterRight
  <1>2. IsFile(file) /\ OnDisk \in Seq(Messages)
    BY <1>1, WriterIs
  <1>3. CASE rd.on
    <2>1. ReaderAt(rd)
      BY <1>1, <1>3, ReaderIs DEF FileInv
    <2>2. Placed(rd) /\ rd.got = SoFar(rd)
      BY <2>1 DEF ReaderAt
    <2>3. rd.file \in DOMAIN file.names /\ rd.pos \in 1 .. Len(EntriesOf(rd)) + 1
      BY <2>2 DEF Placed
    <2>4. IsPrefix(rd.got, OnDisk)
      BY <1>2, <2>2, <2>3, SoFarPrefix
    <2>5. rd.state = "confused" => file.failures > 0 \/ \E f \in JsonFormats : rd.fmt = f
      BY <2>2 DEF Placed
    <2>6. ASSUME rd.ended PROVE rd.got = OnDisk
      <3>1. rd.file = Len(file.names) /\ rd.pos = Len(EntriesOf(rd)) + 1
        BY <2>2, <2>6 DEF Placed
      <3>2. rd.got = FlattenSeq(SubSeq(FileMsgs(file), 1, Len(file.names)))
        BY <1>2, <2>2, <2>3, <3>1, SoFarEnd
      <3>3. FileMsgs(file) \in Seq(Seq(Messages)) /\ Len(FileMsgs(file)) = Len(file.names)
        BY <1>2, FileMsgsType
      <3> DEFINE U == Seq(Messages)
      <3>4. PICK v \in Seq(U) : v = FileMsgs(file) /\ Len(v) = Len(file.names)
        BY <3>3
      <3> HIDE DEF U
      <3>5. SubSeq(v, 1, Len(v)) = v
        BY <3>4, SubSeqFull
      <3> QED
        BY <3>2, <3>4, <3>5 DEF OnDisk
    <2> QED
      BY <2>4, <2>5, <2>6 DEF ReadBack
  <1>4. CASE ~rd.on
    <2>1. rd.got = <<>> /\ rd.state = "ok" /\ rd.ended = FALSE
      BY <1>4 DEF FileInv, NothingRead
    <2>2. IsPrefix(<<>>, OnDisk)
      <3>1. PICK o \in Seq(Messages) : o = OnDisk
        BY <1>2
      <3>2. <<>> \in Seq(Messages) /\ <<>> \o o = o
        BY ConcatEmptySeq
      <3>3. IsPrefix(<<>>, <<>> \o o)
        BY <3>2, PrefixOf
      <3> QED
        BY <3>1, <3>2, <3>3
    <2> QED
      BY <2>1, <2>2 DEF ReadBack
  <1> QED
    BY <1>3, <1>4

(* However the file is changed and whatever calls fail, the files in their *)
(* order, and then the buffer, hold every message trap_send has accepted,  *)
(* once and in order; a write that fails costs at most one message, and    *)
(* only a file that is opened again, which append mode never does, loses   *)
(* what it held.                                                           *)
THEOREM FilesArchive == FileSpec => []Archive
  <1>1. FileInit => FileInv
    BY FileInitInv
  <1>2. FileInv /\ [FileNext]_fileVars => FileInv'
    BY FileStepInv
  <1>3. FileInv => Archive
    BY ArchiveFollows
  <1> QED
    BY <1>1, <1>2, <1>3, PTL DEF FileSpec

(* A reader of those files gets a beginning of what they hold, in order,   *)
(* and at the end all of it; it takes a hello message for a container, or  *)
(* the reverse, only where a write has failed or the format is of JSON.    *)
THEOREM FilesReadBack == FileSpec => []ReadBack
  <1>1. FileInit => FileInv
    BY FileInitInv
  <1>2. FileInv /\ [FileNext]_fileVars => FileInv'
    BY FileStepInv
  <1>3. FileInv => ReadBack
    BY ReadBackFollows
  <1> QED
    BY <1>1, <1>2, <1>3, PTL DEF FileSpec
=============================================================================
