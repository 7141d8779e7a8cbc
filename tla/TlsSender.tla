------------------------------ MODULE TlsSender ------------------------------
(***************************************************************************)
(* The output interface over TLS (ifc_tls.c), in its non-blocking mode.    *)
(* It is a copy of the one over TCP: the same ring, storing threads,       *)
(* flushing and termination, so their actions are used as they are, each   *)
(* operation of this file gathering its own.  It differs where it speaks   *)
(* TLS: the handshake of a new client runs with ifc_mtx locked, and a      *)
(* client's thread knows more ways to fail.                                *)
(***************************************************************************)
EXTENDS SenderNonBlocking

VARIABLES
  leaks          \* history: the clients that left and kept a reference

tlsVars == <<vars, leaks>>

TlsInit == Init /\ leaks = 0

-----------------------------------------------------------------------------
(* tls_sender_send, tls_sender_flush and the autoflush thread, with what   *)
(* finish_container and t_mbuf_get_empty_container do under the lock.      *)
TlsSend(t) ==
  \/ SendCall(t) \/ SendStore(t) \/ SendFull(t) \/ TakeForSend(t) \/ TakeForSwitch(t)

TlsFlush(t) == FlushCall(t) \/ FlushLocked(t) \/ TakeForFlush(t)

TlsAutoFlush(t) == AutoFlushCall(t)

TlsFinish(t) ==
  \/ FinishHeader(t) \/ FinishRepeat(t) \/ FinishYield(t) \/ FinishRelock(t)
  \/ RingStore(t) \/ RingPublish(t) \/ RingAdvanceTail(t)
  \/ OldPeek(t) \/ OldUnref(t) \/ OldClear(t) \/ OldWipe(t)

TlsGetEmpty(t) ==
  ScanBegin(t) \/ ScanLook(t) \/ ScanReclaim(t) \/ ScanWipe(t) \/ ScanEnd(t)

TlsThread(t) ==
  /\ \/ TlsSend(t) \/ TlsFlush(t) \/ TlsAutoFlush(t) \/ TlsFinish(t) \/ TlsGetEmpty(t)
  /\ UNCHANGED <<peerVars, leaks>>

TlsTerminate == (TerminateCall \/ TerminateStep) /\ UNCHANGED <<peerVars, leaks>>

TlsSetBufferSwitch == SetBufferSwitch /\ UNCHANGED <<peerVars, leaks>>

-----------------------------------------------------------------------------
(* The accepting thread.  A client it accepts is turned away, with the     *)
(* mutex still locked, when the SSL structure, the handshake, the          *)
(* certificate or the negotiation of the format fails.                     *)
TlsAcceptPeer(c) == AcceptPeer(c) /\ UNCHANGED <<peerVars, leaks>>

TlsAcceptLock == (AcceptTop \/ AcceptLock) /\ UNCHANGED <<peerVars, leaks>>

(* SSL_accept and what follows it: the peer may take its time.             *)
TlsHandshake == (AcceptList \/ AcceptRefuse) /\ UNCHANGED <<peerVars, leaks>>

TlsAcceptCount == AcceptCount /\ UNCHANGED <<peerVars, leaks>>

-----------------------------------------------------------------------------
(* send_non_blocking_mode.                                                 *)
TlsPeerLoop(c) ==
  \/ PeerTop(c) \/ PeerPick(c) \/ PeerAcquire(c) \/ PeerVerify(c)
  \/ PeerGiveUp(c) \/ PeerSkip(c) \/ PeerRelease(c) \/ PeerNext(c) \/ PeerJump(c)

TlsPeerSend(c) == PeerSent(c)

(* SSL_write fails.  A closed connection gives the container back ...      *)
TlsPeerBroken(c) == PeerBroken(c) /\ leaks' = IF terminated THEN leaks + 1 ELSE leaks

(* ... any other error does not.                                           *)
TlsPeerUnhandled(c) ==
  /\ st[c] = "send" /\ ~terminated
  /\ tcont' = [tcont EXCEPT ![c] = NoContainer]
  /\ SetState(c, "cleanup") /\ leaks' = leaks + 1
  /\ OnlyPeer /\ UNCHANGED <<cont, cid, nextSeq, skipped, sent, missed>>

TlsPeerStep(c) ==
  \/ (TlsPeerLoop(c) \/ TlsPeerSend(c) \/ PeerLeave(c)) /\ UNCHANGED leaks
  \/ TlsPeerBroken(c) \/ TlsPeerUnhandled(c)

-----------------------------------------------------------------------------
TlsNext ==
  \/ \E t \in Threads : TlsThread(t)
  \/ \E c \in Clients : TlsAcceptPeer(c) \/ TlsPeerStep(c)
  \/ TlsAcceptLock \/ TlsHandshake \/ TlsAcceptCount
  \/ TlsTerminate \/ TlsSetBufferSwitch

TlsSpec == TlsInit /\ [][TlsNext]_tlsVars

-----------------------------------------------------------------------------
(* The pool suffices for the ring, the active container and one container  *)
(* held by each client.  Only a client that leaves by an error the code    *)
(* does not expect keeps its container for good, and makes the pool run    *)
(* dry under a storing thread.                                             *)
OnlyLeaksDrainPool ==
  ~missed /\ leaks = 0 => \A t \in Threads : pc[t] = "pop" => empty # <<>>

-----------------------------------------------------------------------------
(* The inductive invariant behind OnlyLeaksDrainPool.                      *)

(* No container is lost, and from its storing until the next one is taken  *)
(* the active one takes no more room than its slot.                        *)
Stowed(k) ==
  \/ \E j \in RingSlots : slot[j] = k
  \/ \E i \in 1 .. Len(empty) : empty[i] = k
  \/ \E i \in 1 .. Len(deferred) : deferred[i] = k
  \/ active = k
  \/ Stage \in OutOfPlace /\ old = k
NoneLost ==
  /\ \A k \in Containers : Stowed(k)
  /\ Stage \in Stored => \E j \in RingSlots : slot[j] = active

(* Only a client that is between picking and giving back has a container.  *)
Laden ==
  \A c \in Clients :
    tcont[c] # NoContainer => st[c] \in {"acquire", "verify", "send", "release", "giveup"}

(* The search for containers to recover has passed scan - 1 of them, each  *)
(* for a client that held it then; a client that lets go of one can only   *)
(* take another from the ring.                                             *)
Ahead == {c \in Clients : \E i \in scan .. Len(deferred) : tcont[c] = deferred[i]}
Scanning ==
  /\ Stage \in {"scan", "reclaim", "pop"} => /\ scan \in 1 .. Len(deferred) + 1
                                             /\ (scan - 1) + Cardinality(Ahead) <= MaxClients
  /\ Stage = "pop" => scan = Len(deferred) + 1

(* Until a client comes too late or leaves with a reference, a counter has *)
(* no more than its place and its holders account for.                     *)
NoLeaks ==
  ~missed /\ leaks = 0 => References /\ (\A k \in Containers : Kept(k) = 0) /\ Scanning

PoolInv == Structure /\ NoneLost /\ Laden /\ leaks \in Nat /\ NoLeaks
=============================================================================
