------------------------------ MODULE MCSenders ------------------------------
(***************************************************************************)
(* The output interface in both of its modes for one run of TLC: each      *)
(* behaviour is one of the mode that is chosen at first.                   *)
(***************************************************************************)
CONSTANTS BufferCount, MaxClients, Clients, Senders, AutoFlushers, BufferSwitches

VARIABLES
  head, tail, slot, cont, active, empty, deferred, processed,
  mtx, pc, task, old, scan, lowest, connected, waiting, acc, accClient, st, cid,
  bufferswitch, terminated, term, log, accepted, drainFrom,
  tcont, rcvd, nextSeq, skipped, sent, missed,
  part

(* Two messages fill a container, so that autoflush finds part of one.     *)
Wait == INSTANCE SenderBlocking WITH
  Timeout <- "WAIT", Capacity <- 2, MaxMsgs <- 2
NoWait == INSTANCE SenderNonBlocking WITH
  Timeout <- "NOWAIT", Capacity <- 1, MaxMsgs <- 4

sharedVars ==
  <<head, tail, slot, cont, active, empty, deferred, processed,
    mtx, pc, task, old, scan, lowest, connected, waiting, acc, accClient, st, cid,
    bufferswitch, terminated, term, log, accepted, drainFrom>>
onlyWait == <<rcvd>>
onlyNoWait == <<nextSeq, skipped, sent, missed>>
sendersVars == <<sharedVars, tcont, onlyWait, onlyNoWait, part>>

SendersInit ==
  \/ /\ part = "wait" /\ Wait!Init
     /\ nextSeq = <<>> /\ skipped = <<>> /\ sent = <<>> /\ missed = FALSE
  \/ part = "nowait" /\ NoWait!Init /\ rcvd = [c \in Clients |-> <<>>]

Step(wait, noWait) ==
  \/ part = "wait" /\ wait /\ UNCHANGED <<onlyNoWait, part>>
  \/ part = "nowait" /\ noWait /\ UNCHANGED <<onlyWait, part>>

(* Without waiting the autoflush thread is off.                            *)
AutoFlushOff == \A t \in AutoFlushers : pc'[t] = "idle"

SendersNext == Step(Wait!Next, NoWait!Next /\ AutoFlushOff)

(* With part as it is chosen, what Fairness of SenderBlocking says, or     *)
(* that of SenderNonBlocking.                                              *)
SharedPart(wait, noWait) ==
  Step(wait /\ UNCHANGED <<tcont, rcvd>>, noWait /\ UNCHANGED <<tcont, onlyNoWait>>)
SendersFair ==
  /\ \A t \in Senders :
       SF_sendersVars(SharedPart(Wait!ThreadStep(t), NoWait!ThreadStep(t)))
  /\ \A t \in AutoFlushers :
       /\ SF_sendersVars(SharedPart(Wait!ThreadStep(t), FALSE))
       /\ WF_sendersVars(SharedPart(Wait!AutoFlushCall(t), FALSE))
  /\ \A c \in Clients :
       WF_sendersVars(Step(Wait!PeerStep(c), NoWait!PeerStep(c) /\ st[c] # "send"))
  /\ WF_sendersVars(SharedPart(Wait!AcceptStep, NoWait!AcceptStep))
  /\ WF_sendersVars(SharedPart(Wait!TerminateStep, FALSE))

SendersSpec == SendersInit /\ [][SendersNext]_sendersVars /\ SendersFair

-----------------------------------------------------------------------------
(* A storing thread that waits for a full ring gets on, unless the clients *)
(* leave it alone: WaitEnds of SenderBlocking.                             *)
WaitEnds == part = "wait" => Wait!WaitEnds

(* With autoflush, a stored message reaches every client that stays:       *)
(* Delivered of SenderBlocking.                                            *)
Delivered == part = "wait" => Wait!Delivered

(* tcpip_sender_terminate returns: TerminateEnds of TcpipSender, with      *)
(* TRAP_WAIT.                                                              *)
TerminateEnds == part = "wait" => Wait!TerminateEnds

(* Without waiting, a storing thread finishes whatever the clients do:     *)
(* StoreEnds of SenderNonBlocking.                                         *)
StoreEnds == part = "nowait" => NoWait!StoreEnds

(* A client whose peer reads gets past every container: Advances of        *)
(* SenderNonBlocking.                                                      *)
Advances == part = "nowait" => NoWait!Advances
=============================================================================
