------------------------------- MODULE Context -------------------------------
(***************************************************************************)
(* The life of a libtrap context: trap_ctx_init2 constructs the interfaces *)
(* one after another and may fail at each, trap_ctx_ifcctl sets what the   *)
(* user has not fixed, trap_ctx_terminate may be called by any thread (a   *)
(* signal handler), and trap_ctx_finalize flushes, terminates, waits for   *)
(* the service thread and frees everything.                                *)
(***************************************************************************)
EXTENDS Integers

CONSTANTS NumIn, NumOut    \* interfaces the module has

ASSUME ContextAssumption == {NumIn, NumOut} \subseteq Nat /\ NumIn + NumOut > 0

VARIABLES
  phase,       \* of the thread that owns the context
  made,        \* interfaces constructed so far; later, those flushed
  ifc,         \* the life of each interface
  timeout,     \* datatimeout: who has set it
  initialized, ctxTerminated,
  threadState, \* the service thread: "none", "running", "left", "joined"
  walker       \* where another thread is in trap_ctx_terminate

contextVars ==
  <<phase, made, ifc, timeout, initialized, ctxTerminated, threadState, walker>>

Inputs == 1 .. NumIn
Outputs == NumIn + 1 .. NumIn + NumOut
Ifcs == Inputs \cup Outputs
NotWalking == 0

Live == [state |-> "live", ended |-> FALSE]
Raw == [state |-> "raw", ended |-> FALSE]

ContextInit ==
  /\ phase = "none" /\ made = 0
  /\ ifc = [i \in Ifcs |-> Raw] /\ timeout = [i \in Ifcs |-> "default"]
  /\ initialized = FALSE /\ ctxTerminated = FALSE
  /\ threadState = "none" /\ walker = NotWalking

-----------------------------------------------------------------------------
(* trap_ctx_init2.                                                         *)

(* The interface specifier names as many interfaces as the module has, or  *)
(* the context is returned as it is, with no list of interfaces.           *)
InitBegin ==
  /\ phase = "none" /\ phase' \in {"constructing", "refused"}
  /\ UNCHANGED <<made, ifc, timeout, initialized, ctxTerminated, threadState, walker>>

(* The setters of an interface ("timeout=" and others) are taken from its  *)
(* parameters before it is constructed; its threads run from then on.      *)
Setters == {"default", "fixed"}

Constructed ==
  /\ phase = "constructing" /\ made' = made + 1
  /\ ifc' = [ifc EXCEPT ![made'] = Live]
  /\ \E t \in Setters : timeout' = [timeout EXCEPT ![made'] = t]
  /\ UNCHANGED <<phase, initialized, ctxTerminated, threadState, walker>>

ConstructInput == made < NumIn /\ Constructed
ConstructOutput == made \in NumIn .. NumIn + NumOut - 1 /\ Constructed

Destroyed(is) == [i \in Ifcs |-> IF i \in is /\ ifc[i].state = "live"
                                   THEN [ifc[i] EXCEPT !.state = "dead"] ELSE ifc[i]]

(* Memory or a constructor fails: what was constructed is destroyed.  When *)
(* the mutex of an output interface cannot be initialised, the label jumped*)
(* to destroys input interfaces only, and the others keep running.         *)
ConstructFails ==
  /\ phase = "constructing" /\ made < NumIn + NumOut
  /\ phase' = "failed" /\ ctxTerminated' = TRUE
  /\ \/ ifc' = Destroyed(Ifcs)
     \/ /\ made >= NumIn
        /\ ifc' = [i \in Ifcs |-> IF i \in Outputs /\ ifc[i].state = "live"
                                    THEN [ifc[i] EXCEPT !.state = "lost"]
                                    ELSE Destroyed(Inputs)[i]]
  /\ UNCHANGED <<made, timeout, initialized, threadState, walker>>

(* Then the service thread is created.  Without it the context works.      *)
InitEnd ==
  /\ phase = "constructing" /\ made = NumIn + NumOut
  /\ phase' = "working" /\ made' = 0 /\ initialized' = TRUE
  /\ threadState' \in {"none", "running"}
  /\ UNCHANGED <<ifc, timeout, ctxTerminated, walker>>

-----------------------------------------------------------------------------
(* TRAPCTL_SETTIMEOUT.                                                     *)
SetTimeout(i, t) ==
  timeout' = IF ctxTerminated \/ timeout[i] = "fixed" THEN timeout
             ELSE [timeout EXCEPT ![i] = t]

IfcCtl(i) ==
  /\ phase = "working" /\ SetTimeout(i, "set")
  /\ UNCHANGED <<phase, made, ifc, initialized, ctxTerminated, threadState, walker>>

Ended(is) == [i \in Ifcs |-> [ifc[i] EXCEPT !.ended = @ \/ i \in is]]

(* trap_ctx_terminate, called by the thread that owns the context ...      *)
TerminateOwn ==
  /\ phase = "working" /\ ~ctxTerminated
  /\ ctxTerminated' = TRUE /\ ifc' = Ended(Ifcs)
  /\ UNCHANGED <<phase, made, timeout, initialized, threadState, walker>>

(* ... and by another one, interface after interface.                      *)
TerminateOther ==
  /\ phase # "gone" /\ initialized /\ ~ctxTerminated
  /\ ctxTerminated' = TRUE /\ walker' = 1
  /\ UNCHANGED <<phase, made, ifc, timeout, initialized, threadState>>

TerminateWalk ==
  /\ walker # NotWalking
  /\ ifc' = Ended({walker})
  /\ walker' = IF walker = NumIn + NumOut THEN NotWalking ELSE walker + 1
  /\ UNCHANGED <<phase, made, timeout, initialized, ctxTerminated, threadState>>

ServiceLeaves ==
  /\ threadState = "running" /\ ctxTerminated /\ threadState' = "left"
  /\ UNCHANGED <<phase, made, ifc, timeout, initialized, ctxTerminated, walker>>

-----------------------------------------------------------------------------
(* trap_ctx_finalize.                                                      *)

(* A context that was not initialised holds nothing any more.              *)
FinalizeFailed ==
  /\ phase \in {"refused", "failed"} /\ ~initialized
  /\ phase' = "gone"
  /\ UNCHANGED <<made, ifc, timeout, initialized, ctxTerminated, threadState, walker>>

FinalizeBegin ==
  /\ phase = "working" /\ phase' = "flushing"
  /\ UNCHANGED <<made, ifc, timeout, initialized, ctxTerminated, threadState, walker>>

(* Each output interface gets a timeout of its last flush, and is flushed. *)
FinalizeFlush ==
  /\ phase = "flushing" /\ made < NumOut
  /\ made' = made + 1
  /\ SetTimeout(NumIn + made', "last")
  /\ UNCHANGED <<phase, ifc, initialized, ctxTerminated, threadState, walker>>

FinalizeTerminate ==
  /\ phase = "flushing" /\ made = NumOut
  /\ phase' = "joining"
  /\ IF ctxTerminated THEN UNCHANGED <<ifc, ctxTerminated>>
                      ELSE ctxTerminated' = TRUE /\ ifc' = Ended(Ifcs)
  /\ UNCHANGED <<made, timeout, initialized, threadState, walker>>

FinalizeJoinBug ==                                       \* a terminated thread is not waited for
  /\ phase = "joining"
  /\ threadState' = IF threadState = "left" THEN "joined" ELSE threadState
  /\ phase' = "freeing" /\ made' = 0
  /\ UNCHANGED <<ifc, timeout, initialized, ctxTerminated, walker>>

FinalizeJoin ==
  /\ phase = "joining"
  /\ threadState # "running"
  /\ threadState' = IF threadState = "left" THEN "joined" ELSE threadState
  /\ phase' = "freeing" /\ made' = 0
  /\ UNCHANGED <<ifc, timeout, initialized, ctxTerminated, walker>>

(* trap_free_ctx_t.                                                        *)
FinalizeFree ==
  /\ phase = "freeing"
  /\ made' = made + 1
  /\ ifc' = Destroyed({made'})
  /\ phase' = IF made' = NumIn + NumOut THEN "gone" ELSE phase
  /\ UNCHANGED <<timeout, initialized, ctxTerminated, threadState, walker>>

-----------------------------------------------------------------------------
ContextNext ==
  \/ InitBegin \/ ConstructInput \/ ConstructOutput \/ ConstructFails \/ InitEnd
  \/ \E i \in Ifcs : IfcCtl(i)
  \/ TerminateOwn \/ TerminateOther \/ TerminateWalk \/ ServiceLeaves
  \/ FinalizeFailed \/ FinalizeBegin \/ FinalizeFlush \/ FinalizeTerminate
  \/ FinalizeJoin \/ FinalizeFree

ContextSpec == ContextInit /\ [][ContextNext]_contextVars

-----------------------------------------------------------------------------
(* However init ends and whoever terminates: while the service thread runs *)
(* no interface whose counters it reads is gone; an interface is destroyed *)
(* only after it was terminated, unless its construction had not ended or  *)
(* another thread is still terminating; and when the context is freed only *)
(* the interfaces left behind by a failed mutex are not destroyed.         *)
CleanEnd ==
  /\ threadState = "running" => \A i \in Ifcs : ifc[i].state = "live"
  /\ initialized /\ walker = NotWalking =>
       \A i \in Ifcs : ifc[i].state = "dead" => ifc[i].ended
  /\ phase = "gone" => \A i \in Ifcs : ifc[i].state # "live"
=============================================================================
