------------------------------- MODULE Formats -------------------------------
(***************************************************************************)
(* Data formats of libtrap: an output interface whose module sets and      *)
(* changes the format of its messages, the hello message it sends to an    *)
(* input interface that connects, what the input interface makes of it,    *)
(* and how trap_recv tells its module that the format has changed.         *)
(* A format specifier is the set of its fields; NULL is no specifier.      *)
(***************************************************************************)
EXTENDS Integers, Sequences

CONSTANTS
  NULL,
  OutFormats,   \* formats the sending module sets, [type, spec]
  Required,     \* formats the receiving module may require
  Room,         \* messages that fit in one container
  MaxSets, MaxStores, MaxBreaks   \* bounds of the model

ASSUME FormatAssumption ==
  /\ \A f \in OutFormats \cup Required :
       /\ f = [type |-> f.type, spec |-> f.spec] /\ f.type \in {"RAW", "UNIREC", "JSON"}
       /\ f.type = "RAW" => f.spec = NULL       \* a specifier of it is not looked at
  /\ Room \in Nat \ {0} /\ {MaxSets, MaxStores, MaxBreaks} \subseteq Nat

VARIABLES
  out,          \* data_type and data_fmt_spec of the output interface
  open,         \* the messages of its active container
  link,         \* the connection: "down", "pending" (not accepted yet), "up", "closed"
  hello, wire,  \* what was sent on it: the hello message, then containers
  req,          \* req_data_type and req_data_fmt_spec of the input interface
  in,           \* its data_type and data_fmt_spec
  fmtState,     \* client_state
  linked,       \* config->connected
  unread,       \* messages of the last container not given to the module yet
  call,         \* where trap_recv is: "idle", "init", "negotiate", "reset", "lost"
  code, taken,  \* what it returned, and the message
  known,        \* the format the receiving module believes in
  overwritten,  \* history: a change was negotiated, and forgotten before a message came
  budget        \* sets, stores and breaks still allowed

outVars == <<out, open>>
linkVars == <<link, hello, wire>>
inVars == <<req, in, fmtState, linked, unread, call, code, taken, known, overwritten>>
formatVars == <<outVars, linkVars, inVars, budget>>

Format(t, s) == [type |-> t, spec |-> s]
Unknown == Format("UNKNOWN", NULL)
NoHello == Format("NONE", NULL)
NoMessage == [fmt |-> Unknown, stale |-> FALSE]
NotRaw == {"UNIREC", "JSON"}

FormatsInit ==
  /\ out = Unknown /\ open = <<>>
  /\ link = "down" /\ hello = NoHello /\ wire = <<>>
  /\ req \in Required /\ in = Unknown /\ fmtState = "WAITING"
  /\ linked = FALSE /\ unread = <<>>
  /\ call = "idle" /\ code = "NONE" /\ taken = NoMessage
  /\ known = req /\ overwritten = FALSE
  /\ budget = [sets |-> MaxSets, stores |-> MaxStores, breaks |-> MaxBreaks]

-----------------------------------------------------------------------------
(* The output interface.                                                   *)

(* disconnect_all_clients: what was sent may still be read.                *)
DisconnectAll == link' = IF link = "up" THEN "closed" ELSE link

SetDataFmtBug(f) ==                                      \* clients stay connected
  /\ budget.sets > 0 /\ budget' = [budget EXCEPT !.sets = @ - 1]
  /\ out' = IF f.type = "RAW" THEN Format("RAW", out.spec) ELSE f
  /\ open' = [i \in DOMAIN open |-> [open[i] EXCEPT !.stale = @ \/ open[i].fmt # f]]
  /\ UNCHANGED <<link, hello, wire, inVars>>

(* trap_ctx_vset_data_fmt, under ifc_mtx.  The container being filled is   *)
(* kept, so its messages (marked here) go to clients that agree on the new *)
(* format.                                                                 *)
SetDataFmt(f) ==
  /\ budget.sets > 0 /\ budget' = [budget EXCEPT !.sets = @ - 1]
  /\ IF out.type = "UNKNOWN" THEN UNCHANGED link ELSE DisconnectAll
  /\ out' = IF f.type = "RAW" THEN Format("RAW", out.spec) ELSE f
  /\ open' = [i \in DOMAIN open |-> [open[i] EXCEPT !.stale = @ \/ open[i].fmt # f]]
  /\ UNCHANGED <<hello, wire, inVars>>

(* A finished container goes to the client that is connected.              *)
Publish(c) == wire' = IF link = "up" THEN Append(wire, c) ELSE wire

(* A message in the format that is set now is sent ...                     *)
StoreMessage ==
  /\ budget.stores > 0 /\ budget' = [budget EXCEPT !.stores = @ - 1]
  /\ LET m == [fmt |-> Format(out.type, IF out.type \in NotRaw THEN out.spec ELSE NULL),
               stale |-> FALSE]
     IN  \/ Len(open) < Room /\ open' = Append(open, m) /\ UNCHANGED wire
         \/ Len(open) = Room /\ Publish(open) /\ open' = <<m>>
  /\ UNCHANGED <<out, link, hello, inVars>>

(* ... and flushed.                                                        *)
FlushOpen ==
  /\ open # <<>> /\ Publish(open) /\ open' = <<>>
  /\ UNCHANGED <<out, link, hello, inVars, budget>>

(* The hello message: a format that is not set, or a UniRec or JSON format *)
(* without a specifier, is announced as unknown, and the client refused.   *)
Hello ==
  CASE out.type = "UNKNOWN" \/ (out.type \in NotRaw /\ out.spec = NULL) -> Unknown
    [] out.type = "RAW" -> Format("RAW", NULL)
    [] OTHER -> out

(* output_ifc_negotiation in the accepting thread, under ifc_mtx.          *)
AcceptNegotiate ==
  /\ link = "pending"
  /\ hello' = Hello
  /\ link' = IF Hello = Unknown THEN "closed" ELSE "up"
  /\ wire' = <<>>
  /\ UNCHANGED <<outVars, inVars, budget>>

(* The hello message cannot be sent, or there are max_clients clients.     *)
AcceptRefused ==
  /\ link = "pending" /\ link' = "closed"
  /\ budget.breaks > 0 /\ budget' = [budget EXCEPT !.breaks = @ - 1]
  /\ UNCHANGED <<outVars, hello, wire, inVars>>

(* The connection breaks, and what was not read yet may be lost.           *)
Break ==
  /\ budget.breaks > 0 /\ budget' = [budget EXCEPT !.breaks = @ - 1]
  /\ link = "up" /\ link' = "closed"
  /\ \E k \in 0 .. Len(wire) : wire' = SubSeq(wire, 1, k)
  /\ hello' \in IF wire' = <<>> THEN {hello, NoHello} ELSE {hello}
  /\ UNCHANGED <<outVars, inVars>>

-----------------------------------------------------------------------------
(* trap_ctx_cmp_data_fmt: every field of the receiver has to be the        *)
(* sender's; then the longer specifier of the sender has more fields.      *)
CmpDataFmt(sender, receiver) ==
  CASE sender = NULL /\ receiver # NULL -> "MISMATCH"
    [] sender # NULL /\ receiver = NULL -> "SUBSET"
    [] sender = receiver -> "OK"
    [] OTHER -> IF receiver \subseteq sender THEN "SUBSET" ELSE "MISMATCH"

(* For JSON a receiver that requires nothing takes everything.             *)
CmpJson(sender, receiver) ==
  IF receiver = NULL \/ receiver = {} \/ sender = receiver THEN "OK" ELSE "MISMATCH"

Compare(type, sender, receiver) ==
  IF type = "UNIREC" THEN CmpDataFmt(sender, receiver) ELSE CmpJson(sender, receiver)

(* The old and the new format of the sender.                               *)
SameAsBefore(h) ==
  in.spec = NULL \/ IF h.type = "UNIREC" THEN CmpDataFmt(in.spec, h.spec) = "OK"
                                         ELSE in.spec = h.spec

JudgedBug(h) ==                                          \* old format not compared
  IF h.type # req.type \/ (h.type = "UNIREC" /\ h.spec = {}) THEN "MISMATCH"
  ELSE IF h.type = "RAW" THEN "OK"
  ELSE CASE Compare(h.type, h.spec, req.spec) = "MISMATCH" -> "MISMATCH"
         [] Compare(h.type, h.spec, req.spec) = "SUBSET" -> "CHANGED"
         [] OTHER -> "OK"

(* input_ifc_negotiation: the client_state a hello message leads to.       *)
Judged(h) ==
  IF h.type # req.type \/ (h.type = "UNIREC" /\ h.spec = {}) THEN "MISMATCH"
  ELSE IF h.type = "RAW" THEN "OK"
  ELSE CASE Compare(h.type, h.spec, req.spec) = "MISMATCH" -> "MISMATCH"
         [] Compare(h.type, h.spec, req.spec) = "SUBSET" -> "CHANGED"
         [] OTHER -> IF SameAsBefore(h) THEN "OK" ELSE "CHANGED"

SetFmtState(s) ==
  /\ fmtState' = s
  /\ overwritten' = (overwritten \/ (fmtState = "CHANGED" /\ s # "CHANGED"))

Returns(c) == call' = "idle" /\ code' = c

(* The hello message is read.  A mismatch is reported, but the connection  *)
(* is kept, and the next call reads on from it.                            *)
NegotiateRead ==
  /\ call = "negotiate" /\ hello # NoHello /\ hello # Unknown
  /\ hello' = NoHello
  /\ SetFmtState(Judged(hello)) /\ linked' = TRUE
  /\ IF fmtState' = "MISMATCH"
       THEN Returns("FORMAT_MISMATCH") /\ UNCHANGED in
       ELSE call' = "init" /\ in' = hello /\ UNCHANGED code
  /\ UNCHANGED <<outVars, link, wire, req, unread, taken, known, budget>>

(* The sender does not know its format: the connection is given up.        *)
NegotiateUnknown ==
  /\ call = "negotiate" /\ hello = Unknown
  /\ SetFmtState("WAITING")
  /\ link' = "down" /\ hello' = NoHello /\ wire' = <<>>
  /\ call' = "reset"
  /\ UNCHANGED <<outVars, code, req, in, linked, unread, taken, known, budget>>

(* No hello message will come.                                             *)
NegotiateFailed ==
  /\ call = "negotiate" /\ hello = NoHello /\ link = "closed"
  /\ SetFmtState("WAITING") /\ linked' = TRUE
  /\ Returns("NEGOTIATION_FAILED")
  /\ UNCHANGED <<outVars, linkVars, req, in, unread, taken, known, budget>>

(* No hello message has come in time: the call returns with the connection *)
(* kept, and later takes the hello for a header (TcpipReceiver); what the  *)
(* module is given from there on is not followed.                          *)
NegotiateUnanswered ==
  /\ call = "negotiate" /\ hello = NoHello /\ link # "closed"
  /\ budget.breaks > 0 /\ budget' = [budget EXCEPT !.breaks = @ - 1]
  /\ SetFmtState("WAITING") /\ linked' = TRUE
  /\ call' = "lost" /\ code' = "NEGOTIATION_FAILED"
  /\ UNCHANGED <<outVars, linkVars, req, in, unread, taken, known>>

-----------------------------------------------------------------------------
(* The module and trap_read_from_buffer.                                   *)

(* trap_ctx_set_required_fmt, before the first message is asked for.       *)
SetRequiredFmt(f) ==
  /\ call = "idle" /\ code = "NONE" /\ in = Unknown
  /\ f # req /\ f \in Required
  /\ req' = IF f.type = "RAW" THEN Format("RAW", req.spec) ELSE f
  /\ known' = f
  /\ UNCHANGED <<outVars, linkVars, in, fmtState, linked, unread, call, code, taken,
                 overwritten, budget>>

(* trap_ctx_get_data_fmt.                                                  *)
GetDataFmt ==
  /\ call = "idle" /\ in # Unknown /\ fmtState \in {"OK", "CHANGED"}
  /\ known' = in /\ overwritten' = FALSE
  /\ code' = IF code = "FORMAT_CHANGED" THEN "NONE" ELSE code
  /\ taken' = NoMessage
  /\ UNCHANGED <<outVars, linkVars, req, in, fmtState, linked, unread, call, budget>>

(* trap_recv.  A module that was told of a change has asked for the format. *)
RecvFormats ==
  /\ call = "idle" /\ code # "FORMAT_CHANGED"
  /\ call' = "init" /\ code' = "CALLED" /\ taken' = NoMessage
  /\ UNCHANGED <<outVars, linkVars, req, in, fmtState, linked, unread, known, overwritten,
                 budget>>

(* A message is there: the first one after a change comes with the news.   *)
TakeMessage ==
  /\ call = "init" /\ unread # <<>>
  /\ taken' = Head(unread) /\ unread' = Tail(unread)
  /\ IF fmtState = "CHANGED" THEN fmtState' = "OK" /\ Returns("FORMAT_CHANGED")
                             ELSE Returns("OK") /\ UNCHANGED fmtState
  /\ UNCHANGED <<outVars, linkVars, req, in, linked, known, overwritten, budget>>

OnlyCalls == UNCHANGED <<outVars, req, in, fmtState, taken, known, overwritten, budget>>

(* Otherwise the interface connects ...                                    *)
ConnectOut ==
  /\ call = "init" /\ unread = <<>> /\ ~linked
  /\ link' = "pending" /\ hello' = NoHello /\ wire' = <<>> /\ call' = "negotiate"
  /\ OnlyCalls /\ UNCHANGED <<linked, unread, code>>

(* ... reads a container ...                                               *)
ReadContainer ==
  /\ call = "init" /\ unread = <<>> /\ linked /\ wire # <<>>
  /\ unread' = Head(wire) /\ wire' = Tail(wire)
  /\ OnlyCalls /\ UNCHANGED <<link, hello, linked, call, code>>

ReadClosedBug ==                                         \* connected is left set
  /\ call = "init" /\ unread = <<>> /\ linked /\ wire = <<>> /\ link = "closed"
  /\ link' = "down" /\ call' = "reset"
  /\ OnlyCalls /\ UNCHANGED <<linked, hello, wire, unread, code>>

(* ... or finds the connection closed.                                     *)
ReadClosed ==
  /\ call = "init" /\ unread = <<>> /\ linked /\ wire = <<>> /\ link = "closed"
  /\ linked' = FALSE /\ link' = "down" /\ call' = "reset"
  /\ OnlyCalls /\ UNCHANGED <<hello, wire, unread, code>>

(* After a failure the call tries again, if it has the time.               *)
TryAgain ==
  /\ call = "reset" /\ call' = "init"
  /\ OnlyCalls /\ UNCHANGED <<linkVars, linked, unread, code>>

(* A call with a timeout ends after a failure, or when nothing comes.      *)
RecvTimeout ==
  /\ \/ call = "reset"
     \/ call = "init" /\ unread = <<>> /\ linked /\ wire = <<>> /\ link # "closed"
  /\ Returns("TIMEOUT")
  /\ OnlyCalls /\ UNCHANGED <<linkVars, linked, unread>>

-----------------------------------------------------------------------------
OutputStep ==
  \/ \E f \in OutFormats : SetDataFmt(f)
  \/ StoreMessage \/ FlushOpen \/ Break \/ AcceptRefused

NegotiateStep ==
  \/ NegotiateRead \/ NegotiateUnknown \/ NegotiateFailed

InputStep ==
  \/ NegotiateStep \/ RecvFormats \/ TakeMessage
  \/ ConnectOut \/ ReadContainer \/ ReadClosed \/ TryAgain

FormatsNext ==
  \/ OutputStep \/ AcceptNegotiate \/ InputStep \/ NegotiateUnanswered \/ RecvTimeout
  \/ GetDataFmt \/ \E f \in Required : SetRequiredFmt(f)

(* The module goes on calling, the accepting thread goes on accepting.     *)
FormatsFair ==
  /\ WF_formatVars(InputStep) /\ WF_formatVars(AcceptNegotiate)
  /\ WF_formatVars(GetDataFmt /\ code = "FORMAT_CHANGED")

FormatsSpec == FormatsInit /\ [][FormatsNext]_formatVars /\ FormatsFair

-----------------------------------------------------------------------------
(* Messages that come with TRAP_E_OK are in the format the module was told *)
(* last, unless a change was negotiated and its connection lost before the *)
(* first message: the next negotiation then finds nothing new.  (A JSON    *)
(* module that requires nothing takes any format as its first.)            *)
FormatIsKnown ==
  code = "OK" =>
    \/ known = in \/ overwritten \/ fmtState = "MISMATCH"
    \/ in.type = "JSON" /\ known.spec \in {NULL, {}}

(* What a connection delivers is in the format negotiated for it: the      *)
(* change of a format reaches no client that agreed on the old one, and    *)
(* the only messages of another format are those that lay in the container *)
(* being filled when the format was set; a connection whose negotiation    *)
(* has failed promises nothing.                                            *)
NegotiatedFormat ==
  code \in {"OK", "FORMAT_CHANGED"} =>
    taken = NoMessage \/ taken.stale \/ fmtState = "MISMATCH" \/ taken.fmt = in

Fits == /\ Hello.type = req.type
        /\ Judged(Hello) \in {"OK", "CHANGED"}

(* A mismatch ends: once the sending module keeps a format the receiver    *)
(* can take, the two agree, whatever was negotiated before.                *)
Reconciled == <>[]Fits => <>[](fmtState \in {"OK", "CHANGED"} \/ call = "lost")

-----------------------------------------------------------------------------
(* What makes it so, an inductive invariant (see ControlProofs).  A call   *)
(* whose negotiation went unanswered is not followed any more.             *)

AllFormats ==
  [type : {"RAW", "UNIREC", "JSON", "UNKNOWN", "NONE"},
   spec : {NULL} \cup {f.spec : f \in OutFormats \cup Required}]
Messages == [fmt : AllFormats, stale : BOOLEAN]

FormatsTypeOK ==
  /\ {out, hello, req, in, known} \subseteq AllFormats
  /\ open \in Seq(Messages) /\ wire \in Seq(Seq(Messages)) /\ unread \in Seq(Messages)
  /\ taken \in Messages
  /\ link \in {"down", "pending", "up", "closed"}
  /\ fmtState \in {"WAITING", "OK", "CHANGED", "MISMATCH"}
  /\ linked \in BOOLEAN /\ overwritten \in BOOLEAN
  /\ call \in {"idle", "init", "negotiate", "reset", "lost"}
  /\ code \in {"NONE", "CALLED", "OK", "FORMAT_CHANGED", "FORMAT_MISMATCH",
               "NEGOTIATION_FAILED", "TIMEOUT"}
  /\ budget \in [sets : Nat, stores : Nat, breaks : Nat]

(* Formats a hello message announces, and the one messages are stored in.  *)
Announced(f) == f = Format("RAW", NULL) \/ (f.type \in NotRaw /\ f.spec # NULL)
Current == Format(out.type, IF out.type \in NotRaw THEN out.spec ELSE NULL)
AllIn(c, f) == \A i \in DOMAIN c : c[i].stale \/ c[i].fmt = f

(* Where the call is, and what is left of the last container.              *)
Calling ==
  /\ call \in {"init", "negotiate", "reset"} => code = "CALLED" /\ taken = NoMessage
  /\ call \in {"negotiate", "reset"} => ~linked
  /\ call = "negotiate" => unread = <<>>
  /\ unread # <<>> => fmtState # "WAITING"
  /\ code \in {"OK", "FORMAT_CHANGED"} => call = "idle"
  /\ code = "OK" => fmtState \in {"OK", "MISMATCH"}
  /\ code = "FORMAT_CHANGED" => fmtState = "OK"

(* How far the connection is, and the format its two ends agree on.        *)
Connection ==
  /\ call # "negotiate" => hello = NoHello /\ link # "pending"
  /\ call # "negotiate" /\ linked /\ fmtState = "WAITING" => link # "up" /\ wire = <<>>
  /\ call = "negotiate" /\ hello \in {NoHello, Unknown} => link # "up" /\ wire = <<>>
  /\ link = "pending" => hello = NoHello
  /\ hello \in {NoHello, Unknown} \/ Announced(hello)
  /\ link = "up" => Hello # Unknown /\ hello \in {NoHello, Hello}
  /\ link = "up" /\ hello = NoHello /\ fmtState \in {"OK", "CHANGED"} => in = Hello

(* The format of the receiver, and what its module believes.               *)
Agreed ==
  /\ out.type # "NONE"
  /\ req.type \in {"RAW", "UNIREC", "JSON"}
  /\ in = Unknown \/ (Announced(in) /\ in.type = req.type)
  /\ fmtState \in {"OK", "CHANGED"} => in # Unknown
  /\ in = Unknown => known = IF req.type = "RAW" THEN Format("RAW", NULL) ELSE req
  /\ \/ known = in \/ in = Unknown \/ overwritten
     \/ fmtState = "CHANGED" \/ code = "FORMAT_CHANGED"
     \/ in.type = "JSON" /\ known.spec \in {NULL, {}}

(* Where the messages are, and their formats.                              *)
Delivered ==
  /\ AllIn(open, Current)
  /\ \A i \in DOMAIN wire :
       /\ hello # NoHello => AllIn(wire[i], hello)
       /\ hello = NoHello /\ fmtState \in {"OK", "CHANGED"} => AllIn(wire[i], in)
  /\ fmtState # "MISMATCH" => AllIn(unread, in)
  /\ taken = NoMessage \/ fmtState = "MISMATCH" \/ taken.stale \/ taken.fmt = in

FormatsInv ==
  /\ FormatsTypeOK
  /\ call = "lost" => code = "NEGOTIATION_FAILED"
  /\ call # "lost" => Calling /\ Connection /\ Agreed /\ Delivered
=============================================================================
