------------------------------- MODULE Service -------------------------------
(***************************************************************************)
(* The service thread of a libtrap context (service_thread_routine): a     *)
(* table of supervisors, a poll set built from it in every turn, requests  *)
(* for the counters and their replies.                                     *)
(***************************************************************************)
EXTENDS Integers, Sequences, FiniteSets, FiniteSetsExt, SequencesExt

CONSTANTS
  Supervisors, NoPeer,
  TableSize,            \* rows of the table (max_clients)
  MaxAsks, MaxConnects  \* bounds: requests of a connection, connections in all

ASSUME ServiceAssumption ==
  /\ NoPeer \notin Supervisors
  /\ TableSize \in Nat \ {0} /\ {MaxAsks, MaxConnects} \subseteq Nat

VARIABLES
  clients,      \* the peer whose descriptor each row holds
  backlog,      \* connections that wait to be accepted
  peer,         \* a supervisor: "away" (or closed), "on", "gone" (it has hung up)
  inbox,        \* what it has sent and the thread has not read
  pfds,         \* the poll set: the listening socket first, then rows in use
  sp,           \* program counter of the thread
  row, poll,    \* i and j of its walk
  stopping,     \* terminated, of the context
  connects      \* connections made so far

serviceVars ==
  <<clients, backlog, peer, inbox, pfds, sp, row, poll, stopping, connects>>

(* A request for the counters; anything else, or part of a request, which  *)
(* may be completed.                                                       *)
Requests == {"get", "part"}
Rows == 1 .. TableSize
Connected(s) == s \in ToSet(backlog) \/ s \in {clients[r] : r \in Rows}

(* The rows in use from one row to another, and the k-th row in use.       *)
Between(from, to) == {r \in from .. to : clients[r] # NoPeer}
InUse(k) == CHOOSE r \in Between(1, TableSize) : Cardinality(Between(1, r)) = k

(* A socket is readable when bytes or the end of the stream are there.     *)
Readable(s) == inbox[s] # <<>> \/ peer[s] = "gone"

(* Descriptor 0 belongs to the program's standard input: the poll set      *)
(* leaves out a client that has it, the walk does not.                     *)
ServiceInit ==
  /\ clients = [r \in Rows |-> NoPeer] /\ backlog = <<>>
  /\ peer = [s \in Supervisors |-> "away"] /\ inbox = [s \in Supervisors |-> <<>>]
  /\ pfds = <<>> /\ sp = "top" /\ row = 1 /\ poll = 1
  /\ stopping = FALSE /\ connects = 0

-----------------------------------------------------------------------------
(* Supervisors.                                                            *)

PeerConnect(s) ==
  /\ ~Connected(s) /\ Len(backlog) < TableSize /\ sp \notin {"off", "killed"}
  /\ connects < MaxConnects /\ connects' = connects + 1
  /\ peer' = [peer EXCEPT ![s] = "on"] /\ inbox' = [inbox EXCEPT ![s] = <<>>]
  /\ backlog' = Append(backlog, s)
  /\ UNCHANGED <<clients, pfds, sp, row, poll, stopping>>

PeerAsk(s) ==
  /\ peer[s] = "on"
  /\ \/ /\ Len(inbox[s]) < MaxAsks /\ "part" \notin ToSet(inbox[s])
        /\ \E m \in Requests : inbox' = [inbox EXCEPT ![s] = Append(@, m)]
     \/ /\ inbox[s] # <<>> /\ Last(inbox[s]) = "part"
        /\ inbox' = [inbox EXCEPT ![s] = Append(Front(@), "get")]
  /\ UNCHANGED <<clients, backlog, peer, pfds, sp, row, poll, stopping, connects>>

PeerHangUp(s) ==
  /\ peer[s] = "on" /\ peer' = [peer EXCEPT ![s] = "gone"]
  /\ UNCHANGED <<clients, backlog, inbox, pfds, sp, row, poll, stopping, connects>>

ServiceTerminate ==                                      \* trap_ctx_terminate
  /\ ~stopping /\ stopping' = TRUE
  /\ UNCHANGED <<clients, backlog, peer, inbox, pfds, sp, row, poll, connects>>

-----------------------------------------------------------------------------
(* The thread.                                                             *)

Outside == UNCHANGED <<stopping, connects>>

(* The top of the loop, and the poll set it prepares.                      *)
PreparePoll ==
  /\ sp = "top"
  /\ IF stopping THEN sp' = "closing" /\ UNCHANGED pfds
     ELSE /\ sp' = "poll"
          /\ pfds' = [k \in 1 .. 1 + Cardinality(Between(1, TableSize)) |->
               [who |-> IF k = 1 THEN NoPeer ELSE clients[InUse(k - 1)], in |-> FALSE]]
  /\ UNCHANGED <<clients, backlog, peer, inbox, row, poll>> /\ Outside

(* ppoll: events of every descriptor, or a timeout, a signal, a failure.   *)
PollEvents ==
  /\ sp = "poll" /\ row' = 1 /\ poll' = 1
  /\ pfds' = [k \in DOMAIN pfds |-> [pfds[k] EXCEPT !.in =
                IF k = 1 THEN backlog # <<>> ELSE Readable(pfds[k].who)]]
  /\ sp' = IF \E k \in DOMAIN pfds : pfds'[k].in THEN "walk" ELSE "top"
  /\ UNCHANGED <<clients, backlog, peer, inbox>> /\ Outside

(* What the turn leaves behind is not used in the next one.                *)
TurnEnds == pfds' = <<>> /\ row' = 1 /\ poll' = 1

PollFails ==
  /\ sp = "poll" /\ sp' \in {"top", "closing"}           \* EINTR; other errors
  /\ TurnEnds /\ UNCHANGED <<clients, backlog, peer, inbox>> /\ Outside

WalkRowBug ==                                            \* j++ for ++j
  /\ sp = "walk" /\ row <= TableSize
  /\ poll' = IF clients[row] # NoPeer THEN poll + 1 ELSE poll
  /\ IF clients[row] # NoPeer /\ pfds[poll].in
       THEN sp' = "read" /\ UNCHANGED row
       ELSE row' = row + 1 /\ UNCHANGED sp
  /\ UNCHANGED <<clients, backlog, peer, inbox, pfds>> /\ Outside

(* One turn of the walk: j goes on with every row in use.                  *)
WalkRow ==
  /\ sp = "walk" /\ row <= TableSize
  /\ poll' = IF clients[row] # NoPeer THEN poll + 1 ELSE poll
  /\ IF clients[row] # NoPeer /\ pfds[poll'].in
       THEN sp' = "read" /\ UNCHANGED row
       ELSE row' = row + 1 /\ UNCHANGED sp
  /\ UNCHANGED <<clients, backlog, peer, inbox, pfds>> /\ Outside

WalkEndBug ==                                            \* accepts in quiet turns only
  /\ sp = "walk" /\ row > TableSize
  /\ sp' = IF \A k \in DOMAIN pfds : pfds[k].in <=> k = 1 THEN "accept" ELSE "top"
  /\ TurnEnds /\ UNCHANGED <<clients, backlog, peer, inbox>> /\ Outside

WalkEnd ==
  /\ sp = "walk" /\ row > TableSize
  /\ sp' = IF pfds[1].in THEN "accept" ELSE "top"
  /\ TurnEnds /\ UNCHANGED <<clients, backlog, peer, inbox>> /\ Outside

(* close(cl->sd); cl->sd = -1; continue.                                   *)
CloseRow ==
  /\ clients' = [clients EXCEPT ![row] = NoPeer]
  /\ peer' = [peer EXCEPT ![clients[row]] = "away"]
  /\ inbox' = [inbox EXCEPT ![clients[row]] = <<>>]
  /\ row' = row + 1 /\ sp' = "walk"

(* service_get_data of a header: part of one is waited for until the tries *)
(* are spent.                                                              *)
ReadRequest ==
  /\ sp = "read"
  /\ LET s == clients[row]
     IN  IF inbox[s] # <<>> /\ Head(inbox[s]) = "get"
           THEN /\ inbox' = [inbox EXCEPT ![s] = Tail(@)] /\ sp' = "reply"
                /\ UNCHANGED <<clients, peer, row>>
           ELSE CloseRow
  /\ UNCHANGED <<backlog, pfds, poll>> /\ Outside

(* encode_cnts_to_json and the two service_send_data.  A peer that does    *)
(* not read its reply in time is disconnected.                             *)
Reply ==
  /\ sp = "reply" /\ peer[clients[row]] # "gone"
  /\ row' = row + 1 /\ sp' = "walk"
  /\ UNCHANGED <<clients, peer, inbox, backlog, pfds, poll>> /\ Outside

ReplyFails ==
  /\ sp = "reply" /\ CloseRow
  /\ UNCHANGED <<backlog, pfds, poll>> /\ Outside

(* send() is called without MSG_NOSIGNAL: unless the module ignores the    *)
(* signal, a peer that has hung up ends the program.                       *)
ReplyKilled ==
  /\ sp = "reply" /\ peer[clients[row]] = "gone" /\ sp' = "killed"
  /\ UNCHANGED <<clients, peer, inbox, backlog, pfds, row, poll>> /\ Outside

(* One connection is accepted into the first free row, or closed.          *)
AcceptClient ==
  /\ sp = "accept" /\ sp' = "top"
  /\ LET s == Head(backlog)
         free == {r \in Rows : clients[r] = NoPeer}
     IN  IF free # {}
           THEN clients' = [clients EXCEPT ![Min(free)] = s] /\ UNCHANGED <<peer, inbox>>
           ELSE /\ peer' = [peer EXCEPT ![s] = "away"] /\ inbox' = [inbox EXCEPT ![s] = <<>>]
                /\ UNCHANGED clients
  /\ backlog' = Tail(backlog)
  /\ UNCHANGED <<pfds, row, poll>> /\ Outside

(* The rest of the clients are disconnected, the socket is closed.         *)
ServiceClose ==
  /\ sp = "closing" /\ sp' = "off"
  /\ clients' = [r \in Rows |-> NoPeer] /\ backlog' = <<>>
  /\ peer' = [s \in Supervisors |-> IF Connected(s) THEN "away" ELSE peer[s]]
  /\ inbox' = [s \in Supervisors |-> <<>>]
  /\ UNCHANGED <<pfds, row, poll>> /\ Outside

ServiceStep ==
  \/ PreparePoll \/ PollEvents \/ WalkRow \/ WalkEnd \/ ReadRequest
  \/ Reply \/ ReplyKilled \/ AcceptClient \/ ServiceClose

ServiceNext ==
  \/ \E s \in Supervisors : PeerConnect(s) \/ PeerAsk(s) \/ PeerHangUp(s)
  \/ ServiceTerminate \/ ServiceStep \/ PollFails \/ ReplyFails

(* The thread goes on, and not every poll is interrupted.                  *)
ServiceFair == WF_serviceVars(ServiceStep) /\ SF_serviceVars(PollEvents)
ServiceSpec == ServiceInit /\ [][ServiceNext]_serviceVars /\ ServiceFair

-----------------------------------------------------------------------------
(* A request of a client that stays is read: no row is passed over or      *)
(* starved while others come, ask and leave, and a connection waits in the *)
(* backlog only for its turn.                                              *)
Answered ==
  \A s \in Supervisors :
    (peer[s] = "on" /\ inbox[s] # <<>>) ~>
      \/ sp = "read" /\ clients[row] = s
      \/ peer[s] # "on" \/ sp \in {"off", "killed"}

(* The walk over the table and the poll set stay in step although clients  *)
(* leave during it: the thread reads from a client only if that client was *)
(* reported ready, and so it never waits for a request nobody has sent.    *)
Attended == sp = "read" => pfds[poll].who = clients[row] /\ Readable(clients[row])

-----------------------------------------------------------------------------
(* What makes it so, an inductive invariant (see ControlProofs).           *)

ServiceTypeOK ==
  /\ clients \in [Rows -> Supervisors \cup {NoPeer}] /\ backlog \in Seq(Supervisors)
  /\ peer \in [Supervisors -> {"away", "on", "gone"}]
  /\ inbox \in [Supervisors -> Seq(Requests)]
  /\ pfds \in Seq([who : Supervisors \cup {NoPeer}, in : BOOLEAN])
  /\ sp \in {"top", "poll", "walk", "read", "reply", "accept", "closing", "off", "killed"}
  /\ row \in Nat \ {0} /\ poll \in Nat

(* A peer has one connection: one row, or one place in the backlog.        *)
OnePlace ==
  /\ \A i, j \in Rows : clients[i] = clients[j] /\ i # j => clients[i] = NoPeer
  /\ \A i, j \in DOMAIN backlog : backlog[i] = backlog[j] => i = j
  /\ \A i \in DOMAIN backlog : \A r \in Rows : clients[r] # backlog[i]

(* From a row on, the walk finds the descriptor of every row in use where  *)
(* it will look for it: behind position p, one place for each row in use.  *)
(* One reported ready is: only the walk itself reads from it.              *)
InStep(from, p) ==
  \A r \in Between(from, TableSize) :
    LET k == p + Cardinality(Between(from, r))
    IN  /\ k \in DOMAIN pfds /\ pfds[k].who = clients[r]
        /\ pfds[k].in => Readable(clients[r])

Walking ==
  /\ sp = "poll" => InStep(1, 1)
  /\ sp = "walk" => InStep(row, poll)
  /\ sp \in {"read", "reply"} => row \in Rows /\ clients[row] # NoPeer /\ InStep(row + 1, poll)
  /\ sp \in {"poll", "walk", "read", "reply"} => 1 \in DOMAIN pfds
  /\ sp \in {"walk", "read", "reply"} /\ pfds[1].in => backlog # <<>>
  /\ sp = "accept" => backlog # <<>>

ServiceInv == ServiceTypeOK /\ OnePlace /\ Walking /\ Attended
=============================================================================
