------------------------------ MODULE Broadcast ------------------------------
(***************************************************************************)
(* What an output interface that waits for its clients promises: a log of  *)
(* batches of messages that every client reads in order, from the batch    *)
(* published after it joined, none left out and none twice; the publisher  *)
(* may be at most Window batches ahead of the slowest client.              *)
(***************************************************************************)
EXTENDS Integers, Sequences

CONSTANTS
  Clients,      \* those that may join
  Message,      \* what a batch is made of
  Window        \* batches the publisher may be ahead of a client

VARIABLES
  log,          \* the batches published so far
  joined,       \* the clients connected now
  pos,          \* batches each client is past, 0 when it is not connected
  rcvd          \* what each client has received over its connection

vars == <<log, joined, pos, rcvd>>

Init ==
  /\ log = <<>>
  /\ joined = {}
  /\ pos = [c \in Clients |-> 0]
  /\ rcvd = [c \in Clients |-> <<>>]

Publish ==
  /\ \A c \in joined : Len(log) - pos[c] < Window
  /\ Len(log') = Len(log) + 1
  /\ log' = Append(log, log'[Len(log) + 1])
  /\ log'[Len(log) + 1] \in Seq(Message)
  /\ UNCHANGED <<joined, pos, rcvd>>

Join(c) ==
  /\ c \notin joined
  /\ joined' = joined \cup {c}
  /\ pos' = [pos EXCEPT ![c] = Len(log)]
  /\ UNCHANGED <<log, rcvd>>

Deliver(c) ==
  /\ c \in joined /\ pos[c] < Len(log)
  /\ rcvd' = [rcvd EXCEPT ![c] = @ \o log[pos[c] + 1]]
  /\ pos' = [pos EXCEPT ![c] = @ + 1]
  /\ UNCHANGED <<log, joined>>

Leave(c) ==
  /\ c \in joined
  /\ joined' = joined \ {c}
  /\ pos' = [pos EXCEPT ![c] = 0]
  /\ rcvd' = [rcvd EXCEPT ![c] = <<>>]
  /\ UNCHANGED log

Next == Publish \/ \E c \in Clients : Join(c) \/ Deliver(c) \/ Leave(c)

Spec == Init /\ [][Next]_vars
=============================================================================
