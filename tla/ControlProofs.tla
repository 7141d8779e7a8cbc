---------------------------- MODULE ControlProofs ----------------------------
(***************************************************************************)
(* The service thread attends to a client that has something to read; the  *)
(* negotiation of data formats keeps its promises to a receiving module;   *)
(* nothing of a context is used or destroyed out of turn.                  *)
(***************************************************************************)
EXTENDS Formats, Service, Context, FiniteSetTheorems, SequenceTheorems, TLAPS

(* The rows in use from one on are that row, if it is in use, and those    *)
(* from the next one on.                                                   *)
LEMMA Counting ==
  ASSUME ServiceTypeOK, NEW a \in Nat \ {0}, NEW b \in Nat
  PROVE  /\ IsFiniteSet(Between(a, b)) /\ Cardinality(Between(a, b)) \in Nat
         /\ Cardinality(Between(a, a)) = IF clients[a] # NoPeer THEN 1 ELSE 0
         /\ a <= b => Cardinality(Between(a, b)) =
              IF clients[a] # NoPeer THEN 1 + Cardinality(Between(a + 1, b))
                                     ELSE Cardinality(Between(a + 1, b))
<1>1. \A c, d \in Nat : IsFiniteSet(Between(c, d)) /\ Cardinality(Between(c, d)) \in Nat
  <2> SUFFICES ASSUME NEW c \in Nat, NEW d \in Nat
               PROVE  IsFiniteSet(Between(c, d)) /\ Cardinality(Between(c, d)) \in Nat
    OBVIOUS
  <2>1. IsFiniteSet(c .. d)
    BY FS_Interval
  <2>2. Between(c, d) \in SUBSET (c .. d)
    BY DEF Between
  <2> QED
    BY <2>1, <2>2, FS_Subset, FS_CardinalityType
<1>2. Cardinality(Between(a, a)) = IF clients[a] # NoPeer THEN 1 ELSE 0
  <2>1. Between(a, a) = IF clients[a] # NoPeer THEN {a} ELSE {}
    BY DEF Between
  <2> QED
    BY <2>1, FS_EmptySet, FS_Singleton
<1>3. ASSUME a <= b
      PROVE  Cardinality(Between(a, b)) =
              IF clients[a] # NoPeer THEN 1 + Cardinality(Between(a + 1, b))
                                     ELSE Cardinality(Between(a + 1, b))
  <2>1. Between(a, b) = IF clients[a] # NoPeer THEN Between(a + 1, b) \cup {a}
                                               ELSE Between(a + 1, b)
    BY <1>3 DEF Between
  <2>2. a \notin Between(a + 1, b)
    BY DEF Between
  <2>3. IsFiniteSet(Between(a + 1, b)) /\ Cardinality(Between(a + 1, b)) \in Nat
    BY <1>1
  <2>4. Cardinality(Between(a + 1, b) \cup {a}) = Cardinality(Between(a + 1, b)) + 1
    BY <2>2, <2>3, FS_AddElement
  <2> QED
    BY <2>1, <2>3, <2>4
<1> QED
  BY <1>1, <1>2, <1>3

(* Two rows in use are not as far down the table as each other.            *)
LEMMA CountsDiffer ==
  ASSUME ServiceTypeOK, NEW r \in Between(1, TableSize), NEW q \in Between(1, TableSize),
         Cardinality(Between(1, r)) = Cardinality(Between(1, q))
  PROVE  r = q
<1>1. ASSUME NEW i \in Between(1, TableSize), NEW j \in Between(1, TableSize), i <= j,
             Cardinality(Between(1, i)) = Cardinality(Between(1, j))
      PROVE  i = j
  <2>1. i \in Nat \ {0} /\ j \in Nat \ {0}
    BY DEF Between
  <2>2. Between(1, i) \in SUBSET Between(1, j)
    BY <1>1, <2>1 DEF Between
  <2>3. IsFiniteSet(Between(1, j))
    BY <2>1, Counting
  <2>4. Between(1, i) = Between(1, j)
    BY <1>1, <2>2, <2>3, FS_Subset
  <2>5. j \in Between(1, j)
    BY <2>1 DEF Between
  <2>6. j <= i
    BY <2>4, <2>5 DEF Between
  <2> QED
    BY <1>1, <2>1, <2>6
<1>2. r \in Int /\ q \in Int
  BY DEF Between
<1> QED
  BY <1>1, <1>2

(* The poll set has a place for every row in use, the first after the      *)
(* listening socket's, in the order of the table.                          *)
LEMMA Prepared ==
  ASSUME ServiceTypeOK, PreparePoll, ~stopping
  PROVE  /\ pfds' \in Seq([who : Supervisors \cup {NoPeer}, in : BOOLEAN])
         /\ InStep(1, 1)' /\ 1 \in DOMAIN pfds'
<1> DEFINE n == Cardinality(Between(1, TableSize))
           p == [k \in 1 .. 1 + n |->
                  [who |-> IF k = 1 THEN NoPeer ELSE clients[InUse(k - 1)], in |-> FALSE]]
<1>1. pfds' = p /\ clients' = clients
  BY DEF PreparePoll
<1>2. IsFiniteSet(Between(1, TableSize)) /\ n \in Nat
  BY Counting, ServiceAssumption
<1>3. ASSUME NEW r \in Between(1, TableSize)
      PROVE  /\ 1 + Cardinality(Between(1, r)) \in 2 .. 1 + n
             /\ InUse(Cardinality(Between(1, r))) = r
  <2>1. r \in Nat \ {0} /\ r <= TableSize
    BY ServiceAssumption DEF Between
  <2>2. IsFiniteSet(Between(1, r)) /\ Cardinality(Between(1, r)) \in Nat
    BY <2>1, Counting
  <2>3. Between(1, r) \in SUBSET Between(1, TableSize)
    BY <2>1, ServiceAssumption DEF Between
  <2>4. Cardinality(Between(1, r)) <= n
    BY <1>2, <2>3, FS_Subset
  <2>5. r \in Between(1, r)
    BY <2>1 DEF Between
  <2>6. Cardinality(Between(1, r)) # 0
    BY <2>2, <2>5, FS_EmptySet
  <2>7. 1 + Cardinality(Between(1, r)) \in 2 .. 1 + n
    <3> HIDE DEF n
    <3> QED
      BY <1>2, <2>2, <2>4, <2>6
  <2>8. \A q \in Between(1, TableSize) :
          Cardinality(Between(1, q)) = Cardinality(Between(1, r)) => q = r
    BY CountsDiffer
  <2>9. InUse(Cardinality(Between(1, r))) = r
    BY <2>8 DEF InUse
  <2> QED
    BY <2>7, <2>9
<1>4. ASSUME NEW k \in 2 .. 1 + n
      PROVE  clients[InUse(k - 1)] \in Supervisors \cup {NoPeer}
  <2> DEFINE place == [r \in Between(1, TableSize) |-> Cardinality(Between(1, r))]
  <2>1. \A r \in Between(1, TableSize) : Cardinality(Between(1, r)) \in 1 .. n
    <3> HIDE DEF n
    <3> SUFFICES ASSUME NEW r \in Between(1, TableSize)
                 PROVE  Cardinality(Between(1, r)) \in 1 .. n
      OBVIOUS
    <3>1. r \in Nat
      BY DEF Between
    <3>2. Cardinality(Between(1, r)) \in Nat
      BY <3>1, Counting
    <3> QED
      BY <1>2, <1>3, <3>2
  <2>2. place \in Injection(Between(1, TableSize), 1 .. n)
    BY <2>1, CountsDiffer DEF Injection, IsInjective
  <2>3. IsFiniteSet(1 .. n) /\ Cardinality(1 .. n) = n
    <3> HIDE DEF n
    <3> QED
      BY <1>2, FS_Interval
  <2>4. place \in Surjection(Between(1, TableSize), 1 .. n)
    <3> HIDE DEF place
    <3> QED
      BY <2>2, <2>3, FS_Injection
  <2>5. k - 1 \in 1 .. n
    <3> HIDE DEF n
    <3> QED
      BY <1>2
  <2>6. PICK r \in Between(1, TableSize) : Cardinality(Between(1, r)) = k - 1
    BY <2>4, <2>5 DEF Surjection
  <2>7. InUse(k - 1) = r
    BY <1>3, <2>6
  <2>8. r \in Rows
    BY DEF Between, Rows
  <2> QED
    BY <2>7, <2>8 DEF ServiceTypeOK
<1>5. p \in Seq([who : Supervisors \cup {NoPeer}, in : BOOLEAN])
  <2>1. \A k \in 1 .. 1 + n : p[k] \in [who : Supervisors \cup {NoPeer}, in : BOOLEAN]
    <3> HIDE DEF n
    <3> QED
      BY <1>2, <1>4
  <2>2. 1 + n \in Nat
    <3> HIDE DEF n
    <3> QED
      BY <1>2
  <2>3. DOMAIN p = 1 .. 1 + n /\ p = [k \in 1 .. 1 + n |-> p[k]]
    OBVIOUS
  <2>4. p \in [1 .. 1 + n -> [who : Supervisors \cup {NoPeer}, in : BOOLEAN]]
    <3> HIDE DEF p, n
    <3> QED
      BY <2>1, <2>3
  <2> HIDE DEF p, n
  <2> QED
    BY <2>2, <2>4, SeqDef
<1>6. Between(1, TableSize)' = Between(1, TableSize)
      /\ \A r : Between(1, r)' = Between(1, r)
  BY <1>1 DEF Between
<1>7. \A r \in Between(1, TableSize) :
        LET k == 1 + Cardinality(Between(1, r))
        IN  k \in DOMAIN p /\ p[k].who = clients[r] /\ p[k].in = FALSE
  <2> SUFFICES ASSUME NEW r \in Between(1, TableSize)
               PROVE  LET k == 1 + Cardinality(Between(1, r))
                      IN  k \in DOMAIN p /\ p[k].who = clients[r] /\ p[k].in = FALSE
    OBVIOUS
  <2> DEFINE k == 1 + Cardinality(Between(1, r))
  <2>1. k \in 2 .. 1 + n /\ InUse(Cardinality(Between(1, r))) = r
    BY <1>3
  <2>2. r \in Nat
    BY DEF Between
  <2>3. Cardinality(Between(1, r)) \in Nat
    BY <2>2, Counting
  <2>4. k - 1 = Cardinality(Between(1, r)) /\ k # 1
    <3> HIDE DEF n
    <3> QED
      BY <1>2, <2>1, <2>3
  <2>5. k \in 1 .. 1 + n
    <3> HIDE DEF n, k
    <3> QED
      BY <1>2, <2>1
  <2>6. p[k] = [who |-> clients[r], in |-> FALSE]
    <3> HIDE DEF n, k
    <3> QED
      BY <2>1, <2>4, <2>5
  <2> HIDE DEF k, n
  <2> QED
    BY <2>5, <2>6 DEF k
<1>8. 1 \in DOMAIN p
  <2> HIDE DEF n
  <2> QED
    BY <1>2
<1>9. InStep(1, 1)'
  <2> HIDE DEF p
  <2> QED
    BY <1>1, <1>6, <1>7 DEF InStep
<1> QED
  BY <1>1, <1>5, <1>8, <1>9

(* The walk stays in step while the rows ahead of it and the poll set stay *)
(* and no socket ahead becomes unreadable.                                 *)
LEMMA StayInStep ==
  ASSUME NEW from \in Nat, NEW p, InStep(from, p), pfds' = pfds,
         \A r \in from .. TableSize :
           /\ clients[r]' = clients[r]
           /\ clients[r] # NoPeer /\ Readable(clients[r]) => Readable(clients[r])'
  PROVE  InStep(from, p)'
<1>1. \A r \in from .. TableSize : Between(from, r)' = Between(from, r)
  BY ServiceAssumption DEF Between
<1>2. Between(from, TableSize)' = Between(from, TableSize)
  BY ServiceAssumption DEF Between
<1> SUFFICES ASSUME NEW r \in Between(from, TableSize)
             PROVE  LET k == p + Cardinality(Between(from, r))
                    IN  /\ k \in DOMAIN pfds' /\ pfds'[k].who = clients[r]'
                        /\ pfds'[k].in => Readable(clients[r])'
  BY <1>1, <1>2 DEF InStep, Between
<1>3. r \in from .. TableSize /\ clients[r] # NoPeer
  BY DEF Between
<1> QED
  BY <1>3 DEF InStep

-----------------------------------------------------------------------------
(* The supervisors and the program: the thread is where it was, and the    *)
(* table as it was.                                                        *)
LEMMA OthersStep ==
  ASSUME ServiceInv, UNCHANGED <<clients, pfds, sp, row, poll>>,
         ServiceTypeOK', OnePlace', backlog # <<>> => backlog' # <<>>,
         \A r \in Rows : clients[r] # NoPeer /\ Readable(clients[r]) => Readable(clients[r])'
  PROVE  ServiceInv'
<1>1. row \in Nat \ {0}
  BY DEF ServiceInv, ServiceTypeOK
<1>2. \A n \in Nat \ {0} : n .. TableSize \subseteq Rows
  BY ServiceAssumption DEF Rows
<1>3. \A n \in Nat \ {0} : \A p : InStep(n, p) => InStep(n, p)'
  BY <1>2, StayInStep
<1>4. Walking'
  BY <1>1, <1>3 DEF ServiceInv, Walking
<1>5. Attended'
  BY DEF ServiceInv, Attended, Walking, Readable
<1> QED
  BY <1>4, <1>5 DEF ServiceInv

(* A peer that connects is in no row and nowhere else in the backlog.      *)
LEMMA ConnectStep ==
  ASSUME ServiceInv, NEW s \in Supervisors, PeerConnect(s)
  PROVE  ServiceInv'
<1> USE DEF PeerConnect
<1>1. ServiceTypeOK'
  <2>1. backlog' \in Seq(Supervisors)
    BY AppendProperties DEF ServiceInv, ServiceTypeOK
  <2>2. peer' \in [Supervisors -> {"away", "on", "gone"}]
    BY DEF ServiceInv, ServiceTypeOK
  <2>3. inbox' \in [Supervisors -> Seq(Requests)]
    BY DEF ServiceInv, ServiceTypeOK
  <2> QED
    BY <2>1, <2>2, <2>3 DEF ServiceInv, ServiceTypeOK, Rows
<1>2. /\ Len(backlog') = Len(backlog) + 1 /\ backlog'[Len(backlog) + 1] = s
      /\ \A i \in DOMAIN backlog : backlog'[i] = backlog[i]
      /\ DOMAIN backlog' = DOMAIN backlog \cup {Len(backlog) + 1}
  BY AppendProperties DEF ServiceInv, ServiceTypeOK
<1>3. (\A i \in DOMAIN backlog : backlog[i] # s) /\ (\A r \in Rows : clients[r] # s)
  BY DEF Connected, ToSet
<1>4. OnePlace'
  BY <1>2, <1>3 DEF ServiceInv, OnePlace, Rows
<1>5. backlog' # <<>>
  BY <1>2 DEF ServiceInv, ServiceTypeOK
<1>6. \A r \in Rows : clients[r] # NoPeer /\ Readable(clients[r]) => Readable(clients[r])'
  BY <1>3 DEF Readable, ServiceInv, ServiceTypeOK
<1> QED
  BY <1>1, <1>4, <1>5, <1>6, OthersStep

(* What a peer sends only makes its socket readable.                       *)
LEMMA AskStep ==
  ASSUME ServiceInv, NEW s \in Supervisors, PeerAsk(s)
  PROVE  ServiceInv'
<1> USE DEF PeerAsk
<1>1. inbox[s] \in Seq(Requests)
  BY DEF ServiceInv, ServiceTypeOK
<1>2. PICK q \in Seq(Requests) : q # <<>> /\ inbox' = [inbox EXCEPT ![s] = q]
  <2>1. CASE \E m \in Requests : inbox' = [inbox EXCEPT ![s] = Append(@, m)]
    <3>1. PICK m \in Requests : inbox' = [inbox EXCEPT ![s] = Append(inbox[s], m)]
      BY <2>1
    <3>2. Append(inbox[s], m) \in Seq(Requests) /\ Append(inbox[s], m) # <<>>
      BY <1>1, AppendProperties
    <3> QED
      BY <3>1, <3>2, Zenon
  <2>2. CASE inbox[s] # <<>> /\ inbox' = [inbox EXCEPT ![s] = Append(Front(@), "get")]
    <3>1. Front(inbox[s]) \in Seq(Requests)
      BY <1>1, <2>2, SubSeqProperties, LenProperties DEF Front
    <3>2. /\ Append(Front(inbox[s]), "get") \in Seq(Requests)
          /\ Append(Front(inbox[s]), "get") # <<>>
      BY <3>1, AppendProperties DEF Requests
    <3>3. inbox' = [inbox EXCEPT ![s] = Append(Front(inbox[s]), "get")]
      BY <2>2
    <3> QED
      BY <3>2, <3>3, Zenon
  <2> QED
    BY <2>1, <2>2
<1>3. ServiceTypeOK'
  BY <1>2 DEF ServiceInv, ServiceTypeOK, Rows
<1>4. OnePlace'
  BY DEF ServiceInv, OnePlace, Rows
<1>5. \A r \in Rows : clients[r] # NoPeer /\ Readable(clients[r]) => Readable(clients[r])'
  BY <1>2 DEF Readable, ServiceInv, ServiceTypeOK
<1> QED
  BY <1>3, <1>4, <1>5, OthersStep

(* So does its hanging up.                                                 *)
LEMMA HangUpStep ==
  ASSUME ServiceInv, NEW s \in Supervisors, PeerHangUp(s)
  PROVE  ServiceInv'
<1> USE DEF PeerHangUp
<1>1. ServiceTypeOK'
  BY DEF ServiceInv, ServiceTypeOK, Rows
<1>2. OnePlace'
  BY DEF ServiceInv, OnePlace, Rows
<1>3. \A r \in Rows : clients[r] # NoPeer /\ Readable(clients[r]) => Readable(clients[r])'
  BY DEF Readable, ServiceInv, ServiceTypeOK
<1> QED
  BY <1>1, <1>2, <1>3, OthersStep

(* The program stops the thread, or nothing happens.                       *)
LEMMA TerminateStep ==
  ASSUME ServiceInv, ServiceTerminate \/ UNCHANGED serviceVars
  PROVE  ServiceInv'
<1>1. UNCHANGED <<clients, backlog, peer, inbox, pfds, sp, row, poll>>
  BY DEF ServiceTerminate, serviceVars
<1>2. ServiceTypeOK'
  BY <1>1 DEF ServiceInv, ServiceTypeOK, Rows
<1>3. OnePlace'
  BY <1>1 DEF ServiceInv, OnePlace, Rows
<1>4. \A r \in Rows : clients[r] # NoPeer /\ Readable(clients[r]) => Readable(clients[r])'
  BY <1>1 DEF Readable
<1> QED
  BY <1>1, <1>2, <1>3, <1>4, OthersStep

-----------------------------------------------------------------------------
(* The thread.                                                             *)

(* A new turn: see Prepared.                                               *)
LEMMA PrepareStep ==
  ASSUME ServiceInv, PreparePoll
  PROVE  ServiceInv'
<1> USE DEF PreparePoll
<1>1. OnePlace'
  BY DEF ServiceInv, OnePlace, Rows
<1>2. CASE stopping
  <2>1. ServiceTypeOK'
    BY <1>2 DEF ServiceInv, ServiceTypeOK, Rows
  <2>2. Walking' /\ Attended'
    BY <1>2 DEF Walking, Attended
  <2> QED
    BY <1>1, <2>1, <2>2 DEF ServiceInv
<1>3. CASE ~stopping
  <2>1. /\ pfds' \in Seq([who : Supervisors \cup {NoPeer}, in : BOOLEAN])
        /\ InStep(1, 1)' /\ 1 \in DOMAIN pfds'
    BY <1>3, Prepared DEF ServiceInv
  <2>2. sp' = "poll"
    BY <1>3
  <2>3. ServiceTypeOK'
    BY <2>1, <2>2 DEF ServiceInv, ServiceTypeOK, Rows
  <2>4. Walking' /\ Attended'
    BY <2>1, <2>2 DEF Walking, Attended
  <2> QED
    BY <1>1, <2>3, <2>4 DEF ServiceInv
<1> QED
  BY <1>2, <1>3

(* What is reported ready is readable, and the backlog is not empty.       *)
LEMMA PollStep ==
  ASSUME ServiceInv, PollEvents
  PROVE  ServiceInv'
<1> USE DEF PollEvents
<1>1. OnePlace'
  BY DEF ServiceInv, OnePlace, Rows
<1> DEFINE ready(k) == IF k = 1 THEN backlog # <<>> ELSE Readable(pfds[k].who)
<1>2. \A k \in DOMAIN pfds : pfds[k] \in [who : Supervisors \cup {NoPeer}, in : BOOLEAN]
  <2>1. pfds \in Seq([who : Supervisors \cup {NoPeer}, in : BOOLEAN])
    BY DEF ServiceInv, ServiceTypeOK
  <2> QED
    BY <2>1, ElementOfSeq, LenProperties
<1>3. /\ DOMAIN pfds' = DOMAIN pfds
      /\ \A k \in DOMAIN pfds : pfds'[k] = [who |-> pfds[k].who, in |-> ready(k)]
  <2>1. /\ DOMAIN pfds' = DOMAIN pfds
        /\ \A k \in DOMAIN pfds : pfds'[k] = [pfds[k] EXCEPT !.in = ready(k)]
    BY Zenon
  <2> HIDE DEF ready
  <2> QED
    BY <1>2, <2>1
<1>4. pfds' \in Seq([who : Supervisors \cup {NoPeer}, in : BOOLEAN])
  <2>1. \A k \in DOMAIN pfds : ready(k) \in BOOLEAN
    BY DEF Readable
  <2>2. \A k \in DOMAIN pfds : pfds[k].who \in Supervisors \cup {NoPeer}
    BY <1>2
  <2> HIDE DEF ready
  <2>3. ASSUME NEW k \in DOMAIN pfds
        PROVE  pfds'[k] \in [who : Supervisors \cup {NoPeer}, in : BOOLEAN]
    <3>1. pfds'[k] = [who |-> pfds[k].who, in |-> ready(k)]
      BY <1>3
    <3> QED
      BY <2>1, <2>2, <3>1
  <2>4. DOMAIN pfds = 1 .. Len(pfds) /\ Len(pfds) \in Nat
    BY DEF ServiceInv, ServiceTypeOK
  <2>5. pfds' = [k \in 1 .. Len(pfds) |-> pfds'[k]]
    BY <2>4
  <2>6. pfds' \in [1 .. Len(pfds) -> [who : Supervisors \cup {NoPeer}, in : BOOLEAN]]
    BY <2>3, <2>4, <2>5
  <2> QED
    BY <2>4, <2>6, SeqDef
<1>5. sp' \in {"walk", "top"} /\ row' = 1 /\ poll' = 1
  OBVIOUS
<1>6. ServiceTypeOK'
  BY <1>4, <1>5 DEF ServiceInv, ServiceTypeOK, Rows
<1>7. InStep(1, 1) /\ 1 \in DOMAIN pfds
  BY DEF ServiceInv, Walking
<1>8. InStep(1, 1)'
  <2>1. \A r \in Nat : Between(1, r)' = Between(1, r)
    BY DEF Between
  <2> SUFFICES ASSUME NEW r \in Between(1, TableSize)
               PROVE  LET k == 1 + Cardinality(Between(1, r))
                      IN  /\ k \in DOMAIN pfds' /\ pfds'[k].who = clients[r]
                          /\ pfds'[k].in => Readable(clients[r])'
    BY <2>1, ServiceAssumption DEF InStep, Between
  <2> DEFINE k == 1 + Cardinality(Between(1, r))
  <2>2. k \in DOMAIN pfds /\ pfds[k].who = clients[r]
    BY <1>7 DEF InStep
  <2>3. r \in Nat \ {0} /\ r \in Between(1, r)
    BY DEF Between
  <2>4. IsFiniteSet(Between(1, r)) /\ Cardinality(Between(1, r)) \in Nat
    <3>1. ServiceTypeOK
      BY DEF ServiceInv
    <3> QED
      BY <2>3, <3>1, Counting
  <2>5. k # 1
    BY <2>3, <2>4, FS_EmptySet
  <2>6. pfds'[k] = [who |-> clients[r], in |-> Readable(clients[r])]
    <3> HIDE DEF k
    <3> QED
      BY <1>3, <2>2, <2>5
  <2>7. k \in DOMAIN pfds'
    BY <1>3, <2>2
  <2>8. Readable(clients[r])' = Readable(clients[r])
    BY DEF Readable
  <2> HIDE DEF k
  <2> QED
    BY <2>6, <2>7, <2>8 DEF k
<1>9. 1 \in DOMAIN pfds' /\ (pfds'[1].in => backlog' # <<>>)
  BY <1>3, <1>7
<1>10. Walking' /\ Attended'
  BY <1>5, <1>8, <1>9 DEF Walking, Attended
<1> QED
  BY <1>1, <1>6, <1>10 DEF ServiceInv

(* A turn that fails leaves nothing behind.                                *)
LEMMA FailStep ==
  ASSUME ServiceInv, PollFails
  PROVE  ServiceInv'
<1> USE DEF PollFails, TurnEnds
<1>1. pfds' \in Seq([who : Supervisors \cup {NoPeer}, in : BOOLEAN])
  OBVIOUS
<1>2. ServiceTypeOK'
  BY <1>1 DEF ServiceInv, ServiceTypeOK, Rows
<1>3. OnePlace' /\ Walking' /\ Attended'
  BY DEF ServiceInv, OnePlace, Rows, Walking, Attended
<1> QED
  BY <1>2, <1>3 DEF ServiceInv

(* One row further, both walks go on together.                             *)
LEMMA WalkStep ==
  ASSUME ServiceInv, WalkRow
  PROVE  ServiceInv'
<1> USE DEF WalkRow
<1>1. OnePlace'
  BY DEF ServiceInv, OnePlace, Rows
<1>2. ServiceTypeOK /\ row \in Nat \ {0} /\ row <= TableSize /\ TableSize \in Nat /\ poll \in Nat
  BY ServiceAssumption DEF ServiceInv, ServiceTypeOK
<1>3. poll' \in Nat /\ row' \in Nat \ {0} /\ sp' \in {"walk", "read"}
  BY <1>2
<1>4. ServiceTypeOK'
  BY <1>3 DEF ServiceInv, ServiceTypeOK, Rows
<1>5. InStep(row, poll)
  BY DEF ServiceInv, Walking
<1>6. \A n \in Nat \ {0} : n .. TableSize \subseteq Rows
  BY <1>2 DEF Rows
<1> PICK n \in Nat, p \in Nat : n = row + 1 /\ p = poll'
  BY <1>2, <1>3
<1>7. InStep(n, p)
  <2> SUFFICES ASSUME NEW r \in Between(n, TableSize)
               PROVE  LET k == p + Cardinality(Between(n, r))
                      IN  /\ k \in DOMAIN pfds /\ pfds[k].who = clients[r]
                          /\ pfds[k].in => Readable(clients[r])
    BY DEF InStep
  <2>1. r \in Between(row, TableSize) /\ r \in Nat /\ row <= r
    BY <1>2 DEF Between
  <2>2. Cardinality(Between(row, r)) =
          IF clients[row] # NoPeer THEN 1 + Cardinality(Between(n, r))
                                   ELSE Cardinality(Between(n, r))
    BY <1>2, <2>1, Counting
  <2>3. Cardinality(Between(n, r)) \in Nat
    BY <1>2, <2>1, Counting
  <2>4. p + Cardinality(Between(n, r)) = poll + Cardinality(Between(row, r))
    BY <1>2, <2>2, <2>3
  <2> QED
    BY <1>5, <2>1, <2>4 DEF InStep
<1>8. InStep(n, p)'
  <2>1. \A r : clients[r]' = clients[r]
               /\ (clients[r] # NoPeer /\ Readable(clients[r]) => Readable(clients[r])')
    BY DEF Readable
  <2> QED
    BY <1>7, <2>1, StayInStep
<1>9. 1 \in DOMAIN pfds' /\ (pfds'[1].in => backlog' # <<>>)
  BY DEF ServiceInv, Walking
<1>10. CASE clients[row] # NoPeer /\ pfds[poll'].in
  <2>1. row \in Between(row, TableSize) /\ row \in Between(1, TableSize)
    BY <1>2, <1>10 DEF Between
  <2>2. Cardinality(Between(row, row)) = 1
    BY <1>2, <1>10, Counting
  <2>3. poll' = poll + Cardinality(Between(row, row))
    BY <1>10, <2>2
  <2>4. pfds[poll'].who = clients[row] /\ Readable(clients[row])
    BY <1>5, <1>10, <2>1, <2>3 DEF InStep
  <2>5. sp' = "read" /\ row' = row
    BY <1>10
  <2>6. Attended'
    BY <2>4, <2>5 DEF Attended, Readable
  <2>7. row' \in Rows /\ clients'[row'] # NoPeer
    BY <1>2, <1>10, <2>5 DEF Rows
  <2>8. InStep(row + 1, poll)'
    BY <1>8, <2>5
  <2>9. Walking'
    BY <1>9, <2>5, <2>7, <2>8 DEF Walking
  <2> QED
    BY <1>1, <1>4, <2>6, <2>9 DEF ServiceInv
<1>11. CASE ~(clients[row] # NoPeer /\ pfds[poll'].in)
  <2>1. row' = row + 1 /\ sp' = "walk"
    BY <1>11
  <2>2. InStep(row, poll)'
    BY <1>8, <2>1
  <2>3. Walking' /\ Attended'
    BY <1>9, <2>1, <2>2 DEF Walking, Attended
  <2> QED
    BY <1>1, <1>4, <2>3 DEF ServiceInv
<1> QED
  BY <1>10, <1>11

(* The walk is over.                                                       *)
LEMMA WalkEndStep ==
  ASSUME ServiceInv, WalkEnd
  PROVE  ServiceInv'
<1> USE DEF WalkEnd, TurnEnds
<1>1. pfds' \in Seq([who : Supervisors \cup {NoPeer}, in : BOOLEAN])
  OBVIOUS
<1>2. ServiceTypeOK'
  BY <1>1 DEF ServiceInv, ServiceTypeOK, Rows
<1>3. OnePlace' /\ Attended'
  BY DEF ServiceInv, OnePlace, Rows, Attended
<1>4. Walking'
  BY DEF ServiceInv, Walking
<1> QED
  BY <1>2, <1>3, <1>4 DEF ServiceInv

(* The thread goes on to the next row from one it has read from, whose     *)
(* client may have lost its place, and whose inbox may be shorter.         *)
LEMMA RowDone ==
  ASSUME ServiceInv, sp \in {"read", "reply"}, sp' = "walk", row' = row + 1,
         UNCHANGED <<backlog, pfds, poll>>, ServiceTypeOK', OnePlace',
         \A r \in Rows \ {row} : clients'[r] = clients[r],
         \A s \in Supervisors \ {clients[row]} : peer'[s] = peer[s] /\ inbox'[s] = inbox[s]
  PROVE  ServiceInv'
<1>1. /\ row \in Rows /\ row \in Nat \ {0} /\ clients[row] # NoPeer
      /\ InStep(row + 1, poll) /\ TableSize \in Nat
      /\ 1 \in DOMAIN pfds /\ (pfds[1].in => backlog # <<>>)
  BY ServiceAssumption DEF ServiceInv, ServiceTypeOK, Walking
<1> PICK n, p : n \in Nat /\ n = row + 1 /\ p = poll
  BY <1>1
<1>2. ASSUME NEW r \in n .. TableSize
      PROVE  /\ clients[r]' = clients[r]
             /\ clients[r] # NoPeer /\ Readable(clients[r]) => Readable(clients[r])'
  <2>1. r \in Rows \ {row}
    BY <1>1 DEF Rows
  <2>2. clients[r] # NoPeer => clients[r] \in Supervisors \ {clients[row]}
    BY <1>1, <2>1 DEF ServiceInv, OnePlace, ServiceTypeOK
  <2> QED
    BY <2>1, <2>2 DEF Readable
<1>3. InStep(n, p)
  BY <1>1
<1>4. InStep(n, p)'
  BY <1>2, <1>3, StayInStep
<1>5. InStep(row, poll)'
  BY <1>4
<1> QED
  BY <1>1, <1>5 DEF ServiceInv, Walking, Attended

(* The client of the row is disconnected.                                  *)
LEMMA CloseRowStep ==
  ASSUME ServiceInv, sp \in {"read", "reply"}, CloseRow, UNCHANGED <<backlog, pfds, poll>>
  PROVE  ServiceInv'
<1> USE DEF CloseRow
<1>1. row \in Rows /\ clients[row] \in Supervisors /\ ServiceTypeOK
  BY DEF ServiceInv, ServiceTypeOK, Walking
<1>2. ServiceTypeOK'
  <2>1. clients' \in [Rows -> Supervisors \cup {NoPeer}]
    BY <1>1 DEF ServiceTypeOK
  <2>2. peer' \in [Supervisors -> {"away", "on", "gone"}]
    BY <1>1 DEF ServiceTypeOK
  <2>3. <<>> \in Seq(Requests)
    OBVIOUS
  <2>4. inbox' \in [Supervisors -> Seq(Requests)]
    BY <1>1, <2>3 DEF ServiceTypeOK
  <2> QED
    BY <1>1, <2>1, <2>2, <2>4 DEF ServiceTypeOK, Rows
<1>3. clients' = [clients EXCEPT ![row] = NoPeer]
  OBVIOUS
<1>4. OnePlace'
  <2>1. \A r \in Rows : clients'[r] = IF r = row THEN NoPeer ELSE clients[r]
    BY <1>1, <1>3 DEF ServiceTypeOK
  <2>2. \A i \in DOMAIN backlog : backlog[i] # NoPeer
    BY <1>1, ElementOfSeq, LenProperties, ServiceAssumption DEF ServiceTypeOK
  <2> QED
    BY <2>1, <2>2 DEF ServiceInv, OnePlace, Rows
<1>5. /\ \A r \in Rows \ {row} : clients'[r] = clients[r]
      /\ \A s \in Supervisors \ {clients[row]} : peer'[s] = peer[s] /\ inbox'[s] = inbox[s]
  BY <1>1 DEF ServiceTypeOK
<1> QED
  BY <1>2, <1>4, <1>5, RowDone

(* A request is read, or its client disconnected.                          *)
LEMMA ReadStep ==
  ASSUME ServiceInv, ReadRequest
  PROVE  ServiceInv'
<1> DEFINE s == clients[row]
<1>1. row \in Rows /\ s \in Supervisors /\ ServiceTypeOK
  BY DEF ReadRequest, ServiceInv, ServiceTypeOK, Walking
<1>2. CASE inbox[s] # <<>> /\ Head(inbox[s]) = "get"
  <2>1. /\ sp = "read" /\ sp' = "reply" /\ inbox' = [inbox EXCEPT ![s] = Tail(inbox[s])]
        /\ UNCHANGED <<clients, backlog, peer, pfds, row, poll>>
    BY <1>2 DEF ReadRequest
  <2>2. Tail(inbox[s]) \in Seq(Requests)
    BY <1>1, <1>2, HeadTailProperties DEF ServiceTypeOK
  <2>3. inbox' \in [Supervisors -> Seq(Requests)]
    BY <1>1, <2>1, <2>2 DEF ServiceTypeOK
  <2>4. ServiceTypeOK'
    BY <1>1, <2>1, <2>3 DEF ServiceTypeOK, Rows
  <2>5. OnePlace'
    BY <2>1 DEF ServiceInv, OnePlace, Rows
  <2> PICK n, p : n \in Nat /\ n = row + 1 /\ p = poll
    BY <1>1 DEF ServiceTypeOK
  <2>6. ASSUME NEW r \in n .. TableSize
        PROVE  /\ clients[r]' = clients[r]
               /\ clients[r] # NoPeer /\ Readable(clients[r]) => Readable(clients[r])'
    <3>1. r \in Rows \ {row}
      BY <1>1, ServiceAssumption DEF Rows
    <3>2. clients[r] # NoPeer => clients[r] \in Supervisors \ {clients[row]}
      BY <1>1, <3>1 DEF ServiceInv, OnePlace, ServiceTypeOK
    <3>3. \A c \in Supervisors \ {clients[row]} : inbox'[c] = inbox[c]
      BY <1>1, <2>1 DEF ServiceTypeOK
    <3> QED
      BY <2>1, <3>2, <3>3 DEF Readable
  <2>7. InStep(n, p)
    BY <2>1 DEF ServiceInv, Walking
  <2>8. InStep(n, p)'
    BY <2>1, <2>6, <2>7, StayInStep
  <2>9. InStep(row + 1, poll)'
    BY <2>1, <2>8
  <2> QED
    BY <2>1, <2>4, <2>5, <2>9 DEF ServiceInv, Walking, Attended, Rows
<1>3. CASE ~(inbox[s] # <<>> /\ Head(inbox[s]) = "get")
  <2>1. sp = "read" /\ CloseRow /\ UNCHANGED <<backlog, pfds, poll>>
    BY <1>3 DEF ReadRequest
  <2> QED
    BY <2>1, CloseRowStep
<1> QED
  BY <1>2, <1>3

(* The reply is sent, or not.                                              *)
LEMMA ReplyStep ==
  ASSUME ServiceInv, Reply \/ ReplyFails \/ ReplyKilled
  PROVE  ServiceInv'
<1>1. CASE Reply
  <2> USE <1>1 DEF Reply
  <2>1. ServiceTypeOK'
    BY DEF ServiceInv, ServiceTypeOK, Rows
  <2>2. OnePlace'
    BY DEF ServiceInv, OnePlace, Rows
  <2> QED
    BY <2>1, <2>2, RowDone
<1>2. CASE ReplyFails
  <2>1. sp = "reply" /\ CloseRow /\ UNCHANGED <<backlog, pfds, poll>>
    BY <1>2 DEF ReplyFails
  <2> QED
    BY <2>1, CloseRowStep
<1>3. CASE ReplyKilled
  <2> USE <1>3 DEF ReplyKilled
  <2>1. ServiceTypeOK'
    BY DEF ServiceInv, ServiceTypeOK, Rows
  <2>2. OnePlace' /\ Walking' /\ Attended'
    BY DEF ServiceInv, OnePlace, Rows, Walking, Attended
  <2> QED
    BY <2>1, <2>2 DEF ServiceInv
<1> QED
  BY <1>1, <1>2, <1>3

(* A connection leaves the backlog, and is in one row or in none.          *)
LEMMA AcceptStep ==
  ASSUME ServiceInv, AcceptClient
  PROVE  ServiceInv'
<1> DEFINE s == Head(backlog)
           free == {r \in Rows : clients[r] = NoPeer}
<1>1. ServiceTypeOK /\ backlog \in Seq(Supervisors) /\ backlog # <<>>
  BY DEF AcceptClient, ServiceInv, ServiceTypeOK, Walking
<1>2. /\ s \in Supervisors /\ s = backlog[1] /\ 1 \in DOMAIN backlog
      /\ Tail(backlog) \in Seq(Supervisors)
      /\ DOMAIN Tail(backlog) = 1 .. Len(backlog) - 1 /\ DOMAIN backlog = 1 .. Len(backlog)
      /\ Len(backlog) \in Nat /\ \A i \in 1 .. Len(backlog) - 1 : Tail(backlog)[i] = backlog[i + 1]
  BY <1>1, HeadTailProperties
<1>3. /\ sp' = "top" /\ backlog' = Tail(backlog) /\ UNCHANGED <<pfds, row, poll>>
      /\ \/ /\ clients' = [clients EXCEPT ![Min(free)] = s] /\ UNCHANGED <<peer, inbox>>
         \/ /\ peer' = [peer EXCEPT ![s] = "away"] /\ inbox' = [inbox EXCEPT ![s] = <<>>]
            /\ UNCHANGED clients
  BY DEF AcceptClient
<1> DEFINE m == Min(free)
<1> HIDE DEF s, m
<1>4. \A r \in Rows : clients'[r] = clients[r] \/ (r = m /\ clients'[r] = s)
  BY <1>1, <1>3 DEF ServiceTypeOK, m
<1>5. ServiceTypeOK'
  <2>1. clients' \in [Rows -> Supervisors \cup {NoPeer}]
    BY <1>1, <1>2, <1>3 DEF ServiceTypeOK, m
  <2>2. peer' \in [Supervisors -> {"away", "on", "gone"}]
    BY <1>1, <1>2, <1>3 DEF ServiceTypeOK
  <2>3. inbox' \in [Supervisors -> Seq(Requests)]
    <3>1. <<>> \in Seq(Requests)
      OBVIOUS
    <3> QED
      BY <1>1, <1>2, <1>3, <3>1 DEF ServiceTypeOK
  <2> QED
    BY <1>1, <1>2, <1>3, <2>1, <2>2, <2>3 DEF ServiceTypeOK, Rows
<1>6. OnePlace'
  <2>1. \A r \in Rows : clients[r] # s
    BY <1>2 DEF ServiceInv, OnePlace
  <2>2. \A i, j \in Rows : clients'[i] = clients'[j] /\ i # j => clients'[i] = NoPeer
    BY <1>4, <2>1 DEF ServiceInv, OnePlace
  <2>3. /\ DOMAIN backlog' = 1 .. Len(backlog) - 1
        /\ \A i \in DOMAIN backlog' : backlog'[i] = backlog[i + 1] /\ i + 1 \in DOMAIN backlog
                                      /\ i \in Int /\ i + 1 # 1
    BY <1>2, <1>3
  <2>4. \A i, j \in DOMAIN backlog' : backlog'[i] = backlog'[j] => i = j
    BY <2>3 DEF ServiceInv, OnePlace
  <2>5. \A i \in DOMAIN backlog' : backlog'[i] # s
    BY <1>2, <2>3 DEF ServiceInv, OnePlace
  <2>6. \A i \in DOMAIN backlog' : \A r \in Rows : clients'[r] # backlog'[i]
    BY <1>4, <2>3, <2>5 DEF ServiceInv, OnePlace
  <2> QED
    BY <2>2, <2>4, <2>6 DEF OnePlace, Rows
<1> QED
  BY <1>3, <1>5, <1>6 DEF ServiceInv, Walking, Attended

(* Nothing is connected any more.                                          *)
LEMMA CloseStep ==
  ASSUME ServiceInv, ServiceClose
  PROVE  ServiceInv'
<1> USE DEF ServiceClose
<1>1. ServiceTypeOK
  BY DEF ServiceInv
<1>2. clients' \in [Rows -> Supervisors \cup {NoPeer}] /\ backlog' \in Seq(Supervisors)
  OBVIOUS
<1>3. peer' \in [Supervisors -> {"away", "on", "gone"}]
  BY <1>1 DEF ServiceTypeOK
<1>4. <<>> \in Seq(Requests)
  OBVIOUS
<1>5. inbox' \in [Supervisors -> Seq(Requests)]
  BY <1>4
<1>6. ServiceTypeOK'
  BY <1>1, <1>2, <1>3, <1>5 DEF ServiceTypeOK, Rows
<1>7. OnePlace' /\ Walking' /\ Attended'
  BY DEF OnePlace, Walking, Attended, Rows
<1> QED
  BY <1>6, <1>7 DEF ServiceInv

(* Nobody is connected yet.                                                *)
LEMMA ServiceInitially == ServiceInit => ServiceInv
<1> SUFFICES ASSUME ServiceInit PROVE ServiceInv
  OBVIOUS
<1> USE DEF ServiceInit
<1>1. <<>> \in Seq(Requests) /\ <<>> \in Seq(Supervisors)
      /\ <<>> \in Seq([who : Supervisors \cup {NoPeer}, in : BOOLEAN])
  OBVIOUS
<1>2. ServiceTypeOK
  BY <1>1 DEF ServiceTypeOK
<1> QED
  BY <1>2 DEF ServiceInv, OnePlace, Walking, Attended

(* The thread reads only from a client that was reported ready and still   *)
(* has something to read: clients that come, ask, hang up and are closed   *)
(* during the walk never put the table and the poll set out of step.       *)
THEOREM ReadsWhatIsThere == ServiceSpec => []Attended
<1>1. ServiceInv /\ [ServiceNext]_serviceVars => ServiceInv'
  BY ConnectStep, AskStep, HangUpStep, TerminateStep, PrepareStep, PollStep, FailStep,
     WalkStep, WalkEndStep, ReadStep, ReplyStep, AcceptStep, CloseStep
     DEF ServiceNext, ServiceStep
<1>2. ServiceInv => Attended
  BY DEF ServiceInv
<1> QED
  BY ServiceInitially, <1>1, <1>2, PTL DEF ServiceSpec

-----------------------------------------------------------------------------
(* Data formats.  The types of the formats that are compared and sent.     *)

LEMMA FormatTypes ==
  /\ {Unknown, NoHello} \subseteq AllFormats /\ NoMessage \in Messages
  /\ Format("RAW", NULL) \in AllFormats
  /\ \A f \in OutFormats \cup Required :
       /\ f \in AllFormats /\ Format("RAW", f.spec) \in AllFormats
       /\ f.type \in {"RAW"} \cup NotRaw
       /\ f.type = "RAW" => f = Format("RAW", NULL)
       /\ f.type \in NotRaw => f = Format(f.type, f.spec)
  /\ FormatsTypeOK => /\ Hello \in AllFormats /\ Current \in AllFormats
                      /\ Format("RAW", out.spec) \in AllFormats
<1>1. {Unknown, NoHello} \subseteq AllFormats /\ NoMessage \in Messages
      /\ Format("RAW", NULL) \in AllFormats
  <2>1. \A t \in {"RAW", "UNIREC", "JSON", "UNKNOWN", "NONE"} : Format(t, NULL) \in AllFormats
    BY DEF AllFormats, Format
  <2>2. Unknown \in AllFormats /\ NoHello \in AllFormats /\ Format("RAW", NULL) \in AllFormats
    BY <2>1 DEF Unknown, NoHello
  <2>3. NoMessage \in Messages
    BY <2>2 DEF NoMessage, Messages
  <2> QED
    BY <2>2, <2>3
<1>2. ASSUME NEW f \in OutFormats \cup Required
      PROVE  /\ f \in AllFormats /\ Format("RAW", f.spec) \in AllFormats
             /\ f.type \in {"RAW"} \cup NotRaw
             /\ f.type = "RAW" => f = Format("RAW", NULL)
             /\ f.type \in NotRaw => f = Format(f.type, f.spec)
  <2>1. f = [type |-> f.type, spec |-> f.spec] /\ f.type \in {"RAW", "UNIREC", "JSON"}
    BY FormatAssumption
  <2>2. f.type = "RAW" => f.spec = NULL
    BY FormatAssumption
  <2>3. f.spec \in {g.spec : g \in OutFormats \cup Required}
    OBVIOUS
  <2>4. f \in AllFormats
    BY <2>1, <2>3 DEF AllFormats
  <2>5. Format("RAW", f.spec) \in AllFormats
    BY <2>3 DEF AllFormats, Format
  <2> QED
    BY <2>1, <2>2, <2>4, <2>5 DEF Format, NotRaw
<1>3. ASSUME FormatsTypeOK
      PROVE  /\ Hello \in AllFormats /\ Current \in AllFormats
             /\ Format("RAW", out.spec) \in AllFormats
  <2>1. out \in AllFormats
    BY <1>3 DEF FormatsTypeOK
  <2>2. /\ out.spec \in {NULL} \cup {f.spec : f \in OutFormats \cup Required}
        /\ out.type \in {"RAW", "UNIREC", "JSON", "UNKNOWN", "NONE"}
    BY <2>1 DEF AllFormats
  <2>3. Hello \in AllFormats
    BY <1>1, <2>1 DEF Hello
  <2>4. Current \in AllFormats
    BY <2>2 DEF Current, Format, AllFormats
  <2>5. Format("RAW", out.spec) \in AllFormats
    BY <2>2 DEF Format, AllFormats
  <2> QED
    BY <2>3, <2>4, <2>5
<1> QED
  BY <1>1, <1>2, <1>3

(* Bounds that are left stay numbers.                                      *)
LEMMA Budgets ==
  ASSUME budget \in [sets : Nat, stores : Nat, breaks : Nat]
  PROVE  /\ budget.sets > 0 =>
              [budget EXCEPT !.sets = @ - 1] \in [sets : Nat, stores : Nat, breaks : Nat]
         /\ budget.stores > 0 =>
              [budget EXCEPT !.stores = @ - 1] \in [sets : Nat, stores : Nat, breaks : Nat]
         /\ budget.breaks > 0 =>
              [budget EXCEPT !.breaks = @ - 1] \in [sets : Nat, stores : Nat, breaks : Nat]
<1>1. budget.sets \in Nat /\ budget.stores \in Nat /\ budget.breaks \in Nat
  OBVIOUS
<1>2. ASSUME budget.sets > 0
      PROVE  [budget EXCEPT !.sets = @ - 1] \in [sets : Nat, stores : Nat, breaks : Nat]
  <2>1. budget.sets - 1 \in Nat
    BY <1>1, <1>2
  <2> QED
    BY <2>1
<1>3. ASSUME budget.stores > 0
      PROVE  [budget EXCEPT !.stores = @ - 1] \in [sets : Nat, stores : Nat, breaks : Nat]
  <2>1. budget.stores - 1 \in Nat
    BY <1>1, <1>3
  <2> QED
    BY <2>1
<1>4. ASSUME budget.breaks > 0
      PROVE  [budget EXCEPT !.breaks = @ - 1] \in [sets : Nat, stores : Nat, breaks : Nat]
  <2>1. budget.breaks - 1 \in Nat
    BY <1>1, <1>4
  <2> QED
    BY <2>1
<1> QED
  BY <1>2, <1>3, <1>4

(* What AllIn says of the parts of a container.                            *)
LEMMA Containers ==
  ASSUME NEW f
  PROVE  /\ AllIn(<<>>, f)
         /\ \A c \in Seq(Messages) : \A m \in Messages :
              AllIn(c, f) /\ (m.stale \/ m.fmt = f) => AllIn(Append(c, m), f)
         /\ \A c \in Seq(Messages) : c # <<>> /\ AllIn(c, f) =>
              AllIn(Tail(c), f) /\ (Head(c).stale \/ Head(c).fmt = f)
<1>1. AllIn(<<>>, f)
  BY DEF AllIn
<1>2. ASSUME NEW c \in Seq(Messages), NEW m \in Messages, AllIn(c, f), m.stale \/ m.fmt = f
      PROVE  AllIn(Append(c, m), f)
  <2>1. /\ DOMAIN Append(c, m) = 1 .. Len(c) + 1 /\ Append(c, m)[Len(c) + 1] = m
        /\ DOMAIN c = 1 .. Len(c) /\ Len(c) \in Nat
        /\ \A i \in 1 .. Len(c) : Append(c, m)[i] = c[i]
    BY AppendProperties
  <2> QED
    BY <1>2, <2>1 DEF AllIn
<1>3. ASSUME NEW c \in Seq(Messages), c # <<>>, AllIn(c, f)
      PROVE  AllIn(Tail(c), f) /\ (Head(c).stale \/ Head(c).fmt = f)
  <2>1. /\ DOMAIN Tail(c) = 1 .. Len(c) - 1 /\ Head(c) = c[1] /\ 1 \in DOMAIN c
        /\ DOMAIN c = 1 .. Len(c) /\ Len(c) \in Nat
        /\ \A i \in 1 .. Len(c) - 1 : Tail(c)[i] = c[i + 1]
    BY <1>3, HeadTailProperties
  <2> QED
    BY <1>3, <2>1 DEF AllIn
<1> QED
  BY <1>1, <1>2, <1>3

(* No format is set yet.                                                   *)
LEMMA FormatsInitially == FormatsInit => FormatsInv
<1> SUFFICES ASSUME FormatsInit PROVE FormatsInv
  OBVIOUS
<1> USE DEF FormatsInit
<1>1. <<>> \in Seq(Messages) /\ <<>> \in Seq(Seq(Messages))
  OBVIOUS
<1>2. req \in AllFormats /\ req.type \in {"RAW"} \cup NotRaw
      /\ (req.type = "RAW" => req = Format("RAW", NULL))
  BY FormatTypes
<1>3. FormatsTypeOK
  BY <1>1, <1>2, FormatTypes, FormatAssumption DEF FormatsTypeOK
<1>4. Hello = Unknown
  BY DEF Hello, Unknown, Format
<1>5. Calling /\ Connection
  BY <1>4 DEF Calling, Connection
<1>6. Agreed
  BY <1>2 DEF Agreed, Unknown, Format, NotRaw
<1>7. Delivered
  BY Containers DEF Delivered
<1> QED
  BY <1>3, <1>5, <1>6, <1>7 DEF FormatsInv

-----------------------------------------------------------------------------
(* The output interface.                                                   *)

(* Messages of the old format are marked, and nobody who agreed on it stays.*)
LEMMA SetStep ==
  ASSUME FormatsInv, NEW f \in OutFormats, SetDataFmt(f)
  PROVE  FormatsInv'
<1> USE DEF SetDataFmt, inVars
<1>1. FormatsTypeOK /\ out \in AllFormats /\ open \in Seq(Messages)
  BY DEF FormatsInv, FormatsTypeOK
<1>2. /\ f \in AllFormats /\ Format("RAW", out.spec) \in AllFormats
      /\ f.type \in {"RAW"} \cup NotRaw
      /\ f.type = "RAW" => f = Format("RAW", NULL)
      /\ f.type \in NotRaw => f = Format(f.type, f.spec)
  BY <1>1, FormatTypes
<1>3. out' \in AllFormats
  BY <1>2
<1> DEFINE mark(i) == open[i].stale \/ open[i].fmt # f
<1>4. /\ DOMAIN open' = DOMAIN open
      /\ \A i \in DOMAIN open : open'[i] = [fmt |-> open[i].fmt, stale |-> mark(i)]
  <2>1. /\ DOMAIN open' = DOMAIN open
        /\ \A i \in DOMAIN open : open'[i] = [open[i] EXCEPT !.stale = mark(i)]
    BY Zenon
  <2>2. \A i \in DOMAIN open : open[i] \in Messages
    BY <1>1, ElementOfSeq, LenProperties
  <2>3. \A i \in DOMAIN open : open[i] \in [fmt : AllFormats, stale : BOOLEAN]
    BY <2>2 DEF Messages
  <2> HIDE DEF mark
  <2> QED
    BY <2>1, <2>3
<1>5. open' \in Seq(Messages)
  <2>1. ASSUME NEW i \in DOMAIN open
        PROVE  open'[i] \in Messages
    <3>1. open[i] \in Messages
      BY <1>1, ElementOfSeq, LenProperties
    <3>2. open[i].fmt \in AllFormats /\ mark(i) \in BOOLEAN
      BY <3>1 DEF Messages
    <3> HIDE DEF mark
    <3> QED
      BY <1>4, <3>2 DEF Messages
  <2>2. DOMAIN open = 1 .. Len(open) /\ Len(open) \in Nat
    BY <1>1
  <2>3. open' = [i \in 1 .. Len(open) |-> open'[i]]
    BY <2>2
  <2>4. open' \in [1 .. Len(open) -> Messages]
    BY <2>1, <2>2, <2>3
  <2> QED
    BY <2>2, <2>4, SeqDef
<1>6. /\ link' \in {"down", "pending", "up", "closed"}
      /\ link' # link => link = "up" /\ link' = "closed"
  BY <1>1 DEF FormatsTypeOK, DisconnectAll
<1>7. budget' \in [sets : Nat, stores : Nat, breaks : Nat]
  BY <1>1, Budgets DEF FormatsTypeOK
<1>8. FormatsTypeOK'
  BY <1>1, <1>3, <1>5, <1>6, <1>7 DEF FormatsTypeOK, AllFormats, Messages
<1>9. Current' = f
  <2>1. out'.type = f.type /\ (f.type # "RAW" => out'.spec = f.spec)
    BY DEF Format
  <2> QED
    BY <1>2, <2>1 DEF Current, NotRaw
<1>10. AllIn(open', Current')
  <2> HIDE DEF mark
  <2>1. \A i \in DOMAIN open : mark(i) \/ open[i].fmt = f
    BY DEF mark
  <2> SUFFICES ASSUME NEW i \in DOMAIN open
               PROVE  open'[i].stale \/ open'[i].fmt = f
    BY <1>4, <1>9 DEF AllIn
  <2> QED
    BY <1>4, <2>1
<1>11. ASSUME call # "lost"
       PROVE  Calling' /\ Connection' /\ Agreed' /\ Delivered'
  <2>1. Calling /\ Connection /\ Agreed /\ Delivered
    BY <1>11 DEF FormatsInv
  <2>2. Calling'
    BY <2>1 DEF Calling
  <2>3. link' # "up"
    <3>1. CASE out.type = "UNKNOWN"
      BY <2>1, <3>1 DEF Connection, Hello
    <3>2. CASE out.type # "UNKNOWN"
      BY <3>2 DEF DisconnectAll
    <3> QED
      BY <3>1, <3>2
  <2>4. Connection'
    BY <1>6, <2>1, <2>3 DEF Connection, Announced, Unknown, Format, NoHello
  <2>5. out'.type # "NONE"
    BY <1>2 DEF Format, NotRaw
  <2>6. Agreed'
    BY <2>1, <2>5 DEF Agreed
  <2>7. Delivered'
    BY <1>10, <2>1 DEF Delivered
  <2> QED
    BY <2>2, <2>4, <2>6, <2>7
<1> QED
  BY <1>8, <1>11 DEF FormatsInv

(* While the formats stay, a message is stored in the current one, and a   *)
(* container in it goes to a client that agreed on it.                     *)
LEMMA SendStep ==
  ASSUME FormatsInv, StoreMessage \/ FlushOpen
  PROVE  FormatsInv'
<1>1. FormatsTypeOK /\ open \in Seq(Messages) /\ wire \in Seq(Seq(Messages))
  BY DEF FormatsInv, FormatsTypeOK
<1>2. UNCHANGED <<out, link, hello, inVars>>
  BY DEF StoreMessage, FlushOpen
<1> USE DEF inVars
<1> DEFINE m == [fmt |-> Current, stale |-> FALSE]
<1>3. m \in Messages
  BY <1>1, FormatTypes DEF Messages
<1>4. /\ open' \in {Append(open, m), <<m>>, <<>>}
      /\ wire' = wire \/ (wire' = Append(wire, open) /\ link = "up")
  BY DEF StoreMessage, FlushOpen, Publish, Current
<1>5. budget' \in [sets : Nat, stores : Nat, breaks : Nat]
  BY <1>1, Budgets DEF FormatsTypeOK, StoreMessage, FlushOpen
<1>6. wire' \in Seq(Seq(Messages))
  <2>1. PICK s, w : s = open /\ s \in Seq(Messages) /\ w = wire /\ w \in Seq(Seq(Messages))
    BY <1>1
  <2>2. Append(w, s) \in Seq(Seq(Messages))
    BY <2>1, AppendProperties, Zenon
  <2> QED
    BY <1>4, <2>1, <2>2, Zenon
<1>7. open' \in Seq(Messages)
  <2>1. Append(open, m) \in Seq(Messages) /\ <<m>> \in Seq(Messages) /\ <<>> \in Seq(Messages)
    <3> HIDE DEF m
    <3> QED
      BY <1>1, <1>3, AppendProperties
  <2> QED
    BY <1>4, <2>1
<1>8. FormatsTypeOK'
  BY <1>1, <1>2, <1>5, <1>6, <1>7 DEF FormatsTypeOK, AllFormats, Messages
<1>9. Current' = Current /\ Hello' = Hello
  BY <1>2 DEF Current, Hello
<1>10. ASSUME call # "lost"
       PROVE  Calling' /\ Connection' /\ Agreed' /\ Delivered'
  <2>1. Calling /\ Connection /\ Agreed /\ Delivered
    BY <1>10 DEF FormatsInv
  <2>2. Calling'
    BY <1>2, <2>1 DEF Calling
  <2>3. wire' # wire => link = "up"
    BY <1>4
  <2>4. Connection'
    BY <1>2, <1>9, <2>1, <2>3 DEF Connection
  <2>5. Agreed'
    BY <1>2, <2>1 DEF Agreed
  <2>6. AllIn(open', Current)
    <3>1. AllIn(open, Current)
      BY <2>1 DEF Delivered
    <3>2. m.fmt = Current
      OBVIOUS
    <3>3. AllIn(Append(open, m), Current) /\ AllIn(<<>>, Current)
      <4> HIDE DEF m
      <4> QED
        BY <1>1, <1>3, <3>1, <3>2, Containers
    <3>4. AllIn(<<m>>, Current)
      BY DEF AllIn
    <3> QED
      BY <1>4, <3>3, <3>4
  <2>7. ASSUME link = "up"
        PROVE  /\ hello # NoHello => hello = Current
               /\ hello = NoHello /\ fmtState \in {"OK", "CHANGED"} => in = Current
    <3>1. Hello = Current
      <4>1. Hello # Unknown /\ out \in AllFormats /\ out.type # "NONE"
        BY <2>1, <2>7, <1>1 DEF Connection, Agreed, FormatsTypeOK
      <4>2. out = Format(out.type, out.spec) /\ out.type \in {"RAW", "UNIREC", "JSON", "UNKNOWN"}
        BY <4>1 DEF AllFormats, Format
      <4> QED
        BY <4>1, <4>2 DEF Hello, Current, NotRaw
    <3> QED
      BY <2>1, <2>7, <3>1 DEF Connection
  <2>8. \A i \in DOMAIN wire' :
          \/ wire'[i] = wire[i] /\ i \in DOMAIN wire
          \/ wire'[i] = open /\ link = "up"
    <3>1. /\ DOMAIN Append(wire, open) = 1 .. Len(wire) + 1 /\ DOMAIN wire = 1 .. Len(wire)
          /\ Append(wire, open)[Len(wire) + 1] = open /\ Len(wire) \in Nat
          /\ \A i \in 1 .. Len(wire) : Append(wire, open)[i] = wire[i]
      BY <1>1, AppendProperties
    <3>2. CASE wire' = wire
      BY <3>2
    <3>3. CASE wire' = Append(wire, open) /\ link = "up"
      <4>1. \A i \in 1 .. Len(wire) + 1 : i \in 1 .. Len(wire) \/ i = Len(wire) + 1
        BY <3>1
      <4> QED
        BY <3>1, <3>3, <4>1
    <3> QED
      BY <1>4, <3>2, <3>3
  <2>9. Delivered'
    BY <1>2, <1>9, <2>1, <2>6, <2>7, <2>8 DEF Delivered
  <2> QED
    BY <2>2, <2>4, <2>5, <2>9
<1> QED
  BY <1>2, <1>8, <1>10 DEF FormatsInv

(* A client is told the format that is set.                                *)
LEMMA AcceptFormatStep ==
  ASSUME FormatsInv, AcceptNegotiate
  PROVE  FormatsInv'
<1> USE DEF AcceptNegotiate, outVars, inVars
<1>1. FormatsTypeOK
  BY DEF FormatsInv
<1>2. hello' = Hello /\ Hello \in AllFormats /\ wire' = <<>> /\ Hello' = Hello /\ Current' = Current
  BY <1>1, FormatTypes DEF Hello, Current
<1>3. <<>> \in Seq(Seq(Messages))
  OBVIOUS
<1>4. FormatsTypeOK'
  BY <1>1, <1>2, <1>3 DEF FormatsTypeOK, AllFormats, Messages
<1>5. ASSUME call # "lost"
      PROVE  Calling' /\ Connection' /\ Agreed' /\ Delivered'
  <2>1. Calling /\ Connection /\ Agreed /\ Delivered
    BY <1>5 DEF FormatsInv
  <2>2. call = "negotiate" /\ hello = NoHello
    BY <2>1 DEF Connection
  <2>3. Hello = Unknown \/ Announced(Hello)
    <3>1. out \in AllFormats /\ out.type # "NONE"
      BY <1>1, <2>1 DEF FormatsTypeOK, Agreed
    <3>2. out.type \in {"RAW", "UNIREC", "JSON", "UNKNOWN"}
      BY <3>1 DEF AllFormats
    <3> QED
      BY <3>2 DEF Hello, Announced, NotRaw
  <2>4. Hello # NoHello
    BY <2>3 DEF Announced, Unknown, NoHello, NotRaw, Format
  <2>5. Calling'
    BY <2>1 DEF Calling
  <2>6. Connection'
    BY <1>2, <2>2, <2>3, <2>4 DEF Connection, Announced, Unknown, NoHello, Format
  <2>7. Agreed'
    BY <2>1 DEF Agreed
  <2>8. Delivered'
    BY <1>2, <2>1 DEF Delivered
  <2> QED
    BY <2>5, <2>6, <2>7, <2>8
<1> QED
  BY <1>4, <1>5 DEF FormatsInv

(* A connection that is refused, or breaks and loses what was not read.    *)
LEMMA BreakStep ==
  ASSUME FormatsInv, Break \/ AcceptRefused
  PROVE  FormatsInv'
<1> USE DEF outVars, inVars
<1>1. FormatsTypeOK /\ wire \in Seq(Seq(Messages))
  BY DEF FormatsInv, FormatsTypeOK
<1>2. /\ UNCHANGED <<out, open, req, in, fmtState, linked, unread, call, code, taken, known,
                     overwritten>>
      /\ link' = "closed"
  BY DEF Break, AcceptRefused
<1>3. budget' \in [sets : Nat, stores : Nat, breaks : Nat]
  BY <1>1, Budgets DEF FormatsTypeOK, Break, AcceptRefused
<1>4. PICK k \in 0 .. Len(wire) : wire' = wire \/ (wire' = SubSeq(wire, 1, k) /\ link = "up")
  <2>1. 0 \in 0 .. Len(wire)
    BY <1>1, LenProperties
  <2>2. wire' = wire \/ \E k \in 0 .. Len(wire) : wire' = SubSeq(wire, 1, k) /\ link = "up"
    BY DEF Break, AcceptRefused
  <2> QED
    BY <2>1, <2>2
<1>5. hello' = hello \/ (hello' = NoHello /\ wire' = <<>>)
  BY DEF Break, AcceptRefused
<1>6. /\ wire' \in Seq(Seq(Messages))
      /\ \A i \in DOMAIN wire' : i \in DOMAIN wire /\ wire'[i] = wire[i]
      /\ wire = <<>> => wire' = <<>>
  <2>1. Len(wire) \in Nat /\ k \in Int /\ 0 <= k /\ k <= Len(wire) /\ DOMAIN wire = 1 .. Len(wire)
    BY <1>1, LenProperties
  <2>2. \A i \in 1 .. k : wire[i] \in Seq(Messages)
    BY <1>1, <2>1, ElementOfSeq
  <2>3. /\ SubSeq(wire, 1, k) \in Seq(Seq(Messages)) /\ DOMAIN SubSeq(wire, 1, k) = 1 .. k
        /\ \A i \in 1 .. k : SubSeq(wire, 1, k)[i] = wire[i]
    BY <1>1, <2>1, <2>2, SubSeqProperties
  <2>4. wire = <<>> => SubSeq(wire, 1, k) = <<>>
    BY <2>1, <2>3, LenProperties, EmptySeq
  <2>5. CASE wire' = wire
    BY <1>1, <2>5
  <2>6. CASE wire' = SubSeq(wire, 1, k)
    BY <2>1, <2>3, <2>4, <2>6
  <2> QED
    BY <1>4, <2>5, <2>6
<1>7. hello' \in AllFormats /\ hello' \in {hello, NoHello}
  BY <1>1, <1>5, FormatTypes DEF FormatsTypeOK
<1>8. FormatsTypeOK'
  BY <1>1, <1>2, <1>3, <1>6, <1>7 DEF FormatsTypeOK, AllFormats, Messages
<1>9. ASSUME call # "lost"
      PROVE  Calling' /\ Connection' /\ Agreed' /\ Delivered'
  <2>1. Calling /\ Connection /\ Agreed /\ Delivered
    BY <1>9 DEF FormatsInv
  <2>2. Hello' = Hello /\ Current' = Current
    BY <1>2 DEF Hello, Current
  <2>3. Calling' /\ Agreed'
    BY <1>2, <2>1 DEF Calling, Agreed
  <2>4. Connection'
    BY <1>2, <1>5, <1>6, <2>1 DEF Connection
  <2>5. Delivered'
    BY <1>2, <1>5, <1>6, <2>1, <2>2 DEF Delivered
  <2> QED
    BY <2>3, <2>4, <2>5
<1> QED
  BY <1>2, <1>8, <1>9 DEF FormatsInv

-----------------------------------------------------------------------------
(* The negotiation.                                                        *)

(* Two specifiers that are there compare as equal only when they are.      *)
LEMMA SameSpec ==
  ASSUME NEW a, NEW b, a # NULL, b # NULL, CmpDataFmt(a, b) = "OK"
  PROVE  a = b
<1>1. CASE a # b
  <2>1. CmpDataFmt(a, b) = IF b \subseteq a THEN "SUBSET" ELSE "MISMATCH"
    BY <1>1 DEF CmpDataFmt
  <2> QED
    BY <2>1
<1> QED
  BY <1>1

(* A hello message judged to bring nothing new brings the format that is   *)
(* known already.                                                          *)
LEMMA NothingNew ==
  ASSUME FormatsTypeOK, Agreed, Announced(hello)
  PROVE  /\ Judged(hello) \in {"OK", "CHANGED", "MISMATCH"}
         /\ Judged(hello) # "MISMATCH" => hello.type = req.type
         /\ Judged(hello) = "OK" /\ in # Unknown => hello = in
         /\ Judged(hello) = "OK" /\ in = Unknown =>
              hello = known \/ (hello.type = "JSON" /\ known.spec \in {NULL, {}})
<1> DEFINE h == hello
<1>1. h \in AllFormats /\ in \in AllFormats /\ req \in AllFormats /\ known \in AllFormats
  BY DEF FormatsTypeOK
<1>2. \A f, g \in AllFormats : f.type = g.type /\ f.spec = g.spec => f = g
  BY DEF AllFormats
<1>3. Compare(h.type, h.spec, req.spec) \in {"OK", "SUBSET", "MISMATCH"}
  BY DEF Compare, CmpDataFmt, CmpJson
<1>4. Judged(h) \in {"OK", "CHANGED", "MISMATCH"} /\ (Judged(h) # "MISMATCH" => h.type = req.type)
  <2>1. CASE h.type # req.type
    BY <2>1 DEF Judged
  <2>2. CASE h.type = req.type
    <3> HIDE DEF h
    <3>1. CASE Compare(h.type, h.spec, req.spec) = "OK"
      BY <2>2, <3>1 DEF Judged
    <3>2. CASE Compare(h.type, h.spec, req.spec) = "SUBSET"
      BY <2>2, <3>2 DEF Judged
    <3>3. CASE Compare(h.type, h.spec, req.spec) = "MISMATCH"
      BY <2>2, <3>3 DEF Judged
    <3> QED
      BY <1>3, <3>1, <3>2, <3>3
  <2> QED
    BY <2>1, <2>2
<1>5. CASE h.type = "RAW"
  <2>1. h = Format("RAW", NULL)
    BY <1>5 DEF Announced, NotRaw
  <2>2. Judged(h) = "OK" /\ in # Unknown => h = in
    <3> SUFFICES ASSUME Judged(h) = "OK", in # Unknown PROVE h = in
      OBVIOUS
    <3>1. in.type = "RAW" /\ Announced(in)
      BY <1>4, <1>5 DEF Agreed
    <3> QED
      BY <2>1, <3>1 DEF Announced, NotRaw
  <2>3. Judged(h) = "OK" /\ in = Unknown => h = known
    BY <1>4, <1>5, <2>1 DEF Agreed
  <2> QED
    BY <1>4, <2>2, <2>3
<1>6. CASE h.type \in NotRaw
  <2>1. h.spec # NULL
    BY <1>6 DEF Announced, NotRaw, Format
  <2> SUFFICES ASSUME Judged(h) = "OK"
               PROVE  /\ in # Unknown => h = in
                      /\ in = Unknown =>
                           h = known \/ (h.type = "JSON" /\ known.spec \in {NULL, {}})
    BY <1>4
  <2>2. h.type = req.type /\ Compare(h.type, h.spec, req.spec) = "OK" /\ SameAsBefore(h)
    BY <1>3, <1>4, <1>6 DEF Judged, NotRaw
  <2>3. ASSUME in # Unknown
        PROVE  h = in
    <3>1. Announced(in) /\ in.type = h.type
      BY <2>2, <2>3 DEF Agreed
    <3>2. in.spec # NULL
      BY <1>6, <3>1 DEF Announced, NotRaw, Format
    <3>3. h.type = "UNIREC" => CmpDataFmt(in.spec, h.spec) = "OK"
      BY <2>2, <3>2 DEF SameAsBefore
    <3>4. h.type # "UNIREC" => in.spec = h.spec
      BY <2>2, <3>2 DEF SameAsBefore
    <3>5. in.spec = h.spec
      BY <2>1, <3>2, <3>3, <3>4, SameSpec
    <3> QED
      BY <1>1, <1>2, <3>1, <3>5
  <2>4. ASSUME in = Unknown
        PROVE  h = known \/ (h.type = "JSON" /\ known.spec \in {NULL, {}})
    <3>1. known = req
      BY <1>6, <2>2, <2>4 DEF Agreed, NotRaw
    <3>2. CASE h.type = "UNIREC"
      <4>1. CmpDataFmt(h.spec, req.spec) = "OK"
        BY <2>2, <3>2 DEF Compare
      <4>2. req.spec # NULL
        BY <2>1, <4>1 DEF CmpDataFmt
      <4>3. h.spec = req.spec
        BY <2>1, <4>1, <4>2, SameSpec
      <4> QED
        BY <1>1, <1>2, <2>2, <3>1, <4>3
    <3>3. CASE h.type = "JSON"
      <4>1. CmpJson(h.spec, req.spec) = "OK"
        BY <2>2, <3>3 DEF Compare
      <4>2. req.spec = NULL \/ req.spec = {} \/ h.spec = req.spec
        BY <4>1 DEF CmpJson
      <4> QED
        BY <1>1, <1>2, <2>2, <3>1, <3>3, <4>2
    <3> QED
      BY <1>6, <3>2, <3>3 DEF NotRaw
  <2> QED
    BY <2>3, <2>4
<1>7. h.type \in {"RAW"} \cup NotRaw
  BY DEF Announced, Format
<1> QED
  BY <1>5, <1>6, <1>7

(* The two ends have agreed, or the mismatch is reported.                  *)
LEMMA HelloStep ==
  ASSUME FormatsInv, NegotiateRead
  PROVE  FormatsInv'
<1> USE DEF NegotiateRead, outVars, SetFmtState
<1>1. FormatsTypeOK /\ Calling /\ Connection /\ Agreed /\ Delivered /\ Announced(hello)
  BY DEF FormatsInv, Connection
<1>2. /\ fmtState' = Judged(hello) /\ hello' = NoHello /\ linked' = TRUE
      /\ overwritten' = (overwritten \/ (fmtState = "CHANGED" /\ fmtState' # "CHANGED"))
      /\ UNCHANGED <<out, open, link, wire, req, unread, taken, known, budget>>
  OBVIOUS
<1>3. /\ fmtState' \in {"OK", "CHANGED", "MISMATCH"}
      /\ fmtState' # "MISMATCH" => hello.type = req.type
      /\ fmtState' = "OK" /\ in # Unknown => hello = in
      /\ fmtState' = "OK" /\ in = Unknown =>
           hello = known \/ (hello.type = "JSON" /\ known.spec \in {NULL, {}})
  BY <1>1, <1>2, NothingNew
<1>4. \/ /\ fmtState' = "MISMATCH" /\ call' = "idle" /\ code' = "FORMAT_MISMATCH"
         /\ UNCHANGED in
      \/ fmtState' # "MISMATCH" /\ call' = "init" /\ in' = hello /\ UNCHANGED code
  BY DEF Returns
<1>5. call = "negotiate" /\ code = "CALLED" /\ taken = NoMessage /\ unread = <<>> /\ hello # NoHello
  BY <1>1 DEF Calling
<1>6. FormatsTypeOK'
  <2>1. {out', hello', req', in', known'} \subseteq AllFormats
    BY <1>1, <1>2, <1>4, FormatTypes DEF FormatsTypeOK, AllFormats
  <2>2. overwritten' \in BOOLEAN
    BY <1>1, <1>2 DEF FormatsTypeOK
  <2> QED
    BY <1>1, <1>2, <1>3, <1>4, <2>1, <2>2 DEF FormatsTypeOK, AllFormats, Messages
<1>7. Hello' = Hello /\ Current' = Current
  BY <1>2 DEF Hello, Current
<1>8. Calling'
  BY <1>2, <1>3, <1>4, <1>5 DEF Calling
<1>9. Connection'
  BY <1>1, <1>2, <1>3, <1>4, <1>5, <1>7 DEF Connection
<1>10. hello # Unknown
  OBVIOUS
<1>11. Agreed'
  <2>1. CASE fmtState' = "MISMATCH"
    BY <1>1, <1>2, <1>4, <1>5, <2>1 DEF Agreed
  <2>2. CASE fmtState' # "MISMATCH"
    <3>1. in' = hello /\ Announced(in') /\ in'.type = req.type /\ in' # Unknown /\ code' = "CALLED"
      BY <1>1, <1>3, <1>4, <1>5, <1>10, <2>2
    <3>2. ASSUME fmtState' = "OK"
          PROVE  \/ known = in' \/ overwritten'
                 \/ in'.type = "JSON" /\ known.spec \in {NULL, {}}
      <4>1. CASE in = Unknown
        BY <1>3, <3>1, <3>2, <4>1
      <4>2. CASE in # Unknown
        <5>1. in' = in
          BY <1>3, <3>1, <3>2, <4>2
        <5> QED
          BY <1>1, <1>2, <1>5, <3>2, <4>2, <5>1 DEF Agreed
      <4> QED
        BY <4>1, <4>2
    <3> QED
      BY <1>1, <1>2, <1>3, <2>2, <3>1, <3>2 DEF Agreed, Announced
  <2> QED
    BY <2>1, <2>2
<1>12. Delivered'
  BY <1>1, <1>2, <1>3, <1>4, <1>5, <1>7, Containers DEF Delivered
<1> QED
  BY <1>4, <1>6, <1>8, <1>9, <1>11, <1>12 DEF FormatsInv

(* The connection is given up.                                             *)
LEMMA NoHelloStep ==
  ASSUME FormatsInv, NegotiateUnknown \/ NegotiateFailed
  PROVE  FormatsInv'
<1> USE DEF outVars, linkVars
<1>1. FormatsTypeOK /\ Calling /\ Connection /\ Agreed /\ Delivered
  BY DEF FormatsInv, NegotiateUnknown, NegotiateFailed
<1>2. /\ UNCHANGED <<out, open, req, in, unread, taken, known, budget>>
      /\ fmtState' = "WAITING" /\ wire' = <<>> /\ hello' = NoHello
      /\ overwritten' = (overwritten \/ (fmtState = "CHANGED" /\ fmtState' # "CHANGED"))
      /\ call = "negotiate"
  BY <1>1 DEF NegotiateUnknown, NegotiateFailed, SetFmtState, Connection
<1>3. \/ link' = "down" /\ call' = "reset" /\ UNCHANGED <<code, linked>>
      \/ link' = "closed" /\ call' = "idle" /\ code' = "NEGOTIATION_FAILED" /\ linked' = TRUE
  BY DEF NegotiateUnknown, NegotiateFailed, Returns
<1>4. code = "CALLED" /\ taken = NoMessage /\ unread = <<>> /\ ~linked
  BY <1>1, <1>2 DEF Calling
<1>5. FormatsTypeOK'
  <2>1. <<>> \in Seq(Seq(Messages)) /\ hello' \in AllFormats
    BY <1>2, FormatTypes
  <2>2. overwritten' \in BOOLEAN
    BY <1>1, <1>2 DEF FormatsTypeOK
  <2>3. /\ link' \in {"down", "pending", "up", "closed"} /\ linked' \in BOOLEAN
        /\ call' \in {"idle", "init", "negotiate", "reset", "lost"}
        /\ code' \in {"NONE", "CALLED", "OK", "FORMAT_CHANGED", "FORMAT_MISMATCH",
                     "NEGOTIATION_FAILED", "TIMEOUT"}
    BY <1>1, <1>3 DEF FormatsTypeOK
  <2>4. out' = out /\ open' = open /\ req' = req /\ in' = in /\ unread' = unread
        /\ taken' = taken /\ known' = known /\ budget' = budget
    BY <1>2
  <2> QED
    BY <1>1, <1>2, <2>1, <2>2, <2>3, <2>4 DEF FormatsTypeOK
<1>6. Current' = Current
  BY <1>2 DEF Current
<1>7. Calling' /\ Connection'
  BY <1>2, <1>3, <1>4 DEF Calling, Connection
<1>8. Agreed'
  BY <1>1, <1>2, <1>4 DEF Agreed
<1>9. Delivered'
  BY <1>1, <1>2, <1>4, <1>6, Containers DEF Delivered
<1> QED
  BY <1>3, <1>5, <1>7, <1>8, <1>9 DEF FormatsInv

(* A call that went unanswered is not followed.                            *)
LEMMA LostStep ==
  ASSUME FormatsInv, NegotiateUnanswered
  PROVE  FormatsInv'
<1> USE DEF NegotiateUnanswered, outVars, linkVars, SetFmtState
<1>1. FormatsTypeOK
  BY DEF FormatsInv
<1>2. budget' \in [sets : Nat, stores : Nat, breaks : Nat] /\ overwritten' \in BOOLEAN
  BY <1>1, Budgets DEF FormatsTypeOK
<1>3. FormatsTypeOK'
  BY <1>1, <1>2 DEF FormatsTypeOK, AllFormats, Messages
<1> QED
  BY <1>3 DEF FormatsInv

-----------------------------------------------------------------------------
(* The module and trap_read_from_buffer.                                   *)

(* The module states and asks for formats.                                 *)
LEMMA ModuleStep ==
  ASSUME FormatsInv, (\E f \in Required : SetRequiredFmt(f)) \/ GetDataFmt
  PROVE  FormatsInv'
<1> USE DEF outVars, linkVars
<1>1. FormatsTypeOK /\ Calling /\ Connection /\ Agreed /\ Delivered /\ call = "idle"
  BY DEF FormatsInv, SetRequiredFmt, GetDataFmt
<1>2. UNCHANGED <<out, open, link, hello, wire, in, fmtState, linked, unread, call, budget>>
  BY DEF SetRequiredFmt, GetDataFmt
<1>3. Hello' = Hello /\ Current' = Current
  BY <1>2 DEF Hello, Current
<1>4. CASE GetDataFmt
  <2>1. /\ in # Unknown /\ known' = in /\ req' = req /\ overwritten' = FALSE /\ taken' = NoMessage
        /\ code' = code \/ (code' = "NONE" /\ code = "FORMAT_CHANGED")
    BY <1>4 DEF GetDataFmt
  <2>2. FormatsTypeOK'
    <3>1. {out', hello', req', in', known'} \subseteq AllFormats
      BY <1>1, <1>2, <2>1 DEF FormatsTypeOK
    <3>2. taken' \in Messages /\ overwritten' \in BOOLEAN
      BY <2>1, FormatTypes
    <3> QED
      BY <1>1, <1>2, <2>1, <3>1, <3>2 DEF FormatsTypeOK, AllFormats, Messages
  <2>3. Calling' /\ Connection'
    BY <1>1, <1>2, <1>3, <2>1 DEF Calling, Connection
  <2>4. Agreed'
    BY <1>1, <1>2, <2>1 DEF Agreed
  <2>5. Delivered'
    BY <1>1, <1>2, <1>3, <2>1 DEF Delivered
  <2> QED
    BY <1>1, <1>2, <2>2, <2>3, <2>4, <2>5 DEF FormatsInv
<1>5. CASE \E f \in Required : SetRequiredFmt(f)
  <2>1. PICK f \in Required : SetRequiredFmt(f)
    BY <1>5
  <2>2. /\ in = Unknown /\ known' = f /\ UNCHANGED <<code, taken, overwritten>> /\ code = "NONE"
        /\ req' = IF f.type = "RAW" THEN Format("RAW", req.spec) ELSE f
    BY <2>1 DEF SetRequiredFmt
  <2>3. /\ f \in AllFormats /\ f.type \in {"RAW"} \cup NotRaw
        /\ f.type = "RAW" => f = Format("RAW", NULL)
    BY FormatTypes
  <2>4. Format("RAW", req.spec) \in AllFormats
    BY <1>1 DEF FormatsTypeOK, AllFormats, Format
  <2>5. FormatsTypeOK'
    BY <1>1, <1>2, <2>2, <2>3, <2>4 DEF FormatsTypeOK, AllFormats, Messages
  <2>6. Calling' /\ Connection'
    BY <1>1, <1>2, <1>3, <2>2 DEF Calling, Connection
  <2>7. Agreed'
    BY <1>1, <1>2, <2>2, <2>3 DEF Agreed, Format, NotRaw
  <2>8. Delivered'
    BY <1>1, <1>2, <1>3, <2>2 DEF Delivered
  <2> QED
    BY <1>1, <1>2, <2>5, <2>6, <2>7, <2>8 DEF FormatsInv
<1> QED
  BY <1>4, <1>5

(* A message is taken, with the news of a change.                          *)
LEMMA TakeStep ==
  ASSUME FormatsInv, TakeMessage
  PROVE  FormatsInv'
<1> USE DEF outVars, linkVars
<1>1. /\ FormatsTypeOK /\ Calling /\ Connection /\ Agreed /\ Delivered
      /\ call = "init" /\ unread # <<>> /\ unread \in Seq(Messages) /\ code = "CALLED"
  BY DEF FormatsInv, FormatsTypeOK, Calling, TakeMessage
<1>2. /\ taken' = Head(unread) /\ unread' = Tail(unread) /\ call' = "idle"
      /\ UNCHANGED <<out, open, link, hello, wire, req, in, linked, known, overwritten, budget>>
      /\ IF fmtState = "CHANGED" THEN fmtState' = "OK" /\ code' = "FORMAT_CHANGED"
                                 ELSE fmtState' = fmtState /\ code' = "OK"
  BY DEF TakeMessage, Returns
<1>3. Head(unread) \in Messages /\ Tail(unread) \in Seq(Messages)
  BY <1>1, HeadTailProperties
<1>4. FormatsTypeOK'
  <2>1. taken' \in Messages /\ unread' \in Seq(Messages)
    BY <1>2, <1>3
  <2>2. fmtState' \in {"WAITING", "OK", "CHANGED", "MISMATCH"} /\ code' \in {"OK", "FORMAT_CHANGED"}
    BY <1>1, <1>2 DEF FormatsTypeOK
  <2> QED
    BY <1>1, <1>2, <2>1, <2>2 DEF FormatsTypeOK, AllFormats, Messages
<1>5. fmtState # "WAITING" /\ Hello' = Hello /\ Current' = Current
  BY <1>1, <1>2 DEF Calling, Hello, Current
<1>6. Calling' /\ Connection'
  BY <1>1, <1>2, <1>5 DEF Calling, Connection, FormatsTypeOK
<1>7. Agreed'
  BY <1>1, <1>2 DEF Agreed
<1>8. fmtState # "MISMATCH" =>
        AllIn(Tail(unread), in) /\ (Head(unread).stale \/ Head(unread).fmt = in)
  BY <1>1, Containers DEF Delivered
<1>9. Delivered'
  BY <1>1, <1>2, <1>5, <1>8 DEF Delivered
<1> QED
  BY <1>2, <1>4, <1>6, <1>7, <1>9 DEF FormatsInv

(* trap_recv is called, connects, finds the connection closed, tries again *)
(* or gives up.                                                            *)
LEMMA CallStep ==
  ASSUME FormatsInv, RecvFormats \/ ConnectOut \/ ReadClosed \/ TryAgain \/ RecvTimeout
  PROVE  FormatsInv'
<1> USE DEF outVars, linkVars, OnlyCalls, Returns
<1>1. FormatsTypeOK /\ Calling /\ Connection /\ Agreed /\ Delivered
  BY DEF FormatsInv, RecvFormats, ConnectOut, ReadClosed, TryAgain, RecvTimeout
<1>2. UNCHANGED <<out, open, req, in, fmtState, unread, known, overwritten, budget>>
  BY DEF RecvFormats, ConnectOut, ReadClosed, TryAgain, RecvTimeout
<1>3. Hello' = Hello /\ Current' = Current
  BY <1>2 DEF Hello, Current
<1>4. /\ taken' \in {taken, NoMessage} /\ code' \in {code, "CALLED", "TIMEOUT"}
      /\ code = "FORMAT_CHANGED" => code' = code
      /\ call' \in {"init", "negotiate", "reset", "idle"}
  BY <1>1 DEF RecvFormats, ConnectOut, ReadClosed, TryAgain, RecvTimeout, Calling
<1>5. /\ wire' \in {wire, <<>>} /\ hello' = NoHello /\ hello = NoHello
      /\ link' \in {link, "down", "pending"} /\ linked' \in {linked, FALSE}
  BY <1>1 DEF RecvFormats, ConnectOut, ReadClosed, TryAgain, RecvTimeout, Connection
<1>6. FormatsTypeOK'
  <2>1. taken' \in Messages /\ hello' \in AllFormats /\ <<>> \in Seq(Seq(Messages))
    BY <1>1, <1>4, <1>5, FormatTypes DEF FormatsTypeOK
  <2>2. wire' \in Seq(Seq(Messages)) /\ link' \in {"down", "pending", "up", "closed"}
        /\ linked' \in BOOLEAN
    BY <1>1, <1>5, <2>1 DEF FormatsTypeOK
  <2> QED
    BY <1>1, <1>2, <1>4, <2>1, <2>2 DEF FormatsTypeOK, AllFormats, Messages
<1>7. Calling'
  BY <1>1, <1>2 DEF Calling, RecvFormats, ConnectOut, ReadClosed, TryAgain, RecvTimeout
<1>8. Connection'
  BY <1>1, <1>2, <1>3 DEF Connection, RecvFormats, ConnectOut, ReadClosed, TryAgain, RecvTimeout,
                          Calling
<1>9. Agreed'
  BY <1>1, <1>2, <1>4 DEF Agreed
<1>10. Delivered'
  BY <1>1, <1>2, <1>3, <1>4, <1>5 DEF Delivered
<1> QED
  BY <1>4, <1>6, <1>7, <1>8, <1>9, <1>10 DEF FormatsInv

(* The next container is in the format agreed on.                          *)
LEMMA ContainerStep ==
  ASSUME FormatsInv, ReadContainer
  PROVE  FormatsInv'
<1> USE DEF outVars, OnlyCalls
<1>1. /\ FormatsTypeOK /\ Calling /\ Connection /\ Agreed /\ Delivered
      /\ wire # <<>> /\ wire \in Seq(Seq(Messages)) /\ call = "init" /\ linked /\ hello = NoHello
  BY DEF FormatsInv, FormatsTypeOK, Connection, ReadContainer
<1>2. /\ unread' = Head(wire) /\ wire' = Tail(wire)
      /\ UNCHANGED <<out, open, link, hello, req, in, fmtState, linked, call, code, taken, known,
                     overwritten, budget>>
  BY DEF ReadContainer
<1>3. /\ Head(wire) \in Seq(Messages) /\ Tail(wire) \in Seq(Seq(Messages))
      /\ Head(wire) = wire[1] /\ 1 \in DOMAIN wire
      /\ DOMAIN Tail(wire) = 1 .. Len(wire) - 1 /\ DOMAIN wire = 1 .. Len(wire)
      /\ \A i \in 1 .. Len(wire) - 1 : Tail(wire)[i] = wire[i + 1]
      /\ Len(wire) \in Nat
  BY <1>1, HeadTailProperties
<1>4. FormatsTypeOK'
  <2>1. unread' \in Seq(Messages) /\ wire' \in Seq(Seq(Messages))
    BY <1>2, <1>3
  <2> QED
    BY <1>1, <1>2, <2>1 DEF FormatsTypeOK, AllFormats, Messages
<1>5. fmtState # "WAITING" /\ Hello' = Hello /\ Current' = Current
  BY <1>1, <1>2 DEF Connection, Hello, Current
<1>6. Calling' /\ Connection'
  BY <1>1, <1>2, <1>5 DEF Calling, Connection
<1>7. Agreed'
  BY <1>1, <1>2 DEF Agreed
<1>8. \A i \in DOMAIN wire' : i + 1 \in DOMAIN wire /\ wire'[i] = wire[i + 1]
  BY <1>2, <1>3
<1>9. fmtState # "MISMATCH" => AllIn(unread', in)
  BY <1>1, <1>2, <1>3, <1>5 DEF Delivered, FormatsTypeOK
<1>10. Delivered'
  BY <1>1, <1>2, <1>5, <1>8, <1>9 DEF Delivered
<1> QED
  BY <1>2, <1>4, <1>6, <1>7, <1>10 DEF FormatsInv

-----------------------------------------------------------------------------
(* Every step keeps the invariant.                                         *)
LEMMA FormatsStep == FormatsInv /\ [FormatsNext]_formatVars => FormatsInv'
<1>1. ASSUME FormatsInv, UNCHANGED formatVars
      PROVE  FormatsInv'
  <2> USE <1>1 DEF formatVars, outVars, linkVars, inVars
  <2>1. FormatsTypeOK'
    BY DEF FormatsInv, FormatsTypeOK, AllFormats, Messages
  <2>2. Hello' = Hello /\ Current' = Current
    BY DEF Hello, Current
  <2>3. call # "lost" => Calling' /\ Connection' /\ Agreed' /\ Delivered'
    BY <2>2 DEF FormatsInv, Calling, Connection, Agreed, Delivered
  <2> QED
    BY <2>1, <2>3 DEF FormatsInv
<1> QED
  BY <1>1, SetStep, SendStep, BreakStep, AcceptFormatStep, HelloStep, NoHelloStep, LostStep,
     ModuleStep, TakeStep, CallStep, ContainerStep
     DEF FormatsNext, OutputStep, InputStep, NegotiateStep

(* A module that is handed messages with TRAP_E_OK knows their format: no  *)
(* order of set formats, broken connections, negotiations and calls lets a *)
(* change go by, but for those FormatIsKnown names.                        *)
THEOREM ModuleKnowsFormat == FormatsSpec => []FormatIsKnown
<1>1. FormatsInv => FormatIsKnown
  BY DEF FormatsInv, FormatIsKnown, Calling, Agreed
<1> QED
  BY FormatsInitially, FormatsStep, <1>1, PTL DEF FormatsSpec

(* A connection delivers the format that was negotiated for it.            *)
THEOREM DeliversNegotiated == FormatsSpec => []NegotiatedFormat
<1>1. FormatsInv => NegotiatedFormat
  BY DEF FormatsInv, NegotiatedFormat, Delivered
<1> QED
  BY FormatsInitially, FormatsStep, <1>1, PTL DEF FormatsSpec

-----------------------------------------------------------------------------
(* The context: for any number of interfaces, whoever terminates it and    *)
(* whenever.                                                               *)
Phases == {"none", "constructing", "refused", "failed", "working", "flushing",
           "joining", "freeing", "gone"}
IfcStates == [state : {"raw", "live", "dead", "lost"}, ended : BOOLEAN]

ContextTypes ==
  /\ phase \in Phases /\ made \in 0 .. NumIn + NumOut
  /\ ifc \in [Ifcs -> IfcStates] /\ timeout \in [Ifcs -> Setters \cup {"set", "last"}]
  /\ initialized \in BOOLEAN /\ ctxTerminated \in BOOLEAN
  /\ threadState \in {"none", "running", "left", "joined"}
  /\ walker \in 0 .. NumIn + NumOut

(* Who holds what in each phase: the service thread runs at most until it  *)
(* is joined, and the interfaces leave one after the other after that.     *)
Held ==
  /\ phase \in {"none", "constructing", "refused", "failed"} =>
       ~initialized /\ threadState = "none" /\ walker = NotWalking
  /\ threadState = "running" => phase \in {"working", "flushing", "joining"}
  /\ phase \in {"working", "flushing", "joining"} => \A i \in Ifcs : ifc[i].state = "live"
  /\ phase \in {"none", "refused"} => \A i \in Ifcs : ifc[i].state # "live"
  /\ phase \in {"failed", "gone"} => \A i \in Ifcs : ifc[i].state # "live"
  /\ phase = "none" => made = 0
  /\ phase \in {"none", "constructing"} =>
       \A i \in Ifcs : ifc[i].state # "dead" /\ (ifc[i].state = "live" => i <= made)
  /\ phase = "constructing" => \A i \in Ifcs : i <= made => ifc[i].state = "live"
  /\ phase = "freeing" =>
       made < NumIn + NumOut /\ \A i \in Ifcs : i <= made => ifc[i].state # "live"

(* The flag is raised first and the interfaces follow, at once or in a     *)
(* walk; the context is not taken apart before.                            *)
EndedInOrder ==
  /\ phase \in {"none", "constructing"} => ~ctxTerminated
  /\ phase \in {"joining", "freeing"} => ctxTerminated
  /\ phase = "gone" /\ initialized => ctxTerminated
  /\ walker # NotWalking => ctxTerminated /\ \A i \in Ifcs : i < walker => ifc[i].ended
  /\ initialized /\ ctxTerminated /\ walker = NotWalking => \A i \in Ifcs : ifc[i].ended
  /\ initialized /\ ~ctxTerminated => \A i \in Ifcs : ifc[i].state = "live"

ContextInv == ContextTypes /\ Held /\ EndedInOrder

-----------------------------------------------------------------------------
LEMMA IfcNumbers ==
  /\ NumIn \in Nat /\ NumOut \in Nat /\ NumIn + NumOut > 0
  /\ \A i : i \in Ifcs <=> i \in Int /\ 1 <= i /\ i <= NumIn + NumOut
  BY ContextAssumption DEF Ifcs, Inputs, Outputs

LEMMA ContextInitInv == ContextInit => ContextInv
  <1> SUFFICES ASSUME ContextInit PROVE ContextInv
    OBVIOUS
  <1>1. Raw \in IfcStates /\ Raw.state = "raw"
    BY DEF Raw, IfcStates
  <1>2. /\ ifc \in [Ifcs -> IfcStates] /\ \A i \in Ifcs : ifc[i].state = "raw"
        /\ timeout \in [Ifcs -> Setters \cup {"set", "last"}]
    BY <1>1 DEF ContextInit, Setters
  <1>3. ContextTypes
    <2>1. made \in 0 .. NumIn + NumOut /\ walker \in 0 .. NumIn + NumOut
      BY IfcNumbers DEF ContextInit, NotWalking
    <2>2. phase \in Phases /\ threadState \in {"none", "running", "left", "joined"}
      BY DEF ContextInit, Phases
    <2>3. initialized \in BOOLEAN /\ ctxTerminated \in BOOLEAN
      BY DEF ContextInit
    <2> QED
      BY <1>2, <2>1, <2>2, <2>3 DEF ContextTypes
  <1>4. Held
    BY <1>2 DEF ContextInit, Held, NotWalking
  <1>5. EndedInOrder
    BY <1>2 DEF ContextInit, EndedInOrder, NotWalking
  <1> QED
    BY <1>3, <1>4, <1>5 DEF ContextInv

(* An interface keeps its state when it is told to end, and what is not    *)
(* live stays so when others are destroyed.                                *)
LEMMA EndedKeeps ==
  ASSUME ContextTypes, NEW is
  PROVE  /\ Ended(is) \in [Ifcs -> IfcStates]
         /\ \A i \in Ifcs : Ended(is)[i].state = ifc[i].state
         /\ \A i \in Ifcs : Ended(is)[i].ended <=> ifc[i].ended \/ i \in is
  BY DEF ContextTypes, Ended, IfcStates

LEMMA DestroyedKeeps ==
  ASSUME ContextTypes, NEW is
  PROVE  /\ Destroyed(is) \in [Ifcs -> IfcStates]
         /\ \A i \in Ifcs : Destroyed(is)[i].ended = ifc[i].ended
         /\ \A i \in Ifcs : Destroyed(is)[i].state = "live" <=>
                              ifc[i].state = "live" /\ i \notin is
  BY DEF ContextTypes, Destroyed, IfcStates

-----------------------------------------------------------------------------
(* The thread that owns the context, until the context works.              *)
LEMMA ConstructKeeps ==
  ASSUME ContextInv, InitBegin \/ ConstructInput \/ ConstructOutput \/ InitEnd
  PROVE  ContextInv'
  <1> USE IfcNumbers DEF ContextInv, ContextTypes, Held, EndedInOrder, Phases, NotWalking
  <1>1. CASE InitBegin
    <2>1. ContextTypes'
      BY <1>1 DEF InitBegin
    <2>2. Held'
      <3>1. \A i \in Ifcs : ifc[i].state \notin {"live", "dead"}
        BY <1>1 DEF InitBegin
      <3>2. \A i \in Ifcs : ~(i <= made)
        BY <1>1 DEF InitBegin
      <3> QED
        BY <1>1, <3>1, <3>2 DEF InitBegin
    <2>3. EndedInOrder'
      BY <1>1 DEF InitBegin
    <2> QED
      BY <2>1, <2>2, <2>3
  <1>2. ASSUME Constructed, made < NumIn + NumOut PROVE ContextInv'
    <2>1. made' \in Ifcs /\ Live \in IfcStates
      BY <1>2 DEF Constructed, Live, IfcStates
    <2>2. /\ ifc' \in [Ifcs -> IfcStates]
          /\ \A i \in Ifcs : ifc'[i] = IF i = made' THEN Live ELSE ifc[i]
      BY <1>2, <2>1 DEF Constructed
    <2>3. timeout' \in [Ifcs -> Setters \cup {"set", "last"}]
      BY <1>2, <2>1 DEF Constructed
    <2> QED
      BY <1>2, <2>1, <2>2, <2>3 DEF Constructed, Live
  <1>3. CASE ConstructInput
    BY <1>2, <1>3 DEF ConstructInput
  <1>4. CASE ConstructOutput
    BY <1>2, <1>4 DEF ConstructOutput
  <1>5. CASE InitEnd
    BY <1>5 DEF InitEnd
  <1> QED
    BY <1>1, <1>3, <1>4, <1>5

LEMMA FailKeeps ==
  ASSUME ContextInv, ConstructFails
  PROVE  ContextInv'
  <1> USE IfcNumbers DEF ContextInv
  <1>1. ifc' \in [Ifcs -> IfcStates] /\ \A i \in Ifcs : ifc'[i].state # "live"
    <2>1. CASE ifc' = Destroyed(Ifcs)
      BY <2>1, DestroyedKeeps
    <2>2. CASE ifc' = [i \in Ifcs |-> IF i \in Outputs /\ ifc[i].state = "live"
                                      THEN [ifc[i] EXCEPT !.state = "lost"]
                                      ELSE Destroyed(Inputs)[i]]
      <3>1. \A i \in Ifcs : i \in Inputs \/ i \in Outputs
        BY DEF Ifcs
      <3>2. \A i \in Ifcs : [ifc[i] EXCEPT !.state = "lost"] \in IfcStates
        BY DEF ContextTypes, IfcStates
      <3>3. \A i \in Ifcs : [ifc[i] EXCEPT !.state = "lost"].state = "lost"
        BY DEF ContextTypes, IfcStates
      <3> QED
        BY SMTT(60), <2>2, <3>1, <3>2, <3>3, DestroyedKeeps
    <2> QED
      BY <2>1, <2>2 DEF ConstructFails
  <1> QED
    BY <1>1 DEF ConstructFails, ContextTypes, Held, EndedInOrder, Phases, NotWalking

(* A timeout is set, or is not, and nothing else changes.                  *)
LEMMA SetTimeoutType ==
  ASSUME ContextTypes, NEW i \in Ifcs, NEW t \in {"set", "last"}, SetTimeout(i, t)
  PROVE  timeout' \in [Ifcs -> Setters \cup {"set", "last"}]
  BY DEF ContextTypes, SetTimeout

LEMMA IfcCtlKeeps ==
  ASSUME ContextInv, NEW i \in Ifcs, IfcCtl(i)
  PROVE  ContextInv'
  BY SetTimeoutType DEF ContextInv, ContextTypes, Held, EndedInOrder, IfcCtl, Phases

-----------------------------------------------------------------------------
(* Termination, by the owner or by another thread.                         *)
LEMMA TerminateKeeps ==
  ASSUME ContextInv, TerminateOwn \/ TerminateOther \/ TerminateWalk \/ ServiceLeaves
  PROVE  ContextInv'
  <1> USE IfcNumbers DEF ContextInv
  <1>1. CASE TerminateOwn
    BY <1>1, EndedKeeps
    DEF TerminateOwn, ContextTypes, Held, EndedInOrder, Phases, NotWalking
  <1>2. CASE TerminateOther
    BY <1>2 DEF TerminateOther, ContextTypes, Held, EndedInOrder, Phases, NotWalking
  <1>3. CASE TerminateWalk
    <2>1. /\ ifc' \in [Ifcs -> IfcStates]
          /\ \A i \in Ifcs : ifc'[i].state = ifc[i].state
          /\ \A i \in Ifcs : ifc'[i].ended <=> ifc[i].ended \/ i = walker
      BY <1>3, EndedKeeps DEF TerminateWalk
    <2>2. ContextTypes'
      <3>1. walker' \in 0 .. NumIn + NumOut
        BY <1>3 DEF TerminateWalk, ContextTypes, NotWalking
      <3> QED
        BY <1>3, <2>1, <3>1 DEF TerminateWalk, ContextTypes
    <2>3. Held'
      BY <1>3, <2>1 DEF TerminateWalk, Held, NotWalking
    <2>4. walker \in Ifcs /\ \A i \in Ifcs : i <= walker => ifc'[i].ended
      <3>1. walker \in Ifcs
        BY <1>3 DEF TerminateWalk, ContextTypes, NotWalking
      <3>2. \A i \in Ifcs : i < walker => ifc[i].ended
        BY <1>3 DEF TerminateWalk, EndedInOrder, NotWalking
      <3>3. \A i \in Ifcs : i <= walker => i < walker \/ i = walker
        BY <3>1
      <3> QED
        BY <2>1, <3>1, <3>2, <3>3
    <2>5. EndedInOrder'
      <3>1. initialized' = initialized /\ phase' = phase /\ ctxTerminated' /\ ctxTerminated
        BY <1>3 DEF TerminateWalk, EndedInOrder, NotWalking
      <3>2. walker' # NotWalking => \A i \in Ifcs : i < walker' => ifc'[i].ended
        BY <1>3, <2>4 DEF TerminateWalk, NotWalking
      <3>3. walker' = NotWalking => \A i \in Ifcs : ifc'[i].ended
        <4>1. walker' = NotWalking => walker = NumIn + NumOut
          BY <1>3 DEF TerminateWalk, ContextTypes, NotWalking
        <4> QED
          BY <4>1, <2>4
      <3> QED
        BY <3>1, <3>2, <3>3 DEF EndedInOrder
    <2> QED
      BY <2>2, <2>3, <2>5
  <1>4. CASE ServiceLeaves
    BY <1>4 DEF ServiceLeaves, ContextTypes, Held, EndedInOrder, Phases, NotWalking
  <1> QED
    BY <1>1, <1>2, <1>3, <1>4

-----------------------------------------------------------------------------
(* trap_ctx_finalize.                                                      *)
LEMMA FinalizeKeeps ==
  ASSUME ContextInv,
         FinalizeFailed \/ FinalizeBegin \/ FinalizeFlush \/ FinalizeTerminate \/ FinalizeJoin
  PROVE  ContextInv'
  <1> USE IfcNumbers DEF ContextInv
  <1>1. CASE FinalizeFailed
    BY <1>1 DEF FinalizeFailed, ContextTypes, Held, EndedInOrder, Phases, NotWalking
  <1>2. CASE FinalizeBegin
    BY <1>2 DEF FinalizeBegin, ContextTypes, Held, EndedInOrder, Phases, NotWalking
  <1>3. CASE FinalizeFlush
    <2>1. NumIn + made' \in Ifcs /\ made' \in 0 .. NumIn + NumOut
      BY <1>3 DEF FinalizeFlush, ContextTypes
    <2>2. timeout' \in [Ifcs -> Setters \cup {"set", "last"}]
      BY <1>3, <2>1, SetTimeoutType DEF FinalizeFlush
    <2> QED
      BY <1>3, <2>1, <2>2
      DEF FinalizeFlush, ContextTypes, Held, EndedInOrder, Phases, NotWalking
  <1>4. CASE FinalizeTerminate
    <2>1. /\ ifc' \in [Ifcs -> IfcStates]
          /\ \A i \in Ifcs : ifc'[i].state = ifc[i].state
          /\ \A i \in Ifcs : ifc[i].ended => ifc'[i].ended
          /\ ~ctxTerminated => \A i \in Ifcs : ifc'[i].ended
      BY <1>4, EndedKeeps DEF FinalizeTerminate, ContextTypes
    <2>2. ctxTerminated'
      BY <1>4 DEF FinalizeTerminate, ContextTypes
    <2>3. ContextTypes'
      BY <1>4, <2>1, <2>2 DEF FinalizeTerminate, ContextTypes, Phases
    <2>4. Held'
      BY <1>4, <2>1 DEF FinalizeTerminate, Held, NotWalking
    <2>5. EndedInOrder'
      BY <1>4, <2>1, <2>2 DEF FinalizeTerminate, EndedInOrder, NotWalking
    <2> QED
      BY <2>3, <2>4, <2>5
  <1>5. CASE FinalizeJoin
    BY <1>5 DEF FinalizeJoin, ContextTypes, Held, EndedInOrder, Phases, NotWalking
  <1> QED
    BY <1>1, <1>2, <1>3, <1>4, <1>5

LEMMA FreeKeeps ==
  ASSUME ContextInv, FinalizeFree
  PROVE  ContextInv'
  <1> USE IfcNumbers DEF ContextInv
  <1>1. made' \in Ifcs /\ made' = made + 1
    BY DEF FinalizeFree, ContextTypes, Held
  <1>2. /\ ifc' \in [Ifcs -> IfcStates]
        /\ \A i \in Ifcs : ifc'[i].ended = ifc[i].ended
        /\ \A i \in Ifcs : ifc'[i].state = "live" <=> ifc[i].state = "live" /\ i # made'
    BY DestroyedKeeps DEF FinalizeFree
  <1>3. ContextTypes'
    <2>1. made' \in 0 .. NumIn + NumOut
      BY <1>1
    <2>2. phase' \in Phases
      BY DEF FinalizeFree, Phases
    <2> QED
      BY <1>2, <2>1, <2>2 DEF FinalizeFree, ContextTypes
  <1>4. Held'
    <2>1. \A i \in Ifcs : i <= made' => ifc'[i].state # "live"
      <3>1. \A i \in Ifcs : i <= made => ifc[i].state # "live"
        BY DEF FinalizeFree, Held
      <3>2. \A i \in Ifcs : i <= made' => i <= made \/ i = made'
        BY <1>1 DEF ContextTypes
      <3> QED
        BY <1>2, <3>1, <3>2
    <2>2. /\ threadState' # "running"
          /\ phase' \in {"freeing", "gone"} /\ (phase' = "freeing" => made' < NumIn + NumOut)
      BY <1>1 DEF FinalizeFree, ContextTypes, Held
    <2>3. phase' = "gone" => \A i \in Ifcs : ifc'[i].state # "live"
      BY <1>1, <2>1 DEF FinalizeFree
    <2> QED
      BY <2>1, <2>2, <2>3 DEF Held
  <1>5. EndedInOrder'
    BY <1>2 DEF FinalizeFree, EndedInOrder
  <1> QED
    BY <1>3, <1>4, <1>5

-----------------------------------------------------------------------------
LEMMA ContextNextInv == ContextInv /\ [ContextNext]_contextVars => ContextInv'
  <1> SUFFICES ASSUME ContextInv, [ContextNext]_contextVars PROVE ContextInv'
    OBVIOUS
  <1>1. CASE UNCHANGED contextVars
    BY <1>1 DEF contextVars, ContextInv, ContextTypes, Held, EndedInOrder
  <1>2. CASE ContextNext
    BY <1>2, ConstructKeeps, FailKeeps, IfcCtlKeeps, TerminateKeeps, FinalizeKeeps,
       FreeKeeps DEF ContextNext
  <1> QED
    BY <1>1, <1>2

(* The inductive invariant of the context (trap.c): what is constructed,   *)
(* who runs, and which interfaces were told to end, in every phase.        *)
THEOREM ContextInvariance == ContextSpec => []ContextInv
  BY ContextInitInv, ContextNextInv, PTL DEF ContextSpec

(* While the service thread runs no interface is gone; none is destroyed   *)
(* before it was told to end, but in a failed init or under a terminating  *)
(* thread; none lives on when the context is freed (trap_ctx_finalize).    *)
THEOREM ContextEndsClean == ContextSpec => []CleanEnd
  <1>1. ContextInv => CleanEnd
    BY DEF ContextInv, ContextTypes, Held, EndedInOrder, CleanEnd
  <1> QED
    BY <1>1, ContextInvariance, PTL
=============================================================================
