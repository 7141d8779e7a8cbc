---------------------------- MODULE FastHashTable ----------------------------
(***************************************************************************)
(* The fast hash table of nemea-common: rows of four columns and a stash,  *)
(* each row and the stash under a spin lock of its own.  A full row gives  *)
(* up its least recently used item, to the stash or to the caller.         *)
(* Threads call it at once; between two calls a thread may hold the lock of*)
(* a row or of the stash, and then only uses what it holds.                *)
(***************************************************************************)
EXTENDS Integers, Sequences

CONSTANTS FhtThreads, FhtKeys,
  HashRow,        \* the row a key belongs to, in 1 .. TableRows
  TableRows, StashSize, FhtStashed,   \* whether the calls are those that use the stash
  NoKey           \* in a column or slot: its free flag is 0

ASSUME FhtAssumption ==
  /\ TableRows \in Nat \ {0} /\ StashSize \in Nat /\ FhtStashed \in BOOLEAN
  /\ HashRow \in [FhtKeys -> 1 .. TableRows] /\ NoKey \notin FhtKeys
  /\ "free" \notin FhtThreads

VARIABLES
  table,      \* of each row: its columns and its replacement vector
  stash, stashIndex,
  lock,       \* who holds row r, or the stash (number 0)
  caller,     \* of each thread: what it is doing
  used,       \* of each row: the pairs of its keys of which the first was used last
  owed,       \* keys inserted, and neither removed nor given back
  notGiven      \* of each iterating thread: keys it has still to be given

fhtVars == <<table, stash, stashIndex, lock, caller, used, owed, notGiven>>

Cols == 1 .. 4
TableRow == 1 .. TableRows
Stash == 0
Slots == 1 .. StashSize
Free == "free"

Idle == [pc |-> "idle", key |-> NoKey, row |-> Stash, col |-> 0, replace |-> FALSE]

FhtInit ==
  /\ table = [r \in TableRow |-> [col |-> [c \in Cols |-> NoKey], vector |-> 27]]
  /\ stash = [i \in Slots |-> NoKey] /\ stashIndex = 1
  /\ lock = [r \in {Stash} \cup TableRow |-> Free]
  /\ caller = [t \in FhtThreads |-> Idle]
  /\ used = [r \in TableRow |-> {}] /\ owed = {}
  /\ notGiven = [t \in FhtThreads |-> {}]

-----------------------------------------------------------------------------
(* The lookup tables, indexed by the replacement vector (two bits a column,*)
(* 0 for the newest item) and by the column used, or emptied.              *)
Vectors == {27, 30, 39, 45, 54, 57, 75, 78, 99, 108, 114, 120, 135, 141, 147, 156,
            177, 180, 198, 201, 210, 216, 225, 228}

ReplacementVector == [v \in Vectors |-> CASE
  v = 27 -> <<108, 99, 75, 27>> [] v = 30 -> <<108, 99, 78, 30>> [] v = 39 -> <<120, 99, 75, 39>>
  [] v = 45 -> <<108, 114, 78, 45>> [] v = 54 -> <<120, 114, 75, 54>> [] v = 57 -> <<120, 114, 78, 57>>
  [] v = 75 -> <<156, 147, 75, 27>> [] v = 78 -> <<156, 147, 78, 30>> [] v = 99 -> <<180, 99, 135, 39>>
  [] v = 108 -> <<108, 177, 141, 45>> [] v = 114 -> <<180, 114, 135, 54>> [] v = 120 -> <<120, 177, 141, 57>>
  [] v = 135 -> <<216, 147, 135, 27>> [] v = 141 -> <<156, 210, 141, 30>> [] v = 147 -> <<228, 147, 135, 39>>
  [] v = 156 -> <<156, 225, 141, 45>> [] v = 177 -> <<180, 177, 198, 54>> [] v = 180 -> <<180, 177, 201, 57>>
  [] v = 198 -> <<216, 210, 198, 27>> [] v = 201 -> <<216, 210, 201, 30>> [] v = 210 -> <<228, 210, 198, 39>>
  [] v = 216 -> <<216, 225, 201, 45>> [] v = 225 -> <<228, 225, 198, 54>> [] v = 228 -> <<228, 225, 201, 57>>]

ReplacementVectorRemove == [v \in Vectors |-> CASE
  v = 27 -> <<27, 30, 54, 198>> [] v = 30 -> <<27, 30, 57, 201>> [] v = 39 -> <<39, 30, 54, 210>>
  [] v = 45 -> <<27, 45, 57, 216>> [] v = 54 -> <<39, 45, 54, 225>> [] v = 57 -> <<39, 45, 57, 228>>
  [] v = 75 -> <<75, 78, 54, 198>> [] v = 78 -> <<75, 78, 57, 201>> [] v = 99 -> <<99, 30, 114, 210>>
  [] v = 108 -> <<27, 108, 120, 216>> [] v = 114 -> <<99, 45, 114, 225>> [] v = 120 -> <<39, 108, 120, 228>>
  [] v = 135 -> <<135, 78, 114, 198>> [] v = 141 -> <<75, 141, 120, 201>> [] v = 147 -> <<147, 78, 114, 210>>
  [] v = 156 -> <<75, 156, 120, 216>> [] v = 177 -> <<99, 108, 177, 225>> [] v = 180 -> <<99, 108, 180, 228>>
  [] v = 198 -> <<135, 141, 177, 198>> [] v = 201 -> <<135, 141, 180, 201>> [] v = 210 -> <<147, 141, 177, 210>>
  [] v = 216 -> <<135, 156, 180, 216>> [] v = 225 -> <<147, 156, 177, 225>> [] v = 228 -> <<147, 156, 180, 228>>]

Age(vector, c) == (vector \div (CASE c = 1 -> 1 [] c = 2 -> 4 [] c = 3 -> 16 [] c = 4 -> 64)) % 4
ReplacementIndex(vector) == CHOOSE c \in Cols : Age(vector, c) = 3
FreeColumn(row) == CHOOSE c \in Cols : row.col[c] = NoKey /\ \A d \in 1 .. c - 1 : row.col[d] # NoKey

-----------------------------------------------------------------------------
(* What a call does to a row it has locked.                                *)
Held(cols) == {cols[c] : c \in DOMAIN cols} \ {NoKey}
RowFull(r) == NoKey \notin {table[r].col[c] : c \in Cols}
Column(r, k) == CHOOSE c \in Cols : table[r].col[c] = k

Touched(r, c) == [table EXCEPT ![r].vector = ReplacementVector[@][c]]
Emptied(r, c) == [table EXCEPT ![r].vector = ReplacementVectorRemove[@][c], ![r].col[c] = NoKey]
Filled(r, c, k) == [table EXCEPT ![r].vector = ReplacementVector[@][c], ![r].col[c] = k]

Content == (UNION {Held(table[r].col) : r \in TableRow}) \cup Held(stash)

(* An iteration is owed the keys that have been there since it began.      *)
Missing(given) == notGiven' = [t \in FhtThreads |-> (notGiven[t] \cap Content') \ given[t]]
NothingGiven == Missing([t \in FhtThreads |-> {}])

Becomes(t, c) == caller' = [caller EXCEPT ![t] = c]
InRow(k) == k \in Held(table[HashRow[k]].col)

(* k is used after the others of its row, from which gone has gone.        *)
Forget(pairs, gone) == {p \in pairs : p[1] # gone /\ p[2] # gone}
UsedLast(r, k, gone) ==
  used' = [used EXCEPT ![r] = Forget(@, gone) \cup {<<k, l>> : l \in Held(table[r].col) \ {gone}}]

(* The item is found: it becomes the newest.                               *)
Use(k) ==
  LET r == HashRow[k] IN
  /\ table' = Touched(r, Column(r, k)) /\ UsedLast(r, k, k)

TakeOut(r, c) ==
  /\ table' = Emptied(r, c)
  /\ used' = [used EXCEPT ![r] = Forget(@, table[r].col[c])]
  /\ owed' = owed \ {table[r].col[c]}

-----------------------------------------------------------------------------
(* fht_insert, fht_insert_wr (which does not replace), and the two that    *)
(* use the stash.                                                          *)
Store(k, c) ==
  LET r == HashRow[k] IN
  /\ table' = Filled(r, c, k) /\ UsedLast(r, k, table[r].col[c])

(* A free column takes the key.  In a full row the oldest item gives way:  *)
(* to the stash, at its index, where it may push another one out, or, when *)
(* nothing may be replaced, to the first free slot, if there is one.       *)
FhtInsert(k, replace) ==
  LET r == HashRow[k]
      c == ReplacementIndex(table[r].vector)
      old == table[r].col[c]
      Moved(i) ==
        /\ stash' = [stash EXCEPT ![i] = old] /\ stashIndex' = (stashIndex % StashSize) + 1
        /\ Store(k, c)
  IN IF ~RowFull(r) THEN
       /\ Store(k, FreeColumn(table[r])) /\ owed' = owed \cup {k}
       /\ UNCHANGED <<stash, stashIndex>>
     ELSE IF FhtStashed /\ StashSize > 0 THEN
       /\ lock[Stash] = Free
       /\ IF replace THEN Moved(stashIndex) /\ owed' = (owed \cup {k}) \ {stash[stashIndex]}
          ELSE IF NoKey \in {stash[i] : i \in Slots}
                 THEN /\ Moved(CHOOSE i \in Slots : stash[i] = NoKey /\ \A j \in 1 .. i - 1 : stash[j] # NoKey)
                      /\ owed' = owed \cup {k}
                 ELSE UNCHANGED <<table, used, stash, stashIndex, owed>>
     ELSE
       /\ IF replace THEN Store(k, c) /\ owed' = (owed \cup {k}) \ {old}
                     ELSE UNCHANGED <<table, used, owed>>
       /\ UNCHANGED <<stash, stashIndex>>

(* The row is locked and searched; without the stash the call ends in it.  *)
InsertBegin(t, k, replace) ==
  /\ caller[t] = Idle /\ lock[HashRow[k]] = Free
  /\ IF InRow(k) THEN Use(k) /\ UNCHANGED <<stash, stashIndex, owed, lock, caller>>
     ELSE IF FhtStashed
       THEN /\ lock' = [lock EXCEPT ![HashRow[k]] = t]
            /\ Becomes(t, [Idle EXCEPT !.pc = "search", !.key = k, !.replace = replace])
            /\ UNCHANGED <<table, used, stash, stashIndex, owed>>
     ELSE FhtInsert(k, replace) /\ UNCHANGED <<lock, caller>>
  /\ NothingGiven

InsertSearchBug(t) ==                   \* the stash is not searched
  /\ caller[t].pc = "search" /\ lock[Stash] = Free
  /\ Becomes(t, [caller[t] EXCEPT !.pc = "store"])
  /\ UNCHANGED <<table, stash, stashIndex, lock, used, owed, notGiven>>

(* Then the stash is searched under its own lock, which is given back ...  *)
InsertSearch(t) ==
  /\ caller[t].pc = "search" /\ lock[Stash] = Free
  /\ IF caller[t].key \in Held(stash)
       THEN lock' = [lock EXCEPT ![HashRow[caller[t].key]] = Free] /\ Becomes(t, Idle)
       ELSE Becomes(t, [caller[t] EXCEPT !.pc = "store"]) /\ UNCHANGED lock
  /\ UNCHANGED <<table, stash, stashIndex, used, owed, notGiven>>

(* ... and taken again for what the row gives up.                          *)
InsertStore(t) ==
  /\ caller[t].pc = "store"
  /\ FhtInsert(caller[t].key, caller[t].replace)
  /\ lock' = [lock EXCEPT ![HashRow[caller[t].key]] = Free] /\ Becomes(t, Idle)
  /\ NothingGiven

-----------------------------------------------------------------------------
(* fht_get_data and its variants: keep the lock of where the item is, or do*)
(* not.  The row is given back before the stash is searched.               *)
Get(t, k, keep) ==
  /\ caller[t] = Idle /\ lock[HashRow[k]] = Free
  /\ IF InRow(k)
       THEN /\ Use(k)
            /\ IF keep THEN /\ lock' = [lock EXCEPT ![HashRow[k]] = t]
                            /\ Becomes(t, [Idle EXCEPT !.pc = "holds", !.key = k, !.row = HashRow[k]])
                       ELSE UNCHANGED <<lock, caller>>
       ELSE /\ Becomes(t, IF FhtStashed /\ keep THEN [Idle EXCEPT !.pc = "get", !.key = k] ELSE Idle)
            /\ UNCHANGED <<table, used, lock>>
  /\ UNCHANGED <<stash, stashIndex, owed, notGiven>>

GetStash(t) ==
  /\ caller[t].pc = "get" /\ lock[Stash] = Free
  /\ IF caller[t].key \in Held(stash)
       THEN /\ lock' = [lock EXCEPT ![Stash] = t]
            /\ Becomes(t, [caller[t] EXCEPT !.pc = "holds"])
       ELSE Becomes(t, Idle) /\ UNCHANGED lock
  /\ UNCHANGED <<table, stash, stashIndex, used, owed, notGiven>>

UnlockData(t) ==
  /\ caller[t].pc = "holds"
  /\ lock' = [lock EXCEPT ![caller[t].row] = Free] /\ Becomes(t, Idle)
  /\ UNCHANGED <<table, stash, stashIndex, used, owed, notGiven>>

Unstash(k) ==
  /\ stash' = [i \in Slots |-> IF stash[i] = k THEN NoKey ELSE stash[i]]
  /\ owed' = owed \ (Held(stash) \cap {k})

(* fht_remove_locked of the item whose lock was kept: it is given back.    *)
RemoveLocked(t) ==
  /\ caller[t].pc = "holds"
  /\ IF caller[t].row = Stash THEN Unstash(caller[t].key) /\ UNCHANGED <<table, used>>
     ELSE TakeOut(caller[t].row, Column(caller[t].row, caller[t].key)) /\ UNCHANGED stash
  /\ lock' = [lock EXCEPT ![caller[t].row] = Free] /\ Becomes(t, Idle)
  /\ UNCHANGED stashIndex /\ NothingGiven

(* fht_remove and fht_remove_with_stash.                                   *)
RemoveBegin(t, k) ==
  /\ caller[t] = Idle /\ lock[HashRow[k]] = Free
  /\ IF InRow(k) THEN TakeOut(HashRow[k], Column(HashRow[k], k)) /\ UNCHANGED caller
     ELSE /\ Becomes(t, IF FhtStashed THEN [Idle EXCEPT !.pc = "remove", !.key = k] ELSE Idle)
          /\ UNCHANGED <<table, used, owed>>
  /\ UNCHANGED <<stash, stashIndex, lock>> /\ NothingGiven

RemoveStash(t) ==
  /\ caller[t].pc = "remove" /\ lock[Stash] = Free
  /\ Unstash(caller[t].key) /\ Becomes(t, Idle)
  /\ UNCHANGED <<table, stashIndex, used, lock>> /\ NothingGiven

(* fht_clear: row after row, then the stash; the vectors stay as they are. *)
FhtClear(t) ==
  /\ \/ caller[t] = Idle
     \/ caller[t].pc = "clear"
  /\ LET r == IF caller[t] = Idle THEN 1 ELSE caller[t].row + 1 IN
     /\ lock[IF r > TableRows THEN Stash ELSE r] = Free
     /\ IF r > TableRows
          THEN /\ stash' = [i \in Slots |-> NoKey] /\ owed' = owed \ Held(stash)
               /\ Becomes(t, Idle) /\ UNCHANGED <<table, used>>
          ELSE /\ table' = [table EXCEPT ![r].col = [c \in Cols |-> NoKey]]
               /\ used' = [used EXCEPT ![r] = {}] /\ owed' = owed \ Held(table[r].col)
               /\ Becomes(t, [Idle EXCEPT !.pc = "clear", !.row = r]) /\ UNCHANGED stash
  /\ UNCHANGED <<stashIndex, lock>> /\ NothingGiven

-----------------------------------------------------------------------------
(* The iterator: between two calls it holds the lock of the row, or of the *)
(* stash, its item is in.                                                  *)
Place(r) == IF r = Stash THEN stash ELSE table[r].col
NextCol(r, c) == LET after == {d \in DOMAIN Place(r) : d > c /\ Place(r)[d] # NoKey}
              IN IF after = {} THEN 0 ELSE CHOOSE d \in after : \A e \in after : d <= e

(* It stands on the next item of r, which stays locked, or goes on, to the *)
(* next row, the stash, the end.                                           *)
GoOn(t, r, c) ==
  LET d == NextCol(r, c) IN
  IF d # 0
    THEN /\ lock' = [lock EXCEPT ![r] = t]
         /\ Becomes(t, [Idle EXCEPT !.pc = "iter", !.row = r, !.col = d])
         /\ Missing([s \in FhtThreads |-> IF s = t THEN {Place(r)[d]} ELSE {}])
    ELSE /\ lock' = [lock EXCEPT ![r] = Free]
         /\ Becomes(t, IF r = Stash THEN [Idle EXCEPT !.pc = "end"]
                       ELSE [Idle EXCEPT !.pc = "scan", !.row = IF r = TableRows THEN Stash ELSE r + 1])
         /\ NothingGiven

IterStart(t) ==
  /\ caller[t] = Idle
  /\ Becomes(t, [Idle EXCEPT !.pc = "scan", !.row = 1])
  /\ notGiven' = [notGiven EXCEPT ![t] = Content]
  /\ UNCHANGED <<table, stash, stashIndex, lock, used, owed>>

IterScanBug(t) ==                       \* a row that is locked by another thread is passed over
  /\ caller[t].pc = "scan"
  /\ UNCHANGED <<table, stash, stashIndex, used, owed>>
  /\ IF lock[caller[t].row] = Free THEN GoOn(t, caller[t].row, 0)
     ELSE /\ Becomes(t, IF caller[t].row = Stash THEN [Idle EXCEPT !.pc = "end"]
                        ELSE [caller[t] EXCEPT !.row = (@ + 1) % (TableRows + 1)])
          /\ NothingGiven /\ UNCHANGED lock

IterScan(t) ==
  /\ caller[t].pc = "scan" /\ lock[caller[t].row] = Free
  /\ UNCHANGED <<table, stash, stashIndex, used, owed>>
  /\ GoOn(t, caller[t].row, 0)

IterNext(t) ==
  /\ caller[t].pc = "iter"
  /\ UNCHANGED <<table, stash, stashIndex, used, owed>>
  /\ GoOn(t, caller[t].row, caller[t].col)

IterRemove(t) ==
  /\ caller[t].pc = "iter" /\ Place(caller[t].row)[caller[t].col] # NoKey
  /\ IF caller[t].row = Stash THEN Unstash(stash[caller[t].col]) /\ UNCHANGED <<table, used>>
     ELSE TakeOut(caller[t].row, caller[t].col) /\ UNCHANGED stash
  /\ UNCHANGED <<stashIndex, lock, caller>> /\ NothingGiven

(* fht_reinit_iter and fht_destroy_iter.                                   *)
IterEnd(t) ==
  /\ caller[t].pc \in {"iter", "end"}
  /\ lock' = IF caller[t].pc = "iter" THEN [lock EXCEPT ![caller[t].row] = Free] ELSE lock
  /\ Becomes(t, Idle) /\ notGiven' = [notGiven EXCEPT ![t] = {}]
  /\ UNCHANGED <<table, stash, stashIndex, used, owed>>

-----------------------------------------------------------------------------
FhtNext ==
  \E t \in FhtThreads :
    \/ \E k \in FhtKeys :
         \/ \E replace \in BOOLEAN : InsertBegin(t, k, replace)
         \/ \E keep \in BOOLEAN : Get(t, k, keep)
         \/ RemoveBegin(t, k)
    \/ InsertSearch(t) \/ InsertStore(t) \/ GetStash(t) \/ UnlockData(t)
    \/ RemoveLocked(t) \/ RemoveStash(t) \/ FhtClear(t)
    \/ IterStart(t) \/ IterScan(t) \/ IterNext(t) \/ IterRemove(t) \/ IterEnd(t)

FhtSpec == FhtInit /\ [][FhtNext]_fhtVars

-----------------------------------------------------------------------------
(* Whatever the threads do at once, an item that was inserted is in the    *)
(* table, in one place, until it is removed or handed to the caller as     *)
(* lost; and a full row gives up the item that was used least recently, as *)
(* its replacement vector orders its items by their last use.              *)
KeptInOrder ==
  /\ Content = owed
  /\ \A r \in TableRow :
       LET full == {c \in Cols : table[r].col[c] # NoKey} IN
       /\ Held(table[r].col) \cap Held(stash) = {}
       /\ \A c, d \in full :
            /\ c # d => table[r].col[c] # table[r].col[d]
            /\ Age(table[r].vector, c) < Age(table[r].vector, d)
                 <=> <<table[r].col[c], table[r].col[d]>> \in used[r]
  /\ \A i, j \in Slots : i # j /\ stash[i] # NoKey => stash[i] # stash[j]

(* An iteration that came to its end was given every item that was in the  *)
(* table all the time, even one another thread moved to the stash meanwhile*)
IterationComplete == \A t \in FhtThreads : caller[t].pc = "end" => notGiven[t] = {}

-----------------------------------------------------------------------------
(* The inductive invariant behind the two.                                 *)
FhtCalls ==
  [pc : {"idle", "search", "store", "get", "remove", "holds", "clear", "scan", "iter", "end"},
   key : FhtKeys \cup {NoKey}, row : {Stash} \cup TableRow, col : Nat, replace : BOOLEAN]

FhtStoreType ==
  /\ table \in [TableRow -> [col : [Cols -> FhtKeys \cup {NoKey}], vector : Vectors]]
  /\ stash \in [Slots -> FhtKeys \cup {NoKey}]
  /\ stashIndex \in Nat /\ (StashSize > 0 => stashIndex \in Slots)
  /\ used \in [TableRow -> SUBSET (FhtKeys \X FhtKeys)] /\ owed \in SUBSET FhtKeys

FhtCallType ==
  /\ lock \in [{Stash} \cup TableRow -> FhtThreads \cup {Free}]
  /\ caller \in [FhtThreads -> FhtCalls] /\ notGiven \in [FhtThreads -> SUBSET FhtKeys]

FhtTypeOK == FhtStoreType /\ FhtCallType

(* An item is in its row or in the stash, once, and the vector orders the  *)
(* items of its row as they were used.                                     *)
Ordered(col, vector, pairs) ==
  /\ \A c, d \in Cols : col[c] # NoKey /\ col[d] # NoKey =>
       /\ c # d => col[c] # col[d]
       /\ Age(vector, c) < Age(vector, d) <=> <<col[c], col[d]>> \in pairs
  /\ \A p \in pairs : p[1] \in Held(col) /\ p[2] \in Held(col)

RowInOrder(r) ==
  /\ Ordered(table[r].col, table[r].vector, used[r])
  /\ \A k \in Held(table[r].col) : HashRow[k] = r /\ k \notin Held(stash)

StashInOrder ==
  /\ \A i, j \in Slots : i # j /\ stash[i] # NoKey => stash[i] # stash[j]
  /\ ~FhtStashed => Held(stash) = {}

Sound == StashInOrder /\ \A r \in TableRow : RowInOrder(r)

(* The rows, or the stash, that a thread has locked.                       *)
Guarded(t) ==
  CASE caller[t].pc \in {"search", "store"} -> {HashRow[caller[t].key]}
    [] caller[t].pc \in {"holds", "iter"}   -> {caller[t].row}
    [] OTHER                                -> {}
LocksMatch == \A t \in FhtThreads : \A r \in DOMAIN lock : lock[r] = t <=> r \in Guarded(t)

(* What a thread has seen in the places it has locked is still so, and the *)
(* keys an iteration has still to be given are ahead of it.                *)
Later(r, c) ==
  {k \in FhtKeys :
     \/ \E d \in DOMAIN Place(r) : d > c /\ Place(r)[d] = k
     \/ /\ r # Stash
        /\ k \in Held(stash) \/ \E q \in TableRow : q > r /\ k \in Held(table[q].col)}

CallRight(t) ==
  /\ caller[t].pc \in {"search", "store", "get", "remove", "holds"} => caller[t].key \in FhtKeys
  /\ caller[t].pc = "search" => FhtStashed /\ ~InRow(caller[t].key)
  /\ caller[t].pc = "store" => FhtStashed /\ caller[t].key \notin Content
  /\ caller[t].pc = "holds" =>
       /\ caller[t].key \in Held(Place(caller[t].row))
       /\ caller[t].row # Stash => caller[t].row = HashRow[caller[t].key]
  /\ caller[t].pc = "get" => caller[t].row = Stash
  /\ caller[t].pc = "scan" => caller[t].col = 0
  /\ caller[t].pc = "iter" => caller[t].col \in DOMAIN Place(caller[t].row)
  /\ notGiven[t] \subseteq IF caller[t].pc \in {"scan", "iter"}
                             THEN Later(caller[t].row, caller[t].col) ELSE {}

FhtInv ==
  FhtTypeOK /\ Sound /\ Content = owed /\ LocksMatch /\ \A t \in FhtThreads : CallRight(t)
=============================================================================
