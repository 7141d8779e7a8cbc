----------------------------- MODULE CuckooHash -----------------------------
(***************************************************************************)
(* The cuckoo hash table (cuckoo_hash.c).  A key has three places in a     *)
(* table; a key put into a place that is taken kicks out the one there,    *)
(* which goes to its next place and may kick in turn, 15 times at most.    *)
(* The data are stored with the key and are left out.                      *)
(***************************************************************************)
EXTENDS Integers, SequencesExt

CONSTANTS
  CkKeys,        \* keys
  CkHashes,      \* a key's three hashes, before the remainder by the size
  CkSize,        \* size of a new table
  CkMaxRows,     \* bound of the model: size to which a table grows
  CkNone         \* an empty item

ASSUME CuckooAssumption ==
  /\ CkSize \in Nat \ {0} /\ CkMaxRows \in Nat /\ CkNone \notin CkKeys
  /\ CkHashes \in [CkKeys -> Seq(Nat)] /\ \A k \in CkKeys : Len(CkHashes[k]) = 3

VARIABLES
  ckTable,       \* table
  ckRehash,      \* rehash: TRUE for REHASH_ENABLE
  ckCount,       \* item_count
  ckOwed,        \* history: the keys that the caller inserted and did not remove
  ckRefused      \* history: how many of them insertions have told to be missing

cuckooVars == <<ckTable, ckRehash, ckCount, ckOwed, ckRefused>>

CkAttempts == [i \in 1 .. 15 |-> i]

(* hash_1, hash_2 and hash_3.                                              *)
CkPlace(k, i, size) == (CkHashes[k][i] % size) + 1
CkPlaces(k, size) == [i \in 1 .. 3 |-> CkPlace(k, i, size)]

CkEmpty(size) == [i \in 1 .. size |-> CkNone]
CkItems(items) == SelectSeq(items, LAMBDA k : k # CkNone)

CuckooInit ==
  /\ ckTable = CkEmpty(CkSize) /\ ckRehash \in BOOLEAN
  /\ ckCount = 0 /\ ckOwed = {} /\ ckRefused = 0

-----------------------------------------------------------------------------
(* Where a kicked key goes: the place after the one it had.                *)
CkElsewhere(k, place, size) ==
  LET p == CkPlaces(k, size) IN
  IF p[1] = place THEN p[2] ELSE IF p[2] = place THEN p[3] ELSE p[1]

(* One attempt: curr takes its place, and what was there becomes curr.     *)
CkKick(s) ==
  LET prev == s.items[s.place]
      taken == [s EXCEPT !.items[s.place] = s.curr, !.curr = prev]
  IN IF s.curr = CkNone THEN s
     ELSE IF prev = CkNone THEN taken
     ELSE [taken EXCEPT !.place = CkElsewhere(prev, s.place, Len(s.items))]

CkAttempt(items, k) ==
  FoldLeft(LAMBDA s, i : CkKick(s),
           [items |-> items, place |-> CkPlace(k, 1, Len(items)), curr |-> k], CkAttempts)

RECURSIVE CkInserted(_, _, _)

(* rehash: a table of twice the size is filled by ht_insert, which counts  *)
(* every item once more, and whose return values are not looked at.        *)
CkRehash(h, rest) ==
  FoldLeft(LAMBDA new, k : CkInserted(new, k, TRUE),
           [h EXCEPT !.items = CkEmpty(2 * Len(h.items))],
           Append(CkItems(h.items), rest))

(* ht_insert: after 15 attempts the table grows, or the last key is lost;  *)
(* it returns 20 then, though the table may have grown.                    *)
CkInserted(h, k, grows) ==
  LET tried == CkAttempt(h.items, k)
      now == [h EXCEPT !.items = tried.items]
      grown == CkRehash(now, tried.curr)
  IN IF tried.curr = CkNone THEN [now EXCEPT !.count = @ + 1, !.ret = 0]
     ELSE IF grows THEN [grown EXCEPT !.count = @ + 1, !.ret = 20]
     ELSE [now EXCEPT !.ret = 20]

(* ht_get and ht_get_index: 0 when no place of the key has it.             *)
CkIndex(k) ==
  LET has(i) == ckTable[CkPlace(k, i, Len(ckTable))] = k
      p == CkPlaces(k, Len(ckTable))
  IN IF has(1) THEN p[1] ELSE IF has(2) THEN p[2] ELSE IF has(3) THEN p[3] ELSE 0

-----------------------------------------------------------------------------
(* The caller has looked the key up: ht_insert would add a second copy.  A *)
(* 20 tells it that a key is missing, not which, if the table cannot grow; *)
(* one that it finds missing and inserts again is missing no longer.       *)
CkInsert(k) ==
  /\ ckTable # <<>> /\ CkIndex(k) = 0
  /\ LET done == CkInserted([items |-> ckTable, count |-> ckCount, ret |-> 0], k, ckRehash)
         told == IF done.ret = 20 /\ ~ckRehash THEN 1 ELSE 0
         again == IF k \in ckOwed THEN 1 ELSE 0
     IN /\ Len(done.items) <= CkMaxRows
        /\ ckTable' = done.items /\ ckCount' = done.count
        /\ ckOwed' = ckOwed \cup {k} /\ ckRefused' = ckRefused + told - again
  /\ UNCHANGED ckRehash

(* ht_remove_by_index.                                                     *)
CkRemoveByIndex(index) ==
  /\ index \in DOMAIN ckTable /\ ckTable[index] # CkNone
  /\ ckTable' = [ckTable EXCEPT ![index] = CkNone]
  /\ ckCount' = ckCount - 1 /\ ckOwed' = ckOwed \ {ckTable[index]}
  /\ UNCHANGED <<ckRehash, ckRefused>>

(* ht_remove_by_key.                                                       *)
CkRemoveByKey(k) ==
  /\ ckTable # <<>> /\ CkIndex(k) # 0
  /\ ckTable' = [ckTable EXCEPT ![CkIndex(k)] = CkNone]
  /\ ckCount' = ckCount - 1 /\ ckOwed' = ckOwed \ {k}
  /\ UNCHANGED <<ckRehash, ckRefused>>

(* ht_clear, also called by ht_destroy.                                    *)
CkClear ==
  /\ ckTable # <<>> /\ ckTable' = CkEmpty(Len(ckTable))
  /\ ckCount' = 0 /\ ckOwed' = {} /\ ckRefused' = 0 /\ UNCHANGED ckRehash

CkDestroy ==
  /\ ckTable # <<>> /\ ckTable' = <<>> /\ ckCount' = 0 /\ ckOwed' = {} /\ ckRefused' = 0
  /\ UNCHANGED ckRehash

CuckooNext ==
  \/ \E k \in CkKeys : CkInsert(k) \/ CkRemoveByKey(k)
  \/ \E index \in DOMAIN ckTable : CkRemoveByIndex(index)
  \/ CkClear \/ CkDestroy

CuckooSpec == CuckooInit /\ [][CuckooNext]_cuckooVars

-----------------------------------------------------------------------------
(* The first table: however keys kicked each other and the table grew,     *)
(* every item is found at a place of its key, there once, and owed to the  *)
(* caller; and of the keys owed as many are missing as ht_insert has       *)
(* returned 20 for in a table that must not grow, none in one that may.    *)
(* Until it has grown, the table counts its items.                         *)
CuckooKeeps ==
  LET found == {k \in CkKeys : CkIndex(k) # 0} IN
  ckTable # <<>> =>
    /\ found \subseteq ckOwed
    /\ Cardinality(ckOwed \ found) = ckRefused
    /\ Len(CkItems(ckTable)) = Cardinality(found)
    /\ Len(ckTable) = CkSize => ckCount = Cardinality(found)
=============================================================================
