---------------------------- MODULE CuckooHashV2 ----------------------------
(***************************************************************************)
(* The second cuckoo hash table (cuckoo_hash_v2.c): the items stay in the  *)
(* row they were written to, and kicking moves their rows' numbers about   *)
(* in the array ind.  An item that finds no place is handed back to the    *)
(* caller, and only the caller makes the table grow.                       *)
(***************************************************************************)
EXTENDS CuckooHash

VARIABLES
  cvInd,         \* ind: for each place, [valid, index]
  cvRows,        \* keys, with the data; CkNone in a row that no place uses
  cvKick,        \* what the last insertion handed back, CkNone for NULL
  cvOwed,        \* history: the keys inserted, and neither handed back nor removed
  cvLost,        \* history: those of them that rehash_v2 was handed back
  cvAstray       \* history: a locking insertion took the rows for being at home

cvVars == <<cvInd, cvRows, cvKick, cvOwed, cvLost, cvAstray>>

CvEmptyInd(size) == [i \in 1 .. size |-> [valid |-> FALSE, index |-> i]]

CvInit ==
  /\ cvInd = CvEmptyInd(CkSize) /\ cvRows = CkEmpty(CkSize) /\ cvKick = CkNone
  /\ cvOwed = {} /\ cvLost = {} /\ cvAstray = FALSE

-----------------------------------------------------------------------------
CvSwapBug(rows, s) ==                   \* the free row is not taken over
  LET here == s.ind[s.place] IN
  CASE s.state # "swap" -> s
    [] s.state = "swap" /\ ~here.valid ->
         [s EXCEPT !.ind[s.place] = [valid |-> TRUE, index |-> s.row], !.state = "free"]
    [] OTHER ->
         [s EXCEPT !.ind[s.place].index = s.row, !.row = here.index,
            !.state = IF here.index = 0 THEN "out" ELSE "swap",
            !.place = IF here.index = 0 THEN @
                      ELSE CkElsewhere(rows[here.index], s.place, Len(rows))]

(* One attempt of an insertion: the row in hand (0: none, as for the new   *)
(* item) is left at the place.  A place that was free gives its free row;  *)
(* one that was taken gives the row to carry to its item's next place;     *)
(* none when the first place is reached again.                             *)
CvSwap(rows, s) ==
  LET here == s.ind[s.place] IN
  CASE s.state # "swap" -> s
    [] s.state = "swap" /\ ~here.valid ->
         [s EXCEPT !.ind[s.place] = [valid |-> TRUE, index |-> s.row],
                   !.place = here.index, !.state = "free"]
    [] OTHER ->
         [s EXCEPT !.ind[s.place].index = s.row, !.row = here.index,
            !.state = IF here.index = 0 THEN "out" ELSE "swap",
            !.place = IF here.index = 0 THEN @
                      ELSE CkElsewhere(rows[here.index], s.place, Len(rows))]

CvSwaps(ind, rows, place) ==
  FoldLeft(LAMBDA s, i : CvSwap(rows, s),
           [ind |-> ind, place |-> place, row |-> 0, state |-> "swap"], CkAttempts)

CvDone(ind, rows, kicked) == [ind |-> ind, rows |-> rows, kicked |-> kicked]

(* ht_insert_v2, with the key that is handed back.                         *)
CvInserted(ind, rows, k) ==
  LET first == CkPlace(k, 1, Len(rows))
      s == CvSwaps(ind, rows, first)
      row == CASE ~ind[first].valid -> ind[first].index
               [] ind[first].valid /\ s.state = "free" -> s.place
               [] ind[first].valid /\ s.state # "free" /\ s.row = 0 -> s.ind[first].index
               [] OTHER -> s.row
      left == IF ind[first].valid THEN s.ind ELSE ind
  IN CvDone([left EXCEPT ![first] = [valid |-> TRUE, index |-> row]],
            [rows EXCEPT ![row] = k],
            IF ind[first].valid /\ s.state # "free" THEN rows[row] ELSE CkNone)

(* ht_lock_insert_v2 overwrites the place before it is used, then marks    *)
(* another valid, and ends a kick with the first place at its own row.     *)
CvLockSwaps(ind, rows, place) ==
  FoldLeft(LAMBDA s, i :
             IF s.state = "swap" /\ ~s.ind[s.place].valid
             THEN LET free == s.ind[s.place].index IN
                  [s EXCEPT !.ind[free].index = s.row, !.place = free, !.state = "free"]
             ELSE CvSwap(rows, s),
           [ind |-> ind, place |-> place, row |-> 0, state |-> "swap"], CkAttempts)

CvLockInserted(ind, rows, k) ==
  LET first == CkPlace(k, 1, Len(rows))
      s == CvLockSwaps(ind, rows, first)
      put(row) == [i \in DOMAIN rows |-> IF i = row THEN k ELSE rows[i]]
      read(row) == IF row \in DOMAIN rows THEN rows[row] ELSE CkNone
      home == [s.ind EXCEPT ![first].index = first]
  IN CASE ~ind[first].valid ->
            CvDone([ind EXCEPT ![first].valid = TRUE], put(ind[first].index), CkNone)
       [] ind[first].valid /\ s.state = "free" ->
            CvDone([s.ind EXCEPT ![first].index = s.place, ![s.place].valid = TRUE],
                   put(s.place), CkNone)
       [] ind[first].valid /\ s.state # "free" /\ s.row = 0 ->
            CvDone(home, put(s.ind[first].index), read(s.ind[first].index))
       [] OTHER -> CvDone(home, put(s.row), read(s.ind[s.row].index))

(* ht_get_v2 and ht_get_index_v2: the place of the key, 0 when not found.  *)
CvPlace(k) ==
  LET p == CkPlaces(k, Len(cvRows))
      has(i) == cvInd[p[i]].valid /\ cvRows[cvInd[p[i]].index] = k
  IN IF has(1) THEN p[1] ELSE IF has(2) THEN p[2] ELSE IF has(3) THEN p[3] ELSE 0

-----------------------------------------------------------------------------
CvUsable == cvRows # <<>> /\ ~cvAstray

(* The caller has looked the key up, here too.                             *)
CvPut(k, done) ==
  /\ CvUsable /\ CvPlace(k) = 0
  /\ cvInd' = done.ind /\ cvRows' = done.rows
  /\ cvKick' = done.kicked
  /\ cvOwed' = (cvOwed \cup {k}) \ {done.kicked} /\ cvLost' = cvLost \ {k}

CvInsert(k) == CvPut(k, CvInserted(cvInd, cvRows, k)) /\ UNCHANGED cvAstray

(* The locking insertion takes the number of a row for that of its place.  *)
(* So it does in an array where each row is at home, if it need not kick   *)
(* or finds a free place; nothing is said of the table after any other.    *)
CvLockInsert(k) ==
  LET first == CkPlace(k, 1, Len(cvRows)) IN
  /\ CvPut(k, CvLockInserted(cvInd, cvRows, k))
  /\ cvAstray' = (/\ cvInd[first].valid
                  /\ \/ \E i \in DOMAIN cvInd : cvInd[i].index # i
                     \/ CvLockSwaps(cvInd, cvRows, first).state # "free")

(* rehash_v2, which a caller calls that was handed an item back: what the  *)
(* new table hands back is lost.                                           *)
CvRehash ==
  /\ CvUsable /\ cvKick # CkNone /\ 2 * Len(cvRows) <= CkMaxRows
  /\ LET size == 2 * Len(cvRows)
         Move(new, i) ==
           LET done == CvInserted(new.ind, new.rows, cvRows[cvInd[i].index]) IN
           IF ~cvInd[i].valid THEN new
           ELSE [ind |-> done.ind, rows |-> done.rows, lost |-> Append(new.lost, done.kicked)]
         moved == FoldLeft(Move, [ind |-> CvEmptyInd(size), rows |-> CkEmpty(size),
                                  lost |-> <<>>], [i \in DOMAIN cvInd |-> i])
         lost == CkItems(moved.lost)
     IN /\ cvInd' = moved.ind /\ cvRows' = moved.rows
        /\ cvKick' = CkNone
        /\ cvLost' = cvLost \cup Range(lost)
  /\ UNCHANGED <<cvOwed, cvAstray>>

(* ht_remove_precomp_v2, whose caller has the key's places.                *)
CvRemovePrecomp(k) ==
  /\ CvUsable /\ CvPlace(k) # 0
  /\ cvInd' = [cvInd EXCEPT ![CvPlace(k)].valid = FALSE]
  /\ cvRows' = [cvRows EXCEPT ![cvInd[CvPlace(k)].index] = CkNone]
  /\ cvOwed' = cvOwed \ {k} /\ cvKick' = CkNone /\ UNCHANGED <<cvLost, cvAstray>>

CvRemoveByKey(k) == CvRemovePrecomp(k)

CvClear ==
  /\ CvUsable /\ cvInd' = CvEmptyInd(Len(cvInd)) /\ cvRows' = CkEmpty(Len(cvRows))
  /\ cvOwed' = {} /\ cvLost' = {} /\ cvKick' = CkNone /\ UNCHANGED cvAstray

CvDestroy ==
  /\ cvRows # <<>> /\ cvInd' = <<>> /\ cvRows' = <<>> /\ cvKick' = CkNone
  /\ cvOwed' = {} /\ cvLost' = {} /\ UNCHANGED cvAstray

CvNext ==
  \/ \E k \in CkKeys : CvInsert(k) \/ CvLockInsert(k) \/ CvRemoveByKey(k)
  \/ CvRehash \/ CvClear \/ CvDestroy

CvSpec == CvInit /\ [][CvNext]_cvVars

-----------------------------------------------------------------------------
(* The second table: however the rows were passed round, each row belongs  *)
(* to one place, and every key that the caller inserted, and that was      *)
(* neither handed back to it nor removed, is found, at one place only, but *)
(* for those which rehash_v2 was handed back and says nothing of.  It      *)
(* holds of ht_lock_insert_v2 as long as that need not kick, or finds a    *)
(* free place in an array whose rows are all at home.                      *)
CvFound == {k \in CkKeys : CvPlace(k) # 0}
RowsPermuted ==
  CvUsable =>
    /\ {cvInd[i].index : i \in DOMAIN cvInd} = DOMAIN cvRows
    /\ CvFound = cvOwed \ cvLost
    /\ Cardinality({i \in DOMAIN cvInd : cvInd[i].valid}) = Cardinality(CvFound)

(* In both tables, however keys kicked each other about: nothing is found  *)
(* but what the caller has put in, and that once; of what it has put in,   *)
(* the first table misses as many keys as its return values have told, and *)
(* the second only those that rehash_v2 has lost.                          *)
CuckooFinds == CuckooKeeps /\ RowsPermuted

(* What the comment on rehash_v2 (cuckoo_hash_v2.c 116) says of it: the    *)
(* larger table has all items that the old one had.                        *)
RehashKeepsAll == [][Len(cvRows') > Len(cvRows) => CvFound \subseteq CvFound']_cvVars
=============================================================================
