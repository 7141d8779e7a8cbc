--------------------------- MODULE FastHashFilter ---------------------------
(***************************************************************************)
(* The fast hash filter of nemea-common: rows of columns that do not       *)
(* replace anything, and fhf_resize, which moves all items to a new table  *)
(* of twice as many rows, with hashes seeded by its address, and again, as *)
(* long as a row overflows.  One thread changes the filter; another looks  *)
(* up keys meanwhile, under the lock of a row or without any, in the table *)
(* it found when it began.                                                 *)
(***************************************************************************)
EXTENDS Integers, FiniteSets

CONSTANTS FhfKeys,
  Hashes,        \* the hash functions that seeds may give
  FhfCols,       \* columns of a row, 8 in the code
  MaxRows,       \* bound: the number of rows that cannot be doubled
  NoTable, Empty

ASSUME FhfAssumption ==
  /\ {FhfCols, MaxRows} \subseteq Nat \ {0} /\ Empty \notin FhfKeys
  /\ Hashes \subseteq [FhfKeys -> Nat] /\ Hashes # {}

VARIABLES
  filter,        \* the table callers are given: its columns and its hash
  oldTable,      \* the one before it, kept for those who still read it
  resize,        \* fhf_resize under way: the new table, the iterator; or NoTable
  reader,        \* a lookup under way
  stored         \* keys that were inserted and not removed

fhfVars == <<filter, oldTable, resize, reader, stored>>

(* The seed is the address of the table: any of the hashes may come of it. *)
NewTables(rows) ==
  {[row |-> [r \in 1 .. rows |-> [c \in 1 .. FhfCols |-> Empty]],
    hash |-> [k \in FhfKeys |-> (h[k] % rows) + 1]] : h \in Hashes}

NoReader == [pc |-> "idle", key |-> Empty, inOld |-> FALSE, col |-> 0, stays |-> FALSE]

FhfInit ==
  /\ filter \in NewTables(1) /\ oldTable = NoTable /\ resize = NoTable
  /\ reader = NoReader /\ stored = {}

-----------------------------------------------------------------------------
(* Rows.  A column is looked for in order, and the first free one is taken.*)
RowOf(T, k) == T.row[T.hash[k]]
InTable(T, k) == \E c \in 1 .. FhfCols : RowOf(T, k)[c] = k
FreeCols(T, k) == {c \in 1 .. FhfCols : RowOf(T, k)[c] = Empty}
WithKey(T, k) ==
  [T EXCEPT !.row[T.hash[k]][CHOOSE c \in FreeCols(T, k) : \A d \in FreeCols(T, k) : c <= d] = k]
Without(T, k) == [T EXCEPT !.row[T.hash[k]] = [c \in 1 .. FhfCols |-> IF RowOf(T, k)[c] = k THEN Empty ELSE RowOf(T, k)[c]]]
KeysOf(T) == (UNION {{T.row[r][c] : c \in 1 .. FhfCols} : r \in DOMAIN T.row}) \ {Empty}

Locked(r) == reader.pc = "holds" /\ ~reader.inOld /\ r = filter.hash[reader.key]
Unchanging == reader' = [reader EXCEPT !.stays = @ /\ reader.key \in stored']

(* fhf_insert: a full row takes nothing.                                   *)
FhfInsert(k) ==
  /\ resize = NoTable /\ ~Locked(filter.hash[k])
  /\ ~InTable(filter, k) /\ FreeCols(filter, k) # {}
  /\ filter' = WithKey(filter, k) /\ stored' = stored \cup {k}
  /\ UNCHANGED <<oldTable, resize, reader>>

(* fhf_remove, fhf_remove_locked.                                          *)
FhfRemove(k) ==
  /\ resize = NoTable /\ ~Locked(filter.hash[k]) /\ InTable(filter, k)
  /\ filter' = Without(filter, k) /\ stored' = stored \ {k}
  /\ UNCHANGED <<oldTable, resize>> /\ Unchanging

FhfClear ==
  /\ resize = NoTable /\ \A r \in DOMAIN filter.row : ~Locked(r)
  /\ filter' = [filter EXCEPT !.row = [r \in DOMAIN @ |-> [c \in 1 .. FhfCols |-> Empty]]]
  /\ stored' = {} /\ UNCHANGED <<oldTable, resize>> /\ Unchanging

-----------------------------------------------------------------------------
(* fhf_resize.  It destroys the table of the last but one resizing: here no*)
(* lookup lasts that long.                                                 *)
ResizeBegin ==
  /\ resize = NoTable /\ ~reader.inOld
  /\ \E T \in NewTables(2 * Cardinality(DOMAIN filter.row)) :
       resize' = [table |-> T, row |-> 1, col |-> 0]
  /\ Cardinality(DOMAIN filter.row) < MaxRows
  /\ oldTable' = NoTable
  /\ UNCHANGED <<filter, reader, stored>>

Following == {c \in 1 .. FhfCols : c > resize.col /\ filter.row[resize.row][c] # Empty}

ResizeItemBug ==                            \* the larger table is filled from where the last one was left
  /\ resize # NoTable /\ resize.row \in DOMAIN filter.row /\ ~Locked(resize.row)
  /\ Following # {}
  /\ LET c == CHOOSE d \in Following : \A e \in Following : d <= e
         k == filter.row[resize.row][c]
         rows == Cardinality(DOMAIN resize.table.row)
     IN IF FreeCols(resize.table, k) # {}
          THEN resize' = [resize EXCEPT !.table = WithKey(@, k), !.col = c]
          ELSE IF 2 * rows <= MaxRows
                 THEN \E T \in NewTables(2 * rows) : resize' = [resize EXCEPT !.table = T]
                 ELSE resize' = NoTable
  /\ UNCHANGED <<filter, oldTable, reader, stored>>

(* The next item is inserted into the new table, or, when there is no place*)
(* for it, the new table is dropped for a larger one, until none can be.   *)
ResizeItem ==
  /\ resize # NoTable /\ resize.row \in DOMAIN filter.row /\ ~Locked(resize.row)
  /\ Following # {}
  /\ LET c == CHOOSE d \in Following : \A e \in Following : d <= e
         k == filter.row[resize.row][c]
         rows == Cardinality(DOMAIN resize.table.row)
     IN IF FreeCols(resize.table, k) # {}
          THEN resize' = [resize EXCEPT !.table = WithKey(@, k), !.col = c]
          ELSE IF 2 * rows <= MaxRows
                 THEN \E T \in NewTables(2 * rows) : resize' = [table |-> T, row |-> 1, col |-> 0]
                 ELSE resize' = NoTable
  /\ UNCHANGED <<filter, oldTable, reader, stored>>

ResizeRow ==
  /\ resize # NoTable /\ resize.row \in DOMAIN filter.row /\ ~Locked(resize.row)
  /\ Following = {}
  /\ resize' = [resize EXCEPT !.row = @ + 1, !.col = 0]
  /\ UNCHANGED <<filter, oldTable, reader, stored>>

ResizeEnd ==
  /\ resize # NoTable /\ resize.row \notin DOMAIN filter.row
  /\ filter' = resize.table /\ resize' = NoTable
  /\ oldTable' = IF reader = NoReader THEN NoTable ELSE filter      \* nobody else sees it
  /\ reader' = [reader EXCEPT !.inOld = reader.pc # "idle"]
  /\ UNCHANGED stored

-----------------------------------------------------------------------------
(* fhf_get_data reads one column after another without any lock;           *)
(* fhf_get_data_locked and fhf_update_data keep the lock of the row.       *)
ReadRow(k) == RowOf(IF reader.inOld THEN oldTable ELSE filter, k)

GetBegin(k) ==
  /\ reader = NoReader
  /\ reader' = [NoReader EXCEPT !.pc = "scan", !.key = k, !.stays = k \in stored]
  /\ UNCHANGED <<filter, oldTable, resize, stored>>

GetColumn ==
  /\ reader.pc = "scan"
  /\ reader' = IF ReadRow(reader.key)[reader.col + 1] = reader.key THEN [reader EXCEPT !.pc = "found"]
               ELSE IF reader.col + 1 < FhfCols THEN [reader EXCEPT !.col = @ + 1]
               ELSE [reader EXCEPT !.pc = "missing"]
  /\ UNCHANGED <<filter, oldTable, resize, stored>>

GetLocked ==
  /\ reader.pc = "scan" /\ reader.col = 0
  /\ resize # NoTable /\ ~reader.inOld /\ resize.row = filter.hash[reader.key] => resize.col = 0
  /\ reader' = [reader EXCEPT !.pc = IF reader.key \in {ReadRow(reader.key)[c] : c \in 1 .. FhfCols}
                                       THEN "holds" ELSE "missing"]
  /\ UNCHANGED <<filter, oldTable, resize, stored>>

GetEnd ==
  /\ reader.pc \in {"found", "missing", "holds"} /\ reader' = NoReader
  /\ UNCHANGED <<filter, oldTable, resize, stored>>

-----------------------------------------------------------------------------
FhfNext ==
  \/ \E k \in FhfKeys : FhfInsert(k) \/ FhfRemove(k) \/ GetBegin(k)
  \/ FhfClear \/ ResizeBegin \/ ResizeItem \/ ResizeRow \/ ResizeEnd
  \/ GetColumn \/ GetLocked \/ GetEnd

FhfSpec == FhfInit /\ [][FhfNext]_fhfVars

-----------------------------------------------------------------------------
(* However often the table was resized, and whichever rows overflowed on   *)
(* the way, the filter has just the keys it was given, each in one column  *)
(* of the row its hash names; and a lookup finds a key that stays in,      *)
(* though it reads without a lock, in the table before the resizing.       *)
FilterKeeps ==
  /\ KeysOf(filter) = stored
  /\ \A k \in stored : Cardinality({rc \in (DOMAIN filter.row) \X (1 .. FhfCols) :
                                      filter.row[rc[1]][rc[2]] = k}) = 1 /\ InTable(filter, k)
  /\ reader.pc = "missing" => ~reader.stays

(* With it, an inductive invariant (see StoreProofs).  A table has its keys*)
(* in the rows their hashes name, each once.                               *)
FilterTable(T) ==
  LET n == Cardinality(DOMAIN T.row)
  IN  /\ n \in Nat \ {0}
      /\ T \in [row  : [1 .. n -> [1 .. FhfCols -> FhfKeys \cup {Empty}]],
               hash : [FhfKeys -> 1 .. n]]

Placed(T) ==
  \A r \in DOMAIN T.row, c \in 1 .. FhfCols :
    T.row[r][c] # Empty =>
      /\ T.hash[T.row[r][c]] = r
      /\ \A d \in 1 .. FhfCols : T.row[r][d] = T.row[r][c] => d = c

(* The iterator has passed the place of a key.                             *)
Passed(r, c) == r < resize.row \/ (r = resize.row /\ c <= resize.col)
Moved == {k \in FhfKeys : \E r \in DOMAIN filter.row, c \in 1 .. FhfCols :
                            Passed(r, c) /\ filter.row[r][c] = k}

Resizing ==
  resize # NoTable =>
    /\ resize \in [table : {resize.table}, row : 1 .. Cardinality(DOMAIN filter.row) + 1,
                   col : 0 .. FhfCols]
    /\ FilterTable(resize.table) /\ Placed(resize.table) /\ KeysOf(resize.table) = Moved
    /\ ~reader.inOld

(* A key that stays is in a column the lookup has still to read.           *)
Looking ==
  /\ reader \in [pc : {"idle", "scan", "found", "missing", "holds"}, key : FhfKeys \cup {Empty},
                 inOld : BOOLEAN, col : 0 .. FhfCols - 1, stays : BOOLEAN]
  /\ reader.pc # "idle" => reader.key \in FhfKeys
  /\ reader.pc = "scan" /\ reader.stays =>
       \E c \in reader.col + 1 .. FhfCols : ReadRow(reader.key)[c] = reader.key
  /\ reader.pc = "missing" => ~reader.stays

FhfInv ==
  /\ FilterTable(filter) /\ Placed(filter) /\ KeysOf(filter) = stored /\ stored \subseteq FhfKeys
  /\ Resizing /\ Looking
=============================================================================
