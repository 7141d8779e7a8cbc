----------------------------- MODULE StoreProofs -----------------------------
(***************************************************************************)
(* What is put somewhere stays there: the byte arrays Python templates     *)
(* point into, the keys of the fast hash filter, the items of the fast hash*)
(* table, which an iteration finds all.                                    *)
(***************************************************************************)
EXTENDS PyTemplate, FastHashFilter, FastHashTable, FiniteSetTheorems,
        WellFoundedInduction, TLAPS

-----------------------------------------------------------------------------
(* The templates of the Python binding.                                    *)

(* The templates that own a byte array.                                    *)
Holders(b) == Cardinality({t \in PyTemplates : dataObj[t] = b})

LEMMA HoldersType ==
  ASSUME NEW b
  PROVE  Holders(b) \in Nat
<1> DEFINE H == {t \in PyTemplates : dataObj[t] = b}
<1>1. H \in SUBSET PyTemplates
  OBVIOUS
<1>2. Holders(b) = Cardinality(H)
  BY DEF Holders
<1> HIDE DEF H
<1> QED
  BY <1>1, <1>2, PyAssumption, FS_Subset, FS_CardinalityType

Moves(t, x) == PyTypeOK /\ t \in PyTemplates /\ dataObj' = [dataObj EXCEPT ![t] = x]

(* When a template leaves one byte array for another, or for none, the     *)
(* array it leaves has one owner less, the one it takes one more.          *)
LEMMA OwnersMove ==
  ASSUME NEW t, NEW x, NEW b, Moves(t, x)
  PROVE  /\ Holders(b) \in Nat /\ Holders(b)' \in Nat
         /\ Holders(b)' = Holders(b) + (IF x = b THEN 1 ELSE 0) - (IF dataObj[t] = b THEN 1 ELSE 0)
<1>0. t \in PyTemplates
  BY DEF Moves
<1> DEFINE old == {u \in PyTemplates : dataObj[u] = b}
           new == {u \in PyTemplates : dataObj'[u] = b}
<1>1. /\ IsFiniteSet(old) /\ IsFiniteSet(new)
      /\ Cardinality(old) \in Nat /\ Cardinality(new) \in Nat
  <2>1. old \in SUBSET PyTemplates /\ new \in SUBSET PyTemplates
    OBVIOUS
  <2> HIDE DEF old, new
  <2> QED
    BY <2>1, PyAssumption, FS_Subset, FS_CardinalityType
<1>2. \A u \in PyTemplates : dataObj'[u] = IF u = t THEN x ELSE dataObj[u]
  BY DEF Moves, PyTypeOK
<1>3. ASSUME dataObj[t] = b, x # b
      PROVE  Cardinality(new) + 1 = Cardinality(old)
  <2>1. t \in old /\ new = old \ {t}
    BY <1>0, <1>2, <1>3
  <2> HIDE DEF old, new
  <2> QED
    BY <1>1, <2>1, FS_RemoveElement
<1>4. ASSUME dataObj[t] # b, x = b
      PROVE  Cardinality(new) = Cardinality(old) + 1
  <2>1. t \notin old /\ new = old \cup {t}
    BY <1>0, <1>2, <1>4
  <2> HIDE DEF old, new
  <2> QED
    BY <1>1, <2>1, FS_AddElement
<1>5. ASSUME dataObj[t] = b <=> x = b
      PROVE  Cardinality(new) = Cardinality(old)
  <2>1. new = old
    BY <1>0, <1>2, <1>5
  <2> QED
    BY <2>1
<1>6. Holders(b) = Cardinality(old) /\ Holders(b)' = Cardinality(new)
  BY Zenon DEF Holders
<1> HIDE DEF old, new
<1>7. CASE dataObj[t] = b
  BY <1>1, <1>3, <1>5, <1>6, <1>7
<1>8. CASE dataObj[t] # b
  BY <1>1, <1>4, <1>5, <1>6, <1>8
<1> QED
  BY <1>7, <1>8

(* The program's own reference.                                            *)
LEMMA MineCounts ==
  \A b, m : Cardinality({b} \cap m) = IF b \in m THEN 1 ELSE 0
<1>1. \A b, m : {b} \cap m = IF b \in m THEN {b} ELSE {}
  OBVIOUS
<1> QED
  BY <1>1, FS_EmptySet, FS_Singleton

LEMMA OwnersAre ==
  ASSUME NEW b
  PROVE  /\ Owners(b) = (IF b \in mine THEN 1 ELSE 0) + Holders(b)
         /\ Owners(b)' = (IF b \in mine' THEN 1 ELSE 0) + Holders(b)'
<1>1. /\ Owners(b) = Cardinality({b} \cap mine) + Holders(b)
      /\ Owners(b)' = Cardinality({b} \cap mine') + Holders(b)'
  BY Zenon DEF Owners, Holders
<1>2. /\ Cardinality({b} \cap mine) = IF b \in mine THEN 1 ELSE 0
      /\ Cardinality({b} \cap mine') = IF b \in mine' THEN 1 ELSE 0
  BY MineCounts
<1> QED
  BY <1>1, <1>2

(* A byte array that is not allocated has no owner.                        *)
LEMMA FreshUnowned ==
  ASSUME PyInv, NEW b \in Buffers, Fresh(b)
  PROVE  b \notin mine /\ leaked[b] = 0 /\ \A t \in PyTemplates : dataObj[t] # b
<1> DEFINE H == {t \in PyTemplates : dataObj[t] = b}
<1>1. H \in SUBSET PyTemplates
  OBVIOUS
<1>2. IsFiniteSet(H) /\ Cardinality(H) \in Nat
  <2> HIDE DEF H
  <2> QED
    BY <1>1, PyAssumption, FS_Subset, FS_CardinalityType
<1>3. 0 = Cardinality({b} \cap mine) + Cardinality(H) + leaked[b] /\ leaked[b] \in Nat
  BY DEF PyInv, PyTypeOK, DataAlive, Owners, Fresh
<1>4. Cardinality({b} \cap mine) \in {0, 1}
  BY MineCounts
<1>5. Cardinality({b} \cap mine) = 0 /\ Cardinality(H) = 0 /\ leaked[b] = 0
  <2> HIDE DEF H
  <2> QED
    BY <1>2, <1>3, <1>4
<1>6. H = {}
  <2> HIDE DEF H
  <2> QED
    BY <1>2, <1>5, FS_EmptySet
<1> QED
  BY <1>5, <1>6, MineCounts

(* Giving up the reference of a template: setData and createMessage ask    *)
(* for data, not for data_obj, and that comes to the same.                 *)
LEMMA ReleasedIs ==
  ASSUME PyInv, NEW t \in PyTemplates
  PROVE  /\ Released(t) = Less(count, dataObj[t])
         /\ Less(count, dataObj[t]) \in [Buffers -> Int]
         /\ \A b \in Buffers :
              Less(count, dataObj[t])[b] = count[b] - (IF dataObj[t] = b THEN 1 ELSE 0)
<1>1. count \in [Buffers -> Int] /\ dataObj[t] \in Buffers \cup {None}
  BY DEF PyInv, PyTypeOK
<1>2. (data[t] = None) = (dataObj[t] = None)
  BY DEF PyInv, DataAlive
<1>3. Released(t) = Less(count, dataObj[t])
  BY <1>2 DEF Released, Less
<1> QED
  BY <1>1, <1>3, PyAssumption DEF Less

(* A call that moves one template to an array the program holds, to a new  *)
(* one or to none, and changes counts, references and leaks to match.      *)
Counted(b, gained, lost) ==
  count'[b] - leaked'[b] - (IF b \in mine' THEN 1 ELSE 0) =
    count[b] - leaked[b] - (IF b \in mine THEN 1 ELSE 0)
      + (IF gained THEN 1 ELSE 0) - (IF lost THEN 1 ELSE 0)

Rebound(t, x, d) ==
  /\ x \in Buffers \cup {None} /\ d \in {x, TrapBuffer} /\ (d = None <=> x = None)
  /\ dataObj' = [dataObj EXCEPT ![t] = x] /\ data' = [data EXCEPT ![t] = d]
  /\ object' \in [PyTemplates -> {"none", "whole", "broken"}]
  /\ count' \in [Buffers -> Int] /\ leaked' \in [Buffers -> Nat] /\ mine' \subseteq Buffers
  /\ \A b \in Buffers : Counted(b, x = b, dataObj[t] = b)

LEMMA Rebind ==
  ASSUME PyInv, NEW t \in PyTemplates, NEW x, NEW d, Rebound(t, x, d)
  PROVE  PyInv'
<1> USE DEF Rebound
<1>0. Moves(t, x)
  BY Zenon DEF Moves, PyInv
<1>1. PyTypeOK
  BY DEF PyInv
<1>2. \A u \in PyTemplates : /\ dataObj'[u] = IF u = t THEN x ELSE dataObj[u]
                             /\ data'[u] = IF u = t THEN d ELSE data[u]
  BY <1>1 DEF PyTypeOK
<1>3. /\ \A u \in PyTemplates : data'[u] \in Buffers => data'[u] = dataObj'[u]
      /\ \A u \in PyTemplates : (data'[u] = None) = (dataObj'[u] = None)
  BY <1>2, PyAssumption DEF PyInv, DataAlive
<1>4. ASSUME NEW b \in Buffers
      PROVE  count'[b] = Owners(b)' + leaked'[b] /\ Owners(b)' \in Nat
  <2>1. Holders(b) \in Nat /\ Holders(b)' \in Nat
    BY <1>0, OwnersMove, Zenon
  <2>2. Holders(b)' = Holders(b) + (IF x = b THEN 1 ELSE 0) - (IF dataObj[t] = b THEN 1 ELSE 0)
    <3>1. \A c : Holders(c)' = Holders(c) + (IF x = c THEN 1 ELSE 0)
                                         - (IF dataObj[t] = c THEN 1 ELSE 0)
      BY <1>0, OwnersMove
    <3> QED
      BY <3>1
  <2>3. Owners(b) = (IF b \in mine THEN 1 ELSE 0) + Holders(b)
    BY OwnersAre, Zenon
  <2>4. Owners(b)' = (IF b \in mine' THEN 1 ELSE 0) + Holders(b)'
    BY OwnersAre, Zenon
  <2>5. /\ count[b] \in Nat /\ leaked[b] \in Nat /\ count'[b] \in Int /\ leaked'[b] \in Nat
        /\ count'[b] - leaked'[b] - (IF b \in mine' THEN 1 ELSE 0) =
             count[b] - leaked[b] - (IF b \in mine THEN 1 ELSE 0)
               + (IF x = b THEN 1 ELSE 0) - (IF dataObj[t] = b THEN 1 ELSE 0)
        /\ count[b] = Owners(b) + leaked[b]
    BY <1>1 DEF PyTypeOK, PyInv, DataAlive, Counted
  <2>6. Owners(b)' \in Nat
    BY <2>1, <2>4
  <2>7. Owners(b)' + leaked'[b] = count'[b]
    BY <2>1, <2>2, <2>3, <2>4, <2>5
  <2> QED
    BY <2>6, <2>7
<1>5. count' \in [Buffers -> Nat]
  <2>1. \A b \in Buffers : count'[b] \in Nat
    BY <1>4
  <2> QED
    BY <2>1
<1>6. PyTypeOK'
  <2>1. dataObj' \in [PyTemplates -> Buffers \cup {None}]
    BY <1>1 DEF PyTypeOK
  <2>2. data' \in [PyTemplates -> Buffers \cup {None, TrapBuffer}]
    BY <1>1 DEF PyTypeOK
  <2> QED
    BY <1>5, <2>1, <2>2 DEF PyTypeOK
<1> QED
  BY <1>3, <1>4, <1>6 DEF PyInv, DataAlive

(* A call of the program about its own reference only.                     *)
LEMMA Rehold ==
  ASSUME PyInv, UNCHANGED <<leaked, object, dataObj, data>>,
         count' \in [Buffers -> Int], mine' \subseteq Buffers,
         \A b \in Buffers : count'[b] - (IF b \in mine' THEN 1 ELSE 0) =
                            count[b] - (IF b \in mine THEN 1 ELSE 0)
  PROVE  PyInv'
<1>1. ASSUME NEW b \in Buffers
      PROVE  count'[b] = Owners(b)' + leaked'[b] /\ Owners(b)' \in Nat
  <2>1. Holders(b) \in Nat /\ Holders(b)' = Holders(b)
    BY HoldersType, Zenon DEF Holders
  <2>2. /\ Owners(b) = (IF b \in mine THEN 1 ELSE 0) + Holders(b)
        /\ Owners(b)' = (IF b \in mine' THEN 1 ELSE 0) + Holders(b)'
    BY OwnersAre, Zenon
  <2>3. /\ count[b] \in Nat /\ leaked[b] \in Nat /\ count'[b] \in Int /\ leaked' = leaked
        /\ count'[b] - (IF b \in mine' THEN 1 ELSE 0) =
             count[b] - (IF b \in mine THEN 1 ELSE 0)
        /\ count[b] = Owners(b) + leaked[b]
    BY DEF PyInv, PyTypeOK, DataAlive
  <2>4. Owners(b)' \in Nat
    BY <2>1, <2>2
  <2>5. Owners(b)' + leaked'[b] = count'[b]
    BY <2>1, <2>2, <2>3
  <2> QED
    BY <2>4, <2>5
<1>2. count' \in [Buffers -> Nat]
  <2>1. \A b \in Buffers : count'[b] \in Nat
    BY <1>1 DEF PyInv, PyTypeOK
  <2> QED
    BY <2>1
<1> QED
  BY <1>1, <1>2 DEF PyInv, PyTypeOK, DataAlive

(* Calls that only make or break a template.                               *)
LEMMA Reshape ==
  ASSUME PyInv, UNCHANGED <<count, mine, leaked, dataObj, data>>,
         object' \in [PyTemplates -> {"none", "whole", "broken"}]
  PROVE  PyInv'
<1>1. \A b \in Buffers : Owners(b)' = Owners(b)
  BY Zenon DEF Owners
<1> QED
  BY <1>1 DEF PyInv, PyTypeOK, DataAlive

LEMMA PyInitInv == PyInit => PyInv
<1> SUFFICES ASSUME PyInit PROVE PyInv
  OBVIOUS
<1> USE DEF PyInit
<1>1. PyTypeOK
  BY DEF PyTypeOK
<1>2. \A t \in PyTemplates : data[t] = None /\ dataObj[t] = None
  OBVIOUS
<1>3. ASSUME NEW b \in Buffers
      PROVE  count[b] = Owners(b) + leaked[b]
  <2>1. {t \in PyTemplates : dataObj[t] = b} = {}
    BY PyAssumption
  <2>2. Holders(b) = 0
    BY <2>1, FS_EmptySet DEF Holders
  <2> QED
    BY <2>2, OwnersAre
<1> QED
  BY <1>1, <1>2, <1>3, PyAssumption DEF PyInv, DataAlive

LEMMA StepNewTemplate ==
  ASSUME PyInv, NEW t \in PyTemplates, NewTemplate(t)
  PROVE  PyInv'
<1>1. object' \in [PyTemplates -> {"none", "whole", "broken"}]
  BY DEF NewTemplate, PyInv, PyTypeOK
<1> QED
  BY <1>1, Reshape DEF NewTemplate

LEMMA StepBytes ==
  ASSUME PyInv, NEW b \in Buffers, NewBytes(b) \/ Drop(b)
  PROVE  PyInv'
<1> USE DEF NewBytes, Drop
<1>1. UNCHANGED <<leaked, object, dataObj, data>>
  OBVIOUS
<1>2. count \in [Buffers -> Nat] /\ mine \subseteq Buffers /\ b # None
  BY PyAssumption DEF PyInv, PyTypeOK
<1>3. CASE NewBytes(b)
  <2>1. b \notin mine /\ count[b] = 0
    BY <1>3, FreshUnowned DEF Fresh
  <2> QED
    BY <1>1, <1>2, <1>3, <2>1, Rehold
<1>4. CASE Drop(b)
  <2>1. Less(count, b) = [count EXCEPT ![b] = @ - 1]
    BY <1>2 DEF Less
  <2> QED
    BY <1>1, <1>2, <1>4, <2>1, Rehold
<1> QED
  BY <1>3, <1>4

(* The template lets go of its array.                                      *)
LEMMA StepLetGo ==
  ASSUME PyInv, NEW t \in PyTemplates,
         count' = Less(count, dataObj[t]), UNCHANGED <<mine, leaked>>,
         object' \in [PyTemplates -> {"none", "whole", "broken"}],
         dataObj' = [dataObj EXCEPT ![t] = None], data' = [data EXCEPT ![t] = None]
  PROVE  PyInv'
<1>1. PyTypeOK
  BY DEF PyInv
<1>2. /\ count' \in [Buffers -> Int] /\ leaked' \in [Buffers -> Nat] /\ mine' \subseteq Buffers
      /\ \A b \in Buffers : count'[b] = count[b] - (IF dataObj[t] = b THEN 1 ELSE 0)
  BY <1>1, ReleasedIs DEF PyTypeOK
<1>3. \A b \in Buffers : /\ count[b] \in Int /\ leaked[b] \in Int /\ leaked'[b] = leaked[b]
                         /\ None # b /\ (b \in mine' <=> b \in mine)
  BY <1>1, PyAssumption DEF PyTypeOK
<1>4. \A b \in Buffers : Counted(b, None = b, dataObj[t] = b)
  BY <1>2, <1>3 DEF Counted
<1>5. Rebound(t, None, None)
  BY <1>2, <1>4 DEF Rebound
<1> QED
  BY <1>5, Rebind

LEMMA StepDealloc ==
  ASSUME PyInv, NEW t \in PyTemplates, Dealloc(t)
  PROVE  PyInv'
<1>1. object' \in [PyTemplates -> {"none", "whole", "broken"}]
  BY DEF Dealloc, PyInv, PyTypeOK
<1> QED
  BY <1>1, StepLetGo DEF Dealloc

LEMMA StepTooLarge ==
  ASSUME PyInv, NEW t \in PyTemplates, CreateTooLarge(t)
  PROVE  PyInv'
<1>1. count' = Less(count, dataObj[t]) /\ object' = object
  BY ReleasedIs DEF CreateTooLarge
<1>2. data[t] = None => dataObj[t] = None
  BY DEF PyInv, DataAlive
<1>3. dataObj' = [dataObj EXCEPT ![t] = None]
  BY <1>2 DEF CreateTooLarge
<1>4. object' \in [PyTemplates -> {"none", "whole", "broken"}]
  BY <1>1 DEF PyInv, PyTypeOK
<1> QED
  BY <1>1, <1>3, <1>4, StepLetGo DEF CreateTooLarge

LEMMA StepFormatChanged ==
  ASSUME PyInv, NEW t \in PyTemplates, RecvFormatChanged(t)
  PROVE  PyInv'
<1>1. object' \in [PyTemplates -> {"none", "whole", "broken"}]
  BY DEF RecvFormatChanged, PyInv, PyTypeOK
<1>2. CASE UNCHANGED object
  BY <1>1, <1>2, StepLetGo, Reshape DEF RecvFormatChanged
<1>3. CASE UNCHANGED <<count, data, dataObj>>
  BY <1>1, <1>3, Reshape DEF RecvFormatChanged
<1> QED
  BY <1>2, <1>3 DEF RecvFormatChanged

(* The template takes the array b, which the program holds or which is new:*)
(* all that remains of a call is the count of b.                           *)
Takes(t, b, d, n) ==
  /\ d \in {b, TrapBuffer} /\ n \in Int
  /\ count' = [Less(count, dataObj[t]) EXCEPT ![b] = n]
  /\ dataObj' = [dataObj EXCEPT ![t] = b] /\ data' = [data EXCEPT ![t] = d]
  /\ object' = object /\ leaked' \in [Buffers -> Nat] /\ mine' \subseteq Buffers
  /\ \A a \in Buffers \ {b} : leaked'[a] = leaked[a] /\ (a \in mine' <=> a \in mine)

LEMMA StepTake ==
  ASSUME PyInv, NEW t \in PyTemplates, NEW b \in Buffers, NEW d, NEW n, Takes(t, b, d, n),
         n - leaked'[b] - (IF b \in mine' THEN 1 ELSE 0) =
           count[b] - leaked[b] - (IF b \in mine THEN 1 ELSE 0)
             + 1 - (IF dataObj[t] = b THEN 1 ELSE 0)
  PROVE  PyInv'
<1> USE DEF Takes
<1>1. PyTypeOK
  BY DEF PyInv
<1>2. /\ count' \in [Buffers -> Int] /\ count'[b] = n
      /\ \A a \in Buffers \ {b} : count'[a] = count[a] - (IF dataObj[t] = a THEN 1 ELSE 0)
  BY ReleasedIs
<1>3. ASSUME NEW a \in Buffers
      PROVE  Counted(a, b = a, dataObj[t] = a)
  <2>1. count[a] \in Int /\ leaked[a] \in Int /\ leaked'[a] \in Int /\ count'[a] \in Int
    BY <1>1, <1>2 DEF PyTypeOK
  <2>2. CASE a = b
    BY <1>2, <2>1, <2>2 DEF Counted
  <2>3. CASE a # b
    <3>1. /\ count'[a] = count[a] - (IF dataObj[t] = a THEN 1 ELSE 0)
          /\ leaked'[a] = leaked[a] /\ (a \in mine' <=> a \in mine)
      BY <1>2, <2>3
    <3> QED
      BY <2>1, <2>3, <3>1 DEF Counted
  <2> QED
    BY <2>2, <2>3
<1>4. Rebound(t, b, d)
  <2>1. d = None <=> b = None
    BY PyAssumption
  <2> QED
    BY <1>1, <1>2, <1>3, <2>1 DEF Rebound, PyTypeOK
<1> QED
  BY <1>4, Rebind

LEMMA StepSetData ==
  ASSUME PyInv, NEW t \in PyTemplates, NEW b \in Buffers, SetData(t, b)
  PROVE  PyInv'
<1>1. /\ Released(t) = Less(count, dataObj[t]) /\ Released(t) \in [Buffers -> Int]
      /\ Released(t)[b] = count[b] - (IF dataObj[t] = b THEN 1 ELSE 0)
  BY ReleasedIs
<1>2. PICK n \in Int : n = Released(t)[b] + 1
  BY <1>1
<1>3. /\ count' = [Less(count, dataObj[t]) EXCEPT ![b] = n]
      /\ dataObj' = [dataObj EXCEPT ![t] = b] /\ data' = [data EXCEPT ![t] = b]
      /\ object' = object /\ leaked' = leaked /\ mine' = mine
  BY <1>1, <1>2 DEF SetData, More
<1>4. count[b] \in Int /\ leaked[b] \in Int /\ leaked \in [Buffers -> Nat] /\ mine \subseteq Buffers
  BY DEF PyInv, PyTypeOK
<1>5. Takes(t, b, b, n)
  BY <1>3, <1>4 DEF Takes
<1>6. n - leaked'[b] - (IF b \in mine' THEN 1 ELSE 0) =
        count[b] - leaked[b] - (IF b \in mine THEN 1 ELSE 0) + 1 - (IF dataObj[t] = b THEN 1 ELSE 0)
  BY <1>1, <1>2, <1>3, <1>4
<1> QED
  BY <1>5, <1>6, StepTake

(* The array is new.                                                       *)
LEMMA StepTakeNew ==
  ASSUME PyInv, NEW t \in PyTemplates, NEW b \in Buffers, NEW d, NEW n, Takes(t, b, d, n),
         Fresh(b), n = leaked'[b] + (IF b \in mine' THEN 1 ELSE 0) + 1
  PROVE  PyInv'
<1>1. b \notin mine /\ leaked[b] = 0 /\ dataObj[t] # b /\ count[b] = 0
  BY FreshUnowned DEF Fresh
<1>2. n \in Int /\ leaked'[b] \in Nat
  BY DEF Takes
<1>3. n - leaked'[b] - (IF b \in mine' THEN 1 ELSE 0) =
        count[b] - leaked[b] - (IF b \in mine THEN 1 ELSE 0) + 1 - (IF dataObj[t] = b THEN 1 ELSE 0)
  BY <1>1, <1>2
<1> QED
  BY <1>3, StepTake

LEMMA StepCreateMessage ==
  ASSUME PyInv, NEW t \in PyTemplates, NEW b \in Buffers, NEW kept \in BOOLEAN,
         CreateMessage(t, b, kept)
  PROVE  PyInv'
<1> USE DEF CreateMessage
<1>1. b \notin mine /\ leaked[b] = 0
  BY FreshUnowned
<1>2. count' = [Less(count, dataObj[t]) EXCEPT ![b] = IF kept THEN 2 ELSE 1]
  BY ReleasedIs
<1>3. leaked \in [Buffers -> Nat] /\ mine \subseteq Buffers
  BY DEF PyInv, PyTypeOK
<1>4. /\ leaked' = leaked /\ mine' \subseteq Buffers
      /\ \A a \in Buffers \ {b} : a \in mine' <=> a \in mine
      /\ b \in mine' <=> kept
  BY <1>1, <1>3
<1>5. (IF kept THEN 2 ELSE 1) = leaked'[b] + (IF b \in mine' THEN 1 ELSE 0) + 1
  BY <1>1, <1>4
<1>6. /\ dataObj' = [dataObj EXCEPT ![t] = b] /\ data' = [data EXCEPT ![t] = b]
      /\ object' = object /\ Fresh(b)
  OBVIOUS
<1> HIDE DEF CreateMessage
<1> DEFINE n == IF kept THEN 2 ELSE 1
<1>7. n \in Int /\ count' = [Less(count, dataObj[t]) EXCEPT ![b] = n]
  BY <1>2
<1> HIDE DEF n
<1>8. n = leaked'[b] + (IF b \in mine' THEN 1 ELSE 0) + 1
  BY <1>5 DEF n
<1>9. Takes(t, b, b, n)
  BY <1>3, <1>4, <1>6, <1>7 DEF Takes
<1> QED
  BY <1>6, <1>8, <1>9, StepTakeNew

LEMMA StepSetFromDict ==
  ASSUME PyInv, NEW t \in PyTemplates, NEW b \in Buffers, SetFromDict(t, b)
  PROVE  PyInv'
<1> USE DEF SetFromDict
<1>1. b \notin mine /\ leaked[b] = 0
  BY FreshUnowned
<1>2. count' = [Less(count, dataObj[t]) EXCEPT ![b] = 2]
  BY ReleasedIs
<1>3. leaked \in [Buffers -> Nat] /\ mine \subseteq Buffers
  BY DEF PyInv, PyTypeOK
<1>4. /\ leaked' \in [Buffers -> Nat] /\ mine' = mine /\ leaked'[b] = 1
      /\ \A a \in Buffers \ {b} : leaked'[a] = leaked[a]
  BY <1>1, <1>3
<1>5. /\ dataObj' = [dataObj EXCEPT ![t] = b] /\ data' = [data EXCEPT ![t] = b]
      /\ object' = object /\ Fresh(b)
  OBVIOUS
<1> HIDE DEF SetFromDict
<1>6. 2 = leaked'[b] + (IF b \in mine' THEN 1 ELSE 0) + 1
  BY <1>1, <1>4
<1>7. Takes(t, b, b, 2)
  BY <1>2, <1>3, <1>4, <1>5 DEF Takes
<1> QED
  BY <1>5, <1>6, <1>7, StepTakeNew

LEMMA StepRecvMessage ==
  ASSUME PyInv, NEW t \in PyTemplates, NEW b \in Buffers, RecvMessage(t, b)
  PROVE  PyInv'
<1> USE DEF RecvMessage
<1>1. b \notin mine /\ leaked[b] = 0
  BY FreshUnowned
<1>2. leaked \in [Buffers -> Nat] /\ mine \subseteq Buffers
  BY DEF PyInv, PyTypeOK
<1>3. 1 = leaked'[b] + (IF b \in mine' THEN 1 ELSE 0) + 1
  BY <1>1
<1>4. Takes(t, b, TrapBuffer, 1)
  BY <1>2 DEF Takes
<1> QED
  BY <1>3, <1>4, StepTakeNew

LEMMA PyStepInv == PyInv /\ [PyNext]_pyVars => PyInv'
<1> SUFFICES ASSUME PyInv, [PyNext]_pyVars PROVE PyInv'
  OBVIOUS
<1>1. CASE UNCHANGED pyVars
  BY <1>1, Reshape DEF pyVars, PyInv, PyTypeOK
<1>2. CASE PyNext
  <2>1. ASSUME NEW t \in PyTemplates,
               NewTemplate(t) \/ Dealloc(t) \/ CreateTooLarge(t) \/ RecvFormatChanged(t)
        PROVE  PyInv'
    BY <2>1, StepNewTemplate, StepDealloc, StepTooLarge, StepFormatChanged
  <2>2. ASSUME NEW t \in PyTemplates, NEW b \in Buffers,
               \/ SetData(t, b)
               \/ CreateMessage(t, b, TRUE)
               \/ CreateMessage(t, b, FALSE)
               \/ SetFromDict(t, b)
               \/ RecvMessage(t, b)
        PROVE  PyInv'
    BY <2>2, StepSetData, StepCreateMessage, StepSetFromDict, StepRecvMessage
  <2>3. ASSUME NEW b \in Buffers, NewBytes(b) \/ Drop(b)
        PROVE  PyInv'
    BY <2>3, StepBytes
  <2> QED
    BY <1>2, <2>1, <2>2, <2>3 DEF PyNext
<1> QED
  BY <1>1, <1>2

(* DataAlive (PyTemplate): for any templates and any byte arrays, a        *)
(* template that points into an array keeps a counted reference to it, and *)
(* every count is the number of owners and of references that are lost.    *)
THEOREM TemplatesKeepData == PySpec => []DataAlive
<1>1. PyInv => DataAlive
  BY DEF PyInv
<1> QED
  BY PyInitInv, PyStepInv, <1>1, PTL DEF PySpec

-----------------------------------------------------------------------------
(* The fast hash filter.                                                   *)
LEMMA TableParts ==
  ASSUME NEW T, FilterTable(T)
  PROVE  \E n \in Nat \ {0} :
           /\ Cardinality(DOMAIN T.row) = n /\ DOMAIN T.row = 1 .. n
           /\ T.row \in [1 .. n -> [1 .. FhfCols -> FhfKeys \cup {Empty}]]
           /\ T.hash \in [FhfKeys -> 1 .. n]
           /\ T = [row |-> T.row, hash |-> T.hash]
<1> DEFINE n == Cardinality(DOMAIN T.row)
<1>1. n \in Nat \ {0} /\ T \in [row  : [1 .. n -> [1 .. FhfCols -> FhfKeys \cup {Empty}]],
                       hash : [FhfKeys -> 1 .. n]]
  BY DEF FilterTable
<1>2. DOMAIN T.row = 1 .. n
  <2> HIDE DEF n
  <2> QED
    BY <1>1
<1>3. T = [row |-> T.row, hash |-> T.hash]
  <2> HIDE DEF n
  <2> QED
    BY <1>1
<1> HIDE DEF n
<1> QED
  BY <1>1, <1>2, <1>3 DEF n

LEMMA TableIs ==
  ASSUME NEW n \in Nat \ {0},
         NEW R \in [1 .. n -> [1 .. FhfCols -> FhfKeys \cup {Empty}]],
         NEW H \in [FhfKeys -> 1 .. n]
  PROVE  /\ FilterTable([row |-> R, hash |-> H]) /\ Cardinality(DOMAIN R) = n
<1>1. DOMAIN R = 1 .. n
  OBVIOUS
<1>2. Cardinality(1 .. n) = n
  BY FS_Interval
<1> QED
  BY <1>1, <1>2 DEF FilterTable

LEMMA KeysIn ==
  ASSUME NEW T, FilterTable(T)
  PROVE  /\ KeysOf(T) \subseteq FhfKeys
         /\ \A k \in FhfKeys : k \in KeysOf(T) <=>
              \E r \in DOMAIN T.row, c \in 1 .. FhfCols : T.row[r][c] = k
<1>1. PICK n \in Nat \ {0} :
        /\ DOMAIN T.row = 1 .. n
        /\ T.row \in [1 .. n -> [1 .. FhfCols -> FhfKeys \cup {Empty}]]
  BY TableParts
<1>2. \A k : k \in KeysOf(T) <=>
        k # Empty /\ \E r \in DOMAIN T.row, c \in 1 .. FhfCols : T.row[r][c] = k
  BY DEF KeysOf
<1>3. \A r \in DOMAIN T.row, c \in 1 .. FhfCols : T.row[r][c] \in FhfKeys \cup {Empty}
  BY <1>1
<1> QED
  BY <1>2, <1>3, FhfAssumption

LEMMA InTableIs ==
  ASSUME NEW T, FilterTable(T), Placed(T), NEW k \in FhfKeys
  PROVE  /\ InTable(T, k) <=> k \in KeysOf(T)
         /\ T.hash[k] \in DOMAIN T.row
<1>1. T.hash[k] \in DOMAIN T.row
  BY TableParts
<1>2. ASSUME NEW r \in DOMAIN T.row, NEW c \in 1 .. FhfCols, T.row[r][c] = k
      PROVE  r = T.hash[k]
  BY <1>2, FhfAssumption DEF Placed
<1> QED
  BY <1>1, <1>2, KeysIn DEF InTable, RowOf

LEMMA LeastColumn ==
  ASSUME NEW S \in SUBSET (1 .. FhfCols), S # {}
  PROVE  /\ (CHOOSE c \in S : \A d \in S : c <= d) \in S
         /\ \A d \in S : (CHOOSE c \in S : \A e \in S : c <= e) <= d
<1>1. IsWellFoundedOn(OpToRel(<, Nat), Nat)
  BY NatLessThanWellFounded, Zenon
<1>2. S \in SUBSET Nat
  BY FhfAssumption
<1>3. PICK n \in S : \A m \in S : ~(<<m, n>> \in OpToRel(<, Nat))
  BY <1>1, <1>2, WFMin, Zenon
<1>4. \A m \in S : ~(m < n)
  BY <1>2, <1>3 DEF OpToRel
<1>5. \A m \in S : n <= m
  BY <1>2, <1>4
<1> QED
  BY <1>5

(* A key goes into a free column of its row.                               *)
LEMMA KeyInserted ==
  ASSUME NEW T, FilterTable(T), Placed(T), NEW k \in FhfKeys, k \notin KeysOf(T),
         FreeCols(T, k) # {}
  PROVE  LET U == WithKey(T, k)
         IN  /\ FilterTable(U) /\ Placed(U) /\ KeysOf(U) = KeysOf(T) \cup {k}
             /\ U.hash = T.hash /\ DOMAIN U.row = DOMAIN T.row
             /\ \A r \in DOMAIN T.row, c \in 1 .. FhfCols :
                  T.row[r][c] # Empty => U.row[r][c] = T.row[r][c]
<1> DEFINE U == WithKey(T, k)
           h == T.hash[k]
<1>1. PICK n \in Nat \ {0} :
        /\ DOMAIN T.row = 1 .. n
        /\ T.row \in [1 .. n -> [1 .. FhfCols -> FhfKeys \cup {Empty}]]
        /\ T.hash \in [FhfKeys -> 1 .. n]
        /\ T = [row |-> T.row, hash |-> T.hash]
  BY TableParts
<1>2. PICK c \in 1 .. FhfCols : T.row[h][c] = Empty /\ U = [T EXCEPT !.row[h][c] = k]
  <2>1. FreeCols(T, k) \in SUBSET (1 .. FhfCols)
    BY DEF FreeCols
  <2>2. (CHOOSE d \in FreeCols(T, k) : \A e \in FreeCols(T, k) : d <= e) \in FreeCols(T, k)
    BY <2>1, LeastColumn
  <2> QED
    BY <2>2 DEF WithKey, FreeCols, RowOf
<1> HIDE DEF U
<1> DEFINE R == [T.row EXCEPT ![h][c] = k]
<1>3. U = [row |-> R, hash |-> T.hash]
  BY <1>1, <1>2
<1>4. /\ R \in [1 .. n -> [1 .. FhfCols -> FhfKeys \cup {Empty}]] /\ h \in 1 .. n
      /\ \A r \in 1 .. n, d \in 1 .. FhfCols :
           R[r][d] = IF r = h /\ d = c THEN k ELSE T.row[r][d]
  BY <1>1
<1> HIDE DEF R
<1>5. FilterTable(U)
  BY <1>1, <1>3, <1>4, TableIs
<1>6. /\ U.row = R /\ U.hash = T.hash /\ DOMAIN R = 1 .. n
  BY <1>3, <1>4
<1>7. \A r \in 1 .. n, d \in 1 .. FhfCols : T.row[r][d] # k
  BY <1>1, KeysIn
<1>8. Placed(U)
  <2> SUFFICES ASSUME NEW r \in 1 .. n, NEW d \in 1 .. FhfCols, R[r][d] # Empty,
                      NEW e \in 1 .. FhfCols
               PROVE  T.hash[R[r][d]] = r /\ (R[r][e] = R[r][d] => e = d)
    BY <1>6 DEF Placed
  <2>1. T.row[r][d] # Empty => /\ T.hash[T.row[r][d]] = r
                               /\ T.row[r][e] = T.row[r][d] => e = d
    BY <1>1 DEF Placed
  <2> QED
    BY <1>4, <1>7, <2>1
<1>9. \A j \in FhfKeys : j \in KeysOf(U) <=> j \in KeysOf(T) \cup {k}
  <2>0. \A j \in FhfKeys : j \in KeysOf(U) <=> \E r \in 1 .. n, d \in 1 .. FhfCols : R[r][d] = j
    BY <1>5, <1>6, KeysIn
  <2>1. \A j \in FhfKeys : j \in KeysOf(T) <=> \E r \in 1 .. n, d \in 1 .. FhfCols : T.row[r][d] = j
    BY <1>1, KeysIn
  <2>2. R[h][c] = k
    BY <1>4
  <2>3. \A r \in 1 .. n, d \in 1 .. FhfCols : T.row[r][d] \in FhfKeys => R[r][d] = T.row[r][d]
    BY <1>2, <1>4, FhfAssumption
  <2>4. \A r \in 1 .. n, d \in 1 .. FhfCols : R[r][d] # k => R[r][d] = T.row[r][d]
    BY <1>4
  <2>5. h \in 1 .. n /\ c \in 1 .. FhfCols
    BY <1>2, <1>4
  <2>6. ASSUME NEW j \in FhfKeys, j # k
        PROVE  (\E r \in 1 .. n, d \in 1 .. FhfCols : R[r][d] = j)
                 <=> (\E r \in 1 .. n, d \in 1 .. FhfCols : T.row[r][d] = j)
    <3>1. \A r \in 1 .. n, d \in 1 .. FhfCols : R[r][d] = j => T.row[r][d] = j
      BY <2>4, <2>6, Zenon
    <3>2. \A r \in 1 .. n, d \in 1 .. FhfCols : T.row[r][d] = j => R[r][d] = j
      BY <2>3, Zenon
    <3> QED
      BY <3>1, <3>2, Zenon
  <2>7. \A j \in FhfKeys : j \in KeysOf(U) <=> j = k \/ j \in KeysOf(T)
    BY <2>0, <2>1, <2>2, <2>5, <2>6
  <2> QED
    BY <2>7, Zenon
<1>10. KeysOf(U) = KeysOf(T) \cup {k}
  BY <1>5, <1>9, KeysIn
<1>11. \A r \in DOMAIN T.row, d \in 1 .. FhfCols : T.row[r][d] # Empty => U.row[r][d] = T.row[r][d]
  BY <1>1, <1>2, <1>4, <1>6
<1> QED
  BY <1>1, <1>5, <1>6, <1>8, <1>10, <1>11 DEF U

(* A key leaves its column.                                                *)
LEMMA KeyRemoved ==
  ASSUME NEW T, FilterTable(T), Placed(T), NEW k \in FhfKeys
  PROVE  LET U == Without(T, k)
         IN  /\ FilterTable(U) /\ Placed(U) /\ KeysOf(U) = KeysOf(T) \ {k}
             /\ U.hash = T.hash /\ DOMAIN U.row = DOMAIN T.row
             /\ \A r \in DOMAIN T.row, c \in 1 .. FhfCols :
                  T.row[r][c] \notin {k, Empty} => U.row[r][c] = T.row[r][c]
<1> DEFINE U == Without(T, k)
           h == T.hash[k]
<1>1. PICK n \in Nat \ {0} :
        /\ DOMAIN T.row = 1 .. n
        /\ T.row \in [1 .. n -> [1 .. FhfCols -> FhfKeys \cup {Empty}]]
        /\ T.hash \in [FhfKeys -> 1 .. n]
        /\ T = [row |-> T.row, hash |-> T.hash]
  BY TableParts
<1> DEFINE V == [c \in 1 .. FhfCols |-> IF T.row[h][c] = k THEN Empty ELSE T.row[h][c]]
           R == [T.row EXCEPT ![h] = V]
<1>3. U = [row |-> R, hash |-> T.hash]
  <2>1. U = [T EXCEPT !.row[h] = V]
    BY Zenon DEF Without, RowOf
  <2> HIDE DEF U, V, h
  <2> QED
    BY <1>1, <2>1
<1>4. /\ R \in [1 .. n -> [1 .. FhfCols -> FhfKeys \cup {Empty}]] /\ h \in 1 .. n
      /\ \A r \in 1 .. n, d \in 1 .. FhfCols :
           R[r][d] = IF r = h /\ T.row[h][d] = k THEN Empty ELSE T.row[r][d]
  BY <1>1
<1> HIDE DEF R, U
<1>5. FilterTable(U)
  BY <1>1, <1>3, <1>4, TableIs
<1>6. /\ U.row = R /\ U.hash = T.hash /\ DOMAIN R = 1 .. n
  BY <1>3, <1>4
<1>7. \A r \in 1 .. n, d \in 1 .. FhfCols : T.row[r][d] = k => r = h
  BY <1>1, FhfAssumption DEF Placed
<1>8. Placed(U)
  <2> SUFFICES ASSUME NEW r \in 1 .. n, NEW d \in 1 .. FhfCols, R[r][d] # Empty,
                      NEW e \in 1 .. FhfCols
               PROVE  T.hash[R[r][d]] = r /\ (R[r][e] = R[r][d] => e = d)
    BY <1>6 DEF Placed
  <2>1. T.row[r][d] # Empty => /\ T.hash[T.row[r][d]] = r
                               /\ T.row[r][e] = T.row[r][d] => e = d
    BY <1>1 DEF Placed
  <2> QED
    BY <1>4, <2>1
<1>9. \A j \in FhfKeys : j \in KeysOf(U) <=> j \in KeysOf(T) \ {k}
  <2>0. \A j \in FhfKeys : j \in KeysOf(U) <=> \E r \in 1 .. n, d \in 1 .. FhfCols : R[r][d] = j
    BY <1>5, <1>6, KeysIn
  <2>1. \A j \in FhfKeys : j \in KeysOf(T) <=> \E r \in 1 .. n, d \in 1 .. FhfCols : T.row[r][d] = j
    <3>1. \A j \in FhfKeys : j \in KeysOf(T) <=>
            \E r \in DOMAIN T.row, d \in 1 .. FhfCols : T.row[r][d] = j
      BY KeysIn, Zenon
    <3> QED
      BY <1>1, <3>1, Zenon
  <2>2. \A r \in 1 .. n, d \in 1 .. FhfCols : R[r][d] # k
    <3>1. k # Empty
      BY FhfAssumption
    <3> QED
      BY <1>4, <1>7, <3>1
  <2>3. \A r \in 1 .. n, d \in 1 .. FhfCols : R[r][d] \in {T.row[r][d], Empty}
    BY <1>4
  <2>4. \A r \in 1 .. n, d \in 1 .. FhfCols : T.row[r][d] # k => R[r][d] = T.row[r][d]
    BY <1>4
  <2> QED
    BY <2>0, <2>1, <2>2, <2>3, <2>4, FhfAssumption
<1>10. KeysOf(U) = KeysOf(T) \ {k}
  BY <1>5, <1>9, KeysIn
<1>11. \A r \in DOMAIN T.row, d \in 1 .. FhfCols :
         T.row[r][d] \notin {k, Empty} => U.row[r][d] = T.row[r][d]
  BY <1>1, <1>4, <1>6
<1> QED
  BY <1>1, <1>5, <1>6, <1>8, <1>10, <1>11 DEF U

(* A table without any key.                                                *)
LEMMA NoKeys ==
  ASSUME NEW n \in Nat \ {0}, NEW H \in [FhfKeys -> 1 .. n], NEW T,
         T = [row |-> [r \in 1 .. n |-> [c \in 1 .. FhfCols |-> Empty]], hash |-> H]
  PROVE  FilterTable(T) /\ Placed(T) /\ KeysOf(T) = {} /\ Cardinality(DOMAIN T.row) = n
<1> DEFINE R == [r \in 1 .. n |-> [c \in 1 .. FhfCols |-> Empty]]
<1>1. /\ R \in [1 .. n -> [1 .. FhfCols -> FhfKeys \cup {Empty}]]
      /\ \A r \in 1 .. n, c \in 1 .. FhfCols : R[r][c] = Empty
      /\ T.row = R /\ DOMAIN R = 1 .. n /\ T = [row |-> R, hash |-> H]
  OBVIOUS
<1> HIDE DEF R
<1>2. FilterTable(T) /\ Cardinality(DOMAIN T.row) = n
  BY <1>1, TableIs
<1>3. Placed(T)
  BY <1>1 DEF Placed
<1>4. \A k \in FhfKeys : k \notin KeysOf(T)
  BY <1>1, <1>2, KeysIn, FhfAssumption
<1> QED
  BY <1>2, <1>3, <1>4, KeysIn

LEMMA NewTablesEmpty ==
  ASSUME NEW n \in Nat \ {0}, NEW T \in NewTables(n)
  PROVE  FilterTable(T) /\ Placed(T) /\ KeysOf(T) = {} /\ Cardinality(DOMAIN T.row) = n
<1>1. PICK h \in Hashes :
        T = [row |-> [r \in 1 .. n |-> [c \in 1 .. FhfCols |-> Empty]],
             hash |-> [k \in FhfKeys |-> (h[k] % n) + 1]]
  BY Zenon DEF NewTables
<1> DEFINE H == [k \in FhfKeys |-> (h[k] % n) + 1]
<1>2. H \in [FhfKeys -> 1 .. n]
  BY FhfAssumption
<1> HIDE DEF H
<1>3. T = [row |-> [r \in 1 .. n |-> [c \in 1 .. FhfCols |-> Empty]], hash |-> H]
  BY <1>1 DEF H
<1> QED
  BY <1>2, <1>3, NoKeys

LEMMA FhfInitInv == FhfInit => FhfInv
<1> SUFFICES ASSUME FhfInit PROVE FhfInv
  OBVIOUS
<1> USE DEF FhfInit
<1>1. FilterTable(filter) /\ Placed(filter) /\ KeysOf(filter) = stored /\ stored \subseteq FhfKeys
  BY NewTablesEmpty
<1>2. Resizing
  BY DEF Resizing
<1>3. Looking
  BY FhfAssumption DEF Looking, NoReader
<1> QED
  BY <1>1, <1>2, <1>3 DEF FhfInv

(* A lookup goes on while the table it reads keeps its key.                *)
KeepsKey(s) ==
  s /\ ~reader.inOld /\ reader.pc = "scan" =>
    \A c \in 1 .. FhfCols : filter.row[filter.hash[reader.key]][c] = reader.key =>
                              filter'.row[filter'.hash[reader.key]][c] = reader.key

LEMMA LookingKept ==
  ASSUME Looking, NEW s \in BOOLEAN, s => reader.stays, KeepsKey(s),
         reader' = [reader EXCEPT !.stays = s], reader.inOld => oldTable' = oldTable
  PROVE  Looking'
<1>1. /\ reader \in [pc : {"idle", "scan", "found", "missing", "holds"}, key : FhfKeys \cup {Empty},
                     inOld : BOOLEAN, col : 0 .. FhfCols - 1, stays : BOOLEAN]
      /\ reader'.pc = reader.pc /\ reader'.key = reader.key /\ reader'.inOld = reader.inOld
      /\ reader'.col = reader.col /\ reader'.stays = s
  BY DEF Looking
<1>2. reader' \in [pc : {"idle", "scan", "found", "missing", "holds"}, key : FhfKeys \cup {Empty},
                   inOld : BOOLEAN, col : 0 .. FhfCols - 1, stays : BOOLEAN]
  BY <1>1
<1>3. ASSUME reader'.pc = "scan", reader'.stays
      PROVE  \E c \in reader'.col + 1 .. FhfCols : ReadRow(reader.key)'[c] = reader.key
  <2>1. PICK c \in reader.col + 1 .. FhfCols : ReadRow(reader.key)[c] = reader.key
    BY <1>1, <1>3 DEF Looking
  <2>2. c \in 1 .. FhfCols
    BY <1>1, FhfAssumption
  <2>3. ReadRow(reader.key)'[c] = reader.key
    BY <1>1, <1>3, <2>1, <2>2 DEF KeepsKey, ReadRow, RowOf
  <2> QED
    BY <1>1, <2>1, <2>3
<1> QED
  BY <1>1, <1>2, <1>3 DEF Looking

LEMMA StepInsert ==
  ASSUME FhfInv, NEW k \in FhfKeys, FhfInsert(k)
  PROVE  FhfInv'
<1> USE DEF FhfInsert
<1>1. FilterTable(filter) /\ Placed(filter) /\ KeysOf(filter) = stored /\ k \notin KeysOf(filter)
  BY InTableIs DEF FhfInv
<1>2. /\ FilterTable(filter') /\ Placed(filter') /\ KeysOf(filter') = stored \cup {k}
      /\ filter'.hash = filter.hash
      /\ \A r \in DOMAIN filter.row, c \in 1 .. FhfCols :
           filter.row[r][c] # Empty => filter'.row[r][c] = filter.row[r][c]
  BY <1>1, KeyInserted
<1>3. Resizing'
  BY DEF Resizing
<1>4. Looking /\ reader' = [reader EXCEPT !.stays = reader.stays] /\ reader.stays \in BOOLEAN
  BY DEF FhfInv, Looking
<1>5. KeepsKey(reader.stays)
  BY <1>1, <1>2, <1>4, InTableIs, FhfAssumption DEF KeepsKey, Looking
<1>6. Looking'
  BY <1>4, <1>5, LookingKept
<1> QED
  BY <1>2, <1>3, <1>6 DEF FhfInv

LEMMA StepRemove ==
  ASSUME FhfInv, NEW k \in FhfKeys, FhfRemove(k)
  PROVE  FhfInv'
<1> USE DEF FhfRemove
<1>1. FilterTable(filter) /\ Placed(filter) /\ KeysOf(filter) = stored /\ stored \subseteq FhfKeys
  BY DEF FhfInv
<1>2. /\ FilterTable(filter') /\ Placed(filter') /\ KeysOf(filter') = stored \ {k}
      /\ filter'.hash = filter.hash
      /\ \A r \in DOMAIN filter.row, c \in 1 .. FhfCols :
           filter.row[r][c] \notin {k, Empty} => filter'.row[r][c] = filter.row[r][c]
  BY <1>1, KeyRemoved
<1>3. Resizing'
  BY DEF Resizing
<1> DEFINE s == reader.stays /\ reader.key \in stored'
<1>4. Looking /\ reader' = [reader EXCEPT !.stays = s] /\ s \in BOOLEAN /\ (s => reader.stays)
  BY DEF FhfInv, Looking, Unchanging
<1>5. KeepsKey(s)
  BY <1>1, <1>2, <1>4, InTableIs, FhfAssumption DEF KeepsKey, Looking
<1> HIDE DEF s
<1>6. Looking'
  BY <1>4, <1>5, LookingKept
<1> QED
  BY <1>1, <1>2, <1>3, <1>6 DEF FhfInv

LEMMA StepClear ==
  ASSUME FhfInv, FhfClear
  PROVE  FhfInv'
<1> USE DEF FhfClear
<1>1. FilterTable(filter)
  BY DEF FhfInv
<1>2. PICK n \in Nat \ {0} :
        /\ DOMAIN filter.row = 1 .. n /\ filter.hash \in [FhfKeys -> 1 .. n]
        /\ filter = [row |-> filter.row, hash |-> filter.hash]
  BY <1>1, TableParts
<1>3. filter' = [row |-> [r \in 1 .. n |-> [c \in 1 .. FhfCols |-> Empty]], hash |-> filter.hash]
  BY <1>2
<1>4. FilterTable(filter') /\ Placed(filter') /\ KeysOf(filter') = {}
  BY <1>2, <1>3, NoKeys
<1>5. Resizing'
  BY DEF Resizing
<1>6. Looking /\ reader' = [reader EXCEPT !.stays = FALSE]
  BY DEF FhfInv, Looking, Unchanging
<1>7. KeepsKey(FALSE)
  BY DEF KeepsKey
<1>8. Looking'
  BY <1>6, <1>7, LookingKept
<1> QED
  BY <1>4, <1>5, <1>8 DEF FhfInv

(* The lookup, and the table it reads, are not changed.                    *)
LEMMA LookingSame ==
  ASSUME Looking, UNCHANGED <<filter, reader>>, reader.inOld => oldTable' = oldTable
  PROVE  Looking'
<1>1. reader' = [reader EXCEPT !.stays = reader.stays] /\ reader.stays \in BOOLEAN
  BY DEF Looking
<1>2. KeepsKey(reader.stays)
  BY DEF KeepsKey
<1> QED
  BY <1>1, <1>2, LookingKept

LEMMA StepResizeBegin ==
  ASSUME FhfInv, ResizeBegin
  PROVE  FhfInv'
<1> USE DEF ResizeBegin
<1>1. PICK n \in Nat \ {0} : Cardinality(DOMAIN filter.row) = n
  BY TableParts DEF FhfInv
<1>2. PICK T \in NewTables(2 * n) : resize' = [table |-> T, row |-> 1, col |-> 0]
  BY <1>1
<1>3. FilterTable(T) /\ Placed(T) /\ KeysOf(T) = {}
  <2>1. 2 * n \in Nat \ {0}
    OBVIOUS
  <2> QED
    BY <2>1, NewTablesEmpty
<1>4. Moved' = {}
  <2>1. \A r, c : r \in DOMAIN filter.row /\ c \in 1 .. FhfCols => ~Passed(r, c)'
    <3>1. PICK m \in Nat \ {0} : DOMAIN filter.row = 1 .. m
      BY TableParts DEF FhfInv
    <3> QED
      BY <1>2, <3>1, FhfAssumption DEF Passed
  <2> QED
    BY <2>1 DEF Moved
<1>5. Resizing'
  BY <1>1, <1>2, <1>3, <1>4, FhfAssumption DEF Resizing
<1>6. Looking'
  BY LookingSame DEF FhfInv
<1> QED
  BY <1>5, <1>6 DEF FhfInv

(* What the iterator has passed when it stands on the next item, and when  *)
(* it goes to the next row.                                                *)
LEMMA MovedOn ==
  ASSUME FhfInv, resize # NoTable, resize.row \in DOMAIN filter.row,
         UNCHANGED filter,
         NEW c \in 1 .. FhfCols, c > resize.col,
         \A d \in 1 .. FhfCols :
           d > resize.col /\ d < c => filter.row[resize.row][d] = Empty,
         NEW k \in FhfKeys, k = filter.row[resize.row][c],
         resize'.row = resize.row, resize'.col = c
  PROVE  Moved' = Moved \cup {k}
<1>1. PICK n \in Nat \ {0} : DOMAIN filter.row = 1 .. n
  BY TableParts DEF FhfInv
<1>2. resize.col \in 0 .. FhfCols /\ FhfCols \in Nat
  BY FhfAssumption DEF FhfInv, Resizing
<1>4. \A r \in DOMAIN filter.row, d \in 1 .. FhfCols :
        Passed(r, d)' <=> Passed(r, d) \/ (r = resize.row /\ d > resize.col /\ d <= c)
  BY <1>1, <1>2 DEF Passed
<1>5. \A j \in FhfKeys : j \in Moved' <=> j \in Moved \cup {k}
  <2>1. \A j \in FhfKeys :
          j \in Moved' <=> \E r \in DOMAIN filter.row, d \in 1 .. FhfCols :
                             Passed(r, d)' /\ filter.row[r][d] = j
    BY Zenon DEF Moved
  <2>2. \A j \in FhfKeys :
          j \in Moved <=> \E r \in DOMAIN filter.row, d \in 1 .. FhfCols :
                             Passed(r, d) /\ filter.row[r][d] = j
    BY Zenon DEF Moved
  <2>3. \A d \in 1 .. FhfCols : d > resize.col /\ d <= c =>
          filter.row[resize.row][d] = IF d = c THEN k ELSE Empty
    BY <1>2
  <2>4. Passed(resize.row, c)'
    BY <1>2, <1>4
  <2> QED
    BY <1>4, <2>1, <2>2, <2>3, <2>4, FhfAssumption
<1> QED
  BY <1>5 DEF Moved

LEMMA StepResizeItem ==
  ASSUME FhfInv, ResizeItem
  PROVE  FhfInv'
<1> USE DEF ResizeItem
<1>1. /\ FilterTable(filter) /\ Resizing /\ FilterTable(resize.table) /\ Placed(resize.table)
      /\ KeysOf(resize.table) = Moved /\ ~reader.inOld /\ resize.row \in DOMAIN filter.row
      /\ resize \in [table : {resize.table}, row : 1 .. Cardinality(DOMAIN filter.row) + 1,
                     col : 0 .. FhfCols]
  BY DEF FhfInv, Resizing
<1>2. PICK c \in Following :
        /\ \A e \in Following : c <= e
        /\ LET k == filter.row[resize.row][c]
               rows == Cardinality(DOMAIN resize.table.row)
           IN IF FreeCols(resize.table, k) # {}
                THEN resize' = [resize EXCEPT !.table = WithKey(@, k), !.col = c]
                ELSE IF 2 * rows <= MaxRows
                       THEN \E T \in NewTables(2 * rows) :
                              resize' = [table |-> T, row |-> 1, col |-> 0]
                       ELSE resize' = NoTable
  <2>1. Following \in SUBSET (1 .. FhfCols) /\ Following # {}
    BY DEF Following
  <2>2. PICK c : c = CHOOSE d \in Following : \A e \in Following : d <= e
    OBVIOUS
  <2>3. c \in Following /\ \A e \in Following : c <= e
    BY <2>1, <2>2, LeastColumn
  <2> QED
    BY <2>2, <2>3
<1>3. PICK k \in FhfKeys : k = filter.row[resize.row][c]
  <2>1. filter.row[resize.row][c] \in FhfKeys \cup {Empty}
    <3>1. PICK n \in Nat \ {0} :
            /\ DOMAIN filter.row = 1 .. n
            /\ filter.row \in [1 .. n -> [1 .. FhfCols -> FhfKeys \cup {Empty}]]
      BY <1>1, TableParts
    <3> QED
      BY <1>1, <3>1 DEF Following
  <2> QED
    BY <2>1 DEF Following
<1>4. /\ c \in 1 .. FhfCols /\ c > resize.col
      /\ \A d \in 1 .. FhfCols : d > resize.col /\ d < c => filter.row[resize.row][d] = Empty
  <2>1. \A d \in 1 .. FhfCols : d < c => ~(c <= d)
    BY FhfAssumption DEF Following
  <2> QED
    BY <1>2, <2>1 DEF Following
<1>5. Looking'
  BY LookingSame DEF FhfInv
<1>6. k \notin Moved
  <2>1. k # Empty
    BY FhfAssumption
  <2> SUFFICES ASSUME NEW r \in DOMAIN filter.row, NEW d \in 1 .. FhfCols,
                      Passed(r, d), filter.row[r][d] = k
               PROVE  FALSE
    BY DEF Moved
  <2>2. r = resize.row /\ d = c
    BY <1>1, <1>3, <1>4, <2>1 DEF FhfInv, Placed
  <2>3. r \in Int /\ d \in Int /\ resize.col \in Int
    BY <1>1, TableParts, FhfAssumption
  <2> QED
    BY <1>4, <2>2, <2>3 DEF Passed
<1>7. CASE FreeCols(resize.table, k) # {}
  <2>1. resize' = [resize EXCEPT !.table = WithKey(resize.table, k), !.col = c]
    BY <1>2, <1>3, <1>7
  <2>2. /\ FilterTable(WithKey(resize.table, k)) /\ Placed(WithKey(resize.table, k))
        /\ KeysOf(WithKey(resize.table, k)) = Moved \cup {k}
    BY <1>1, <1>6, <1>7, KeyInserted
  <2>3. /\ resize'.table = WithKey(resize.table, k)
        /\ resize'.row = resize.row /\ resize'.col = c
        /\ resize' \in [table : {resize'.table}, row : 1 .. Cardinality(DOMAIN filter.row) + 1,
                        col : 0 .. FhfCols]
    <3>1. PICK U : U = WithKey(resize.table, k)
      OBVIOUS
    <3>2. resize' = [table |-> U, row |-> resize.row, col |-> c]
      BY <1>1, <2>1, <3>1
    <3>3. resize.row \in 1 .. Cardinality(DOMAIN filter.row) + 1 /\ c \in 0 .. FhfCols
      BY <1>1, <1>4, FhfAssumption
    <3> QED
      BY <3>1, <3>2, <3>3
  <2>4. Moved' = Moved \cup {k}
    BY <1>1, <1>3, <1>4, <2>3, MovedOn
  <2>5. Resizing'
    BY <1>1, <2>2, <2>3, <2>4 DEF Resizing
  <2> QED
    BY <1>5, <2>5 DEF FhfInv
<1>8. CASE FreeCols(resize.table, k) = {}
  <2>1. PICK m \in Nat \ {0} : Cardinality(DOMAIN resize.table.row) = m
    BY <1>1, TableParts
  <2>2. CASE \E T \in NewTables(2 * m) : resize' = [table |-> T, row |-> 1, col |-> 0]
    <3>1. PICK T \in NewTables(2 * m) : resize' = [table |-> T, row |-> 1, col |-> 0]
      BY <2>2
    <3>2. FilterTable(T) /\ Placed(T) /\ KeysOf(T) = {}
      <4>1. 2 * m \in Nat \ {0}
        OBVIOUS
      <4> QED
        BY <4>1, NewTablesEmpty
    <3>3. PICK n \in Nat \ {0} : Cardinality(DOMAIN filter.row) = n /\ DOMAIN filter.row = 1 .. n
      BY <1>1, TableParts
    <3>4. Moved' = {}
      <4>1. \A r, d : r \in DOMAIN filter.row /\ d \in 1 .. FhfCols => ~Passed(r, d)'
        BY <3>1, <3>3, FhfAssumption DEF Passed
      <4> QED
        BY <4>1 DEF Moved
    <3>5. Resizing'
      BY <1>1, <3>1, <3>2, <3>3, <3>4, FhfAssumption DEF Resizing
    <3> QED
      BY <1>5, <3>5 DEF FhfInv
  <2>3. CASE resize' = NoTable
    BY <1>5, <2>3 DEF FhfInv, Resizing
  <2> QED
    BY <1>2, <1>3, <1>8, <2>1, <2>2, <2>3
<1> QED
  BY <1>7, <1>8

LEMMA StepResizeRow ==
  ASSUME FhfInv, ResizeRow
  PROVE  FhfInv'
<1> USE DEF ResizeRow
<1>1. /\ FilterTable(resize.table) /\ Placed(resize.table)
      /\ KeysOf(resize.table) = Moved /\ ~reader.inOld /\ resize.row \in DOMAIN filter.row
      /\ resize \in [table : {resize.table}, row : 1 .. Cardinality(DOMAIN filter.row) + 1,
                     col : 0 .. FhfCols]
  BY DEF FhfInv, Resizing
<1>2. PICK n \in Nat \ {0} : Cardinality(DOMAIN filter.row) = n /\ DOMAIN filter.row = 1 .. n
  BY TableParts DEF FhfInv
<1>3. resize' = [table |-> resize.table, row |-> resize.row + 1, col |-> 0]
  BY <1>1
<1>4. resize.row \in 1 .. n /\ resize.col \in 0 .. FhfCols /\ FhfCols \in Nat
  BY <1>1, <1>2, FhfAssumption
<1>5. \A c \in 1 .. FhfCols : c > resize.col => filter.row[resize.row][c] = Empty
  BY DEF Following
<1>6. \A r \in DOMAIN filter.row, c \in 1 .. FhfCols :
        Passed(r, c)' <=> Passed(r, c) \/ (r = resize.row /\ c > resize.col)
  BY <1>2, <1>3, <1>4 DEF Passed
<1>7. Moved' = Moved
  <2>1. \A j \in FhfKeys :
          j \in Moved' <=> \E r \in DOMAIN filter.row, d \in 1 .. FhfCols :
                             Passed(r, d)' /\ filter.row[r][d] = j
    BY Zenon DEF Moved
  <2>2. \A j \in FhfKeys :
          j \in Moved <=> \E r \in DOMAIN filter.row, d \in 1 .. FhfCols :
                             Passed(r, d) /\ filter.row[r][d] = j
    BY Zenon DEF Moved
  <2>3. \A j \in FhfKeys : j \in Moved' <=> j \in Moved
    BY <1>5, <1>6, <2>1, <2>2, FhfAssumption
  <2> QED
    BY <2>3 DEF Moved
<1>8. Resizing'
  BY <1>1, <1>2, <1>3, <1>4, <1>7, FhfAssumption DEF Resizing
<1>9. Looking'
  BY LookingSame DEF FhfInv
<1> QED
  BY <1>8, <1>9 DEF FhfInv

LEMMA StepResizeEnd ==
  ASSUME FhfInv, ResizeEnd
  PROVE  FhfInv'
<1> USE DEF ResizeEnd
<1>1. /\ FilterTable(resize.table) /\ Placed(resize.table)
      /\ KeysOf(resize.table) = Moved /\ ~reader.inOld /\ resize.row \notin DOMAIN filter.row
      /\ resize.row \in 1 .. Cardinality(DOMAIN filter.row) + 1
      /\ FilterTable(filter) /\ KeysOf(filter) = stored
  BY DEF FhfInv, Resizing
<1>2. PICK n \in Nat \ {0} : Cardinality(DOMAIN filter.row) = n /\ DOMAIN filter.row = 1 .. n
  BY <1>1, TableParts
<1>3. Moved = stored
  <2>1. \A r \in DOMAIN filter.row, c \in 1 .. FhfCols : Passed(r, c)
    BY <1>1, <1>2 DEF Passed
  <2>2. \A j \in FhfKeys : j \in Moved <=> j \in stored
    BY <1>1, <2>1, KeysIn DEF Moved
  <2> QED
    BY <1>1, <2>2, KeysIn DEF Moved
<1>4. FilterTable(filter') /\ Placed(filter') /\ KeysOf(filter') = stored
  BY <1>1, <1>3
<1>5. Resizing'
  BY DEF Resizing
<1>6. Looking'
  <2>1. /\ reader \in [pc : {"idle", "scan", "found", "missing", "holds"},
                       key : FhfKeys \cup {Empty},
                       inOld : BOOLEAN, col : 0 .. FhfCols - 1, stays : BOOLEAN]
        /\ reader.pc # "idle" => reader.key \in FhfKeys
        /\ reader.pc = "missing" => ~reader.stays
    BY DEF FhfInv, Looking
  <2>2. /\ reader' \in [pc : {"idle", "scan", "found", "missing", "holds"},
                        key : FhfKeys \cup {Empty},
                        inOld : BOOLEAN, col : 0 .. FhfCols - 1, stays : BOOLEAN]
        /\ reader'.pc = reader.pc /\ reader'.key = reader.key
        /\ reader'.col = reader.col /\ reader'.stays = reader.stays
        /\ reader'.inOld = (reader.pc # "idle")
    BY <2>1
  <2>3. ASSUME reader.pc = "scan", reader.stays
        PROVE  \E c \in reader.col + 1 .. FhfCols : ReadRow(reader.key)'[c] = reader.key
    <3>1. PICK c \in reader.col + 1 .. FhfCols : RowOf(filter, reader.key)[c] = reader.key
      BY <1>1, <2>3 DEF FhfInv, Looking, ReadRow
    <3>2. oldTable' = filter /\ reader'.inOld
      BY <2>2, <2>3 DEF NoReader
    <3>3. ReadRow(reader.key)' = RowOf(filter, reader.key)
      BY <3>2 DEF ReadRow, RowOf
    <3> QED
      BY <3>1, <3>3
  <2> QED
    BY <2>1, <2>2, <2>3 DEF Looking
<1> QED
  BY <1>4, <1>5, <1>6 DEF FhfInv

-----------------------------------------------------------------------------
(* The lookup.                                                             *)
LEMMA StepGet ==
  ASSUME FhfInv, UNCHANGED <<filter, oldTable, resize, stored>>, Looking',
         reader'.inOld = reader.inOld
  PROVE  FhfInv'
<1>1. Moved' = Moved
  BY DEF Moved, Passed
<1> QED
  BY <1>1 DEF FhfInv, Resizing

LEMMA StepGetBegin ==
  ASSUME FhfInv, NEW k \in FhfKeys, GetBegin(k)
  PROVE  FhfInv'
<1>1. /\ reader'.pc = "scan" /\ reader'.key = k /\ reader'.inOld = FALSE /\ reader'.col = 0
      /\ reader'.stays = (k \in stored) /\ reader.inOld = FALSE
      /\ reader' = [pc |-> "scan", key |-> k, inOld |-> FALSE, col |-> 0, stays |-> k \in stored]
      /\ UNCHANGED <<filter, oldTable, resize, stored>>
  BY DEF GetBegin, NoReader
<1>2. k \in stored => \E c \in 0 + 1 .. FhfCols : RowOf(filter, k)[c] = k
  BY InTableIs DEF FhfInv, InTable
<1>3. ReadRow(k)' = RowOf(filter, k)
  BY <1>1 DEF ReadRow, RowOf
<1>4. reader' \in [pc : {"idle", "scan", "found", "missing", "holds"}, key : FhfKeys \cup {Empty},
                   inOld : BOOLEAN, col : 0 .. FhfCols - 1, stays : BOOLEAN]
  <2>1. 0 \in 0 .. FhfCols - 1 /\ (k \in stored) \in BOOLEAN
    BY FhfAssumption
  <2> QED
    BY <1>1, <2>1
<1>5. Looking'
  BY <1>1, <1>2, <1>3, <1>4 DEF Looking
<1> QED
  BY <1>1, <1>5, StepGet

LEMMA StepGetColumn ==
  ASSUME FhfInv, GetColumn
  PROVE  FhfInv'
<1> USE DEF GetColumn
<1>1. /\ Looking /\ reader.key \in FhfKeys
      /\ reader \in [pc : {"idle", "scan", "found", "missing", "holds"}, key : FhfKeys \cup {Empty},
                     inOld : BOOLEAN, col : 0 .. FhfCols - 1, stays : BOOLEAN]
      /\ reader.col \in 0 .. FhfCols - 1 /\ FhfCols \in Nat
  BY FhfAssumption DEF FhfInv, Looking
<1>2. reader.stays => \E c \in reader.col + 1 .. FhfCols : ReadRow(reader.key)[c] = reader.key
  BY <1>1 DEF Looking
<1>3. reader'.inOld = reader.inOld /\ reader'.key = reader.key /\ reader'.stays = reader.stays
  BY <1>1
<1>4. ReadRow(reader.key)' = ReadRow(reader.key)
  BY <1>3 DEF ReadRow, RowOf
<1>5. CASE ReadRow(reader.key)[reader.col + 1] = reader.key
  BY <1>1, <1>5, <1>3, StepGet DEF Looking
<1>6. CASE ReadRow(reader.key)[reader.col + 1] # reader.key /\ reader.col + 1 < FhfCols
  <2>1. reader' = [reader EXCEPT !.col = reader.col + 1] /\ reader'.col = reader.col + 1
    BY <1>1, <1>6
  <2>2. reader' \in [pc : {"idle", "scan", "found", "missing", "holds"}, key : FhfKeys \cup {Empty},
                     inOld : BOOLEAN, col : 0 .. FhfCols - 1, stays : BOOLEAN]
    BY <1>1, <1>6, <2>1
  <2>3. reader.stays => \E c \in (reader.col + 1) + 1 .. FhfCols : ReadRow(reader.key)[c] = reader.key
    BY <1>1, <1>2, <1>6
  <2>4. Looking'
    BY <1>1, <1>3, <1>4, <2>1, <2>2, <2>3 DEF Looking
  <2> QED
    BY <1>3, <2>4, StepGet
<1>7. CASE ReadRow(reader.key)[reader.col + 1] # reader.key /\ ~(reader.col + 1 < FhfCols)
  <2>1. ~reader.stays
    BY <1>1, <1>2, <1>7
  <2>2. reader' = [reader EXCEPT !.pc = "missing"]
    BY <1>7
  <2>3. Looking'
    BY <1>1, <2>1, <2>2 DEF Looking
  <2> QED
    BY <1>3, <2>3, StepGet
<1> QED
  BY <1>5, <1>6, <1>7

LEMMA StepGetLocked ==
  ASSUME FhfInv, GetLocked
  PROVE  FhfInv'
<1> USE DEF GetLocked
<1>1. /\ Looking /\ reader.key \in FhfKeys
      /\ reader \in [pc : {"idle", "scan", "found", "missing", "holds"}, key : FhfKeys \cup {Empty},
                     inOld : BOOLEAN, col : 0 .. FhfCols - 1, stays : BOOLEAN]
  BY DEF FhfInv, Looking
<1>2. reader.stays => \E c \in 1 .. FhfCols : ReadRow(reader.key)[c] = reader.key
  BY <1>1 DEF Looking
<1>3. /\ reader'.inOld = reader.inOld /\ reader'.key = reader.key /\ reader'.stays = reader.stays
      /\ reader'.pc \in {"holds", "missing"} /\ (reader'.pc = "missing" => ~reader.stays)
      /\ reader' = [reader EXCEPT !.pc = reader'.pc]
  BY <1>1, <1>2
<1>4. reader' \in [pc : {"idle", "scan", "found", "missing", "holds"}, key : FhfKeys \cup {Empty},
                   inOld : BOOLEAN, col : 0 .. FhfCols - 1, stays : BOOLEAN]
  BY <1>1, <1>3
<1>5. Looking'
  BY <1>1, <1>3, <1>4 DEF Looking
<1> QED
  BY <1>3, <1>5, StepGet

LEMMA StepGetEnd ==
  ASSUME FhfInv, GetEnd
  PROVE  FhfInv'
<1>1. Looking'
  BY FhfAssumption DEF Looking, GetEnd, NoReader
<1>2. Moved' = Moved
  BY DEF Moved, Passed, GetEnd
<1> QED
  BY <1>1, <1>2 DEF FhfInv, Resizing, GetEnd, NoReader

LEMMA FhfStepInv == FhfInv /\ [FhfNext]_fhfVars => FhfInv'
<1> SUFFICES ASSUME FhfInv, [FhfNext]_fhfVars PROVE FhfInv'
  OBVIOUS
<1>1. CASE UNCHANGED fhfVars
  <2>1. Looking'
    BY <1>1, LookingSame DEF fhfVars, FhfInv
  <2> QED
    BY <1>1, <2>1, StepGet DEF fhfVars
<1>2. CASE FhfNext
  BY <1>2, StepInsert, StepRemove, StepClear, StepResizeBegin, StepResizeItem, StepResizeRow,
     StepResizeEnd, StepGetBegin, StepGetColumn, StepGetLocked, StepGetEnd DEF FhfNext
<1> QED
  BY <1>1, <1>2

LEMMA FhfInvKeeps == FhfInv => FilterKeeps
<1> SUFFICES ASSUME FhfInv PROVE FilterKeeps
  OBVIOUS
<1>1. /\ FilterTable(filter) /\ Placed(filter) /\ KeysOf(filter) = stored /\ stored \subseteq FhfKeys
      /\ reader.pc = "missing" => ~reader.stays
  BY DEF FhfInv, Looking
<1>2. ASSUME NEW k \in stored
      PROVE  Cardinality({rc \in (DOMAIN filter.row) \X (1 .. FhfCols) :
                            filter.row[rc[1]][rc[2]] = k}) = 1 /\ InTable(filter, k)
  <2>1. InTable(filter, k) /\ filter.hash[k] \in DOMAIN filter.row /\ k # Empty
    BY <1>1, InTableIs, FhfAssumption
  <2>2. PICK c \in 1 .. FhfCols : filter.row[filter.hash[k]][c] = k
    BY <2>1 DEF InTable, RowOf
  <2>3. \A r \in DOMAIN filter.row, d \in 1 .. FhfCols :
          filter.row[r][d] = k => r = filter.hash[k] /\ d = c
    BY <1>1, <2>1, <2>2 DEF Placed
  <2>4. {rc \in (DOMAIN filter.row) \X (1 .. FhfCols) :
           filter.row[rc[1]][rc[2]] = k} = {<<filter.hash[k], c>>}
    BY <2>1, <2>2, <2>3
  <2> QED
    BY <2>1, <2>4, FS_Singleton
<1> QED
  BY <1>1, <1>2 DEF FilterKeeps

(* FilterKeeps (FastHashFilter): for any keys, hash functions and widths,  *)
(* insertions, removals and resizings, also those that start again because *)
(* a row overflows, leave each key in one column of its row, and a lookup  *)
(* without locks, in the old table or the new, finds a key that stays.     *)
THEOREM FilterLosesNothing == FhfSpec => []FilterKeeps
  BY FhfInitInv, FhfStepInv, FhfInvKeeps, PTL DEF FhfSpec

-----------------------------------------------------------------------------
(* The fast hash table.                                                    *)

(* The columns' ages in each replacement vector, and what the tables make  *)
(* of them: a column that is used becomes the newest, one that is emptied  *)
(* gives its place up, and the others keep their order.                    *)
AgesAre(v, a, b, c, d) == Age(v, 1) = a /\ Age(v, 2) = b /\ Age(v, 3) = c /\ Age(v, 4) = d

LEMMA AgeTable ==
  /\ AgesAre(27, 3, 2, 1, 0) /\ AgesAre(30, 2, 3, 1, 0) /\ AgesAre(39, 3, 1, 2, 0)
  /\ AgesAre(45, 1, 3, 2, 0) /\ AgesAre(54, 2, 1, 3, 0) /\ AgesAre(57, 1, 2, 3, 0)
  /\ AgesAre(75, 3, 2, 0, 1) /\ AgesAre(78, 2, 3, 0, 1) /\ AgesAre(99, 3, 0, 2, 1)
  /\ AgesAre(108, 0, 3, 2, 1) /\ AgesAre(114, 2, 0, 3, 1) /\ AgesAre(120, 0, 2, 3, 1)
  /\ AgesAre(135, 3, 1, 0, 2) /\ AgesAre(141, 1, 3, 0, 2) /\ AgesAre(147, 3, 0, 1, 2)
  /\ AgesAre(156, 0, 3, 1, 2) /\ AgesAre(177, 1, 0, 3, 2) /\ AgesAre(180, 0, 1, 3, 2)
  /\ AgesAre(198, 2, 1, 0, 3) /\ AgesAre(201, 1, 2, 0, 3) /\ AgesAre(210, 2, 0, 1, 3)
  /\ AgesAre(216, 0, 2, 1, 3) /\ AgesAre(225, 1, 0, 2, 3) /\ AgesAre(228, 0, 1, 2, 3)
  BY DEF AgesAre, Age

LEMMA AgesDiffer ==
  ASSUME NEW v \in Vectors, NEW c \in Cols
  PROVE  Age(v, c) \in 0 .. 3 /\ \A d \in Cols : c # d => Age(v, c) # Age(v, d)
  BY DEF Age, Vectors, Cols

LEMMA AgesFollow ==
  ASSUME NEW v \in Vectors, NEW c \in Cols
  PROVE  LET u == ReplacementVector[v][c]
             w == ReplacementVectorRemove[v][c]
         IN /\ u \in Vectors /\ w \in Vectors
            /\ \A d \in Cols \ {c} : Age(u, c) < Age(u, d)
            /\ \A d, e \in Cols \ {c} : /\ Age(u, d) < Age(u, e) <=> Age(v, d) < Age(v, e)
                                        /\ Age(w, d) < Age(w, e) <=> Age(v, d) < Age(v, e)
  <1>1. CASE v = 27
    BY <1>1, AgeTable DEF AgesAre, Cols, Vectors, ReplacementVector, ReplacementVectorRemove
  <1>2. CASE v = 30
    BY <1>2, AgeTable DEF AgesAre, Cols, Vectors, ReplacementVector, ReplacementVectorRemove
  <1>3. CASE v = 39
    BY <1>3, AgeTable DEF AgesAre, Cols, Vectors, ReplacementVector, ReplacementVectorRemove
  <1>4. CASE v = 45
    BY <1>4, AgeTable DEF AgesAre, Cols, Vectors, ReplacementVector, ReplacementVectorRemove
  <1>5. CASE v = 54
    BY <1>5, AgeTable DEF AgesAre, Cols, Vectors, ReplacementVector, ReplacementVectorRemove
  <1>6. CASE v = 57
    BY <1>6, AgeTable DEF AgesAre, Cols, Vectors, ReplacementVector, ReplacementVectorRemove
  <1>7. CASE v = 75
    BY <1>7, AgeTable DEF AgesAre, Cols, Vectors, ReplacementVector, ReplacementVectorRemove
  <1>8. CASE v = 78
    BY <1>8, AgeTable DEF AgesAre, Cols, Vectors, ReplacementVector, ReplacementVectorRemove
  <1>9. CASE v = 99
    BY <1>9, AgeTable DEF AgesAre, Cols, Vectors, ReplacementVector, ReplacementVectorRemove
  <1>10. CASE v = 108
    BY <1>10, AgeTable DEF AgesAre, Cols, Vectors, ReplacementVector, ReplacementVectorRemove
  <1>11. CASE v = 114
    BY <1>11, AgeTable DEF AgesAre, Cols, Vectors, ReplacementVector, ReplacementVectorRemove
  <1>12. CASE v = 120
    BY <1>12, AgeTable DEF AgesAre, Cols, Vectors, ReplacementVector, ReplacementVectorRemove
  <1>13. CASE v = 135
    BY <1>13, AgeTable DEF AgesAre, Cols, Vectors, ReplacementVector, ReplacementVectorRemove
  <1>14. CASE v = 141
    BY <1>14, AgeTable DEF AgesAre, Cols, Vectors, ReplacementVector, ReplacementVectorRemove
  <1>15. CASE v = 147
    BY <1>15, AgeTable DEF AgesAre, Cols, Vectors, ReplacementVector, ReplacementVectorRemove
  <1>16. CASE v = 156
    BY <1>16, AgeTable DEF AgesAre, Cols, Vectors, ReplacementVector, ReplacementVectorRemove
  <1>17. CASE v = 177
    BY <1>17, AgeTable DEF AgesAre, Cols, Vectors, ReplacementVector, ReplacementVectorRemove
  <1>18. CASE v = 180
    BY <1>18, AgeTable DEF AgesAre, Cols, Vectors, ReplacementVector, ReplacementVectorRemove
  <1>19. CASE v = 198
    BY <1>19, AgeTable DEF AgesAre, Cols, Vectors, ReplacementVector, ReplacementVectorRemove
  <1>20. CASE v = 201
    BY <1>20, AgeTable DEF AgesAre, Cols, Vectors, ReplacementVector, ReplacementVectorRemove
  <1>21. CASE v = 210
    BY <1>21, AgeTable DEF AgesAre, Cols, Vectors, ReplacementVector, ReplacementVectorRemove
  <1>22. CASE v = 216
    BY <1>22, AgeTable DEF AgesAre, Cols, Vectors, ReplacementVector, ReplacementVectorRemove
  <1>23. CASE v = 225
    BY <1>23, AgeTable DEF AgesAre, Cols, Vectors, ReplacementVector, ReplacementVectorRemove
  <1>24. CASE v = 228
    BY <1>24, AgeTable DEF AgesAre, Cols, Vectors, ReplacementVector, ReplacementVectorRemove
  <1> QED
    BY <1>1, <1>2, <1>3, <1>4, <1>5, <1>6, <1>7, <1>8, <1>9, <1>10, <1>11, <1>12, <1>13, <1>14, <1>15,
       <1>16, <1>17, <1>18, <1>19, <1>20, <1>21, <1>22, <1>23, <1>24 DEF Vectors

LEMMA HeldIn == \A f, k : k \in Held(f) <=> k # NoKey /\ \E c \in DOMAIN f : f[c] = k
  BY DEF Held

LEMMA NotAKey == NoKey \notin FhtKeys
  BY FhtAssumption

(* What a row holds after its column c has been given to k, or emptied.    *)
LEMMA HeldFilled ==
  ASSUME NEW S, NEW f, f \in [S -> FhtKeys \cup {NoKey}], NEW c \in S, NEW k \in FhtKeys,
         \A d \in S : d # c /\ f[d] # NoKey => f[d] # f[c],
         NEW now, now \in [S -> FhtKeys \cup {NoKey}], \A d \in S : now[d] = IF d = c THEN k ELSE f[d]
  PROVE  Held(now) = (Held(f) \ {f[c]}) \cup {k}
  <1>2. ASSUME NEW l PROVE l \in Held(now) <=> l \in (Held(f) \ {f[c]}) \cup {k}
    <2>1. l \in Held(now) <=> l # NoKey /\ \E d \in S : now[d] = l
      BY HeldIn
    <2>2. l \in Held(f) <=> l # NoKey /\ \E d \in S : f[d] = l
      BY HeldIn
    <2> QED
      BY <2>1, <2>2, NotAKey
  <1> QED
    BY <1>2

LEMMA HeldEmptied ==
  ASSUME NEW S, NEW f, f \in [S -> FhtKeys \cup {NoKey}], NEW c \in S,
         \A d \in S : d # c /\ f[d] # NoKey => f[d] # f[c],
         NEW now, now \in [S -> FhtKeys \cup {NoKey}], \A d \in S : now[d] = IF d = c THEN NoKey ELSE f[d]
  PROVE  Held(now) = Held(f) \ {f[c]}
  <1>2. ASSUME NEW l PROVE l \in Held(now) <=> l \in Held(f) \ {f[c]}
    <2>1. l \in Held(now) <=> l # NoKey /\ \E d \in S : now[d] = l
      BY HeldIn
    <2>2. l \in Held(f) <=> l # NoKey /\ \E d \in S : f[d] = l
      BY HeldIn
    <2> QED
      BY <2>1, <2>2
  <1> QED
    BY <1>2

(* A row of the columns col and the vector v, with the pairs of its keys,  *)
(* becomes one of now, w and ps: column c is used for k, or filled with it.*)
BecomesNewest(col, v, pairs, c, k, now, w, ps) ==
  /\ col \in [Cols -> FhtKeys \cup {NoKey}] /\ now \in [Cols -> FhtKeys \cup {NoKey}]
  /\ v \in Vectors /\ c \in Cols /\ k \in FhtKeys /\ Ordered(col, v, pairs)
  /\ \A d \in Cols : (col[d] = k => d = c) /\ now[d] = IF d = c THEN k ELSE col[d]
  /\ w = ReplacementVector[v][c]
  /\ ps = Forget(pairs, col[c]) \cup {<<k, l>> : l \in Held(col) \ {col[c]}}

LEMMA NewestInOrder ==
  ASSUME NEW col, NEW v, NEW pairs, NEW c, NEW k, NEW now, NEW w, NEW ps,
         BecomesNewest(col, v, pairs, c, k, now, w, ps)
  PROVE  Ordered(now, w, ps)
  <1> USE DEF BecomesNewest
  <1> DEFINE rest == Held(col) \ {col[c]}
  <1>1. /\ \A d \in Cols \ {c} : Age(w, c) < Age(w, d)
        /\ \A d, e \in Cols \ {c} : Age(w, d) < Age(w, e) <=> Age(v, d) < Age(v, e)
        /\ w \in Vectors
    BY AgesFollow
  <1>2. now \in [Cols -> FhtKeys \cup {NoKey}] /\ \A d \in Cols : now[d] = IF d = c THEN k ELSE col[d]
    OBVIOUS
  <1>3. Held(now) = rest \cup {k}
    <2>1. \A d \in Cols : d # c /\ col[d] # NoKey => col[d] # col[c]
      BY DEF Ordered
    <2> QED
      BY <1>2, <2>1, HeldFilled
  <1>4. \A d \in Cols \ {c} : col[d] # NoKey => col[d] \in rest /\ col[d] # k /\ col[d] # col[c]
    BY HeldIn DEF Ordered
  <1>5. \A x, y : <<x, y>> \in ps <=> \/ (<<x, y>> \in pairs /\ x # col[c] /\ y # col[c])
                                      \/ (x = k /\ y \in rest)
    <2> SUFFICES ASSUME NEW x, NEW y
                 PROVE  <<x, y>> \in ps <=> \/ (<<x, y>> \in pairs /\ x # col[c] /\ y # col[c])
                                            \/ (x = k /\ y \in rest)
      OBVIOUS
    <2> DEFINE before == Forget(pairs, col[c])
               after  == {<<k, l>> : l \in rest}
    <2>3. ps = before \cup after
      OBVIOUS
    <2>1. <<x, y>> \in before <=> <<x, y>> \in pairs /\ x # col[c] /\ y # col[c]
      BY DEF Forget
    <2> HIDE DEF rest
    <2>2. <<x, y>> \in after <=> x = k /\ y \in rest
      OBVIOUS
    <2> HIDE DEF before, after
    <2> QED
      BY <2>1, <2>2, <2>3
  <1>6. k \notin rest
    <2>1. ASSUME k \in Held(col) PROVE col[c] = k
      BY <2>1, HeldIn
    <2> QED
      BY <2>1
  <1>7. \A d \in Cols : Age(w, d) \in Int
    BY <1>1, AgesDiffer
  <1>8. ASSUME NEW d \in Cols, NEW e \in Cols, now[d] # NoKey, now[e] # NoKey
        PROVE  /\ d # e => now[d] # now[e]
               /\ Age(w, d) < Age(w, e) <=> <<now[d], now[e]>> \in ps
    <2> HIDE DEF rest
    <2>0. k # NoKey
      BY NotAKey
    <2>1. CASE d = c /\ e = c
      <3>1. <<k, k>> \notin ps
        <4>1. <<k, k>> \in pairs /\ k # col[c] => FALSE
          <5>1. <<k, k>> \in pairs => k \in Held(col)
            BY DEF Ordered
          <5> QED
            BY <5>1, HeldIn
        <4> QED
          BY <1>5, <1>6, <4>1
      <3>2. ~(Age(w, d) < Age(w, e))
        BY <1>7, <2>1
      <3> QED
        BY <1>2, <2>1, <3>1, <3>2
    <2>2. CASE d = c /\ e # c
      <3>1. Age(w, d) < Age(w, e)
        BY <1>1, <2>2
      <3>2. now[d] = k /\ now[e] \in rest /\ now[e] # k
        BY <1>2, <1>4, <1>8, <2>2
      <3>3. <<now[d], now[e]>> \in ps
        BY <1>5, <3>2
      <3> QED
        BY <2>2, <3>1, <3>2, <3>3
    <2>3. CASE d # c /\ e = c
      <3>1. ~(Age(w, d) < Age(w, e))
        BY <1>1, <1>7, <2>3
      <3>2. now[e] = k /\ now[d] \in rest /\ now[d] # k
        BY <1>2, <1>4, <1>8, <2>3
      <3>3. <<now[d], now[e]>> \in pairs /\ k # col[c] => FALSE
        <4>1. <<now[d], k>> \in pairs => k \in Held(col)
          BY DEF Ordered
        <4> QED
          BY <3>2, <4>1, HeldIn
      <3>4. <<now[d], now[e]>> \notin ps
        BY <1>5, <3>2, <3>3
      <3> QED
        BY <2>3, <3>1, <3>2, <3>4
    <2>4. CASE d # c /\ e # c
      <3>1. now[d] = col[d] /\ now[e] = col[e] /\ col[d] # col[c] /\ col[e] # col[c] /\ col[d] # k
        BY <1>2, <1>4, <1>8, <2>4
      <3>2. Age(w, d) < Age(w, e) <=> Age(v, d) < Age(v, e)
        BY <1>1, <2>4
      <3>3. /\ d # e => col[d] # col[e]
            /\ Age(v, d) < Age(v, e) <=> <<col[d], col[e]>> \in pairs
        BY <1>8, <3>1 DEF Ordered
      <3>4. <<now[d], now[e]>> \in ps <=> <<now[d], now[e]>> \in pairs
        BY <1>5, <3>1
      <3> QED
        BY <3>1, <3>2, <3>3, <3>4
    <2> QED
      BY <2>1, <2>2, <2>3, <2>4
  <1>9. ASSUME NEW p \in ps PROVE p[1] \in Held(now) /\ p[2] \in Held(now)
    <2>1. CASE p \in Forget(pairs, col[c])
      BY <1>3, <2>1 DEF Forget, Ordered
    <2>2. CASE p \in {<<k, l>> : l \in rest}
      <3>1. PICK l \in rest : p = <<k, l>>
        BY <2>2
      <3> QED
        BY <1>3, <3>1
    <2> QED
      BY <2>1, <2>2
  <1> QED
    BY <1>8, <1>9 DEF Ordered

LEMMA EmptiedInOrder ==
  ASSUME NEW col, col \in [Cols -> FhtKeys \cup {NoKey}], NEW v \in Vectors, NEW pairs,
         NEW c \in Cols, Ordered(col, v, pairs),
         NEW now, now \in [Cols -> FhtKeys \cup {NoKey}],
         \A d \in Cols : now[d] = IF d = c THEN NoKey ELSE col[d]
  PROVE  Ordered(now, ReplacementVectorRemove[v][c], Forget(pairs, col[c]))
  <1> DEFINE w == ReplacementVectorRemove[v][c]
             ps == Forget(pairs, col[c])
  <1>1. \A d, e \in Cols \ {c} : Age(w, d) < Age(w, e) <=> Age(v, d) < Age(v, e)
    BY AgesFollow
  <1>2. now \in [Cols -> FhtKeys \cup {NoKey}]
        /\ \A d \in Cols : now[d] = IF d = c THEN NoKey ELSE col[d]
    OBVIOUS
  <1>3. Held(now) = Held(col) \ {col[c]}
    <2>1. \A d \in Cols : d # c /\ col[d] # NoKey => col[d] # col[c]
      BY DEF Ordered
    <2> QED
      BY <1>2, <2>1, HeldEmptied
  <1> HIDE DEF w
  <1>4. ASSUME NEW d \in Cols, NEW e \in Cols, now[d] # NoKey, now[e] # NoKey
        PROVE  /\ d # e => now[d] # now[e]
               /\ Age(w, d) < Age(w, e) <=> <<now[d], now[e]>> \in ps
    <2>1. d # c /\ e # c /\ now[d] = col[d] /\ now[e] = col[e]
      BY <1>2, <1>4
    <2>2. col[d] # col[c] /\ col[e] # col[c]
      BY <1>4, <2>1 DEF Ordered
    <2>3. /\ d # e => col[d] # col[e]
          /\ Age(v, d) < Age(v, e) <=> <<col[d], col[e]>> \in pairs
      BY <1>4, <2>1 DEF Ordered
    <2>4. <<col[d], col[e]>> \in ps <=> <<col[d], col[e]>> \in pairs
      BY <2>2 DEF Forget
    <2> QED
      BY <1>1, <2>1, <2>3, <2>4
  <1>5. ASSUME NEW p \in ps PROVE p[1] \in Held(now) /\ p[2] \in Held(now)
    BY <1>3 DEF Forget, Ordered
  <1> HIDE DEF ps
  <1>6. Ordered(now, w, ps)
    BY <1>4, <1>5 DEF Ordered
  <1> QED
    BY <1>6 DEF w, ps

-----------------------------------------------------------------------------
(* What the table holds, and where.                                        *)
LEMMA ContentIn ==
  \A k : k \in Content <=> k \in Held(stash) \/ \E q \in TableRow : k \in Held(table[q].col)
  <1> DEFINE rows == {Held(table[r].col) : r \in TableRow}
  <1>1. \A k : k \in UNION rows <=> \E r \in TableRow : k \in Held(table[r].col)
    OBVIOUS
  <1>2. Content = (UNION rows) \cup Held(stash)
    BY DEF Content
  <1> HIDE DEF rows
  <1> QED
    BY <1>1, <1>2

LEMMA ContentNext ==
  \A k : k \in Content' <=> k \in Held(stash') \/ \E q \in TableRow : k \in Held(table'[q].col)
  <1> DEFINE rows == {Held(table'[r].col) : r \in TableRow}
  <1>1. \A k : k \in UNION rows <=> \E r \in TableRow : k \in Held(table'[r].col)
    OBVIOUS
  <1>2. Content' = (UNION rows) \cup Held(stash')
    BY DEF Content
  <1> HIDE DEF rows
  <1> QED
    BY <1>1, <1>2

FhtStore == FhtStoreType /\ Sound /\ Content = owed

LEMMA HeldKeys ==
  ASSUME FhtStoreType
  PROVE  /\ Held(stash) \subseteq FhtKeys /\ \A r \in TableRow : Held(table[r].col) \subseteq FhtKeys
         /\ Content \subseteq FhtKeys
  <1>1. Held(stash) \subseteq FhtKeys
    BY HeldIn DEF FhtStoreType
  <1>2. ASSUME NEW r \in TableRow PROVE Held(table[r].col) \subseteq FhtKeys
    <2>1. table[r].col \in [Cols -> FhtKeys \cup {NoKey}]
      BY <1>2 DEF FhtStoreType
    <2> QED
      BY <2>1, HeldIn
  <1> QED
    BY <1>1, <1>2, ContentIn

LEMMA WhereHeld ==
  ASSUME FhtStore, NEW k
  PROVE  k \in Content <=> k \in FhtKeys /\ (k \in Held(stash) \/ k \in Held(table[HashRow[k]].col))
  <1>1. k \in FhtKeys => HashRow[k] \in TableRow
    BY FhtAssumption DEF TableRow
  <1> QED
    BY <1>1, ContentIn, HeldKeys DEF FhtStore, Sound, RowInOrder

(* What the calls of the other threads rely on in a step of t: what they   *)
(* have locked stays as it is, what is in the stash stays there, and a key *)
(* comes only to a row that none of them has locked.                       *)
Spared(t) ==
  /\ \A r \in TableRow : lock[r] \notin {Free, t} => table'[r] = table[r]
  /\ lock[Stash] \notin {Free, t} => stash' = stash
  /\ Held(stash) \cap Content' \subseteq Held(stash')
  /\ \A k \in Content' \ Content : lock[HashRow[k]] \in {Free, t}

(* A step that changes row r, and the stash, leaves all in order when it   *)
(* leaves these two in order and accounts for their keys.                  *)
LEMMA RowStep ==
  ASSUME FhtStore, FhtStoreType', NEW t, NEW r \in TableRow, lock[r] \in {Free, t},
         \A q \in TableRow : q # r => table'[q] = table[q] /\ used'[q] = used[q],
         Ordered(table'[r].col, table'[r].vector, used'[r]),
         StashInOrder',
         stash' = stash \/ lock[Stash] \in {Free, t},
         \A k \in Held(table'[r].col) : HashRow[k] = r /\ k \notin Held(stash'),
         \A k \in Held(stash') : k \in Held(stash) \/ HashRow[k] = r,
         \A k : k \in owed' <=> \/ k \in Held(table'[r].col) \/ k \in Held(stash')
                                \/ (k \in owed /\ k \notin Held(table[r].col) /\ k \notin Held(stash)),
         Held(stash) \cap owed' \subseteq Held(stash')
  PROVE  FhtStore' /\ Spared(t)
  <1>1. ASSUME NEW q \in TableRow PROVE RowInOrder(q)'
    <2>1. CASE q = r
      BY <2>1 DEF RowInOrder
    <2>2. CASE q # r
      <3>1. table'[q] = table[q] /\ used'[q] = used[q] /\ RowInOrder(q)
        BY <2>2 DEF FhtStore, Sound
      <3>2. \A k \in Held(table[q].col) : HashRow[k] = q /\ k \notin Held(stash)
        BY <3>1 DEF RowInOrder
      <3>3. \A k \in Held(table[q].col) : k \notin Held(stash')
        BY <2>2, <3>2
      <3> QED
        BY <3>1, <3>2, <3>3 DEF RowInOrder
    <2> QED
      BY <2>1, <2>2
  <1>2. Sound'
    BY <1>1 DEF Sound
  <1>3. \A k : k \in Content' <=> k \in Held(stash') \/ \E q \in TableRow : k \in Held(table'[q].col)
    BY ContentNext
  <1>4. ASSUME NEW k PROVE k \in Content' <=> k \in owed'
    <2>1. k \in owed <=> k \in Held(stash) \/ \E q \in TableRow : k \in Held(table[q].col)
      BY ContentIn DEF FhtStore
    <2>2. \A q \in TableRow : q # r /\ k \in Held(table[q].col) =>
            k \notin Held(table[r].col) /\ k \notin Held(stash)
      BY DEF FhtStore, Sound, RowInOrder
    <2>3. CASE k \in Held(table'[r].col) \/ k \in Held(stash')
      BY <1>3, <2>3
    <2>4. CASE k \notin Held(table'[r].col) /\ k \notin Held(stash')
      <3>1. k \in Content' <=> \E q \in TableRow : q # r /\ k \in Held(table[q].col)
        BY <1>3, <2>4
      <3>2. k \in owed' <=> k \in owed /\ k \notin Held(table[r].col) /\ k \notin Held(stash)
        BY <2>4
      <3> QED
        BY <2>1, <2>2, <3>1, <3>2
    <2> QED
      BY <2>3, <2>4
  <1>5. Content' = owed'
    BY <1>4
  <1>6. ASSUME NEW k \in Content' \ Content PROVE lock[HashRow[k]] \in {Free, t}
    <2>1. k \in owed' /\ k \notin owed
      BY <1>5, <1>6 DEF FhtStore
    <2>2. k \in Held(table'[r].col) \/ k \in Held(stash')
      BY <2>1
    <2>3. k \notin Held(stash)
      BY <1>6, ContentIn
    <2> QED
      BY <2>2, <2>3
  <1>7. \A q \in TableRow : lock[q] \notin {Free, t} => table'[q] = table[q]
    OBVIOUS
  <1> QED
    BY <1>2, <1>5, <1>6, <1>7 DEF FhtStore, Spared

(* So does one that changes only the stash, by taking keys out.            *)
LEMMA StashStep ==
  ASSUME FhtStore, NEW t, lock[Stash] \in {Free, t}, NEW gone,
         stash' = [i \in Slots |-> IF stash[i] \in gone THEN NoKey ELSE stash[i]],
         owed' = owed \ (Held(stash) \cap gone), UNCHANGED <<table, used, stashIndex>>
  PROVE  FhtStore' /\ Spared(t)
  <1>1. stash \in [Slots -> FhtKeys \cup {NoKey}] /\ stash' \in [Slots -> FhtKeys \cup {NoKey}]
    BY DEF FhtStore, FhtStoreType
  <1>2. FhtStoreType'
    BY <1>1 DEF FhtStore, FhtStoreType
  <1>3. \A k : k \in Held(stash) <=> k # NoKey /\ \E i \in Slots : stash[i] = k
    BY <1>1, HeldIn
  <1>4. \A k : k \in Held(stash') <=> k # NoKey /\ \E i \in Slots : stash'[i] = k
    BY <1>1, HeldIn
  <1>5. \A i \in Slots : stash'[i] = IF stash[i] \in gone THEN NoKey ELSE stash[i]
    OBVIOUS
  <1>6. \A k : k \in Held(stash') <=> k \in Held(stash) /\ k \notin gone
    BY <1>3, <1>4, <1>5
  <1>7. StashInOrder'
    BY <1>5, <1>6 DEF FhtStore, Sound, StashInOrder
  <1>8. \A r \in TableRow : RowInOrder(r)'
    BY <1>6 DEF FhtStore, Sound, RowInOrder
  <1>9. \A k : k \in Content' <=> k \in Held(stash') \/ \E q \in TableRow : k \in Held(table'[q].col)
    BY ContentNext
  <1>10. ASSUME NEW k PROVE k \in Content' <=> k \in owed'
    <2>1. k \in Content' <=> k \in Held(stash') \/ \E q \in TableRow : k \in Held(table[q].col)
      BY <1>9
    <2>2. k \in owed <=> k \in Held(stash) \/ \E q \in TableRow : k \in Held(table[q].col)
      BY ContentIn DEF FhtStore
    <2>3. \A q \in TableRow : k \in Held(table[q].col) => k \notin Held(stash)
      BY DEF FhtStore, Sound, RowInOrder
    <2> QED
      BY <1>6, <2>1, <2>2, <2>3
  <1>11. Content' = owed' /\ Content' \subseteq Content
    BY <1>10 DEF FhtStore
  <1>12. Held(stash) \cap Content' \subseteq Held(stash')
    BY <1>6, <1>11
  <1> QED
    BY <1>2, <1>7, <1>8, <1>11, <1>12 DEF FhtStore, Sound, Spared

-----------------------------------------------------------------------------
(* What each change of a row, or of the stash, makes of the table.         *)
LEMMA RowFacts ==
  ASSUME FhtStore, NEW r \in TableRow
  PROVE  /\ table[r].col \in [Cols -> FhtKeys \cup {NoKey}] /\ table[r].vector \in Vectors
         /\ used[r] \in SUBSET (FhtKeys \X FhtKeys)
         /\ Ordered(table[r].col, table[r].vector, used[r])
         /\ \A k : k \in Held(table[r].col) <=> k # NoKey /\ \E c \in Cols : table[r].col[c] = k
         /\ \A k \in Held(table[r].col) : k \in FhtKeys /\ HashRow[k] = r /\ k \notin Held(stash)
         /\ \A k \in Held(table[r].col) : k \in owed
         /\ \A k \in Held(stash) : k \in owed
  <1>1. table[r].col \in [Cols -> FhtKeys \cup {NoKey}] /\ table[r].vector \in Vectors
        /\ used[r] \in SUBSET (FhtKeys \X FhtKeys)
    BY DEF FhtStore, FhtStoreType
  <1>2. \A k : k \in Held(table[r].col) <=> k # NoKey /\ \E c \in Cols : table[r].col[c] = k
    BY <1>1, HeldIn
  <1>3. \A k \in Held(table[r].col) : k \in FhtKeys
    BY <1>1, <1>2
  <1> QED
    BY <1>1, <1>2, <1>3, ContentIn DEF FhtStore, Sound, RowInOrder

LEMMA RowOfKey == \A k \in FhtKeys : HashRow[k] \in TableRow
  BY FhtAssumption DEF TableRow

LEMMA UseStep ==
  ASSUME FhtStore, NEW t, NEW k \in FhtKeys, InRow(k), lock[HashRow[k]] \in {Free, t},
         Use(k), UNCHANGED <<stash, stashIndex, owed>>
  PROVE  FhtStore' /\ Spared(t) /\ Content' = Content
  <1> DEFINE r == HashRow[k]
             c == Column(r, k)
             v == ReplacementVector[table[r].vector][c]
             ps == Forget(used[r], k) \cup {<<k, l>> : l \in Held(table[r].col) \ {k}}
  <1>1. r \in TableRow
    BY RowOfKey
  <1>2. c \in Cols /\ table[r].col[c] = k
    BY <1>1, RowFacts DEF InRow, Column
  <1>3. table' = [table EXCEPT ![r].vector = v] /\ used' = [used EXCEPT ![r] = ps]
    BY DEF Use, Touched, UsedLast
  <1>4. v \in Vectors
    BY <1>1, <1>2, RowFacts, AgesFollow
  <1>5. Ordered(table[r].col, v, ps)
    <2> DEFINE cols == table[r].col
               vector == table[r].vector
               pairs == used[r]
    <2>1. cols \in [Cols -> FhtKeys \cup {NoKey}] /\ vector \in Vectors /\ Ordered(cols, vector, pairs)
      BY <1>1, RowFacts
    <2>2. v = ReplacementVector[vector][c] /\ c \in Cols /\ cols[c] = k
          /\ ps = Forget(pairs, cols[c]) \cup {<<k, l>> : l \in Held(cols) \ {cols[c]}}
      BY <1>2
    <2> HIDE DEF cols, vector, pairs, v, ps, c, r
    <2>3. \A d \in Cols : cols[d] = k => d = c
      BY <2>1, <2>2, NotAKey DEF Ordered
    <2>4. BecomesNewest(cols, vector, pairs, c, k, cols, v, ps)
      BY <2>1, <2>2, <2>3 DEF BecomesNewest
    <2>5. Ordered(cols, v, ps)
      BY <2>4, NewestInOrder
    <2> QED
      BY <2>5 DEF cols
  <1>6. ps \in SUBSET (FhtKeys \X FhtKeys)
    BY <1>1, RowFacts DEF Forget
  <1> HIDE DEF v, ps, c
  <1>7. table[r] \in [col : [Cols -> FhtKeys \cup {NoKey}], vector : Vectors]
        /\ table \in [TableRow -> [col : [Cols -> FhtKeys \cup {NoKey}], vector : Vectors]]
        /\ used \in [TableRow -> SUBSET (FhtKeys \X FhtKeys)]
    BY <1>1 DEF FhtStore, FhtStoreType
  <1> HIDE DEF r
  <1>8. /\ table' \in [TableRow -> [col : [Cols -> FhtKeys \cup {NoKey}], vector : Vectors]]
        /\ used' \in [TableRow -> SUBSET (FhtKeys \X FhtKeys)]
        /\ table'[r].col = table[r].col /\ table'[r].vector = v /\ used'[r] = ps
        /\ \A q \in TableRow : q # r => table'[q] = table[q] /\ used'[q] = used[q]
    BY <1>1, <1>3, <1>4, <1>6, <1>7
  <1>9. FhtStoreType'
    BY <1>8 DEF FhtStore, FhtStoreType
  <1>10. StashInOrder'
    BY DEF FhtStore, Sound, StashInOrder
  <1>11. lock[r] \in {Free, t}
    BY DEF r
  <1>12. \A l : l \in owed' <=> \/ l \in Held(table'[r].col) \/ l \in Held(stash')
                                \/ (l \in owed /\ l \notin Held(table[r].col) /\ l \notin Held(stash))
    BY <1>1, <1>8, RowFacts
  <1>13. FhtStore' /\ Spared(t)
    <2>1. Ordered(table'[r].col, table'[r].vector, used'[r])
      BY <1>5, <1>8
    <2>2. \A l \in Held(table'[r].col) : HashRow[l] = r /\ l \notin Held(stash')
      BY <1>1, <1>8, RowFacts
    <2>3. \A l \in Held(stash') : l \in Held(stash) \/ HashRow[l] = r
      OBVIOUS
    <2>4. \A q \in TableRow : q # r => table'[q] = table[q] /\ used'[q] = used[q]
      BY <1>8
    <2>5. Held(stash) \cap owed' \subseteq Held(stash')
      OBVIOUS
    <2> QED
      BY <1>1, <1>9, <1>10, <1>11, <1>12, <2>1, <2>2, <2>3, <2>4, <2>5, RowStep
  <1> QED
    BY <1>13 DEF FhtStore

LEMMA TakeOutStep ==
  ASSUME FhtStore, NEW t, NEW r \in TableRow, NEW c \in Cols, table[r].col[c] # NoKey,
         lock[r] \in {Free, t}, TakeOut(r, c), UNCHANGED <<stash, stashIndex>>
  PROVE  /\ FhtStore' /\ Spared(t)
         /\ \A d \in Cols : d # c => table'[r].col[d] = table[r].col[d]
         /\ \A q \in TableRow : q # r => table'[q] = table[q]
  <1> DEFINE k == table[r].col[c]
             v == ReplacementVectorRemove[table[r].vector][c]
             ps == Forget(used[r], k)
  <1>1. table' = [table EXCEPT ![r].vector = v, ![r].col[c] = NoKey] /\ used' = [used EXCEPT ![r] = ps]
    BY DEF TakeOut, Emptied
  <1>2. v \in Vectors
    BY RowFacts, AgesFollow
  <1>3. ps \in SUBSET (FhtKeys \X FhtKeys)
    BY RowFacts DEF Forget
  <1>4. Ordered(table[r].col, table[r].vector, used[r])
    BY RowFacts
  <1> HIDE DEF v, ps
  <1>5. table[r] \in [col : [Cols -> FhtKeys \cup {NoKey}], vector : Vectors]
        /\ table \in [TableRow -> [col : [Cols -> FhtKeys \cup {NoKey}], vector : Vectors]]
        /\ used \in [TableRow -> SUBSET (FhtKeys \X FhtKeys)]
    BY DEF FhtStore, FhtStoreType
  <1>6. /\ table' \in [TableRow -> [col : [Cols -> FhtKeys \cup {NoKey}], vector : Vectors]]
        /\ used' \in [TableRow -> SUBSET (FhtKeys \X FhtKeys)]
        /\ \A d \in Cols : table'[r].col[d] = IF d = c THEN NoKey ELSE table[r].col[d]
        /\ table'[r].vector = v /\ used'[r] = ps
        /\ \A q \in TableRow : q # r => table'[q] = table[q] /\ used'[q] = used[q]
    BY <1>1, <1>2, <1>3, <1>5
  <1>7. table'[r].col \in [Cols -> FhtKeys \cup {NoKey}] /\ table[r].col \in [Cols -> FhtKeys \cup {NoKey}]
    BY <1>5, <1>6
  <1>8. Ordered(table'[r].col, v, ps)
    BY <1>4, <1>6, <1>7, RowFacts, EmptiedInOrder DEF v, ps
  <1>9. Held(table'[r].col) = Held(table[r].col) \ {k}
    <2>1. \A d \in Cols : d # c /\ table[r].col[d] # NoKey => table[r].col[d] # table[r].col[c]
      BY <1>4 DEF Ordered
    <2>2. \A d \in Cols : table'[r].col[d] = IF d = c THEN NoKey ELSE table[r].col[d]
      BY <1>6
    <2> QED
      BY <1>7, <2>1, <2>2, HeldEmptied
  <1>10. owed' = owed \ {k}
    BY DEF TakeOut
  <1>11. k \in Held(table[r].col)
    BY RowFacts
  <1>12. FhtStoreType'
    BY <1>6, <1>10 DEF FhtStore, FhtStoreType
  <1>13. StashInOrder'
    BY DEF FhtStore, Sound, StashInOrder
  <1> HIDE DEF k
  <1>14. \A l : l \in owed' <=> \/ l \in Held(table'[r].col) \/ l \in Held(stash')
                                \/ (l \in owed /\ l \notin Held(table[r].col) /\ l \notin Held(stash))
    BY <1>9, <1>10, <1>11, RowFacts
  <1>15. FhtStore' /\ Spared(t)
    <2>1. Ordered(table'[r].col, table'[r].vector, used'[r])
      BY <1>6, <1>8
    <2>2. \A l \in Held(table'[r].col) : HashRow[l] = r /\ l \notin Held(stash')
      BY <1>9, RowFacts
    <2>3. \A l \in Held(stash') : l \in Held(stash) \/ HashRow[l] = r
      OBVIOUS
    <2>4. \A q \in TableRow : q # r => table'[q] = table[q] /\ used'[q] = used[q]
      BY <1>6
    <2>5. Held(stash) \cap owed' \subseteq Held(stash')
      OBVIOUS
    <2> QED
      BY <1>12, <1>13, <1>14, <2>1, <2>2, <2>3, <2>4, <2>5, RowStep
  <1> QED
    BY <1>6, <1>15

(* A row is cleared.                                                       *)
LEMMA ClearRowStep ==
  ASSUME FhtStore, NEW t, NEW r \in TableRow, lock[r] \in {Free, t},
         table' = [table EXCEPT ![r].col = [c \in Cols |-> NoKey]],
         used' = [used EXCEPT ![r] = {}], owed' = owed \ Held(table[r].col),
         UNCHANGED <<stash, stashIndex>>
  PROVE  FhtStore' /\ Spared(t)
  <1>1. table[r] \in [col : [Cols -> FhtKeys \cup {NoKey}], vector : Vectors]
        /\ table \in [TableRow -> [col : [Cols -> FhtKeys \cup {NoKey}], vector : Vectors]]
        /\ used \in [TableRow -> SUBSET (FhtKeys \X FhtKeys)]
    BY DEF FhtStore, FhtStoreType
  <1>2. /\ table' \in [TableRow -> [col : [Cols -> FhtKeys \cup {NoKey}], vector : Vectors]]
        /\ used' \in [TableRow -> SUBSET (FhtKeys \X FhtKeys)]
        /\ table'[r].col = [c \in Cols |-> NoKey] /\ used'[r] = {}
        /\ \A q \in TableRow : q # r => table'[q] = table[q] /\ used'[q] = used[q]
    BY <1>1
  <1>3. Held(table'[r].col) = {}
    BY <1>2 DEF Held
  <1>4. Ordered(table'[r].col, table'[r].vector, used'[r])
    BY <1>2 DEF Ordered
  <1>5. FhtStoreType'
    BY <1>2 DEF FhtStore, FhtStoreType
  <1>6. StashInOrder'
    BY DEF FhtStore, Sound, StashInOrder
  <1>7. \A l : l \in owed' <=> \/ l \in Held(table'[r].col) \/ l \in Held(stash')
                               \/ (l \in owed /\ l \notin Held(table[r].col) /\ l \notin Held(stash))
    BY <1>3, RowFacts
  <1> QED
    BY <1>2, <1>3, <1>4, <1>5, <1>6, <1>7, RowFacts, RowStep

-----------------------------------------------------------------------------
(* A set of numbers that is not empty has a least one.                     *)
LEMMA LeastIn ==
  ASSUME NEW T \in SUBSET Nat, T # {}
  PROVE  \E n \in T : \A m \in T : n <= m
  <1>1. IsWellFoundedOn(OpToRel(<, Nat), Nat)
    BY NatLessThanWellFounded, Zenon
  <1>2. PICK n \in T : \A m \in T : ~(<<m, n>> \in OpToRel(<, Nat))
    BY <1>1, WFMin, Zenon
  <1>3. \A m \in T : ~(m < n)
    BY <1>2 DEF OpToRel
  <1> QED
    BY <1>3

(* The columns and the slot a key is stored in.                            *)
LEMMA OldestColumn ==
  ASSUME NEW v \in Vectors
  PROVE  ReplacementIndex(v) \in Cols
  <1>1. \E c \in Cols : Age(v, c) = 3
    BY DEF Age, Vectors, Cols
  <1> QED
    BY <1>1 DEF ReplacementIndex

LEMMA FirstFreeColumn ==
  ASSUME NEW r \in TableRow, ~RowFull(r)
  PROVE  FreeColumn(table[r]) \in Cols /\ table[r].col[FreeColumn(table[r])] = NoKey
  <1> DEFINE T == {c \in Cols : table[r].col[c] = NoKey}
  <1>1. T \in SUBSET Nat /\ T # {}
    BY DEF RowFull, Cols
  <1>2. PICK c \in T : \A d \in T : c <= d
    BY <1>1, LeastIn
  <1>3. \A d \in 1 .. c - 1 : table[r].col[d] # NoKey
    BY <1>2 DEF Cols
  <1> QED
    BY <1>2, <1>3 DEF FreeColumn

LEMMA FirstFreeSlot ==
  ASSUME NoKey \in {stash[i] : i \in Slots}
  PROVE  \E i \in Slots : stash[i] = NoKey /\ \A j \in 1 .. i - 1 : stash[j] # NoKey
  <1> DEFINE T == {i \in Slots : stash[i] = NoKey}
  <1>1. T \in SUBSET Nat /\ T # {}
    BY FhtAssumption DEF Slots
  <1>2. PICK i \in T : \A j \in T : i <= j
    BY <1>1, LeastIn
  <1>3. \A j \in 1 .. i - 1 : stash[j] # NoKey
    BY <1>2, FhtAssumption DEF Slots
  <1> QED
    BY <1>2, <1>3

(* A key that is in neither of them is stored in column c of its row.      *)
LEMMA StoreRow ==
  ASSUME FhtStore, NEW k \in FhtKeys, k \notin Content, NEW c \in Cols, Store(k, c)
  PROVE  LET r == HashRow[k] IN
         /\ table' \in [TableRow -> [col : [Cols -> FhtKeys \cup {NoKey}], vector : Vectors]]
         /\ used' \in [TableRow -> SUBSET (FhtKeys \X FhtKeys)]
         /\ \A q \in TableRow : q # r => table'[q] = table[q] /\ used'[q] = used[q]
         /\ Ordered(table'[r].col, table'[r].vector, used'[r])
         /\ Held(table'[r].col) = (Held(table[r].col) \ {table[r].col[c]}) \cup {k}
  <1> DEFINE r == HashRow[k]
             cols == table[r].col
             vector == table[r].vector
             pairs == used[r]
             v == ReplacementVector[vector][c]
             ps == Forget(pairs, cols[c]) \cup {<<k, l>> : l \in Held(cols) \ {cols[c]}}
  <1>1. r \in TableRow
    BY RowOfKey
  <1>2. table' = [table EXCEPT ![r].vector = v, ![r].col[c] = k] /\ used' = [used EXCEPT ![r] = ps]
    BY DEF Store, Filled, UsedLast
  <1>3. v \in Vectors
    BY <1>1, RowFacts, AgesFollow
  <1>4. ps \in SUBSET (FhtKeys \X FhtKeys)
    BY <1>1, RowFacts DEF Forget
  <1>5. cols \in [Cols -> FhtKeys \cup {NoKey}] /\ vector \in Vectors /\ Ordered(cols, vector, pairs)
    BY <1>1, RowFacts
  <1>6. \A d \in Cols : cols[d] # k
    BY <1>1, RowFacts, NotAKey DEF FhtStore
  <1>7. v = ReplacementVector[vector][c]
        /\ ps = Forget(pairs, cols[c]) \cup {<<k, l>> : l \in Held(cols) \ {cols[c]}}
    OBVIOUS
  <1>8. table[r] \in [col : [Cols -> FhtKeys \cup {NoKey}], vector : Vectors]
        /\ table \in [TableRow -> [col : [Cols -> FhtKeys \cup {NoKey}], vector : Vectors]]
        /\ used \in [TableRow -> SUBSET (FhtKeys \X FhtKeys)]
    BY <1>1 DEF FhtStore, FhtStoreType
  <1>9. cols = table[r].col /\ r = HashRow[k]
    OBVIOUS
  <1> HIDE DEF r, cols, vector, pairs, v, ps
  <1>10. /\ table' \in [TableRow -> [col : [Cols -> FhtKeys \cup {NoKey}], vector : Vectors]]
         /\ used' \in [TableRow -> SUBSET (FhtKeys \X FhtKeys)]
         /\ \A d \in Cols : table'[r].col[d] = IF d = c THEN k ELSE table[r].col[d]
         /\ table'[r].vector = v /\ used'[r] = ps
         /\ \A q \in TableRow : q # r => table'[q] = table[q] /\ used'[q] = used[q]
    BY <1>1, <1>2, <1>3, <1>4, <1>8
  <1> DEFINE now == table'[r].col
  <1>11. now \in [Cols -> FhtKeys \cup {NoKey}]
    BY <1>1, <1>10
  <1>12. \A d \in Cols : now[d] = IF d = c THEN k ELSE cols[d]
    BY <1>9, <1>10
  <1>13. now = table'[r].col
    OBVIOUS
  <1> HIDE DEF now
  <1>14. Ordered(now, v, ps)
    <2>1. BecomesNewest(cols, vector, pairs, c, k, now, v, ps)
      BY <1>5, <1>6, <1>7, <1>11, <1>12 DEF BecomesNewest
    <2> QED
      BY <2>1, NewestInOrder
  <1>15. Held(now) = (Held(cols) \ {cols[c]}) \cup {k}
    <2>1. \A d \in Cols : d # c /\ cols[d] # NoKey => cols[d] # cols[c]
      BY <1>5 DEF Ordered
    <2> QED
      BY <1>5, <1>11, <1>12, <2>1, HeldFilled
  <1>16. Ordered(table'[r].col, table'[r].vector, used'[r])
    BY <1>10, <1>13, <1>14
  <1> QED
    BY <1>9, <1>10, <1>13, <1>15, <1>16

(* What the row gives up goes to slot i of the stash, and what was there   *)
(* leaves the table.                                                       *)
LEMMA MovedStep ==
  ASSUME FhtStore, NEW t, NEW k \in FhtKeys, k \notin Content, NEW c \in Cols, NEW i \in Slots,
         lock[HashRow[k]] \in {Free, t}, lock[Stash] \in {Free, t}, FhtStashed,
         RowFull(HashRow[k]), Store(k, c),
         stash' = [stash EXCEPT ![i] = table[HashRow[k]].col[c]],
         stashIndex' = (stashIndex % StashSize) + 1,
         owed' = (owed \cup {k}) \ {stash[i]}
  PROVE  FhtStore' /\ Spared(t)
  <1> DEFINE r == HashRow[k]
             old == table[r].col[c]
  <1>1. r \in TableRow
    BY RowOfKey
  <1>2. old \in FhtKeys /\ old \in Held(table[r].col) /\ old # k
    <2>1. old # NoKey
      BY DEF RowFull
    <2>2. old \in Held(table[r].col)
      BY <1>1, <2>1, RowFacts
    <2> QED
      BY <1>1, <2>2, RowFacts DEF FhtStore
  <1>3. /\ table' \in [TableRow -> [col : [Cols -> FhtKeys \cup {NoKey}], vector : Vectors]]
        /\ used' \in [TableRow -> SUBSET (FhtKeys \X FhtKeys)]
        /\ \A q \in TableRow : q # r => table'[q] = table[q] /\ used'[q] = used[q]
        /\ Ordered(table'[r].col, table'[r].vector, used'[r])
        /\ Held(table'[r].col) = (Held(table[r].col) \ {old}) \cup {k}
    BY StoreRow
  <1>4. stash' = [stash EXCEPT ![i] = old]
    OBVIOUS
  <1>5. lock[r] \in {Free, t}
    OBVIOUS
  <1>6. k \notin owed /\ HashRow[k] = r /\ HashRow[old] = r
    BY <1>1, <1>2, RowFacts DEF FhtStore
  <1> HIDE DEF r, old
  <1>7. stash \in [Slots -> FhtKeys \cup {NoKey}] /\ stash' \in [Slots -> FhtKeys \cup {NoKey}]
        /\ \A j \in Slots : stash'[j] = IF j = i THEN old ELSE stash[j]
    BY <1>2, <1>4 DEF FhtStore, FhtStoreType
  <1>8. \A j \in Slots : j # i /\ stash[j] # NoKey => stash[j] # stash[i]
    BY DEF FhtStore, Sound, StashInOrder
  <1>9. Held(stash') = (Held(stash) \ {stash[i]}) \cup {old}
    <2>1. old \in FhtKeys
      BY <1>2
    <2>2. \A j \in Slots : stash'[j] = IF j = i THEN old ELSE stash[j]
      BY <1>7
    <2>3. stash \in [Slots -> FhtKeys \cup {NoKey}] /\ stash' \in [Slots -> FhtKeys \cup {NoKey}]
      BY <1>7
    <2>4. \A l : l \in Held(stash) <=> l # NoKey /\ \E j \in Slots : stash[j] = l
      BY <2>3, HeldIn
    <2>5. \A l : l \in Held(stash') <=> l # NoKey /\ \E j \in Slots : stash'[j] = l
      BY <2>3, HeldIn
    <2>6. ASSUME NEW l PROVE l \in Held(stash') <=> ((l \in Held(stash) /\ l # stash[i]) \/ l = old)
      <3>1. l = old => l \in Held(stash')
        BY <2>1, <2>2, <2>5, NotAKey
      <3>2. l \in Held(stash) /\ l # stash[i] => l \in Held(stash')
        BY <2>2, <2>4, <2>5
      <3>3. l \in Held(stash') => (l \in Held(stash) /\ l # stash[i]) \/ l = old
        BY <1>8, <2>2, <2>4, <2>5
      <3> QED
        BY <3>1, <3>2, <3>3
    <2> QED
      BY <2>6
  <1>10. old \notin Held(stash) /\ \A j \in Slots : stash[j] # NoKey => stash[j] \in Held(stash)
    BY <1>1, <1>2, <1>7, RowFacts, HeldIn
  <1>11. StashInOrder'
    BY <1>7, <1>8, <1>10 DEF FhtStore, Sound, StashInOrder
  <1>12. stashIndex' \in Slots
    <2>1. StashSize \in Nat /\ StashSize > 0 /\ stashIndex \in Slots
      BY FhtAssumption DEF FhtStore, FhtStoreType, Slots
    <2>2. stashIndex % StashSize \in 0 .. StashSize - 1
      BY <2>1 DEF Slots
    <2> QED
      BY <2>1, <2>2 DEF Slots
  <1>13. FhtStoreType'
    <2>1. owed' \in SUBSET FhtKeys
      BY DEF FhtStore, FhtStoreType
    <2>2. stashIndex' \in Nat
      BY <1>12 DEF Slots
    <2> QED
      BY <1>3, <1>7, <1>12, <2>1, <2>2 DEF FhtStoreType
  <1>14. stash[i] # NoKey => stash[i] \in Held(stash)
    BY <1>10
  <1>15. NoKey \notin owed /\ Held(stash) \subseteq owed /\ Held(table[r].col) \subseteq owed
    BY <1>1, RowFacts, NotAKey DEF FhtStore, FhtStoreType
  <1>16. Held(table[r].col) \cap Held(stash) = {} /\ k \notin Held(stash)
    BY <1>1, <1>6, <1>15, RowFacts
  <1>17. \A l : l \in owed' <=> \/ l \in Held(table'[r].col) \/ l \in Held(stash')
                                \/ (l \in owed /\ l \notin Held(table[r].col) /\ l \notin Held(stash))
    <2> SUFFICES ASSUME NEW l
                 PROVE  l \in owed' <=> \/ l \in Held(table'[r].col) \/ l \in Held(stash')
                                        \/ (l \in owed /\ l \notin Held(table[r].col) /\ l \notin Held(stash))
      OBVIOUS
    <2>1. l \in Held(table'[r].col) <=> ((l \in Held(table[r].col) /\ l # old) \/ l = k)
      BY <1>3
    <2>2. l \in Held(stash') <=> ((l \in Held(stash) /\ l # stash[i]) \/ l = old)
      BY <1>9
    <2>3. l \in owed' <=> ((l \in owed \/ l = k) /\ l # stash[i])
      OBVIOUS
    <2>4. /\ l \in Held(stash) => l \in owed /\ l \notin Held(table[r].col) /\ l # k
          /\ l \in Held(table[r].col) => l \in owed /\ l # k
          /\ l = stash[i] /\ l \in owed => l \in Held(stash)
          /\ l = k => l # stash[i] /\ l \notin owed
          /\ l = old => l \in Held(table[r].col)
      BY <1>2, <1>6, <1>7, <1>14, <1>15, <1>16, NotAKey
    <2> QED
      BY <2>1, <2>2, <2>3, <2>4
  <1>18. \A l \in Held(table'[r].col) : HashRow[l] = r /\ l \notin Held(stash')
    <2> SUFFICES ASSUME NEW l \in Held(table'[r].col) PROVE HashRow[l] = r /\ l \notin Held(stash')
      OBVIOUS
    <2>1. (l \in Held(table[r].col) /\ l # old) \/ l = k
      BY <1>3
    <2>2. l \in Held(stash') <=> ((l \in Held(stash) /\ l # stash[i]) \/ l = old)
      BY <1>9
    <2>3. l \in Held(table[r].col) => HashRow[l] = r /\ l \notin Held(stash)
      BY <1>1, RowFacts
    <2> QED
      BY <1>2, <1>6, <1>16, <2>1, <2>2, <2>3
  <1>19. \A l \in Held(stash') : l \in Held(stash) \/ HashRow[l] = r
    BY <1>6, <1>9
  <1>20. Held(stash) \cap owed' \subseteq Held(stash')
    BY <1>9
  <1> QED
    BY <1>1, <1>3, <1>5, <1>11, <1>13, <1>17, <1>18, <1>19, <1>20, RowStep

LEMMA InsertStep ==
  ASSUME FhtStore, NEW t, NEW k \in FhtKeys, k \notin Content, NEW replace \in BOOLEAN,
         lock[HashRow[k]] \in {Free, t}, FhtInsert(k, replace)
  PROVE  FhtStore' /\ Spared(t)
  <1> DEFINE r == HashRow[k]
             c == ReplacementIndex(table[r].vector)
             old == table[r].col[c]
  <1>1. r \in TableRow /\ c \in Cols
    BY RowOfKey, RowFacts, OldestColumn
  <1>2. ASSUME NEW d \in Cols, Store(k, d), UNCHANGED <<stash, stashIndex>>,
               owed' = (owed \cup {k}) \ {table[r].col[d]}
        PROVE  FhtStore' /\ Spared(t)
    <2> DEFINE gone == table[r].col[d]
    <2>1. /\ table' \in [TableRow -> [col : [Cols -> FhtKeys \cup {NoKey}], vector : Vectors]]
          /\ used' \in [TableRow -> SUBSET (FhtKeys \X FhtKeys)]
          /\ \A q \in TableRow : q # r => table'[q] = table[q] /\ used'[q] = used[q]
          /\ Ordered(table'[r].col, table'[r].vector, used'[r])
          /\ Held(table'[r].col) = (Held(table[r].col) \ {gone}) \cup {k}
      BY <1>2, StoreRow
    <2>2. gone # NoKey => gone \in Held(table[r].col)
      BY <1>1, RowFacts
    <2>3. owed' = (owed \cup {k}) \ {gone}
      BY <1>2
    <2>4. lock[r] \in {Free, t} /\ HashRow[k] = r /\ k \notin owed
      BY DEF FhtStore
    <2> HIDE DEF gone, r
    <2>5. NoKey \notin owed /\ Held(stash) \subseteq owed /\ Held(table[r].col) \subseteq owed
      BY <1>1, RowFacts, NotAKey DEF FhtStore, FhtStoreType
    <2>6. Held(table[r].col) \cap Held(stash) = {} /\ k \notin Held(stash)
      BY <1>1, <2>4, <2>5, RowFacts
    <2>7. \A l : l \in owed' <=> \/ l \in Held(table'[r].col) \/ l \in Held(stash')
                                 \/ (l \in owed /\ l \notin Held(table[r].col) /\ l \notin Held(stash))
      <3> SUFFICES ASSUME NEW l
                   PROVE  l \in owed' <=> \/ l \in Held(table'[r].col) \/ l \in Held(stash')
                                          \/ (l \in owed /\ l \notin Held(table[r].col) /\ l \notin Held(stash))
        OBVIOUS
      <3>1. l \in Held(table'[r].col) <=> ((l \in Held(table[r].col) /\ l # gone) \/ l = k)
        BY <2>1
      <3>2. l \in Held(stash') <=> l \in Held(stash)
        BY <1>2
      <3>3. l \in owed' <=> ((l \in owed \/ l = k) /\ l # gone)
        BY <2>3
      <3>4. /\ l \in Held(stash) => l \in owed /\ l \notin Held(table[r].col) /\ l # k
            /\ l \in Held(table[r].col) => l \in owed /\ l # k
            /\ l = gone /\ l \in owed => l \in Held(table[r].col)
            /\ l = k => l # gone /\ l \notin owed
        BY <2>2, <2>4, <2>5, <2>6, NotAKey
      <3> QED
        BY <3>1, <3>2, <3>3, <3>4
    <2>8. FhtStoreType'
      <3>1. owed' \in SUBSET FhtKeys
        BY <2>3 DEF FhtStore, FhtStoreType
      <3> QED
        BY <1>2, <2>1, <3>1 DEF FhtStore, FhtStoreType
    <2>9. StashInOrder'
      BY <1>2 DEF FhtStore, Sound, StashInOrder
    <2>10. \A l \in Held(table'[r].col) : HashRow[l] = r /\ l \notin Held(stash')
      BY <1>1, <1>2, <2>1, <2>4, <2>6, RowFacts
    <2>11. \A l \in Held(stash') : l \in Held(stash) \/ HashRow[l] = r
      BY <1>2
    <2>12. Held(stash) \cap owed' \subseteq Held(stash')
      BY <1>2
    <2>13. stash' = stash
      BY <1>2
    <2> QED
      BY <1>1, <2>1, <2>4, <2>7, <2>8, <2>9, <2>10, <2>11, <2>12, <2>13, RowStep
  <1>3. ASSUME UNCHANGED <<table, used, stash, stashIndex, owed>>
        PROVE  FhtStore' /\ Spared(t)
    BY <1>3 DEF FhtStore, FhtStoreType, Sound, StashInOrder, RowInOrder, Content, Spared
  <1>4. NoKey \notin owed /\ NoKey # k
    BY NotAKey DEF FhtStore, FhtStoreType
  <1>5. CASE ~RowFull(r)
    <2>1. FreeColumn(table[r]) \in Cols /\ table[r].col[FreeColumn(table[r])] = NoKey
      BY <1>1, <1>5, FirstFreeColumn
    <2>2. Store(k, FreeColumn(table[r])) /\ owed' = owed \cup {k} /\ UNCHANGED <<stash, stashIndex>>
      BY <1>5 DEF FhtInsert
    <2>3. owed' = (owed \cup {k}) \ {table[r].col[FreeColumn(table[r])]}
      BY <1>4, <2>1, <2>2
    <2> QED
      BY <1>2, <2>1, <2>2, <2>3
  <1>6. CASE RowFull(r) /\ FhtStashed /\ StashSize > 0
    <2>1. lock[Stash] = Free
      BY <1>6 DEF FhtInsert
    <2>2. CASE replace
      <3>1. /\ stash' = [stash EXCEPT ![stashIndex] = old]
            /\ stashIndex' = (stashIndex % StashSize) + 1 /\ Store(k, c)
            /\ owed' = (owed \cup {k}) \ {stash[stashIndex]}
        BY <1>6, <2>2 DEF FhtInsert
      <3>2. stashIndex \in Slots
        BY <1>6 DEF FhtStore, FhtStoreType
      <3> QED
        BY <1>1, <1>6, <2>1, <3>1, <3>2, MovedStep
    <2>3. CASE ~replace /\ NoKey \in {stash[i] : i \in Slots}
      <3> DEFINE i == CHOOSE i \in Slots : stash[i] = NoKey /\ \A j \in 1 .. i - 1 : stash[j] # NoKey
      <3>1. /\ stash' = [stash EXCEPT ![i] = old]
            /\ stashIndex' = (stashIndex % StashSize) + 1 /\ Store(k, c)
            /\ owed' = owed \cup {k}
        BY <1>6, <2>3 DEF FhtInsert
      <3>2. i \in Slots /\ stash[i] = NoKey
        BY <2>3, FirstFreeSlot
      <3> HIDE DEF i
      <3>3. owed' = (owed \cup {k}) \ {stash[i]}
        BY <1>4, <3>1, <3>2
      <3> QED
        BY <1>1, <1>6, <2>1, <3>1, <3>2, <3>3, MovedStep
    <2>4. CASE ~replace /\ NoKey \notin {stash[i] : i \in Slots}
      <3>1. UNCHANGED <<table, used, stash, stashIndex, owed>>
        BY <1>6, <2>4 DEF FhtInsert
      <3> QED
        BY <1>3, <3>1
    <2> QED
      BY <2>2, <2>3, <2>4
  <1>7. CASE RowFull(r) /\ ~(FhtStashed /\ StashSize > 0)
    <2>1. CASE replace
      <3>1. Store(k, c) /\ owed' = (owed \cup {k}) \ {old} /\ UNCHANGED <<stash, stashIndex>>
        BY <1>7, <2>1 DEF FhtInsert
      <3> QED
        BY <1>1, <1>2, <3>1
    <2>2. CASE ~replace
      <3>1. UNCHANGED <<table, used, stash, stashIndex, owed>>
        BY <1>7, <2>2 DEF FhtInsert
      <3> QED
        BY <1>3, <3>1
    <2> QED
      BY <2>1, <2>2
  <1> QED
    BY <1>5, <1>6, <1>7

-----------------------------------------------------------------------------
(* The locks follow the thread that acts: it keeps what it has locked ...  *)
LEMMA LocksStay ==
  ASSUME LocksMatch, NEW t \in FhtThreads, UNCHANGED lock, Guarded(t)' = Guarded(t),
         \A s \in FhtThreads : s # t => caller'[s] = caller[s]
  PROVE  LocksMatch'
  <1>1. \A s \in FhtThreads : Guarded(s)' = Guarded(s)
    BY DEF Guarded
  <1> QED
    BY <1>1 DEF LocksMatch

(* ... or takes place r, moves within it, or gives it back.                *)
LEMMA LocksFollow ==
  ASSUME FhtCallType, LocksMatch, NEW t \in FhtThreads, NEW r \in {Stash} \cup TableRow,
         lock[r] \in {Free, t}, NEW x \in {Free, t}, lock' = [lock EXCEPT ![r] = x],
         Guarded(t) \subseteq {r}, Guarded(t)' = IF x = t THEN {r} ELSE {},
         \A s \in FhtThreads : s # t => caller'[s] = caller[s]
  PROVE  LocksMatch'
  <1>1. DOMAIN lock = {Stash} \cup TableRow /\ DOMAIN lock' = DOMAIN lock
    BY DEF FhtCallType
  <1>2. \A q \in DOMAIN lock : lock'[q] = IF q = r THEN x ELSE lock[q]
    BY <1>1
  <1>3. Free # t
    BY FhtAssumption DEF Free
  <1>4. ASSUME NEW s \in FhtThreads, NEW q \in DOMAIN lock
        PROVE  lock'[q] = s <=> q \in Guarded(s)'
    <2>1. lock[q] = s <=> q \in Guarded(s)
      BY <1>4 DEF LocksMatch
    <2>2. s # Free
      BY FhtAssumption DEF Free
    <2>3. CASE s = t
      BY <1>2, <1>3, <2>1, <2>3
    <2>4. CASE s # t
      <3>1. Guarded(s)' = Guarded(s)
        BY <2>4 DEF Guarded
      <3> QED
        BY <1>2, <2>1, <2>2, <2>4, <3>1
    <2> QED
      BY <2>3, <2>4
  <1> QED
    BY <1>1, <1>4 DEF LocksMatch

(* What the other threads have seen is still so.                           *)
LEMMA OthersRight ==
  ASSUME FhtStore, FhtStore', FhtCallType, LocksMatch, NEW t \in FhtThreads, Spared(t),
         NEW s \in FhtThreads, s # t, CallRight(s), caller'[s] = caller[s],
         notGiven'[s] \subseteq notGiven[s] \cap Content'
  PROVE  CallRight(s)'
  <1>0. PICK c : c = caller[s] /\ c = caller'[s]
    OBVIOUS
  <1>1. \A q \in {Stash} \cup TableRow : q \in Guarded(s) => lock[q] \notin {Free, t}
    BY FhtAssumption DEF LocksMatch, FhtCallType, Free
  <1>2. c \in FhtCalls /\ c.row \in {Stash} \cup TableRow /\ c.col \in Nat
    BY <1>0 DEF FhtCallType, FhtCalls
  <1>3. c.pc \in {"search", "store"} => /\ c.key \in FhtKeys /\ HashRow[c.key] \in TableRow
                                        /\ table'[HashRow[c.key]] = table[HashRow[c.key]]
                                        /\ lock[HashRow[c.key]] \notin {Free, t}
    BY <1>0, <1>1, RowOfKey DEF CallRight, Guarded, Spared
  <1>4. c.pc \in {"holds", "iter"} => (Place(c.row))' = Place(c.row)
    <2>1. c.pc \in {"holds", "iter"} => lock[c.row] \notin {Free, t}
      BY <1>0, <1>1, <1>2 DEF Guarded
    <2>2. Stash \notin TableRow
      BY DEF Stash, TableRow
    <2> QED
      BY <1>2, <2>1, <2>2 DEF Place, Spared
  <1>5. (caller[s].pc \in {"search", "store", "get", "remove", "holds"} => caller[s].key \in FhtKeys)'
    BY <1>0 DEF CallRight
  <1>6. (caller[s].pc = "search" => FhtStashed /\ ~InRow(caller[s].key))'
    BY <1>0, <1>3 DEF CallRight, InRow
  <1>7. (caller[s].pc = "store" => FhtStashed /\ caller[s].key \notin Content)'
    BY <1>0, <1>3 DEF CallRight, Spared
  <1>8. (caller[s].pc = "holds" =>
           /\ caller[s].key \in Held(Place(caller[s].row))
           /\ caller[s].row # Stash => caller[s].row = HashRow[caller[s].key])'
    BY <1>0, <1>4 DEF CallRight, Place
  <1>9. (caller[s].pc = "iter" => caller[s].col \in DOMAIN Place(caller[s].row))'
    BY <1>0, <1>4 DEF CallRight, Place
  <1>10. ASSUME NEW k \in notGiven'[s]
         PROVE  c.pc \in {"scan", "iter"} /\ k \in Later(c.row, c.col)'
    <2>1. c.pc \in {"scan", "iter"} /\ k \in Later(c.row, c.col) /\ k \in Content' /\ k \in FhtKeys
      BY <1>0, <1>10 DEF CallRight, Later
    <2>2. k \in Held(stash) => k \in Held(stash')
      BY <2>1 DEF Spared
    <2>3. ASSUME NEW q \in TableRow, k \in Held(table[q].col)
          PROVE  k \in Held(table'[q].col) \/ k \in Held(stash')
      <3>1. HashRow[k] = q
        BY <2>3, RowFacts
      <3>2. k \in Held(stash') \/ k \in Held(table'[HashRow[k]].col)
        BY <2>1, ContentNext DEF FhtStore, Sound, RowInOrder
      <3> QED
        BY <2>1, <3>1, <3>2
    <2>4. CASE c.row # Stash /\ (k \in Held(stash) \/ \E q \in TableRow : q > c.row /\ k \in Held(table[q].col))
      <3>1. k \in Held(stash') \/ \E q \in TableRow : q > c.row /\ k \in Held(table'[q].col)
        BY <2>2, <2>3, <2>4
      <3> QED
        BY <2>1, <2>4, <3>1 DEF Later
    <2>5. CASE \E d \in DOMAIN Place(c.row) : d > c.col /\ Place(c.row)[d] = k
      <3>1. CASE c.pc = "iter"
        <4>1. \E d \in DOMAIN (Place(c.row))' : d > c.col /\ (Place(c.row))'[d] = k
          BY <1>4, <2>5, <3>1
        <4> QED
          BY <2>1, <4>1 DEF Later
      <3>2. CASE c.pc = "scan"
        <4>0. c.col = 0 /\ k # NoKey
          BY <1>0, <2>1, <3>2, NotAKey DEF CallRight
        <4>1. CASE c.row = Stash
          <5>1. k \in Held(stash)
            BY <2>5, <4>0, <4>1, HeldIn DEF Place
          <5>2. DOMAIN stash' = Slots /\ \A d \in Slots : d > 0
            BY FhtAssumption DEF FhtStore, FhtStoreType, Slots
          <5>3. \E d \in DOMAIN stash' : d > c.col /\ stash'[d] = k
            BY <2>2, <4>0, <5>1, <5>2, HeldIn
          <5>4. (Place(c.row))' = stash'
            BY <4>1 DEF Place
          <5> QED
            BY <2>1, <5>3, <5>4 DEF Later
        <4>2. CASE c.row # Stash
          <5>1. c.row \in TableRow /\ k \in Held(table[c.row].col)
            BY <1>2, <2>5, <4>0, <4>2, HeldIn DEF Place
          <5>2. CASE k \in Held(stash')
            BY <2>1, <4>2, <5>2 DEF Later
          <5>3. CASE k \in Held(table'[c.row].col)
            <6>1. DOMAIN table'[c.row].col = Cols /\ \A d \in Cols : d > 0
              BY <5>1 DEF FhtStore, FhtStoreType, Cols
            <6>2. \E d \in DOMAIN table'[c.row].col : d > c.col /\ table'[c.row].col[d] = k
              BY <4>0, <5>3, <6>1, HeldIn
            <6>3. (Place(c.row))' = table'[c.row].col
              BY <4>2 DEF Place
            <6> QED
              BY <2>1, <6>2, <6>3 DEF Later
          <5> QED
            BY <2>3, <5>1, <5>2, <5>3
        <4> QED
          BY <4>1, <4>2
      <3> QED
        BY <2>1, <3>1, <3>2
    <2> QED
      BY <2>1, <2>4, <2>5 DEF Later
  <1>11. (caller[s].pc = "scan" => caller[s].col = 0)' /\ (caller[s].pc = "get" => caller[s].row = Stash)'
    BY <1>0 DEF CallRight
  <1>12. (notGiven[s] \subseteq IF caller[s].pc \in {"scan", "iter"}
                                  THEN Later(caller[s].row, caller[s].col) ELSE {})'
    <2>1. \A k \in notGiven'[s] : c.pc \in {"scan", "iter"} /\ k \in Later(c.row, c.col)'
      BY <1>10
    <2>2. Later(c.row, c.col)' = Later(caller[s].row, caller[s].col)'
      BY <1>0 DEF Later, Place
    <2> QED
      BY <1>0, <2>1, <2>2
  <1> QED
    BY <1>5, <1>6, <1>7, <1>8, <1>9, <1>11, <1>12 DEF CallRight

-----------------------------------------------------------------------------
(* An iteration still waits for keys of the table only, and for no others  *)
(* after a step that gives it nothing.                                     *)
GivenKept ==
  /\ notGiven' \in [FhtThreads -> SUBSET FhtKeys]
  /\ \A s \in FhtThreads : notGiven'[s] \subseteq notGiven[s] \cap Content'

LEMMA NoneGiven ==
  ASSUME FhtCallType, NothingGiven
  PROVE  GivenKept
  <1>1. notGiven' = [s \in FhtThreads |-> (notGiven[s] \cap Content') \ {}]
    BY DEF NothingGiven, Missing
  <1> QED
    BY <1>1 DEF GivenKept, FhtCallType

LEMMA LaterHeld ==
  ASSUME FhtStore, NEW r \in {Stash} \cup TableRow, NEW c
  PROVE  Later(r, c) \subseteq Content
  <1> SUFFICES ASSUME NEW k \in Later(r, c) PROVE k \in Content
    OBVIOUS
  <1>1. k # NoKey
    BY NotAKey DEF Later
  <1>2. CASE \E d \in DOMAIN Place(r) : d > c /\ Place(r)[d] = k
    <2>1. k \in Held(Place(r))
      BY <1>1, <1>2, HeldIn
    <2> QED
      BY <2>1, ContentIn DEF Place
  <1>3. CASE k \in Held(stash) \/ \E q \in TableRow : q > r /\ k \in Held(table[q].col)
    BY <1>3, ContentIn
  <1> QED
    BY <1>2, <1>3 DEF Later

LEMMA SameGiven ==
  ASSUME FhtInv, Content' = Content, UNCHANGED notGiven
  PROVE  GivenKept
  <1> SUFFICES ASSUME NEW s \in FhtThreads PROVE notGiven[s] \subseteq Content
    BY DEF GivenKept, FhtInv, FhtTypeOK, FhtCallType
  <1>1. FhtStore /\ CallRight(s) /\ caller[s].row \in {Stash} \cup TableRow
    BY DEF FhtInv, FhtStore, FhtTypeOK, FhtCallType, FhtCalls
  <1>2. Later(caller[s].row, caller[s].col) \subseteq Content
    BY <1>1, LaterHeld
  <1> QED
    BY <1>1, <1>2 DEF CallRight

LEMMA StoreSame ==
  ASSUME FhtStore, NEW t, UNCHANGED <<table, stash, stashIndex, used, owed>>
  PROVE  FhtStore' /\ Spared(t) /\ Content' = Content
  BY DEF FhtStore, FhtStoreType, Sound, StashInOrder, RowInOrder, Content, Spared

LEMMA StepRight ==
  ASSUME FhtInv, NEW t \in FhtThreads, FhtStore', Spared(t), FhtCallType', LocksMatch', CallRight(t)',
         \A s \in FhtThreads : s # t =>
           caller'[s] = caller[s] /\ notGiven'[s] \subseteq notGiven[s] \cap Content'
  PROVE  FhtInv'
  <1>1. ASSUME NEW s \in FhtThreads PROVE CallRight(s)'
    <2>1. CASE s = t
      BY <2>1
    <2>2. CASE s # t
      BY <2>2, OthersRight DEF FhtInv, FhtStore, FhtTypeOK
    <2> QED
      BY <2>1, <2>2
  <1> QED
    BY <1>1 DEF FhtInv, FhtStore, FhtTypeOK

(* A thread that does not iterate goes on to x.                            *)
LEMMA Turn ==
  ASSUME FhtInv, NEW t \in FhtThreads, NEW x \in FhtCalls, FhtStore', Spared(t), GivenKept,
         caller' = [caller EXCEPT ![t] = x],
         lock' \in [{Stash} \cup TableRow -> FhtThreads \cup {Free}], LocksMatch',
         caller[t].pc \notin {"scan", "iter"}, x.pc \notin {"scan", "iter"},
         x.pc \in {"search", "store", "get", "remove", "holds"} => x.key \in FhtKeys,
         x.pc = "search" => FhtStashed /\ x.key \notin Held(table'[HashRow[x.key]].col),
         x.pc = "store" => FhtStashed /\ x.key \notin Content',
         x.pc = "holds" => \/ (x.row = Stash /\ x.key \in Held(stash'))
                           \/ (x.row = HashRow[x.key] /\ x.key \in Held(table'[x.row].col)),
         x.pc = "get" => x.row = Stash
  PROVE  FhtInv'
  <1>1. caller'[t] = x /\ caller' \in [FhtThreads -> FhtCalls]
        /\ \A s \in FhtThreads : s # t => caller'[s] = caller[s]
    BY DEF FhtInv, FhtTypeOK, FhtCallType
  <1>2. FhtCallType'
    BY <1>1 DEF FhtCallType, GivenKept
  <1>3. notGiven'[t] = {}
    BY DEF FhtInv, CallRight, GivenKept
  <1>4. Stash \notin TableRow
    BY DEF Stash, TableRow
  <1>5. (caller[t].pc \in {"search", "store", "get", "remove", "holds"} => caller[t].key \in FhtKeys)'
    BY <1>1
  <1>6. (caller[t].pc = "search" => FhtStashed /\ ~InRow(caller[t].key))'
    BY <1>1 DEF InRow
  <1>7. (caller[t].pc = "store" => FhtStashed /\ caller[t].key \notin Content)'
    BY <1>1
  <1>8. (caller[t].pc = "holds" =>
           /\ caller[t].key \in Held(Place(caller[t].row))
           /\ caller[t].row # Stash => caller[t].row = HashRow[caller[t].key])'
    BY <1>1, <1>4, RowOfKey DEF Place
  <1>9. (caller[t].pc = "iter" => caller[t].col \in DOMAIN Place(caller[t].row))'
    BY <1>1
  <1>10. (caller[t].pc = "scan" => caller[t].col = 0)' /\ (caller[t].pc = "get" => caller[t].row = Stash)'
    BY <1>1
  <1>11. (notGiven[t] \subseteq IF caller[t].pc \in {"scan", "iter"}
                                  THEN Later(caller[t].row, caller[t].col) ELSE {})'
    BY <1>1, <1>3
  <1>12. CallRight(t)'
    BY <1>5, <1>6, <1>7, <1>8, <1>9, <1>10, <1>11 DEF CallRight
  <1> QED
    BY <1>1, <1>2, <1>12, StepRight DEF GivenKept

(* It may keep its locks, take one or give one back.                       *)
LEMMA IdleTurn ==
  ASSUME FhtInv, NEW t \in FhtThreads, FhtStore', Spared(t), GivenKept,
         caller[t].pc \notin {"scan", "iter"}, Becomes(t, Idle),
         \/ UNCHANGED lock /\ Guarded(t) = {}
         \/ \E r \in {Stash} \cup TableRow : Guarded(t) = {r} /\ lock' = [lock EXCEPT ![r] = Free]
  PROVE  FhtInv'
  <1>1. Idle \in FhtCalls /\ Idle.pc = "idle"
    BY DEF Idle, FhtCalls
  <1>2. caller' = [caller EXCEPT ![t] = Idle] /\ caller'[t] = Idle
        /\ \A s \in FhtThreads : s # t => caller'[s] = caller[s]
    BY DEF Becomes, FhtInv, FhtTypeOK, FhtCallType
  <1>3. Guarded(t)' = {}
    BY <1>1, <1>2 DEF Guarded
  <1>4. lock' \in [{Stash} \cup TableRow -> FhtThreads \cup {Free}]
    BY DEF FhtInv, FhtTypeOK, FhtCallType
  <1>5. LocksMatch'
    <2>1. CASE UNCHANGED lock /\ Guarded(t) = {}
      BY <1>2, <1>3, <2>1, LocksStay DEF FhtInv
    <2>2. CASE \E r \in {Stash} \cup TableRow : Guarded(t) = {r} /\ lock' = [lock EXCEPT ![r] = Free]
      <3>1. PICK r \in {Stash} \cup TableRow : Guarded(t) = {r} /\ lock' = [lock EXCEPT ![r] = Free]
        BY <2>2
      <3>2. lock[r] \in {Free, t}
        BY <3>1 DEF FhtInv, LocksMatch, FhtTypeOK, FhtCallType
      <3>3. Free # t
        BY FhtAssumption DEF Free
      <3> DEFINE x == Free
      <3>4. x \in {Free, t} /\ lock' = [lock EXCEPT ![r] = x] /\ Guarded(t)' = IF x = t THEN {r} ELSE {}
        BY <1>3, <3>1, <3>3
      <3>5. FhtCallType /\ LocksMatch /\ Guarded(t) \subseteq {r}
        BY <3>1 DEF FhtInv, FhtTypeOK
      <3> HIDE DEF x
      <3> QED
        BY <1>2, <3>2, <3>4, <3>5, LocksFollow
    <2> QED
      BY <2>1, <2>2
  <1> QED
    BY <1>1, <1>2, <1>4, <1>5, Turn

LEMMA LockTurn ==
  ASSUME FhtInv, NEW t \in FhtThreads, NEW r \in {Stash} \cup TableRow, lock[r] = Free,
         Guarded(t) = {}, Guarded(t)' = {r}, lock' = [lock EXCEPT ![r] = t],
         \A s \in FhtThreads : s # t => caller'[s] = caller[s]
  PROVE  LocksMatch' /\ lock' \in [{Stash} \cup TableRow -> FhtThreads \cup {Free}]
  <1>1. lock' \in [{Stash} \cup TableRow -> FhtThreads \cup {Free}]
    BY DEF FhtInv, FhtTypeOK, FhtCallType
  <1>2. FhtCallType /\ LocksMatch /\ Guarded(t) \subseteq {r}
    BY DEF FhtInv, FhtTypeOK
  <1> DEFINE x == t
  <1>3. x \in {Free, t} /\ lock' = [lock EXCEPT ![r] = x] /\ Guarded(t)' = IF x = t THEN {r} ELSE {}
    OBVIOUS
  <1>4. lock[r] \in {Free, t}
    OBVIOUS
  <1> HIDE DEF x
  <1> QED
    BY <1>1, <1>2, <1>3, <1>4, LocksFollow

(* A thread that goes on with what it does keeps its lock, if it has one.  *)
LEMMA KeepTurn ==
  ASSUME FhtInv, NEW t \in FhtThreads, UNCHANGED lock, Guarded(t)' = Guarded(t),
         \A s \in FhtThreads : s # t => caller'[s] = caller[s]
  PROVE  LocksMatch' /\ lock' \in [{Stash} \cup TableRow -> FhtThreads \cup {Free}]
  BY LocksStay DEF FhtInv, FhtTypeOK, FhtCallType

LEMMA StoreInv == FhtInv => FhtStore /\ FhtCallType /\ LocksMatch
  BY DEF FhtInv, FhtStore, FhtTypeOK

LEMMA IdleCall ==
  ASSUME NEW t, caller[t] = Idle
  PROVE  caller[t].pc = "idle" /\ Guarded(t) = {}
  BY DEF Idle, Guarded

LEMMA CallerSet ==
  ASSUME FhtInv, NEW t \in FhtThreads, NEW x, Becomes(t, x)
  PROVE  /\ caller' = [caller EXCEPT ![t] = x] /\ caller'[t] = x
         /\ \A s \in FhtThreads : s # t => caller'[s] = caller[s]
  BY DEF Becomes, FhtInv, FhtTypeOK, FhtCallType

LEMMA StaysIdle ==
  ASSUME FhtInv, NEW t \in FhtThreads, caller[t] = Idle, UNCHANGED caller
  PROVE  Becomes(t, Idle)
  BY DEF Becomes, FhtInv, FhtTypeOK, FhtCallType

LEMMA InsertBeginInv ==
  ASSUME FhtInv, NEW t \in FhtThreads, NEW k \in FhtKeys, NEW replace \in BOOLEAN,
         InsertBegin(t, k, replace)
  PROVE  FhtInv'
  <1> DEFINE r == HashRow[k]
  <1>1. FhtStore /\ FhtCallType /\ LocksMatch /\ r \in TableRow
    BY StoreInv, RowOfKey
  <1>2. caller[t] = Idle /\ lock[r] = Free /\ NothingGiven
    BY DEF InsertBegin
  <1>3. GivenKept
    BY <1>1, <1>2, NoneGiven
  <1>4. caller[t].pc = "idle" /\ Guarded(t) = {}
    BY <1>2, IdleCall
  <1>5. CASE InRow(k)
    <2>1. Use(k) /\ UNCHANGED <<stash, stashIndex, owed, lock, caller>>
      BY <1>5 DEF InsertBegin
    <2>2. FhtStore' /\ Spared(t)
      BY <1>1, <1>2, <1>5, <2>1, UseStep
    <2>3. Becomes(t, Idle)
      BY <1>2, <2>1, StaysIdle
    <2> QED
      BY <1>3, <1>4, <2>1, <2>2, <2>3, IdleTurn
  <1>6. CASE ~InRow(k) /\ FhtStashed
    <2> DEFINE x == [Idle EXCEPT !.pc = "search", !.key = k, !.replace = replace]
    <2>1. lock' = [lock EXCEPT ![r] = t] /\ Becomes(t, x) /\ UNCHANGED <<table, used, stash, stashIndex, owed>>
      BY <1>6 DEF InsertBegin
    <2>2. x \in FhtCalls /\ x.pc = "search" /\ x.key = k
      BY DEF Idle, FhtCalls
    <2>3. FhtStore' /\ Spared(t)
      BY <1>1, <2>1, StoreSame
    <2> HIDE DEF x
    <2>4. caller' = [caller EXCEPT ![t] = x] /\ caller'[t] = x
          /\ \A s \in FhtThreads : s # t => caller'[s] = caller[s]
      BY <2>1, CallerSet
    <2>5. Guarded(t)' = {r}
      BY <2>2, <2>4 DEF Guarded
    <2>6. LocksMatch' /\ lock' \in [{Stash} \cup TableRow -> FhtThreads \cup {Free}]
      BY <1>1, <1>2, <1>4, <2>1, <2>4, <2>5, LockTurn
    <2>7. FhtStashed /\ x.key \notin Held(table'[HashRow[x.key]].col)
      BY <1>6, <2>1, <2>2 DEF InRow
    <2> QED
      BY <1>3, <1>4, <2>2, <2>3, <2>4, <2>6, <2>7, Turn
  <1>7. CASE ~InRow(k) /\ ~FhtStashed
    <2>1. FhtInsert(k, replace) /\ UNCHANGED <<lock, caller>>
      BY <1>7 DEF InsertBegin
    <2>2. k \notin Content
      BY <1>1, <1>7, WhereHeld DEF InRow, FhtStore, Sound, StashInOrder
    <2>3. FhtStore' /\ Spared(t)
      BY <1>1, <1>2, <2>1, <2>2, InsertStep
    <2>4. Becomes(t, Idle)
      BY <1>2, <2>1, StaysIdle
    <2> QED
      BY <1>3, <1>4, <2>1, <2>3, <2>4, IdleTurn
  <1> QED
    BY <1>5, <1>6, <1>7

LEMMA InsertSearchInv ==
  ASSUME FhtInv, NEW t \in FhtThreads, InsertSearch(t)
  PROVE  FhtInv'
  <1> DEFINE k == caller[t].key
             r == HashRow[k]
  <1>1. FhtStore /\ FhtCallType /\ LocksMatch
    BY StoreInv
  <1>2. caller[t].pc = "search" /\ UNCHANGED <<table, stash, stashIndex, used, owed, notGiven>>
    BY DEF InsertSearch
  <1>3. k \in FhtKeys /\ r \in TableRow /\ FhtStashed /\ ~InRow(k)
    BY <1>2, RowOfKey DEF FhtInv, CallRight
  <1>4. FhtStore' /\ Spared(t) /\ Content' = Content
    BY <1>1, <1>2, StoreSame
  <1>5. GivenKept
    BY <1>2, <1>4, SameGiven
  <1>6. Guarded(t) = {r}
    BY <1>2 DEF Guarded
  <1>7. CASE k \in Held(stash)
    <2>1. lock' = [lock EXCEPT ![r] = Free] /\ Becomes(t, Idle)
      BY <1>7 DEF InsertSearch
    <2> QED
      BY <1>2, <1>3, <1>4, <1>5, <1>6, <2>1, IdleTurn
  <1>8. CASE k \notin Held(stash)
    <2> DEFINE x == [caller[t] EXCEPT !.pc = "store"]
    <2>1. Becomes(t, x) /\ UNCHANGED lock
      BY <1>8 DEF InsertSearch
    <2>2. caller[t] \in FhtCalls
      BY <1>1 DEF FhtCallType
    <2>3. x \in FhtCalls /\ x.pc = "store" /\ x.key = k
      BY <2>2 DEF FhtCalls
    <2> HIDE DEF x
    <2>4. caller' = [caller EXCEPT ![t] = x] /\ caller'[t] = x
          /\ \A s \in FhtThreads : s # t => caller'[s] = caller[s]
      BY <2>1, CallerSet
    <2>5. Guarded(t)' = {r}
      BY <2>3, <2>4 DEF Guarded
    <2>6. LocksMatch' /\ lock' \in [{Stash} \cup TableRow -> FhtThreads \cup {Free}]
      BY <1>6, <2>1, <2>4, <2>5, KeepTurn
    <2>7. FhtStashed /\ x.key \notin Content'
      BY <1>1, <1>3, <1>4, <1>8, <2>3, WhereHeld DEF InRow
    <2> QED
      BY <1>2, <1>3, <1>4, <1>5, <2>3, <2>4, <2>6, <2>7, Turn
  <1> QED
    BY <1>7, <1>8

LEMMA InsertStoreInv ==
  ASSUME FhtInv, NEW t \in FhtThreads, InsertStore(t)
  PROVE  FhtInv'
  <1> DEFINE k == caller[t].key
             r == HashRow[k]
  <1>1. FhtStore /\ FhtCallType /\ LocksMatch
    BY StoreInv
  <1>2. /\ caller[t].pc = "store" /\ FhtInsert(k, caller[t].replace) /\ NothingGiven
        /\ lock' = [lock EXCEPT ![r] = Free] /\ Becomes(t, Idle)
    BY DEF InsertStore
  <1>3. k \in FhtKeys /\ r \in TableRow /\ k \notin Content
    BY <1>2, RowOfKey DEF FhtInv, CallRight
  <1>4. Guarded(t) = {r}
    BY <1>2 DEF Guarded
  <1>5. lock[r] = t
    BY <1>1, <1>3, <1>4 DEF LocksMatch, FhtCallType
  <1>6. caller[t].replace \in BOOLEAN
    BY <1>1 DEF FhtCallType, FhtCalls
  <1>7. FhtStore' /\ Spared(t)
    BY <1>1, <1>2, <1>3, <1>5, <1>6, InsertStep
  <1>8. GivenKept
    BY <1>1, <1>2, NoneGiven
  <1> QED
    BY <1>2, <1>3, <1>4, <1>7, <1>8, IdleTurn

LEMMA GetInv ==
  ASSUME FhtInv, NEW t \in FhtThreads, NEW k \in FhtKeys, NEW keep \in BOOLEAN, Get(t, k, keep)
  PROVE  FhtInv'
  <1> DEFINE r == HashRow[k]
  <1>1. FhtStore /\ FhtCallType /\ LocksMatch /\ r \in TableRow
    BY StoreInv, RowOfKey
  <1>2. caller[t] = Idle /\ lock[r] = Free /\ UNCHANGED <<stash, stashIndex, owed, notGiven>>
    BY DEF Get
  <1>3. caller[t].pc = "idle" /\ Guarded(t) = {}
    BY <1>2, IdleCall
  <1>4. CASE InRow(k)
    <2>1. Use(k)
      BY <1>4 DEF Get
    <2>2. FhtStore' /\ Spared(t) /\ Content' = Content
      BY <1>1, <1>2, <1>4, <2>1, UseStep
    <2>3. GivenKept
      BY <1>2, <2>2, SameGiven
    <2>4. CASE ~keep
      <3>1. UNCHANGED <<lock, caller>>
        BY <1>4, <2>4 DEF Get
      <3>2. Becomes(t, Idle)
        BY <1>2, <3>1, StaysIdle
      <3> QED
        BY <1>3, <2>2, <2>3, <3>1, <3>2, IdleTurn
    <2>5. CASE keep
      <3> DEFINE x == [Idle EXCEPT !.pc = "holds", !.key = k, !.row = r]
      <3>1. lock' = [lock EXCEPT ![r] = t] /\ Becomes(t, x)
        BY <1>4, <2>5 DEF Get
      <3>2. x \in FhtCalls /\ x.pc = "holds" /\ x.key = k /\ x.row = r
        BY <1>1 DEF Idle, FhtCalls
      <3> HIDE DEF x
      <3>3. caller' = [caller EXCEPT ![t] = x] /\ caller'[t] = x
            /\ \A s \in FhtThreads : s # t => caller'[s] = caller[s]
        BY <3>1, CallerSet
      <3>4. Guarded(t)' = {r}
        BY <3>2, <3>3 DEF Guarded
      <3>5. LocksMatch' /\ lock' \in [{Stash} \cup TableRow -> FhtThreads \cup {Free}]
        BY <1>1, <1>2, <1>3, <3>1, <3>3, <3>4, LockTurn
      <3>6. k \in Held(table'[r].col)
        <4>1. k \in Content' /\ k \notin Held(stash')
          BY <1>1, <1>2, <1>4, <2>2, RowFacts, ContentIn DEF InRow
        <4>2. PICK q \in TableRow : k \in Held(table'[q].col)
          BY <4>1, ContentNext
        <4>3. HashRow[k] = q
          BY <2>2, <4>2 DEF FhtStore, Sound, RowInOrder
        <4> QED
          BY <4>2, <4>3
      <3> QED
        BY <1>3, <2>2, <2>3, <3>2, <3>3, <3>5, <3>6, Turn
    <2> QED
      BY <2>4, <2>5
  <1>5. CASE ~InRow(k)
    <2> DEFINE x == [Idle EXCEPT !.pc = "get", !.key = k]
    <2>1. UNCHANGED <<table, used, lock>> /\ Becomes(t, IF FhtStashed /\ keep THEN x ELSE Idle)
      BY <1>5 DEF Get
    <2>2. FhtStore' /\ Spared(t) /\ Content' = Content
      BY <1>1, <1>2, <2>1, StoreSame
    <2>3. GivenKept
      BY <1>2, <2>2, SameGiven
    <2>4. CASE FhtStashed /\ keep
      <3>1. x \in FhtCalls /\ x.pc = "get" /\ x.key = k /\ x.row = Stash
        BY DEF Idle, FhtCalls
      <3> HIDE DEF x
      <3>2. caller' = [caller EXCEPT ![t] = x] /\ caller'[t] = x
            /\ \A s \in FhtThreads : s # t => caller'[s] = caller[s]
        BY <2>1, <2>4, CallerSet
      <3>3. Guarded(t)' = {}
        BY <3>1, <3>2 DEF Guarded
      <3>4. LocksMatch' /\ lock' \in [{Stash} \cup TableRow -> FhtThreads \cup {Free}]
        BY <1>3, <2>1, <3>2, <3>3, KeepTurn
      <3> QED
        BY <1>3, <2>2, <2>3, <3>1, <3>2, <3>4, Turn
    <2>5. CASE ~(FhtStashed /\ keep)
      <3>1. Becomes(t, Idle)
        BY <2>1, <2>5
      <3> QED
        BY <1>3, <2>1, <2>2, <2>3, <3>1, IdleTurn
    <2> QED
      BY <2>4, <2>5
  <1> QED
    BY <1>4, <1>5

LEMMA GetStashInv ==
  ASSUME FhtInv, NEW t \in FhtThreads, GetStash(t)
  PROVE  FhtInv'
  <1> DEFINE k == caller[t].key
  <1>1. FhtStore /\ FhtCallType /\ LocksMatch
    BY StoreInv
  <1>2. /\ caller[t].pc = "get" /\ lock[Stash] = Free
        /\ UNCHANGED <<table, stash, stashIndex, used, owed, notGiven>>
    BY DEF GetStash
  <1>3. k \in FhtKeys /\ caller[t].row = Stash
    BY <1>2 DEF FhtInv, CallRight
  <1>4. FhtStore' /\ Spared(t) /\ Content' = Content
    BY <1>1, <1>2, StoreSame
  <1>5. GivenKept
    BY <1>2, <1>4, SameGiven
  <1>6. Guarded(t) = {}
    BY <1>2 DEF Guarded
  <1>7. CASE k \notin Held(stash)
    <2>1. UNCHANGED lock /\ Becomes(t, Idle)
      BY <1>7 DEF GetStash
    <2> QED
      BY <1>2, <1>4, <1>5, <1>6, <2>1, IdleTurn
  <1>8. CASE k \in Held(stash)
    <2> DEFINE x == [caller[t] EXCEPT !.pc = "holds"]
    <2>1. Becomes(t, x) /\ lock' = [lock EXCEPT ![Stash] = t]
      BY <1>8 DEF GetStash
    <2>2. caller[t] \in FhtCalls
      BY <1>1 DEF FhtCallType
    <2>3. x \in FhtCalls /\ x.pc = "holds" /\ x.key = k /\ x.row = Stash
      BY <1>3, <2>2 DEF FhtCalls
    <2> HIDE DEF x
    <2>4. caller' = [caller EXCEPT ![t] = x] /\ caller'[t] = x
          /\ \A s \in FhtThreads : s # t => caller'[s] = caller[s]
      BY <2>1, CallerSet
    <2>5. Guarded(t)' = {Stash}
      BY <2>3, <2>4 DEF Guarded
    <2>6. LocksMatch' /\ lock' \in [{Stash} \cup TableRow -> FhtThreads \cup {Free}]
      BY <1>2, <1>6, <2>1, <2>4, <2>5, LockTurn
    <2> QED
      BY <1>2, <1>3, <1>4, <1>5, <1>8, <2>3, <2>4, <2>6, Turn
  <1> QED
    BY <1>7, <1>8

LEMMA HoldsFacts ==
  ASSUME FhtInv, NEW t \in FhtThreads, caller[t].pc = "holds"
  PROVE  /\ caller[t].row \in {Stash} \cup TableRow /\ Guarded(t) = {caller[t].row}
         /\ lock[caller[t].row] = t /\ caller[t].key \in FhtKeys
         /\ caller[t].key \in Held(Place(caller[t].row))
  <1>1. caller[t].row \in {Stash} \cup TableRow
    BY DEF FhtInv, FhtTypeOK, FhtCallType, FhtCalls
  <1>2. Guarded(t) = {caller[t].row}
    BY DEF Guarded
  <1>3. lock[caller[t].row] = t
    BY <1>1, <1>2 DEF FhtInv, LocksMatch, FhtTypeOK, FhtCallType
  <1>4. caller[t].key \in FhtKeys /\ caller[t].key \in Held(Place(caller[t].row))
    BY DEF FhtInv, CallRight
  <1> QED
    BY <1>1, <1>2, <1>3, <1>4

LEMMA UnlockDataInv ==
  ASSUME FhtInv, NEW t \in FhtThreads, UnlockData(t)
  PROVE  FhtInv'
  <1>1. /\ caller[t].pc = "holds" /\ lock' = [lock EXCEPT ![caller[t].row] = Free] /\ Becomes(t, Idle)
        /\ UNCHANGED <<table, stash, stashIndex, used, owed, notGiven>>
    BY DEF UnlockData
  <1>2. FhtStore' /\ Spared(t) /\ Content' = Content
    BY <1>1, StoreInv, StoreSame
  <1>3. GivenKept
    BY <1>1, <1>2, SameGiven
  <1> QED
    BY <1>1, <1>2, <1>3, HoldsFacts, IdleTurn

(* fht_remove_locked and the like take one key out of the stash.           *)
LEMMA UnstashStep ==
  ASSUME FhtStore, NEW t, lock[Stash] \in {Free, t}, NEW k, Unstash(k),
         UNCHANGED <<table, used, stashIndex>>
  PROVE  FhtStore' /\ Spared(t)
  <1> DEFINE gone == {k}
  <1>1. stash' = [i \in Slots |-> IF stash[i] \in gone THEN NoKey ELSE stash[i]]
    BY DEF Unstash
  <1>2. owed' = owed \ (Held(stash) \cap gone)
    BY DEF Unstash
  <1> HIDE DEF gone
  <1> QED
    BY <1>1, <1>2, StashStep

LEMMA RemoveLockedInv ==
  ASSUME FhtInv, NEW t \in FhtThreads, RemoveLocked(t)
  PROVE  FhtInv'
  <1> DEFINE r == caller[t].row
             k == caller[t].key
  <1>1. /\ caller[t].pc = "holds" /\ lock' = [lock EXCEPT ![r] = Free] /\ Becomes(t, Idle)
        /\ UNCHANGED stashIndex /\ NothingGiven
    BY DEF RemoveLocked
  <1>2. /\ r \in {Stash} \cup TableRow /\ Guarded(t) = {r} /\ lock[r] = t
        /\ k \in FhtKeys /\ k \in Held(Place(r))
    BY <1>1, HoldsFacts
  <1>3. FhtStore /\ FhtCallType
    BY StoreInv
  <1>4. FhtStore' /\ Spared(t)
    <2>1. CASE r = Stash
      <3>1. Unstash(k) /\ UNCHANGED <<table, used, stashIndex>>
        BY <1>1, <2>1 DEF RemoveLocked
      <3>2. lock[Stash] \in {Free, t}
        BY <1>2, <2>1
      <3> QED
        BY <1>3, <3>1, <3>2, UnstashStep
    <2>2. CASE r # Stash
      <3>1. TakeOut(r, Column(r, k)) /\ UNCHANGED <<stash, stashIndex>>
        BY <1>1, <2>2 DEF RemoveLocked
      <3>2. r \in TableRow /\ k \in Held(table[r].col)
        BY <1>2, <2>2 DEF Place
      <3>3. Column(r, k) \in Cols /\ table[r].col[Column(r, k)] = k
        BY <1>3, <3>2, RowFacts DEF Column
      <3>4. table[r].col[Column(r, k)] # NoKey /\ lock[r] \in {Free, t}
        BY <1>2, <3>3, NotAKey
      <3> QED
        BY <1>3, <3>1, <3>2, <3>3, <3>4, TakeOutStep
    <2> QED
      BY <2>1, <2>2
  <1>5. GivenKept
    BY <1>1, <1>3, NoneGiven
  <1> QED
    BY <1>1, <1>2, <1>4, <1>5, IdleTurn

LEMMA RemoveBeginInv ==
  ASSUME FhtInv, NEW t \in FhtThreads, NEW k \in FhtKeys, RemoveBegin(t, k)
  PROVE  FhtInv'
  <1> DEFINE r == HashRow[k]
  <1>1. FhtStore /\ FhtCallType /\ LocksMatch /\ r \in TableRow
    BY StoreInv, RowOfKey
  <1>2. caller[t] = Idle /\ lock[r] = Free /\ UNCHANGED <<stash, stashIndex, lock>> /\ NothingGiven
    BY DEF RemoveBegin
  <1>3. caller[t].pc = "idle" /\ Guarded(t) = {}
    BY <1>2, IdleCall
  <1>4. GivenKept
    BY <1>1, <1>2, NoneGiven
  <1>5. CASE InRow(k)
    <2>1. TakeOut(r, Column(r, k)) /\ UNCHANGED caller
      BY <1>5 DEF RemoveBegin
    <2>2. Column(r, k) \in Cols /\ table[r].col[Column(r, k)] = k
      BY <1>1, <1>5, RowFacts DEF Column, InRow
    <2>3. table[r].col[Column(r, k)] # NoKey /\ lock[r] \in {Free, t}
      BY <1>2, <2>2, NotAKey
    <2>4. FhtStore' /\ Spared(t)
      BY <1>1, <1>2, <2>1, <2>2, <2>3, TakeOutStep
    <2>5. Becomes(t, Idle)
      BY <1>2, <2>1, StaysIdle
    <2> QED
      BY <1>2, <1>3, <1>4, <2>4, <2>5, IdleTurn
  <1>6. CASE ~InRow(k)
    <2> DEFINE x == [Idle EXCEPT !.pc = "remove", !.key = k]
    <2>1. UNCHANGED <<table, used, owed>> /\ Becomes(t, IF FhtStashed THEN x ELSE Idle)
      BY <1>6 DEF RemoveBegin
    <2>2. FhtStore' /\ Spared(t)
      BY <1>1, <1>2, <2>1, StoreSame
    <2>3. CASE FhtStashed
      <3>1. x \in FhtCalls /\ x.pc = "remove" /\ x.key = k
        BY DEF Idle, FhtCalls
      <3> HIDE DEF x
      <3>2. caller' = [caller EXCEPT ![t] = x] /\ caller'[t] = x
            /\ \A s \in FhtThreads : s # t => caller'[s] = caller[s]
        BY <2>1, <2>3, CallerSet
      <3>3. Guarded(t)' = {}
        BY <3>1, <3>2 DEF Guarded
      <3>4. LocksMatch' /\ lock' \in [{Stash} \cup TableRow -> FhtThreads \cup {Free}]
        BY <1>2, <1>3, <3>2, <3>3, KeepTurn
      <3> QED
        BY <1>3, <1>4, <2>2, <3>1, <3>2, <3>4, Turn
    <2>4. CASE ~FhtStashed
      <3>1. Becomes(t, Idle)
        BY <2>1, <2>4
      <3> QED
        BY <1>2, <1>3, <1>4, <2>2, <3>1, IdleTurn
    <2> QED
      BY <2>3, <2>4
  <1> QED
    BY <1>5, <1>6

LEMMA RemoveStashInv ==
  ASSUME FhtInv, NEW t \in FhtThreads, RemoveStash(t)
  PROVE  FhtInv'
  <1>1. /\ caller[t].pc = "remove" /\ lock[Stash] = Free /\ Unstash(caller[t].key) /\ Becomes(t, Idle)
        /\ UNCHANGED <<table, stashIndex, used, lock>> /\ NothingGiven
    BY DEF RemoveStash
  <1>2. FhtStore /\ FhtCallType /\ lock[Stash] \in {Free, t}
    BY <1>1, StoreInv
  <1>3. FhtStore' /\ Spared(t)
    BY <1>1, <1>2, UnstashStep
  <1>4. GivenKept
    BY <1>1, <1>2, NoneGiven
  <1>5. Guarded(t) = {}
    BY <1>1 DEF Guarded
  <1> QED
    BY <1>1, <1>3, <1>4, <1>5, IdleTurn

LEMMA FhtClearInv ==
  ASSUME FhtInv, NEW t \in FhtThreads, FhtClear(t)
  PROVE  FhtInv'
  <1> DEFINE r == IF caller[t] = Idle THEN 1 ELSE caller[t].row + 1
  <1>1. FhtStore /\ FhtCallType /\ LocksMatch
    BY StoreInv
  <1>2. /\ caller[t] = Idle \/ caller[t].pc = "clear"
        /\ lock[IF r > TableRows THEN Stash ELSE r] = Free
        /\ UNCHANGED <<stashIndex, lock>> /\ NothingGiven
    BY DEF FhtClear
  <1>3. caller[t].pc \in {"idle", "clear"} /\ Guarded(t) = {}
    BY <1>2, IdleCall DEF Guarded
  <1>4. GivenKept
    BY <1>1, <1>2, NoneGiven
  <1>5. TableRows \in Nat \ {0} /\ caller[t].row \in {0} \cup 1 .. TableRows
    BY <1>1, FhtAssumption DEF FhtCallType, FhtCalls, TableRow, Stash
  <1>6. r \in Nat /\ r >= 1
    BY <1>5
  <1>7. CASE r > TableRows
    <2>1. /\ stash' = [i \in Slots |-> NoKey] /\ owed' = owed \ Held(stash)
          /\ Becomes(t, Idle) /\ UNCHANGED <<table, used>>
      BY <1>7 DEF FhtClear
    <2> DEFINE gone == FhtKeys
    <2>2. stash' = [i \in Slots |-> IF stash[i] \in gone THEN NoKey ELSE stash[i]]
      <3>1. \A i \in Slots : stash[i] \in gone \/ stash[i] = NoKey
        BY <1>1 DEF FhtStore, FhtStoreType
      <3> QED
        BY <2>1, <3>1
    <2>3. owed' = owed \ (Held(stash) \cap gone)
      BY <1>1, <2>1, HeldKeys DEF FhtStore
    <2> HIDE DEF gone
    <2>4. lock[Stash] \in {Free, t}
      BY <1>2, <1>7
    <2>5. FhtStore' /\ Spared(t)
      BY <1>1, <1>2, <2>1, <2>2, <2>3, <2>4, StashStep
    <2> QED
      BY <1>2, <1>3, <1>4, <2>1, <2>5, IdleTurn
  <1>8. CASE ~(r > TableRows)
    <2> DEFINE x == [Idle EXCEPT !.pc = "clear", !.row = r]
    <2>1. /\ table' = [table EXCEPT ![r].col = [c \in Cols |-> NoKey]]
          /\ used' = [used EXCEPT ![r] = {}] /\ owed' = owed \ Held(table[r].col)
          /\ Becomes(t, x) /\ UNCHANGED stash
      BY <1>8 DEF FhtClear
    <2>2. r \in TableRow /\ lock[r] = Free
      BY <1>2, <1>5, <1>6, <1>8 DEF TableRow
    <2>3. x \in FhtCalls /\ x.pc = "clear"
      BY <2>2 DEF Idle, FhtCalls
    <2> HIDE DEF x, r
    <2>4. lock[r] \in {Free, t}
      BY <2>2
    <2>5. FhtStore' /\ Spared(t)
      BY <1>1, <1>2, <2>1, <2>2, <2>4, ClearRowStep
    <2>6. caller' = [caller EXCEPT ![t] = x] /\ caller'[t] = x
          /\ \A s \in FhtThreads : s # t => caller'[s] = caller[s]
      BY <2>1, CallerSet
    <2>7. Guarded(t)' = {}
      BY <2>3, <2>6 DEF Guarded
    <2>8. LocksMatch' /\ lock' \in [{Stash} \cup TableRow -> FhtThreads \cup {Free}]
      BY <1>2, <1>3, <2>6, <2>7, KeepTurn
    <2> QED
      BY <1>3, <1>4, <2>3, <2>5, <2>6, <2>8, Turn
  <1> QED
    BY <1>7, <1>8

-----------------------------------------------------------------------------
(* The iterator stands on the next item of a place, or goes on.            *)
LEMMA NextColumn ==
  ASSUME FhtStore, NEW r \in {Stash} \cup TableRow, NEW c
  PROVE  LET d == NextCol(r, c) IN
         /\ d # 0 => /\ d \in DOMAIN Place(r) /\ d > c /\ Place(r)[d] # NoKey
                     /\ \A e \in DOMAIN Place(r) : e > c /\ Place(r)[e] # NoKey => d <= e
         /\ d = 0 => \A e \in DOMAIN Place(r) : ~(e > c /\ Place(r)[e] # NoKey)
  <1> DEFINE after == {d \in DOMAIN Place(r) : d > c /\ Place(r)[d] # NoKey}
  <1>1. DOMAIN Place(r) \subseteq Nat \ {0}
    <2>1. DOMAIN stash = Slots /\ \A q \in TableRow : DOMAIN table[q].col = Cols
      BY DEF FhtStore, FhtStoreType
    <2> QED
      BY <2>1, FhtAssumption DEF Place, Slots, Cols
  <1>2. after \in SUBSET Nat /\ 0 \notin after
    BY <1>1
  <1>3. NextCol(r, c) = IF after = {} THEN 0 ELSE CHOOSE d \in after : \A e \in after : d <= e
    BY DEF NextCol
  <1>4. after # {} => NextCol(r, c) \in after /\ \A e \in after : NextCol(r, c) <= e
    <2>1. ASSUME after # {} PROVE \E d \in after : \A e \in after : d <= e
      BY <1>2, <2>1, LeastIn
    <2> HIDE DEF after
    <2> QED
      BY <1>3, <2>1
  <1>5. after = {} => NextCol(r, c) = 0
    BY <1>3
  <1> QED
    BY <1>2, <1>4, <1>5

(* What CallRight says of a thread that iterates, or has done so.          *)
LEMMA IteratingRight ==
  ASSUME NEW t \in FhtThreads, caller'[t].pc \in {"idle", "scan", "iter", "end"},
         (caller[t].pc = "scan" => caller[t].col = 0)',
         (caller[t].pc = "iter" => caller[t].col \in DOMAIN Place(caller[t].row))',
         (notGiven[t] \subseteq IF caller[t].pc \in {"scan", "iter"}
                                  THEN Later(caller[t].row, caller[t].col) ELSE {})'
  PROVE  CallRight(t)'
  <1>1. (caller[t].pc \in {"search", "store", "get", "remove", "holds"} => caller[t].key \in FhtKeys)'
    OBVIOUS
  <1>2. (caller[t].pc = "search" => FhtStashed /\ ~InRow(caller[t].key))'
    OBVIOUS
  <1>3. (caller[t].pc = "store" => FhtStashed /\ caller[t].key \notin Content)'
    OBVIOUS
  <1>4. (caller[t].pc = "holds" =>
           /\ caller[t].key \in Held(Place(caller[t].row))
           /\ caller[t].row # Stash => caller[t].row = HashRow[caller[t].key])'
    OBVIOUS
  <1>5. (caller[t].pc = "get" => caller[t].row = Stash)'
    OBVIOUS
  <1> QED
    BY <1>1, <1>2, <1>3, <1>4, <1>5 DEF CallRight

(* The thread t iterates on from place r, which it has or takes.           *)
LEMMA GoOnInv ==
  ASSUME FhtInv, NEW t \in FhtThreads, caller[t].pc \in {"scan", "iter"},
         UNCHANGED <<table, stash, stashIndex, used, owed>>,
         NEW r, r = caller[t].row, NEW c, c = caller[t].col,
         lock[r] \in {Free, t}, Guarded(t) \subseteq {r}, GoOn(t, r, c)
  PROVE  FhtInv'
  <1> DEFINE d == NextCol(r, c)
  <1>1. FhtStore /\ FhtCallType /\ LocksMatch
    BY StoreInv
  <1>2. FhtStore' /\ Spared(t) /\ Content' = Content
    BY <1>1, StoreSame
  <1>3. r \in {Stash} \cup TableRow /\ caller[t] \in FhtCalls /\ Stash \notin TableRow
    BY <1>1 DEF FhtCallType, FhtCalls, Stash, TableRow
  <1>4. \A q, e : Later(q, e)' = Later(q, e) /\ (Place(q))' = Place(q)
    BY DEF Later, Place
  <1>5. notGiven[t] \subseteq Later(r, c)
    BY DEF FhtInv, CallRight
  <1>6. Free # t
    BY FhtAssumption DEF Free
  <1>7. ASSUME NEW x \in FhtCalls, Becomes(t, x), NEW y \in {Free, t}, lock' = [lock EXCEPT ![r] = y],
               Guarded(t)' = IF y = t THEN {r} ELSE {}, GivenKept,
               x.pc \in {"scan", "iter", "end"},
               x.pc = "scan" => x.col = 0,
               x.pc = "iter" => x.col \in DOMAIN Place(x.row),
               notGiven'[t] \subseteq IF x.pc \in {"scan", "iter"} THEN Later(x.row, x.col) ELSE {}
        PROVE  FhtInv'
    <2>1. caller' = [caller EXCEPT ![t] = x] /\ caller'[t] = x
          /\ \A s \in FhtThreads : s # t => caller'[s] = caller[s]
      BY <1>7, CallerSet
    <2>2. LocksMatch'
      BY <1>1, <1>3, <1>7, <2>1, LocksFollow
    <2>3. FhtCallType'
      BY <1>1, <1>7, <2>1 DEF FhtCallType, GivenKept
    <2>4. caller'[t].pc \in {"idle", "scan", "iter", "end"}
      BY <1>7, <2>1
    <2>5. (caller[t].pc = "iter" => caller[t].col \in DOMAIN Place(caller[t].row))'
          /\ (caller[t].pc = "scan" => caller[t].col = 0)'
      BY <1>7, <2>1 DEF Place
    <2>6. (notGiven[t] \subseteq IF caller[t].pc \in {"scan", "iter"}
                                   THEN Later(caller[t].row, caller[t].col) ELSE {})'
      <3>1. Later(caller[t].row, caller[t].col)' = Later(x.row, x.col)
        BY <2>1 DEF Later, Place
      <3> QED
        BY <1>7, <2>1, <3>1
    <2>7. CallRight(t)'
      BY <2>4, <2>5, <2>6, IteratingRight
    <2> QED
      BY <1>2, <1>7, <2>1, <2>2, <2>3, <2>7, StepRight DEF GivenKept
  <1>8. CASE d # 0
    <2> DEFINE x == [Idle EXCEPT !.pc = "iter", !.row = r, !.col = d]
               k == Place(r)[d]
    <2>1. /\ lock' = [lock EXCEPT ![r] = t] /\ Becomes(t, x)
          /\ Missing([s \in FhtThreads |-> IF s = t THEN {k} ELSE {}])
      BY <1>8 DEF GoOn
    <2>2. /\ d \in DOMAIN Place(r) /\ d > c /\ k # NoKey
          /\ \A e \in DOMAIN Place(r) : e > c /\ Place(r)[e] # NoKey => d <= e
      BY <1>1, <1>3, <1>8, NextColumn
    <2>3. DOMAIN Place(r) \subseteq Nat
      <3>1. DOMAIN stash = Slots /\ \A q \in TableRow : DOMAIN table[q].col = Cols
        BY <1>1 DEF FhtStore, FhtStoreType
      <3> QED
        BY <1>3, <3>1, FhtAssumption DEF Place, Slots, Cols
    <2>4. x \in FhtCalls /\ x.pc = "iter" /\ x.row = r /\ x.col = d
      BY <1>3, <2>2, <2>3 DEF Idle, FhtCalls
    <2>5. \A s \in FhtThreads : notGiven'[s] = (notGiven[s] \cap Content') \ (IF s = t THEN {k} ELSE {})
      BY <2>1 DEF Missing
    <2>6. GivenKept
      <3>1. notGiven' \in [FhtThreads -> SUBSET FhtKeys]
        BY <1>1, <2>1 DEF Missing, FhtCallType
      <3> QED
        BY <2>5, <3>1 DEF GivenKept
    <2> HIDE DEF x, d
    <2>7. ASSUME NEW l \in notGiven'[t] PROVE l \in Later(r, d)
      <3>1. l \in notGiven[t] /\ l # k
        BY <2>5, <2>7
      <3>2. l \in Later(r, c) /\ l \in FhtKeys
        BY <1>5, <3>1 DEF Later
      <3>3. CASE \E e \in DOMAIN Place(r) : e > c /\ Place(r)[e] = l
        <4>1. PICK e \in DOMAIN Place(r) : e > c /\ Place(r)[e] = l
          BY <3>3
        <4>2. d <= e /\ e # d
          BY <2>2, <3>1, <3>2, <4>1, NotAKey
        <4>3. e > d
          BY <2>2, <2>3, <4>1, <4>2
        <4> QED
          BY <3>2, <4>1, <4>3 DEF Later
      <3>4. CASE r # Stash /\ (l \in Held(stash) \/ \E q \in TableRow : q > r /\ l \in Held(table[q].col))
        BY <3>2, <3>4 DEF Later
      <3> QED
        BY <3>2, <3>3, <3>4 DEF Later
    <2>8. caller'[t] = x
      BY <2>1, CallerSet
    <2>9. Guarded(t)' = {r}
      BY <2>4, <2>8 DEF Guarded
    <2> HIDE DEF k
    <2>10. t \in {Free, t} /\ Guarded(t)' = IF t = t THEN {r} ELSE {}
      BY <2>9
    <2>11. notGiven'[t] \subseteq IF x.pc \in {"scan", "iter"} THEN Later(x.row, x.col) ELSE {}
      BY <2>4, <2>7
    <2>12. /\ x.pc \in {"scan", "iter", "end"} /\ (x.pc = "scan" => x.col = 0)
           /\ (x.pc = "iter" => x.col \in DOMAIN Place(x.row))
      BY <2>2, <2>4
    <2> QED
      BY <1>7, <2>1, <2>4, <2>6, <2>10, <2>11, <2>12
  <1>9. CASE d = 0
    <2> DEFINE x == IF r = Stash THEN [Idle EXCEPT !.pc = "end"]
                    ELSE [Idle EXCEPT !.pc = "scan", !.row = IF r = TableRows THEN Stash ELSE r + 1]
    <2>1. lock' = [lock EXCEPT ![r] = Free] /\ Becomes(t, x) /\ NothingGiven
      BY <1>9 DEF GoOn
    <2>2. \A e \in DOMAIN Place(r) : ~(e > c /\ Place(r)[e] # NoKey)
      BY <1>1, <1>3, <1>9, NextColumn
    <2>3. GivenKept
      BY <1>1, <2>1, NoneGiven
    <2>4. TableRows \in Nat \ {0} /\ TableRow = 1 .. TableRows /\ Stash = 0
      BY FhtAssumption DEF TableRow, Stash
    <2>5. r # Stash => r \in TableRow /\ (r # TableRows => r + 1 \in TableRow)
      BY <1>3, <2>4
    <2>6. r = Stash => x \in FhtCalls /\ x.pc = "end"
      BY DEF Idle, FhtCalls
    <2>7. r # Stash => /\ x \in FhtCalls /\ x.pc = "scan" /\ x.col = 0
                       /\ x.row = IF r = TableRows THEN Stash ELSE r + 1
      BY <2>5 DEF Idle, FhtCalls
    <2> HIDE DEF x, d
    <2>8. ASSUME NEW l \in notGiven'[t]
          PROVE  r # Stash /\ l \in Later(x.row, 0)
      <3>1. l \in Later(r, c) /\ l \in FhtKeys /\ l # NoKey
        BY <1>5, <2>3, <2>8, NotAKey DEF GivenKept, Later
      <3>2. r # Stash /\ (l \in Held(stash) \/ \E q \in TableRow : q > r /\ l \in Held(table[q].col))
        BY <2>2, <3>1 DEF Later
      <3>3. DOMAIN stash = Slots /\ \A i \in Slots : i > 0
        BY <1>1, FhtAssumption DEF FhtStore, FhtStoreType, Slots
      <3>4. l \in Held(stash) => \E i \in DOMAIN stash : i > 0 /\ stash[i] = l
        BY <3>3, HeldIn
      <3>5. CASE r = TableRows
        <4>1. l \in Held(stash)
          BY <2>4, <3>2, <3>5
        <4>2. x.row = Stash /\ Place(Stash) = stash
          BY <2>7, <3>2, <3>5 DEF Place
        <4> QED
          BY <3>1, <3>2, <3>4, <4>1, <4>2 DEF Later
      <3>6. CASE r # TableRows
        <4>1. x.row = r + 1 /\ r + 1 \in TableRow /\ r + 1 # Stash /\ r \in Nat
          BY <2>4, <2>5, <2>7, <3>2, <3>6
        <4>2. CASE l \in Held(stash)
          BY <3>1, <3>2, <4>1, <4>2 DEF Later
        <4>3. CASE \E q \in TableRow : q > r /\ l \in Held(table[q].col)
          <5>1. PICK q \in TableRow : q > r /\ l \in Held(table[q].col)
            BY <4>3
          <5>2. CASE q = r + 1
            <6>1. DOMAIN table[q].col = Cols /\ \A e \in Cols : e > 0
              BY <1>1 DEF FhtStore, FhtStoreType, Cols
            <6>2. \E e \in DOMAIN table[q].col : e > 0 /\ table[q].col[e] = l
              BY <5>1, <6>1, HeldIn
            <6>3. Place(x.row) = table[q].col
              BY <4>1, <5>2 DEF Place
            <6> QED
              BY <3>1, <3>2, <6>2, <6>3 DEF Later
          <5>3. CASE q > r + 1
            BY <3>1, <3>2, <4>1, <5>1, <5>3 DEF Later
          <5>4. q = r + 1 \/ q > r + 1
            BY <2>4, <4>1, <5>1
          <5> QED
            BY <5>2, <5>3, <5>4
        <4> QED
          BY <3>2, <4>2, <4>3
      <3> QED
        BY <3>2, <3>5, <3>6
    <2>9. caller'[t] = x
      BY <2>1, CallerSet
    <2>10. Guarded(t)' = {}
      BY <2>6, <2>7, <2>9 DEF Guarded
    <2> DEFINE y == Free
    <2>11. y \in {Free, t} /\ lock' = [lock EXCEPT ![r] = y] /\ Guarded(t)' = IF y = t THEN {r} ELSE {}
      BY <1>6, <2>1, <2>10
    <2>12. x \in FhtCalls /\ x.pc \in {"scan", "end"} /\ (x.pc = "scan" => x.col = 0)
      BY <2>6, <2>7
    <2>13. notGiven'[t] \subseteq IF x.pc \in {"scan", "iter"} THEN Later(x.row, x.col) ELSE {}
      BY <2>7, <2>8
    <2> HIDE DEF y
    <2> QED
      BY <1>7, <2>1, <2>3, <2>11, <2>12, <2>13
  <1> QED
    BY <1>8, <1>9

LEMMA IterFacts ==
  ASSUME FhtInv, NEW t \in FhtThreads
  PROVE  /\ caller[t].row \in {Stash} \cup TableRow
         /\ caller[t].pc = "scan" => Guarded(t) = {} /\ caller[t].col = 0
         /\ caller[t].pc = "iter" => /\ Guarded(t) = {caller[t].row} /\ lock[caller[t].row] = t
                                     /\ caller[t].col \in DOMAIN Place(caller[t].row)
         /\ caller[t].pc = "end" => Guarded(t) = {}
  <1>1. caller[t].row \in {Stash} \cup TableRow
    BY DEF FhtInv, FhtTypeOK, FhtCallType, FhtCalls
  <1>2. caller[t].pc = "scan" => Guarded(t) = {} /\ caller[t].col = 0
    BY DEF Guarded, FhtInv, CallRight
  <1>3. caller[t].pc = "iter" => Guarded(t) = {caller[t].row}
    BY DEF Guarded
  <1>4. caller[t].pc = "iter" => lock[caller[t].row] = t
    BY <1>1, <1>3 DEF FhtInv, LocksMatch, FhtTypeOK, FhtCallType
  <1>5. caller[t].pc = "iter" => caller[t].col \in DOMAIN Place(caller[t].row)
    BY DEF FhtInv, CallRight
  <1>6. caller[t].pc = "end" => Guarded(t) = {}
    BY DEF Guarded
  <1> QED
    BY <1>1, <1>2, <1>3, <1>4, <1>5, <1>6

LEMMA IterScanInv ==
  ASSUME FhtInv, NEW t \in FhtThreads, IterScan(t)
  PROVE  FhtInv'
  <1>1. /\ caller[t].pc = "scan" /\ lock[caller[t].row] = Free
        /\ UNCHANGED <<table, stash, stashIndex, used, owed>> /\ GoOn(t, caller[t].row, 0)
    BY DEF IterScan
  <1>2. Guarded(t) = {} /\ caller[t].col = 0
    BY <1>1, IterFacts
  <1>3. PICK r, c : r = caller[t].row /\ c = caller[t].col
    OBVIOUS
  <1> QED
    BY <1>1, <1>2, <1>3, GoOnInv

LEMMA IterNextInv ==
  ASSUME FhtInv, NEW t \in FhtThreads, IterNext(t)
  PROVE  FhtInv'
  <1>1. /\ caller[t].pc = "iter" /\ GoOn(t, caller[t].row, caller[t].col)
        /\ UNCHANGED <<table, stash, stashIndex, used, owed>>
    BY DEF IterNext
  <1>2. Guarded(t) = {caller[t].row} /\ lock[caller[t].row] = t
    BY <1>1, IterFacts
  <1>3. PICK r, c : r = caller[t].row /\ c = caller[t].col
    OBVIOUS
  <1> QED
    BY <1>1, <1>2, <1>3, GoOnInv

LEMMA IterStartInv ==
  ASSUME FhtInv, NEW t \in FhtThreads, IterStart(t)
  PROVE  FhtInv'
  <1> DEFINE x == [Idle EXCEPT !.pc = "scan", !.row = 1]
  <1>1. /\ caller[t] = Idle /\ Becomes(t, x) /\ notGiven' = [notGiven EXCEPT ![t] = Content]
        /\ UNCHANGED <<table, stash, stashIndex, lock, used, owed>>
    BY DEF IterStart
  <1>2. FhtStore /\ FhtCallType /\ LocksMatch
    BY StoreInv
  <1>3. FhtStore' /\ Spared(t) /\ Content' = Content
    BY <1>1, <1>2, StoreSame
  <1>4. Guarded(t) = {}
    BY <1>1, IdleCall
  <1>5. 1 \in TableRow /\ Stash # 1 /\ TableRow \subseteq Nat \ {0}
    BY FhtAssumption DEF TableRow, Stash
  <1>6. x \in FhtCalls /\ x.pc = "scan" /\ x.row = 1 /\ x.col = 0
    BY <1>5 DEF Idle, FhtCalls
  <1> HIDE DEF x
  <1>7. caller' = [caller EXCEPT ![t] = x] /\ caller'[t] = x
        /\ \A s \in FhtThreads : s # t => caller'[s] = caller[s]
    BY <1>1, CallerSet
  <1>8. Guarded(t)' = {}
    BY <1>6, <1>7 DEF Guarded
  <1>9. LocksMatch' /\ lock' \in [{Stash} \cup TableRow -> FhtThreads \cup {Free}]
    BY <1>1, <1>4, <1>7, <1>8, KeepTurn
  <1>10. Content \subseteq FhtKeys
    BY <1>2, HeldKeys DEF FhtStore
  <1>11. notGiven'[t] = Content /\ notGiven' \in [FhtThreads -> SUBSET FhtKeys]
         /\ \A s \in FhtThreads : s # t => notGiven'[s] = notGiven[s]
    BY <1>1, <1>2, <1>10 DEF FhtCallType
  <1>12. FhtCallType'
    BY <1>2, <1>6, <1>7, <1>9, <1>11 DEF FhtCallType
  <1>13. Content \subseteq Later(1, 0)
    <2> SUFFICES ASSUME NEW k \in Content PROVE k \in Later(1, 0)
      OBVIOUS
    <2>1. k \in FhtKeys
      BY <1>10
    <2>2. CASE k \in Held(stash)
      BY <1>5, <2>1, <2>2 DEF Later
    <2>3. CASE \E q \in TableRow : k \in Held(table[q].col)
      <3>1. PICK q \in TableRow : k \in Held(table[q].col)
        BY <2>3
      <3>2. CASE q = 1
        <4>1. DOMAIN table[1].col = Cols /\ \A e \in Cols : e > 0
          BY <1>2, <1>5 DEF FhtStore, FhtStoreType, Cols
        <4>2. \E e \in DOMAIN table[1].col : e > 0 /\ table[1].col[e] = k
          BY <3>1, <3>2, <4>1, HeldIn
        <4>3. Place(1) = table[1].col
          BY <1>5 DEF Place
        <4> QED
          BY <2>1, <4>2, <4>3 DEF Later
      <3>3. CASE q # 1
        <4>1. q > 1
          BY <1>5, <3>3
        <4> QED
          BY <1>5, <2>1, <3>1, <4>1 DEF Later
      <3> QED
        BY <3>2, <3>3
    <2> QED
      BY <2>2, <2>3, ContentIn
  <1>14. CallRight(t)'
    <2>1. caller'[t].pc \in {"idle", "scan", "iter", "end"}
          /\ (caller[t].pc = "iter" => caller[t].col \in DOMAIN Place(caller[t].row))'
          /\ (caller[t].pc = "scan" => caller[t].col = 0)'
      BY <1>6, <1>7
    <2>2. (notGiven[t] \subseteq IF caller[t].pc \in {"scan", "iter"}
                                   THEN Later(caller[t].row, caller[t].col) ELSE {})'
      <3>1. Later(caller[t].row, caller[t].col)' = Later(1, 0)
        BY <1>1, <1>6, <1>7 DEF Later, Place
      <3> QED
        BY <1>6, <1>7, <1>11, <1>13, <3>1
    <2> QED
      BY <2>1, <2>2, IteratingRight
  <1>15. ASSUME NEW s \in FhtThreads, s # t PROVE notGiven'[s] \subseteq notGiven[s] \cap Content'
    <2>1. CallRight(s) /\ caller[s].row \in {Stash} \cup TableRow
      BY <1>2 DEF FhtInv, FhtCallType, FhtCalls
    <2>2. Later(caller[s].row, caller[s].col) \subseteq Content
      BY <1>2, <2>1, LaterHeld
    <2>3. notGiven[s] \subseteq Content
      BY <2>1, <2>2 DEF CallRight
    <2> QED
      BY <1>3, <1>11, <1>15, <2>3
  <1> QED
    BY <1>3, <1>7, <1>9, <1>12, <1>14, <1>15, StepRight

LEMMA IterRemoveInv ==
  ASSUME FhtInv, NEW t \in FhtThreads, IterRemove(t)
  PROVE  FhtInv'
  <1>1. PICK r, c : r = caller[t].row /\ c = caller[t].col
    OBVIOUS
  <1>2. /\ caller[t].pc = "iter" /\ Place(r)[c] # NoKey
        /\ UNCHANGED <<stashIndex, lock, caller>> /\ NothingGiven
    BY <1>1 DEF IterRemove
  <1>3. FhtStore /\ FhtCallType /\ LocksMatch
    BY StoreInv
  <1>4. r \in {Stash} \cup TableRow /\ lock[r] = t /\ c \in DOMAIN Place(r)
    BY <1>1, <1>2, IterFacts
  <1>5. Stash \notin TableRow
    BY DEF Stash, TableRow
  <1>6. notGiven[t] \subseteq Later(r, c)
    BY <1>1, <1>2 DEF FhtInv, CallRight
  <1>7. GivenKept
    BY <1>2, <1>3, NoneGiven
  <1>8. FhtStore' /\ Spared(t) /\ DOMAIN (Place(r))' = DOMAIN Place(r)
        /\ \A k \in Later(r, c) \cap Content' : k \in Later(r, c)'
    <2>1. CASE r = Stash
      <3> DEFINE gone == stash[c]
      <3>1. Unstash(gone) /\ UNCHANGED <<table, used, stashIndex>>
        BY <1>1, <1>2, <2>1 DEF IterRemove
      <3>2. lock[Stash] \in {Free, t}
        BY <1>4, <2>1
      <3>3. FhtStore' /\ Spared(t)
        BY <1>3, <3>1, <3>2, UnstashStep
      <3>4. (Place(r))' = stash' /\ Place(r) = stash /\ DOMAIN stash = Slots /\ DOMAIN stash' = Slots
        BY <1>3, <2>1, <3>3 DEF Place, FhtStore, FhtStoreType
      <3>5. ASSUME NEW k \in Later(r, c), k \in Content' PROVE k \in Later(r, c)'
        <4>1. k \in FhtKeys /\ \E d \in Slots : d > c /\ stash[d] = k
          BY <2>1, <3>4, <3>5 DEF Later
        <4>2. k # gone
          <5>1. owed' = owed \ (Held(stash) \cap {gone})
            BY <3>1 DEF Unstash
          <5>2. k \in Held(stash)
            BY <3>4, <4>1, NotAKey, HeldIn
          <5> QED
            BY <3>3, <3>5, <5>1, <5>2 DEF FhtStore
        <4>3. \A d \in Slots : stash'[d] = IF stash[d] = gone THEN NoKey ELSE stash[d]
          BY <3>1 DEF Unstash
        <4>4. \E d \in Slots : d > c /\ stash'[d] = k
          BY <4>1, <4>2, <4>3
        <4> QED
          BY <3>4, <4>1, <4>4 DEF Later
      <3> QED
        BY <3>3, <3>4, <3>5
    <2>2. CASE r # Stash
      <3>1. TakeOut(r, c) /\ UNCHANGED <<stash, stashIndex>>
        BY <1>1, <1>2, <2>2 DEF IterRemove
      <3>2. r \in TableRow /\ Place(r) = table[r].col /\ DOMAIN table[r].col = Cols
        BY <1>3, <1>4, <2>2 DEF Place, FhtStore, FhtStoreType
      <3>3. c \in Cols /\ table[r].col[c] # NoKey /\ lock[r] \in {Free, t}
        BY <1>2, <1>4, <3>2
      <3>4. /\ FhtStore' /\ Spared(t)
            /\ \A d \in Cols : d # c => table'[r].col[d] = table[r].col[d]
            /\ \A q \in TableRow : q # r => table'[q] = table[q]
        BY <1>3, <3>1, <3>2, <3>3, TakeOutStep
      <3>5. (Place(r))' = table'[r].col /\ DOMAIN table'[r].col = Cols
        BY <2>2, <3>2, <3>4 DEF Place, FhtStore, FhtStoreType
      <3>6. ASSUME NEW k \in Later(r, c), k \in Content' PROVE k \in Later(r, c)'
        <4>1. k \in FhtKeys
          BY <3>6 DEF Later
        <4>2. CASE \E d \in DOMAIN Place(r) : d > c /\ Place(r)[d] = k
          <5>1. PICK d \in Cols : d > c /\ table[r].col[d] = k
            BY <3>2, <4>2
          <5>2. d # c
            BY <3>3, <5>1 DEF Cols
          <5>3. \E e \in Cols : e > c /\ table'[r].col[e] = k
            BY <3>4, <5>1, <5>2
          <5> QED
            BY <3>5, <4>1, <5>3 DEF Later
        <4>3. CASE k \in Held(stash)
          BY <2>2, <3>1, <4>1, <4>3 DEF Later
        <4>4. CASE \E q \in TableRow : q > r /\ k \in Held(table[q].col)
          <5>1. PICK q \in TableRow : q > r /\ k \in Held(table[q].col)
            BY <4>4
          <5>2. table'[q] = table[q]
            <6>1. q # r
              BY <3>2, <5>1, FhtAssumption DEF TableRow
            <6> QED
              BY <3>4, <6>1
          <5>3. \E p \in TableRow : p > r /\ k \in Held(table'[p].col)
            BY <5>1, <5>2
          <5> QED
            BY <2>2, <4>1, <5>3 DEF Later
        <4> QED
          BY <3>6, <4>2, <4>3, <4>4 DEF Later
      <3> QED
        BY <3>2, <3>4, <3>5, <3>6
    <2> QED
      BY <2>1, <2>2
  <1>9. FhtCallType'
    BY <1>2, <1>3, <1>7 DEF FhtCallType, GivenKept
  <1>10. LocksMatch'
    <2>1. Guarded(t)' = Guarded(t)
      BY <1>2 DEF Guarded
    <2> QED
      BY <1>2, <1>3, <2>1, LocksStay
  <1>11. CallRight(t)'
    <2>1. caller'[t].pc \in {"idle", "scan", "iter", "end"}
          /\ (caller[t].pc = "scan" => caller[t].col = 0)'
      BY <1>2
    <2>2. (caller[t].pc = "iter" => caller[t].col \in DOMAIN Place(caller[t].row))'
      <3>1. (Place(caller[t].row))' = (Place(r))'
        BY <1>1, <1>2 DEF Place
      <3> QED
        BY <1>1, <1>2, <1>4, <1>8, <3>1
    <2>3. (notGiven[t] \subseteq IF caller[t].pc \in {"scan", "iter"}
                                   THEN Later(caller[t].row, caller[t].col) ELSE {})'
      <3>1. Later(caller[t].row, caller[t].col)' = Later(r, c)'
        BY <1>1, <1>2 DEF Later, Place
      <3>2. notGiven'[t] \subseteq Later(r, c)'
        BY <1>6, <1>7, <1>8 DEF GivenKept
      <3> QED
        BY <1>2, <3>1, <3>2
    <2> QED
      BY <2>1, <2>2, <2>3, IteratingRight
  <1> QED
    BY <1>2, <1>7, <1>8, <1>9, <1>10, <1>11, StepRight DEF GivenKept

LEMMA IterEndInv ==
  ASSUME FhtInv, NEW t \in FhtThreads, IterEnd(t)
  PROVE  FhtInv'
  <1>1. /\ caller[t].pc \in {"iter", "end"} /\ Becomes(t, Idle) /\ notGiven' = [notGiven EXCEPT ![t] = {}]
        /\ lock' = IF caller[t].pc = "iter" THEN [lock EXCEPT ![caller[t].row] = Free] ELSE lock
        /\ UNCHANGED <<table, stash, stashIndex, used, owed>>
    BY DEF IterEnd
  <1>2. FhtStore /\ FhtCallType /\ LocksMatch
    BY StoreInv
  <1>3. FhtStore' /\ Spared(t) /\ Content' = Content
    BY <1>1, <1>2, StoreSame
  <1>4. Idle \in FhtCalls /\ Idle.pc = "idle"
    BY DEF Idle, FhtCalls
  <1>5. caller' = [caller EXCEPT ![t] = Idle] /\ caller'[t] = Idle
        /\ \A s \in FhtThreads : s # t => caller'[s] = caller[s]
    BY <1>1, CallerSet
  <1>6. Guarded(t)' = {}
    BY <1>4, <1>5 DEF Guarded
  <1>7. LocksMatch'
    <2>1. CASE caller[t].pc = "iter"
      <3>1. PICK r \in {Stash} \cup TableRow : r = caller[t].row
        BY IterFacts
      <3>2. Guarded(t) = {r} /\ lock[r] = t /\ lock' = [lock EXCEPT ![r] = Free]
        BY <1>1, <2>1, <3>1, IterFacts
      <3> DEFINE y == Free
      <3>3. y \in {Free, t} /\ lock' = [lock EXCEPT ![r] = y] /\ Guarded(t)' = IF y = t THEN {r} ELSE {}
        BY <1>6, <3>2, FhtAssumption DEF Free
      <3>4. lock[r] \in {Free, t} /\ Guarded(t) \subseteq {r}
        BY <3>2
      <3> HIDE DEF y
      <3> QED
        BY <1>2, <1>5, <3>3, <3>4, LocksFollow
    <2>2. CASE caller[t].pc = "end"
      <3>1. UNCHANGED lock /\ Guarded(t)' = Guarded(t)
        BY <1>1, <1>6, <2>2, IterFacts
      <3> QED
        BY <1>2, <1>5, <3>1, LocksStay
    <2> QED
      BY <1>1, <2>1, <2>2
  <1>8. notGiven'[t] = {} /\ notGiven' \in [FhtThreads -> SUBSET FhtKeys]
        /\ \A s \in FhtThreads : s # t => notGiven'[s] = notGiven[s]
    BY <1>1, <1>2 DEF FhtCallType
  <1>9. FhtCallType'
    <2>1. lock' \in [{Stash} \cup TableRow -> FhtThreads \cup {Free}]
      BY <1>1, <1>2 DEF FhtCallType
    <2> QED
      BY <1>2, <1>4, <1>5, <1>8, <2>1 DEF FhtCallType
  <1>10. CallRight(t)'
    <2>1. caller'[t].pc \in {"idle", "scan", "iter", "end"}
          /\ (caller[t].pc = "iter" => caller[t].col \in DOMAIN Place(caller[t].row))'
          /\ (caller[t].pc = "scan" => caller[t].col = 0)'
      BY <1>4, <1>5
    <2>2. (notGiven[t] \subseteq IF caller[t].pc \in {"scan", "iter"}
                                   THEN Later(caller[t].row, caller[t].col) ELSE {})'
      BY <1>4, <1>5, <1>8
    <2> QED
      BY <2>1, <2>2, IteratingRight
  <1>11. ASSUME NEW s \in FhtThreads, s # t PROVE notGiven'[s] \subseteq notGiven[s] \cap Content'
    <2>1. CallRight(s) /\ caller[s].row \in {Stash} \cup TableRow
      BY <1>2 DEF FhtInv, FhtCallType, FhtCalls
    <2>2. Later(caller[s].row, caller[s].col) \subseteq Content
      BY <1>2, <2>1, LaterHeld
    <2>3. notGiven[s] \subseteq Content
      BY <2>1, <2>2 DEF CallRight
    <2> QED
      BY <1>3, <1>8, <1>11, <2>3
  <1> QED
    BY <1>3, <1>5, <1>7, <1>9, <1>10, <1>11, StepRight

-----------------------------------------------------------------------------
LEMMA FhtInvInit == FhtInit => FhtInv
  <1> SUFFICES ASSUME FhtInit PROVE FhtInv
    OBVIOUS
  <1> USE DEF FhtInit
  <1>1. TableRows \in Nat \ {0} /\ StashSize \in Nat /\ 27 \in Vectors
    BY FhtAssumption DEF Vectors
  <1>2. FhtStoreType
    <2>1. table \in [TableRow -> [col : [Cols -> FhtKeys \cup {NoKey}], vector : Vectors]]
      BY <1>1
    <2>2. stashIndex \in Nat /\ (StashSize > 0 => stashIndex \in Slots)
      BY <1>1 DEF Slots
    <2> QED
      BY <2>1, <2>2 DEF FhtStoreType
  <1>3. Idle \in FhtCalls /\ Idle.pc = "idle"
    BY DEF Idle, FhtCalls
  <1>4. FhtCallType
    BY <1>3 DEF FhtCallType
  <1>5. Held(stash) = {} /\ \A r \in TableRow : Held(table[r].col) = {}
    BY HeldIn
  <1>6. Sound
    BY <1>5 DEF Sound, StashInOrder, RowInOrder, Ordered
  <1>7. Content = owed
    BY <1>5, ContentIn
  <1>8. LocksMatch
    <2>1. \A t \in FhtThreads : Guarded(t) = {} /\ t # Free
      BY <1>3, FhtAssumption DEF Guarded, Free
    <2> QED
      BY <2>1 DEF LocksMatch
  <1>9. \A t \in FhtThreads : CallRight(t)
    BY <1>3 DEF CallRight
  <1> QED
    BY <1>2, <1>4, <1>6, <1>7, <1>8, <1>9 DEF FhtInv, FhtTypeOK

LEMMA FhtInvStep == FhtInv /\ [FhtNext]_fhtVars => FhtInv'
  <1> SUFFICES ASSUME FhtInv, [FhtNext]_fhtVars PROVE FhtInv'
    OBVIOUS
  <1>1. CASE UNCHANGED fhtVars
    BY <1>1 DEF fhtVars, FhtInv, FhtTypeOK, FhtStoreType, FhtCallType, Sound, StashInOrder, RowInOrder,
                Content, LocksMatch, Guarded, CallRight, InRow, Place, Later
  <1>2. CASE FhtNext
    <2>1. PICK t \in FhtThreads :
            \/ \E k \in FhtKeys :
                 \/ \E replace \in BOOLEAN : InsertBegin(t, k, replace)
                 \/ \E keep \in BOOLEAN : Get(t, k, keep)
                 \/ RemoveBegin(t, k)
            \/ InsertSearch(t) \/ InsertStore(t) \/ GetStash(t) \/ UnlockData(t)
            \/ RemoveLocked(t) \/ RemoveStash(t) \/ FhtClear(t)
            \/ IterStart(t) \/ IterScan(t) \/ IterNext(t) \/ IterRemove(t) \/ IterEnd(t)
      BY <1>2 DEF FhtNext
    <2>2. ASSUME NEW k \in FhtKeys,
                 \/ \E replace \in BOOLEAN : InsertBegin(t, k, replace)
                 \/ \E keep \in BOOLEAN : Get(t, k, keep)
                 \/ RemoveBegin(t, k)
          PROVE  FhtInv'
      BY <2>2, InsertBeginInv, GetInv, RemoveBeginInv
    <2> QED
      BY <2>1, <2>2, InsertSearchInv, InsertStoreInv, GetStashInv, UnlockDataInv, RemoveLockedInv,
         RemoveStashInv, FhtClearInv, IterStartInv, IterScanInv, IterNextInv, IterRemoveInv, IterEndInv
  <1> QED
    BY <1>1, <1>2

LEMMA FhtInvariance == FhtSpec => []FhtInv
  BY FhtInvInit, FhtInvStep, PTL DEF FhtSpec

(* KeptInOrder, for any number of rows, slots, keys and threads: what was  *)
(* inserted stays in one place until it is removed or given back, and the  *)
(* replacement vector orders a row's items by their last use.              *)
THEOREM TableInOrder == FhtSpec => []KeptInOrder
  <1>1. FhtInv => KeptInOrder
    <2> SUFFICES ASSUME FhtInv PROVE KeptInOrder
      OBVIOUS
    <2>1. Content = owed /\ StashInOrder /\ \A r \in TableRow : RowInOrder(r)
      BY DEF FhtInv, Sound
    <2>2. ASSUME NEW r \in TableRow
          PROVE  LET full == {c \in Cols : table[r].col[c] # NoKey} IN
                 /\ Held(table[r].col) \cap Held(stash) = {}
                 /\ \A c, d \in full :
                      /\ c # d => table[r].col[c] # table[r].col[d]
                      /\ Age(table[r].vector, c) < Age(table[r].vector, d)
                           <=> <<table[r].col[c], table[r].col[d]>> \in used[r]
      BY <2>1 DEF RowInOrder, Ordered
    <2> QED
      BY <2>1, <2>2 DEF KeptInOrder, StashInOrder
  <1> QED
    BY <1>1, FhtInvariance, PTL

(* IterationComplete, likewise: an iteration that came to its end was given*)
(* every item that was in the table all the time.                          *)
THEOREM IterationsComplete == FhtSpec => []IterationComplete
  <1>1. FhtInv => IterationComplete
    BY DEF FhtInv, CallRight, IterationComplete
  <1> QED
    BY <1>1, FhtInvariance, PTL
=============================================================================
