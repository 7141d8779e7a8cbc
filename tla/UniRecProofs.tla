----------------------------- MODULE UniRecProofs -----------------------------
(***************************************************************************)
(* Theorems about UniRec: the table of fields and its templates, and the   *)
(* prefix search.                                                          *)
(***************************************************************************)
EXTENDS UniRecFields, IpPrefixSearch, SequenceTheorems, WellFoundedInduction, TLAPS

(* A set of numbers that is not empty has a least one.                     *)
LEMMA LeastIn ==
  ASSUME NEW T \in SUBSET Nat, T # {}
  PROVE  \E n \in T : \A m \in T : n <= m
  <1>1. IsWellFoundedOn(OpToRel(<, Nat), Nat)
    BY NatLessThanWellFounded, Zenon
  <1>2. PICK n \in T : \A m \in T : ~(<<m, n>> \in OpToRel(<, Nat))
    BY <1>1, WFMin, Zenon
  <1>3. \A m \in T : ~(m < n)
    BY <1>2 DEF OpToRel
  <1> QED
    BY <1>3

LEMMA MinMaxOf ==
  ASSUME NEW a \in Int, NEW b \in Int
  PROVE  /\ Min({a, b}) = IF a <= b THEN a ELSE b
         /\ Max({a, b}) = IF a <= b THEN b ELSE a
  <1>1. \E x \in {a, b} : \A y \in {a, b} : x <= y
    OBVIOUS
  <1>2. \E x \in {a, b} : \A y \in {a, b} : x >= y
    OBVIOUS
  <1> QED
    BY <1>1, <1>2 DEF Min, Max

LEMMA MinOfOne ==
  ASSUME NEW a \in Int
  PROVE  Min({a}) = a
  BY DEF Min

-----------------------------------------------------------------------------
(* The table of fields.                                                    *)

(* What is known to those that hold ids: fields stay as they are.          *)
KeepsFields(old, new) ==
  /\ old.last <= new.last
  /\ \A id \in DOMAIN old.names : old.names[id] # Undefined =>
       /\ id \in DOMAIN new.names
       /\ new.names[id] = old.names[id] /\ new.types[id] = old.types[id]

LEMMA IdOf ==
  ASSUME NEW table, TableRight(table), NEW n, n # Undefined, NEW id \in IdsOf(table.names, n)
  PROVE  /\ IdsOf(table.names, n) = {id} /\ Min(IdsOf(table.names, n)) = id
         /\ id \in 0 .. table.last - 1 /\ table.names[id] = n
  <1>1. id \in DOMAIN table.names /\ table.names[id] = n
    BY DEF IdsOf
  <1>2. DOMAIN table.names = 0 .. table.last - 1
    BY DEF TableRight, TableTypes
  <1>3. IdsOf(table.names, n) = {id}
    BY <1>1 DEF IdsOf, TableRight
  <1> QED
    BY <1>1, <1>2, <1>3, MinOfOne

(* A new field takes an id nobody has, and leaves the others alone.        *)
LEMMA NewFieldRight ==
  ASSUME NEW table, TableRight(table), NEW n \in NameSet, NEW ty \in FieldTypes,
         IdsOf(table.names, n) = {}, EmptyId(table) >= 0
  PROVE  LET new == Defined(table, n, ty).table
         IN  /\ TableRight(new) /\ KeepsFields(table, new)
             /\ EmptyId(table) \in IdsOf(new.names, n)
  <1> DEFINE id == EmptyId(table)
             new == Defined(table, n, ty).table
             free == {i \in DOMAIN table.names : table.names[i] = Undefined}
  <1>1. /\ table.last \in Nat /\ table.allocated \in Nat \ {0}
        /\ table.names \in [0 .. table.last - 1 -> NameSet \cup {Undefined}]
        /\ table.types \in [0 .. table.last - 1 -> FieldTypes]
        /\ table.undefine \in Seq(Nat)
        /\ table.last <= table.allocated
        /\ table.allocated <= MaxFields \/ table.allocated <= StaticId + Room
        /\ IsInjective(table.undefine)
        /\ ToSet(table.undefine) = free
        /\ \A i, j \in DOMAIN table.names :
             table.names[i] = table.names[j] /\ table.names[i] # Undefined => i = j
    BY DEF TableRight, TableTypes
  <1>2. /\ id \in 0 .. table.last
        /\ \/ table.undefine # <<>> /\ id = Head(table.undefine) /\ id \in free
           \/ /\ table.undefine = <<>> /\ id = table.last /\ free = {}
              /\ table.last < table.allocated \/ table.last < MaxFields
    <2>1. CASE table.undefine = <<>>
      <3>1. free = {}
        BY <1>1, <2>1 DEF ToSet
      <3>2. id = table.last /\ (table.last < table.allocated \/ table.last < MaxFields)
        BY <2>1 DEF EmptyId
      <3> QED
        BY <1>1, <2>1, <3>1, <3>2
    <2>2. CASE table.undefine # <<>>
      <3>1. id = Head(table.undefine)
        BY <2>2 DEF EmptyId
      <3>2. 1 \in DOMAIN table.undefine /\ id = table.undefine[1]
        BY <1>1, <2>2, <3>1
      <3>3. id \in free
        BY <1>1, <3>2 DEF ToSet
      <3> QED
        BY <1>1, <2>2, <3>1, <3>3
    <2> QED
      BY <2>1, <2>2
  <1>3. /\ new.names = With(table.names, id, n) /\ new.types = With(table.types, id, ty)
        /\ new.last = (IF id = table.last THEN id + 1 ELSE table.last)
        /\ new.allocated = Grown(table, id)
        /\ new.undefine = (IF table.undefine = <<>> THEN <<>> ELSE Tail(table.undefine))
    <2>1. ~(id < 0) /\ ~(IdsOf(table.names, n) # {})
      BY <1>1, <1>2
    <2>2. Defined(table, n, ty).table =
            [ names     |-> With(table.names, id, n),
              types     |-> With(table.types, id, ty),
              last      |-> IF id = table.last THEN id + 1 ELSE table.last,
              allocated |-> Grown(table, id),
              undefine  |-> IF table.undefine = <<>> THEN <<>> ELSE Tail(table.undefine) ]
      BY <2>1, Zenon DEF Defined
    <2> QED
      BY <2>2
  <1>4. /\ new.names = [i \in 0 .. new.last - 1 |-> IF i = id THEN n ELSE table.names[i]]
        /\ new.types = [i \in 0 .. new.last - 1 |-> IF i = id THEN ty ELSE table.types[i]]
        /\ new.last \in Nat /\ table.last <= new.last /\ id \in 0 .. new.last - 1
        /\ \A i \in 0 .. new.last - 1 : i # id => i \in 0 .. table.last - 1
    <2>1. /\ new.last \in Nat /\ table.last <= new.last /\ id \in 0 .. new.last - 1
          /\ \A i \in 0 .. new.last - 1 : i # id => i \in 0 .. table.last - 1
          /\ {id} \cup (0 .. table.last - 1) = 0 .. new.last - 1
      BY <1>1, <1>2, <1>3
    <2>2. DOMAIN table.names = 0 .. table.last - 1 /\ DOMAIN table.types = 0 .. table.last - 1
      BY <1>1
    <2>3. new.names = [i \in {id} \cup (0 .. table.last - 1) |-> IF i = id THEN n ELSE table.names[i]]
      BY <1>3, <2>2 DEF With
    <2>4. new.types = [i \in {id} \cup (0 .. table.last - 1) |-> IF i = id THEN ty ELSE table.types[i]]
      BY <1>3, <2>2 DEF With
    <2> QED
      BY <2>1, <2>3, <2>4
  <1> HIDE DEF id, new
  <1>5. \A i \in 0 .. table.last - 1 : i # id => new.names[i] = table.names[i] /\ new.types[i] = table.types[i]
    BY <1>1, <1>4
  <1>6. KeepsFields(table, new)
    <2>1. \A i \in DOMAIN table.names : table.names[i] # Undefined => i # id
      BY <1>1, <1>2
    <2> QED
      BY <1>1, <1>4, <1>5, <2>1 DEF KeepsFields
  <1>7. n # Undefined
    BY FieldsAssumption DEF NameSet
  <1>8. /\ new.allocated \in Nat \ {0} /\ new.last <= new.allocated
        /\ new.allocated <= MaxFields \/ new.allocated <= StaticId + Room
    <2>1. CASE id = table.allocated
      <3>1. table.last = id /\ id < MaxFields /\ MaxFields \in Nat
        BY <1>1, <1>2, <2>1, FieldsAssumption
      <3>2. new.allocated = Min({2 * table.allocated, MaxFields})
        BY <1>3, <2>1 DEF Grown
      <3>3. new.allocated = IF 2 * table.allocated <= MaxFields THEN 2 * table.allocated ELSE MaxFields
        <4>1. 2 * table.allocated \in Int /\ MaxFields \in Int
          BY <1>1, <3>1
        <4> QED
          BY <3>2, <4>1, MinMaxOf
      <3> QED
        BY <1>1, <1>3, <2>1, <3>1, <3>3
    <2>2. CASE id # table.allocated
      <3>1. new.allocated = table.allocated
        BY <1>3, <2>2 DEF Grown
      <3> QED
        BY <1>1, <1>2, <1>3, <2>2, <3>1
    <2> QED
      BY <2>1, <2>2
  <1>9. TableTypes(new)
    <2>2. new.undefine \in Seq(Nat)
      BY <1>1, <1>3
    <2>3. new.names \in [0 .. new.last - 1 -> NameSet \cup {Undefined}]
      BY <1>1, <1>4
    <2>4. new.types \in [0 .. new.last - 1 -> FieldTypes]
      BY <1>1, <1>4
    <2> QED
      BY <1>4, <1>8, <2>2, <2>3, <2>4 DEF TableTypes
  <1>10. \A i, j \in DOMAIN new.names :
          new.names[i] = new.names[j] /\ new.names[i] # Undefined => i = j
    <2>1. \A i \in DOMAIN table.names : table.names[i] # n
      BY DEF IdsOf
    <2> QED
      BY <1>1, <1>4, <1>5, <2>1
  <1>11. /\ ToSet(new.undefine) = {i \in DOMAIN new.names : new.names[i] = Undefined}
         /\ IsInjective(new.undefine)
    <2>1. {i \in DOMAIN new.names : new.names[i] = Undefined} = free \ {id}
      <3>1. DOMAIN new.names = 0 .. new.last - 1 /\ DOMAIN table.names = 0 .. table.last - 1
        BY <1>1, <1>4
      <3>2. new.names[id] = n
        BY <1>4
      <3>3. 0 .. table.last - 1 \subseteq 0 .. new.last - 1
        BY <1>1, <1>4
      <3> QED
        BY <1>4, <1>5, <1>7, <3>1, <3>2, <3>3
    <2>2. CASE table.undefine = <<>>
      BY <1>1, <1>2, <1>3, <2>1, <2>2 DEF ToSet, IsInjective
    <2>3. CASE table.undefine # <<>>
      <3>1. new.undefine = Tail(table.undefine) /\ id = table.undefine[1]
        BY <1>1, <1>2, <1>3, <2>3
      <3>2. /\ Len(new.undefine) = Len(table.undefine) - 1 /\ new.undefine \in Seq(Nat)
            /\ \A i \in 1 .. Len(table.undefine) - 1 : new.undefine[i] = table.undefine[i + 1]
        BY <1>1, <2>3, <3>1, HeadTailProperties
      <3>3. /\ DOMAIN new.undefine = 1 .. Len(table.undefine) - 1
            /\ DOMAIN table.undefine = 1 .. Len(table.undefine) /\ Len(table.undefine) \in Nat
        BY <1>1, <3>2
      <3>4. \A i, j \in DOMAIN table.undefine :
              table.undefine[i] = table.undefine[j] => i = j
        BY <1>1 DEF IsInjective
      <3>5. IsInjective(new.undefine)
        <4>1. ASSUME NEW i \in DOMAIN new.undefine, NEW j \in DOMAIN new.undefine,
                     new.undefine[i] = new.undefine[j]
              PROVE  i = j
          <5>1. i \in 1 .. Len(table.undefine) - 1 /\ j \in 1 .. Len(table.undefine) - 1
            BY <3>3
          <5>2. i + 1 \in DOMAIN table.undefine /\ j + 1 \in DOMAIN table.undefine
            BY <3>3, <5>1
          <5>3. table.undefine[i + 1] = table.undefine[j + 1]
            BY <3>2, <4>1, <5>1
          <5>4. i + 1 = j + 1
            BY <3>4, <5>2, <5>3
          <5> QED
            BY <3>3, <5>1, <5>4
        <4> QED
          BY <4>1, Zenon DEF IsInjective
      <3>6. \A x : x \in ToSet(new.undefine) <=> x \in free /\ x # id
        <4>1. \A x : x \in free <=> \E i \in DOMAIN table.undefine : x = table.undefine[i]
          BY <1>1 DEF ToSet
        <4>2. ASSUME NEW x, x \in free, x # id PROVE x \in ToSet(new.undefine)
          <5>1. PICK i \in DOMAIN table.undefine : x = table.undefine[i]
            BY <4>1, <4>2
          <5>2. i # 1
            BY <3>1, <4>2, <5>1
          <5>3. i \in 1 .. Len(table.undefine) /\ i - 1 \in 1 .. Len(table.undefine) - 1
            BY <3>3, <5>1, <5>2
          <5>4. (i - 1) + 1 = i
            BY <5>3
          <5>5. i - 1 \in DOMAIN new.undefine /\ new.undefine[i - 1] = x
            BY <3>2, <3>3, <5>1, <5>3, <5>4
          <5> QED
            BY <5>5 DEF ToSet
        <4>3. ASSUME NEW x, x \in ToSet(new.undefine) PROVE x \in free /\ x # id
          <5>1. PICK i \in DOMAIN new.undefine : x = new.undefine[i]
            BY <4>3 DEF ToSet
          <5>2. i + 1 \in DOMAIN table.undefine /\ x = table.undefine[i + 1] /\ 1 \in DOMAIN table.undefine
            BY <3>2, <3>3, <5>1
          <5> QED
            BY <3>1, <3>3, <3>4, <4>1, <5>1, <5>2
        <4> QED
          BY <4>2, <4>3
      <3> QED
        BY <2>1, <3>5, <3>6
    <2> QED
      BY <2>2, <2>3
  <1>12. id \in IdsOf(new.names, n)
    BY <1>4 DEF IdsOf
  <1>13. TableRight(new)
    BY <1>8, <1>9, <1>10, <1>11 DEF TableRight
  <1> QED
    BY <1>6, <1>12, <1>13 DEF id, new
LEMMA EmptyIdIsInt ==
  ASSUME NEW table, TableRight(table)
  PROVE  EmptyId(table) \in Int
  <1>1. table.last \in Nat /\ table.undefine \in Seq(Nat)
    BY DEF TableRight, TableTypes
  <1> QED
    BY <1>1 DEF EmptyId

(* ur_define_field leaves the table in order, whatever comes of it.        *)
LEMMA DefinedRight ==
  ASSUME NEW table, TableRight(table), NEW n \in NameSet, NEW ty \in FieldTypes
  PROVE  LET d == Defined(table, n, ty)
         IN  /\ TableRight(d.table) /\ KeepsFields(table, d.table)
             /\ d.id >= 0 => IdsOf(d.table.names, n) # {}
  <1> DEFINE known == IdsOf(table.names, n)
             id == EmptyId(table)
  <1>1. KeepsFields(table, table)
    BY DEF KeepsFields, TableRight, TableTypes
  <1>2. CASE known # {}
    <2>1. Defined(table, n, ty).table = table
      BY <1>2 DEF Defined
    <2> QED
      BY <1>1, <1>2, <2>1
  <1>3. CASE known = {} /\ id < 0
    <2>1. Defined(table, n, ty) = [table |-> table, id |-> -1]
      BY <1>3 DEF Defined
    <2> QED
      BY <1>1, <2>1
  <1>4. CASE known = {} /\ id >= 0
    BY <1>4, NewFieldRight
  <1> QED
    BY <1>2, <1>3, <1>4, EmptyIdIsInt

LEMMA FieldsKept ==
  ASSUME NEW one, NEW two, NEW three, TableTypes(one), TableTypes(two), TableTypes(three),
         KeepsFields(one, two), KeepsFields(two, three)
  PROVE  KeepsFields(one, three)
  BY DEF KeepsFields, TableTypes

LEMMA NamesKept ==
  ASSUME NEW old, NEW new, KeepsFields(old, new), NEW n, n # Undefined, IdsOf(old.names, n) # {}
  PROVE  IdsOf(new.names, n) # {}
  BY DEF KeepsFields, IdsOf

(* The function behind DefinedSet exists, by induction on its domain.      *)
UpTo(f, spec, m) ==
  f = [n \in 0 .. m |-> IF n = 0 THEN [ok |-> TRUE, table |-> Table]
                        ELSE DefinedNext(f[n - 1], spec[n])]

LEMMA UpToExists ==
  ASSUME NEW spec, NEW N \in Nat
  PROVE  \E f : UpTo(f, spec, N)
  <1> DEFINE T == {m \in Nat : ~ \E f : UpTo(f, spec, m)}
             first == [ok |-> TRUE, table |-> Table]
  <1>1. SUFFICES ASSUME T # {} PROVE FALSE
    OBVIOUS
  <1>2. PICK m \in T : \A n \in T : m <= n
    BY <1>1, LeastIn
  <1>3. m # 0
    <2>1. UpTo([n \in 0 .. 0 |-> first], spec, 0)
      BY DEF UpTo
    <2> QED
      BY <2>1
  <1>4. m - 1 \in Nat /\ m - 1 \notin T
    BY <1>2, <1>3
  <1>5. PICK f : UpTo(f, spec, m - 1)
    BY <1>4
  <1> DEFINE g == [n \in 0 .. m |-> IF n = m THEN DefinedNext(f[m - 1], spec[m]) ELSE f[n]]
  <1>6. UpTo(g, spec, m)
    <2>1. ASSUME NEW n \in 0 .. m
          PROVE  g[n] = IF n = 0 THEN first ELSE DefinedNext(g[n - 1], spec[n])
      <3>1. CASE n = m
        BY <1>3, <1>4, <3>1
      <3>2. CASE n # m
        <4>1. n \in 0 .. m - 1 /\ g[n] = f[n] /\ (n # 0 => n - 1 \in 0 .. m /\ n - 1 # m)
          BY <1>4, <3>2
        <4>2. f[n] = IF n = 0 THEN first ELSE DefinedNext(f[n - 1], spec[n])
          BY <1>5, <4>1 DEF UpTo
        <4>3. n # 0 => g[n - 1] = f[n - 1]
          BY <4>1
        <4> QED
          BY <4>1, <4>2, <4>3
      <3> QED
        BY <3>1, <3>2
    <2> QED
      BY <2>1 DEF UpTo
  <1> QED
    BY <1>2, <1>6

LEMMA DefinedSetIs ==
  ASSUME NEW spec, Len(spec) \in Nat
  PROVE  \E f : UpTo(f, spec, Len(spec)) /\ DefinedSet(spec) = f[Len(spec)]
  <1> DEFINE f == CHOOSE f : UpTo(f, spec, Len(spec))
  <1>1. UpTo(f, spec, Len(spec))
    BY UpToExists
  <1>2. DefinedSet(spec) = f[Len(spec)]
    BY DEF DefinedSet, UpTo
  <1> QED
    BY <1>1, <1>2

(* A data format: the fields before the first that cannot be defined are   *)
(* defined.                                                                *)
LEMMA DefinedSetRight ==
  ASSUME NEW spec \in DataFmts, TableRight(Table)
  PROVE  LET d == DefinedSet(spec)
         IN  /\ TableRight(d.table) /\ KeepsFields(Table, d.table)
             /\ d.ok => \A i \in DOMAIN spec : IdsOf(d.table.names, spec[i][1]) # {}
  <1> DEFINE N == Len(spec)
  <1>1. /\ N \in Nat /\ DOMAIN spec = 1 .. N
        /\ \A i \in 1 .. N : spec[i][1] \in NameSet /\ spec[i][2] \in FieldTypes \cup {BadType}
    BY FieldsAssumption DEF NameSet
  <1>2. PICK f : UpTo(f, spec, N) /\ DefinedSet(spec) = f[N]
    BY <1>1, DefinedSetIs
  <1> DEFINE Good(n) == /\ TableRight(f[n].table) /\ KeepsFields(Table, f[n].table)
                        /\ f[n].ok => \A i \in 1 .. n : IdsOf(f[n].table.names, spec[i][1]) # {}
             T == {n \in 0 .. N : ~ Good(n)}
  <1>3. Good(0)
    <2>1. f[0] = [ok |-> TRUE, table |-> Table]
      BY <1>1, <1>2 DEF UpTo
    <2>2. KeepsFields(Table, Table)
      BY DEF KeepsFields, TableRight, TableTypes
    <2> QED
      BY <2>1, <2>2
  <1>4. ASSUME NEW n \in 1 .. N, Good(n - 1) PROVE Good(n)
    <2> DEFINE so == f[n - 1]
               d == Defined(so.table, spec[n][1], spec[n][2])
    <2>1. f[n] = DefinedNext(so, spec[n])
      <3>1. n \in 0 .. N /\ n # 0
        BY <1>1
      <3>2. f = [i \in 0 .. N |-> IF i = 0 THEN [ok |-> TRUE, table |-> Table]
                                   ELSE DefinedNext(f[i - 1], spec[i])]
        BY <1>2 DEF UpTo
      <3> HIDE DEF N
      <3> QED
        BY <3>1, <3>2
    <2>2. CASE ~ so.ok
      <3>1. f[n] = so
        BY <2>1, <2>2 DEF DefinedNext
      <3> QED
        BY <1>4, <2>2, <3>1
    <2>3. CASE so.ok /\ spec[n][2] = BadType
      <3>1. f[n] = [so EXCEPT !.ok = FALSE]
        BY <2>1, <2>3 DEF DefinedNext
      <3> QED
        BY <1>4, <3>1
    <2>4. CASE so.ok /\ spec[n][2] # BadType
      <3>1. f[n] = [ok |-> d.id >= 0, table |-> d.table]
        BY <2>1, <2>4 DEF DefinedNext
      <3>2. /\ TableRight(d.table) /\ KeepsFields(so.table, d.table)
            /\ d.id >= 0 => IdsOf(d.table.names, spec[n][1]) # {}
        BY <1>1, <1>4, <2>4, DefinedRight
      <3>3. KeepsFields(Table, d.table)
        BY <1>4, <3>2, FieldsKept DEF TableRight
      <3>4. \A i \in 1 .. n - 1 : IdsOf(d.table.names, spec[i][1]) # {}
        <4>1. \A i \in 1 .. n - 1 : spec[i][1] # Undefined
          BY <1>1, FieldsAssumption DEF NameSet
        <4> QED
          BY <1>4, <2>4, <3>2, <4>1, NamesKept
      <3>5. f[n].ok => \A i \in 1 .. n : IdsOf(d.table.names, spec[i][1]) # {}
        <4>1. \A i \in 1 .. n : i = n \/ i \in 1 .. n - 1
          BY <1>1
        <4>2. f[n].ok => d.id >= 0
          <5> HIDE DEF d
          <5>1. CASE d.id >= 0
            BY <5>1
          <5>2. CASE ~ (d.id >= 0)
            <6>1. (d.id >= 0) = FALSE
              BY <5>2, SMT
            <6>2. f[n] = [ok |-> FALSE, table |-> d.table]
              BY <3>1, <6>1, Zenon
            <6> QED
              BY <6>2
          <5> QED
            BY <5>1, <5>2
        <4> QED
          BY <3>2, <3>4, <4>1, <4>2, Zenon
      <3> QED
        BY <3>1, <3>2, <3>3, <3>5
    <2> QED
      BY <2>2, <2>3, <2>4
  <1>5. T = {}
    <2>1. SUFFICES ASSUME T # {} PROVE FALSE
      OBVIOUS
    <2>2. PICK m \in T : \A n \in T : m <= n
      <3>1. T \in SUBSET Nat
        BY <1>1
      <3> QED
        BY <2>1, <3>1, LeastIn
    <2>3. m # 0
      BY <1>3, <2>2
    <2>4. m \in 1 .. N /\ m - 1 \in 0 .. N /\ m - 1 \notin T
      BY <1>1, <2>2, <2>3
    <2> QED
      BY <1>4, <2>2, <2>4
  <1>6. Good(N)
    BY <1>1, <1>5
  <1> QED
    BY <1>1, <1>2, <1>6

-----------------------------------------------------------------------------
(* Templates.                                                              *)
LEMMA KeptResolves ==
  ASSUME NEW old, NEW new, TableRight(old), TableRight(new), KeepsFields(old, new),
         NEW t, Resolves(t, old)
  PROVE  Resolves(t, new)
  <1>1. CASE t = NoTemplate
    BY <1>1 DEF Resolves
  <1>2. CASE t # NoTemplate
    <2>1. /\ t.ids \subseteq {id \in DOMAIN old.names : old.names[id] # Undefined}
          /\ t.offsetSize \in 0 .. old.last /\ t.ids \subseteq 0 .. t.offsetSize - 1
          /\ t.made = [id \in t.ids |-> <<old.names[id], old.types[id]>>]
      BY <1>2 DEF Resolves
    <2>2. \A id \in t.ids : /\ id \in DOMAIN new.names /\ new.names[id] # Undefined
                            /\ new.names[id] = old.names[id] /\ new.types[id] = old.types[id]
      BY <2>1 DEF KeepsFields
    <2>3. t.made = [id \in t.ids |-> <<new.names[id], new.types[id]>>]
      BY <2>1, <2>2
    <2>4. t.offsetSize \in 0 .. new.last
      BY <2>1 DEF KeepsFields, TableRight, TableTypes
    <2> QED
      BY <2>1, <2>2, <2>3, <2>4 DEF Resolves
  <1> QED
    BY <1>1, <1>2

LEMMA MadeResolves ==
  ASSUME NEW table, TableRight(table), NEW fields \in SUBSET NameSet, CanMake(table, fields)
  PROVE  Resolves(Made(table, fields), table)
  <1> DEFINE ids == UNION {{Min(IdsOf(table.names, n))} : n \in fields}
  <1>1. \A n \in fields : /\ Min(IdsOf(table.names, n)) \in 0 .. table.last - 1
                          /\ table.names[Min(IdsOf(table.names, n))] = n /\ n # Undefined
    <2>1. \A n \in fields : n # Undefined /\ IdsOf(table.names, n) # {}
      BY FieldsAssumption DEF NameSet, CanMake
    <2>2. ASSUME NEW n \in fields
          PROVE  /\ Min(IdsOf(table.names, n)) \in 0 .. table.last - 1
                 /\ table.names[Min(IdsOf(table.names, n))] = n /\ n # Undefined
      <3>1. PICK id : id \in IdsOf(table.names, n)
        BY <2>1
      <3>2. n # Undefined
        BY <2>1
      <3>3. /\ Min(IdsOf(table.names, n)) = id
            /\ id \in 0 .. table.last - 1 /\ table.names[id] = n
        BY <3>1, <3>2, IdOf
      <3> QED
        BY <3>2, <3>3
    <2> QED
      BY <2>2
  <1>2. table.last \in Nat /\ DOMAIN table.names = 0 .. table.last - 1
    BY DEF TableRight, TableTypes
  <1>3. \A id \in ids : id \in 0 .. table.last - 1 /\ table.names[id] # Undefined
    BY <1>1
  <1>4. Made(table, fields) = [ids |-> ids, offsetSize |-> table.last,
                               made |-> [id \in ids |-> <<table.names[id], table.types[id]>>]]
    BY DEF Made
  <1> HIDE DEF ids
  <1> QED
    BY <1>2, <1>3, <1>4 DEF Resolves

LEMMA SameTable ==
  ASSUME NEW s, NEW t, s.names = t.names, s.types = t.types, s.last = t.last,
         s.allocated = t.allocated, s.undefine = t.undefine
  PROVE  /\ TableRight(t) => TableRight(s)
         /\ \A u : Resolves(u, t) => Resolves(u, s)
  BY DEF TableRight, TableTypes, Resolves

-----------------------------------------------------------------------------
(* A table that was set by a call, and the templates it left.              *)
LEMMA TableSet ==
  ASSUME FieldsInv, NEW t, TableRight(t), KeepsFields(Table, t), SetTable(t), urInit' = TRUE,
         DOMAIN template' = UrHandles,
         \A h \in UrHandles : template'[h] = template[h] \/ Resolves(template'[h], t)
  PROVE  FieldsInv'
  <1>1. /\ Table'.names = t.names /\ Table'.types = t.types /\ Table'.last = t.last
        /\ Table'.allocated = t.allocated /\ Table'.undefine = t.undefine
    BY DEF SetTable, Table
  <1>2. TableRight(Table') /\ \A u : Resolves(u, t) => Resolves(u, Table')
    BY <1>1, SameTable
  <1>3. \A h \in UrHandles : Resolves(template'[h], t)
    BY KeptResolves DEF FieldsInv
  <1>4. StaticId <= lastId'
    <2>1. StaticId <= lastId /\ lastId <= t.last /\ lastId' = t.last
      BY DEF FieldsInv, KeepsFields, SetTable, Table, StaticId
    <2>2. StaticId \in Nat /\ lastId \in Nat /\ t.last \in Nat
      BY FieldsAssumption DEF FieldsInv, TableRight, TableTypes, Table, StaticId
    <2> QED
      BY <2>1, <2>2
  <1> QED
    BY <1>2, <1>3, <1>4 DEF FieldsInv
(* The table of the static fields.                                         *)
LEMMA StaticTable ==
  ASSUME NEW t, t.names = [id \in 0 .. StaticId - 1 |-> StaticNames[id + 1]],
         t.types = [id \in 0 .. StaticId - 1 |-> StaticTypes[id + 1]],
         t.last = StaticId, t.allocated = StaticId + Room, t.undefine = <<>>
  PROVE  TableRight(t)
  <1>1. /\ StaticId \in Nat /\ DOMAIN StaticNames = 1 .. StaticId
        /\ DOMAIN StaticTypes = 1 .. StaticId /\ Room \in Nat \ {0}
        /\ \A i \in 1 .. StaticId : StaticTypes[i] \in FieldTypes
        /\ \A i, j \in 1 .. StaticId : StaticNames[i] = StaticNames[j] => i = j
    <2>1. /\ StaticId \in Nat /\ DOMAIN StaticNames = 1 .. StaticId
          /\ DOMAIN StaticTypes = 1 .. StaticId /\ Room \in Nat \ {0}
      BY FieldsAssumption DEF StaticId
    <2>2. \A i \in 1 .. StaticId : StaticTypes[i] \in FieldTypes
      BY <2>1, FieldsAssumption
    <2>3. \A i, j \in 1 .. StaticId : StaticNames[i] = StaticNames[j] => i = j
      BY <2>1, FieldsAssumption DEF IsInjective
    <2> QED
      BY <2>1, <2>2, <2>3
  <1>2. \A i \in 1 .. StaticId : StaticNames[i] \in NameSet /\ StaticNames[i] # Undefined
    BY <1>1, FieldsAssumption DEF NameSet, ToSet
  <1>3. \A id \in 0 .. StaticId - 1 : id + 1 \in 1 .. StaticId
    BY <1>1
  <1>4. TableTypes(t)
    <2>1. t.names \in [0 .. t.last - 1 -> NameSet \cup {Undefined}]
      BY <1>2, <1>3
    <2>2. t.types \in [0 .. t.last - 1 -> FieldTypes]
      BY <1>1, <1>3
    <2> QED
      BY <1>1, <2>1, <2>2 DEF TableTypes
  <1>5. \A i, j \in DOMAIN t.names : t.names[i] = t.names[j] => i = j
    <2>1. ASSUME NEW i \in 0 .. StaticId - 1, NEW j \in 0 .. StaticId - 1,
                 t.names[i] = t.names[j]
          PROVE  i = j
      <3>1. i + 1 \in 1 .. StaticId /\ j + 1 \in 1 .. StaticId
        BY <1>3
      <3>2. StaticNames[i + 1] = StaticNames[j + 1]
        BY <2>1
      <3> QED
        BY <1>1, <3>1, <3>2
    <2> QED
      BY <2>1
  <1>6. ToSet(t.undefine) = {id \in DOMAIN t.names : t.names[id] = Undefined}
    BY <1>2, <1>3 DEF ToSet
  <1>7. IsInjective(t.undefine)
    BY DEF IsInjective
  <1>8. t.last <= t.allocated /\ t.allocated <= StaticId + Room
    BY <1>1
  <1> QED
    BY <1>4, <1>5, <1>6, <1>7, <1>8, Zenon DEF TableRight

(* A field is undefined: its id is free, and the templates that had it are *)
(* gone.                                                                   *)
LEMMA UndefineFieldKeeps ==
  ASSUME FieldsInv, NEW id, UndefineField(id)
  PROVE  FieldsInv'
  <1>1. /\ lastId \in Nat /\ StaticId \in Nat
        /\ names \in [0 .. lastId - 1 -> NameSet \cup {Undefined}]
        /\ types \in [0 .. lastId - 1 -> FieldTypes]
        /\ undefineFields \in Seq(Nat) /\ IsInjective(undefineFields)
        /\ \A i, j \in DOMAIN names : names[i] = names[j] /\ names[i] # Undefined => i = j
        /\ ToSet(undefineFields) = {i \in DOMAIN names : names[i] = Undefined}
    BY FieldsAssumption DEF FieldsInv, TableRight, TableTypes, Table, StaticId
  <1>2. /\ id \in 0 .. lastId - 1 /\ StaticId < lastId /\ names[id] # Undefined
        /\ names' = [names EXCEPT ![id] = Undefined] /\ undefineFields' = <<id>> \o undefineFields
        /\ template' = [h \in UrHandles |-> IF id \in template[h].ids THEN NoTemplate ELSE template[h]]
        /\ UNCHANGED <<types, lastId, allocated, urInit, lost>>
    BY <1>1 DEF UndefineField
  <1>3. /\ urInit /\ StaticId <= lastId
    BY <1>1, <1>2 DEF FieldsInv
  <1>4. /\ Table.names = names /\ Table.types = types /\ Table.last = lastId
        /\ Table.allocated = allocated
        /\ Table'.names = names' /\ Table'.types = types /\ Table'.last = lastId
        /\ Table'.allocated = allocated /\ Table'.undefine = undefineFields'
    BY <1>2, <1>3 DEF Table
  <1>5. /\ DOMAIN names' = DOMAIN names /\ names'[id] = Undefined
        /\ \A i \in DOMAIN names : i # id => names'[i] = names[i]
    BY <1>1, <1>2
  <1>6. /\ undefineFields' \in Seq(Nat) /\ IsInjective(undefineFields)'
        /\ ToSet(undefineFields') = {id} \cup ToSet(undefineFields)
    <2> DEFINE N == Len(undefineFields)
    <2>1. /\ undefineFields' \in Seq(Nat) /\ N \in Nat /\ Len(undefineFields') = N + 1
          /\ undefineFields'[1] = id
          /\ \A i \in 2 .. N + 1 : i - 1 \in 1 .. N /\ undefineFields'[i] = undefineFields[i - 1]
      BY <1>1, <1>2
    <2>2. DOMAIN undefineFields = 1 .. N /\ DOMAIN undefineFields' = 1 .. N + 1
      BY <1>1, <2>1
    <2>3. \A i \in 1 .. N : undefineFields[i] # id
      <3>1. \A i \in 1 .. N : undefineFields[i] \in ToSet(undefineFields)
        BY <2>2 DEF ToSet
      <3>2. id \notin ToSet(undefineFields)
        BY <1>1, <1>2
      <3> QED
        BY <3>1, <3>2
    <2>4. \A i \in 1 .. N + 1 : i = 1 \/ i \in 2 .. N + 1
      BY <2>1
    <2>5. ASSUME NEW i \in 1 .. N + 1, NEW j \in 1 .. N + 1, undefineFields'[i] = undefineFields'[j]
          PROVE  i = j
      <3>1. CASE i = 1 \/ j = 1
        BY <2>1, <2>3, <2>4, <2>5, <3>1
      <3>2. CASE i # 1 /\ j # 1
        <4>1. i - 1 \in 1 .. N /\ j - 1 \in 1 .. N /\ undefineFields[i - 1] = undefineFields[j - 1]
          BY <2>1, <2>4, <2>5, <3>2
        <4>2. i - 1 = j - 1
          BY <1>1, <2>2, <4>1 DEF IsInjective
        <4> QED
          BY <2>1, <4>2
      <3> QED
        BY <3>1, <3>2
    <2>6. IsInjective(undefineFields)'
      BY <2>2, <2>5 DEF IsInjective
    <2>7. \A i \in 1 .. N : i + 1 \in 2 .. N + 1 /\ undefineFields'[i + 1] = undefineFields[i]
      <3>1. \A i \in 1 .. N : i + 1 \in 2 .. N + 1 /\ (i + 1) - 1 = i
        BY <2>1
      <3> QED
        BY <2>1, <3>1
    <2>8. \A x : x \in ToSet(undefineFields') <=> x = id \/ x \in ToSet(undefineFields)
      <3>1. 1 \in 1 .. N + 1 /\ \A i \in 2 .. N + 1 : i \in 1 .. N + 1
        BY <2>1
      <3>2. \A x : x \in ToSet(undefineFields') <=> \E i \in 1 .. N + 1 : x = undefineFields'[i]
        BY <2>2 DEF ToSet
      <3>3. \A x : x \in ToSet(undefineFields) <=> \E i \in 1 .. N : x = undefineFields[i]
        BY <2>2 DEF ToSet
      <3> HIDE DEF N
      <3>4. ASSUME NEW i \in 1 .. N + 1
            PROVE  undefineFields'[i] = id \/ \E j \in 1 .. N : undefineFields'[i] = undefineFields[j]
        BY <2>1, <2>4
      <3>5. ASSUME NEW j \in 1 .. N
            PROVE  \E i \in 1 .. N + 1 : undefineFields'[i] = undefineFields[j]
        BY <2>7, <3>1
      <3>6. ASSUME NEW x, x \in ToSet(undefineFields')
            PROVE  x = id \/ x \in ToSet(undefineFields)
        BY <3>2, <3>3, <3>4, <3>6
      <3>7. ASSUME NEW x, x = id \/ x \in ToSet(undefineFields)
            PROVE  x \in ToSet(undefineFields')
        <4>1. id \in ToSet(undefineFields')
          BY <2>1, <3>1, <3>2
        <4>2. CASE x \in ToSet(undefineFields)
          <5>1. PICK j \in 1 .. N : x = undefineFields[j]
            BY <3>3, <4>2
          <5> QED
            BY <3>2, <3>5, <5>1
        <4> QED
          BY <3>7, <4>1, <4>2
      <3> QED
        BY <3>6, <3>7
    <2> QED
      BY <2>1, <2>6, <2>8
  <1>7. TableRight(Table')
    <2>1. TableTypes(Table')
      <3>1. names' \in [0 .. lastId - 1 -> NameSet \cup {Undefined}]
        BY <1>1, <1>2
      <3>2. allocated \in Nat \ {0}
        BY <1>4 DEF FieldsInv, TableRight, TableTypes
      <3> QED
        BY <1>1, <1>4, <1>6, <3>1, <3>2 DEF TableTypes
    <2>2. \A i, j \in DOMAIN names' : names'[i] = names'[j] /\ names'[i] # Undefined => i = j
      BY <1>1, <1>5
    <2>3. ToSet(undefineFields') = {i \in DOMAIN names' : names'[i] = Undefined}
      <3>1. id \in DOMAIN names
        BY <1>1, <1>2
      <3> QED
        BY <1>1, <1>5, <1>6, <3>1
    <2>4. lastId <= allocated /\ (allocated <= MaxFields \/ allocated <= StaticId + Room)
      BY <1>4 DEF FieldsInv, TableRight
    <2> QED
      BY <1>4, <1>6, <2>1, <2>2, <2>3, <2>4 DEF TableRight
  <1>8. ASSUME NEW h \in UrHandles PROVE Resolves(template'[h], Table')
    <2>1. CASE template'[h] = NoTemplate
      BY <2>1 DEF Resolves
    <2>2. CASE template'[h] # NoTemplate
      <3>1. template'[h] = template[h] /\ id \notin template[h].ids /\ Resolves(template[h], Table)
        BY <1>2, <2>2 DEF FieldsInv
      <3> DEFINE t == template[h]
      <3>2. /\ t.ids \subseteq {i \in DOMAIN names : names[i] # Undefined}
            /\ t.offsetSize \in 0 .. lastId /\ t.ids \subseteq 0 .. t.offsetSize - 1
            /\ t.made = [i \in t.ids |-> <<names[i], types[i]>>]
        BY <1>4, <2>2, <3>1 DEF Resolves
      <3>3. \A i \in t.ids : i \in DOMAIN names' /\ names'[i] = names[i]
        BY <1>5, <3>1, <3>2
      <3>4. /\ t.ids \subseteq {i \in DOMAIN names' : names'[i] # Undefined}
            /\ t.made = [i \in t.ids |-> <<names'[i], types[i]>>]
        BY <3>2, <3>3
      <3> QED
        BY <1>4, <3>1, <3>2, <3>4 DEF Resolves
    <2> QED
      BY <2>1, <2>2
  <1> QED
    BY <1>2, <1>3, <1>7, <1>8 DEF FieldsInv

LEMMA TemplateSet ==
  ASSUME FieldsInv, UNCHANGED tableVars, DOMAIN template' = UrHandles,
         \A h \in UrHandles : template'[h] = template[h] \/ Resolves(template'[h], Table)
  PROVE  FieldsInv'
  <1>1. Table' = Table
    BY DEF tableVars, Table
  <1> QED
    BY <1>1 DEF FieldsInv, tableVars

LEMMA CreateKeeps ==
  ASSUME FieldsInv, NEW h \in UrHandles, NEW fields \in SUBSET NameSet,
         CreateTemplate(h, fields) \/ ExpandTemplate(h, fields)
  PROVE  FieldsInv'
  <1>1. CASE CreateTemplate(h, fields)
    <2>1. Resolves(Made(Table, fields), Table)
      BY <1>1, MadeResolves DEF CreateTemplate, FieldsInv
    <2>2. template' = [template EXCEPT ![h] = Made(Table, fields)] /\ UNCHANGED tableVars
      BY <1>1 DEF CreateTemplate
    <2>3. /\ DOMAIN template' = UrHandles /\ template'[h] = Made(Table, fields)
          /\ \A g \in UrHandles : g # h => template'[g] = template[g]
      BY <2>2 DEF FieldsInv
    <2> QED
      BY <2>1, <2>2, <2>3, TemplateSet
  <1>2. CASE ExpandTemplate(h, fields)
    <2> DEFINE all == fields \cup {names[id] : id \in template[h].ids}
    <2>1. CanMake(Table, fields) /\ template' = [template EXCEPT ![h] = Made(Table, all)]
          /\ UNCHANGED tableVars
      BY <1>2 DEF ExpandTemplate
    <2>2. \A id \in template[h].ids : id \in DOMAIN names /\ names[id] # Undefined
      <3>1. Resolves(template[h], Table) /\ Table.names = names
        BY DEF FieldsInv, Table
      <3>2. template[h] = NoTemplate => template[h].ids = {}
        BY DEF NoTemplate
      <3> QED
        BY <3>1, <3>2 DEF Resolves
    <2>3. \A id \in DOMAIN names : names[id] \in NameSet \cup {Undefined}
      BY DEF FieldsInv, TableRight, TableTypes, Table
    <2>4. all \in SUBSET NameSet
      BY <2>2, <2>3
    <2>5. CanMake(Table, all)
      <3>1. Table.names = names
        BY DEF Table
      <3>2. \A id \in template[h].ids : id \in IdsOf(names, names[id])
        BY <2>2 DEF IdsOf
      <3> QED
        BY <2>1, <3>1, <3>2 DEF CanMake
    <2>6. Resolves(Made(Table, all), Table)
      BY <2>4, <2>5, MadeResolves DEF FieldsInv
    <2>7. /\ DOMAIN template' = UrHandles /\ template'[h] = Made(Table, all)
          /\ \A g \in UrHandles : g # h => template'[g] = template[g]
      BY <2>1 DEF FieldsInv
    <2> QED
      BY <2>1, <2>6, <2>7, TemplateSet
  <1> QED
    BY <1>1, <1>2

LEMMA UpdateTemplateKeeps ==
  ASSUME FieldsInv, NEW h \in UrHandles, NEW spec \in DataFmts, UpdateTemplate(h, spec)
  PROVE  FieldsInv'
  <1> DEFINE d == DefinedSet(spec)
             fields == {spec[i][1] : i \in DOMAIN spec}
  <1>1. /\ TableRight(d.table) /\ KeepsFields(Table, d.table)
        /\ d.ok => \A i \in DOMAIN spec : IdsOf(d.table.names, spec[i][1]) # {}
    BY DefinedSetRight DEF FieldsInv
  <1>2. /\ SetTable(d.table) /\ urInit' = TRUE
        /\ template' = [template EXCEPT ![h] = IF d.ok THEN Made(d.table, fields) ELSE NoTemplate]
    BY DEF UpdateTemplate
  <1>3. fields \in SUBSET NameSet
    BY FieldsAssumption DEF NameSet
  <1>4. d.ok => Resolves(Made(d.table, fields), d.table)
    BY <1>1, <1>3, MadeResolves DEF CanMake
  <1>5. Resolves(NoTemplate, d.table)
    BY DEF Resolves
  <1>6. DOMAIN template' = UrHandles
    BY <1>2 DEF FieldsInv
  <1>7. \A g \in UrHandles : template'[g] = template[g] \/ Resolves(template'[g], d.table)
    <2>1. DOMAIN template = UrHandles
      BY DEF FieldsInv
    <2> HIDE DEF d, fields
    <2> QED
      BY <1>2, <1>4, <1>5, <2>1
  <1> HIDE DEF d, fields
  <1> QED
    BY <1>1, <1>2, <1>6, <1>7, TableSet

LEMMA DefineFieldKeeps ==
  ASSUME FieldsInv, NEW n \in FieldNames, NEW ty \in FieldTypes, DefineField(n, ty)
  PROVE  FieldsInv'
  <1> DEFINE t == Defined(Table, n, ty).table
  <1>1. TableRight(t) /\ KeepsFields(Table, t)
    BY DefinedRight DEF FieldsInv, NameSet
  <1>2. SetTable(t) /\ urInit' = TRUE /\ template' = template
    BY DEF DefineField
  <1> HIDE DEF t
  <1> QED
    BY <1>1, <1>2, TableSet DEF FieldsInv

(* The table as it begins, and as ur_finalize leaves it.                   *)
FieldsBegin ==
  /\ names = [id \in 0 .. StaticId - 1 |-> StaticNames[id + 1]]
  /\ types = [id \in 0 .. StaticId - 1 |-> StaticTypes[id + 1]]
  /\ lastId = StaticId /\ allocated = StaticId /\ undefineFields = <<>> /\ urInit = FALSE
  /\ template = [h \in UrHandles |-> NoTemplate]

LEMMA BeginRight ==
  ASSUME FieldsBegin
  PROVE  FieldsInv
  <1>1. /\ Table.names = names /\ Table.types = types /\ Table.last = lastId
        /\ Table.allocated = StaticId + Room /\ Table.undefine = undefineFields
    BY DEF FieldsBegin, Table
  <1>2. TableRight(Table)
    BY <1>1, StaticTable DEF FieldsBegin
  <1> QED
    BY <1>2 DEF FieldsBegin, FieldsInv, Resolves

LEMMA FieldsInvariance == FieldsSpec => []FieldsInv
  <1>1. FieldsInit => FieldsInv
    BY BeginRight DEF FieldsInit, FieldsBegin
  <1>2. FieldsInv /\ [FieldsNext]_fieldVars => FieldsInv'
    <2> SUFFICES ASSUME FieldsInv, [FieldsNext]_fieldVars PROVE FieldsInv'
      OBVIOUS
    <2>1. CASE \E n \in FieldNames, ty \in FieldTypes : DefineField(n, ty)
      BY <2>1, DefineFieldKeeps
    <2>2. CASE \E id \in DOMAIN names : UndefineField(id)
      BY <2>2, UndefineFieldKeeps
    <2>3. CASE \E h \in UrHandles : \E fields \in SUBSET (FieldNames \cup ToSet(StaticNames)) :
                 CreateTemplate(h, fields) \/ ExpandTemplate(h, fields)
      BY <2>3, CreateKeeps DEF NameSet
    <2>4. CASE \E h \in UrHandles : \E spec \in DataFmts : UpdateTemplate(h, spec)
      BY <2>4, UpdateTemplateKeeps
    <2>5. CASE UrFinalize
      <3>1. FieldsBegin'
        BY <2>5 DEF UrFinalize, FieldsBegin
      <3>2. FieldsBegin' => FieldsInv'
        BY BeginRight, PTL
      <3> QED
        BY <3>1, <3>2
    <2>6. CASE UNCHANGED fieldVars
      <3>1. Table' = Table
        BY <2>6 DEF fieldVars, Table
      <3> QED
        BY <2>6, <3>1 DEF fieldVars, FieldsInv
    <2> QED
      BY <2>1, <2>2, <2>3, <2>4, <2>5, <2>6 DEF FieldsNext
  <1> QED
    BY <1>1, <1>2, PTL DEF FieldsSpec

(* However fields were defined, undefined and defined again, and whatever  *)
(* formats were announced, a template finds behind each of its ids the     *)
(* field it was made for (TemplatesResolve).                               *)
THEOREM TemplatesFindFields == FieldsSpec => []TemplatesResolve
  <1>1. FieldsInv => TemplatesResolve
    <2> SUFFICES ASSUME FieldsInv PROVE TemplatesResolve
      OBVIOUS
    <2>1. /\ Table.names = names /\ Table.types = types /\ Table.last = lastId
          /\ Table.undefine = undefineFields
      BY DEF Table
    <2>2. /\ \A i, j \in DOMAIN names : names[i] = names[j] /\ names[i] # Undefined => i = j
          /\ ToSet(undefineFields) = {id \in DOMAIN names : names[id] = Undefined}
          /\ IsInjective(undefineFields) /\ DOMAIN names = 0 .. lastId - 1
      BY <2>1 DEF FieldsInv, TableRight, TableTypes
    <2>3. lastId <= allocated /\ allocated <= Max({MaxFields, StaticId + Room})
      <3>1. /\ StaticId \in Nat /\ Room \in Nat /\ MaxFields \in Nat
        BY FieldsAssumption DEF StaticId
      <3>2. Max({MaxFields, StaticId + Room}) =
              IF MaxFields <= StaticId + Room THEN StaticId + Room ELSE MaxFields
        <4>1. MaxFields \in Int /\ StaticId + Room \in Int
          BY <3>1
        <4> QED
          BY <4>1, MinMaxOf
      <3>3. CASE urInit
        <4>1. Table.allocated = allocated
          BY <3>3 DEF Table
        <4> QED
          BY <2>1, <3>1, <3>2, <4>1 DEF FieldsInv, TableRight, TableTypes
      <3>4. CASE ~ urInit
        BY <3>1, <3>2, <3>4 DEF FieldsInv
      <3> QED
        BY <3>3, <3>4
    <2>4. ASSUME NEW h \in UrHandles, NEW id \in template[h].ids
          PROVE  /\ id < template[h].offsetSize
                 /\ template[h].made[id] = <<names[id], types[id]>>
      <3>1. Resolves(template[h], Table) /\ template[h] # NoTemplate
        BY <2>4 DEF FieldsInv, NoTemplate
      <3>2. /\ template[h].offsetSize \in 0 .. lastId
            /\ template[h].ids \subseteq 0 .. template[h].offsetSize - 1
            /\ template[h].made = [i \in template[h].ids |-> <<names[i], types[i]>>]
        BY <2>1, <3>1 DEF Resolves
      <3>3. lastId \in Nat
        BY <2>1 DEF FieldsInv, TableRight, TableTypes
      <3> QED
        BY <2>4, <3>2, <3>3
    <2> QED
      BY <2>2, <2>3, <2>4 DEF TemplatesResolve
  <1> QED
    BY <1>1, FieldsInvariance, PTL

-----------------------------------------------------------------------------
(* The prefix search.                                                      *)

(* Networks.  The function behind TwoTo exists, by induction on its domain.*)
Doubles(f, m) == f = [k \in 0 .. m |-> IF k = 0 THEN 1 ELSE 2 * f[k - 1]]

LEMMA DoublesExists ==
  ASSUME NEW N \in Nat
  PROVE  \E f : Doubles(f, N)
  <1> DEFINE T == {m \in Nat : ~ \E f : Doubles(f, m)}
  <1>1. SUFFICES ASSUME T # {} PROVE FALSE
    OBVIOUS
  <1>2. PICK m \in T : \A n \in T : m <= n
    BY <1>1, LeastIn
  <1>3. m # 0
    <2>1. Doubles([k \in 0 .. 0 |-> 1], 0)
      BY DEF Doubles
    <2> QED
      BY <2>1
  <1>4. m - 1 \in Nat /\ m - 1 \notin T
    BY <1>2, <1>3
  <1>5. PICK f : Doubles(f, m - 1)
    BY <1>4
  <1> DEFINE g == [k \in 0 .. m |-> IF k = m THEN 2 * f[m - 1] ELSE f[k]]
  <1>6. Doubles(g, m)
    <2>1. ASSUME NEW k \in 0 .. m
          PROVE  g[k] = IF k = 0 THEN 1 ELSE 2 * g[k - 1]
      <3>1. CASE k = m
        BY <1>3, <1>4, <3>1
      <3>2. CASE k # m
        <4>1. k \in 0 .. m - 1 /\ g[k] = f[k] /\ (k # 0 => k - 1 \in 0 .. m /\ k - 1 # m)
          BY <1>4, <3>2
        <4>2. f[k] = IF k = 0 THEN 1 ELSE 2 * f[k - 1]
          BY <1>5, <4>1 DEF Doubles
        <4>3. k # 0 => g[k - 1] = f[k - 1]
          BY <4>1
        <4> QED
          BY <4>1, <4>2, <4>3
      <3> QED
        BY <3>1, <3>2
    <2> QED
      BY <2>1 DEF Doubles
  <1> QED
    BY <1>2, <1>6

LEMMA TwoToIs == /\ TwoTo[0] = 1
                 /\ \A k \in 1 .. Bits : TwoTo[k] = 2 * TwoTo[k - 1]
  <1>1. Bits \in Nat
    BY PrefixAssumption
  <1>2. \E f : Doubles(f, Bits)
    BY <1>1, DoublesExists
  <1>3. TwoTo = CHOOSE f : Doubles(f, Bits)
    BY DEF TwoTo, Doubles
  <1>4. Doubles(TwoTo, Bits)
    BY <1>2, <1>3
  <1>5. \A k \in 0 .. Bits : TwoTo[k] = IF k = 0 THEN 1 ELSE 2 * TwoTo[k - 1]
    BY <1>4 DEF Doubles
  <1> QED
    BY <1>1, <1>5

LEMMA TwoToPositive == \A k \in 0 .. Bits : TwoTo[k] \in Nat \ {0}
  <1> DEFINE T == {k \in 0 .. Bits : TwoTo[k] \notin Nat \ {0}}
  <1>1. SUFFICES ASSUME T # {} PROVE FALSE
    OBVIOUS
  <1>2. T \in SUBSET Nat
    BY PrefixAssumption
  <1>3. PICK m \in T : \A n \in T : m <= n
    BY <1>1, <1>2, LeastIn
  <1>4. m # 0
    BY <1>3, TwoToIs
  <1>5. m - 1 \in 0 .. Bits /\ m \in 1 .. Bits /\ m - 1 \notin T
    BY <1>3, <1>4, PrefixAssumption
  <1> QED
    BY <1>3, <1>5, TwoToIs

(* The greater of two sizes is a multiple of the other.                    *)
LEMMA TwoToDivides ==
  ASSUME NEW a \in 0 .. Bits
  PROVE  \A b \in a .. Bits : \E q \in Nat \ {0} : TwoTo[b] = TwoTo[a] * q
  <1> DEFINE T == {b \in a .. Bits : ~ \E q \in Nat \ {0} : TwoTo[b] = TwoTo[a] * q}
  <1>1. SUFFICES ASSUME T # {} PROVE FALSE
    OBVIOUS
  <1>2. T \in SUBSET Nat
    BY PrefixAssumption
  <1>3. PICK m \in T : \A n \in T : m <= n
    BY <1>1, <1>2, LeastIn
  <1>4. m # a
    <2>1. TwoTo[a] = TwoTo[a] * 1
      BY TwoToPositive
    <2> QED
      BY <1>3, <2>1
  <1>5. m - 1 \in a .. Bits /\ m \in 1 .. Bits /\ m - 1 \notin T
    BY <1>3, <1>4, PrefixAssumption
  <1>6. PICK q \in Nat \ {0} : TwoTo[m - 1] = TwoTo[a] * q
    BY <1>5
  <1>7. TwoTo[m] = TwoTo[a] * (2 * q) /\ 2 * q \in Nat \ {0}
    BY <1>5, <1>6, TwoToIs, TwoToPositive
  <1> QED
    BY <1>3, <1>7

LEMMA NetworkIs ==
  ASSUME NEW n \in AllNetworks
  PROVE  \E k \in 0 .. Bits, x \in Int :
           n = [low |-> TwoTo[k] * x, high |-> TwoTo[k] * x + TwoTo[k] - 1]
  <1>1. PICK addr \in Addresses, mask \in 0 .. Bits : n = NetworkOf(addr, mask)
    BY DEF AllNetworks
  <1> DEFINE size == TwoTo[Bits - mask]
             low == addr - (addr % size)
  <1>2. Bits - mask \in 0 .. Bits /\ size \in Nat \ {0} /\ addr \in Int
    BY TwoToPositive, PrefixAssumption DEF Addresses
  <1>3. n = [low |-> low, high |-> low + size - 1]
    BY <1>1 DEF NetworkOf
  <1> HIDE DEF size
  <1>4. addr \div size \in Int /\ low = size * (addr \div size)
    BY <1>2
  <1> QED
    BY <1>2, <1>3, <1>4 DEF size

LEMMA NetworkType ==
  ASSUME NEW n \in AllNetworks
  PROVE  n \in [low : Int, high : Int] /\ n.low <= n.high
  <1>1. PICK k \in 0 .. Bits, x \in Int :
          n = [low |-> TwoTo[k] * x, high |-> TwoTo[k] * x + TwoTo[k] - 1]
    BY NetworkIs
  <1>2. TwoTo[k] \in Nat \ {0} /\ TwoTo[k] * x \in Int
    BY TwoToPositive
  <1> QED
    BY <1>1, <1>2

LEMMA Multiples ==
  ASSUME NEW s \in Nat \ {0}, NEW q \in Nat \ {0}, NEW x \in Int, NEW y \in Int,
         NEW ip \in Int, s * x <= ip, ip <= s * x + s - 1,
         s * q * y <= ip, ip <= s * q * y + s * q - 1
  PROVE  s * q * y <= s * x /\ s * x + s - 1 <= s * q * y + s * q - 1
  <1> DEFINE w == q * y
  <1>1. w \in Int /\ s * q * y = s * w /\ s * q * y + s * q = s * (w + q)
    OBVIOUS
  <1> HIDE DEF w
  <1>2. s * w < s * (x + 1) /\ s * x < s * (w + q)
    BY <1>1
  <1>3. w < x + 1 /\ x < w + q
    BY <1>1, <1>2
  <1>4. w <= x /\ x + 1 <= w + q
    BY <1>1, <1>3
  <1>5. s * w <= s * x /\ s * (x + 1) <= s * (w + q)
    BY <1>1, <1>4
  <1> QED
    BY <1>1, <1>5

(* Two networks that share an address are nested.                          *)
LEMMA Nested ==
  ASSUME NEW m \in AllNetworks, NEW n \in AllNetworks, NEW ip \in Int,
         m.low <= ip, ip <= m.high, n.low <= ip, ip <= n.high
  PROVE  \/ n.low <= m.low /\ m.high <= n.high
         \/ m.low <= n.low /\ n.high <= m.high
  <1>1. PICK a \in 0 .. Bits, x \in Int :
          m = [low |-> TwoTo[a] * x, high |-> TwoTo[a] * x + TwoTo[a] - 1]
    BY NetworkIs
  <1>2. PICK b \in 0 .. Bits, y \in Int :
          n = [low |-> TwoTo[b] * y, high |-> TwoTo[b] * y + TwoTo[b] - 1]
    BY NetworkIs
  <1>3. TwoTo[a] \in Nat \ {0} /\ TwoTo[b] \in Nat \ {0}
    BY TwoToPositive
  <1>4. CASE a <= b
    <2>1. PICK q \in Nat \ {0} : TwoTo[b] = TwoTo[a] * q
      BY <1>4, TwoToDivides, PrefixAssumption
    <2> QED
      BY <1>1, <1>2, <1>3, <2>1, Multiples
  <1>5. CASE b <= a
    <2>1. PICK q \in Nat \ {0} : TwoTo[a] = TwoTo[b] * q
      BY <1>5, TwoToDivides, PrefixAssumption
    <2> QED
      BY <1>1, <1>2, <1>3, <2>1, Multiples
  <1> QED
    BY <1>4, <1>5, PrefixAssumption
-----------------------------------------------------------------------------
(* Where the next network lies.                                            *)
LEMMA PrefixTypes ==
  ASSUME PrefixTypeOK
  PROVE  /\ Len(intervals) \in Nat /\ DOMAIN intervals = 1 .. Len(intervals)
         /\ Len(networks) \in Nat /\ DOMAIN networks = 1 .. Len(networks)
         /\ \A i \in DOMAIN intervals :
              /\ intervals[i] \in Intervals
              /\ intervals[i].low \in Int /\ intervals[i].high \in Int
              /\ intervals[i].data \in Seq(Nat)
         /\ \A k \in DOMAIN networks :
              /\ networks[k] \in AllNetworks /\ networks[k].low \in Int
              /\ networks[k].high \in Int /\ networks[k].low <= networks[k].high
  <1>1. \A k \in DOMAIN networks : networks[k] \in AllNetworks
    BY DEF PrefixTypeOK
  <1>2. \A k \in DOMAIN networks : /\ networks[k].low \in Int /\ networks[k].high \in Int
                                   /\ networks[k].low <= networks[k].high
    BY <1>1, NetworkType
  <1>3. \A i \in DOMAIN intervals : intervals[i] \in Intervals
    BY DEF PrefixTypeOK
  <1>4. \A i \in DOMAIN intervals : /\ intervals[i].low \in Int /\ intervals[i].high \in Int
                                    /\ intervals[i].data \in Seq(Nat)
    BY <1>3 DEF Intervals
  <1> QED
    BY <1>1, <1>2, <1>3, <1>4 DEF PrefixTypeOK

LEMMA UpcomingInOrder ==
  ASSUME PrefixInv, NEW n \in Upcoming
  PROVE  /\ n \in AllNetworks /\ n.low \in Int /\ n.high \in Int /\ n.low <= n.high
         /\ \A k \in DOMAIN networks : InOrder(networks[k], n)
  <1>1. n \in AllNetworks /\ (networks = <<>> \/ InOrder(Last(networks), n))
    BY DEF Upcoming
  <1>2. n.low \in Int /\ n.high \in Int /\ n.low <= n.high
    BY <1>1, NetworkType
  <1>3. ASSUME NEW k \in DOMAIN networks PROVE InOrder(networks[k], n)
    <2>1. networks # <<>> /\ Len(networks) \in DOMAIN networks
      BY PrefixTypes DEF PrefixInv
    <2>2. Last(networks) = networks[Len(networks)]
      BY DEF Last
    <2>3. Last(networks).low \in Int /\ Last(networks).high \in Int
      BY <2>1, <2>2, PrefixTypes DEF PrefixInv
    <2>4. networks[k].low \in Int /\ networks[k].high \in Int
      BY PrefixTypes DEF PrefixInv
    <2>5. InOrder(networks[k], Last(networks)) /\ InOrder(Last(networks), n)
      BY <1>1, <2>1 DEF PrefixInv
    <2> QED
      BY <1>2, <2>3, <2>4, <2>5 DEF InOrder
  <1> QED
    BY <1>1, <1>2, <1>3

(* The first interval that does not end before the network: the network    *)
(* lies in it.                                                             *)
Met(n, i) ==
  /\ i \in DOMAIN intervals /\ n.low <= intervals[i].high
  /\ \A j \in DOMAIN intervals : j < i => intervals[j].high < n.low

LEMMA NetworkFits ==
  ASSUME PrefixInv, freed = <<>>, NEW n \in Upcoming, NEW i, Met(n, i)
  PROVE  intervals[i].low <= n.low /\ n.high <= intervals[i].high
  <1> DEFINE it == intervals[i]
  <1>1. /\ i \in DOMAIN intervals /\ n.low <= it.high /\ it.low <= it.high /\ it.data # <<>>
        /\ \A ip \in it.low .. it.high : Expected(it.data, ip)
    BY DEF Met, PrefixInv, InOrderAndRight
  <1>2. it.low \in Int /\ it.high \in Int /\ it.data \in Seq(Nat) /\ i \in Nat
    BY <1>1, PrefixTypes DEF PrefixInv
  <1>3. /\ n \in AllNetworks /\ n.low \in Int /\ n.high \in Int /\ n.low <= n.high
        /\ \A k \in DOMAIN networks : InOrder(networks[k], n)
    BY UpcomingInOrder
  <1>4. ASSUME it.low > n.low PROVE FALSE
    <2>1. 1 \in DOMAIN it.data
      BY <1>1, <1>2
    <2>2. PICK k \in Around(it.low) : k = it.data[1]
      BY <1>1, <1>2, <2>1 DEF Expected, Enumerates, ToSet
    <2>3. k \in DOMAIN networks /\ networks[k].low <= it.low /\ it.low <= networks[k].high
      BY DEF Around
    <2>4. networks[k].low \in Int /\ networks[k].high \in Int
      BY <2>3, PrefixTypes DEF PrefixInv
    <2>5. n.low \in networks[k].low .. networks[k].high
      BY <1>2, <1>3, <1>4, <2>3, <2>4 DEF InOrder
    <2>6. PICK j \in DOMAIN intervals : Leads(intervals[j], n.low)
      BY <2>3, <2>5 DEF PrefixInv, Covered
    <2>7. j \in Nat /\ intervals[j].low \in Int /\ intervals[j].high \in Int
      BY PrefixTypes DEF PrefixInv
    <2>8. ~ (j < i)
      BY <1>3, <2>6, <2>7 DEF Met, Leads
    <2>9. j # i
      BY <1>2, <1>3, <1>4, <2>6 DEF Leads
    <2>10. it.high < intervals[j].low
      BY <1>1, <1>2, <2>7, <2>8, <2>9 DEF PrefixInv, InOrderAndRight
    <2> QED
      BY <1>1, <1>2, <1>3, <2>6, <2>7, <2>10 DEF Leads
  <1>5. ASSUME n.high > it.high PROVE FALSE
    <2>1. PICK k \in DOMAIN networks : it.high \in {networks[k].high, networks[k].low - 1}
      BY <1>1 DEF PrefixInv, EndsRight
    <2>2. /\ networks[k] \in AllNetworks /\ networks[k].low \in Int
          /\ networks[k].high \in Int /\ networks[k].low <= networks[k].high
      BY PrefixTypes DEF PrefixInv
    <2>3. InOrder(networks[k], n) /\ networks[k].low <= n.low
      BY <1>3, <2>2 DEF InOrder
    <2>4. it.high = networks[k].high
      BY <1>1, <1>2, <1>3, <2>1, <2>2, <2>3
    <2>5. \/ n.low <= networks[k].low /\ networks[k].high <= n.high
          \/ networks[k].low <= n.low /\ n.high <= networks[k].high
      BY <1>1, <1>2, <1>3, <1>5, <2>2, <2>3, <2>4, Nested
    <2> QED
      BY <1>2, <1>3, <1>5, <2>2, <2>3, <2>4, <2>5 DEF InOrder
  <1> QED
    BY <1>2, <1>3, <1>4, <1>5

-----------------------------------------------------------------------------
(* What folding a network in leaves.                                       *)
LEMMA AroundGrows ==
  ASSUME PrefixTypeOK, NEW n, networks' = Append(networks, n), NEW ip
  PROVE  Around(ip)' = Around(ip) \cup (IF n.low <= ip /\ ip <= n.high THEN {NewData} ELSE {})
  <1>1. /\ DOMAIN networks' = DOMAIN networks \cup {NewData} /\ networks'[NewData] = n
        /\ \A k \in DOMAIN networks : networks'[k] = networks[k] /\ k # NewData
    BY PrefixTypes DEF PrefixTypeOK, NewData
  <1> QED
    BY <1>1 DEF Around

LEMMA ListGrows ==
  ASSUME NEW data \in Seq(Nat), NEW S \in SUBSET Nat, Enumerates(data, S),
         NEW new \in Nat, \A k \in S : k < new
  PROVE  Enumerates(Append(data, new), S \cup {new})
  <1> DEFINE more == Append(data, new)
  <1>1. /\ Len(data) \in Nat /\ DOMAIN data = 1 .. Len(data)
        /\ DOMAIN more = 1 .. Len(data) + 1 /\ more[Len(data) + 1] = new
        /\ \A i \in DOMAIN data : more[i] = data[i]
    OBVIOUS
  <1>2. DOMAIN more = DOMAIN data \cup {Len(data) + 1}
    BY <1>1
  <1> HIDE DEF more
  <1>3. ToSet(data) = S /\ \A i \in DOMAIN data : data[i] \in S
    BY DEF Enumerates, ToSet
  <1>4. ToSet(more) = S \cup {new}
    BY <1>1, <1>2, <1>3 DEF ToSet
  <1>5. ASSUME NEW i \in DOMAIN more, NEW j \in DOMAIN more, i < j PROVE more[i] < more[j]
    <2>1. i \in DOMAIN data
      BY <1>1, <1>5
    <2>2. CASE j \in DOMAIN data
      BY <1>1, <1>5, <2>1, <2>2 DEF Enumerates
    <2>3. CASE j = Len(data) + 1
      BY <1>1, <1>3, <2>1, <2>3
    <2> QED
      BY <1>2, <2>2, <2>3
  <1>6. Enumerates(more, S \cup {new})
    BY <1>4, <1>5 DEF Enumerates
  <1> QED
    BY <1>6 DEF more

-----------------------------------------------------------------------------
(* An interval is replaced by pieces of it.  The first piece ends before   *)
(* the network when the interval begins before it.                         *)
Split(P, con, n, new) ==
  /\ P \in Seq(Intervals) /\ P # <<>>
  /\ \A p \in DOMAIN P :
       /\ con.low <= P[p].low /\ P[p].low <= P[p].high /\ P[p].high <= con.high
       /\ P[p].high \in {con.high, n.high, n.low - 1}
       /\ \/ P[p].data = con.data /\ (P[p].high < n.low \/ n.high < P[p].low)
          \/ P[p].data = Append(con.data, new) /\ n.low <= P[p].low /\ P[p].high <= n.high
  /\ \A p, q \in DOMAIN P : p < q => P[p].high < P[q].low
  /\ \A ip \in con.low .. con.high : \E p \in DOMAIN P : Leads(P[p], ip)
  /\ con.low < n.low => P[1].high < n.low

IsReplaced(R, I, i, P) ==
  /\ R \in Seq(Intervals) /\ Len(R) = Len(I) + Len(P) - 1
  /\ \A j \in 1 .. i - 1 : R[j] = I[j]
  /\ \A p \in 1 .. Len(P) : R[i - 1 + p] = P[p]
  /\ \A j \in i + 1 .. Len(I) : R[j + Len(P) - 1] = I[j]

(* Where the interval at a place of the new list comes from.               *)
LEMMA Origin ==
  ASSUME NEW R, NEW I \in Seq(Intervals), NEW i \in DOMAIN I, NEW P \in Seq(Intervals),
         P # <<>>, IsReplaced(R, I, i, P), NEW r \in DOMAIN R
  PROVE  \/ r < i /\ r \in DOMAIN I /\ R[r] = I[r]
         \/ r - i + 1 \in DOMAIN P /\ R[r] = P[r - i + 1]
         \/ /\ r - Len(P) + 1 > i /\ r - Len(P) + 1 \in DOMAIN I
            /\ R[r] = I[r - Len(P) + 1]
  <1>1. /\ Len(R) \in Nat /\ DOMAIN R = 1 .. Len(R) /\ Len(I) \in Nat /\ DOMAIN I = 1 .. Len(I)
        /\ Len(P) \in Nat \ {0} /\ DOMAIN P = 1 .. Len(P) /\ Len(R) = Len(I) + Len(P) - 1
    BY DEF IsReplaced
  <1>2. CASE r < i
    BY <1>1, <1>2 DEF IsReplaced
  <1>3. CASE i <= r /\ r <= i + Len(P) - 1
    <2> DEFINE p == r - i + 1
    <2>1. p \in 1 .. Len(P) /\ r = i - 1 + p
      BY <1>1, <1>3
    <2> HIDE DEF p
    <2>2. R[r] = P[p]
      BY <2>1 DEF IsReplaced
    <2> QED
      BY <1>1, <2>1, <2>2 DEF p
  <1>4. CASE r > i + Len(P) - 1
    <2> DEFINE j == r - Len(P) + 1
    <2>1. j \in i + 1 .. Len(I) /\ r = j + Len(P) - 1
      BY <1>1, <1>4
    <2> HIDE DEF j
    <2>2. R[r] = I[j]
      BY <2>1 DEF IsReplaced
    <2> QED
      BY <1>1, <2>1, <2>2 DEF j
  <1> QED
    BY <1>1, <1>2, <1>3, <1>4

LEMMA Joined ==
  ASSUME NEW S, NEW A \in Seq(S), NEW B \in Seq(S)
  PROVE  /\ A \o B \in Seq(S) /\ Len(A \o B) = Len(A) + Len(B)
         /\ \A j \in 1 .. Len(A) : (A \o B)[j] = A[j]
         /\ \A j \in 1 .. Len(B) : (A \o B)[Len(A) + j] = B[j]
  BY ConcatProperties

LEMMA Inserted ==
  ASSUME NEW S, NEW A \in Seq(S), NEW P \in Seq(S), NEW Z \in Seq(S),
         NEW C, C = A \o P \o Z
  PROVE  /\ C \in Seq(S) /\ Len(C) = Len(A) + Len(P) + Len(Z)
         /\ \A j \in 1 .. Len(A) : C[j] = A[j]
         /\ \A p \in 1 .. Len(P) : C[Len(A) + p] = P[p]
         /\ \A j \in 1 .. Len(Z) : C[Len(A) + Len(P) + j] = Z[j]
  <1>1. PICK B : B = A \o P
    OBVIOUS
  <1>2. /\ B \in Seq(S) /\ Len(B) = Len(A) + Len(P)
        /\ \A j \in 1 .. Len(A) : B[j] = A[j]
        /\ \A j \in 1 .. Len(P) : B[Len(A) + j] = P[j]
    BY <1>1, Joined
  <1>3. C = B \o Z
    BY <1>1
  <1>4. /\ C \in Seq(S) /\ Len(C) = Len(B) + Len(Z)
        /\ \A j \in 1 .. Len(B) : C[j] = B[j]
        /\ \A j \in 1 .. Len(Z) : C[Len(B) + j] = Z[j]
    <2>1. B \in Seq(S)
      BY <1>2
    <2> QED
      BY <2>1, <1>3, Joined
  <1>5. Len(A) \in Nat /\ Len(P) \in Nat /\ Len(Z) \in Nat
    OBVIOUS
  <1>6. \A j \in 1 .. Len(A) : C[j] = A[j]
    BY <1>2, <1>4, <1>5
  <1>7. \A p \in 1 .. Len(P) : C[Len(A) + p] = P[p]
    BY <1>2, <1>4, <1>5
  <1>9. Len(C) = Len(A) + Len(P) + Len(Z)
    BY <1>2, <1>4
  <1>10. \A j \in 1 .. Len(Z) : C[Len(A) + Len(P) + j] = Z[j]
    BY <1>2, <1>4
  <1>11. C \in Seq(S)
    BY <1>4
  <1> QED
    BY <1>6, <1>7, <1>9, <1>10, <1>11

LEMMA ReplacedIs ==
  ASSUME PrefixTypeOK, NEW i \in DOMAIN intervals, NEW P \in Seq(Intervals), P # <<>>
  PROVE  IsReplaced(Replaced(i, P), intervals, i, P)
  <1>1. /\ intervals \in Seq(Intervals) /\ Len(intervals) \in Nat /\ i \in 1 .. Len(intervals)
        /\ Len(P) \in Nat \ {0}
    BY DEF PrefixTypeOK
  <1>2. PICK A : A = SubSeq(intervals, 1, i - 1)
    OBVIOUS
  <1>3. PICK Z : Z = SubSeq(intervals, i + 1, Len(intervals))
    OBVIOUS
  <1>4. /\ A \in Seq(Intervals) /\ Len(A) = i - 1
        /\ \A j \in 1 .. i - 1 : A[j] = intervals[j]
    BY <1>1, <1>2
  <1>5. /\ Z \in Seq(Intervals) /\ Len(Z) = Len(intervals) - i
        /\ \A j \in 1 .. Len(intervals) - i : Z[j] = intervals[j + i]
    BY <1>1, <1>3
  <1>0. PICK C : C = Replaced(i, P)
    OBVIOUS
  <1>10. C = A \o P \o Z
    BY <1>0, <1>2, <1>3 DEF Replaced
  <1>6. /\ C \in Seq(Intervals) /\ Len(C) = Len(A) + Len(P) + Len(Z)
        /\ \A j \in 1 .. Len(A) : C[j] = A[j]
        /\ \A p \in 1 .. Len(P) : C[Len(A) + p] = P[p]
        /\ \A j \in 1 .. Len(Z) : C[Len(A) + Len(P) + j] = Z[j]
    <2>1. A \in Seq(Intervals)
      BY <1>4
    <2>2. Z \in Seq(Intervals)
      BY <1>5
    <2> QED
      BY <1>10, <2>1, <2>2, Inserted
  <1>7. Len(C) = Len(intervals) + Len(P) - 1
    BY <1>1, <1>4, <1>5, <1>6
  <1>8. /\ \A j \in 1 .. i - 1 : C[j] = intervals[j]
        /\ \A p \in 1 .. Len(P) : C[i - 1 + p] = P[p]
    BY <1>4, <1>6
  <1>9. ASSUME NEW j \in i + 1 .. Len(intervals) PROVE C[j + Len(P) - 1] = intervals[j]
    <2>1. /\ j - i \in 1 .. Len(Z) /\ j - i + i = j
          /\ Len(A) + Len(P) + (j - i) = j + Len(P) - 1
      <3>1. Len(P) \in Nat /\ Len(intervals) \in Nat /\ i \in Int
        BY <1>1
      <3>2. Len(A) = i - 1 /\ Len(Z) = Len(intervals) - i
        BY <1>4, <1>5
      <3>3. PICK l \in Nat : l = Len(P)
        BY <3>1
      <3>4. PICK len \in Nat : len = Len(intervals)
        BY <3>1
      <3>5. j \in Int /\ i + 1 <= j /\ j <= len
        BY <3>1, <3>4
      <3>6. /\ j - i \in 1 .. len - i /\ j - i + i = j
            /\ i - 1 + l + (j - i) = j + l - 1
        BY <3>1, <3>5
      <3> QED
        BY <3>2, <3>3, <3>4, <3>6
    <2> QED
      BY <1>5, <1>6, <2>1
  <1> QED
    BY <1>0, <1>6, <1>7, <1>8, <1>9 DEF IsReplaced

(* An address outside of the network keeps its data, one inside of it gets *)
(* those of the network.                                                   *)
LEMMA DataGrows ==
  ASSUME PrefixTypeOK, NEW n, networks' = Append(networks, n), NEW new, new = NewData,
         NEW data \in Seq(Nat), NEW ip, Expected(data, ip)
  PROVE  /\ ~ (n.low <= ip /\ ip <= n.high) => Enumerates(data, Around(ip)')
         /\ n.low <= ip /\ ip <= n.high => Enumerates(Append(data, new), Around(ip)')
  <1>1. new \in Nat /\ Around(ip) \in SUBSET Nat /\ \A k \in Around(ip) : k < new
    BY PrefixTypes DEF NewData, Around
  <1>2. Around(ip)' = Around(ip) \cup (IF n.low <= ip /\ ip <= n.high THEN {new} ELSE {})
    BY AroundGrows
  <1>3. PICK S : S = Around(ip)
    OBVIOUS
  <1>4. Enumerates(data, S)
    BY <1>3 DEF Expected
  <1>5. Enumerates(Append(data, new), S \cup {new})
    BY <1>1, <1>3, <1>4, ListGrows
  <1>6. CASE n.low <= ip /\ ip <= n.high
    BY <1>2, <1>3, <1>5, <1>6
  <1>7. CASE ~ (n.low <= ip /\ ip <= n.high)
    BY <1>2, <1>3, <1>4, <1>7
  <1> QED
    BY <1>6, <1>7

LEMMA SplitKeeps ==
  ASSUME PrefixInv, freed = <<>>, NEW n \in Upcoming, networks' = Append(networks, n),
         NEW i, Met(n, i), NEW P, NEW new, new = NewData,
         Split(P, intervals[i], n, new), IsReplaced(intervals', intervals, i, P)
  PROVE  /\ intervals' \in Seq(Intervals) /\ InOrderAndRight' /\ Covered' /\ EndsRight'
         /\ \A r \in DOMAIN intervals' :
              (r < i \/ (r = i /\ intervals[i].low < n.low)) => intervals'[r].high < n.low
  <1>1. PICK R : R = intervals'
    OBVIOUS
  <1>2. PICK I : I = intervals
    OBVIOUS
  <1>3. PICK con : con = I[i]
    OBVIOUS
  <1>4. /\ I \in Seq(Intervals) /\ i \in DOMAIN I /\ P \in Seq(Intervals) /\ P # <<>>
        /\ IsReplaced(R, I, i, P) /\ Split(P, con, n, new) /\ R \in Seq(Intervals)
    BY <1>1, <1>2, <1>3 DEF Met, Split, IsReplaced, PrefixInv, PrefixTypeOK
  <1>5. /\ Len(I) \in Nat /\ DOMAIN I = 1 .. Len(I) /\ i \in Nat
        /\ Len(P) \in Nat \ {0} /\ DOMAIN P = 1 .. Len(P)
        /\ Len(R) = Len(I) + Len(P) - 1 /\ DOMAIN R = 1 .. Len(R)
    BY <1>4 DEF IsReplaced
  <1>6. /\ n \in AllNetworks /\ n.low \in Int /\ n.high \in Int /\ n.low <= n.high
        /\ con.low <= n.low /\ n.high <= con.high
        /\ \A j \in DOMAIN I : j < i => I[j].high < n.low
    BY <1>2, <1>3, UpcomingInOrder, NetworkFits DEF Met
  <1>7. /\ \A j \in DOMAIN I : /\ I[j].low \in Int /\ I[j].high \in Int /\ I[j].low <= I[j].high
                               /\ I[j].data \in Seq(Nat) /\ I[j].data # <<>>
                               /\ \A ip \in I[j].low .. I[j].high : Expected(I[j].data, ip)
        /\ \A j, k \in DOMAIN I : j < k => I[j].high < I[k].low
    <2>1. \A j \in DOMAIN I : I[j].low \in Int /\ I[j].high \in Int /\ I[j].data \in Seq(Nat)
      BY <1>2, PrefixTypes DEF PrefixInv
    <2> QED
      BY <1>2, <2>1 DEF PrefixInv, InOrderAndRight
  <1>8. \A p \in DOMAIN P : P[p].low \in Int /\ P[p].high \in Int
    <2>1. \A p \in DOMAIN P : P[p] \in Intervals
      BY <1>4
    <2> QED
      BY <2>1 DEF Intervals
  <1>9. /\ \A p \in DOMAIN P :
             /\ con.low <= P[p].low /\ P[p].low <= P[p].high /\ P[p].high <= con.high
             /\ P[p].high \in {con.high, n.high, n.low - 1}
             /\ \/ P[p].data = con.data /\ (P[p].high < n.low \/ n.high < P[p].low)
                \/ P[p].data = Append(con.data, new) /\ n.low <= P[p].low /\ P[p].high <= n.high
        /\ \A p, q \in DOMAIN P : p < q => P[p].high < P[q].low
        /\ \A ip \in con.low .. con.high : \E p \in DOMAIN P : Leads(P[p], ip)
        /\ con.low < n.low => P[1].high < n.low
    BY <1>4 DEF Split
  <1>10. /\ con.low \in Int /\ con.high \in Int /\ con.data \in Seq(Nat) /\ con.data # <<>>
         /\ \A ip \in con.low .. con.high : Expected(con.data, ip)
    BY <1>3, <1>4, <1>7
  <1>11. ASSUME NEW r \in DOMAIN R
         PROVE  \/ r < i /\ r \in DOMAIN I /\ R[r] = I[r]
                \/ r - i + 1 \in DOMAIN P /\ R[r] = P[r - i + 1]
                \/ /\ r - Len(P) + 1 > i /\ r - Len(P) + 1 \in DOMAIN I
                   /\ R[r] = I[r - Len(P) + 1]
    BY <1>4, <1>11, Origin
  <1>12. \A j \in DOMAIN I : (j < i => I[j].high < con.low) /\ (j > i => con.high < I[j].low)
    BY <1>3, <1>4, <1>7
  <1>13. ASSUME NEW r \in DOMAIN R, NEW s \in DOMAIN R, r < s
         PROVE  R[r].high < R[s].low
    <2>1. CASE r < i /\ r \in DOMAIN I /\ R[r] = I[r]
      <3>1. CASE s < i /\ s \in DOMAIN I /\ R[s] = I[s]
        BY <1>7, <1>13, <2>1, <3>1
      <3>2. CASE s - i + 1 \in DOMAIN P /\ R[s] = P[s - i + 1]
        BY <1>7, <1>8, <1>9, <1>10, <1>12, <2>1, <3>2
      <3>3. CASE /\ s - Len(P) + 1 > i /\ s - Len(P) + 1 \in DOMAIN I
                 /\ R[s] = I[s - Len(P) + 1]
        <4>1. r < s - Len(P) + 1
          BY <1>5, <2>1, <3>3
        <4> QED
          BY <1>7, <2>1, <3>3, <4>1
      <3> QED
        BY <1>11, <3>1, <3>2, <3>3
    <2>2. CASE r - i + 1 \in DOMAIN P /\ R[r] = P[r - i + 1]
      <3>1. ~ (s < i)
        BY <1>5, <1>13, <2>2
      <3>2. CASE s - i + 1 \in DOMAIN P /\ R[s] = P[s - i + 1]
        <4>1. r - i + 1 < s - i + 1
          BY <1>5, <1>13
        <4> QED
          BY <1>9, <2>2, <3>2, <4>1
      <3>3. CASE /\ s - Len(P) + 1 > i /\ s - Len(P) + 1 \in DOMAIN I
                 /\ R[s] = I[s - Len(P) + 1]
        BY <1>7, <1>8, <1>9, <1>10, <1>12, <2>2, <3>3
      <3> QED
        BY <1>11, <3>1, <3>2, <3>3
    <2>3. CASE /\ r - Len(P) + 1 > i /\ r - Len(P) + 1 \in DOMAIN I
               /\ R[r] = I[r - Len(P) + 1]
      <3>1. s - Len(P) + 1 > r - Len(P) + 1 /\ ~ (s < i) /\ ~ (s - i + 1 \in DOMAIN P)
        BY <1>5, <1>13, <2>3
      <3> QED
        BY <1>7, <1>11, <2>3, <3>1
    <2> QED
      BY <1>11, <2>1, <2>2, <2>3
  <1>14. ASSUME NEW r \in DOMAIN R, NEW j \in DOMAIN I, j # i, R[r] = I[j]
         PROVE  /\ R[r].low <= R[r].high /\ R[r].data # <<>>
                /\ \A ip \in R[r].low .. R[r].high : Enumerates(R[r].data, Around(ip)')
    <2>1. ASSUME NEW ip \in I[j].low .. I[j].high
          PROVE  Enumerates(I[j].data, Around(ip)')
      <3>1. ~ (n.low <= ip /\ ip <= n.high)
        <4>1. I[j].low \in Int /\ I[j].high \in Int /\ ip \in Int /\ I[j].low <= ip /\ ip <= I[j].high
          BY <1>7, <2>1
        <4>2. j < i \/ j > i
          BY <1>5, <1>14
        <4>3. I[j].high < con.low \/ con.high < I[j].low
          BY <1>12, <4>2
        <4> QED
          BY <1>6, <1>10, <4>1, <4>3
      <3>2. Expected(I[j].data, ip) /\ I[j].data \in Seq(Nat)
        BY <1>7
      <3>3. PICK data : data = I[j].data
        OBVIOUS
      <3> QED
        BY <3>1, <3>2, <3>3, DataGrows DEF PrefixInv
    <2> QED
      BY <1>7, <1>14, <2>1
  <1>15. ASSUME NEW r \in DOMAIN R, NEW p \in DOMAIN P, R[r] = P[p]
         PROVE  /\ R[r].low <= R[r].high /\ R[r].data # <<>>
                /\ \A ip \in R[r].low .. R[r].high : Enumerates(R[r].data, Around(ip)')
    <2>1. P[p].data # <<>>
      <3>1. Append(con.data, new) # <<>>
        BY <1>10
      <3> QED
        BY <1>9, <1>10, <3>1
    <2>2. ASSUME NEW ip \in P[p].low .. P[p].high
          PROVE  Enumerates(P[p].data, Around(ip)')
      <3>1. ip \in Int /\ ip \in con.low .. con.high /\ Expected(con.data, ip)
        BY <1>8, <1>9, <1>10
      <3>2. PICK data : data = con.data
        OBVIOUS
      <3>3. /\ ~ (n.low <= ip /\ ip <= n.high) => Enumerates(con.data, Around(ip)')
            /\ n.low <= ip /\ ip <= n.high => Enumerates(Append(con.data, new), Around(ip)')
        BY <1>10, <3>1, <3>2, DataGrows DEF PrefixInv
      <3>4. CASE P[p].data = con.data /\ (P[p].high < n.low \/ n.high < P[p].low)
        BY <1>6, <1>8, <3>3, <3>4
      <3>5. CASE P[p].data = Append(con.data, new) /\ n.low <= P[p].low /\ P[p].high <= n.high
        BY <1>6, <1>8, <3>3, <3>5
      <3> QED
        BY <1>9, <3>4, <3>5
    <2> QED
      BY <1>9, <1>15, <2>1, <2>2
  <1>16. InOrderAndRight'
    <2>1. ASSUME NEW r \in DOMAIN R
          PROVE  /\ R[r].low <= R[r].high /\ R[r].data # <<>>
                 /\ \A ip \in R[r].low .. R[r].high : Enumerates(R[r].data, Around(ip)')
      <3>1. \/ r < i /\ r \in DOMAIN I /\ R[r] = I[r]
            \/ r - i + 1 \in DOMAIN P /\ R[r] = P[r - i + 1]
            \/ /\ r - Len(P) + 1 > i /\ r - Len(P) + 1 \in DOMAIN I
               /\ R[r] = I[r - Len(P) + 1]
        BY <1>11
      <3>2. \/ \E j \in DOMAIN I : j # i /\ R[r] = I[j]
            \/ \E p \in DOMAIN P : R[r] = P[p]
        BY <1>5, <3>1
      <3> QED
        BY <1>14, <1>15, <3>2
    <2> QED
      BY <1>1, <1>13, <2>1 DEF InOrderAndRight, Expected

  <1>17. ASSUME NEW j \in DOMAIN I, NEW ip \in Int, Leads(I[j], ip)
         PROVE  \E r \in DOMAIN R : Leads(R[r], ip)
    <2>1. CASE j < i
      <3>1. j \in 1 .. i - 1 /\ j \in DOMAIN R
        BY <1>4, <1>5, <2>1
      <3>2. R[j] = I[j]
        BY <1>4, <3>1 DEF IsReplaced
      <3> QED
        BY <1>17, <3>1, <3>2
    <2>2. CASE j > i
      <3>1. j \in i + 1 .. Len(I) /\ j + Len(P) - 1 \in DOMAIN R
        BY <1>4, <1>5, <2>2
      <3>2. R[j + Len(P) - 1] = I[j]
        BY <1>4, <3>1 DEF IsReplaced
      <3> QED
        BY <1>17, <3>1, <3>2
    <2>3. CASE j = i
      <3>1. ip \in con.low .. con.high
        BY <1>3, <1>10, <1>17, <2>3 DEF Leads
      <3>2. PICK p \in DOMAIN P : Leads(P[p], ip)
        BY <1>9, <3>1
      <3>3. p \in 1 .. Len(P) /\ i - 1 + p \in DOMAIN R
        BY <1>4, <1>5
      <3>4. R[i - 1 + p] = P[p]
        BY <1>4, <3>3 DEF IsReplaced
      <3> QED
        BY <3>2, <3>3, <3>4
    <2> QED
      BY <1>5, <2>1, <2>2, <2>3
  <1>18. /\ new \in DOMAIN networks' /\ networks'[new] = n
         /\ \A k \in DOMAIN networks' : k # new => k \in DOMAIN networks /\ networks'[k] = networks[k]
         /\ \A k \in DOMAIN networks : k \in DOMAIN networks' /\ networks'[k] = networks[k]
    BY PrefixTypes DEF PrefixInv, PrefixTypeOK, NewData
  <1>19. Covered'
    <2>1. ASSUME NEW k \in DOMAIN networks', NEW ip \in networks'[k].low .. networks'[k].high
          PROVE  \E r \in DOMAIN R : Leads(R[r], ip)
      <3>1. CASE k = new
        <4>1. ip \in Int /\ Leads(con, ip)
          BY <1>6, <1>10, <1>18, <2>1, <3>1 DEF Leads
        <4> QED
          BY <1>3, <1>4, <1>17, <4>1
      <3>2. CASE k # new
        <4>1. k \in DOMAIN networks /\ ip \in networks[k].low .. networks[k].high
          BY <1>18, <2>1, <3>2
        <4>2. \E j \in DOMAIN I : Leads(I[j], ip)
          BY <1>2, <4>1 DEF PrefixInv, Covered
        <4>3. ip \in Int
          BY <4>1
        <4> QED
          BY <1>17, <4>2, <4>3
      <3> QED
        BY <3>1, <3>2
    <2> QED
      BY <1>1, <2>1 DEF Covered
  <1>20. EndsRight'
    <2>1. \A j \in DOMAIN I : \E k \in DOMAIN networks' :
            I[j].high \in {networks'[k].high, networks'[k].low - 1}
      <3>1. ASSUME NEW j \in DOMAIN I
            PROVE  \E k \in DOMAIN networks' :
                     I[j].high \in {networks'[k].high, networks'[k].low - 1}
        <4>1. PICK k \in DOMAIN networks : I[j].high \in {networks[k].high, networks[k].low - 1}
          BY <1>2 DEF PrefixInv, EndsRight
        <4>2. k \in DOMAIN networks' /\ networks'[k] = networks[k]
          BY <1>18
        <4> QED
          BY <4>1, <4>2
      <3> QED
        BY <3>1
    <2>2. ASSUME NEW r \in DOMAIN R
          PROVE  \E k \in DOMAIN networks' :
                   R[r].high \in {networks'[k].high, networks'[k].low - 1}
      <3>1. CASE \E j \in DOMAIN I : R[r] = I[j]
        BY <2>1, <3>1
      <3>2. ASSUME NEW p \in DOMAIN P, R[r] = P[p]
            PROVE  \E k \in DOMAIN networks' :
                     R[r].high \in {networks'[k].high, networks'[k].low - 1}
        <4>1. P[p].high \in {con.high, n.high, n.low - 1}
          BY <1>9
        <4>2. CASE P[p].high = con.high
          BY <1>3, <1>4, <2>1, <3>2, <4>2
        <4>3. CASE P[p].high \in {n.high, n.low - 1}
          BY <1>18, <3>2, <4>3
        <4> QED
          BY <4>1, <4>2, <4>3
      <3> QED
        BY <1>11, <3>1, <3>2
    <2> QED
      BY <1>1, <2>2 DEF EndsRight
  <1>21. ASSUME NEW r \in DOMAIN R, r < i \/ (r = i /\ con.low < n.low)
         PROVE  R[r].high < n.low
    <2>1. CASE r < i
      <3>1. r \in DOMAIN I /\ r \in 1 .. i - 1
        BY <1>4, <1>5, <2>1
      <3>2. R[r] = I[r]
        BY <1>4, <3>1 DEF IsReplaced
      <3> QED
        BY <1>6, <2>1, <3>1, <3>2
    <2>2. CASE r = i /\ con.low < n.low
      <3>1. 1 \in 1 .. Len(P) /\ i - 1 + 1 = r
        BY <1>5, <2>2
      <3>2. R[r] = P[1]
        BY <1>4, <3>1 DEF IsReplaced
      <3> QED
        BY <1>9, <2>2, <3>2
    <2> QED
      BY <1>21, <2>1, <2>2
  <1> QED
    BY <1>1, <1>2, <1>3, <1>4, <1>16, <1>19, <1>20, <1>21

(* A network behind all intervals becomes the last of them: none of the    *)
(* networks before it reaches its addresses.                               *)
Behind(n) == \A j \in DOMAIN intervals : intervals[j].high < n.low

LEMMA AppendKeeps ==
  ASSUME PrefixInv, freed = <<>>, NEW n \in Upcoming, networks' = Append(networks, n),
         Behind(n), NEW new, new = NewData,
         intervals' = Append(intervals, Interval(n.low, n.high, <<new>>))
  PROVE  /\ intervals' \in Seq(Intervals) /\ InOrderAndRight' /\ Covered' /\ EndsRight'
         /\ DOMAIN intervals' = 1 .. Len(intervals) + 1
         /\ \A j \in DOMAIN intervals : intervals'[j].high < n.low
  <1>1. PICK R : R = intervals'
    OBVIOUS
  <1>2. PICK I : I = intervals
    OBVIOUS
  <1>3. PICK last : last = Interval(n.low, n.high, <<new>>)
    OBVIOUS
  <1>4. /\ n \in AllNetworks /\ n.low \in Int /\ n.high \in Int /\ n.low <= n.high
        /\ \A j \in DOMAIN I : I[j].high < n.low
    BY <1>2, UpcomingInOrder DEF Behind
  <1>5. /\ last.low = n.low /\ last.high = n.high /\ last.data = <<new>> /\ new \in Nat
        /\ last \in Intervals
    BY <1>3, <1>4, PrefixTypes DEF Interval, Intervals, NewData, PrefixInv
  <1>6. /\ I \in Seq(Intervals) /\ Len(I) \in Nat /\ DOMAIN I = 1 .. Len(I) /\ R = Append(I, last)
    BY <1>1, <1>2, <1>3 DEF PrefixInv, PrefixTypeOK
  <1>7. /\ R \in Seq(Intervals) /\ DOMAIN R = 1 .. Len(I) + 1 /\ R[Len(I) + 1] = last
        /\ \A j \in DOMAIN I : R[j] = I[j]
    BY <1>5, <1>6
  <1>8. /\ \A j \in DOMAIN I : /\ I[j].low \in Int /\ I[j].high \in Int /\ I[j].low <= I[j].high
                               /\ I[j].data \in Seq(Nat) /\ I[j].data # <<>>
                               /\ \A ip \in I[j].low .. I[j].high : Expected(I[j].data, ip)
        /\ \A j, k \in DOMAIN I : j < k => I[j].high < I[k].low
    <2>1. \A j \in DOMAIN I : I[j].low \in Int /\ I[j].high \in Int /\ I[j].data \in Seq(Nat)
      BY <1>2, PrefixTypes DEF PrefixInv
    <2> QED
      BY <1>2, <2>1 DEF PrefixInv, InOrderAndRight
  <1>9. InOrderAndRight'
    <2>1. ASSUME NEW r \in DOMAIN R, NEW s \in DOMAIN R, r < s
          PROVE  R[r].high < R[s].low
      <3>1. r \in DOMAIN I
        BY <1>6, <1>7, <2>1
      <3>2. CASE s \in DOMAIN I
        BY <1>7, <1>8, <2>1, <3>1, <3>2
      <3>3. CASE s = Len(I) + 1
        BY <1>4, <1>5, <1>7, <3>1, <3>3
      <3> QED
        BY <1>6, <1>7, <3>2, <3>3
    <2>2. ASSUME NEW j \in DOMAIN I, NEW ip \in I[j].low .. I[j].high
          PROVE  Enumerates(I[j].data, Around(ip)')
      <3>1. ~ (n.low <= ip /\ ip <= n.high)
        BY <1>4, <1>8, <2>2
      <3>2. PICK data : data = I[j].data
        OBVIOUS
      <3> QED
        BY <1>8, <2>2, <3>1, <3>2, DataGrows DEF PrefixInv
    <2>3. ASSUME NEW ip \in n.low .. n.high
          PROVE  Enumerates(<<new>>, Around(ip)')
      <3>1. Around(ip) = {}
        <4>1. ASSUME NEW k \in Around(ip) PROVE FALSE
          <5>1. k \in DOMAIN networks /\ networks[k].low <= ip /\ ip <= networks[k].high
            BY DEF Around
          <5>2. networks[k].low \in Int /\ networks[k].high \in Int /\ ip \in Int /\ n.low <= ip
            BY <1>4, <2>3, <5>1, PrefixTypes DEF PrefixInv
          <5>3. PICK j \in DOMAIN I : Leads(I[j], ip)
            BY <1>2, <5>1, <5>2 DEF PrefixInv, Covered
          <5> QED
            BY <1>4, <1>8, <5>2, <5>3 DEF Leads
        <4> QED
          BY <4>1
      <3>2. Around(ip)' = {new}
        BY <1>4, <2>3, <3>1, AroundGrows DEF PrefixInv
      <3>3. DOMAIN <<new>> = {1} /\ <<new>>[1] = new
        OBVIOUS
      <3> QED
        BY <3>2, <3>3 DEF Enumerates, ToSet
    <2>4. ASSUME NEW r \in DOMAIN R
          PROVE  /\ R[r].low <= R[r].high /\ R[r].data # <<>>
                 /\ \A ip \in R[r].low .. R[r].high : Enumerates(R[r].data, Around(ip)')
      <3>1. CASE r \in DOMAIN I
        BY <1>7, <1>8, <2>2, <3>1
      <3>2. CASE r = Len(I) + 1
        <4>1. R[r] = last
          BY <1>7, <3>2
        <4>2. last.low = n.low /\ last.high = n.high /\ last.data = <<new>> /\ <<new>> # <<>>
          BY <1>5
        <4> QED
          BY <1>4, <2>3, <4>1, <4>2
      <3>3. r \in DOMAIN I \/ r = Len(I) + 1
        BY <1>6, <1>7
      <3> QED
        BY <3>1, <3>2, <3>3
    <2> QED
      BY <1>1, <2>1, <2>4 DEF InOrderAndRight, Expected
  <1>10. /\ new \in DOMAIN networks' /\ networks'[new] = n
         /\ \A k \in DOMAIN networks' : k # new => k \in DOMAIN networks /\ networks'[k] = networks[k]
         /\ \A k \in DOMAIN networks : k \in DOMAIN networks' /\ networks'[k] = networks[k]
    BY PrefixTypes DEF PrefixInv, PrefixTypeOK, NewData
  <1>11. Len(I) + 1 \in DOMAIN R /\ \A j \in DOMAIN I : j \in DOMAIN R
    BY <1>6, <1>7
  <1>12. Covered'
    <2>1. ASSUME NEW k \in DOMAIN networks', NEW ip \in networks'[k].low .. networks'[k].high
          PROVE  \E r \in DOMAIN R : Leads(R[r], ip)
      <3>1. CASE k = new
        <4>1. ip \in n.low .. n.high
          BY <1>10, <2>1, <3>1
        <4>2. R[Len(I) + 1].low = n.low /\ R[Len(I) + 1].high = n.high
          BY <1>5, <1>7
        <4>3. Leads(R[Len(I) + 1], ip)
          BY <1>4, <4>1, <4>2 DEF Leads
        <4> QED
          BY <1>11, <4>3
      <3>2. CASE k # new
        <4>1. k \in DOMAIN networks /\ ip \in networks[k].low .. networks[k].high
          BY <1>10, <2>1, <3>2
        <4>2. \E j \in DOMAIN I : Leads(I[j], ip)
          BY <1>2, <4>1 DEF PrefixInv, Covered
        <4> QED
          BY <1>7, <1>11, <4>2
      <3> QED
        BY <3>1, <3>2
    <2> QED
      BY <1>1, <2>1 DEF Covered
  <1>13. EndsRight'
    <2>1. ASSUME NEW r \in DOMAIN R
          PROVE  \E k \in DOMAIN networks' :
                   R[r].high \in {networks'[k].high, networks'[k].low - 1}
      <3>1. CASE r \in DOMAIN I
        <4>1. PICK k \in DOMAIN networks : I[r].high \in {networks[k].high, networks[k].low - 1}
          BY <1>2, <3>1 DEF PrefixInv, EndsRight
        <4> QED
          BY <1>7, <1>10, <3>1, <4>1
      <3>2. CASE r = Len(I) + 1
        BY <1>5, <1>7, <1>10, <3>2
      <3> QED
        BY <1>6, <1>7, <3>1, <3>2
    <2> QED
      BY <1>1, <2>1 DEF EndsRight
  <1> QED
    BY <1>1, <1>2, <1>4, <1>7, <1>9, <1>12, <1>13

-----------------------------------------------------------------------------
(* Where the construction finds the interval to split.                     *)
LEMMA LeastOf ==
  ASSUME NEW S \in SUBSET Nat, S # {}
  PROVE  Min(S) \in S /\ \A x \in S : Min(S) <= x
  BY LeastIn DEF Min

LEMMA EndBefore ==
  ASSUME PrefixInv, freed = <<>>, NEW n \in Upcoming, NEW j \in DOMAIN intervals, j < cursor
  PROVE  intervals[j].high < n.low
  <1>1. networks # <<>> /\ Len(networks) \in DOMAIN networks
    BY PrefixTypes DEF PrefixInv, EndsRight
  <1>2. Last(networks) = networks[Len(networks)] /\ Last(networks).low \in Int
    BY <1>1, PrefixTypes DEF PrefixInv, Last
  <1>3. Last(networks).low <= n.low
    BY <1>1, <1>2, UpcomingInOrder DEF InOrder
  <1>4. intervals[j].high < Last(networks).low
    BY DEF PrefixInv, CursorRight
  <1> QED
    BY <1>2, <1>3, <1>4, UpcomingInOrder, PrefixTypes DEF PrefixInv

(* Either all intervals end before the network, or there is a first one    *)
(* that does not.                                                          *)
LEMMA BehindOrMet ==
  ASSUME PrefixTypeOK, NEW n, ~ \E i : Met(n, i), n.low \in Int
  PROVE  Behind(n)
  <1> DEFINE T == {j \in DOMAIN intervals : ~ (intervals[j].high < n.low)}
  <1>1. T \in SUBSET Nat
    BY PrefixTypes
  <1>2. SUFFICES ASSUME T # {} PROVE FALSE
    BY DEF Behind
  <1>3. PICK i \in T : \A m \in T : i <= m
    BY <1>1, <1>2, LeastIn
  <1>4. ASSUME NEW j \in DOMAIN intervals, j < i PROVE intervals[j].high < n.low
    <2>1. j \in Nat /\ i \in Nat
      BY <1>1, <1>3, PrefixTypes
    <2> QED
      BY <1>3, <1>4, <2>1
  <1>5. Met(n, i)
    BY <1>3, <1>4, PrefixTypes DEF Met
  <1> QED
    BY <1>5

LEMMA ConductorMeets ==
  ASSUME PrefixInv, freed = <<>>, NEW n \in Upcoming
  PROVE  /\ Meets(n) => Met(n, Conductor(n))
         /\ Conductor(n) > Len(intervals) => Behind(n)
         /\ Conductor(n) \in 1 .. Len(intervals) + 1
  <1>1. n.low \in Int /\ cursor \in Nat \ {0}
    BY UpcomingInOrder DEF PrefixInv, PrefixTypeOK
  <1>2. /\ Len(intervals) \in Nat /\ DOMAIN intervals = 1 .. Len(intervals)
        /\ \A j \in DOMAIN intervals : intervals[j].high \in Int
    BY PrefixTypes DEF PrefixInv
  <1> DEFINE reached == {j \in cursor .. Len(intervals) : intervals[j].high >= n.low}
  <1>3. \A j \in DOMAIN intervals : j \notin reached => intervals[j].high < n.low
    BY <1>1, <1>2, EndBefore
  <1>4. reached \subseteq DOMAIN intervals /\ reached \in SUBSET Nat
    BY <1>1, <1>2
  <1>5. Conductor(n) = IF reached = {} THEN Len(intervals) + 1 ELSE Min(reached)
    BY DEF Conductor
  <1> HIDE DEF reached
  <1>6. CASE reached = {}
    <2>1. Conductor(n) = Len(intervals) + 1
      BY <1>5, <1>6
    <2> QED
      BY <1>2, <1>3, <1>6, <2>1 DEF Meets, Behind
  <1>7. CASE reached # {}
    <2>1. Min(reached) \in reached /\ \A j \in reached : Min(reached) <= j
      BY <1>4, <1>7, LeastOf
    <2>2. Conductor(n) = Min(reached) /\ Conductor(n) \in DOMAIN intervals
      BY <1>4, <1>5, <1>7, <2>1
    <2>3. \A j \in DOMAIN intervals : j < Conductor(n) => intervals[j].high < n.low
      BY <1>2, <1>3, <2>1, <2>2
    <2>4. n.low <= intervals[Conductor(n)].high
      BY <1>1, <1>2, <2>1, <2>2 DEF reached
    <2> QED
      BY <1>2, <2>2, <2>3, <2>4 DEF Met
  <1> QED
    BY <1>6, <1>7

LEMMA OverlappedMeets ==
  ASSUME PrefixInv, freed = <<>>, NEW n \in Upcoming
  PROVE  /\ Overlapped(n) # 0 => Met(n, Overlapped(n)) /\ cursor <= Overlapped(n)
         /\ Overlapped(n) = 0 => Behind(n)
  <1>1. n.low \in Int /\ n.high \in Int /\ n.low <= n.high /\ cursor \in Nat \ {0}
    BY UpcomingInOrder DEF PrefixInv, PrefixTypeOK
  <1>2. /\ Len(intervals) \in Nat /\ DOMAIN intervals = 1 .. Len(intervals)
        /\ \A j \in DOMAIN intervals : /\ intervals[j].high \in Int /\ intervals[j].low \in Int
                                       /\ intervals[j].low <= intervals[j].high
        /\ \A j, k \in DOMAIN intervals : j < k => intervals[j].high < intervals[k].low
    BY PrefixTypes DEF PrefixInv, InOrderAndRight
  <1> DEFINE over == {j \in cursor .. Len(intervals) :
                        intervals[j].low <= n.high /\ n.low <= intervals[j].high}
  <1>3. over \subseteq DOMAIN intervals /\ over \in SUBSET Nat
    BY <1>1, <1>2
  <1>4. Overlapped(n) = IF over = {} THEN 0 ELSE Min(over)
    BY DEF Overlapped
  <1> HIDE DEF over
  <1>5. ASSUME NEW i, Met(n, i) PROVE i \in over
    <2>1. i \in DOMAIN intervals /\ n.low <= intervals[i].high /\ ~ (i < cursor)
      BY <1>1, <1>2, <1>5, EndBefore DEF Met
    <2>2. intervals[i].low <= n.low
      BY <1>5, NetworkFits
    <2> QED
      BY <1>1, <1>2, <2>1, <2>2 DEF over
  <1>6. CASE over = {}
    <2>1. Overlapped(n) = 0 /\ ~ \E i : Met(n, i)
      BY <1>4, <1>5, <1>6
    <2> QED
      BY <1>1, <2>1, BehindOrMet DEF PrefixInv
  <1>7. CASE over # {}
    <2>1. Min(over) \in over /\ \A j \in over : Min(over) <= j
      BY <1>3, <1>7, LeastOf
    <2>2. PICK i : i = Overlapped(n)
      OBVIOUS
    <2>3. /\ i \in DOMAIN intervals /\ i \in Nat \ {0} /\ cursor <= i
          /\ intervals[i].low <= n.high /\ n.low <= intervals[i].high
          /\ \A j \in over : i <= j
      <3>1. i \in over /\ \A j \in over : i <= j
        BY <1>4, <1>7, <2>1, <2>2
      <3>2. /\ i \in cursor .. Len(intervals) /\ i \in DOMAIN intervals
            /\ intervals[i].low <= n.high /\ n.low <= intervals[i].high
        BY <1>3, <3>1 DEF over
      <3> QED
        BY <1>1, <1>2, <3>1, <3>2
    <2>4. ASSUME NEW j \in DOMAIN intervals, j < i PROVE intervals[j].high < n.low
      <3>1. CASE j < cursor
        BY <3>1, EndBefore
      <3>2. CASE ~ (j < cursor)
        <4>1. j \in cursor .. Len(intervals) /\ j \notin over
          BY <1>1, <1>2, <2>3, <2>4, <3>2 DEF over
        <4>2. intervals[j].high < intervals[i].low
          BY <1>2, <2>3, <2>4
        <4> QED
          BY <1>1, <1>2, <2>3, <4>1, <4>2 DEF over
      <3> QED
        BY <3>1, <3>2
    <2>5. Met(n, i)
      BY <2>3, <2>4 DEF Met
    <2> QED
      BY <2>2, <2>3, <2>5
  <1> QED
    BY <1>6, <1>7

-----------------------------------------------------------------------------
(* The four ways a network can lie in an interval.                         *)
LEMMA SplitInThreeRight ==
  ASSUME NEW con \in Intervals, NEW n, n.low \in Int, n.high \in Int, n.low <= n.high,
         NEW new \in Nat, con.low < n.low, n.high < con.high,
         NEW P, P = << Interval(con.low, n.low - 1, con.data),
                       Interval(n.low, n.high, Append(con.data, new)),
                       Interval(n.high + 1, con.high, con.data) >>
  PROVE  Split(P, con, n, new)
  <1>1. con.low \in Int /\ con.high \in Int /\ con.data \in Seq(Nat)
    BY DEF Intervals
  <1>2. Append(con.data, new) \in Seq(Nat)
    BY <1>1
  <1>3. /\ P[1].low = con.low /\ P[1].high = n.low - 1 /\ P[1].data = con.data
        /\ P[2].low = n.low /\ P[2].high = n.high /\ P[2].data = Append(con.data, new)
        /\ P[3].low = n.high + 1 /\ P[3].high = con.high /\ P[3].data = con.data
    BY DEF Interval
  <1>4. P[1] \in Intervals /\ P[2] \in Intervals /\ P[3] \in Intervals
    BY <1>1, <1>2 DEF Interval, Intervals
  <1>5. P \in Seq(Intervals) /\ P # <<>> /\ DOMAIN P = {1, 2, 3}
    BY <1>4
  <1>6. \A ip \in con.low .. con.high : \E p \in DOMAIN P : Leads(P[p], ip)
    <2>1. ASSUME NEW ip \in con.low .. con.high PROVE \E p \in DOMAIN P : Leads(P[p], ip)
      <3>1. ip <= n.low - 1 \/ (n.low <= ip /\ ip <= n.high) \/ n.high + 1 <= ip
        BY <1>1
      <3>2. con.low <= ip /\ ip <= con.high
        BY <1>1
      <3> QED
        BY <1>3, <1>5, <3>1, <3>2 DEF Leads
    <2> QED
      BY <2>1
  <1>7. ASSUME NEW p \in DOMAIN P
        PROVE  /\ con.low <= P[p].low /\ P[p].low <= P[p].high /\ P[p].high <= con.high
               /\ P[p].high \in {con.high, n.high, n.low - 1}
               /\ \/ P[p].data = con.data /\ (P[p].high < n.low \/ n.high < P[p].low)
                  \/ P[p].data = Append(con.data, new) /\ n.low <= P[p].low /\ P[p].high <= n.high
    <2>1. CASE p = 1
      BY <1>1, <1>3, <2>1
    <2>2. CASE p = 2
      BY <1>1, <1>3, <2>2
    <2>3. CASE p = 3
      BY <1>1, <1>3, <2>3
    <2> QED
      BY <1>5, <2>1, <2>2, <2>3
  <1>8. ASSUME NEW p \in DOMAIN P, NEW q \in DOMAIN P, p < q PROVE P[p].high < P[q].low
    <2>1. (p = 1 /\ q = 2) \/ (p = 1 /\ q = 3) \/ (p = 2 /\ q = 3)
      BY <1>5, <1>8
    <2>2. n.low - 1 < n.low /\ n.low - 1 < n.high + 1 /\ n.high < n.high + 1
      OBVIOUS
    <2> QED
      BY <1>3, <2>1, <2>2
  <1>9. P[1].high < n.low
    BY <1>3
  <1> QED
    BY <1>5, <1>6, <1>7, <1>8, <1>9 DEF Split

LEMMA CutEndRight ==
  ASSUME NEW con \in Intervals, NEW n, n.low \in Int, n.high \in Int, n.low <= n.high,
         NEW new \in Nat, con.low < n.low, n.high = con.high,
         NEW P, P = << Interval(con.low, n.low - 1, con.data),
                       Interval(n.low, n.high, Append(con.data, new)) >>
  PROVE  Split(P, con, n, new)
  <1>1. con.low \in Int /\ con.high \in Int /\ con.data \in Seq(Nat)
    BY DEF Intervals
  <1>2. Append(con.data, new) \in Seq(Nat)
    BY <1>1
  <1>3. /\ P[1].low = con.low /\ P[1].high = n.low - 1 /\ P[1].data = con.data
        /\ P[2].low = n.low /\ P[2].high = n.high /\ P[2].data = Append(con.data, new)
    BY DEF Interval
  <1>4. P[1] \in Intervals /\ P[2] \in Intervals
    BY <1>1, <1>2 DEF Interval, Intervals
  <1>5. P \in Seq(Intervals) /\ P # <<>> /\ DOMAIN P = {1, 2}
    BY <1>4
  <1>6. \A ip \in con.low .. con.high : \E p \in DOMAIN P : Leads(P[p], ip)
    <2>1. ASSUME NEW ip \in con.low .. con.high PROVE \E p \in DOMAIN P : Leads(P[p], ip)
      <3>1. Leads(P[1], ip) \/ Leads(P[2], ip)
        BY <1>1, <1>3 DEF Leads
      <3> QED
        BY <1>5, <3>1
    <2> QED
      BY <2>1
  <1>7. ASSUME NEW p \in DOMAIN P
        PROVE  /\ con.low <= P[p].low /\ P[p].low <= P[p].high /\ P[p].high <= con.high
               /\ P[p].high \in {con.high, n.high, n.low - 1}
               /\ \/ P[p].data = con.data /\ (P[p].high < n.low \/ n.high < P[p].low)
                  \/ P[p].data = Append(con.data, new) /\ n.low <= P[p].low /\ P[p].high <= n.high
    <2>1. CASE p = 1
      BY <1>1, <1>3, <2>1
    <2>2. CASE p = 2
      BY <1>1, <1>3, <2>2
    <2> QED
      BY <1>5, <2>1, <2>2
  <1>8. ASSUME NEW p \in DOMAIN P, NEW q \in DOMAIN P, p < q PROVE P[p].high < P[q].low
    BY <1>1, <1>3, <1>5, <1>8
  <1>9. P[1].high < n.low
    BY <1>3
  <1> QED
    BY <1>5, <1>6, <1>7, <1>8, <1>9 DEF Split

LEMMA CutStartRight ==
  ASSUME NEW con \in Intervals, NEW n, n.low \in Int, n.high \in Int, n.low <= n.high,
         NEW new \in Nat, con.low = n.low, n.high < con.high,
         NEW P, P = << Interval(n.low, n.high, Append(con.data, new)),
                       Interval(n.high + 1, con.high, con.data) >>
  PROVE  Split(P, con, n, new)
  <1>1. con.low \in Int /\ con.high \in Int /\ con.data \in Seq(Nat)
    BY DEF Intervals
  <1>2. Append(con.data, new) \in Seq(Nat)
    BY <1>1
  <1>3. /\ P[1].low = n.low /\ P[1].high = n.high /\ P[1].data = Append(con.data, new)
        /\ P[2].low = n.high + 1 /\ P[2].high = con.high /\ P[2].data = con.data
    BY DEF Interval
  <1>4. P[1] \in Intervals /\ P[2] \in Intervals
    BY <1>1, <1>2 DEF Interval, Intervals
  <1>5. P \in Seq(Intervals) /\ P # <<>> /\ DOMAIN P = {1, 2}
    BY <1>4
  <1>6. \A ip \in con.low .. con.high : \E p \in DOMAIN P : Leads(P[p], ip)
    <2>1. ASSUME NEW ip \in con.low .. con.high PROVE \E p \in DOMAIN P : Leads(P[p], ip)
      <3>1. Leads(P[1], ip) \/ Leads(P[2], ip)
        BY <1>1, <1>3 DEF Leads
      <3> QED
        BY <1>5, <3>1
    <2> QED
      BY <2>1
  <1>7. ASSUME NEW p \in DOMAIN P
        PROVE  /\ con.low <= P[p].low /\ P[p].low <= P[p].high /\ P[p].high <= con.high
               /\ P[p].high \in {con.high, n.high, n.low - 1}
               /\ \/ P[p].data = con.data /\ (P[p].high < n.low \/ n.high < P[p].low)
                  \/ P[p].data = Append(con.data, new) /\ n.low <= P[p].low /\ P[p].high <= n.high
    <2>1. CASE p = 1
      BY <1>1, <1>3, <2>1
    <2>2. CASE p = 2
      BY <1>1, <1>3, <2>2
    <2> QED
      BY <1>5, <2>1, <2>2
  <1>8. ASSUME NEW p \in DOMAIN P, NEW q \in DOMAIN P, p < q PROVE P[p].high < P[q].low
    BY <1>1, <1>3, <1>5, <1>8
  <1>9. ~ (con.low < n.low)
    OBVIOUS
  <1> QED
    BY <1>5, <1>6, <1>7, <1>8, <1>9 DEF Split

LEMMA AddToSameRight ==
  ASSUME NEW con \in Intervals, NEW n, n.low \in Int, n.high \in Int, n.low <= n.high,
         NEW new \in Nat, con.low = n.low, n.high = con.high,
         NEW P, P = << Interval(n.low, n.high, Append(con.data, new)) >>
  PROVE  Split(P, con, n, new)
  <1>1. con.low \in Int /\ con.high \in Int /\ con.data \in Seq(Nat)
    BY DEF Intervals
  <1>2. Append(con.data, new) \in Seq(Nat)
    BY <1>1
  <1>3. P[1].low = n.low /\ P[1].high = n.high /\ P[1].data = Append(con.data, new)
    BY DEF Interval
  <1>4. P[1] \in Intervals
    BY <1>1, <1>2 DEF Interval, Intervals
  <1>5. P \in Seq(Intervals) /\ P # <<>> /\ DOMAIN P = {1}
    BY <1>4
  <1>6. \A ip \in con.low .. con.high : \E p \in DOMAIN P : Leads(P[p], ip)
    BY <1>3, <1>5 DEF Leads
  <1> QED
    BY <1>1, <1>3, <1>5, <1>6 DEF Split

LEMMA ConcatOne ==
  ASSUME NEW a, NEW b, NEW c
  PROVE  /\ <<>> \o <<a>> = <<a>> /\ <<a>> \o <<b>> = <<a, b>>
         /\ <<a, b>> \o <<c>> = <<a, b, c>> /\ <<a, b>> \o <<>> = <<a, b>>
  <1>1. \A s \in Seq({a, b, c}), e \in {a, b, c} : s \o <<e>> = Append(s, e)
    OBVIOUS
  <1>2. <<>> \in Seq({a, b, c}) /\ <<a>> \in Seq({a, b, c}) /\ <<a, b>> \in Seq({a, b, c})
    OBVIOUS
  <1>3. Append(<<>>, a) = <<a>> /\ Append(<<a>>, b) = <<a, b>>
        /\ Append(<<a, b>>, c) = <<a, b, c>>
    <2>1. Append(<<>>, a) = <<a>>
      OBVIOUS
    <2>2. Append(<<a>>, b) = <<a, b>>
      <3>1. PICK s : s = Append(<<a>>, b)
        OBVIOUS
      <3>2. s \in Seq({a, b}) /\ Len(s) = 2 /\ s[1] = a /\ s[2] = b
        BY <3>1
      <3>3. PICK t : t = <<a, b>>
        OBVIOUS
      <3>4. t \in Seq({a, b}) /\ Len(t) = 2 /\ t[1] = a /\ t[2] = b
        BY <3>3
      <3>5. \A i \in 1 .. Len(s) : s[i] = t[i]
        BY <3>2, <3>4
      <3> QED
        BY <3>1, <3>2, <3>3, <3>4, <3>5, SeqEqual
    <2>3. Append(<<a, b>>, c) = <<a, b, c>>
      <3>1. PICK s : s = Append(<<a, b>>, c)
        OBVIOUS
      <3>2. s \in Seq({a, b, c}) /\ Len(s) = 3 /\ s[1] = a /\ s[2] = b /\ s[3] = c
        BY <3>1
      <3>3. PICK t : t = <<a, b, c>>
        OBVIOUS
      <3>4. t \in Seq({a, b, c}) /\ Len(t) = 3 /\ t[1] = a /\ t[2] = b /\ t[3] = c
        BY <3>3
      <3>5. \A i \in 1 .. Len(s) : s[i] = t[i]
        BY <3>2, <3>4
      <3> QED
        BY <3>1, <3>2, <3>3, <3>4, <3>5, SeqEqual
    <2> QED
      BY <2>1, <2>2, <2>3
  <1>4. <<a, b>> \o <<>> = <<a, b>>
    BY <1>2, ConcatEmptySeq
  <1>5. <<>> \o <<a>> = <<a>> /\ <<a>> \o <<b>> = <<a, b>> /\ <<a, b>> \o <<c>> = <<a, b, c>>
    BY <1>1, <1>2, <1>3, Zenon
  <1> QED
    BY <1>4, <1>5

LEMMA PiecesAre ==
  ASSUME NEW con \in Intervals, NEW n, n.low \in Int, n.high \in Int
  PROVE  Pieces(con, n) =
           (IF con.low < n.low
            THEN IF n.high < con.high
                 THEN << Interval(con.low, n.low - 1, con.data),
                         Interval(n.low, n.high, Append(con.data, NewData)),
                         Interval(n.high + 1, con.high, con.data) >>
                 ELSE << Interval(con.low, n.low - 1, con.data),
                         Interval(n.low, n.high, Append(con.data, NewData)) >>
            ELSE IF n.high < con.high
                 THEN << Interval(n.low, n.high, Append(con.data, NewData)),
                         Interval(n.high + 1, con.high, con.data) >>
                 ELSE << Interval(n.low, n.high, Append(con.data, NewData)) >>)
  <1>1. PICK a : a = Interval(con.low, n.low - 1, con.data)
    OBVIOUS
  <1>2. PICK c : c = Interval(n.high + 1, con.high, con.data)
    OBVIOUS
  <1>3. con.data \o <<NewData>> = Append(con.data, NewData)
    BY DEF Intervals
  <1>4. PICK b : b = Interval(n.low, n.high, Append(con.data, NewData))
    OBVIOUS
  <1>5. Pieces(con, n) = (IF con.low < n.low THEN <<a>> ELSE <<>>) \o <<b>>
                         \o (IF n.high < con.high THEN <<c>> ELSE <<>>)
    BY <1>1, <1>2, <1>3, <1>4, Zenon DEF Pieces
  <1>6. <<a>> \o <<b>> \o <<c>> = <<a, b, c>> /\ <<>> \o <<b>> \o <<c>> = <<b, c>>
    <2>1. <<a>> \o <<b>> = <<a, b>> /\ <<a, b>> \o <<c>> = <<a, b, c>>
      BY ConcatOne
    <2>2. <<>> \o <<b>> = <<b>> /\ <<b>> \o <<c>> = <<b, c>>
      BY ConcatOne
    <2> QED
      BY <2>1, <2>2, Zenon
  <1>7. <<a>> \o <<b>> \o <<>> = <<a, b>> /\ <<>> \o <<b>> \o <<>> = <<b>>
    <2>1. <<a>> \o <<b>> = <<a, b>> /\ <<a, b>> \o <<>> = <<a, b>>
      BY ConcatOne
    <2>2. <<>> \o <<b>> = <<b>> /\ <<b>> \o <<>> = <<b>>
      OBVIOUS
    <2> QED
      BY <2>1, <2>2, Zenon
  <1> QED
    BY <1>1, <1>2, <1>4, <1>5, <1>6, <1>7, Zenon

-----------------------------------------------------------------------------
(* The steps that fold a network in.                                       *)
LEMMA FoldKeeps ==
  ASSUME PrefixInv, freed = <<>>, NEW n \in Upcoming, networks' = Append(networks, n),
         UNCHANGED <<library, freed>>, intervals' \in Seq(Intervals),
         InOrderAndRight', Covered', EndsRight', cursor' \in Nat \ {0},
         \A r \in DOMAIN intervals' : r < cursor' => intervals'[r].high < n.low
  PROVE  PrefixInv'
  <1>1. n \in AllNetworks /\ \A k \in DOMAIN networks : InOrder(networks[k], n)
    BY UpcomingInOrder
  <1>2. /\ networks \in Seq(AllNetworks) /\ Len(networks) \in Nat
        /\ DOMAIN networks = 1 .. Len(networks)
    BY DEF PrefixInv, PrefixTypeOK
  <1>3. /\ networks' \in Seq(AllNetworks) /\ Len(networks') = Len(networks) + 1
        /\ DOMAIN networks' = 1 .. Len(networks) + 1
        /\ networks'[Len(networks) + 1] = n
        /\ \A k \in DOMAIN networks : networks'[k] = networks[k]
    BY <1>1, <1>2
  <1>4. Last(networks') = n
    BY <1>3 DEF Last
  <1>5. PrefixTypeOK'
    BY <1>3 DEF PrefixInv, PrefixTypeOK
  <1>6. \A k \in DOMAIN networks' : InOrder(networks'[k], Last(networks'))
    <2>1. InOrder(n, n)
      BY <1>1, NetworkType DEF InOrder
    <2>2. \A k \in DOMAIN networks' : k \in DOMAIN networks \/ k = Len(networks) + 1
      BY <1>2, <1>3
    <2> QED
      BY <1>1, <1>3, <1>4, <2>1, <2>2
  <1>7. CursorRight'
    BY <1>4 DEF CursorRight
  <1> QED
    BY <1>5, <1>6, <1>7 DEF PrefixInv

LEMMA SplitStep ==
  ASSUME PrefixInv, freed = <<>>, NEW n \in Upcoming, networks' = Append(networks, n),
         UNCHANGED <<library, freed>>, NEW i, Met(n, i), NEW P, NEW new, new = NewData,
         Split(P, intervals[i], n, new), IsReplaced(intervals', intervals, i, P),
         cursor' \in Nat \ {0}, cursor' <= i \/ (cursor' = i + 1 /\ intervals[i].low < n.low)
  PROVE  PrefixInv'
  <1>1. /\ intervals' \in Seq(Intervals) /\ InOrderAndRight' /\ Covered' /\ EndsRight'
        /\ \A r \in DOMAIN intervals' :
             (r < i \/ (r = i /\ intervals[i].low < n.low)) => intervals'[r].high < n.low
    BY SplitKeeps
  <1>2. i \in Nat
    BY PrefixTypes DEF Met, PrefixInv
  <1>3. ASSUME NEW r \in DOMAIN intervals', r < cursor' PROVE intervals'[r].high < n.low
    <2>1. r \in Nat
      BY <1>1
    <2> QED
      BY <1>1, <1>2, <1>3, <2>1
  <1> QED
    BY <1>1, <1>3, FoldKeeps

LEMMA AppendStep ==
  ASSUME PrefixInv, freed = <<>>, NEW n \in Upcoming, networks' = Append(networks, n),
         UNCHANGED <<library, freed>>, Behind(n), NEW new, new = NewData,
         intervals' = Append(intervals, Interval(n.low, n.high, <<new>>)),
         cursor' \in 1 .. Len(intervals) + 1
  PROVE  PrefixInv'
  <1>1. /\ intervals' \in Seq(Intervals) /\ InOrderAndRight' /\ Covered' /\ EndsRight'
        /\ DOMAIN intervals' = 1 .. Len(intervals) + 1
        /\ \A j \in DOMAIN intervals : intervals'[j].high < n.low
    BY AppendKeeps
  <1>2. Len(intervals) \in Nat /\ DOMAIN intervals = 1 .. Len(intervals)
    BY PrefixTypes DEF PrefixInv
  <1>3. \A r \in DOMAIN intervals' : r < cursor' => intervals'[r].high < n.low
    BY <1>1, <1>2
  <1> QED
    BY <1>1, <1>2, <1>3, FoldKeeps

LEMMA MetFacts ==
  ASSUME PrefixInv, freed = <<>>, NEW n \in Upcoming, NEW i, Met(n, i)
  PROVE  /\ i \in DOMAIN intervals /\ i \in Nat \ {0} /\ intervals[i] \in Intervals
         /\ n.low \in Int /\ n.high \in Int /\ n.low <= n.high /\ NewData \in Nat
         /\ intervals[i].low <= n.low /\ n.high <= intervals[i].high
         /\ intervals[i].low \in Int /\ intervals[i].high \in Int
  <1>1. i \in DOMAIN intervals
    BY DEF Met
  <1>2. i \in Nat \ {0} /\ NewData \in Nat
    BY <1>1, PrefixTypes DEF PrefixInv, NewData
  <1>3. intervals[i].low \in Int /\ intervals[i].high \in Int /\ intervals[i] \in Intervals
    BY <1>1, PrefixTypes DEF PrefixInv
  <1> QED
    BY <1>1, <1>2, <1>3, NetworkFits, UpcomingInOrder

LEMMA FoldNetworkKeeps == PrefixInv /\ FoldNetwork => PrefixInv'
  <1> SUFFICES ASSUME PrefixInv, NEW n \in Upcoming,
                      \/ AppendInterval(n) \/ SplitInThree(n) \/ CutEnd(n)
                      \/ CutStart(n) \/ AddToSame(n)
               PROVE  PrefixInv'
    BY DEF FoldNetwork
  <1>1. /\ freed = <<>> /\ networks' = Append(networks, n) /\ UNCHANGED <<library, freed>>
    BY DEF AppendInterval, SplitInThree, CutEnd, CutStart, AddToSame, Taken
  <1>2. /\ Meets(n) => Met(n, Conductor(n))
        /\ Conductor(n) > Len(intervals) => Behind(n)
        /\ Conductor(n) \in 1 .. Len(intervals) + 1
    BY <1>1, ConductorMeets
  <1>3. PICK i : i = Conductor(n)
    OBVIOUS
  <1>4. PICK new : new = NewData
    OBVIOUS
  <1>5. PICK con : con = intervals[i]
    OBVIOUS
  <1>6. ASSUME Meets(n)
        PROVE  /\ Met(n, i) /\ i \in DOMAIN intervals /\ i \in Nat \ {0} /\ con \in Intervals
               /\ n.low \in Int /\ n.high \in Int /\ n.low <= n.high /\ new \in Nat
    BY <1>1, <1>2, <1>3, <1>4, <1>5, <1>6, MetFacts
  <1>7. CASE AppendInterval(n)
    <2>1. Behind(n)
      BY <1>2, <1>7 DEF AppendInterval, ToInitial, ToAppend, Behind
    <2>2. intervals' = Append(intervals, Interval(n.low, n.high, <<new>>))
      BY <1>4, <1>7 DEF AppendInterval
    <2>3. cursor' \in 1 .. Len(intervals) + 1
      <3>1. Len(intervals) \in Nat /\ cursor' = Len(intervals) + 1
        BY <1>7, PrefixTypes DEF AppendInterval, PrefixInv
      <3> QED
        BY <3>1
    <2> QED
      BY <1>1, <1>4, <2>1, <2>2, <2>3, AppendStep
  <1>8. CASE SplitInThree(n)
    <2>1. Meets(n) /\ con.low < n.low /\ n.high < con.high
      BY <1>3, <1>5, <1>8 DEF SplitInThree, ToInside
    <2>2. PICK P : P = << Interval(con.low, n.low - 1, con.data),
                          Interval(n.low, n.high, Append(con.data, new)),
                          Interval(n.high + 1, con.high, con.data) >>
      OBVIOUS
    <2>3. Split(P, con, n, new)
      BY <1>6, <2>1, <2>2, SplitInThreeRight
    <2>4. intervals' = Replaced(i, P) /\ cursor' = i
      BY <1>3, <1>4, <1>5, <1>8, <2>2 DEF SplitInThree
    <2>5. IsReplaced(intervals', intervals, i, P)
      BY <1>6, <2>1, <2>3, <2>4, ReplacedIs DEF Split, PrefixInv
    <2> QED
      BY <1>1, <1>4, <1>5, <1>6, <2>1, <2>3, <2>4, <2>5, SplitStep
  <1>9. CASE CutEnd(n)
    <2>1. Meets(n) /\ con.low < n.low /\ n.high = con.high
      BY <1>3, <1>5, <1>9 DEF CutEnd, ToEnd
    <2>2. PICK P : P = << Interval(con.low, n.low - 1, con.data),
                          Interval(n.low, n.high, Append(con.data, new)) >>
      OBVIOUS
    <2>3. Split(P, con, n, new)
      BY <1>6, <2>1, <2>2, CutEndRight
    <2>4. intervals' = Replaced(i, P) /\ cursor' = i
      BY <1>3, <1>4, <1>5, <1>9, <2>1, <2>2 DEF CutEnd
    <2>5. IsReplaced(intervals', intervals, i, P)
      BY <1>6, <2>1, <2>3, <2>4, ReplacedIs DEF Split, PrefixInv
    <2> QED
      BY <1>1, <1>4, <1>5, <1>6, <2>1, <2>3, <2>4, <2>5, SplitStep
  <1>10. CASE CutStart(n)
    <2>1. Meets(n) /\ con.low = n.low /\ n.high < con.high
      BY <1>3, <1>5, <1>10 DEF CutStart, ToStart
    <2>2. PICK P : P = << Interval(n.low, n.high, Append(con.data, new)),
                          Interval(n.high + 1, con.high, con.data) >>
      OBVIOUS
    <2>3. Split(P, con, n, new)
      BY <1>6, <2>1, <2>2, CutStartRight
    <2>4. intervals' = Replaced(i, P) /\ cursor' = i
      BY <1>3, <1>4, <1>5, <1>10, <2>1, <2>2 DEF CutStart
    <2>5. IsReplaced(intervals', intervals, i, P)
      BY <1>6, <2>1, <2>3, <2>4, ReplacedIs DEF Split, PrefixInv
    <2> QED
      BY <1>1, <1>4, <1>5, <1>6, <2>1, <2>3, <2>4, <2>5, SplitStep
  <1>11. CASE AddToSame(n)
    <2>1. Meets(n) /\ con.low = n.low /\ n.high = con.high
      BY <1>3, <1>5, <1>11 DEF AddToSame, ToSame
    <2>2. PICK P : P = << Interval(n.low, n.high, Append(con.data, new)) >>
      OBVIOUS
    <2>3. Split(P, con, n, new)
      BY <1>6, <2>1, <2>2, AddToSameRight
    <2>4. intervals' = [intervals EXCEPT ![i].data = Append(@, new)] /\ cursor' = i
      BY <1>3, <1>4, <1>11 DEF AddToSame
    <2>5. IsReplaced(intervals', intervals, i, P)
      <3>1. PICK I : I = intervals
        OBVIOUS
      <3>2. I \in Seq(Intervals) /\ i \in DOMAIN I /\ Len(I) \in Nat /\ DOMAIN I = 1 .. Len(I)
        BY <1>6, <2>1, <3>1 DEF PrefixInv, PrefixTypeOK
      <3>3. con = [low |-> con.low, high |-> con.high, data |-> con.data]
            /\ con.data \in Seq(Nat)
        BY <1>6, <2>1 DEF Intervals
      <3>4. [con EXCEPT !.data = Append(con.data, new)] = P[1]
        <4>1. ASSUME NEW c \in Intervals, NEW e
              PROVE  [c EXCEPT !.data = e] = [low |-> c.low, high |-> c.high, data |-> e]
          BY DEF Intervals
        <4>2. con \in Intervals
          BY <1>6, <2>1
        <4>3. [con EXCEPT !.data = Append(con.data, new)] =
                [low |-> con.low, high |-> con.high, data |-> Append(con.data, new)]
          BY <4>1, <4>2
        <4>4. P[1] = [low |-> n.low, high |-> n.high, data |-> Append(con.data, new)]
          BY <2>2 DEF Interval
        <4> QED
          BY <2>1, <4>3, <4>4
      <3>5. intervals' = [I EXCEPT ![i] = P[1]]
        BY <1>5, <2>4, <3>1, <3>4
      <3>6. P[1] \in Intervals /\ Len(P) = 1
        BY <2>2, <2>3 DEF Split
      <3>7. /\ [I EXCEPT ![i] = P[1]] \in Seq(Intervals) /\ Len([I EXCEPT ![i] = P[1]]) = Len(I)
            /\ \A j \in 1 .. Len(I) : [I EXCEPT ![i] = P[1]][j] = IF j = i THEN P[1] ELSE I[j]
        BY <3>2, <3>6, ExceptSeq
      <3>8. PICK R : R = intervals'
        OBVIOUS
      <3>9. /\ R \in Seq(Intervals) /\ Len(R) = Len(I)
            /\ \A j \in 1 .. Len(I) : R[j] = IF j = i THEN P[1] ELSE I[j]
        BY <3>5, <3>7, <3>8
      <3>10. /\ Len(R) = Len(I) + Len(P) - 1 /\ \A j \in 1 .. i - 1 : R[j] = I[j]
             /\ \A p \in 1 .. Len(P) : R[i - 1 + p] = P[p]
        BY <1>6, <2>1, <3>2, <3>6, <3>9
      <3>11. \A j \in i + 1 .. Len(I) : R[j + Len(P) - 1] = I[j]
        BY <1>6, <2>1, <3>2, <3>6, <3>9
      <3> QED
        BY <3>1, <3>8, <3>9, <3>10, <3>11 DEF IsReplaced
    <2>6. cursor' = i
      BY <2>4
    <2> QED
      BY <1>1, <1>4, <1>5, <1>6, <2>1, <2>3, <2>5, <2>6, SplitStep
  <1> QED
    BY <1>7, <1>8, <1>9, <1>10, <1>11

LEMMA CursorReaches ==
  ASSUME PrefixInv, freed = <<>>, intervals # <<>>
  PROVE  cursor \in 1 .. Len(intervals)
  <1>1. /\ Len(intervals) \in Nat /\ DOMAIN intervals = 1 .. Len(intervals)
        /\ Len(networks) \in Nat /\ DOMAIN networks = 1 .. Len(networks)
        /\ \A k \in DOMAIN networks : /\ networks[k].low \in Int /\ networks[k].high \in Int
                                      /\ networks[k].low <= networks[k].high
        /\ \A j \in DOMAIN intervals : intervals[j].low \in Int /\ intervals[j].high \in Int
    BY PrefixTypes DEF PrefixInv
  <1>2. intervals \in Seq(Intervals) /\ cursor \in Nat \ {0}
    BY DEF PrefixInv, PrefixTypeOK
  <1>3. 1 \in DOMAIN intervals
    BY <1>1, <1>2
  <1>4. Len(networks) \in DOMAIN networks
    BY <1>1, <1>3 DEF PrefixInv, EndsRight
  <1>5. Last(networks) = networks[Len(networks)]
    BY DEF Last
  <1>6. PICK j \in DOMAIN intervals : Leads(intervals[j], Last(networks).low)
    <2>1. Covered
      BY DEF PrefixInv
    <2>2. PICK k \in DOMAIN networks : k = Len(networks)
      BY <1>4
    <2>3. Last(networks).low \in networks[k].low .. networks[k].high
      BY <1>1, <1>5, <2>2
    <2> QED
      BY <2>1, <2>3 DEF Covered
  <1>7. ~ (j < cursor)
    BY <1>1, <1>4, <1>5, <1>6 DEF PrefixInv, CursorRight, Leads
  <1> QED
    BY <1>1, <1>2, <1>6, <1>7

LEMMA SplitOverlapsKeeps ==
  ASSUME PrefixInv, NEW n \in Upcoming, SplitOverlaps(n)
  PROVE  PrefixInv'
  <1>1. /\ freed = <<>> /\ networks' = Append(networks, n) /\ UNCHANGED <<library, freed>>
    BY DEF SplitOverlaps, PrefixInv
  <1>2. /\ Overlapped(n) # 0 => Met(n, Overlapped(n)) /\ cursor <= Overlapped(n)
        /\ Overlapped(n) = 0 => Behind(n)
    BY <1>1, OverlappedMeets
  <1>3. PICK i : i = Overlapped(n)
    OBVIOUS
  <1>4. PICK new : new = NewData
    OBVIOUS
  <1>5. cursor \in Nat \ {0}
    BY DEF PrefixInv, PrefixTypeOK
  <1>6. CASE i = 0
    <2>1. /\ intervals' = Append(intervals, Interval(n.low, n.high, <<new>>))
          /\ cursor' = IF intervals = <<>> THEN 1 ELSE cursor + 1
      BY <1>3, <1>4, <1>6 DEF SplitOverlaps
    <2>2. Len(intervals) \in Nat
      BY PrefixTypes DEF PrefixInv
    <2>3. cursor' \in 1 .. Len(intervals) + 1
      BY <1>1, <1>5, <2>1, <2>2, CursorReaches
    <2> QED
      BY <1>1, <1>2, <1>3, <1>4, <1>6, <2>1, <2>3, AppendStep
  <1>7. CASE i # 0
    <2>1. PICK con : con = intervals[i]
      OBVIOUS
    <2>2. /\ Met(n, i) /\ cursor <= i /\ i \in DOMAIN intervals /\ i \in Nat \ {0}
          /\ con \in Intervals /\ n.low \in Int /\ n.high \in Int /\ n.low <= n.high
          /\ new \in Nat /\ con.low <= n.low /\ n.high <= con.high
          /\ con.low \in Int /\ con.high \in Int
      BY <1>1, <1>2, <1>3, <1>4, <1>7, <2>1, MetFacts
    <2>3. PICK P : P = Pieces(con, n)
      OBVIOUS
    <2>4. Split(P, con, n, new)
      <3>1. CASE con.low < n.low /\ n.high < con.high
        <4>1. P = << Interval(con.low, n.low - 1, con.data),
                     Interval(n.low, n.high, Append(con.data, new)),
                     Interval(n.high + 1, con.high, con.data) >>
          BY <1>4, <2>2, <2>3, <3>1, PiecesAre
        <4> QED
          BY <2>2, <3>1, <4>1, SplitInThreeRight
      <3>2. CASE con.low < n.low /\ n.high = con.high
        <4>1. ~ (n.high < con.high)
          BY <2>2, <3>2
        <4>2. P = << Interval(con.low, n.low - 1, con.data),
                     Interval(n.low, n.high, Append(con.data, new)) >>
          BY <1>4, <2>2, <2>3, <3>2, <4>1, PiecesAre
        <4> QED
          BY <2>2, <3>2, <4>2, CutEndRight
      <3>3. CASE con.low = n.low /\ n.high < con.high
        <4>1. ~ (con.low < n.low)
          BY <2>2, <3>3
        <4>2. P = << Interval(n.low, n.high, Append(con.data, new)),
                     Interval(n.high + 1, con.high, con.data) >>
          BY <1>4, <2>2, <2>3, <3>3, <4>1, PiecesAre
        <4> QED
          BY <2>2, <3>3, <4>2, CutStartRight
      <3>4. CASE con.low = n.low /\ n.high = con.high
        <4>1. ~ (con.low < n.low) /\ ~ (n.high < con.high)
          BY <2>2, <3>4
        <4>2. P = << Interval(n.low, n.high, Append(con.data, new)) >>
          BY <1>4, <2>2, <2>3, <4>1, PiecesAre
        <4> QED
          BY <2>2, <3>4, <4>2, AddToSameRight
      <3> QED
        BY <2>2, <3>1, <3>2, <3>3, <3>4
    <2>5. /\ intervals' = Replaced(i, P)
          /\ cursor' = IF con.low < n.low THEN cursor + 1 ELSE cursor
      BY <1>3, <1>7, <2>1, <2>3 DEF SplitOverlaps
    <2>6. IsReplaced(intervals', intervals, i, P)
      BY <2>2, <2>4, <2>5, ReplacedIs DEF Split, PrefixInv
    <2>7. cursor' \in Nat \ {0} /\ (cursor' <= i \/ (cursor' = i + 1 /\ con.low < n.low))
      BY <1>5, <2>2, <2>5
    <2> QED
      BY <1>1, <1>4, <2>1, <2>2, <2>4, <2>6, <2>7, SplitStep
  <1> QED
    BY <1>6, <1>7

-----------------------------------------------------------------------------
(* The data that ipps_destroy frees.                                       *)
LEMMA Collected ==
  ASSUME NEW s \in Seq(Nat), IsInjective(s), NEW d \in Nat,
         NEW t, t = IF Contains(s, d) THEN s ELSE Append(s, d)
  PROVE  t \in Seq(Nat) /\ IsInjective(t) /\ ToSet(t) = ToSet(s) \cup {d}
  <1>1. Len(s) \in Nat /\ DOMAIN s = 1 .. Len(s)
    OBVIOUS
  <1>2. CASE Contains(s, d)
    BY <1>1, <1>2 DEF Contains, ToSet
  <1>3. CASE ~ Contains(s, d)
    <2>1. /\ t \in Seq(Nat) /\ DOMAIN t = 1 .. Len(s) + 1 /\ t[Len(s) + 1] = d
          /\ \A i \in DOMAIN s : t[i] = s[i]
      BY <1>1, <1>3
    <2>2. DOMAIN t = DOMAIN s \cup {Len(s) + 1} /\ Len(s) + 1 \notin DOMAIN s
      BY <1>1, <2>1
    <2>3. \A i \in DOMAIN s : s[i] # d
      BY <1>1, <1>3 DEF Contains
    <2>4. IsInjective(t)
      BY <2>1, <2>2, <2>3 DEF IsInjective
    <2>5. ToSet(t) = ToSet(s) \cup {d}
      BY <2>1, <2>2 DEF ToSet
    <2> QED
      BY <2>1, <2>4, <2>5
  <1> QED
    BY <1>2, <1>3

Collects(f, s, data, m) ==
  f = [k \in 0 .. m |-> IF k = 0 THEN s
                        ELSE IF Contains(f[k - 1], data[k]) THEN f[k - 1]
                        ELSE Append(f[k - 1], data[k])]

LEMMA CollectsExists ==
  ASSUME NEW N \in Nat, NEW s, NEW data
  PROVE  \E f : Collects(f, s, data, N)
  <1> DEFINE T == {m \in Nat : ~ \E f : Collects(f, s, data, m)}
  <1>1. SUFFICES ASSUME T # {} PROVE FALSE
    OBVIOUS
  <1>2. PICK m \in T : \A n \in T : m <= n
    BY <1>1, LeastIn
  <1>3. m # 0
    <2>1. Collects([k \in 0 .. 0 |-> s], s, data, 0)
      BY DEF Collects
    <2> QED
      BY <2>1
  <1>4. m - 1 \in Nat /\ m - 1 \notin T
    BY <1>2, <1>3
  <1>5. PICK f : Collects(f, s, data, m - 1)
    BY <1>4
  <1> DEFINE next == IF Contains(f[m - 1], data[m]) THEN f[m - 1] ELSE Append(f[m - 1], data[m])
             g == [k \in 0 .. m |-> IF k = m THEN next ELSE f[k]]
  <1> HIDE DEF next
  <1>6. Collects(g, s, data, m)
    <2>1. ASSUME NEW k \in 0 .. m
          PROVE  g[k] = IF k = 0 THEN s
                        ELSE IF Contains(g[k - 1], data[k]) THEN g[k - 1]
                        ELSE Append(g[k - 1], data[k])
      <3>1. CASE k = m
        <4>1. g[k] = next /\ g[k - 1] = f[m - 1]
          BY <1>3, <1>4, <3>1
        <4> QED
          BY <1>3, <3>1, <4>1 DEF next
      <3>2. CASE k # m
        <4>1. k \in 0 .. m - 1 /\ g[k] = f[k] /\ (k # 0 => k - 1 \in 0 .. m /\ k - 1 # m)
          BY <1>4, <3>2
        <4>2. f[k] = IF k = 0 THEN s
                     ELSE IF Contains(f[k - 1], data[k]) THEN f[k - 1]
                     ELSE Append(f[k - 1], data[k])
          BY <1>5, <4>1 DEF Collects
        <4>3. k # 0 => g[k - 1] = f[k - 1]
          BY <4>1
        <4> QED
          BY <4>1, <4>2, <4>3
      <3> QED
        BY <3>1, <3>2
    <2> QED
      BY <2>1 DEF Collects
  <1> QED
    BY <1>2, <1>6

LEMMA FreeDataRight ==
  ASSUME NEW s \in Seq(Nat), IsInjective(s), NEW data \in Seq(Nat)
  PROVE  /\ FreeData(s, data) \in Seq(Nat) /\ IsInjective(FreeData(s, data))
         /\ ToSet(FreeData(s, data)) = ToSet(s) \cup ToSet(data)
  <1>1. Len(data) \in Nat /\ DOMAIN data = 1 .. Len(data) /\ \A k \in DOMAIN data : data[k] \in Nat
    OBVIOUS
  <1> DEFINE F == CHOOSE f : Collects(f, s, data, Len(data))
  <1>2. \E f : Collects(f, s, data, Len(data))
    BY <1>1, CollectsExists
  <1>3. Collects(F, s, data, Len(data))
    BY <1>2
  <1>4. FreeData(s, data) = F[Len(data)]
    BY DEF FreeData, Collects
  <1> HIDE DEF F
  <1>5. \A k \in 0 .. Len(data) : F[k] = IF k = 0 THEN s
                                         ELSE IF Contains(F[k - 1], data[k]) THEN F[k - 1]
                                         ELSE Append(F[k - 1], data[k])
    BY <1>3 DEF Collects
  <1> DEFINE Right(k) == /\ F[k] \in Seq(Nat) /\ IsInjective(F[k])
                         /\ ToSet(F[k]) = ToSet(s) \cup {data[j] : j \in 1 .. k}
             T == {k \in 0 .. Len(data) : ~ Right(k)}
  <1>6. T = {}
    <2>1. SUFFICES ASSUME T # {} PROVE FALSE
      OBVIOUS
    <2>2. T \in SUBSET Nat
      BY <1>1
    <2>3. PICK m \in T : \A k \in T : m <= k
      BY <2>1, <2>2, LeastIn
    <2>4. m # 0
      <3>1. F[0] = s
        BY <1>1, <1>5
      <3>2. Right(0)
        BY <3>1
      <3> QED
        BY <2>3, <3>2
    <2>5. m - 1 \in 0 .. Len(data) /\ m - 1 \notin T /\ m \in 1 .. Len(data)
      <3> HIDE DEF Right
      <3>1. m \in 0 .. Len(data) /\ \A k \in T : m <= k
        BY <2>3
      <3> HIDE DEF T
      <3>2. m - 1 \in 0 .. Len(data) /\ m \in 1 .. Len(data) /\ ~ (m <= m - 1)
        BY <1>1, <2>4, <3>1
      <3> QED
        BY <3>1, <3>2
    <2>6. Right(m - 1)
      BY <2>5
    <2>7. F[m] = IF Contains(F[m - 1], data[m]) THEN F[m - 1] ELSE Append(F[m - 1], data[m])
      BY <1>5, <2>3, <2>4
    <2>8. /\ F[m] \in Seq(Nat) /\ IsInjective(F[m])
          /\ ToSet(F[m]) = ToSet(F[m - 1]) \cup {data[m]}
      <3>1. PICK before : before = F[m - 1]
        OBVIOUS
      <3>2. PICK after : after = F[m]
        OBVIOUS
      <3>3. PICK d : d = data[m]
        OBVIOUS
      <3>4. before \in Seq(Nat) /\ IsInjective(before) /\ d \in Nat
        BY <1>1, <2>5, <2>6, <3>1, <3>3
      <3>5. after = IF Contains(before, d) THEN before ELSE Append(before, d)
        BY <2>7, <3>1, <3>2, <3>3
      <3>6. after \in Seq(Nat) /\ IsInjective(after) /\ ToSet(after) = ToSet(before) \cup {d}
        BY <3>4, <3>5, Collected
      <3> QED
        BY <3>1, <3>2, <3>3, <3>6
    <2>9. {data[j] : j \in 1 .. m} = {data[j] : j \in 1 .. m - 1} \cup {data[m]}
      <3>1. 1 .. m = (1 .. m - 1) \cup {m}
        BY <1>1, <2>5
      <3> QED
        BY <3>1
    <2>10. Right(m)
      BY <2>6, <2>8, <2>9
    <2> QED
      BY <2>3, <2>10
  <1>7. Right(Len(data))
    <2>1. Len(data) \in 0 .. Len(data)
      BY <1>1
    <2> HIDE DEF Right
    <2> QED
      BY <1>6, <2>1
  <1>8. ToSet(data) = {data[j] : j \in 1 .. Len(data)}
    BY <1>1 DEF ToSet
  <1> QED
    BY <1>4, <1>7, <1>8

LEMMA IndexBefore ==
  ASSUME NEW N \in Nat, NEW T, T \subseteq 0 .. N, 0 \notin T, T # {}
  PROVE  \E m \in T : m \in 1 .. N /\ m - 1 \in 0 .. N /\ m - 1 \notin T
  <1>1. T \in SUBSET Nat
    OBVIOUS
  <1>2. PICK m \in T : \A k \in T : m <= k
    BY <1>1, LeastIn
  <1>3. m \in 1 .. N /\ m - 1 \in 0 .. N /\ ~ (m <= m - 1)
    BY <1>2
  <1> QED
    BY <1>2, <1>3

(* The fold of destroy_list over the list of intervals.                    *)
Gathers(f, I, m) == f = [i \in 0 .. m |-> IF i = 0 THEN <<>> ELSE FreeData(f[i - 1], I[i].data)]

LEMMA GathersExists ==
  ASSUME NEW N \in Nat, NEW I
  PROVE  \E f : Gathers(f, I, N)
  <1> DEFINE T == {m \in Nat : ~ \E f : Gathers(f, I, m)}
  <1>1. SUFFICES ASSUME T # {} PROVE FALSE
    OBVIOUS
  <1>2. PICK m \in T : \A n \in T : m <= n
    BY <1>1, LeastIn
  <1>3. m # 0
    <2>1. Gathers([k \in 0 .. 0 |-> <<>>], I, 0)
      BY DEF Gathers
    <2> QED
      BY <2>1
  <1>4. m - 1 \in Nat /\ m - 1 \notin T
    BY <1>2, <1>3
  <1>5. PICK f : Gathers(f, I, m - 1)
    BY <1>4
  <1> DEFINE next == FreeData(f[m - 1], I[m].data)
             g == [k \in 0 .. m |-> IF k = m THEN next ELSE f[k]]
  <1> HIDE DEF next
  <1>6. Gathers(g, I, m)
    <2>1. ASSUME NEW k \in 0 .. m
          PROVE  g[k] = IF k = 0 THEN <<>> ELSE FreeData(g[k - 1], I[k].data)
      <3>1. CASE k = m
        <4>1. g[k] = next /\ g[k - 1] = f[m - 1]
          BY <1>3, <1>4, <3>1
        <4> QED
          BY <1>3, <3>1, <4>1 DEF next
      <3>2. CASE k # m
        <4>1. k \in 0 .. m - 1 /\ g[k] = f[k] /\ (k # 0 => k - 1 \in 0 .. m /\ k - 1 # m)
          BY <1>4, <3>2
        <4>2. f[k] = IF k = 0 THEN <<>> ELSE FreeData(f[k - 1], I[k].data)
          BY <1>5, <4>1 DEF Gathers
        <4>3. k # 0 => g[k - 1] = f[k - 1]
          BY <4>1
        <4> QED
          BY <4>1, <4>2, <4>3
      <3> QED
        BY <3>1, <3>2
    <2> QED
      BY <2>1 DEF Gathers
  <1> QED
    BY <1>2, <1>6

\* What destroy_list frees: the data of all intervals, each once.
LEMMA DestroyListRight ==
  ASSUME intervals \in Seq(Intervals)
  PROVE  /\ DestroyList \in Seq(Nat) /\ IsInjective(DestroyList)
         /\ \A d : d \in ToSet(DestroyList) <=>
                     \E j \in DOMAIN intervals : d \in ToSet(intervals[j].data)
  <1>1. PICK I : I = intervals
    OBVIOUS
  <1>2. /\ Len(I) \in Nat /\ DOMAIN I = 1 .. Len(I)
        /\ \A j \in DOMAIN I : I[j].data \in Seq(Nat)
    <2>1. I \in Seq(Intervals)
      BY <1>1
    <2>2. \A it \in Intervals : it.data \in Seq(Nat)
      BY DEF Intervals
    <2>3. \A j \in DOMAIN I : I[j] \in Intervals
      BY <2>1
    <2> QED
      BY <2>1, <2>2, <2>3
  <1> DEFINE F == CHOOSE f : Gathers(f, I, Len(I))
  <1>3. Gathers(F, I, Len(I))
    BY <1>2, GathersExists
  <1>4. DestroyList = F[Len(I)]
    BY <1>1 DEF DestroyList, Gathers
  <1> HIDE DEF F
  <1>5. \A k \in 0 .. Len(I) : F[k] = IF k = 0 THEN <<>> ELSE FreeData(F[k - 1], I[k].data)
    BY <1>3 DEF Gathers
  <1>11. PICK S : S = [j \in DOMAIN I |-> ToSet(I[j].data)]
    OBVIOUS
  <1> DEFINE Right(k) == /\ F[k] \in Seq(Nat) /\ IsInjective(F[k])
                         /\ \A d : d \in ToSet(F[k]) <=> \E j \in 1 .. k : d \in S[j]
             T == {k \in 0 .. Len(I) : ~ Right(k)}
  <1>6. Right(0)
    <2>1. F[0] = <<>> /\ 1 .. 0 = {}
      BY <1>2, <1>5
    <2> QED
      BY <2>1 DEF IsInjective, ToSet
  <1>7. ASSUME NEW m \in 1 .. Len(I), Right(m - 1)
        PROVE  Right(m)
    <2>1. F[m] = FreeData(F[m - 1], I[m].data) /\ I[m].data \in Seq(Nat)
      BY <1>2, <1>5
    <2>2. PICK before : before = F[m - 1]
      OBVIOUS
    <2>3. PICK data : data = I[m].data
      OBVIOUS
    <2>4. before \in Seq(Nat) /\ IsInjective(before) /\ data \in Seq(Nat)
      BY <1>7, <2>1, <2>2, <2>3
    <2>5. PICK after : after = FreeData(before, data)
      OBVIOUS
    <2>6. /\ after \in Seq(Nat) /\ IsInjective(after)
          /\ ToSet(after) = ToSet(before) \cup ToSet(data)
      BY <2>4, <2>5, FreeDataRight
    <2>7. F[m] = after
      BY <2>1, <2>2, <2>3, <2>5
    <2>8. 1 .. m = (1 .. m - 1) \cup {m}
      BY <1>2
    <2>9. S[m] = ToSet(data)
      BY <1>2, <1>11, <2>3
    <2>10. \A d : d \in ToSet(before) <=> \E j \in 1 .. m - 1 : d \in S[j]
      BY <1>7, <2>2
    <2>11. \A d : d \in ToSet(after) <=> \E j \in 1 .. m : d \in S[j]
      <3>1. \A d : d \in ToSet(after) <=> d \in ToSet(before) \/ d \in S[m]
        BY <2>6, <2>9
      <3> QED
        BY <2>8, <2>10, <3>1
    <2>12. /\ F[m] \in Seq(Nat) /\ IsInjective(F[m])
           /\ \A d : d \in ToSet(F[m]) <=> \E j \in 1 .. m : d \in S[j]
      BY <2>6, <2>7, <2>11
    <2> QED
      BY <2>12
  <1>8. T = {}
    <2> HIDE DEF Right
    <2>1. 0 \notin T
      BY <1>6
    <2>2. ASSUME NEW m \in 1 .. Len(I), m \in T, m - 1 \in 0 .. Len(I), m - 1 \notin T
          PROVE  FALSE
      BY <1>7, <2>2
    <2>3. T \subseteq 0 .. Len(I)
      OBVIOUS
    <2> HIDE DEF T
    <2> QED
      BY <1>2, <2>1, <2>2, <2>3, IndexBefore
  <1>9. Right(Len(I))
    <2> HIDE DEF Right
    <2> QED
      BY <1>2, <1>8
  <1>10. \A j \in DOMAIN I : S[j] = ToSet(I[j].data)
    BY <1>11
  <1> QED
    BY <1>1, <1>2, <1>4, <1>9, <1>10

\* ipps_destroy frees the data of every network, each once.
LEMMA IppsDestroyKeeps == PrefixInv /\ IppsDestroy => PrefixInv'
  <1>1. SUFFICES ASSUME PrefixInv, IppsDestroy PROVE PrefixInv'
    OBVIOUS
  <1>2. /\ library = "c" /\ intervals # <<>> /\ intervals' = <<>> /\ freed' = DestroyList
        /\ UNCHANGED <<library, networks, cursor>>
    BY <1>1 DEF IppsDestroy
  <1>3. freed = <<>>
    BY <1>1, <1>2 DEF PrefixInv
  <1>4. PrefixTypeOK /\ InOrderAndRight /\ Covered
    BY <1>1, <1>3 DEF PrefixInv
  <1>5. /\ Len(intervals) \in Nat /\ DOMAIN intervals = 1 .. Len(intervals)
        /\ \A k \in DOMAIN networks : /\ networks[k].low \in Int /\ networks[k].high \in Int
                                      /\ networks[k].low <= networks[k].high
        /\ \A j \in DOMAIN intervals : intervals[j].low \in Int /\ intervals[j].high \in Int
    BY <1>4, PrefixTypes
  <1>6. \A j \in DOMAIN intervals : ToSet(intervals[j].data) = Around(intervals[j].low)
    <2>1. TAKE j \in DOMAIN intervals
    <2>2. intervals[j].low \in intervals[j].low .. intervals[j].high
      BY <1>4, <1>5 DEF InOrderAndRight
    <2> QED
      BY <1>4, <2>2 DEF InOrderAndRight, Expected, Enumerates
  <1>7. /\ DestroyList \in Seq(Nat) /\ IsInjective(DestroyList)
        /\ \A d : d \in ToSet(DestroyList) <=>
                    \E j \in DOMAIN intervals : d \in ToSet(intervals[j].data)
    BY <1>4, DestroyListRight DEF PrefixTypeOK
  <1>8. ToSet(DestroyList) \subseteq DOMAIN networks
    BY <1>6, <1>7 DEF Around
  <1>9. ASSUME NEW k \in DOMAIN networks
        PROVE  k \in ToSet(DestroyList)
    <2>1. networks[k].low \in networks[k].low .. networks[k].high
      BY <1>5
    <2>2. PICK j \in DOMAIN intervals : Leads(intervals[j], networks[k].low)
      BY <1>4, <2>1 DEF Covered
    <2>3. networks[k].low \in intervals[j].low .. intervals[j].high
      BY <1>5, <2>2 DEF Leads
    <2>4. ToSet(intervals[j].data) = Around(networks[k].low)
      BY <1>4, <2>3 DEF InOrderAndRight, Expected, Enumerates
    <2>5. k \in Around(networks[k].low)
      BY <1>5 DEF Around
    <2>6. k \in ToSet(intervals[j].data)
      BY <2>4, <2>5
    <2> QED
      BY <1>7, <2>6
  <1>10. AllFreed'
    <2>1. ToSet(freed') = DOMAIN networks /\ IsInjective(freed')
      BY <1>2, <1>7, <1>8, <1>9
    <2>2. networks' = networks
      BY <1>2
    <2> QED
      BY <2>1, <2>2 DEF AllFreed
  <1>11. freed' # <<>>
    <2>1. 1 \in DOMAIN intervals
      BY <1>2, <1>4, <1>5 DEF PrefixTypeOK
    <2>2. intervals[1].data # <<>> /\ intervals[1].data \in Seq(Nat)
      <3>1. intervals \in Seq(Intervals) /\ intervals[1].data # <<>>
        BY <1>4, <2>1 DEF InOrderAndRight, PrefixTypeOK
      <3>2. intervals[1] \in Intervals
        BY <2>1, <3>1
      <3> QED
        BY <3>1, <3>2 DEF Intervals
    <2>3. intervals[1].data[1] \in ToSet(intervals[1].data)
      BY <2>2 DEF ToSet
    <2>4. ToSet(DestroyList) # {}
      BY <1>7, <2>1, <2>3
    <2>5. ToSet(<<>>) = {}
      BY DEF ToSet
    <2> QED
      BY <1>2, <2>4, <2>5
  <1>12. PrefixTypeOK'
    BY <1>2, <1>4, <1>7 DEF PrefixTypeOK
  <1>13. (\A k \in DOMAIN networks : InOrder(networks[k], Last(networks)))'
    BY <1>1, <1>2 DEF PrefixInv
  <1> QED
    BY <1>2, <1>10, <1>11, <1>12, <1>13 DEF PrefixInv

LEMMA PrefixInvInit == PrefixInit => PrefixInv
  <1>1. SUFFICES ASSUME PrefixInit PROVE PrefixInv
    OBVIOUS
  <1>2. DOMAIN intervals = {} /\ DOMAIN networks = {}
    BY <1>1 DEF PrefixInit
  <1>3. PrefixTypeOK
    BY <1>1 DEF PrefixInit, PrefixTypeOK
  <1>4. InOrderAndRight /\ Covered /\ EndsRight /\ CursorRight
    BY <1>2 DEF InOrderAndRight, Covered, EndsRight, CursorRight
  <1> QED
    BY <1>1, <1>2, <1>3, <1>4 DEF PrefixInv, PrefixInit

LEMMA PrefixInvStutters == PrefixInv /\ UNCHANGED prefixVars => PrefixInv'
  BY DEF PrefixInv, prefixVars, PrefixTypeOK, InOrderAndRight, Covered, EndsRight, CursorRight,
         AllFreed, Expected, Around

LEMMA PrefixInvariance == PrefixSpec => []PrefixInv
  <1>1. PrefixInv /\ [PrefixNext]_prefixVars => PrefixInv'
    BY FoldNetworkKeeps, SplitOverlapsKeeps, IppsDestroyKeeps, PrefixInvStutters DEF PrefixNext
  <1> QED
    BY <1>1, PrefixInvInit, PTL DEF PrefixSpec

-----------------------------------------------------------------------------
(* The binary search.                                                      *)

\* i0 is the position of the interval that leads ip, 0 when there is none.
Leader(I, ip, i0) ==
  /\ Len(I) \in Nat /\ ip \in Int /\ i0 \in 0 .. Len(I)
  /\ \A j \in 1 .. Len(I) : I[j].low \in Int /\ I[j].high \in Int /\ I[j].low <= I[j].high
  /\ \A i, j \in 1 .. Len(I) : i < j => I[i].high < I[j].low
  /\ \A j \in 1 .. Len(I) : Leads(I[j], ip) <=> j = i0

\* What the search between two bounds must find.
Hit(I, i0, first, last) == IF first < i0 /\ i0 <= last + 1 THEN I[i0].data ELSE <<>>

HitInHalf(I, ip, i0, first, last, middle) ==
  /\ middle + 1 \in 1 .. Len(I) /\ first <= middle /\ middle <= last
  /\ Leads(I[middle + 1], ip) => Hit(I, i0, first, last) = I[middle + 1].data
  /\ I[middle + 1].low > ip => Hit(I, i0, first, last) = Hit(I, i0, first, middle - 1)
  /\ I[middle + 1].high < ip => Hit(I, i0, first, last) = Hit(I, i0, middle + 1, last)

LEMMA HitHalves ==
  ASSUME NEW I, NEW ip, NEW i0, Leader(I, ip, i0),
         NEW first \in 0 .. Len(I), NEW last \in -1 .. Len(I) - 1, first <= last,
         NEW middle, middle = (first + last) \div 2
  PROVE  HitInHalf(I, ip, i0, first, last, middle)
  <1>1. Len(I) \in Nat /\ ip \in Int /\ i0 \in 0 .. Len(I)
    BY DEF Leader
  <1>2. middle \in Int /\ first <= middle /\ middle <= last
    BY <1>1
  <1>3. PICK j : j = middle + 1
    OBVIOUS
  <1>4. j \in 1 .. Len(I)
    BY <1>1, <1>2, <1>3
  <1>5. CASE Leads(I[j], ip)
    <2>1. j = i0
      BY <1>4, <1>5 DEF Leader
    <2>2. first < i0 /\ i0 <= last + 1
      BY <1>1, <1>2, <1>3, <2>1
    <2>3. ~ (I[j].low > ip) /\ ~ (I[j].high < ip)
      BY <1>1, <1>4, <1>5 DEF Leads, Leader
    <2> QED
      BY <1>2, <1>3, <1>4, <2>1, <2>2, <2>3 DEF Hit, HitInHalf
  <1>6. CASE I[j].low > ip
    <2>1. \A k \in 1 .. Len(I) : k >= j => ~ Leads(I[k], ip)
      <3>1. TAKE k \in 1 .. Len(I)
      <3>2. I[k].low >= I[j].low \/ k < j
        <4>1. I[j].high < I[k].low \/ k = j \/ k < j
          BY <1>4 DEF Leader
        <4> QED
          BY <1>1, <1>4, <4>1 DEF Leader
      <3>3. I[k].low \in Int /\ I[j].low \in Int
        BY <1>4 DEF Leader
      <3>4. I[k].low > ip \/ k < j
        BY <1>1, <1>6, <3>2, <3>3
      <3>5. k \in Int /\ j \in Int
        BY <1>1, <1>4
      <3> QED
        BY <1>1, <3>3, <3>4, <3>5 DEF Leads
    <2>2. i0 = 0 \/ i0 < j
      BY <1>1, <1>4, <2>1 DEF Leader
    <2>3. (first < i0 /\ i0 <= last + 1) <=> (first < i0 /\ i0 <= (middle - 1) + 1)
      BY <1>1, <1>2, <1>3, <2>2
    <2>4. ~ Leads(I[j], ip) /\ ~ (I[j].high < ip)
      BY <1>1, <1>4, <1>6 DEF Leads, Leader
    <2> QED
      BY <1>2, <1>3, <1>4, <2>3, <2>4 DEF Hit, HitInHalf
  <1>7. CASE I[j].high < ip
    <2>1. \A k \in 1 .. Len(I) : k <= j => ~ Leads(I[k], ip)
      <3>1. TAKE k \in 1 .. Len(I)
      <3>2. I[k].high <= I[j].high \/ k > j
        <4>1. I[k].high < I[j].low \/ k = j \/ k > j
          BY <1>4 DEF Leader
        <4> QED
          BY <1>1, <1>4, <4>1 DEF Leader
      <3>3. I[k].high \in Int /\ I[j].high \in Int
        BY <1>4 DEF Leader
      <3>4. I[k].high < ip \/ k > j
        BY <1>1, <1>7, <3>2, <3>3
      <3>5. k \in Int /\ j \in Int
        BY <1>1, <1>4
      <3> QED
        BY <1>1, <3>3, <3>4, <3>5 DEF Leads
    <2>2. i0 = 0 \/ i0 > j
      BY <1>1, <1>4, <2>1 DEF Leader
    <2>3. (first < i0 /\ i0 <= last + 1) <=> (middle + 1 < i0 /\ i0 <= last + 1)
      BY <1>1, <1>2, <1>3, <2>2
    <2>4. ~ Leads(I[j], ip) /\ ~ (I[j].low > ip)
      BY <1>1, <1>4, <1>7 DEF Leads, Leader
    <2> QED
      BY <1>2, <1>3, <1>4, <2>3, <2>4 DEF Hit, HitInHalf
  <1> QED
    <2>1. I[j].low \in Int /\ I[j].high \in Int /\ ip \in Int
      BY <1>4 DEF Leader
    <2>2. Leads(I[j], ip) \/ I[j].low > ip \/ I[j].high < ip
      BY <2>1 DEF Leads
    <2> QED
      BY <1>5, <1>6, <1>7, <2>2

\* A search that leaves the interval in the middle on the side of the address.
Halves(f, I, ip) ==
  \A first \in 0 .. Len(I), last \in -1 .. Len(I) - 1 :
    LET middle == (first + last) \div 2
        it     == I[middle + 1]
    IN  /\ first > last => f[<<first, last>>] = <<>>
        /\ first <= last => /\ Leads(it, ip) => f[<<first, last>>] = it.data
                            /\ it.low > ip => f[<<first, last>>] = f[<<first, middle - 1>>]
                            /\ it.high < ip => f[<<first, last>>] = f[<<middle + 1, last>>]

LEMMA HalvingHits ==
  ASSUME NEW I, NEW ip, NEW i0, Leader(I, ip, i0), NEW f, Halves(f, I, ip)
  PROVE  f[<<0, Len(I) - 1>>] = IF i0 = 0 THEN <<>> ELSE I[i0].data
  <1>1. Len(I) \in Nat /\ ip \in Int /\ i0 \in 0 .. Len(I)
    BY DEF Leader
  <1> DEFINE Right(m) == \A first \in 0 .. Len(I), last \in -1 .. Len(I) - 1 :
                           last - first < m => f[<<first, last>>] = Hit(I, i0, first, last)
             T == {m \in 0 .. Len(I) : ~ Right(m)}
  <1>2. Right(0)
    <2>1. SUFFICES ASSUME NEW first \in 0 .. Len(I), NEW last \in -1 .. Len(I) - 1,
                          last - first < 0
                   PROVE  f[<<first, last>>] = Hit(I, i0, first, last)
      OBVIOUS
    <2>2. first > last /\ ~ (first < i0 /\ i0 <= last + 1)
      BY <1>1, <2>1
    <2> QED
      BY <2>2 DEF Halves, Hit
  <1>3. ASSUME NEW m \in 1 .. Len(I), Right(m - 1)
        PROVE  Right(m)
    <2>1. SUFFICES ASSUME NEW first \in 0 .. Len(I), NEW last \in -1 .. Len(I) - 1,
                          last - first < m
                   PROVE  f[<<first, last>>] = Hit(I, i0, first, last)
      OBVIOUS
    <2>2. CASE first > last
      <3>1. ~ (first < i0 /\ i0 <= last + 1)
        BY <1>1, <2>2
      <3> QED
        BY <2>2, <3>1 DEF Halves, Hit
    <2>3. CASE first <= last
      <3>1. PICK middle : middle = (first + last) \div 2
        OBVIOUS
      <3>2. HitInHalf(I, ip, i0, first, last, middle)
        BY <2>3, <3>1, HitHalves
      <3>3. /\ Leads(I[middle + 1], ip) => f[<<first, last>>] = I[middle + 1].data
            /\ I[middle + 1].low > ip => f[<<first, last>>] = f[<<first, middle - 1>>]
            /\ I[middle + 1].high < ip => f[<<first, last>>] = f[<<middle + 1, last>>]
        BY <2>3, <3>1 DEF Halves
      <3>4. middle \in Int
        BY <1>1, <3>1
      <3>5. /\ middle - 1 \in -1 .. Len(I) - 1 /\ (middle - 1) - first < m - 1
            /\ middle + 1 \in 0 .. Len(I) /\ last - (middle + 1) < m - 1
        BY <1>1, <2>1, <3>2, <3>4 DEF HitInHalf
      <3>6. /\ f[<<first, middle - 1>>] = Hit(I, i0, first, middle - 1)
            /\ f[<<middle + 1, last>>] = Hit(I, i0, middle + 1, last)
        BY <1>3, <3>5
      <3>7. Leads(I[middle + 1], ip) \/ I[middle + 1].low > ip \/ I[middle + 1].high < ip
        BY <3>2 DEF HitInHalf, Leader, Leads
      <3> QED
        BY <3>2, <3>3, <3>6, <3>7 DEF HitInHalf
    <2> QED
      BY <1>1, <2>2, <2>3
  <1>4. T = {}
    <2> HIDE DEF Right
    <2>1. 0 \notin T
      BY <1>2
    <2>2. ASSUME NEW m \in 1 .. Len(I), m \in T, m - 1 \in 0 .. Len(I), m - 1 \notin T
          PROVE  FALSE
      BY <1>3, <2>2
    <2>3. T \subseteq 0 .. Len(I)
      OBVIOUS
    <2> HIDE DEF T
    <2> QED
      BY <1>1, <2>1, <2>2, <2>3, IndexBefore
  <1>5. Right(Len(I))
    <2> HIDE DEF Right
    <2> QED
      BY <1>1, <1>4
  <1>6. f[<<0, Len(I) - 1>>] = Hit(I, i0, 0, Len(I) - 1)
    BY <1>1, <1>5
  <1>7. (0 < i0 /\ i0 <= (Len(I) - 1) + 1) <=> i0 # 0
    BY <1>1
  <1> QED
    BY <1>6, <1>7 DEF Hit

BoundsOf(I) == (0 .. Len(I)) \X (-1 .. Len(I) - 1)

Searches(f, I, ip) ==
  f = [bounds \in BoundsOf(I) |->
        LET first  == bounds[1]   last == bounds[2]
            middle == (first + last) \div 2
            it     == I[middle + 1]
        IN  IF first > last THEN <<>>
            ELSE IF it.low <= ip /\ ip <= it.high THEN it.data
            ELSE IF it.high > ip THEN f[<<first, middle - 1>>]
            ELSE f[<<middle + 1, last>>]]

PySearches(f, I, ip) ==
  f = [bounds \in BoundsOf(I) |->
        LET first  == bounds[1]   last == bounds[2]
            middle == (first + last) \div 2
            it     == I[middle + 1]
        IN  IF first > last THEN <<>>
            ELSE IF ip < it.low THEN f[<<first, middle - 1>>]
            ELSE IF ip > it.high THEN f[<<middle + 1, last>>]
            ELSE it.data]

LEMMA MiddleIs ==
  ASSUME NEW I, NEW ip, NEW i0, Leader(I, ip, i0),
         NEW first \in 0 .. Len(I), NEW last \in -1 .. Len(I) - 1, first <= last,
         NEW middle, middle = (first + last) \div 2
  PROVE  /\ I[middle + 1].low \in Int /\ I[middle + 1].high \in Int /\ ip \in Int
         /\ I[middle + 1].low <= I[middle + 1].high
         /\ middle \in Int /\ middle - 1 \in -1 .. Len(I) - 1 /\ middle + 1 \in 0 .. Len(I)
  <1>1. Len(I) \in Nat
    BY DEF Leader
  <1>2. middle + 1 \in 1 .. Len(I) /\ middle \in Int
    BY <1>1
  <1>3. middle - 1 \in -1 .. Len(I) - 1 /\ middle + 1 \in 0 .. Len(I)
    BY <1>1, <1>2
  <1>4. PICK j \in 1 .. Len(I) : j = middle + 1
    BY <1>2
  <1>5. ip \in Int /\ I[j].low \in Int /\ I[j].high \in Int /\ I[j].low <= I[j].high
    BY DEF Leader
  <1> QED
    BY <1>2, <1>3, <1>4, <1>5

LEMMA SearchesExists ==
  ASSUME NEW I, NEW ip, NEW i0, Leader(I, ip, i0)
  PROVE  \E f : Searches(f, I, ip) /\ PySearches(f, I, ip)
  <1> DEFINE h == [bounds \in BoundsOf(I) |-> Hit(I, i0, bounds[1], bounds[2])]
  <1>1. \A first \in 0 .. Len(I), last \in -1 .. Len(I) - 1 :
          h[<<first, last>>] = Hit(I, i0, first, last)
    <2>1. TAKE first \in 0 .. Len(I), last \in -1 .. Len(I) - 1
    <2>2. PICK b \in BoundsOf(I) : b = <<first, last>>
      BY DEF BoundsOf
    <2>3. b[1] = first /\ b[2] = last
      BY <2>2
    <2> QED
      BY <2>2, <2>3
  <1>2. PICK f : f = h
    OBVIOUS
  <1>3. ASSUME NEW b \in BoundsOf(I)
        PROVE  LET first  == b[1]   last == b[2]
                   middle == (first + last) \div 2
                   it     == I[middle + 1]
               IN  /\ f[b] = IF first > last THEN <<>>
                             ELSE IF it.low <= ip /\ ip <= it.high THEN it.data
                             ELSE IF it.high > ip THEN f[<<first, middle - 1>>]
                             ELSE f[<<middle + 1, last>>]
                   /\ f[b] = IF first > last THEN <<>>
                             ELSE IF ip < it.low THEN f[<<first, middle - 1>>]
                             ELSE IF ip > it.high THEN f[<<middle + 1, last>>]
                             ELSE it.data
    <2>1. PICK first \in 0 .. Len(I), last \in -1 .. Len(I) - 1 : b = <<first, last>>
      BY <1>3 DEF BoundsOf
    <2>2. b[1] = first /\ b[2] = last
      BY <2>1
    <2>3. f[b] = Hit(I, i0, first, last)
      BY <1>1, <1>2, <2>1
    <2>4. PICK middle : middle = (first + last) \div 2
      OBVIOUS
    <2>5. CASE first > last
      <3>1. Len(I) \in Nat /\ i0 \in 0 .. Len(I)
        BY DEF Leader
      <3>2. ~ (first < i0 /\ i0 <= last + 1)
        BY <2>5, <3>1
      <3>3. f[b] = <<>>
        BY <2>3, <3>2 DEF Hit
      <3> QED
        BY <2>2, <2>5, <3>3
    <2>6. CASE first <= last
      <3>1. HitInHalf(I, ip, i0, first, last, middle)
        BY <2>4, <2>6, HitHalves
      <3>2. /\ I[middle + 1].low \in Int /\ I[middle + 1].high \in Int /\ ip \in Int
            /\ I[middle + 1].low <= I[middle + 1].high
            /\ middle \in Int /\ middle - 1 \in -1 .. Len(I) - 1 /\ middle + 1 \in 0 .. Len(I)
        BY <2>4, <2>6, MiddleIs
      <3>3. /\ f[<<first, middle - 1>>] = Hit(I, i0, first, middle - 1)
            /\ f[<<middle + 1, last>>] = Hit(I, i0, middle + 1, last)
        BY <1>1, <1>2, <3>2
      <3>4. ~ (first > last)
        BY <2>6
      <3>5. PICK it : it = I[middle + 1]
        OBVIOUS
      <3>6. /\ f[b] = IF it.low <= ip /\ ip <= it.high THEN it.data
                      ELSE IF it.high > ip THEN f[<<first, middle - 1>>]
                      ELSE f[<<middle + 1, last>>]
            /\ f[b] = IF ip < it.low THEN f[<<first, middle - 1>>]
                      ELSE IF ip > it.high THEN f[<<middle + 1, last>>]
                      ELSE it.data
        BY <2>3, <3>1, <3>2, <3>3, <3>5 DEF HitInHalf, Leads
      <3> QED
        BY <2>2, <2>4, <3>4, <3>5, <3>6
    <2> QED
      BY <2>5, <2>6
  <1>4. f = [b \in BoundsOf(I) |-> f[b]]
    BY <1>2
  <1>5. Searches(f, I, ip)
    BY <1>3, <1>4 DEF Searches
  <1>6. PySearches(f, I, ip)
    BY <1>3, <1>4 DEF PySearches
  <1> QED
    BY <1>5, <1>6

LEMMA SearchesHalves ==
  ASSUME NEW I, NEW ip, NEW i0, Leader(I, ip, i0), NEW f,
         Searches(f, I, ip) \/ PySearches(f, I, ip)
  PROVE  Halves(f, I, ip)
  <1>1. SUFFICES ASSUME NEW first \in 0 .. Len(I), NEW last \in -1 .. Len(I) - 1,
                        NEW middle, middle = (first + last) \div 2,
                        NEW it, it = I[middle + 1]
                 PROVE  /\ first > last => f[<<first, last>>] = <<>>
                        /\ first <= last =>
                             /\ Leads(it, ip) => f[<<first, last>>] = it.data
                             /\ it.low > ip => f[<<first, last>>] = f[<<first, middle - 1>>]
                             /\ it.high < ip => f[<<first, last>>] = f[<<middle + 1, last>>]
    BY DEF Halves
  <1>2. PICK b \in BoundsOf(I) : b = <<first, last>>
    BY DEF BoundsOf
  <1>3. b[1] = first /\ b[2] = last
    BY <1>2
  <1>4. first <= last => /\ it.low \in Int /\ it.high \in Int /\ ip \in Int
                         /\ it.low <= it.high
    BY <1>1, MiddleIs
  <1>5. CASE Searches(f, I, ip)
    <2>1. f[b] = IF first > last THEN <<>>
                 ELSE IF it.low <= ip /\ ip <= it.high THEN it.data
                 ELSE IF it.high > ip THEN f[<<first, middle - 1>>]
                 ELSE f[<<middle + 1, last>>]
      BY <1>1, <1>3, <1>5 DEF Searches
    <2> QED
      BY <1>2, <1>4, <2>1 DEF Leads
  <1>6. CASE PySearches(f, I, ip)
    <2>1. f[b] = IF first > last THEN <<>>
                 ELSE IF ip < it.low THEN f[<<first, middle - 1>>]
                 ELSE IF ip > it.high THEN f[<<middle + 1, last>>]
                 ELSE it.data
      BY <1>1, <1>3, <1>6 DEF PySearches
    <2> QED
      BY <1>2, <1>4, <2>1 DEF Leads
  <1> QED
    BY <1>5, <1>6

LEMMA SearchHits ==
  ASSUME NEW ip, NEW i0, Leader(intervals, ip, i0)
  PROVE  /\ Search(ip) = IF i0 = 0 THEN <<>> ELSE intervals[i0].data
         /\ PySearch(ip) = IF i0 = 0 THEN <<>> ELSE intervals[i0].data
  <1>1. PICK I : I = intervals
    OBVIOUS
  <1>2. Leader(I, ip, i0)
    BY <1>1
  <1> DEFINE F == CHOOSE f : Searches(f, I, ip)
             G == CHOOSE f : PySearches(f, I, ip)
  <1>3. Searches(F, I, ip) /\ PySearches(G, I, ip)
    BY <1>2, SearchesExists
  <1>4. Search(ip) = F[<<0, Len(I) - 1>>]
    BY <1>1 DEF Search, Searches, Bounds, BoundsOf
  <1>5. PySearch(ip) = G[<<0, Len(I) - 1>>]
    BY <1>1 DEF PySearch, PySearches, Bounds, BoundsOf
  <1> HIDE DEF F, G
  <1>6. Halves(F, I, ip) /\ Halves(G, I, ip)
    BY <1>2, <1>3, SearchesHalves
  <1>7. /\ F[<<0, Len(I) - 1>>] = IF i0 = 0 THEN <<>> ELSE I[i0].data
        /\ G[<<0, Len(I) - 1>>] = IF i0 = 0 THEN <<>> ELSE I[i0].data
    BY <1>2, <1>6, HalvingHits
  <1> QED
    BY <1>1, <1>4, <1>5, <1>7

\* From the state to the search: the interval that leads an address has its data.
LEMMA SearchIsRight ==
  ASSUME PrefixInv, freed = <<>>, NEW ip \in Int
  PROVE  Expected(Search(ip), ip) /\ Expected(PySearch(ip), ip)
  <1>1. PrefixTypeOK /\ InOrderAndRight /\ Covered
    BY DEF PrefixInv
  <1>2. /\ Len(intervals) \in Nat /\ DOMAIN intervals = 1 .. Len(intervals)
        /\ \A j \in 1 .. Len(intervals) :
             intervals[j].low \in Int /\ intervals[j].high \in Int
        /\ \A k \in DOMAIN networks : networks[k].low \in Int /\ networks[k].high \in Int
    BY <1>1, PrefixTypes
  <1>3. /\ \A i, j \in 1 .. Len(intervals) : i < j => intervals[i].high < intervals[j].low
        /\ \A j \in 1 .. Len(intervals) : intervals[j].low <= intervals[j].high
    BY <1>1, <1>2 DEF InOrderAndRight
  <1>4. CASE \E i \in 1 .. Len(intervals) : Leads(intervals[i], ip)
    <2>1. PICK i \in 1 .. Len(intervals) : Leads(intervals[i], ip)
      BY <1>4
    <2>2. \A j \in 1 .. Len(intervals) : Leads(intervals[j], ip) => j = i
      <3>1. TAKE j \in 1 .. Len(intervals)
      <3>2. i < j \/ j < i \/ i = j
        OBVIOUS
      <3> QED
        BY <1>2, <1>3, <2>1, <3>2 DEF Leads
    <2>3. i \in 0 .. Len(intervals) /\ i # 0
      BY <1>2
    <2>4. Leader(intervals, ip, i)
      BY <1>2, <1>3, <2>1, <2>2, <2>3 DEF Leader
    <2>5. Search(ip) = intervals[i].data /\ PySearch(ip) = intervals[i].data
      BY <2>3, <2>4, SearchHits
    <2>6. ip \in intervals[i].low .. intervals[i].high
      BY <1>2, <2>1 DEF Leads
    <2>7. Expected(intervals[i].data, ip)
      BY <1>1, <1>2, <2>1, <2>6 DEF InOrderAndRight
    <2> QED
      BY <2>5, <2>7
  <1>5. CASE ~ \E i \in 1 .. Len(intervals) : Leads(intervals[i], ip)
    <2>1. Leader(intervals, ip, 0)
      BY <1>2, <1>3, <1>5 DEF Leader
    <2>2. Search(ip) = <<>> /\ PySearch(ip) = <<>>
      BY <2>1, SearchHits
    <2>3. Around(ip) = {}
      <3>1. SUFFICES ASSUME NEW k \in Around(ip) PROVE FALSE
        OBVIOUS
      <3>2. k \in DOMAIN networks /\ ip \in networks[k].low .. networks[k].high
        BY <1>2, <3>1 DEF Around
      <3> QED
        BY <1>1, <1>2, <1>5, <3>2 DEF Covered
    <2>4. Expected(<<>>, ip)
      BY <2>3 DEF Expected, Enumerates, ToSet
    <2> QED
      BY <2>2, <2>4
  <1> QED
    BY <1>4, <1>5

\* A network out of the sorted array always meets one of the cases.
LEMMA EveryNetworkFits ==
  ASSUME PrefixInv, freed = <<>>, NEW n \in Upcoming
  PROVE  /\ ToInitial(n) \/ ToAppend(n) \/ ToInside(n) \/ ToEnd(n) \/ ToStart(n) \/ ToSame(n)
         /\ Overlapped(n) # 0 => ~ Forbidden(intervals[Overlapped(n)], n)
  <1>1. /\ Meets(n) => Met(n, Conductor(n))
        /\ Conductor(n) \in 1 .. Len(intervals) + 1
    BY ConductorMeets
  <1>2. Len(intervals) \in Nat /\ DOMAIN intervals = 1 .. Len(intervals)
    BY PrefixTypes DEF PrefixInv
  <1>3. ~ Meets(n) => ToInitial(n) \/ ToAppend(n)
    BY <1>1, <1>2 DEF Meets, ToInitial, ToAppend
  <1>4. Meets(n) => ToInside(n) \/ ToEnd(n) \/ ToStart(n) \/ ToSame(n)
    <2>1. SUFFICES ASSUME Meets(n)
                   PROVE  ToInside(n) \/ ToEnd(n) \/ ToStart(n) \/ ToSame(n)
      OBVIOUS
    <2>2. PICK i : i = Conductor(n)
      OBVIOUS
    <2>3. /\ n.low \in Int /\ n.high \in Int
          /\ intervals[i].low <= n.low /\ n.high <= intervals[i].high
          /\ intervals[i].low \in Int /\ intervals[i].high \in Int
      BY <1>1, <2>1, <2>2, MetFacts
    <2> QED
      BY <2>1, <2>2, <2>3 DEF ToInside, ToEnd, ToStart, ToSame
  <1>5. Overlapped(n) # 0 => ~ Forbidden(intervals[Overlapped(n)], n)
    <2>1. SUFFICES ASSUME Overlapped(n) # 0
                   PROVE  ~ Forbidden(intervals[Overlapped(n)], n)
      OBVIOUS
    <2>2. PICK i : i = Overlapped(n)
      OBVIOUS
    <2>3. Met(n, i)
      BY <2>1, <2>2, OverlappedMeets
    <2>4. /\ n.low \in Int /\ n.high \in Int
          /\ intervals[i].low <= n.low /\ n.high <= intervals[i].high
          /\ intervals[i].low \in Int /\ intervals[i].high \in Int
      BY <2>3, MetFacts
    <2> QED
      BY <2>2, <2>4 DEF Forbidden
  <1> QED
    BY <1>3, <1>4, <1>5

LEMMA PrefixInvImplies == PrefixInv => PrefixesFound
  <1>1. SUFFICES ASSUME PrefixInv PROVE PrefixesFound
    OBVIOUS
  <1>2. ASSUME freed = <<>>, NEW ip \in Addresses
        PROVE  Expected(IF library = "c" THEN Search(ip) ELSE PySearch(ip), ip)
    <2>1. TwoTo[Bits] \in Nat \ {0}
      BY TwoToPositive, PrefixAssumption
    <2>2. ip \in Int
      BY <1>2, <2>1 DEF Addresses
    <2> QED
      BY <1>1, <1>2, <2>2, SearchIsRight
  <1>3. freed # <<>> => AllFreed /\ library = "c"
    BY <1>1 DEF PrefixInv
  <1>4. ASSUME freed = <<>>, NEW n \in Upcoming
        PROVE  /\ ToInitial(n) \/ ToAppend(n) \/ ToInside(n) \/ ToEnd(n) \/ ToStart(n) \/ ToSame(n)
               /\ Overlapped(n) # 0 => ~ Forbidden(intervals[Overlapped(n)], n)
    BY <1>1, <1>4, EveryNetworkFits
  <1>5. library = "python" => freed = <<>>
    BY <1>3
  <1> QED
    BY <1>2, <1>3, <1>4, <1>5 DEF PrefixesFound

(* PrefixesFound: whatever networks, nested in, next to or equal to each    *)
(* other, init_context and split_overlaps_intervals fold into the list, for *)
(* every width of an address the search finds the data of exactly the      *)
(* networks an address lies in, each once; no network meets a case that is *)
(* refused; and ipps_destroy frees the data of every network exactly once. *)
THEOREM SearchesFind == PrefixSpec => []PrefixesFound
  BY PrefixInvariance, PrefixInvImplies, PTL
===============================================================================
