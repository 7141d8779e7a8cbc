--------------------------- MODULE UniRecFields ---------------------------
(***************************************************************************)
(* The table of fields of UniRec (src/unirec/unirec.c): fields are defined *)
(* and undefined at run time, the ids of undefined fields are used again,  *)
(* the table grows, and templates keep ids of fields in their own tables.  *)
(* TRAP_RECEIVE makes the template of an input anew from the data format   *)
(* the sender announces.                                                   *)
(***************************************************************************)
EXTENDS Integers, SequencesExt, FiniteSetsExt, Functions

CONSTANTS
  StaticNames,     \* the names the module defines by UR_FIELDS, in order
  StaticTypes,     \* and their types
  FieldNames,      \* the names used at run time
  FieldTypes,      \* the types used
  BadType,         \* a type in a data format that UniRec does not know
  Room,            \* UR_INITIAL_SIZE_FIELDS_TABLE
  MaxFields,       \* UR_FIELD_ID_MAX
  DataFmts,        \* the data formats senders announce: sequences of names with types
  UrHandles,       \* the variables of the program that hold a template
  Undefined        \* no name

ASSUME FieldsAssumption ==
  /\ StaticNames \in Seq(STRING) /\ FieldNames \subseteq STRING
  /\ IsInjective(StaticNames) /\ Undefined \notin FieldNames \cup ToSet(StaticNames)
  /\ StaticTypes \in Seq(FieldTypes) /\ Len(StaticTypes) = Len(StaticNames)
  /\ DataFmts \subseteq Seq(FieldNames \X (FieldTypes \cup {BadType}))
  /\ Room \in Nat \ {0} /\ MaxFields \in Nat

VARIABLES
  names, types,    \* ur_field_names and ur_field_types by id; ids start at 0
  lastId,          \* ur_last_id
  allocated,       \* ur_allocated_fields
  undefineFields,  \* ur_undefine_fields, the first first
  urInit,     \* ur_init was done
  template,        \* the templates: [ids, offsetSize, made] or none
  lost             \* templates the program has no pointer to any more

fieldVars == <<names, types, lastId, allocated, undefineFields, urInit,
               template, lost>>
tableVars == <<names, types, lastId, allocated, undefineFields, urInit>>

StaticId == Len(StaticNames)
NoTemplate == [ids |-> {}, offsetSize |-> -1, made |-> <<>>]

IdsOf(nameTable, n) == {id \in DOMAIN nameTable : nameTable[id] = n}

\* Mutant: ids run on from the names there are.
EmptyIdBug(table) ==
  LET defined == Cardinality({id \in DOMAIN table.names : table.names[id] # Undefined})
  IN  IF defined < MaxFields THEN defined ELSE -1

\* The id ur_get_empty_id gives: an undefined one, the next one, or a negative
\* number when the table is as large as ids can be.
EmptyId(table) ==
  IF table.undefine # <<>> THEN Head(table.undefine)
  ELSE IF table.last < table.allocated \/ table.last < MaxFields THEN table.last
  ELSE -1

\* When the table is full its size is doubled.
Grown(table, id) ==
  IF id = table.allocated THEN Min({2 * table.allocated, MaxFields}) ELSE table.allocated

\* The table as ur_define_field finds it; ur_init is done with the first field.
Table == [ names |-> names, types |-> types, last |-> lastId,
           allocated |-> IF urInit THEN allocated ELSE StaticId + Room,
           undefine |-> undefineFields ]

SetTable(table) == /\ names' = table.names
                   /\ types' = table.types
                   /\ lastId' = table.last
                   /\ allocated' = table.allocated
                   /\ undefineFields' = table.undefine

With(column, id, value) ==
  [i \in DOMAIN column \cup {id} |-> IF i = id THEN value ELSE column[i]]

\* ur_define_field: the id of the field and the table after the call.
Defined(table, n, ty) ==
  LET known == IdsOf(table.names, n)
      id    == EmptyId(table)
  IN  IF known # {}
      THEN [table |-> table,
            id |-> IF table.types[Min(known)] = ty THEN Min(known) ELSE -1]
      ELSE IF id < 0 THEN [table |-> table, id |-> -1]
      ELSE [id |-> id,
            table |-> [ names     |-> With(table.names, id, n),
                        types     |-> With(table.types, id, ty),
                        last      |-> IF id = table.last THEN id + 1 ELSE table.last,
                        allocated |-> Grown(table, id),
                        undefine  |-> IF table.undefine = <<>> THEN <<>>
                                      ELSE Tail(table.undefine) ]]

\* ur_define_set_of_fields: stops at the first field that cannot be defined;
\* those before it stay defined.
DefinedNext(soFar, f) ==
  LET d == Defined(soFar.table, f[1], f[2])
  IN  IF ~ soFar.ok THEN soFar
      ELSE IF f[2] = BadType THEN [soFar EXCEPT !.ok = FALSE]
      ELSE [ok |-> d.id >= 0, table |-> d.table]

DefinedSet(spec) ==
  LET upTo[n \in 0 .. Len(spec)] == IF n = 0 THEN [ok |-> TRUE, table |-> Table]
                                    ELSE DefinedNext(upTo[n - 1], spec[n])
  IN  upTo[Len(spec)]

\* ur_create_template: needs every name to be defined.  made keeps what the ids
\* stood for, to be compared with what they stand for later.
CanMake(table, fields) == \A n \in fields : IdsOf(table.names, n) # {}
Made(table, fields) ==
  LET ids == UNION {{Min(IdsOf(table.names, n))} : n \in fields}
  IN  [ids |-> ids, offsetSize |-> table.last,
       made |-> [id \in ids |-> <<table.names[id], table.types[id]>>]]

------------------------------------------------------------------------------
DefineField(n, ty) ==
  /\ SetTable(Defined(Table, n, ty).table)
  /\ urInit' = TRUE
  /\ UNCHANGED <<template, lost>>

\* ur_undefine_field and ur_undefine_field_by_id: only fields of the run time.
\* All templates with the field have to be made again: here they are dropped.
UndefineField(id) ==
  /\ id \in StaticId .. lastId - 1
  /\ names[id] # Undefined
  /\ names' = [names EXCEPT ![id] = Undefined]
  /\ undefineFields' = <<id>> \o undefineFields
  /\ template' = [h \in UrHandles |-> IF id \in template[h].ids THEN NoTemplate ELSE template[h]]
  /\ UNCHANGED <<types, lastId, allocated, urInit, lost>>

CreateTemplate(h, fields) ==
  /\ template[h] = NoTemplate
  /\ CanMake(Table, fields)
  /\ template' = [template EXCEPT ![h] = Made(Table, fields)]
  /\ UNCHANGED <<tableVars, lost>>

\* ur_expand_template: the names of a format and those of the template make a
\* new one, and the template is freed.  All names are defined: the code goes on
\* with NULL otherwise.
ExpandTemplate(h, fields) ==
  /\ CanMake(Table, fields)
  /\ template' = [template EXCEPT ![h] =
                   Made(Table, fields \cup {names[id] : id \in template[h].ids})]
  /\ UNCHANGED <<tableVars, lost>>

\* TRAP_RECEIVE after TRAP_E_FORMAT_CHANGED: ur_define_fields_and_update_template
\* frees the old template only when it made the new one, and the variable of the
\* program becomes NULL otherwise.
UpdateTemplate(h, spec) ==
  LET defined == DefinedSet(spec)
      fields  == {spec[i][1] : i \in DOMAIN spec}
  IN  /\ SetTable(defined.table)
      /\ urInit' = TRUE
      /\ IF defined.ok
         THEN /\ template' = [template EXCEPT ![h] = Made(defined.table, fields)]
              /\ UNCHANGED lost
         ELSE /\ template' = [template EXCEPT ![h] = NoTemplate]
              /\ lost' = (lost \/ template[h] # NoTemplate)

\* ur_finalize, after the program has freed its templates.
UrFinalize ==
  /\ urInit
  /\ names' = [id \in 0 .. StaticId - 1 |-> StaticNames[id + 1]]
  /\ types' = [id \in 0 .. StaticId - 1 |-> StaticTypes[id + 1]]
  /\ lastId' = StaticId
  /\ allocated' = StaticId
  /\ undefineFields' = <<>>
  /\ urInit' = FALSE
  /\ template' = [h \in UrHandles |-> NoTemplate]
  /\ lost' = FALSE

FieldsInit ==
  /\ names = [id \in 0 .. StaticId - 1 |-> StaticNames[id + 1]]
  /\ types = [id \in 0 .. StaticId - 1 |-> StaticTypes[id + 1]]
  /\ lastId = StaticId
  /\ allocated = StaticId
  /\ undefineFields = <<>>
  /\ urInit = FALSE
  /\ template = [h \in UrHandles |-> NoTemplate]
  /\ lost = FALSE

FieldsNext ==
  \/ \E n \in FieldNames, ty \in FieldTypes : DefineField(n, ty)
  \/ \E id \in DOMAIN names : UndefineField(id)
  \/ \E h \in UrHandles : \/ \E fields \in SUBSET (FieldNames \cup ToSet(StaticNames)) :
                               fields # {} /\ (CreateTemplate(h, fields)
                                                \/ ExpandTemplate(h, fields))
                          \/ \E spec \in DataFmts : UpdateTemplate(h, spec)
  \/ UrFinalize

FieldsSpec == FieldsInit /\ [][FieldsNext]_fieldVars

\* However fields were defined, undefined and defined again: no two fields share
\* a name, the free ids are exactly those of undefined fields, each once, the
\* table never outgrows its memory, and a template finds behind each of its ids
\* the field it was made for.
TemplatesResolve ==
  /\ \A i, j \in DOMAIN names : names[i] = names[j] /\ names[i] # Undefined => i = j
  /\ ToSet(undefineFields) = {id \in DOMAIN names : names[id] = Undefined}
  /\ IsInjective(undefineFields)
  /\ DOMAIN names = 0 .. lastId - 1
  /\ lastId <= allocated /\ allocated <= Max({MaxFields, StaticId + Room})
  /\ \A h \in UrHandles : \A id \in template[h].ids :
       /\ id < template[h].offsetSize
       /\ template[h].made[id] = <<names[id], types[id]>>

------------------------------------------------------------------------------
\* The inductive invariant behind it (see UniRecProofs): the same of the table as
\* the next call finds it, with the types, and templates only of fields that are
\* defined.
NameSet == FieldNames \cup ToSet(StaticNames)

TableTypes(table) ==
  /\ table.last \in Nat /\ table.allocated \in Nat \ {0}
  /\ table.names \in [0 .. table.last - 1 -> NameSet \cup {Undefined}]
  /\ table.types \in [0 .. table.last - 1 -> FieldTypes]
  /\ table.undefine \in Seq(Nat)

TableRight(table) ==
  /\ TableTypes(table)
  /\ \A i, j \in DOMAIN table.names :
       table.names[i] = table.names[j] /\ table.names[i] # Undefined => i = j
  /\ ToSet(table.undefine) = {id \in DOMAIN table.names : table.names[id] = Undefined}
  /\ IsInjective(table.undefine)
  /\ table.last <= table.allocated
  /\ table.allocated <= MaxFields \/ table.allocated <= StaticId + Room

Resolves(t, table) ==
  \/ t = NoTemplate
  \/ /\ t.ids \subseteq {id \in DOMAIN table.names : table.names[id] # Undefined}
     /\ t.offsetSize \in 0 .. table.last /\ t.ids \subseteq 0 .. t.offsetSize - 1
     /\ t.made = [id \in t.ids |-> <<table.names[id], table.types[id]>>]

FieldsInv ==
  /\ TableRight(Table)
  /\ IF urInit THEN StaticId <= lastId
     ELSE lastId = StaticId /\ allocated = StaticId /\ undefineFields = <<>>
  /\ DOMAIN template = UrHandles
  /\ \A h \in UrHandles : Resolves(template[h], Table)
==============================================================================
