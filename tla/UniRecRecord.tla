--------------------------- MODULE UniRecRecord ---------------------------
(***************************************************************************)
(* Records of UniRec (src/unirec/unirec.c) and what the Python binding     *)
(* does to them (src/pytrap/src/unirecmodule.c).  A record has a static    *)
(* part and, behind it, the values of the dynamic fields, packed in the    *)
(* order of the template; of a dynamic field the static part keeps offset  *)
(* and length.  Every operation that changes the length of a field moves   *)
(* the values behind it.  A byte is a token; what a field should hold is   *)
(* followed in `held` to be compared with what is read from the record.    *)
(***************************************************************************)
EXTENDS Integers, SequencesExt, FiniteSetsExt

CONSTANTS
  UrTemplates,   \* the templates: each a set of names of fields
  UrSize,        \* size of a field by its name: negative if it is dynamic
  UrBytes,       \* the fields of type bytes
  UrNames,       \* the names of all fields in alphabetical order
  UrRecords,     \* the records of the program
  Texts,         \* values given to strings and bytes
  Elements,      \* elements given to arrays
  ArrayAlloc,    \* UR_ARRAY_ALLOC
  MaxVarLen,     \* bound: bytes of one dynamic value
  Junk           \* a byte nobody wrote since it became part of the value

VARIABLES
  tmplt,         \* the template of every record
  rec,           \* the records: [stat, off, len, heap]
  held           \* what every field of every record should hold

recordVars == <<tmplt, rec, held>>

IsStatic(f) == UrSize[f] >= 0
\* ur_is_array is true of strings and bytes too; only those of greater elements
\* are arrays for the array operations here.
IsArray(f) == UrSize[f] < -1

NameIndex(f) == CHOOSE i \in DOMAIN UrNames : UrNames[i] = f

\* compare_fields: greater size first, then by name.
Before(f, g) == \/ UrSize[f] > UrSize[g]
                \/ UrSize[f] = UrSize[g] /\ NameIndex(f) < NameIndex(g)

\* ur_create_template: the ids of the template in the order of the record.
Ids == [t \in UrTemplates |-> SortSeq(SetToSeq(t), Before)]
Dynamic == [t \in UrTemplates |-> SelectSeq(Ids[t], LAMBDA f : ~ IsStatic(f))]
DynamicOf(t) == {f \in t : ~ IsStatic(f)}

\* ur_create_record: calloc.
CreateRecord(t) == [ stat |-> [f \in t \ DynamicOf(t) |-> Junk],
                     off  |-> [f \in DynamicOf(t) |-> 0],
                     len  |-> [f \in DynamicOf(t) |-> 0],
                     heap |-> <<>> ]

SumLen(r, fields) == FoldLeft(LAMBDA sum, f : sum + r.len[f], 0, fields)

\* ur_rec_varlen_size.
VarlenSize(t, r) == SumLen(r, Dynamic[t])

ByteAt(heap, i) == IF i \in DOMAIN heap THEN heap[i] ELSE Junk

\* ur_get_ptr_by_id and ur_get_var_len: the bytes of a dynamic field.
GetVar(r, f) == [i \in 1 .. r.len[f] |-> ByteAt(r.heap, r.off[f] + i)]

\* The bytes written over the heap from an offset on.
Written(heap, off, v) ==
  [i \in 1 .. Len(heap) |-> IF i > off /\ i <= off + Len(v) THEN v[i - off] ELSE heap[i]]

Position(d, f) == CHOOSE i \in DOMAIN d : d[i] = f

\* The dynamic fields behind f in the record.
Behind(t, f) == LET d == Dynamic[t] IN SubSeq(d, Position(d, f) + 1, Len(d))

------------------------------------------------------------------------------

\* Mutant: fields without a value are passed over.
VarChangeSizeBug(t, r, f, n) ==
  IF r.len[f] = n THEN r
  ELSE LET behind == Behind(t, f)
           start  == r.off[f]
           moved  == SumLen(r, behind)
           newOff(g) == start + n + SumLen(r, SubSeq(behind, 1, Position(behind, g) - 1))
       IN  [r EXCEPT
              !.off  = [g \in DOMAIN r.off |->
                          IF g \in ToSet(behind) /\ r.len[g] > 0 THEN newOff(g) ELSE r.off[g]],
              !.len  = [r.len EXCEPT ![f] = n],
              !.heap = [i \in 1 .. start + n + moved |->
                          IF i <= start + n
                          THEN IF i <= start + r.len[f] THEN ByteAt(r.heap, i) ELSE Junk
                          ELSE ByteAt(r.heap, i - n + r.len[f])]]

\* ur_var_change_size: the fields behind get new offsets, their values are moved.
VarChangeSize(t, r, f, n) ==
  IF r.len[f] = n THEN r
  ELSE LET behind == Behind(t, f)
           start  == r.off[f]
           moved  == SumLen(r, behind)
           newOff(g) == start + n + SumLen(r, SubSeq(behind, 1, Position(behind, g) - 1))
       IN  [r EXCEPT
              !.off  = [g \in DOMAIN r.off |->
                          IF g \in ToSet(behind) THEN newOff(g) ELSE r.off[g]],
              !.len  = [r.len EXCEPT ![f] = n],
              !.heap = [i \in 1 .. start + n + moved |->
                          IF i <= start + n
                          THEN IF i <= start + r.len[f] THEN ByteAt(r.heap, i) ELSE Junk
                          ELSE ByteAt(r.heap, i - n + r.len[f])]]

WriteAt(r, f, i, v) == [r EXCEPT !.heap = Written(@, r.off[f] + i, v)]

\* ur_set_var.
SetVar(t, r, f, v) == WriteAt(VarChangeSize(t, r, f, Len(v)), f, 0, v)

\* ur_set_array_from_string: room for ArrayAlloc elements more whenever the room
\* is used up, the elements that can be parsed, then the right size.
SetArrayFromString(t, r, f, parsed) ==
  LET room  == ArrayAlloc * ((Len(parsed) \div ArrayAlloc) + 1)
      large == WriteAt(VarChangeSize(t, r, f, room), f, 0, parsed)
  IN  VarChangeSize(t, large, f, Len(parsed))

\* ur_clear_varlen.
ClearVarlen(r) == [r EXCEPT !.off = [f \in DOMAIN r.off |-> 0],
                            !.len = [f \in DOMAIN r.len |-> 0],
                            !.heap = <<>>]

\* ur_copy_fields: with one template for both the record is copied as it is,
\* else field by field, those both have.
CopyField(t, r, src, f) ==
  IF IsStatic(f) THEN [r EXCEPT !.stat[f] = src.stat[f]]
                 ELSE SetVar(t, r, f, GetVar(src, f))

CopyFields(tDst, dst, tSrc, src) ==
  IF tDst = tSrc THEN src
  ELSE FoldLeft(LAMBDA r, f : CopyField(tDst, r, src, f), dst,
                SelectSeq(UrNames, LAMBDA f : f \in tDst \cap tSrc))

------------------------------------------------------------------------------
\* The calls of the program.

Changed(r, newRec, f, v) == /\ rec' = [rec EXCEPT ![r] = newRec]
                            /\ held' = [held EXCEPT ![r][f] = v]
                            /\ UNCHANGED tmplt

\* A static field; the Python binding writes it the same way.
Set(r, f, x) ==
  /\ IsStatic(f)
  /\ Changed(r, [rec[r] EXCEPT !.stat[f] = x], f, <<x>>)

SetText(r, f, v) ==
  /\ ~ IsStatic(f) /\ ~ IsArray(f)
  /\ Changed(r, SetVar(tmplt[r], rec[r], f, v), f, v)

\* ur_set_from_string of a field of bytes: a pair of digits that cannot be read
\* leaves the byte at that place as it is.
SetBytes(r, f, v, bad) ==
  /\ f \in UrBytes /\ bad \in DOMAIN v
  /\ LET sized == VarChangeSize(tmplt[r], rec[r], f, Len(v))
         kept  == GetVar(sized, f)[bad]
         bytes == [v EXCEPT ![bad] = kept]
     IN  Changed(r, WriteAt(sized, f, 0, bytes), f, bytes)

SetArray(r, f, parsed) ==
  /\ IsArray(f)
  /\ Changed(r, SetArrayFromString(tmplt[r], rec[r], f, parsed), f, parsed)

\* ur_array_append.
ArrayAppend(r, f, x) ==
  /\ IsArray(f)
  /\ rec[r].len[f] < MaxVarLen
  /\ LET cnt   == rec[r].len[f]
         sized == VarChangeSize(tmplt[r], rec[r], f, cnt + 1)
     IN  Changed(r, WriteAt(sized, f, cnt, <<x>>), f, Append(held[r][f], x))

\* ur_array_set: behind the end it makes the array longer first.
ArraySet(r, f, index, x) ==
  /\ IsArray(f)
  /\ index < MaxVarLen
  /\ LET cnt   == rec[r].len[f]
         sized == IF index < cnt THEN rec[r]
                  ELSE VarChangeSize(tmplt[r], rec[r], f, index + 1)
         old   == held[r][f]
     IN  Changed(r, WriteAt(sized, f, index, <<x>>), f,
                 [i \in 1 .. Max({Len(old), index + 1}) |->
                    IF i = index + 1 THEN x ELSE ByteAt(old, i)])

\* UnirecTemplate_set_local of the Python binding: a list makes room for all its
\* items and is written item by item; an item of a wrong type ends the call.
PySetList(r, f, list, good) ==
  /\ IsArray(f) /\ good \in 0 .. Len(list)
  /\ LET sized == VarChangeSize(tmplt[r], rec[r], f, Len(list))
         items == SubSeq(list, 1, good) \o SubSeq(GetVar(sized, f), good + 1, Len(list))
     IN  Changed(r, WriteAt(sized, f, 0, items), f, items)

\* A single address (or time) is written over the first element and makes no room
\* for it: here only where there is one.
PySetSingle(r, f, x) ==
  /\ IsArray(f)
  /\ rec[r].len[f] > 0
  /\ Changed(r, WriteAt(rec[r], f, 0, <<x>>), f, [held[r][f] EXCEPT ![1] = x])

Clear(r) ==
  /\ rec' = [rec EXCEPT ![r] = ClearVarlen(@)]
  /\ held' = [held EXCEPT ![r] = [f \in tmplt[r] |-> IF IsStatic(f) THEN @[f] ELSE <<>>]]
  /\ UNCHANGED tmplt

Copy(dst, src) ==
  /\ dst # src
  /\ rec' = [rec EXCEPT ![dst] = CopyFields(tmplt[dst], @, tmplt[src], rec[src])]
  /\ held' = [held EXCEPT ![dst] = [f \in tmplt[dst] |->
                                      IF f \in tmplt[src] THEN held[src][f] ELSE @[f]]]
  /\ UNCHANGED tmplt

\* ur_clone_record: a new record takes the place of the program's other one.
Clone(dst, src) ==
  /\ dst # src
  /\ tmplt' = [tmplt EXCEPT ![dst] = tmplt[src]]
  /\ rec' = [rec EXCEPT ![dst] =
               [rec[src] EXCEPT !.heap = SubSeq(@, 1, VarlenSize(tmplt[src], rec[src]))]]
  /\ held' = [held EXCEPT ![dst] = held[src]]

RecordInit ==
  /\ tmplt \in [UrRecords -> UrTemplates]
  /\ rec = [r \in UrRecords |-> CreateRecord(tmplt[r])]
  /\ held = [r \in UrRecords |-> [f \in tmplt[r] |-> IF IsStatic(f) THEN <<Junk>> ELSE <<>>]]

Lists == BoundedSeq(Elements, MaxVarLen)

OneField(r) ==
  \E f \in tmplt[r] :
    \/ \E x \in Elements : \/ Set(r, f, x)
                           \/ ArrayAppend(r, f, x)
                           \/ PySetSingle(r, f, x)
                           \/ \E i \in 0 .. MaxVarLen - 1 : ArraySet(r, f, i, x)
    \/ \E v \in Texts : \/ SetText(r, f, v)
                        \/ \E bad \in 1 .. MaxVarLen : SetBytes(r, f, v, bad)
    \/ \E v \in Lists : \/ SetArray(r, f, v)
                        \/ \E good \in 0 .. MaxVarLen : PySetList(r, f, v, good)

RecordNext ==
  \E r \in UrRecords : \/ OneField(r)
                       \/ Clear(r)
                       \/ \E src \in UrRecords : Copy(r, src) \/ Clone(r, src)

RecordSpec == RecordInit /\ [][RecordNext]_recordVars

\* What is read of a field.
Read(r, f) == IF IsStatic(f) THEN <<rec[r].stat[f]>> ELSE GetVar(rec[r], f)

\* Whatever was done to the other fields and to other records, every field of a
\* record reads as what was last put into it, as far as that was specified; and
\* the size of the record, which is what is sent, covers all of it.
FieldsRead ==
  \A r \in UrRecords :
    /\ \A f \in tmplt[r] :
         /\ Len(Read(r, f)) = Len(held[r][f])
         /\ \A i \in DOMAIN held[r][f] : held[r][f][i] \in {Junk, Read(r, f)[i]}
    /\ \A f \in DynamicOf(tmplt[r]) :
         rec[r].off[f] + rec[r].len[f] <= VarlenSize(tmplt[r], rec[r])
==============================================================================
