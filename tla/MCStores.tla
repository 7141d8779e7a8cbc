------------------------------ MODULE MCStores ------------------------------
(***************************************************************************)
(* The parts that share no state with each other, for one run of TLC: each *)
(* behaviour is one of the part that is chosen at first, and the others    *)
(* stay as they begin.                                                     *)
(***************************************************************************)
EXTENDS Context, TlsSender, IfcFile, UniRecFields, UniRecRecord, IpPrefixSearch,
        PyTemplate, BPlusTree, FastHashTable, FastHashFilter, PrefixTree,
        TlsReceiver, MCCuckoo

VARIABLE part

Parts == {"context", "tls", "file", "fields", "record", "search", "python",
          "bplus", "table", "filter", "trie", "tls_input", "cuckoo", "cuckoo_v2"}

StoresInit ==
  /\ part \in Parts
  /\ ContextInit /\ TlsInit /\ FieldsInit /\ PyInit /\ BptInit /\ FhtInit
  /\ FileInit /\ RecordInit /\ PrefixInit /\ FhfInit /\ TrieInit
  /\ TlsReceiverInit /\ CuckooInit /\ CvInit
  /\ part # "file" => format = NoFormat /\ config = CHOOSE c \in FileConfigs : TRUE
  /\ part # "record" => \A r \in UrRecords : tmplt[r] = CHOOSE t \in UrTemplates : TRUE
  /\ part # "search" => library = "c"
  /\ part # "filter" => filter = CHOOSE T \in NewTables(1) : TRUE
  /\ part # "trie" => relaxation = CHOOSE b \in Relaxations : TRUE
  /\ part # "cuckoo" => ckRehash

InterfaceVars == <<contextVars, tlsVars, trVars, fileVars>>
UniRecVars == <<fieldVars, recordVars, prefixVars, pyVars>>
CommonVars == <<bptVars, fhtVars, fhfVars, trieVars, cuckooVars, cvVars>>

InterfacePart ==
  /\ UNCHANGED <<UniRecVars, CommonVars, part>>
  /\ \/ part = "context" /\ ContextNext /\ UNCHANGED <<tlsVars, trVars, fileVars>>
     \/ part = "tls" /\ TlsNext /\ UNCHANGED <<contextVars, trVars, fileVars>>
     \/ part = "tls_input" /\ TlsReceiverNext /\ UNCHANGED <<contextVars, tlsVars, fileVars>>
     \/ part = "file" /\ FileNext /\ UNCHANGED <<contextVars, tlsVars, trVars>>

UniRecPart ==
  /\ UNCHANGED <<InterfaceVars, CommonVars, part>>
  /\ \/ part = "fields" /\ FieldsNext /\ UNCHANGED <<recordVars, prefixVars, pyVars>>
     \/ part = "record" /\ RecordNext /\ UNCHANGED <<fieldVars, prefixVars, pyVars>>
     \/ part = "search" /\ PrefixNext /\ UNCHANGED <<fieldVars, recordVars, pyVars>>
     \/ part = "python" /\ PyNext /\ UNCHANGED <<fieldVars, recordVars, prefixVars>>

CommonPart ==
  /\ UNCHANGED <<InterfaceVars, UniRecVars, part>>
  /\ \/ /\ UNCHANGED <<cuckooVars, cvVars>>
        /\ \/ part = "bplus" /\ BptNext /\ UNCHANGED <<fhtVars, fhfVars, trieVars>>
           \/ part = "table" /\ FhtNext /\ UNCHANGED <<bptVars, fhfVars, trieVars>>
           \/ part = "filter" /\ FhfNext /\ UNCHANGED <<bptVars, fhtVars, trieVars>>
           \/ part = "trie" /\ TrieNext /\ UNCHANGED <<bptVars, fhtVars, fhfVars>>
     \/ /\ UNCHANGED <<bptVars, fhtVars, fhfVars, trieVars>>
        /\ \/ part = "cuckoo" /\ CuckooNext /\ UNCHANGED cvVars
           \/ part = "cuckoo_v2" /\ CvNext /\ UNCHANGED cuckooVars

StoresNext == InterfacePart \/ UniRecPart \/ CommonPart

StoresSpec == StoresInit /\ [][StoresNext]_<<InterfaceVars, UniRecVars, CommonVars, part>>

-----------------------------------------------------------------------------
(* The keys of the fast hash table have one row and are interchangeable,   *)
(* and so are its threads: states that only differ in which key or thread  *)
(* is which are one.  A key is numbered by its first place in the table,   *)
(* the stash and the calls.                                                *)
ThreadOrder == SetToSeq(FhtThreads)

FhtView ==
  LET Keys == FlattenSeq([r \in TableRow |-> table[r].col]) \o stash \o
              [i \in DOMAIN ThreadOrder |-> caller[ThreadOrder[i]].key]
      number == [k \in FhtKeys \cup {NoKey} |->
                   IF k = NoKey THEN 0
                   ELSE Min({i \in DOMAIN Keys : Keys[i] = k} \cup {Len(Keys) + 1})]
      Seen(keys) == {number[k] : k \in keys}
      Row(keys) == [i \in DOMAIN keys |-> number[keys[i]]]
      Thread(t) == <<[caller[t] EXCEPT !.key = number[@]], Seen(notGiven[t]),
                     {r \in DOMAIN lock : lock[r] = t}>>
      Pairs(pairs) == {<<number[p[1]], number[p[2]]>> : p \in pairs}
  IN <<[r \in TableRow |-> <<Row(table[r].col), table[r].vector, Pairs(used[r])>>],
       Row(stash), stashIndex, Seen(owed),
       [x \in {Thread(t) : t \in FhtThreads} |->
          Cardinality({t \in FhtThreads : Thread(t) = x})]>>

(* What the ring and the threads do depends neither on the messages, but   *)
(* for their number, nor on what was counted, written into the headers and *)
(* sent; and OnlyLeaksDrainPool only asks whether a client left a leak.    *)
TlsView ==
  <<head, tail, slot, [k \in Containers |-> <<cont[k].ref, cont[k].idx, Len(cont[k].msgs)>>],
    active, empty, deferred, threadVars, clientVars, bufferswitch, terminated, term,
    accepted, tcont, missed, leaks > 0>>

(* Only the part that was chosen changes.                                  *)
StoresView ==
  <<part,
    CASE part = "context" -> contextVars  [] part = "tls" -> TlsView
      [] part = "tls_input" -> trVars     [] part = "file" -> fileVars
      [] part = "fields" -> fieldVars     [] part = "record" -> recordVars
      [] part = "search" -> prefixVars    [] part = "python" -> pyVars
      [] part = "bplus" -> bptVars        [] part = "table" -> FhtView
      [] part = "filter" -> fhfVars       [] part = "trie" -> trieVars
      [] part = "cuckoo" -> cuckooVars    [] part = "cuckoo_v2" -> cvVars>>

-----------------------------------------------------------------------------
(* Values of the constants.                                                *)
MCFileConfigs ==
  {[append |-> c[1], bySize |-> c[2], byTime |-> c[3]] :
     c \in {<<TRUE, FALSE, TRUE>>, <<FALSE, TRUE, FALSE>>}}
MCStamp == <<1, 2>>
MCExisting == {<<0, 0>>, <<1, 1>>}

MCStaticNames == <<"s">>
MCStaticTypes == <<"int">>
MCDataFmts == [1 .. 2 -> FieldNames \X (FieldTypes \cup {BadType})]

MCUrNames == <<"cnt", "data", "tag", "url">>
MCUrSize == [cnt |-> 1, data |-> -2, tag |-> -1, url |-> -1]
MCUrTemplates == {{"cnt", "url", "data"}, {"tag", "url", "data"}}
MCTexts == {<<>>, <<2, 3>>}

MCHashRow == [k \in FhtKeys |-> 1]
(* Three keys that share a row and overflow every table, and keys that     *)
(* spread with the number of rows.                                         *)
MCHashes == {<<0, 0, 0>>, <<0, 1, 5>>}

MCStrings ==
  {<<"a">>, <<"a", "a", ".", "b">>, <<"a", "b", ".", "a">>,
   <<"a", "b", ".", "b", "a">>, <<"a", "b", ".", "b", "b">>}
=============================================================================
