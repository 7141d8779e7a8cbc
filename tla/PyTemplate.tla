---------------------------- MODULE PyTemplate ----------------------------
(***************************************************************************)
(* The objects UnirecTemplate of the Python binding                        *)
(* (src/pytrap/src/unirecmodule.c, pytrapmodule.c) and the byte arrays     *)
(* they point into.  A template keeps a counted reference data_obj and a   *)
(* bare pointer data into it; after recvBulk data points into the buffer   *)
(* of libtrap instead.  Counts are changed where the code changes them;    *)
(* a byte array whose count reaches 0 is freed.                            *)
(***************************************************************************)
EXTENDS Integers, FiniteSets

CONSTANTS PyTemplates,    \* variables of the program for templates
          Buffers,        \* places for byte arrays
          None, TrapBuffer

ASSUME PyAssumption ==
  /\ IsFiniteSet(PyTemplates)
  /\ None \notin Buffers /\ TrapBuffer \notin Buffers \cup {None}

VARIABLES
  count,       \* ob_refcnt of the byte arrays; 0: not allocated
  mine,        \* byte arrays the program holds a reference to
  leaked,      \* references nobody will give back
  object,      \* the templates: "none", "whole", or "broken" (urtmplt is NULL)
  dataObj,     \* data_obj
  data         \* data: where it points

pyVars == <<count, mine, leaked, object, dataObj, data>>

\* Py_DECREF and Py_INCREF on top of counts already changed by the same call.
Less(c, b) == IF b = None THEN c ELSE [c EXCEPT ![b] = @ - 1]
More(c, b) == [c EXCEPT ![b] = @ + 1]

Usable(t) == object[t] = "whole"
Fresh(b) == count[b] = 0

\* UnirecTemplate_new, and UnirecTemplate_copy, which copies no data.
NewTemplate(t) ==
  /\ object[t] = "none"
  /\ object' = [object EXCEPT ![t] = "whole"]
  /\ UNCHANGED <<count, mine, leaked, dataObj, data>>

\* UnirecTemplate_dealloc.
Dealloc(t) ==
  /\ object[t] # "none"
  /\ object' = [object EXCEPT ![t] = "none"]
  /\ count' = Less(count, dataObj[t])
  /\ dataObj' = [dataObj EXCEPT ![t] = None]
  /\ data' = [data EXCEPT ![t] = None]
  /\ UNCHANGED <<mine, leaked>>

\* The program gets a byte array: of its own, from recv or from getData.
NewBytes(b) ==
  /\ Fresh(b)
  /\ count' = [count EXCEPT ![b] = 1]
  /\ mine' = mine \cup {b}
  /\ UNCHANGED <<leaked, object, dataObj, data>>

Drop(b) ==
  /\ b \in mine
  /\ mine' = mine \ {b}
  /\ count' = Less(count, b)
  /\ UNCHANGED <<leaked, object, dataObj, data>>

\* What setData and createMessage do to the byte array they leave.
Released(t) == IF data[t] # None THEN Less(count, dataObj[t]) ELSE count

\* Mutant: the reference of the template is not its own.
SetDataBug(t, b) ==
  /\ Usable(t)
  /\ b \in mine
  /\ count' = Released(t)
  /\ data' = [data EXCEPT ![t] = b]
  /\ dataObj' = [dataObj EXCEPT ![t] = b]
  /\ UNCHANGED <<mine, leaked, object>>

\* UnirecTemplate_setData.
SetData(t, b) ==
  /\ Usable(t)
  /\ b \in mine
  /\ count' = More(Released(t), b)
  /\ data' = [data EXCEPT ![t] = b]
  /\ dataObj' = [dataObj EXCEPT ![t] = b]
  /\ UNCHANGED <<mine, leaked, object>>

\* UnirecTemplate_createMessage: one reference for the template and one for the
\* caller, who may drop it at once.
CreateMessage(t, b, kept) ==
  /\ Usable(t)
  /\ Fresh(b)
  /\ count' = [Released(t) EXCEPT ![b] = IF kept THEN 2 ELSE 1]
  /\ mine' = IF kept THEN mine \cup {b} ELSE mine
  /\ data' = [data EXCEPT ![t] = b]
  /\ dataObj' = [dataObj EXCEPT ![t] = b]
  /\ UNCHANGED <<leaked, object>>

\* A message that is too large: the old one is given up all the same.
CreateTooLarge(t) ==
  /\ Usable(t)
  /\ count' = Released(t)
  /\ data' = [data EXCEPT ![t] = None]
  /\ dataObj' = [dataObj EXCEPT ![t] = IF data[t] # None THEN None ELSE @]
  /\ UNCHANGED <<mine, leaked, object>>

\* UnirecTemplate_setFromDict, also from sendBulk: makes a message when there is
\* none, and forgets the caller's reference to it.
SetFromDict(t, b) ==
  /\ Usable(t)
  /\ dataObj[t] = None
  /\ Fresh(b)
  /\ count' = [Released(t) EXCEPT ![b] = 2]
  /\ leaked' = [leaked EXCEPT ![b] = @ + 1]
  /\ data' = [data EXCEPT ![t] = b]
  /\ dataObj' = [dataObj EXCEPT ![t] = b]
  /\ UNCHANGED <<mine, object>>

\* One message of recvBulk: the pointer goes into the buffer of libtrap, the
\* reference to a copy.
RecvMessage(t, b) ==
  /\ Usable(t)
  /\ Fresh(b)
  /\ data' = [data EXCEPT ![t] = TrapBuffer]
  /\ count' = [Less(count, dataObj[t]) EXCEPT ![b] = 1]
  /\ dataObj' = [dataObj EXCEPT ![t] = b]
  /\ UNCHANGED <<mine, leaked, object>>

\* TRAP_E_FORMAT_CHANGED in recvBulk: a new template and UnirecTemplate_init, or
\* no template when the format cannot be used.
RecvFormatChanged(t) ==
  /\ Usable(t)
  /\ \/ /\ count' = Less(count, dataObj[t])
        /\ data' = [data EXCEPT ![t] = None]
        /\ dataObj' = [dataObj EXCEPT ![t] = None]
        /\ UNCHANGED object
     \/ /\ object' = [object EXCEPT ![t] = "broken"]
        /\ UNCHANGED <<count, data, dataObj>>
  /\ UNCHANGED <<mine, leaked>>

PyInit ==
  /\ count = [b \in Buffers |-> 0]
  /\ mine = {}
  /\ leaked = [b \in Buffers |-> 0]
  /\ object = [t \in PyTemplates |-> "none"]
  /\ dataObj = [t \in PyTemplates |-> None]
  /\ data = [t \in PyTemplates |-> None]

PyNext ==
  \/ \E t \in PyTemplates : \/ NewTemplate(t)
                            \/ Dealloc(t)
                            \/ CreateTooLarge(t)
                            \/ RecvFormatChanged(t)
                            \/ \E b \in Buffers : \/ SetData(t, b)
                                                  \/ CreateMessage(t, b, TRUE)
                                                  \/ CreateMessage(t, b, FALSE)
                                                  \/ SetFromDict(t, b)
                                                  \/ RecvMessage(t, b)
  \/ \E b \in Buffers : NewBytes(b) \/ Drop(b)

PySpec == PyInit /\ [][PyNext]_pyVars

Owners(b) == Cardinality({b} \cap mine) + Cardinality({t \in PyTemplates : dataObj[t] = b})

\* Whatever the program does with its templates and byte arrays, a template that
\* points into a byte array keeps it alive, and the count of every byte array is
\* the number of its owners, but for references that are lost for good.
DataAlive ==
  /\ \A t \in PyTemplates : data[t] \in Buffers => data[t] = dataObj[t]
  /\ \A t \in PyTemplates : (data[t] = None) = (dataObj[t] = None)
  /\ \A b \in Buffers : count[b] = Owners(b) + leaked[b]

\* With it, an inductive invariant (see StoreProofs).
PyTypeOK ==
  /\ count \in [Buffers -> Nat] /\ leaked \in [Buffers -> Nat] /\ mine \subseteq Buffers
  /\ object \in [PyTemplates -> {"none", "whole", "broken"}]
  /\ dataObj \in [PyTemplates -> Buffers \cup {None}]
  /\ data \in [PyTemplates -> Buffers \cup {None, TrapBuffer}]

PyInv == PyTypeOK /\ DataAlive
==============================================================================
