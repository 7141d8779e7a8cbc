------------------------------ MODULE PrefixTree ------------------------------
(***************************************************************************)
(* The prefix tree of nemea-common (prefix_tree.c): strings of labels, such*)
(* as domain names, in nodes that share common beginnings.  Where a label  *)
(* ends a domain stands, and the labels after it hang on a tree of its own.*)
(* Nodes are split by insertions and, with relaxation, joined again when a *)
(* deletion leaves one child.  A suffix tree reads strings from their end  *)
(* and is the mirror of this one: strings are given here as the tree reads *)
(* them.                                                                   *)
(***************************************************************************)
EXTENDS Integers, FiniteSets, Sequences, SequencesExt, Functions, TLC

CONSTANTS
  Strings,       \* the strings used, sequences of characters; labels are not empty
  Separator,     \* domain_separator
  Relaxations,   \* whether nodes are joined after a deletion
  JustOnes,      \* MAX_COUNT_TO_BE_IN_JUST_ONE_SEARCHER
  UsedFrom,      \* ADD_TO_LIST_FROM_COUNT_OF_SEARCH
  MaxCalls       \* bound

ASSUME TreeAssumption ==
  /\ Relaxations \subseteq BOOLEAN
  /\ {JustOnes, UsedFrom, MaxCalls} \subseteq Nat /\ 1 < JustOnes /\ JustOnes <= UsedFrom

VARIABLES
  relaxation,
  trie,          \* [node, dom]: the memory
  mostUsed, unused,  \* list_of_most_used_domains, list_of_most_unused_domains
  known,         \* the strings there should be a domain for
  rootJoined,    \* history: the root of a domain's tree was joined with its child
  calls

trieVars == <<relaxation, trie, mostUsed, unused, known, rootJoined, calls>>

Nil == 0                                                     \* NULL
Root == 1

(* parent_is_domain is set in the root of a domain's tree alone.           *)
Node(str, parent, ofDomain) ==
  [str |-> str, parent |-> parent, ofDomain |-> ofDomain, child |-> <<>>, domain |-> Nil]
Domain(n, up, degree) ==
  [node |-> n, up |-> up, child |-> Nil, degree |-> degree, exception |-> FALSE, inserts |-> 0]

NewId(f) == CHOOSE i \in 1 .. Cardinality(DOMAIN f) + 1 : i \notin DOMAIN f

TrieInit ==
  /\ relaxation \in Relaxations
  /\ trie = [node |-> (Root :> [Node(<<>>, Nil, Nil) EXCEPT !.domain = Root]),
             dom |-> (Root :> [Domain(Nil, Nil, 0) EXCEPT !.inserts = 1])]
  /\ mostUsed = <<>> /\ unused = <<>> /\ known = {} /\ rootJoined = FALSE /\ calls = 0

-----------------------------------------------------------------------------
(* Parts of an insertion.  Each returns the new tree; the node or domain   *)
(* that it makes has the id that was free.                                 *)

NewDomain(T, n, up) ==
  LET d == NewId(T.dom) IN
  [T EXCEPT !.dom = (d :> Domain(n, up, T.dom[up].degree + 1)) @@ @, !.node[n].domain = d]

NewNode(T, n, str) ==
  LET m == NewId(T.node) IN
  [T EXCEPT !.node = (m :> Node(str, n, Nil)) @@ [@ EXCEPT ![n].child = (str[1] :> m) @@ @]]

NewNodeParentIsDomain(T, d) ==
  LET m == NewId(T.node) IN
  [T EXCEPT !.node = (m :> Node(<<>>, Nil, d)) @@ @, !.dom[d].child = m]

SplitNodeBug(T, n, i) ==                     \* the second node keeps its parent
  LET nd == T.node[n]
      first == NewId(T.node)
      rest == SubSeq(nd.str, i + 1, Len(nd.str))
  IN [T EXCEPT !.node =
        (first :> [Node(SubSeq(nd.str, 1, i), nd.parent, Nil) EXCEPT !.child = (rest[1] :> n)])
        @@ [@ EXCEPT ![n].str = rest, ![nd.parent].child[nd.str[1]] = first]]

(* The first node is made anew, the second keeps its domain and children.  *)
SplitNode(T, n, i) ==
  LET nd == T.node[n]
      first == NewId(T.node)
      rest == SubSeq(nd.str, i + 1, Len(nd.str))
  IN [T EXCEPT !.node =
        (first :> [Node(SubSeq(nd.str, 1, i), nd.parent, Nil) EXCEPT !.child = (rest[1] :> n)])
        @@ [@ EXCEPT ![n].str = rest, ![n].parent = first, ![nd.parent].child[nd.str[1]] = first]]

LabelLength(s) == Cardinality({i \in DOMAIN s : \A j \in 1 .. i : s[j] # Separator})
Common(a, b) == Cardinality({i \in DOMAIN a : i <= Len(b) /\ \A j \in 1 .. i : a[j] = b[j]})
From(s, i) == SubSeq(s, i, Len(s))

Failed(T) == [tree |-> T, dom |-> Nil]

(* prefix_tree_add_domain_recursive_*: s goes below node n, in the tree of *)
(* domain up; to the end of a label, to the next child, or, in add_new_item*)
(* (with one label to a node), to a new one.                               *)
RECURSIVE Add(_, _, _, _)
AddBelow(T, d, s) ==
  LET U == IF T.dom[d].child = Nil THEN NewNodeParentIsDomain(T, d) ELSE T
  IN IF s = <<>> THEN [tree |-> T, dom |-> d] ELSE Add(U, U.dom[d].child, d, Tail(s))

AddNewItem(T, n, up, s) ==
  LET c == LabelLength(s)
      U == NewNode(T, n, SubSeq(s, 1, c))
      V == NewDomain(U, NewId(T.node), up)
  IN AddBelow(V, NewId(U.dom), From(s, c + 1))

AddToChild(T, n, up, s) ==
  IF s[1] \in DOMAIN T.node[n].child THEN Add(T, T.node[n].child[s[1]], up, s)
                                     ELSE AddNewItem(T, n, up, s)

Add(T, n, up, s) ==
  LET i == Common(T.node[n].str, s)
      cut == i < Len(T.node[n].str)
      U == IF cut THEN SplitNode(T, n, i) ELSE T
      m == IF cut THEN NewId(T.node) ELSE n
      rest == From(s, i + 1)
      V == IF U.node[m].domain = Nil THEN NewDomain(U, m, up) ELSE U
      d == V.node[m].domain
  IN CASE i = 0 -> AddToChild(T, n, up, s)
       [] i > 0 /\ cut /\ T.node[n].parent = Nil -> Failed(T)
       [] i > 0 /\ (cut => T.node[n].parent # Nil) ->
            IF rest # <<>> /\ rest[1] # Separator THEN AddToChild(U, m, up, rest)
            ELSE IF V.dom[d].exception THEN Failed(V)
            ELSE AddBelow(V, d, rest)

-----------------------------------------------------------------------------
(* prefix_tree_search, and the same walk of                                *)
(* prefix_tree_is_string_in_exception, which ends at the first exception.  *)
RECURSIVE Walk(_, _, _, _)
Walk(T, n, s, exceptions) ==
  LET nd == T.node[n]
      rest == From(s, Len(nd.str) + 1)
      d == nd.domain
  IN CASE n = Nil \/ ~IsPrefix(nd.str, s) -> Nil
       [] n # Nil /\ IsPrefix(nd.str, s) ->
            IF rest = <<>> \/ rest[1] = Separator
              THEN IF d = Nil THEN Nil
                   ELSE IF exceptions /\ T.dom[d].exception THEN d
                   ELSE IF rest = <<>> THEN IF exceptions THEN Nil ELSE d
                   ELSE IF T.dom[d].child = Nil THEN Nil
                   ELSE Walk(T, T.dom[d].child, Tail(rest), exceptions)
            ELSE IF rest[1] \in DOMAIN nd.child THEN Walk(T, nd.child[rest[1]], rest, exceptions)
            ELSE Nil

SearchString(T, s) == Walk(T, Root, s, FALSE)
IsInException(T, s) == Walk(T, Root, s, TRUE) # Nil

(* prefix_tree_read_string: up the parents, then on from the domain the    *)
(* tree hangs on.                                                          *)
RECURSIVE ReadUp(_, _)
ReadUp(T, n) == IF T.node[n].parent = Nil THEN <<>>
                ELSE ReadUp(T, T.node[n].parent) \o T.node[n].str
RECURSIVE TopOf(_, _)
TopOf(T, n) == IF T.node[n].parent = Nil THEN n ELSE TopOf(T, T.node[n].parent)
RECURSIVE ReadString(_, _)
ReadString(T, n) ==
  LET above == T.node[TopOf(T, n)].ofDomain
  IN IF above = Nil THEN ReadUp(T, n)
     ELSE ReadString(T, T.dom[above].node) \o <<Separator>> \o ReadUp(T, n)

-----------------------------------------------------------------------------
(* Deletion of a node with all below it.                                   *)
RECURSIVE NodesBelow(_, _)
NodesBelow(T, n) ==
  LET d == T.node[n].domain
      next == Range(T.node[n].child) \cup
              (IF d = Nil \/ d = Root THEN {} ELSE {T.dom[d].child} \ {Nil})
  IN {n} \cup UNION {NodesBelow(T, m) : m \in next}

(* prefix_tree_destroy_recursive.                                          *)
Pruned(T, gone) ==
  [node |-> Restrict(T.node, DOMAIN T.node \ gone),
   dom |-> Restrict(T.dom, {d \in DOMAIN T.dom : T.dom[d].node \notin gone})]

JoinNodes(T, n) ==
  LET c == CHOOSE m \in Range(T.node[n].child) : TRUE
      nc == T.node[c]
      U == [T EXCEPT !.node = [m \in DOMAIN @ \ {c} |->
              IF m = n THEN [@[n] EXCEPT !.str = @ \o nc.str, !.child = nc.child, !.domain = nc.domain]
              ELSE IF m \in Range(nc.child) THEN [@[m] EXCEPT !.parent = n] ELSE @[m]]]
  IN IF nc.domain = Nil THEN U ELSE [U EXCEPT !.dom[nc.domain].node = n]

Relaxes(T, n) ==
  relaxation /\ Cardinality(DOMAIN T.node[n].child) = 1 /\ T.node[n].domain = Nil

-----------------------------------------------------------------------------
(* The lists of domains that were inserted once or a few times, the newest *)
(* first, and of those inserted often, the most used first.                *)
Labels(s) == {SubSeq(s, 1, i) : i \in {j \in DOMAIN s : j = Len(s) \/ s[j + 1] = Separator}}

MovedForward(list, T, d) ==
  LET before == SelectSeq(list, LAMBDA e : e # d /\ T.dom[e].inserts >= T.dom[d].inserts)
      after == SelectSeq(list, LAMBDA e : e # d /\ T.dom[e].inserts < T.dom[d].inserts)
  IN before \o <<d>> \o after

Call == calls < MaxCalls /\ calls' = calls + 1 /\ UNCHANGED relaxation

PrefixTreeInsert(s) ==
  LET a == Add(trie, Root, Root, s)
      T == [a.tree EXCEPT !.dom[a.dom].inserts = @ + 1]
      n == T.dom[a.dom].inserts
  IN /\ Call /\ UNCHANGED rootJoined
     /\ IF a.dom = Nil THEN trie' = a.tree /\ UNCHANGED <<mostUsed, unused, known>>
        ELSE /\ trie' = T /\ known' = known \cup Labels(s)
             /\ unused' = CASE n = 1 -> <<a.dom>> \o unused
                            [] n = JustOnes -> Remove(unused, a.dom)
                            [] OTHER -> unused
             /\ mostUsed' = IF n > UsedFrom THEN MovedForward(mostUsed, T, a.dom) ELSE mostUsed

AddStringException(s) ==
  LET a == Add(trie, Root, Root, s) IN
  /\ Call /\ UNCHANGED <<mostUsed, unused, rootJoined>>
  /\ IF a.dom = Nil THEN trie' = a.tree /\ UNCHANGED known
     ELSE trie' = [a.tree EXCEPT !.dom[a.dom].exception = TRUE] /\ known' = known \cup Labels(s)

Unlinked(T) ==
  /\ unused' = SelectSeq(unused, LAMBDA d : d \in DOMAIN T.dom)
  /\ mostUsed' = SelectSeq(mostUsed, LAMBDA d : d \in DOMAIN T.dom)

(* prefix_tree_delete_inner_node.  The root of a domain's tree must not be *)
(* given to it: the domain would keep the pointer.                         *)
DeleteInnerNode(n) ==
  LET p == trie.node[n].parent
      T == [trie EXCEPT !.node[p].child = Restrict(@, DOMAIN @ \ {trie.node[n].str[1]})]
      path == ReadString(trie, n)
      U == Pruned(T, NodesBelow(trie, n))
      V == IF Relaxes(U, p) THEN JoinNodes(U, p) ELSE U
  IN /\ Call /\ p # Nil
     /\ trie' = V /\ Unlinked(V)
     /\ rootJoined' = (rootJoined \/ (Relaxes(U, p) /\ trie.node[p].ofDomain # Nil))
     /\ known' = {s \in known : ~IsPrefix(path, s)}

DeleteRoot ==
  LET gone == NodesBelow(trie, Root) \ {Root}
      U == Pruned([trie EXCEPT !.node[Root].child = <<>>], gone)
  IN /\ Call /\ trie.node[Root].child # <<>> /\ UNCHANGED rootJoined
     /\ trie' = U /\ Unlinked(U) /\ known' = {}

-----------------------------------------------------------------------------
TrieNext ==
  \/ \E s \in Strings : PrefixTreeInsert(s) \/ AddStringException(s)
  \/ \E n \in DOMAIN trie.node : DeleteInnerNode(n)
  \/ DeleteRoot

TrieSpec == TrieInit /\ [][TrieNext]_trieVars

-----------------------------------------------------------------------------
AllStrings == UNION {Labels(s) : s \in Strings}
Exceptions == {s \in known : trie.dom[SearchString(trie, s)].exception}

(* However nodes were split, joined and deleted: a string is found exactly *)
(* when it, or one that goes on with more labels, was inserted and not     *)
(* deleted; it reads back from its domain, whose degree is the number of   *)
(* its labels; a string is in an exception when it or its first labels are *)
(* one; and the lists hold the domains their counts put there, the most    *)
(* used in order.  All that ends when the root of a domain's tree, which   *)
(* has no string of its own, is joined with its child and gets one: its    *)
(* strings are not read back and later insertions there fail.              *)
TrieFinds ==
  ~rootJoined =>
  /\ \A s \in AllStrings :
       LET d == SearchString(trie, s) IN
       /\ (d # Nil) = (s \in known)
       /\ s \in known => /\ ReadString(trie, trie.dom[d].node) = s
                         /\ trie.dom[d].degree = Cardinality(Labels(s))
       /\ IsInException(trie, s) = (Labels(s) \cap Exceptions # {})
  /\ DOMAIN trie.dom = {Root} \cup {SearchString(trie, s) : s \in known}
  /\ LET With(A(_)) == {d \in DOMAIN trie.dom \ {Root} : A(trie.dom[d].inserts)} IN
     /\ Range(unused) = With(LAMBDA i : i \in 1 .. JustOnes - 1)
     /\ Range(mostUsed) = With(LAMBDA i : i > UsedFrom)
  /\ \A i, j \in DOMAIN mostUsed :
       i < j => trie.dom[mostUsed[i]].inserts >= trie.dom[mostUsed[j]].inserts
=============================================================================
