------------------------------ MODULE BPlusTree ------------------------------
(***************************************************************************)
(* The B+ tree of nemea-common (b_plus_tree.c): keys in leaves that form a *)
(* list, inner nodes that repeat the highest key of each subtree but the   *)
(* last, splitting on the way up, borrowing from a brother or merging with *)
(* it, and an iteration that may delete the item it stands on.             *)
(***************************************************************************)
EXTENDS Integers, FiniteSets, Sequences, SequencesExt

CONSTANTS
  Order,      \* m, the children of an inner node; 2 would leave leaves empty
  BptKeys,    \* keys used, numbers
  NoNode

ASSUME BptAssumption ==
  /\ Order \in Nat /\ Order >= 3 /\ BptKeys \subseteq Nat /\ IsFiniteSet(BptKeys)
  /\ NoNode \notin Nat

VARIABLES
  tree,       \* [node, root, count]
  item,       \* bpt_list_item_t of an iteration, or NoNode
  content,    \* keys the caller has in the tree
  unseen      \* keys the iteration has still to give

bptVars == <<tree, item, content, unseen>>

(* child holds nodes, or the values of a leaf; a value is written by the   *)
(* caller and is here the key it belongs to.  A node's count is Len(key)+1.*)
NewLeaf == [leaf |-> TRUE, key |-> <<>>, child |-> <<>>, parent |-> NoNode, right |-> NoNode]
NewInner == [NewLeaf EXCEPT !.leaf = FALSE]

Nodes == 1 .. 2 * Cardinality(BptKeys) + 1
FreshNode(T) == CHOOSE n \in Nodes : T.node[n] = NoNode

BptInit ==
  /\ tree = [node |-> [n \in Nodes |-> IF n = 1 THEN NewLeaf ELSE NoNode], root |-> 1, count |-> 0]
  /\ item = NoNode /\ content = {} /\ unseen = {}

-----------------------------------------------------------------------------
(* Walking the tree.                                                       *)
MinKeys == (Order - 1) \div 2

LastChild(T, n) == Last(T.node[n].child)
IndexInParent(T, n) == CHOOSE i \in DOMAIN T.node[T.node[n].parent].child :
                         T.node[T.node[n].parent].child[i] = n

(* The first child whose key is not lower than the one searched for.       *)
SearchLeaf(T, k) ==
  LET Down[n \in Nodes] ==
        LET nd == T.node[n] IN
        IF nd.leaf THEN n
        ELSE Down[nd.child[1 + Cardinality({i \in DOMAIN nd.key :
                                              \A j \in 1 .. i : nd.key[j] < k})]]
  IN Down[T.root]

RightmostLeaf(T, n) ==
  LET Down[m \in Nodes] == IF T.node[m].leaf THEN m ELSE Down[LastChild(T, m)] IN Down[n]

LeftmostLeaf(T) ==
  LET Down[n \in Nodes] == IF T.node[n].leaf THEN n ELSE Down[T.node[n].child[1]]
  IN Down[T.root]

(* bpt_nd_check: the highest key of leaf n goes to the nearest ancestor    *)
(* that holds a key for a subtree n is the last leaf of.                   *)
NdCheck(T, n) ==
  LET Up[m \in Nodes] ==
        IF T.node[m].parent = NoNode \/ m # LastChild(T, T.node[m].parent) THEN m
        ELSE Up[T.node[m].parent]
      c == Up[n]
  IN IF T.node[c].parent = NoNode THEN T
     ELSE [T EXCEPT !.node[T.node[c].parent].key[IndexInParent(T, c)] = Last(T.node[n].key)]

-----------------------------------------------------------------------------
(* Insertion.                                                              *)

(* bpt_ndin_insert: nothing when the key is already among those of nd.     *)
AddChild(nd, k, l, r) ==
  LET i == Cardinality({j \in DOMAIN nd.key : nd.key[j] <= k})
  IN IF k \in Range(nd.key) THEN nd
     ELSE [nd EXCEPT !.key = InsertAt(@, i + 1, k),
                     !.child = SubSeq(@, 1, i) \o <<l, r>> \o SubSeq(@, i + 2, Len(@))]

Adopt(T, n) ==
  [T EXCEPT !.node = [m \in Nodes |-> IF m \in Range(T.node[n].child)
                                        THEN [T.node[m] EXCEPT !.parent = n] ELSE T.node[m]]]

RECURSIVE InsertToNewNode(_, _, _, _)
InsertToNewNode(T, k, l, r) ==
  LET p == T.node[l].parent
      top == IF p = NoNode THEN FreshNode(T) ELSE p
      U == IF p = NoNode THEN Adopt([T EXCEPT !.node[top] = AddChild(NewInner, k, l, r), !.root = top], top)
           ELSE [T EXCEPT !.node[p] = AddChild(@, k, l, r)]
      nd == U.node[top]
      cut == (Len(nd.child) - 1) \div 2
      n == FreshNode(U)
      V == Adopt([U EXCEPT !.node[top].key = SubSeq(@, 1, cut),
                           !.node[top].child = SubSeq(@, 1, cut + 1),
                           !.node[n] = [nd EXCEPT !.key = SubSeq(@, cut + 2, Len(@)),
                                                  !.child = SubSeq(@, cut + 2, Len(@))]], n)
  IN IF Len(nd.child) <= Order THEN U
     ELSE InsertToNewNode(V, Last(V.node[RightmostLeaf(V, top)].key), top, n)

(* bpt_search_or_insert_inner for a key that is not in the tree.           *)
InsertKey(T, k) ==
  LET n == SearchLeaf(T, k)
      i == Cardinality({j \in DOMAIN T.node[n].key : T.node[n].key[j] < k})
      U == [T EXCEPT !.node[n].key = InsertAt(@, i + 1, k),
                     !.node[n].child = InsertAt(@, i + 1, k), !.count = @ + 1]
      nd == U.node[n]
      size == Len(nd.key)
      half == size \div 2
      r == FreshNode(U)
      V == [U EXCEPT !.node[n] = [nd EXCEPT !.key = SubSeq(@, 1, half),
                                            !.child = SubSeq(@, 1, half), !.right = r],
                     !.node[r] = [nd EXCEPT !.key = SubSeq(@, half + 1, size),
                                            !.child = SubSeq(@, half + 1, size)]]
  IN IF size < Order THEN IF i + 1 = size THEN NdCheck(U, n) ELSE U
     ELSE InsertToNewNode(V, Last(V.node[n].key), n, r)

-----------------------------------------------------------------------------
(* Deletion.                                                               *)

(* Child j leaves its parent, with the key after it or else the last one.  *)
DropChild(nd, j) ==
  [nd EXCEPT !.key = IF j <= Len(@) THEN RemoveAt(@, j) ELSE Front(@),
             !.child = RemoveAt(@, j)]

(* b is merged into a, the brother on its left.  The keys between the      *)
(* children of inner nodes are then looked up again, each in its leaf.     *)
Merged(T, a, b) ==
  LET p == T.node[a].parent
      na == T.node[a]  nb == T.node[b]
      U == [T EXCEPT !.node[p] = DropChild(@, IndexInParent(T, b)), !.node[b] = NoNode,
                     !.node[a].child = @ \o nb.child, !.node[a].right = nb.right,
                     !.node[a].key = IF na.leaf THEN @ \o nb.key ELSE @ \o nb.child]
      inner == [U EXCEPT !.node[a].key = SubSeq(@, 1, Len(U.node[a].child) - 1)]
  IN IF na.leaf THEN NdCheck(U, a)
     ELSE FoldLeft(NdCheck, Adopt(inner, a),
                   [i \in 1 .. Len(nb.child) + 1 |->
                      RightmostLeaf(inner, U.node[a].child[Len(na.child) - 1 + i])])

LeftBrother(T, n) == LET i == IndexInParent(T, n)
                     IN IF i > 1 THEN T.node[T.node[n].parent].child[i - 1] ELSE NoNode
RightBrother(T, n) == LET c == T.node[T.node[n].parent].child  i == IndexInParent(T, n)
                      IN IF i < Len(c) THEN c[i + 1] ELSE NoNode
Rich(T, n) == n # NoNode /\ Len(T.node[n].key) > MinKeys

(* The last child of l becomes the first one of n; the key between the two *)
(* passes through their parent.  The other way round below.                *)
InnerFromLeft(T, l, n) ==
  LET p == T.node[n].parent  j == IndexInParent(T, l)
  IN Adopt([T EXCEPT !.node[n].key = <<T.node[p].key[j]>> \o @, !.node[p].key[j] = Last(T.node[l].key),
                     !.node[n].child = <<LastChild(T, l)>> \o @,
                     !.node[l].key = Front(@), !.node[l].child = Front(@)], n)

InnerFromRight(T, n, r) ==
  LET p == T.node[n].parent  j == IndexInParent(T, n)
  IN Adopt([T EXCEPT !.node[n].key = Append(@, T.node[p].key[j]), !.node[p].key[j] = Head(T.node[r].key),
                     !.node[n].child = Append(@, Head(T.node[r].child)),
                     !.node[r].key = Tail(@), !.node[r].child = Tail(@)], n)

RECURSIVE NdinCheck(_, _)
NdinCheck(T, n) ==
  LET l == LeftBrother(T, n)  r == RightBrother(T, n)  p == T.node[n].parent
      heir == T.node[n].child[1]
  IN CASE Len(T.node[n].key) >= MinKeys -> T
       [] n = T.root -> IF Len(T.node[n].child) > 1 THEN T
                        ELSE [T EXCEPT !.root = heir, !.node[heir].parent = NoNode,
                                       !.node[n] = NoNode]
       [] OTHER -> CASE Rich(T, l) -> InnerFromLeft(T, l, n)
                     [] ~Rich(T, l) /\ Rich(T, r) -> InnerFromRight(T, n, r)
                     [] ~Rich(T, l) /\ ~Rich(T, r) ->
                          NdinCheck(IF l # NoNode THEN Merged(T, l, n) ELSE Merged(T, n, r), p)

LeafFromLeftBug(T, l, n, i) ==                \* the parent keeps the old key of the brother
  [T EXCEPT !.node[n].key = <<Last(T.node[l].key)>> \o @,
            !.node[n].child = <<LastChild(T, l)>> \o @,
            !.node[l].key = Front(@), !.node[l].child = Front(@)]

LeafFromLeft(T, l, n, i) ==
  LET U == [T EXCEPT !.node[n].key = <<Last(T.node[l].key)>> \o @,
                     !.node[n].child = <<LastChild(T, l)>> \o @,
                     !.node[l].key = Front(@), !.node[l].child = Front(@)]
      V == NdCheck(U, l)
  IN IF i = Len(V.node[n].key) THEN NdCheck(V, n) ELSE V

LeafFromRight(T, n, r) ==
  NdCheck([T EXCEPT !.node[n].key = Append(@, Head(T.node[r].key)),
                    !.node[n].child = Append(@, Head(T.node[r].child)),
                    !.node[r].key = Tail(@), !.node[r].child = Tail(@)], n)

(* bpt_ndlf_delete_from_tree of item i of leaf n.                          *)
DeleteFromTree(T, n, i) ==
  LET U == [T EXCEPT !.node[n].key = RemoveAt(@, i), !.node[n].child = RemoveAt(@, i),
                     !.count = @ - 1]
      l == LeftBrother(U, n)  r == RightBrother(U, n)  p == U.node[n].parent
  IN CASE Len(U.node[n].key) >= MinKeys \/ n = U.root ->
            IF n = U.root THEN U ELSE NdCheck(U, n)
       [] OTHER -> CASE Rich(U, l) -> LeafFromLeft(U, l, n, i)
                     [] ~Rich(U, l) /\ Rich(U, r) -> LeafFromRight(U, n, r)
                     [] ~Rich(U, l) /\ ~Rich(U, r) ->
                          NdinCheck(IF l # NoNode THEN Merged(U, l, n) ELSE Merged(U, n, r), p)

-----------------------------------------------------------------------------
(* Where in memory a node lies makes no difference: after each call the    *)
(* leaves are renamed in their order, and an inner node after the last leaf*)
(* of its first child, so that equal trees are one state.                  *)
Renamed(T) ==
  LET Used == {n \in Nodes : T.node[n] # NoNode}
      Leaves == {n \in Used : T.node[n].leaf}
      Place[n \in Leaves] == 1 + (IF \E l \in Leaves : T.node[l].right = n
                                 THEN Place[CHOOSE l \in Leaves : T.node[l].right = n] ELSE 0)
      Name == [n \in Used |-> IF T.node[n].leaf THEN Place[n]
                 ELSE Cardinality(BptKeys) + Place[RightmostLeaf(T, T.node[n].child[1])]]
      To(n) == IF n = NoNode THEN n ELSE Name[n]
      node(n) == LET nd == T.node[n] IN
                 [nd EXCEPT !.parent = To(@), !.right = To(@),
                            !.child = IF nd.leaf THEN @ ELSE [i \in DOMAIN @ |-> Name[@[i]]]]
  IN [T EXCEPT !.root = Name[@],
               !.node = [m \in Nodes |-> IF m \in Range(Name)
                                            THEN node(CHOOSE n \in Used : Name[n] = m) ELSE NoNode]]

(* The calls.  An insertion, or a deletion by key, ends the iteration.     *)
IndexOf(T, n, k) == CHOOSE i \in DOMAIN T.node[n].key : T.node[n].key[i] = k
Found(T, k) == LET n == SearchLeaf(T, k) IN
               IF k \in Range(T.node[n].key) THEN T.node[n].child[IndexOf(T, n, k)] ELSE NoNode

BptInsert(k) ==
  /\ Found(tree, k) = NoNode
  /\ tree' = Renamed(InsertKey(tree, k)) /\ content' = content \cup {k}
  /\ item' = NoNode /\ unseen' = {}

BptItemDel(k) ==
  /\ Found(tree, k) # NoNode
  /\ LET n == SearchLeaf(tree, k) IN
     tree' = Renamed(DeleteFromTree(tree, n, IndexOf(tree, n, k)))
  /\ content' = content \ {k}
  /\ item' = NoNode /\ unseen' = {}

ItemAt(T, n, i) == [leaf |-> n, index |-> i, key |-> T.node[n].key[i]]

ListStart ==
  LET n == LeftmostLeaf(tree) IN
  /\ tree.node[n].key # <<>>
  /\ item' = ItemAt(tree, n, 1) /\ unseen' = content \ {item'.key}
  /\ UNCHANGED <<tree, content>>

NextItem(T, it) ==
  LET nd == T.node[it.leaf] IN
  IF it.index < Len(nd.key) THEN ItemAt(T, it.leaf, it.index + 1)
  ELSE IF nd.right # NoNode THEN ItemAt(T, nd.right, 1)
  ELSE NoNode

ListItemNext ==
  /\ item # NoNode
  /\ item' = NextItem(tree, item)
  /\ unseen' = IF item' = NoNode THEN unseen ELSE unseen \ {item'.key}
  /\ UNCHANGED <<tree, content>>

ListItemDel ==
  /\ item # NoNode
  /\ LET next == NextItem(tree, item)
         T == Renamed(DeleteFromTree(tree, item.leaf, item.index))
         n == SearchLeaf(T, next.key)
     IN /\ tree' = T
        /\ item' = IF next = NoNode THEN NoNode
                   ELSE [next EXCEPT !.leaf = n, !.index = IndexOf(T, n, next.key)]
  /\ content' = content \ {item.key}
  /\ unseen' = IF item' = NoNode THEN unseen ELSE unseen \ {item'.key}

BptNext ==
  \/ \E k \in BptKeys : BptInsert(k) \/ BptItemDel(k)
  \/ ListStart \/ ListItemNext \/ ListItemDel

BptSpec == BptInit /\ [][BptNext]_bptVars

-----------------------------------------------------------------------------
(* The list of leaves holds the keys of the caller in order, each is found *)
(* with its value from the root and no other is, and the tree counts them; *)
(* an iteration stands on a key of the tree, has given every lower one, and*)
(* leaves none out, whatever the deletions on its way moved.               *)
TreeHolds ==
  LET List[n \in Nodes \cup {NoNode}] ==
        IF n = NoNode THEN <<>> ELSE tree.node[n].key \o List[tree.node[n].right]
  IN /\ List[LeftmostLeaf(tree)] = SetToSortSeq(content, <)
     /\ \A k \in BptKeys : Found(tree, k) = IF k \in content THEN k ELSE NoNode
     /\ tree.count = Cardinality(content)
     /\ IF item = NoNode THEN unseen = {}
        ELSE /\ tree.node[item.leaf].key[item.index] = item.key
             /\ unseen = {k \in content : k > item.key}
=============================================================================
