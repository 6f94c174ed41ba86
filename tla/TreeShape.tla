------------------------------ MODULE TreeShape ------------------------------
(***************************************************************************)
(* The derivation trees of the grammar mutator (src/tree.c), without their *)
(* terminal nodes: a terminal (id 0) is never in non_terminal_node_list,   *)
(* never an end of a recursion edge and counts 0 in non_term_size.         *)
(*                                                                         *)
(* A tree is the sequence of its non-terminal nodes in preorder, each with *)
(* its depth below the root.  A `node_t *` into the tree is a position of  *)
(* the sequence.  The code walks every tree in this order                  *)
(* (_node_get_non_terminal_nodes, _node_get_recursion_edges), and the      *)
(* subtree of a node is a contiguous run of positions.                     *)
(***************************************************************************)
EXTENDS Integers, Sequences, FiniteSets

CONSTANT Ids    \* the node ids of the grammar's non-terminals, enum node_type

Node == [id : Ids, depth : Nat]

IsTree(t) == /\ t # <<>>
             /\ t[1].depth = 0
             /\ \A i \in 2..Len(t) : t[i].depth \in 1..(t[i-1].depth + 1)

Tree == {t \in Seq(Node) : IsTree(t)}

-----------------------------------------------------------------------------
(* The positions of the subtree whose root is at i.                        *)
Subtree(t, i) ==
  {k \in i..Len(t) : \A m \in (i+1)..k : t[m].depth > t[i].depth}

(* node->non_term_size, as node_get_size() leaves it: the node itself and  *)
(* its non-terminal descendants.                                           *)
non_term_size(t, i) == Cardinality(Subtree(t, i))

(* p is node->parent of i.                                                 *)
IsParent(t, p, i) == /\ p \in 1..(i-1)
                     /\ t[p].depth = t[i].depth - 1
                     /\ \A k \in (p+1)..(i-1) : t[k].depth >= t[i].depth

parent(t, i) == CHOOSE p \in 1..(i-1) : IsParent(t, p, i)

(* A recursion edge joins a node and a subnode with the same id.  It is    *)
(* named by the position of its subnode.                                   *)
IsRecursionEdge(t, i) ==
  \E p \in 1..(i-1) : IsParent(t, p, i) /\ t[p].id = t[i].id

RecursionEdges(t) == {i \in 1..Len(t) : IsRecursionEdge(t, i)}

recursion_edge_size(t) == Cardinality(RecursionEdges(t))

-----------------------------------------------------------------------------
(* tree_get_non_terminal_nodes(): all of them, in preorder.                *)
NonTerminals(t) == [k \in 1..Len(t) |-> k]

(* A finite set of positions in ascending order.                           *)
InOrder(S) ==
  [k \in 1..Cardinality(S) |->
     CHOOSE e \in S : Cardinality({d \in S : d <= e}) = k]

(* tree_get_recursion_edges(): an edge is appended before the walk goes    *)
(* into its subnode, so the list is in the preorder of the subnodes.       *)
EdgeList(t) == InOrder(RecursionEdges(t))

(* n calls of list_pop_front(), which leaves an empty list empty.          *)
PopFront(list, n) == SubSeq(list, n + 1, Len(list))

-----------------------------------------------------------------------------
(* node_clone() of the subtree at i, a tree of its own.                    *)
SubtreeAt(t, i) ==
  [k \in 1..non_term_size(t, i) |->
     [id |-> t[i+k-1].id, depth |-> t[i+k-1].depth - t[i].depth]]

(* Mutant of Replace: s is attached below the node, not in its place.      *)
ReplaceBelow(t, q, s) ==
  LET n == Cardinality({k \in q..Len(t) : \A m \in (q+1)..k : t[m].depth > t[q].depth})
  IN  [k \in 1..(Len(t) - n + Len(s)) |->
         IF k < q THEN t[k]
         ELSE IF k < q + Len(s)
         THEN [id |-> s[k-q+1].id, depth |-> s[k-q+1].depth + t[q].depth + 1]
         ELSE t[k - Len(s) + n]]

(* The clone of t taken while s stands in the place of the subtree at q    *)
(* (parent->subnodes[offset] = s; tree_clone(tree); recover).  A q without *)
(* parent is the root: the clone is s alone.                               *)
Replace(t, q, s) ==
  LET n == non_term_size(t, q) IN
  [k \in 1..(Len(t) - n + Len(s)) |->
     IF k < q THEN t[k]
     ELSE IF k < q + Len(s)
     THEN [id |-> s[k-q+1].id, depth |-> s[k-q+1].depth + t[q].depth]
     ELSE t[k - Len(s) + n]]
=============================================================================
