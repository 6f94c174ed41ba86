----------------------------- MODULE ChunkStore -----------------------------
(***************************************************************************)
(* The chunk store of the grammar mutator (src/chunk_store.c): every       *)
(* subtree of every added tree, once, for the splicing mutation to draw    *)
(* from.  The nodes are on a heap and equal subtrees are shared: a node    *)
(* that is a duplicate is replaced in its parent by the stored one and     *)
(* freed with everything below it.                                         *)
(*                                                                         *)
(* Here a tree holds its terminal nodes too.  It is a tree of TreeShape    *)
(* whose nodes carry, in the place of an id, a label: the id, the rule id  *)
(* and the value of the node.  The number of subnodes is not determined by *)
(* the label, because the parser's error recovery leaves out subnodes.     *)
(***************************************************************************)
EXTENDS Integers, SequencesExt, FiniteSets

CONSTANTS Labels,     \* id, rule_id and val of a node
          IdOf,       \* the id of a label, Terminal for terminals
          Terminal,   \* id 0
          Trees,      \* the trees that may be added
          MaxAdds     \* bound: trees added between init and clear

T == INSTANCE TreeShape WITH Ids <- Labels

ASSUME LabelsAssumption == DOMAIN IdOf = Labels
ASSUME ChunkTreesAssumption ==
  \A t \in Trees : /\ t \in Seq([id : Labels, depth : Nat])
                   /\ T!IsTree(t)
ASSUME MaxAddsAssumption == MaxAdds \in Nat

VARIABLES heap,      \* the live nodes: address -> node_t
          chunks,    \* chunk_store: id -> list of nodes
          seen,      \* seen_chunks: hash -> node
          pending,   \* nodes of the calls of chunk_store_take_node() to come
          up,        \* between chunk_store_init() and chunk_store_clear()
          added      \* history: the trees added since chunk_store_init()

vars == <<heap, chunks, seen, pending, up, added>>

NULL == 0

-----------------------------------------------------------------------------
(* node_clone() of a node on the heap h, as a tree: what its subnodes      *)
(* stand for, shared or not.                                               *)
CloneOf(h) ==
  LET c[n \in DOMAIN h] ==
        <<[id |-> h[n].label, depth |-> 0]>> \o
        FlattenSeq([i \in DOMAIN h[n].subs |->
                      [k \in DOMAIN c[h[n].subs[i]] |->
                         [c[h[n].subs[i]][k] EXCEPT !.depth = @ + 1]]])
  IN  c

(* The order in which node_free() visits the nodes below n, and n.         *)
FreeOrder(h) ==
  LET f[n \in DOMAIN h] ==
        <<n>> \o FlattenSeq([i \in DOMAIN h[n].subs |-> f[h[n].subs[i]]])
  IN  f

(* hash_node(): id, rule id and value of the nodes in preorder.  The       *)
(* number of subnodes is not hashed.                                       *)
hash_node(t) == [k \in DOMAIN t |-> t[k].id]

(* Mutant of HashOf: the rule ids are not hashed.                          *)
HashWithoutRule(n) ==
  LET t == CloneOf(heap)[n] IN [k \in DOMAIN t |-> IdOf[t[k].id]]

HashOf(n) == hash_node(CloneOf(heap)[n])

node_equal(a, b) == CloneOf(heap)[a] = CloneOf(heap)[b]

(* n addresses from malloc(): any that are not in use, here the least.     *)
Malloc(n) == SubSeq(T!InOrder((1..(Cardinality(DOMAIN heap) + n)) \ DOMAIN heap), 1, n)

(* node_clone() of a tree: new nodes at the addresses a, in preorder.      *)
NewNodes(t, a) ==
  [x \in Range(a) |->
     LET k == CHOOSE j \in DOMAIN a : a[j] = x
         s == T!InOrder({j \in DOMAIN t : T!IsParent(t, k, j)})
     IN  [label  |-> t[k].id,
          subs   |-> [j \in DOMAIN s |-> a[s[j]]],
          parent |-> IF k = 1 THEN NULL ELSE a[T!parent(t, k)]]]

(* map_set() of the hash map: the value v for the key k, new or not.       *)
map_set(m, k, v) == [x \in DOMAIN m \cup {k} |-> IF x = k THEN v ELSE m[x]]

Init ==
  /\ heap = <<>>
  /\ chunks = <<>>
  /\ seen = <<>>
  /\ pending = <<>>
  /\ up = FALSE
  /\ added = {}

-----------------------------------------------------------------------------
(* chunk_store_init().                                                     *)
ChunkStoreInit ==
  /\ ~up
  /\ up' = TRUE
  /\ UNCHANGED <<heap, chunks, seen, pending, added>>

(* chunk_store_add_tree(): the store takes a clone of the tree.            *)
AddTree(t) ==
  /\ up
  /\ pending = <<>>
  /\ Cardinality(added \cup {t}) <= MaxAdds
  /\ LET a == Malloc(Len(t))
         new == NewNodes(t, a)
     IN  /\ heap' = [x \in DOMAIN heap \cup DOMAIN new |->
                      IF x \in DOMAIN new THEN new[x] ELSE heap[x]]
         /\ pending' = <<a[1]>>
  /\ added' = added \cup {t}
  /\ UNCHANGED <<chunks, seen, up>>

(* node_replace_subnode(): new takes the place of the first subnode of its *)
(* parent that is n, unless their ids differ.                              *)
ReplaceSubnode(h, n, new) ==
  LET p == h[n].parent
      i == CHOOSE j \in DOMAIN h[p].subs :
             h[p].subs[j] = n /\ \A k \in 1..(j-1) : h[p].subs[k] # n
  IN  IF p = NULL \/ IdOf[h[n].label] # IdOf[h[new].label]
      THEN h
      ELSE [h EXCEPT ![p].subs[i] = new, ![new].parent = p, ![n].parent = NULL]

(* Mutant of TakeSeen: the parent is not patched.                          *)
TakeSeenUnpatched ==
  /\ pending # <<>>
  /\ LET n == Head(pending)
     IN  /\ HashOf(n) \in DOMAIN seen
         /\ heap' = Restrict(heap, DOMAIN heap \ Range(FreeOrder(heap)[n]))
  /\ pending' = Tail(pending)
  /\ UNCHANGED <<chunks, seen, up, added>>

(* chunk_store_take_node() of a duplicate: the parent gets the stored      *)
(* node, and the duplicate is freed with its subnodes.                     *)
TakeSeen ==
  /\ pending # <<>>
  /\ LET n == Head(pending) IN
       /\ HashOf(n) \in DOMAIN seen
       /\ LET h == ReplaceSubnode(heap, n, seen[HashOf(n)])
          IN  heap' = Restrict(h, DOMAIN h \ Range(FreeOrder(h)[n]))
  /\ pending' = Tail(pending)
  /\ UNCHANGED <<chunks, seen, up, added>>

(* Mutant of TakeNew: no list for terminals, which splicing cannot use.    *)
TakeNewNoTerminals ==
  /\ pending # <<>>
  /\ LET n  == Head(pending)
         id == IdOf[heap[n].label]
         l  == IF id \in DOMAIN chunks THEN chunks[id] ELSE <<>>
     IN  /\ HashOf(n) \notin DOMAIN seen
         /\ seen' = map_set(seen, HashOf(n), n)
         /\ chunks' = IF id = Terminal THEN chunks ELSE map_set(chunks, id, Append(l, n))
         /\ pending' = heap[n].subs \o Tail(pending)
  /\ UNCHANGED <<heap, up, added>>

(* Mutant of TakeNew: the loop ends before the last subnode.               *)
TakeNewMissesLast ==
  /\ pending # <<>>
  /\ LET n  == Head(pending)
         id == IdOf[heap[n].label]
         l  == IF id \in DOMAIN chunks THEN chunks[id] ELSE <<>>
     IN  /\ HashOf(n) \notin DOMAIN seen
         /\ seen' = map_set(seen, HashOf(n), n)
         /\ chunks' = map_set(chunks, id, Append(l, n))
         /\ pending' = SubSeq(heap[n].subs, 1, Len(heap[n].subs) - 1) \o Tail(pending)
  /\ UNCHANGED <<heap, up, added>>

(* chunk_store_take_node() of a new node: it is kept, and its subnodes are *)
(* taken next, in order.                                                   *)
TakeNew ==
  /\ pending # <<>>
  /\ LET n  == Head(pending)
         id == IdOf[heap[n].label]
         l  == IF id \in DOMAIN chunks THEN chunks[id] ELSE <<>>
     IN  /\ HashOf(n) \notin DOMAIN seen
         /\ seen' = map_set(seen, HashOf(n), n)
         /\ chunks' = map_set(chunks, id, Append(l, n))
         /\ pending' = heap[n].subs \o Tail(pending)
  /\ UNCHANGED <<heap, up, added>>

(* chunk_store_clear(): every node of every list is freed by itself.       *)
Clear ==
  /\ up
  /\ pending = <<>>
  /\ heap' = Restrict(heap, DOMAIN heap \ UNION {Range(chunks[id]) : id \in DOMAIN chunks})
  /\ chunks' = <<>>
  /\ seen' = <<>>
  /\ up' = FALSE
  /\ added' = {}
  /\ UNCHANGED pending

(* chunk_store_get_alternative_node(): the clones it may return for a node *)
(* with this id.  With none it returns NULL.                               *)
Alternatives(id) ==
  IF id \in DOMAIN chunks
  THEN {CloneOf(heap)[n] : n \in Range(chunks[id])}
  ELSE {}

Next == \/ ChunkStoreInit
        \/ \E t \in Trees : AddTree(t)
        \/ TakeSeen
        \/ TakeNew
        \/ Clear

Spec == Init /\ [][Next]_vars

-----------------------------------------------------------------------------
(* No pointer of the store leads to a freed node: neither the subnodes and *)
(* parents of live nodes, nor the lists, the hash map or the calls to      *)
(* come.  A duplicate is freed with everything below it while other trees  *)
(* already share stored nodes.                                             *)
NoDangling ==
  /\ \A n \in DOMAIN heap : /\ Range(heap[n].subs) \subseteq DOMAIN heap
                            /\ heap[n].parent \in DOMAIN heap \cup {NULL}
  /\ \A id \in DOMAIN chunks : Range(chunks[id]) \subseteq DOMAIN heap
  /\ Range(seen) \subseteq DOMAIN heap
  /\ Range(pending) \subseteq DOMAIN heap

(* All live nodes, by their owners: the lists, then the calls to come.     *)
Owned ==
  FlattenSeq(SetToSeq({chunks[id] : id \in DOMAIN chunks})) \o
  FlattenSeq([i \in DOMAIN pending |-> FreeOrder(heap)[pending[i]]])

(* Every live node has exactly one owner: it is once in one list, or once  *)
(* below one node that is still to be taken.  So node_free() of a          *)
(* duplicate frees no stored node and none twice, and chunk_store_clear(), *)
(* which frees the nodes one by one, frees all of them.                    *)
OwnedOnce ==
  /\ IsInjective(Owned)
  /\ Range(Owned) = DOMAIN heap

Subtrees(t) == {T!SubtreeAt(t, i) : i \in DOMAIN t}

Arity(t, i) == Cardinality({j \in DOMAIN t : T!IsParent(t, i, j)})

(* In the added trees a label has one number of subnodes, as in trees that *)
(* were all generated or parsed without error.                             *)
OneArity ==
  \A t, u \in added : \A i \in DOMAIN t, j \in DOMAIN u :
    t[i].id = u[j].id => Arity(t, i) = Arity(u, j)

(* Between calls the store offers for every id exactly the subtrees of the *)
(* added trees with that id: sharing and freeing lose no subtree and make  *)
(* up none.  For trees in which a label has one number of subnodes.        *)
OffersSubtrees ==
  pending = <<>> /\ OneArity =>
    \A id \in Range(IdOf) :
      Alternatives(id) = {s \in UNION {Subtrees(t) : t \in added} : IdOf[s[1].id] = id}

(* A chunk, once stored, stands for the same nodes in preorder until the   *)
(* store is cleared, although its subnodes are exchanged for shared ones   *)
(* while the tree, and later trees, are taken.                             *)
ChunkKept ==
  [][up /\ up' => \A k \in DOMAIN seen :
                    /\ k \in DOMAIN seen'
                    /\ hash_node(CloneOf(heap')[seen'[k]]) =
                       hash_node(CloneOf(heap)[seen[k]])]_vars

(* A node that is taken for a duplicate equals the stored node, as the     *)
(* comment on hash_node() expects.  It does not hold of damaged trees.     *)
DuplicateIsEqual ==
  pending # <<>> =>
    LET n == Head(pending)
    IN  HashOf(n) \in DOMAIN seen => node_equal(n, seen[HashOf(n)])
=============================================================================
