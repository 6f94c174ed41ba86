----------------------------- MODULE LinkedList -----------------------------
(***************************************************************************)
(* The doubly linked list of Grammar-Mutator/src/list.c, in which the      *)
(* mutator keeps the nodes and edges to be trimmed and mutated and the     *)
(* chunk store its subtrees.                                               *)
(***************************************************************************)
EXTENDS Naturals, FiniteSets, Sequences

CONSTANTS
    Data,   \* what the list holds
    Addr,   \* addresses of list nodes
    NULL

ASSUME AddrAssumption ==
    /\ IsFiniteSet(Addr)
    /\ NULL \notin Addr

VARIABLES
    heap,       \* live nodes: address -> [data, next, prev]
    head, tail,
    size,
    returned    \* of the last operation that returns data or a Boolean

list_vars == <<heap, head, tail, size, returned>>

ListInit ==
    /\ heap = [p \in {} |-> NULL]
    /\ head = NULL
    /\ tail = NULL
    /\ size = 0
    /\ returned = NULL

(* malloc() gives any address that is not in use; it fails if there is     *)
(* none, and then the list is left alone                                   *)
Free == Addr \ DOMAIN heap

With(p, node) == [q \in DOMAIN heap \cup {p} |-> IF q = p THEN node ELSE heap[q]]

(* heap without node p; the pointers of its neighbours are set to those of p  *)
Unlinked(p) ==
    [q \in DOMAIN heap \ {p} |->
        [heap[q] EXCEPT !.next = IF q = heap[p].prev THEN heap[p].next ELSE @,
                        !.prev = IF q = heap[p].next THEN heap[p].prev ELSE @]]

(* the old first node points back to the new one *)
BackLinked(h, p) == IF tail = NULL THEN h ELSE [h EXCEPT ![head].prev = p]

list_insert(d) ==
    \E p \in Free :
        /\ heap' = BackLinked(With(p, [data |-> d, next |-> head, prev |-> NULL]), p)
        /\ head' = p
        /\ tail' = IF tail = NULL THEN p ELSE tail
        /\ size' = size + 1
        /\ UNCHANGED returned

list_append(d) ==
    \E p \in Free :
        /\ heap' = LET h == With(p, [data |-> d, next |-> NULL, prev |-> tail])
                   IN  IF head = NULL THEN h ELSE [h EXCEPT ![tail].next = p]
        /\ head' = IF head = NULL THEN p ELSE head
        /\ tail' = p
        /\ size' = size + 1
        /\ UNCHANGED returned

(* the node after p; NULL at the end *)
NextOf(p) == IF p \in DOMAIN heap THEN heap[p].next ELSE NULL

(* the nodes in the order in which a walk along next comes to them *)
Walk ==
    LET at[i \in 1..size] == IF i = 1 THEN head ELSE NextOf(at[i - 1])
    IN  at

(* positions of d in the walk *)
Found(d) == {i \in 1..size : heap[Walk[i]].data = d}

(* mutant: the walk goes on to the last node that carries d *)
LastOf(positions) == CHOOSE i \in positions : \A j \in positions : i >= j

FirstOf(positions) == CHOOSE i \in positions : \A j \in positions : i <= j

(* the first node that carries d is taken out *)
list_remove(d) ==
    IF Found(d) = {}
    THEN returned' = FALSE /\ UNCHANGED <<heap, head, tail, size>>
    ELSE LET p == Walk[FirstOf(Found(d))]
         IN  /\ heap' = Unlinked(p)
             /\ head' = IF p = head THEN heap[p].next ELSE head
             /\ tail' = IF p = tail THEN heap[p].prev ELSE tail
             /\ size' = size - 1
             /\ returned' = TRUE

(* tail after the first node is taken out *)
PopTail == IF head = tail THEN NULL ELSE tail

PopData == heap[head].data

list_pop_front ==
    IF size = 0 \/ head = NULL
    THEN returned' = NULL /\ UNCHANGED <<heap, head, tail, size>>
    ELSE /\ returned' = PopData
         /\ heap' = [q \in DOMAIN heap \ {head} |->
                        IF head # tail /\ q = heap[head].next
                        THEN [heap[q] EXCEPT !.prev = NULL] ELSE heap[q]]
         /\ head' = heap[head].next
         /\ tail' = PopTail
         /\ size' = size - 1

list_get(i) ==
    /\ returned' = IF size = 0 \/ head = NULL \/ i >= size THEN NULL
                 ELSE heap[Walk[i + 1]].data
    /\ UNCHANGED <<heap, head, tail, size>>

list_empty ==
    /\ returned' = (size = 0 \/ head = NULL)
    /\ UNCHANGED <<heap, head, tail, size>>

(* list_free(), list_free_with_data_free_func() and list_create(): the     *)
(* nodes that a walk along next meets are freed                            *)
list_free ==
    /\ heap' = [q \in DOMAIN heap \ {Walk[i] : i \in 1..size} |-> heap[q]]
    /\ head' = NULL
    /\ tail' = NULL
    /\ size' = 0
    /\ UNCHANGED returned

ListNext ==
    \/ \E d \in Data : list_insert(d) \/ list_append(d) \/ list_remove(d)
    \/ \E i \in 0..Cardinality(Addr) : list_get(i)
    \/ list_pop_front \/ list_empty \/ list_free

ListSpec == ListInit /\ [][ListNext]_list_vars

-----------------------------------------------------------------------------
(* Properties *)

(* The list as a sequence, and what list.h promises of it: every operation *)
(* does to the sequence what its comment says, whatever came before.       *)
List == INSTANCE SeqList WITH
    contents <- [i \in 1..size |-> heap[Walk[i]].data],
    result <- returned

(* list.c implements the sequence of list.h *)
ImplementsSeqList == List!Spec
=============================================================================
