--------------------------- MODULE TrimmingProofs ----------------------------
(***************************************************************************)
(* Safety of the trimming protocol, for every grammar (Ids, MinTrees),     *)
(* every set of loaded trees and every outcome of the target's runs.       *)
(***************************************************************************)
EXTENDS Trimming, TreeShapeProofs, SequenceTheorems

(* AFL is inside its loop: the numbers add up and nothing has wrapped.     *)
DriverInv ==
  /\ stage_cur <= stage_max
  /\ afl = "got" => tried_nodes = {}
  /\ afl \in {"loop", "run"} =>
       /\ tree_cur \in Tree
       /\ stage_max = total_subtree_trimming_steps + total_recursive_trimming_steps
       /\ stage_cur = cur_subtree_trimming_step + cur_recursive_trimming_step

(* Between post_trim and trim: each list is what is left of the tree's     *)
(* list after the finished elements, and the stage has work to do.         *)
LoopInv ==
  afl = "loop" =>
    /\ non_terminal_node_list =
         PopFront(NonTerminals(tree_cur), finished_subtree_trimming_nodes)
    /\ recursion_edge_list =
         PopFront(EdgeList(tree_cur), finished_recursive_trimming_edges)
    /\ cur_subtree_trimming_step + Len(non_terminal_node_list)
         = total_subtree_trimming_steps
    /\ cur_recursive_trimming_step + Len(recursion_edge_list)
         = total_recursive_trimming_steps
    /\ \/ /\ cur_trimming_stage = 0
          /\ finished_subtree_trimming_nodes < Len(tree_cur)
          /\ finished_recursive_trimming_edges = 0
          /\ tried_nodes \subseteq 1..finished_subtree_trimming_nodes
       \/ /\ cur_trimming_stage = 1
          /\ finished_subtree_trimming_nodes >= Len(tree_cur)
          /\ finished_recursive_trimming_edges < recursion_edge_size(tree_cur)

(* While the target runs in stage 0: the node after the finished ones is   *)
(* being tried.                                                            *)
SubtreeRunInv ==
  (afl = "run" /\ cur_trimming_stage = 0) =>
    LET node == finished_subtree_trimming_nodes + 1 IN
    /\ node <= Len(tree_cur)
    /\ finished_recursive_trimming_edges = 0
    /\ non_terminal_node_list = PopFront(NonTerminals(tree_cur), node)
    /\ recursion_edge_list = PopFront(EdgeList(tree_cur), 0)
    /\ cur_subtree_trimming_step + 1 + Len(non_terminal_node_list)
         = total_subtree_trimming_steps
    /\ cur_recursive_trimming_step + Len(recursion_edge_list)
         = total_recursive_trimming_steps
    /\ \E m \in MinTrees[tree_cur[node].id] : trimmed_tree = Replace(tree_cur, node, m)
    /\ trimmed_at = [pos |-> node, src |-> Generated]
    /\ tried_nodes \subseteq 1..node

(* While the target runs in stage 1: no node is left, and the edge after   *)
(* the finished ones is being tried.                                       *)
RecursiveRunInv ==
  (afl = "run" /\ cur_trimming_stage # 0) =>
    LET edges == finished_recursive_trimming_edges + 1 IN
    /\ cur_trimming_stage = 1
    /\ finished_subtree_trimming_nodes >= Len(tree_cur)
    /\ edges <= recursion_edge_size(tree_cur)
    /\ non_terminal_node_list =
         PopFront(NonTerminals(tree_cur), finished_subtree_trimming_nodes)
    /\ recursion_edge_list = PopFront(EdgeList(tree_cur), edges)
    /\ cur_subtree_trimming_step = total_subtree_trimming_steps
    /\ cur_recursive_trimming_step + 1 + Len(recursion_edge_list)
         = total_recursive_trimming_steps
    /\ \E e \in RecursionEdges(tree_cur) :
         trimmed_tree = Replace(tree_cur, parent(tree_cur, e), SubtreeAt(tree_cur, e))

(* The tree file is stale only between an effective trim and the end; and  *)
(* at the end too, progress agrees with the lists.                         *)
EndInv ==
  /\ afl \in {"got", "done"} => tree_file = tree_cur
  /\ afl \in {"loop", "run"} => (trim_was_effective \/ tree_file = tree_cur)
  /\ (afl = "done" /\ tree_cur # NoTree) =>
       /\ cur_subtree_trimming_step + Len(non_terminal_node_list)
            = total_subtree_trimming_steps
       /\ cur_recursive_trimming_step + Len(recursion_edge_list)
            = total_recursive_trimming_steps

(* The inductive invariant.                                                *)
IInv == /\ TypeOK /\ DriverInv /\ LoopInv /\ SubtreeRunInv /\ RecursiveRunInv
        /\ EndInv

-----------------------------------------------------------------------------
(* What popping n elements from the front of a list leaves.                *)
LEMMA PopFrontFacts ==
  ASSUME NEW S, NEW l \in Seq(S), NEW n \in Nat
  PROVE  /\ PopFront(l, n) \in Seq(S)
         /\ Len(PopFront(l, n)) = IF n <= Len(l) THEN Len(l) - n ELSE 0
         /\ \A k \in 1..Len(PopFront(l, n)) : PopFront(l, n)[k] = l[n + k]
<1>1. Len(l) \in Nat
  OBVIOUS
<1>2. CASE n <= Len(l)
  BY <1>1, <1>2 DEF PopFront
<1>3. CASE n > Len(l)
  <2>1. PopFront(l, n) = <<>>
    BY <1>1, <1>3 DEF PopFront
  <2>. QED  BY <1>1, <1>3, <2>1
<1>. QED  BY <1>1, <1>2, <1>3

(* Popping twice.                                                          *)
LEMMA PopFrontTwice ==
  ASSUME NEW S, NEW l \in Seq(S), NEW a \in Nat, NEW b \in Nat
  PROVE  PopFront(PopFront(l, a), b) = PopFront(l, a + b)
<1>. DEFINE p == PopFront(l, a)
            x == PopFront(p, b)
            y == PopFront(l, a + b)
<1>1. /\ p \in Seq(S) /\ Len(p) = (IF a <= Len(l) THEN Len(l) - a ELSE 0)
      /\ \A k \in 1..Len(p) : p[k] = l[a + k]
  BY PopFrontFacts
<1>. HIDE DEF p
<1>2. /\ x \in Seq(S) /\ Len(x) = (IF b <= Len(p) THEN Len(p) - b ELSE 0)
      /\ \A k \in 1..Len(x) : x[k] = p[b + k]
  BY <1>1, PopFrontFacts
<1>3. /\ y \in Seq(S) /\ Len(y) = (IF a + b <= Len(l) THEN Len(l) - (a + b) ELSE 0)
      /\ \A k \in 1..Len(y) : y[k] = l[(a + b) + k]
  BY PopFrontFacts
<1>. HIDE DEF x, y
<1>4. Len(l) \in Nat /\ Len(x) = Len(y)
  <2>1. Len(l) \in Nat /\ Len(p) \in Nat
    BY <1>1
  <2>. QED  BY <1>1, <1>2, <1>3, <2>1
<1>5. ASSUME NEW k \in 1..Len(x)  PROVE x[k] = y[k]
  <2>1. k \in Nat /\ k >= 1 /\ k <= Len(x) /\ Len(p) \in Nat /\ Len(x) \in Nat
    BY <1>1, <1>2
  <2>2. b + k \in 1..Len(p) /\ a + (b + k) = (a + b) + k
    BY <1>2, <2>1
  <2>3. p[b + k] = l[a + (b + k)]
    BY <1>1, <2>2
  <2>4. x[k] = p[b + k]
    BY <1>2
  <2>5. y[k] = l[(a + b) + k]
    BY <1>3, <1>4
  <2>. QED  BY <2>2, <2>3, <2>4, <2>5
<1>6. x = y
  BY <1>2, <1>3, <1>4, <1>5, SeqEqual
<1>. QED  BY <1>6 DEF x, y, p

(* tree_get_non_terminal_nodes() lists the positions 1, 2, ...             *)
LEMMA NonTerminalsFacts ==
  ASSUME NEW t \in Tree
  PROVE  /\ NonTerminals(t) \in Seq(Nat)
         /\ Len(NonTerminals(t)) = Len(t) /\ Len(t) \in Nat /\ Len(t) >= 1
         /\ \A k \in 1..Len(t) : NonTerminals(t)[k] = k
<1>1. t \in Seq(Node) /\ Len(t) \in Nat /\ Len(t) >= 1
  BY DEF Tree, IsTree
<1>. QED  BY <1>1 DEF NonTerminals

(* The recursion edges after the first n, as a list of positions.          *)
LEMMA EdgeListPopped ==
  ASSUME NEW t \in Tree, NEW n \in Nat
  PROVE  /\ EdgeList(t) \in Seq(RecursionEdges(t)) /\ EdgeList(t) \in Seq(Nat)
         /\ PopFront(EdgeList(t), n) \in Seq(RecursionEdges(t))
         /\ PopFront(EdgeList(t), n) \in Seq(Nat)
         /\ recursion_edge_size(t) \in Nat
         /\ Len(PopFront(EdgeList(t), n)) =
              IF n <= recursion_edge_size(t) THEN recursion_edge_size(t) - n ELSE 0
<1>1. EdgeList(t) \in Seq(RecursionEdges(t)) /\ Len(EdgeList(t)) = recursion_edge_size(t)
  BY EdgeListFacts
<1>2. RecursionEdges(t) \subseteq Nat /\ recursion_edge_size(t) \in Nat
  <2>1. RecursionEdges(t) \in SUBSET (1..Len(t)) /\ recursion_edge_size(t) \in Nat
    BY EdgesFinite
  <2>2. Len(t) \in Nat
    BY DEF Tree
  <2>. QED  BY <2>1, <2>2
<1>3. \A s \in Seq(RecursionEdges(t)) : s \in Seq(Nat)
  BY <1>2
<1>. QED  BY <1>1, <1>2, <1>3, PopFrontFacts

-----------------------------------------------------------------------------
(* A success in stage 0.  The node list that post_trim leaves is at most   *)
(* as long as the one before, even if the minimal subtree m holds more     *)
(* nodes than the subtree it replaces; and the edges have not grown.       *)
LEMMA SubtreeSuccess ==
  ASSUME NEW t \in Tree, NEW f \in Nat, f + 1 <= Len(t),
         NEW m \in Tree, m[1].id = t[f + 1].id, RecursionEdges(m) = {}
  PROVE  LET r    == Replace(t, f + 1, m)
             rest == PopFront(NonTerminals(r), f)
             skip == SkippedNodes(r, rest) IN
         /\ r \in Tree
         /\ skip \in Nat /\ skip >= 1 + Len(m)
         /\ PopFront(rest, skip) = PopFront(NonTerminals(r), f + skip)
         /\ PopFront(rest, skip) \in Seq(Nat)
         /\ Len(PopFront(rest, skip)) <= Len(t) - (f + 1)
         /\ recursion_edge_size(r) <= recursion_edge_size(t)
<1>. DEFINE q == f + 1
            r == Replace(t, q, m)
            n == non_term_size(t, q)
            z == non_term_size(r, q)
            rest == PopFront(NonTerminals(r), f)
            skip == SkippedNodes(r, rest)
<1>1. /\ Len(t) \in Nat /\ t \in Seq(Node) /\ q \in 1..Len(t) /\ m \in Seq(Node)
      /\ Len(m) \in Nat /\ Len(m) >= 1
  BY DEF Tree, IsTree
<1>2. n \in Nat /\ n >= 1 /\ q + n - 1 <= Len(t)
  BY <1>1, SubtreeIsRun
<1>3. r \in Tree
  BY <1>1, ReplaceIsTree
<1>4. Len(r) = Len(t) - n + Len(m)
  BY <1>1, ReplaceParts
<1>5. q <= Len(r) /\ z >= Len(m)
  BY <1>1, ReplacedSize
<1>6. recursion_edge_size(r) <= recursion_edge_size(t)
  BY <1>1, SubtreeTrimEdges
<1>. HIDE DEF r, n
<1>7. Len(r) \in Nat /\ r \in Seq(Node) /\ q \in 1..Len(r)
  BY <1>1, <1>3, <1>5 DEF Tree
<1>8. z \in Nat
  BY <1>7, SubtreeIsRun
<1>9. /\ NonTerminals(r) \in Seq(Nat) /\ Len(NonTerminals(r)) = Len(r)
      /\ \A k \in 1..Len(r) : NonTerminals(r)[k] = k
  BY <1>3, NonTerminalsFacts
<1>10. /\ rest \in Seq(Nat) /\ Len(rest) = Len(r) - f
       /\ \A k \in 1..Len(rest) : rest[k] = NonTerminals(r)[f + k]
  BY <1>5, <1>7, <1>9, PopFrontFacts
<1>. HIDE DEF rest
<1>11. rest # <<>> /\ Head(rest) = q
  <2>1. Len(rest) >= 1 /\ Len(rest) \in Nat
    BY <1>5, <1>7, <1>10
  <2>2. rest[1] = NonTerminals(r)[f + 1]
    BY <1>10, <2>1
  <2>3. NonTerminals(r)[f + 1] = f + 1
    BY <1>7, <1>9
  <2>. QED  BY <1>10, <2>1, <2>2, <2>3
<1>12. skip = 1 + z
  BY <1>11 DEF SkippedNodes
<1>. HIDE DEF skip, z
<1>13. skip \in Nat /\ skip >= 1 + Len(m)
  BY <1>1, <1>5, <1>8, <1>12
<1>14. PopFront(rest, skip) = PopFront(NonTerminals(r), f + skip)
  BY <1>9, <1>13, PopFrontTwice DEF rest
<1>15. PopFront(rest, skip) \in Seq(Nat)
  BY <1>10, <1>13, PopFrontFacts
<1>16. Len(PopFront(rest, skip)) = IF skip <= Len(rest) THEN Len(rest) - skip ELSE 0
  BY <1>10, <1>13, PopFrontFacts
<1>17. Len(PopFront(rest, skip)) <= Len(t) - (f + 1)
  BY <1>1, <1>2, <1>4, <1>10, <1>13, <1>16
<1>. QED  BY <1>3, <1>6, <1>13, <1>14, <1>15, <1>17 DEF r, rest, skip

(* A success in stage 1, when no node was left: none is left in the new    *)
(* tree either, and one edge at least has gone.                            *)
LEMMA RecursiveSuccess ==
  ASSUME NEW t \in Tree, NEW f \in Nat, f >= Len(t), NEW e \in RecursionEdges(t)
  PROVE  LET r    == Replace(t, parent(t, e), SubtreeAt(t, e))
             rest == PopFront(NonTerminals(r), f) IN
         /\ r \in Tree /\ Len(r) <= f
         /\ rest = <<>> /\ SkippedNodes(r, rest) = 0
         /\ PopFront(rest, 0) = <<>>
         /\ recursion_edge_size(r) < recursion_edge_size(t)
<1>. DEFINE r == Replace(t, parent(t, e), SubtreeAt(t, e))
            rest == PopFront(NonTerminals(r), f)
<1>1. r \in Tree /\ Len(r) < Len(t) /\ recursion_edge_size(r) < recursion_edge_size(t)
  BY RecursiveTrimEdges
<1>. HIDE DEF r
<1>2. Len(t) \in Nat /\ Len(r) \in Nat
  BY <1>1 DEF Tree
<1>3. NonTerminals(r) \in Seq(Nat) /\ Len(NonTerminals(r)) = Len(r)
  BY <1>1, NonTerminalsFacts
<1>4. rest \in Seq(Nat) /\ Len(rest) = 0
  BY <1>1, <1>2, <1>3, PopFrontFacts
<1>5. rest = <<>>
  BY <1>4
<1>. HIDE DEF rest
<1>6. SkippedNodes(r, rest) = 0
  BY <1>5 DEF SkippedNodes
<1>7. PopFront(rest, 0) = <<>>
  BY <1>5 DEF PopFront
<1>. QED  BY <1>1, <1>2, <1>5, <1>6, <1>7 DEF r, rest

-----------------------------------------------------------------------------
(* The invariant holds initially.                                          *)
LEMMA InitHolds == Init => IInv
<1>. SUFFICES ASSUME Init  PROVE IInv
  OBVIOUS
<1>1. TypeOK
  <2>1. <<>> \in Seq(Nat)
    OBVIOUS
  <2>2. trim_was_effective \in BOOLEAN
    BY DEF Init
  <2>3. trimmed_at \in [pos : Nat, src : Nat]
    BY DEF Init, Generated
  <2>. QED  BY <2>1, <2>2, <2>3 DEF Init, TypeOK
<1>2. DriverInv /\ LoopInv /\ SubtreeRunInv /\ RecursiveRunInv /\ EndInv
  BY DEF Init, DriverInv, LoopInv, SubtreeRunInv, RecursiveRunInv, EndInv
<1>. QED  BY <1>1, <1>2 DEF IInv

(* A new entry: nothing that the loop relies on is claimed yet.            *)
LEMMA QueueGetHolds ==
  ASSUME IInv, NEW t \in Trees \cup {tree_file, NoTree}, QueueGet(t)
  PROVE  IInv'
<1>1. t \in Tree \cup {NoTree}
  BY TreesAssumption DEF IInv, TypeOK
<1>2. TypeOK'
  <2>1. <<>> \in Seq(Nat)
    OBVIOUS
  <2>. QED  BY <1>1, <2>1 DEF IInv, TypeOK, QueueGet, subtree, recursive, stage, Generated
<1>3. (DriverInv /\ LoopInv /\ SubtreeRunInv /\ RecursiveRunInv /\ EndInv)'
  BY DEF IInv, QueueGet, DriverInv, LoopInv, SubtreeRunInv, RecursiveRunInv, EndInv
<1>. QED  BY <1>2, <1>3 DEF IInv

(* Without a tree AFL's loop is over at once.                              *)
LEMMA InitTrimNoTreeHolds ==
  ASSUME IInv, InitTrimNoTree
  PROVE  IInv'
<1>1. TypeOK'
  BY DEF IInv, TypeOK, InitTrimNoTree, trees, subtree, recursive, stage, history
<1>2. (DriverInv /\ LoopInv /\ SubtreeRunInv /\ RecursiveRunInv)'
  BY DEF InitTrimNoTree, DriverInv, LoopInv, SubtreeRunInv, RecursiveRunInv
<1>3. EndInv'
  BY DEF IInv, InitTrimNoTree, EndInv, trees
<1>. QED  BY <1>1, <1>2, <1>3 DEF IInv

(* Both lists are complete and nothing is finished.                        *)
LEMMA InitTrimHolds ==
  ASSUME IInv, InitTrim
  PROVE  IInv'
<1>1. tree_cur \in Tree /\ tree_cur' = tree_cur
  BY DEF IInv, TypeOK, InitTrim
<1>. DEFINE t == tree_cur
<1>2. /\ NonTerminals(t) \in Seq(Nat) /\ Len(NonTerminals(t)) = Len(t)
      /\ Len(t) \in Nat /\ Len(t) >= 1 /\ t \in Seq(Node) /\ 1 \in 1..Len(t)
  BY <1>1, NonTerminalsFacts DEF Tree
<1>3. /\ EdgeList(t) \in Seq(Nat) /\ Len(EdgeList(t)) = recursion_edge_size(t)
      /\ recursion_edge_size(t) \in Nat
  BY <1>1, EdgeListPopped, EdgeListFacts
<1>4. non_term_size(t, 1) = Len(t)
  <2>1. /\ non_term_size(t, 1) \in Nat /\ non_term_size(t, 1) >= 1
        /\ 1 + non_term_size(t, 1) - 1 <= Len(t)
        /\ 1 + non_term_size(t, 1) <= Len(t) => t[1 + non_term_size(t, 1)].depth <= t[1].depth
    BY <1>2, SubtreeIsRun
  <2>2. ASSUME non_term_size(t, 1) < Len(t)  PROVE FALSE
    <3>. DEFINE x == 1 + non_term_size(t, 1)
    <3>1. x \in 2..Len(t) /\ x \in 1..Len(t)
      BY <1>2, <2>1, <2>2
    <3>. HIDE DEF x
    <3>2. t[1].depth = 0 /\ t[x].depth \in 1..(t[x-1].depth + 1)
      BY <1>1, <3>1 DEF Tree, IsTree
    <3>3. t[x].depth \in Nat
      BY <1>2, <3>1, NodeFields
    <3>4. t[x].depth <= t[1].depth
      BY <2>1, <3>1 DEF x
    <3>. QED  BY <3>2, <3>3, <3>4
  <2>. QED  BY <1>2, <2>1, <2>2
<1>5. PopFront(NonTerminals(t), 0) = NonTerminals(t) /\ PopFront(EdgeList(t), 0) = EdgeList(t)
  <2>1. \A l \in Seq(Nat) : PopFront(l, 0) = l
    BY DEF PopFront
  <2>. QED  BY <1>2, <1>3, <2>1
<1>6. TypeOK'
  <2>1. (trim_was_effective \in BOOLEAN)'
    BY DEF InitTrim
  <2>. QED  BY <1>1, <1>2, <1>3, <1>4, <2>1 DEF IInv, TypeOK, InitTrim, history
<1>7. DriverInv'
  BY <1>1, <1>2, <1>3, <1>4 DEF InitTrim, DriverInv
<1>8. LoopInv'
  <2>1. tried_nodes = {}
    BY DEF IInv, DriverInv, InitTrim
  <2>. QED  BY <1>1, <1>2, <1>3, <1>4, <1>5, <2>1 DEF InitTrim, LoopInv, history
<1>9. (SubtreeRunInv /\ RecursiveRunInv)'
  BY DEF InitTrim, SubtreeRunInv, RecursiveRunInv
<1>10. EndInv'
  BY DEF IInv, InitTrim, EndInv
<1>. QED  BY <1>6, <1>7, <1>8, <1>9, <1>10 DEF IInv

(* AFL may give up anywhere in its loop.                                   *)
LEMMA AbortHolds ==
  ASSUME IInv, Abort
  PROVE  IInv'
<1>1. TypeOK'
  BY DEF IInv, TypeOK, Abort, trees, subtree, recursive, stage, history
<1>2. (DriverInv /\ LoopInv /\ SubtreeRunInv /\ RecursiveRunInv /\ EndInv)'
  BY DEF IInv, Abort, DriverInv, LoopInv, SubtreeRunInv, RecursiveRunInv, EndInv
<1>. QED  BY <1>1, <1>2 DEF IInv

-----------------------------------------------------------------------------
(* afl_custom_trim() in stage 0 takes the node after the finished ones.    *)
LEMMA SubtreeTrimHolds ==
  ASSUME IInv, Trim, cur_trimming_stage = 0
  PROVE  IInv'
<1>. DEFINE t == tree_cur
            f == finished_subtree_trimming_nodes
            node == Head(non_terminal_node_list)
<1>1. /\ afl = "loop" /\ afl' = "run" /\ SubtreeTrim
      /\ UNCHANGED <<tree_cur, subtree, recursive, stage, stage_cur, stage_max, tree_file>>
  BY DEF Trim, RecursiveTrim
<1>2. /\ t \in Tree /\ f \in Nat /\ f < Len(t) /\ finished_recursive_trimming_edges = 0
      /\ non_terminal_node_list = PopFront(NonTerminals(t), f)
      /\ recursion_edge_list = PopFront(EdgeList(t), 0)
      /\ cur_subtree_trimming_step + Len(non_terminal_node_list)
           = total_subtree_trimming_steps
      /\ cur_recursive_trimming_step + Len(recursion_edge_list)
           = total_recursive_trimming_steps
      /\ tried_nodes \subseteq 1..f
  BY <1>1 DEF IInv, TypeOK, DriverInv, LoopInv
<1>3. /\ NonTerminals(t) \in Seq(Nat) /\ Len(NonTerminals(t)) = Len(t)
      /\ Len(t) \in Nat /\ \A k \in 1..Len(t) : NonTerminals(t)[k] = k
  BY <1>2, NonTerminalsFacts
<1>4. node = f + 1
  <2>1. /\ PopFront(NonTerminals(t), f) \in Seq(Nat)
        /\ Len(PopFront(NonTerminals(t), f)) = Len(t) - f
        /\ \A k \in 1..Len(PopFront(NonTerminals(t), f)) :
             PopFront(NonTerminals(t), f)[k] = NonTerminals(t)[f + k]
    BY <1>2, <1>3, PopFrontFacts
  <2>2. non_terminal_node_list[1] = NonTerminals(t)[f + 1]
    BY <1>2, <1>3, <2>1
  <2>3. NonTerminals(t)[f + 1] = f + 1
    BY <1>2, <1>3
  <2>4. Len(non_terminal_node_list) \in Nat /\ Len(non_terminal_node_list) >= 1
    BY <1>2, <1>3, <2>1
  <2>. QED  BY <1>2, <2>1, <2>2, <2>3, <2>4
<1>5. PICK m \in MinTrees[t[f + 1].id] : trimmed_tree' = Replace(t, f + 1, m)
  BY <1>1, <1>4 DEF SubtreeTrim
<1>6. f + 1 \in 1..Len(t) /\ t \in Seq(Node) /\ t[f + 1].id \in Ids
  <2>1. f + 1 \in 1..Len(t) /\ t \in Seq(Node)
    BY <1>2, <1>3 DEF Tree
  <2>. QED  BY <2>1, NodeFields
<1>7. m \in Tree /\ trimmed_tree' \in Tree
  BY <1>2, <1>5, <1>6, MinTreesAssumption, ReplaceIsTree
<1>8. /\ non_terminal_node_list' = PopFront(NonTerminals(t), f + 1)
      /\ non_terminal_node_list' \in Seq(Nat)
      /\ Len(non_terminal_node_list) = 1 + Len(non_terminal_node_list')
  <2>1. non_terminal_node_list' = PopFront(PopFront(NonTerminals(t), f), 1)
    BY <1>1, <1>2 DEF SubtreeTrim
  <2>2. PopFront(PopFront(NonTerminals(t), f), 1) = PopFront(NonTerminals(t), f + 1)
    BY <1>2, <1>3, PopFrontTwice
  <2>3. /\ PopFront(NonTerminals(t), f + 1) \in Seq(Nat)
        /\ Len(PopFront(NonTerminals(t), f + 1)) = Len(t) - (f + 1)
        /\ Len(PopFront(NonTerminals(t), f)) = Len(t) - f
    <3>1. f + 1 \in Nat /\ f + 1 <= Len(t) /\ f <= Len(t)
      BY <1>2, <1>3
    <3>. QED  BY <1>2, <1>3, <3>1, PopFrontFacts
  <2>. QED  BY <1>2, <1>3, <2>1, <2>2, <2>3
<1>9. /\ trimmed_at' = [pos |-> f + 1, src |-> Generated]
      /\ tried_nodes' = tried_nodes \cup {f + 1}
      /\ recursion_edge_list' = recursion_edge_list /\ tried_edges' = tried_edges
  BY <1>1, <1>4 DEF SubtreeTrim
<1>10. TypeOK'
  <2>1. trimmed_at' \in [pos : Nat, src : Nat]
    BY <1>2, <1>9 DEF Generated
  <2>2. tried_nodes' \subseteq Nat
    <3>1. tried_nodes \subseteq Nat
      BY DEF IInv, TypeOK
    <3>2. f + 1 \in Nat
      BY <1>2
    <3>. QED  BY <1>9, <3>1, <3>2
  <2>. QED  BY <1>1, <1>7, <1>8, <1>9, <2>1, <2>2
            DEF IInv, TypeOK, subtree, recursive, stage
<1>11. DriverInv'
  BY <1>1 DEF IInv, DriverInv, subtree, recursive
<1>12. (LoopInv /\ RecursiveRunInv)'
  BY <1>1 DEF LoopInv, RecursiveRunInv, stage
<1>13. SubtreeRunInv'
  <2>1. tried_nodes' \subseteq 1..(f + 1)
    BY <1>2, <1>9
  <2>2. f + 1 <= Len(t)
    BY <1>2, <1>3
  <2>3. cur_subtree_trimming_step + 1 + Len(non_terminal_node_list')
          = total_subtree_trimming_steps
    <3>1. cur_subtree_trimming_step \in Nat /\ Len(non_terminal_node_list') \in Nat
      BY <1>8 DEF IInv, TypeOK
    <3>. QED  BY <1>2, <1>8, <3>1
  <2>. QED  BY <1>1, <1>2, <1>5, <1>8, <1>9, <2>1, <2>2, <2>3
            DEF SubtreeRunInv, subtree, recursive
<1>14. EndInv'
  BY <1>1 DEF IInv, EndInv, stage
<1>. QED  BY <1>10, <1>11, <1>12, <1>13, <1>14 DEF IInv

(* afl_custom_trim() in stage 1 takes the edge after the finished ones.    *)
LEMMA RecursiveTrimHolds ==
  ASSUME IInv, Trim, cur_trimming_stage # 0
  PROVE  IInv'
<1>. DEFINE t == tree_cur
            f == finished_recursive_trimming_edges
            e == Head(recursion_edge_list)
<1>1. /\ afl = "loop" /\ afl' = "run" /\ RecursiveTrim
      /\ UNCHANGED <<tree_cur, subtree, recursive, stage, stage_cur, stage_max, tree_file>>
  BY DEF Trim, SubtreeTrim
<1>2. /\ t \in Tree /\ f \in Nat /\ f < recursion_edge_size(t)
      /\ cur_trimming_stage = 1
      /\ finished_subtree_trimming_nodes \in Nat
      /\ finished_subtree_trimming_nodes >= Len(t)
      /\ non_terminal_node_list =
           PopFront(NonTerminals(t), finished_subtree_trimming_nodes)
      /\ recursion_edge_list = PopFront(EdgeList(t), f)
      /\ cur_subtree_trimming_step + Len(non_terminal_node_list)
           = total_subtree_trimming_steps
      /\ cur_recursive_trimming_step + Len(recursion_edge_list)
           = total_recursive_trimming_steps
  BY <1>1 DEF IInv, TypeOK, DriverInv, LoopInv
<1>3. /\ recursion_edge_list \in Seq(RecursionEdges(t))
      /\ recursion_edge_size(t) \in Nat
      /\ Len(recursion_edge_list) = recursion_edge_size(t) - f
  BY <1>2, EdgeListPopped
<1>4. e \in RecursionEdges(t)
  <2>1. Len(recursion_edge_list) \in Nat /\ Len(recursion_edge_list) >= 1
    BY <1>2, <1>3
  <2>. QED  BY <1>3, <2>1
<1>5. /\ trimmed_tree' = Replace(t, parent(t, e), SubtreeAt(t, e))
      /\ trimmed_at' = [pos |-> parent(t, e), src |-> e]
      /\ tried_edges' = tried_edges \cup {e}
      /\ non_terminal_node_list' = non_terminal_node_list /\ tried_nodes' = tried_nodes
  BY <1>1 DEF RecursiveTrim
<1>6. /\ trimmed_tree' \in Tree /\ parent(t, e) \in 1..Len(t) /\ e \in 1..Len(t)
      /\ Len(t) \in Nat
  BY <1>2, <1>4, <1>5, RecursiveTrimEdges DEF Tree
<1>7. /\ recursion_edge_list' = PopFront(EdgeList(t), f + 1)
      /\ recursion_edge_list' \in Seq(Nat)
      /\ Len(recursion_edge_list) = 1 + Len(recursion_edge_list')
  <2>1. recursion_edge_list' = PopFront(PopFront(EdgeList(t), f), 1)
    BY <1>1, <1>2 DEF RecursiveTrim
  <2>2. EdgeList(t) \in Seq(Nat)
    BY <1>2, EdgeListPopped
  <2>3. PopFront(PopFront(EdgeList(t), f), 1) = PopFront(EdgeList(t), f + 1)
    BY <1>2, <2>2, PopFrontTwice
  <2>4. f + 1 \in Nat /\ f + 1 <= recursion_edge_size(t)
    BY <1>2, <1>3
  <2>5. /\ PopFront(EdgeList(t), f + 1) \in Seq(Nat)
        /\ Len(PopFront(EdgeList(t), f + 1)) = recursion_edge_size(t) - (f + 1)
    BY <1>2, <2>4, EdgeListPopped
  <2>. QED  BY <1>2, <1>3, <2>1, <2>3, <2>4, <2>5
<1>8. non_terminal_node_list \in Seq(Nat) /\ Len(non_terminal_node_list) = 0
  <2>1. NonTerminals(t) \in Seq(Nat) /\ Len(NonTerminals(t)) = Len(t)
    BY <1>2, NonTerminalsFacts
  <2>. QED  BY <1>2, <1>6, <2>1, PopFrontFacts
<1>9. TypeOK'
  <2>1. trimmed_at' \in [pos : Nat, src : Nat]
    BY <1>5, <1>6
  <2>2. tried_edges' \subseteq Nat
    <3>1. tried_edges \subseteq Nat
      BY DEF IInv, TypeOK
    <3>2. e \in Nat
      BY <1>6
    <3>. HIDE DEF e
    <3>. QED  BY <1>5, <3>1, <3>2
  <2>. QED  BY <1>1, <1>5, <1>6, <1>7, <2>1, <2>2
            DEF IInv, TypeOK, subtree, recursive, stage
<1>10. DriverInv'
  BY <1>1 DEF IInv, DriverInv, subtree, recursive
<1>11. (LoopInv /\ SubtreeRunInv)'
  BY <1>1 DEF LoopInv, SubtreeRunInv, stage
<1>12. RecursiveRunInv'
  <2>1. f + 1 <= recursion_edge_size(t)
    BY <1>2, <1>3
  <2>2. cur_subtree_trimming_step = total_subtree_trimming_steps
    BY <1>2, <1>8 DEF IInv, TypeOK
  <2>3. cur_recursive_trimming_step + 1 + Len(recursion_edge_list')
          = total_recursive_trimming_steps
    <3>1. cur_recursive_trimming_step \in Nat /\ Len(recursion_edge_list') \in Nat
      BY <1>7 DEF IInv, TypeOK
    <3>. QED  BY <1>2, <1>7, <3>1
  <2>. QED  BY <1>1, <1>2, <1>4, <1>5, <1>7, <2>1, <2>2, <2>3
            DEF RecursiveRunInv, subtree, recursive, stage
<1>13. EndInv'
  BY <1>1 DEF IInv, EndInv, stage
<1>. QED  BY <1>9, <1>10, <1>11, <1>12, <1>13 DEF IInv

-----------------------------------------------------------------------------
(* The end of post_trim, whatever its outcome: when the counters agree     *)
(* with what is left of the lists, the stage it selects has work to do,    *)
(* and AFL's loop ends exactly when both lists are empty.                  *)
LEMMA EndPostTrimHolds ==
  ASSUME IInv, afl = "run", EndPostTrim,
         tree_cur' \in Tree,
         cur_subtree_trimming_step' \in Nat, finished_subtree_trimming_nodes' \in Nat,
         cur_recursive_trimming_step' \in Nat, finished_recursive_trimming_edges' \in Nat,
         trim_was_effective' \in BOOLEAN,
         tried_nodes' \subseteq Nat, tried_edges' \subseteq Nat,
         non_terminal_node_list' =
           PopFront(NonTerminals(tree_cur'), finished_subtree_trimming_nodes'),
         recursion_edge_list' =
           PopFront(EdgeList(tree_cur'), finished_recursive_trimming_edges'),
         cur_subtree_trimming_step' + Len(non_terminal_node_list')
           = total_subtree_trimming_steps,
         cur_recursive_trimming_step' + Len(recursion_edge_list')
           = total_recursive_trimming_steps,
         trim_was_effective' \/ tree_file = tree_cur',
         cur_trimming_stage = 0 =>
           /\ finished_recursive_trimming_edges' = 0
           /\ tried_nodes' \subseteq 1..finished_subtree_trimming_nodes',
         cur_trimming_stage # 0 =>
           finished_subtree_trimming_nodes' >= Len(tree_cur')
  PROVE  IInv'
<1>. DEFINE t == tree_cur'
            nl == Len(non_terminal_node_list')
            el == Len(recursion_edge_list')
<1>1. /\ non_terminal_node_list' \in Seq(Nat) /\ Len(t) \in Nat
      /\ nl = IF finished_subtree_trimming_nodes' <= Len(t)
              THEN Len(t) - finished_subtree_trimming_nodes' ELSE 0
  BY NonTerminalsFacts, PopFrontFacts, SMTT(30)
<1>2. /\ recursion_edge_list' \in Seq(Nat) /\ recursion_edge_size(t) \in Nat
      /\ el = IF finished_recursive_trimming_edges' <= recursion_edge_size(t)
              THEN recursion_edge_size(t) - finished_recursive_trimming_edges' ELSE 0
  BY EdgeListPopped
<1>3. /\ cur_trimming_stage \in {0, 1}
      /\ stage_max = total_subtree_trimming_steps + total_recursive_trimming_steps
      /\ total_subtree_trimming_steps \in Nat /\ total_recursive_trimming_steps \in Nat
  BY DEF IInv, TypeOK, DriverInv, RecursiveRunInv
<1>4. /\ total_subtree_trimming_steps' = total_subtree_trimming_steps
      /\ total_recursive_trimming_steps' = total_recursive_trimming_steps
      /\ stage_max' = stage_max /\ trimmed_at' = trimmed_at /\ trimmed_tree' = NoTree
      /\ cur_trimming_stage' = NextStage(cur_trimming_stage, cur_subtree_trimming_step',
                                         cur_recursive_trimming_step')
      /\ stage_cur' = cur_subtree_trimming_step' + cur_recursive_trimming_step'
      /\ afl' = IF stage_cur' < stage_max THEN "loop" ELSE "done"
      /\ tree_file' = IF trim_was_effective' /\ cur_trimming_stage' > 1
                      THEN tree_cur' ELSE tree_file
  BY DEF EndPostTrim
<1>5. nl \in Nat /\ el \in Nat
  BY <1>1, <1>2
<1>. HIDE DEF nl, el
<1>6. /\ cur_subtree_trimming_step' + nl = total_subtree_trimming_steps
      /\ cur_recursive_trimming_step' + el = total_recursive_trimming_steps
  BY DEF nl, el
<1>a. /\ cur_subtree_trimming_step' >= total_subtree_trimming_steps <=> nl = 0
      /\ cur_recursive_trimming_step' >= total_recursive_trimming_steps <=> el = 0
      /\ stage_cur' < stage_max <=> ~ (nl = 0 /\ el = 0)
      /\ stage_cur' \in Nat /\ stage_cur' <= stage_max
  <2>1. /\ cur_subtree_trimming_step' >= total_subtree_trimming_steps <=> nl = 0
        /\ cur_recursive_trimming_step' >= total_recursive_trimming_steps <=> el = 0
        /\ (cur_subtree_trimming_step' + cur_recursive_trimming_step'
              < total_subtree_trimming_steps + total_recursive_trimming_steps)
             <=> ~ (nl = 0 /\ el = 0)
        /\ cur_subtree_trimming_step' + cur_recursive_trimming_step' \in Nat
        /\ cur_subtree_trimming_step' + cur_recursive_trimming_step'
             <= total_subtree_trimming_steps + total_recursive_trimming_steps
    <3>. DEFINE sub == cur_subtree_trimming_step'
                rec == cur_recursive_trimming_step'
    <3>1. sub \in Nat /\ rec \in Nat /\ nl \in Nat /\ el \in Nat
      BY <1>5
    <3>2. /\ sub + nl = total_subtree_trimming_steps
          /\ rec + el = total_recursive_trimming_steps
      BY <1>6
    <3>3. /\ total_subtree_trimming_steps \in Nat
          /\ total_recursive_trimming_steps \in Nat
      BY <1>3
    <3>. HIDE DEF sub, rec
    <3>4. /\ sub >= total_subtree_trimming_steps <=> nl = 0
          /\ rec >= total_recursive_trimming_steps <=> el = 0
          /\ (sub + rec < total_subtree_trimming_steps + total_recursive_trimming_steps)
               <=> ~ (nl = 0 /\ el = 0)
          /\ sub + rec \in Nat
          /\ sub + rec <= total_subtree_trimming_steps + total_recursive_trimming_steps
      BY ONLY <3>1, <3>2, <3>3
    <3>. QED  BY <3>4 DEF sub, rec
  <2>. QED  BY <1>3, <1>4, <2>1
<1>b. TypeOK' <=> cur_trimming_stage' \in 0..2 /\ tree_file' \in Tree \cup {NoTree}
  <2>1. afl' \in {"loop", "done"}
    BY <1>4
  <2>2. stage_max' \in Nat
    BY <1>3, <1>4
  <2>. QED  BY <1>1, <1>2, <1>3, <1>4, <1>a, <2>1, <2>2 DEF IInv, TypeOK
<1>c. tree_file \in Tree \cup {NoTree}
  BY DEF IInv, TypeOK
<1>7. CASE nl > 0
  <2>0. nl # 0
    BY <1>5, <1>7
  <2>1. cur_trimming_stage = 0 /\ finished_subtree_trimming_nodes' < Len(t)
    BY <1>1, <1>3, <1>7, SMTT(30)
  <2>2. cur_trimming_stage' = 0
    BY <1>4, <1>a, <2>0, <2>1 DEF NextStage
  <2>3. stage_cur' < stage_max /\ afl' = "loop"
    BY <1>4, <1>a, <2>0
  <2>4. tree_file' = tree_file
    BY <1>4, <2>2
  <2>5. TypeOK'
    BY <1>b, <1>c, <2>2, <2>4
  <2>6. DriverInv' /\ EndInv' /\ SubtreeRunInv' /\ RecursiveRunInv'
    BY <1>3, <1>4, <1>a, <2>3, <2>4 DEF DriverInv, EndInv, SubtreeRunInv, RecursiveRunInv
  <2>7. LoopInv'
    BY <1>4, <1>6, <2>1, <2>2, <2>3 DEF LoopInv, nl, el
  <2>. QED  BY <2>5, <2>6, <2>7 DEF IInv
<1>8. CASE nl = 0 /\ el > 0
  <2>0. nl = 0 /\ el # 0
    BY <1>5, <1>8
  <2>1. /\ finished_subtree_trimming_nodes' >= Len(t)
        /\ finished_recursive_trimming_edges' < recursion_edge_size(t)
    BY <1>1, <1>2, <1>8
  <2>2. cur_trimming_stage' = 1
    BY <1>3, <1>4, <1>a, <2>0 DEF NextStage
  <2>3. stage_cur' < stage_max /\ afl' = "loop"
    BY <1>4, <1>a, <2>0
  <2>4. tree_file' = tree_file
    BY <1>4, <2>2
  <2>5. TypeOK'
    BY <1>b, <1>c, <2>2, <2>4
  <2>6. DriverInv' /\ EndInv' /\ SubtreeRunInv' /\ RecursiveRunInv'
    BY <1>3, <1>4, <1>a, <2>3, <2>4 DEF DriverInv, EndInv, SubtreeRunInv, RecursiveRunInv
  <2>7. LoopInv'
    BY <1>4, <1>6, <2>1, <2>2, <2>3 DEF LoopInv, nl, el
  <2>. QED  BY <2>5, <2>6, <2>7 DEF IInv
<1>9. CASE nl = 0 /\ el = 0
  <2>1. cur_trimming_stage' = 2
    BY <1>3, <1>4, <1>a, <1>9 DEF NextStage
  <2>2. afl' = "done"
    BY <1>4, <1>a, <1>9
  <2>3. tree_file' = tree_cur'
    BY <1>4, <2>1
  <2>4. TypeOK'
    BY <1>b, <2>1, <2>3
  <2>. QED  BY <1>4, <1>6, <1>a, <2>2, <2>3, <2>4
            DEF nl, el, IInv, DriverInv, LoopInv, SubtreeRunInv, RecursiveRunInv, EndInv
<1>. QED  BY <1>5, <1>7, <1>8, <1>9

-----------------------------------------------------------------------------
(* afl_custom_post_trim(0) counts one more node or edge as finished.       *)
LEMMA PostTrimFailureHolds ==
  ASSUME IInv, PostTrimFailure
  PROVE  IInv' /\ stage_cur' = stage_cur + 1
<1>. DEFINE f == finished_subtree_trimming_nodes
            g == finished_recursive_trimming_edges
<1>1. /\ afl = "run" /\ EndPostTrim
      /\ tree_cur' = tree_cur /\ non_terminal_node_list' = non_terminal_node_list
      /\ recursion_edge_list' = recursion_edge_list
      /\ trim_was_effective' = trim_was_effective
      /\ tried_nodes' = tried_nodes /\ tried_edges' = tried_edges
      /\ stage_cur' = cur_subtree_trimming_step' + cur_recursive_trimming_step'
  BY DEF PostTrimFailure, EndPostTrim
<1>2. /\ tree_cur \in Tree /\ trim_was_effective \in BOOLEAN
      /\ tried_nodes \subseteq Nat /\ tried_edges \subseteq Nat
      /\ trim_was_effective \/ tree_file = tree_cur
  BY <1>1 DEF IInv, TypeOK, DriverInv, EndInv
<1>3. /\ f \in Nat /\ g \in Nat
      /\ cur_subtree_trimming_step \in Nat /\ cur_recursive_trimming_step \in Nat
      /\ total_subtree_trimming_steps \in Nat /\ total_recursive_trimming_steps \in Nat
      /\ stage_cur = cur_subtree_trimming_step + cur_recursive_trimming_step
  BY <1>1 DEF IInv, TypeOK, DriverInv
<1>4. Len(non_terminal_node_list) \in Nat /\ Len(recursion_edge_list) \in Nat
  BY DEF IInv, TypeOK
<1>5. CASE cur_trimming_stage = 0
  <2>1. /\ cur_subtree_trimming_step' = cur_subtree_trimming_step + 1 /\ f' = f + 1
        /\ cur_recursive_trimming_step' = cur_recursive_trimming_step + 0 /\ g' = g + 0
    BY <1>5 DEF PostTrimFailure, One
  <2>2. /\ cur_subtree_trimming_step' = cur_subtree_trimming_step + 1 /\ f' = f + 1
        /\ cur_recursive_trimming_step' = cur_recursive_trimming_step /\ g' = g
    BY <1>3, <2>1
  <2>3. /\ g = 0
        /\ non_terminal_node_list = PopFront(NonTerminals(tree_cur), f + 1)
        /\ recursion_edge_list = PopFront(EdgeList(tree_cur), 0)
        /\ cur_subtree_trimming_step + 1 + Len(non_terminal_node_list)
             = total_subtree_trimming_steps
        /\ cur_recursive_trimming_step + Len(recursion_edge_list)
             = total_recursive_trimming_steps
        /\ tried_nodes \subseteq 1..(f + 1)
    BY <1>1, <1>5 DEF IInv, SubtreeRunInv
  <2>4. stage_cur' = stage_cur + 1 /\ f' \in Nat /\ cur_subtree_trimming_step' \in Nat
    BY <1>1, <1>3, <2>2
  <2>5. IInv'
    BY <1>1, <1>2, <1>3, <1>5, <2>2, <2>3, <2>4, EndPostTrimHolds
  <2>. QED  BY <2>4, <2>5
<1>6. CASE cur_trimming_stage # 0
  <2>1. /\ cur_trimming_stage = 1 /\ f >= Len(tree_cur)
        /\ non_terminal_node_list = PopFront(NonTerminals(tree_cur), f)
        /\ recursion_edge_list = PopFront(EdgeList(tree_cur), g + 1)
        /\ cur_subtree_trimming_step = total_subtree_trimming_steps
        /\ cur_recursive_trimming_step + 1 + Len(recursion_edge_list)
             = total_recursive_trimming_steps
    BY <1>1, <1>6 DEF IInv, RecursiveRunInv
  <2>2. /\ cur_subtree_trimming_step' = cur_subtree_trimming_step + 0 /\ f' = f + 0
        /\ cur_recursive_trimming_step' = cur_recursive_trimming_step + 1 /\ g' = g + 1
    BY <2>1 DEF PostTrimFailure, One
  <2>3. /\ cur_subtree_trimming_step' = cur_subtree_trimming_step /\ f' = f
        /\ cur_recursive_trimming_step' = cur_recursive_trimming_step + 1 /\ g' = g + 1
    BY <1>3, <2>2
  <2>4. /\ stage_cur' = stage_cur + 1
        /\ g' \in Nat /\ cur_recursive_trimming_step' \in Nat
    BY <1>1, <1>3, <2>3
  <2>5. Len(non_terminal_node_list) = 0
    BY <1>2, <1>3, <2>1, NonTerminalsFacts, PopFrontFacts
  <2>6. cur_subtree_trimming_step' + Len(non_terminal_node_list')
          = total_subtree_trimming_steps
    BY <1>1, <1>3, <2>1, <2>3, <2>5
  <2>7. IInv'
    BY <1>1, <1>2, <1>3, <1>6, <2>1, <2>3, <2>4, <2>6, EndPostTrimHolds
  <2>. QED  BY <2>4, <2>7
<1>. QED  BY <1>5, <1>6

(* The size_t subtraction of a length that is not above the total.         *)
LEMMA SizeSubFacts ==
  ASSUME NEW a \in Nat, NEW b \in Nat, b <= a
  PROVE  SizeSub(a, b) \in Nat /\ SizeSub(a, b) + b = a
  BY DEF SizeSub

(* Whatever was tried stays within the trimmed tree.                       *)
LEMMA MoveHistoryFacts ==
  ASSUME MoveHistory, trimmed_tree \in Tree
  PROVE  tried_nodes' \subseteq Nat /\ tried_edges' \subseteq Nat
<1>1. Len(trimmed_tree) \in Nat
  BY DEF Tree
<1>2. 1..Len(trimmed_tree) \subseteq Nat /\ RecursionEdges(trimmed_tree) \subseteq Nat
  BY <1>1 DEF RecursionEdges
<1>. QED  BY <1>2 DEF MoveHistory

(* After a success at position q = f + 1, the tried or generated nodes of  *)
(* the new tree are the ones before q and the generated ones.              *)
LEMMA SubtreeHistory ==
  ASSUME NEW f \in Nat, NEW m \in Tree, tree_cur \in Tree, f + 1 <= Len(tree_cur),
         trimmed_tree = Replace(tree_cur, f + 1, m),
         trimmed_at = [pos |-> f + 1, src |-> Generated],
         tried_nodes \subseteq 1..(f + 1), MoveHistory
  PROVE  tried_nodes' \subseteq 1..(f + Len(m))
<1>. DEFINE q == f + 1
            n == non_term_size(tree_cur, q)
<1>1. /\ Len(tree_cur) \in Nat /\ Len(m) \in Nat /\ Len(m) >= 1
      /\ q \in 1..Len(tree_cur) /\ trimmed_at.pos = q
      /\ tree_cur \in Seq(Node)
  BY DEF Tree, IsTree
<1>. HIDE DEF q
<1>2. n \in Nat /\ n >= 1
  BY <1>1, SubtreeIsRun
<1>3. Len(trimmed_tree) = Len(tree_cur) - n + Len(m)
  <2>1. trimmed_tree = Replace(tree_cur, q, m)
    BY DEF q
  <2>. QED  BY <1>1, <2>1, ReplaceParts
<1>. HIDE DEF n
<1>4. ASSUME NEW k \in Nat, k >= 1, k > f + Len(m)
      PROVE  Origin(k) = k - Len(m) + n
  <2>1. Len(trimmed_tree) - (Len(tree_cur) - n) = Len(m)
    BY <1>1, <1>2, <1>3
  <2>2. k >= q + Len(m) /\ ~ (k < q)
    BY <1>1, <1>4 DEF q
  <2>. QED  BY <1>1, <2>1, <2>2 DEF Origin, n
<1>5. ASSUME NEW k \in tried_nodes'  PROVE k \in 1..(f + Len(m))
  <2>1. /\ k \in 1..Len(trimmed_tree)
        /\ Origin(k) \in tried_nodes \cup {Generated}
    BY <1>5 DEF MoveHistory
  <2>2. k \in Nat /\ k >= 1
    BY <1>1, <1>2, <1>3, <2>1
  <2>3. Origin(k) \in 0..q
    <3>1. tried_nodes \cup {0} \subseteq 0..(f + 1)
      <4>1. 1..(f + 1) \subseteq 0..(f + 1) /\ 0 \in 0..(f + 1)
        OBVIOUS
      <4>. QED  BY <4>1
    <3>. QED  BY <2>1, <3>1 DEF Generated, q
  <2>4. ASSUME k > f + Len(m)  PROVE FALSE
    <3>1. Origin(k) = k - Len(m) + n
      BY <1>4, <2>2, <2>4
    <3>2. k - Len(m) + n > q
      BY <1>1, <1>2, <2>2, <2>4 DEF q
    <3>3. q \in Nat /\ k - Len(m) + n \in Int
      BY <1>1, <1>2, <2>2 DEF q
    <3>. QED  BY <2>3, <3>1, <3>2, <3>3
  <2>. QED  BY <1>1, <2>2, <2>4
<1>. QED  BY <1>5

(* afl_custom_post_trim(1) in stage 0.                                     *)
LEMMA SubtreeSuccessHolds ==
  ASSUME IInv, PostTrimSuccess, cur_trimming_stage = 0
  PROVE  IInv' /\ stage_cur' >= stage_cur + 1
<1>. DEFINE t == tree_cur
            r == trimmed_tree
            f == finished_subtree_trimming_nodes
            rest == PopFront(NonTerminals(r), f)
            skip == SkippedNodes(r, rest)
<1>1. /\ afl = "run" /\ EndPostTrim /\ MoveHistory
      /\ trim_was_effective' = TRUE /\ tree_cur' = r
      /\ non_terminal_node_list' = PopFront(rest, skip)
      /\ finished_subtree_trimming_nodes' = f + skip
      /\ cur_subtree_trimming_step' =
           SizeSub(total_subtree_trimming_steps, Len(non_terminal_node_list'))
      /\ recursion_edge_list' =
           PopFront(EdgeList(r), finished_recursive_trimming_edges)
      /\ cur_recursive_trimming_step' =
           SizeSub(total_recursive_trimming_steps, Len(recursion_edge_list'))
      /\ finished_recursive_trimming_edges' = finished_recursive_trimming_edges
      /\ stage_cur' = cur_subtree_trimming_step' + cur_recursive_trimming_step'
  BY DEF PostTrimSuccess, EndPostTrim
<1>2. /\ f + 1 <= Len(t) /\ finished_recursive_trimming_edges = 0
      /\ non_terminal_node_list = PopFront(NonTerminals(t), f + 1)
      /\ recursion_edge_list = PopFront(EdgeList(t), 0)
      /\ cur_subtree_trimming_step + 1 + Len(non_terminal_node_list)
           = total_subtree_trimming_steps
      /\ cur_recursive_trimming_step + Len(recursion_edge_list)
           = total_recursive_trimming_steps
      /\ \E m \in MinTrees[t[f + 1].id] : r = Replace(t, f + 1, m)
      /\ trimmed_at = [pos |-> f + 1, src |-> Generated]
      /\ tried_nodes \subseteq 1..(f + 1)
  BY <1>1 DEF IInv, SubtreeRunInv
<1>3. /\ t \in Tree /\ f \in Nat
      /\ cur_subtree_trimming_step \in Nat /\ cur_recursive_trimming_step \in Nat
      /\ total_subtree_trimming_steps \in Nat /\ total_recursive_trimming_steps \in Nat
      /\ stage_cur = cur_subtree_trimming_step + cur_recursive_trimming_step
  BY <1>1 DEF IInv, TypeOK, DriverInv
<1>4. Len(t) \in Nat /\ f + 1 \in 1..Len(t) /\ t[f + 1].id \in Ids
  <2>1. t \in Seq(Node) /\ Len(t) \in Nat
    BY <1>3 DEF Tree
  <2>2. f + 1 \in 1..Len(t)
    BY <1>2, <1>3, <2>1
  <2>. QED  BY <2>1, <2>2, NodeFields
<1>5. PICK m \in MinTrees[t[f + 1].id] : r = Replace(t, f + 1, m)
  BY <1>2
<1>6. m \in Tree /\ m[1].id = t[f + 1].id /\ RecursionEdges(m) = {}
  BY <1>4, MinTreesAssumption
<1>7. /\ r \in Tree
      /\ skip \in Nat /\ skip >= 1 + Len(m)
      /\ PopFront(rest, skip) = PopFront(NonTerminals(r), f + skip)
      /\ PopFront(rest, skip) \in Seq(Nat)
      /\ Len(PopFront(rest, skip)) <= Len(t) - (f + 1)
      /\ recursion_edge_size(r) <= recursion_edge_size(t)
  BY <1>2, <1>3, <1>5, <1>6, SubtreeSuccess
<1>. HIDE DEF rest, skip
<1>8. Len(non_terminal_node_list) = Len(t) - (f + 1)
  <2>1. f + 1 \in Nat /\ f + 1 <= Len(NonTerminals(t)) /\ NonTerminals(t) \in Seq(Nat)
    BY <1>2, <1>3, NonTerminalsFacts
  <2>. QED  BY <1>2, <1>3, <2>1, NonTerminalsFacts, PopFrontFacts
<1>9. Len(non_terminal_node_list') \in Nat
  BY <1>1, <1>7
<1>10. Len(non_terminal_node_list') <= Len(non_terminal_node_list)
  BY <1>1, <1>7, <1>8
<1>11. /\ Len(recursion_edge_list) \in Nat /\ Len(recursion_edge_list') \in Nat
       /\ Len(recursion_edge_list') <= Len(recursion_edge_list)
  <2>1. /\ recursion_edge_size(t) \in Nat
        /\ Len(PopFront(EdgeList(t), 0)) =
             IF 0 <= recursion_edge_size(t) THEN recursion_edge_size(t) - 0 ELSE 0
    BY <1>3, EdgeListPopped
  <2>2. /\ recursion_edge_size(r) \in Nat
        /\ Len(PopFront(EdgeList(r), 0)) =
             IF 0 <= recursion_edge_size(r) THEN recursion_edge_size(r) - 0 ELSE 0
    BY <1>7, EdgeListPopped
  <2>3. recursion_edge_list' = PopFront(EdgeList(r), 0)
    BY <1>1, <1>2
  <2>. QED  BY <1>2, <1>7, <2>1, <2>2, <2>3
<1>12. /\ cur_subtree_trimming_step' \in Nat /\ cur_recursive_trimming_step' \in Nat
       /\ cur_subtree_trimming_step' + Len(non_terminal_node_list')
            = total_subtree_trimming_steps
       /\ cur_recursive_trimming_step' + Len(recursion_edge_list')
            = total_recursive_trimming_steps
  <2>1. /\ Len(non_terminal_node_list') <= total_subtree_trimming_steps
        /\ Len(recursion_edge_list') <= total_recursive_trimming_steps
    BY <1>2, <1>3, <1>4, <1>8, <1>9, <1>10, <1>11
  <2>. QED  BY <1>1, <1>3, <1>9, <1>11, <2>1, SizeSubFacts
<1>13. stage_cur' >= stage_cur + 1
  <2>1. cur_subtree_trimming_step' >= cur_subtree_trimming_step + 1
    BY <1>2, <1>3, <1>4, <1>8, <1>9, <1>10, <1>12, SMTT(30)
  <2>2. cur_recursive_trimming_step' >= cur_recursive_trimming_step
    BY <1>2, <1>3, <1>11, <1>12
  <2>. QED  BY <1>1, <1>3, <1>12, <2>1, <2>2
<1>14. tried_nodes' \subseteq 1..finished_subtree_trimming_nodes'
  <2>1. tried_nodes' \subseteq 1..(f + Len(m))
    BY <1>1, <1>2, <1>3, <1>5, <1>6, SubtreeHistory
  <2>2. Len(m) \in Nat
    BY <1>6 DEF Tree
  <2>. QED  BY <1>1, <1>3, <1>7, <2>1, <2>2
<1>15. tried_nodes' \subseteq Nat /\ tried_edges' \subseteq Nat
  BY <1>1, <1>7, MoveHistoryFacts
<1>16. trim_was_effective' \in BOOLEAN /\ (trim_was_effective' \/ tree_file = tree_cur')
  BY <1>1
<1>17. /\ tree_cur' \in Tree
       /\ finished_subtree_trimming_nodes' \in Nat
       /\ finished_recursive_trimming_edges' = 0
       /\ finished_recursive_trimming_edges' \in Nat
       /\ non_terminal_node_list' =
            PopFront(NonTerminals(tree_cur'), finished_subtree_trimming_nodes')
       /\ recursion_edge_list' =
            PopFront(EdgeList(tree_cur'), finished_recursive_trimming_edges')
  BY <1>1, <1>2, <1>3, <1>7
<1>18. IInv'
  BY <1>1, <1>12, <1>14, <1>15, <1>16, <1>17, EndPostTrimHolds
<1>. QED  BY <1>13, <1>18

(* afl_custom_post_trim(1) in stage 1.                                     *)
LEMMA RecursiveSuccessHolds ==
  ASSUME IInv, PostTrimSuccess, cur_trimming_stage # 0
  PROVE  IInv' /\ stage_cur' >= stage_cur + 1
<1>. DEFINE t == tree_cur
            r == trimmed_tree
            f == finished_subtree_trimming_nodes
            g == finished_recursive_trimming_edges
            rest == PopFront(NonTerminals(r), f)
            skip == SkippedNodes(r, rest)
<1>1. /\ afl = "run" /\ EndPostTrim /\ MoveHistory
      /\ trim_was_effective' = TRUE /\ tree_cur' = r
      /\ non_terminal_node_list' = PopFront(rest, skip)
      /\ finished_subtree_trimming_nodes' = f + skip
      /\ cur_subtree_trimming_step' =
           SizeSub(total_subtree_trimming_steps, Len(non_terminal_node_list'))
      /\ recursion_edge_list' = PopFront(EdgeList(r), g)
      /\ cur_recursive_trimming_step' =
           SizeSub(total_recursive_trimming_steps, Len(recursion_edge_list'))
      /\ finished_recursive_trimming_edges' = g
      /\ stage_cur' = cur_subtree_trimming_step' + cur_recursive_trimming_step'
  BY DEF PostTrimSuccess, EndPostTrim
<1>2. /\ f >= Len(t) /\ g + 1 <= recursion_edge_size(t)
      /\ recursion_edge_list = PopFront(EdgeList(t), g + 1)
      /\ cur_subtree_trimming_step = total_subtree_trimming_steps
      /\ cur_recursive_trimming_step + 1 + Len(recursion_edge_list)
           = total_recursive_trimming_steps
      /\ \E e \in RecursionEdges(t) : r = Replace(t, parent(t, e), SubtreeAt(t, e))
  BY <1>1 DEF IInv, RecursiveRunInv
<1>3. /\ t \in Tree /\ f \in Nat /\ g \in Nat
      /\ cur_subtree_trimming_step \in Nat /\ cur_recursive_trimming_step \in Nat
      /\ total_subtree_trimming_steps \in Nat /\ total_recursive_trimming_steps \in Nat
      /\ stage_cur = cur_subtree_trimming_step + cur_recursive_trimming_step
  BY <1>1 DEF IInv, TypeOK, DriverInv
<1>4. /\ r \in Tree /\ Len(r) <= f
      /\ rest = <<>> /\ skip = 0
      /\ PopFront(rest, 0) = <<>>
      /\ recursion_edge_size(r) < recursion_edge_size(t)
  BY <1>2, <1>3, RecursiveSuccess
<1>5. PopFront(rest, skip) = <<>> /\ f + skip = f
  BY <1>3, <1>4
<1>6. PopFront(NonTerminals(r), f) = <<>>
  BY <1>4
<1>. HIDE DEF rest, skip
<1>7. /\ Len(recursion_edge_list) \in Nat /\ Len(recursion_edge_list') \in Nat
      /\ Len(recursion_edge_list') <= Len(recursion_edge_list)
  <2>1. /\ recursion_edge_size(t) \in Nat
        /\ Len(recursion_edge_list) = recursion_edge_size(t) - (g + 1)
    <3>1. g + 1 \in Nat
      BY <1>3
    <3>. QED  BY <1>2, <1>3, <3>1, EdgeListPopped
  <2>2. /\ recursion_edge_size(r) \in Nat
        /\ Len(recursion_edge_list') =
             IF g <= recursion_edge_size(r) THEN recursion_edge_size(r) - g ELSE 0
    BY <1>1, <1>3, <1>4, EdgeListPopped
  <2>. QED  BY <1>2, <1>3, <1>4, <2>1, <2>2
<1>8. non_terminal_node_list' = <<>> /\ Len(non_terminal_node_list') = 0
  BY <1>1, <1>5
<1>9. /\ cur_subtree_trimming_step' \in Nat /\ cur_recursive_trimming_step' \in Nat
      /\ cur_subtree_trimming_step' + Len(non_terminal_node_list')
           = total_subtree_trimming_steps
      /\ cur_recursive_trimming_step' + Len(recursion_edge_list')
           = total_recursive_trimming_steps
  <2>1. Len(recursion_edge_list') <= total_recursive_trimming_steps
    BY <1>2, <1>3, <1>7
  <2>. QED  BY <1>1, <1>3, <1>7, <1>8, <2>1, SizeSubFacts
<1>10. stage_cur' >= stage_cur + 1
  <2>1. cur_subtree_trimming_step' = cur_subtree_trimming_step
    <3>1. Len(non_terminal_node_list') = 0
      BY <1>8
    <3>2. cur_subtree_trimming_step' + 0 = total_subtree_trimming_steps
      BY <1>9, <3>1
    <3>. QED  BY <1>2, <1>9, <3>2
  <2>2. cur_recursive_trimming_step' >= cur_recursive_trimming_step + 1
    BY <1>2, <1>3, <1>7, <1>9
  <2>. QED  BY <1>1, <1>3, <1>9, <2>1, <2>2
<1>11. tried_nodes' \subseteq Nat /\ tried_edges' \subseteq Nat
  BY <1>1, <1>4, MoveHistoryFacts
<1>12. trim_was_effective' \in BOOLEAN /\ (trim_was_effective' \/ tree_file = tree_cur')
  BY <1>1
<1>13. /\ tree_cur' \in Tree
       /\ finished_subtree_trimming_nodes' = f
       /\ finished_subtree_trimming_nodes' \in Nat
       /\ finished_recursive_trimming_edges' \in Nat
       /\ finished_subtree_trimming_nodes' >= Len(tree_cur')
       /\ non_terminal_node_list' =
            PopFront(NonTerminals(tree_cur'), finished_subtree_trimming_nodes')
       /\ recursion_edge_list' =
            PopFront(EdgeList(tree_cur'), finished_recursive_trimming_edges')
  BY <1>1, <1>3, <1>4, <1>5, <1>6, <1>8
<1>14. IInv'
  BY <1>1, <1>9, <1>11, <1>12, <1>13, EndPostTrimHolds
<1>. QED  BY <1>10, <1>14

-----------------------------------------------------------------------------
(* Every step of the mutator and of AFL keeps the inductive invariant.     *)
LEMMA NextHolds ==
  ASSUME IInv, [Next]_vars
  PROVE  IInv'
<1>1. ASSUME NEW u \in Trees \cup {tree_file, NoTree}, QueueGet(u)  PROVE IInv'
  BY <1>1, QueueGetHolds
<1>2. CASE InitTrimNoTree
  BY <1>2, InitTrimNoTreeHolds
<1>3. CASE InitTrim
  BY <1>3, InitTrimHolds
<1>4. CASE Trim
  <2>1. CASE cur_trimming_stage = 0
    BY <1>4, <2>1, SubtreeTrimHolds
  <2>2. CASE cur_trimming_stage # 0
    <3>1. cur_trimming_stage = 1
      BY <1>4, <2>2 DEF Trim, SubtreeTrim, RecursiveTrim
    <3>. QED  BY <1>4, <3>1, RecursiveTrimHolds
  <2>. QED  BY <2>1, <2>2
<1>5. CASE PostTrimSuccess
  BY <1>5, SubtreeSuccessHolds, RecursiveSuccessHolds
<1>6. CASE PostTrimFailure
  BY <1>6, PostTrimFailureHolds
<1>7. CASE Abort
  BY <1>7, AbortHolds
<1>8. CASE UNCHANGED vars
  BY <1>8 DEF IInv, TypeOK, DriverInv, LoopInv, SubtreeRunInv, RecursiveRunInv,
              EndInv, vars, trees, subtree, recursive, stage, driver, history
<1>. QED  BY <1>1, <1>2, <1>3, <1>4, <1>5, <1>6, <1>7, <1>8 DEF Next, PostTrim

(* The inductive invariant holds in every state of every behaviour.        *)
THEOREM Inductive == Spec => []IInv
<1>1. Init => IInv
  BY InitHolds
<1>2. IInv /\ [Next]_vars => IInv'
  BY NextHolds
<1>. QED  BY <1>1, <1>2, PTL DEF Spec

(* Type correctness: both trimmings turn trees into trees.                 *)
THEOREM TypeCorrect == Spec => []TypeOK
<1>1. IInv => TypeOK
  BY DEF IInv
<1>. QED  BY <1>1, Inductive, PTL

(* afl_custom_trim() never pops from an empty list.                        *)
THEOREM TrimAlwaysHasWork == Spec => []TrimHasWork
<1>1. ASSUME IInv, afl = "loop"
      PROVE  /\ stage_cur < stage_max
             /\ \/ cur_trimming_stage = 0 /\ non_terminal_node_list # <<>>
                \/ cur_trimming_stage = 1 /\ recursion_edge_list # <<>>
  <2>1. /\ tree_cur \in Tree
        /\ finished_subtree_trimming_nodes \in Nat
        /\ finished_recursive_trimming_edges \in Nat
        /\ cur_subtree_trimming_step \in Nat /\ cur_recursive_trimming_step \in Nat
        /\ stage_max = total_subtree_trimming_steps + total_recursive_trimming_steps
        /\ stage_cur = cur_subtree_trimming_step + cur_recursive_trimming_step
    BY <1>1 DEF IInv, TypeOK, DriverInv
  <2>2. /\ non_terminal_node_list =
             PopFront(NonTerminals(tree_cur), finished_subtree_trimming_nodes)
        /\ recursion_edge_list =
             PopFront(EdgeList(tree_cur), finished_recursive_trimming_edges)
        /\ cur_subtree_trimming_step + Len(non_terminal_node_list)
             = total_subtree_trimming_steps
        /\ cur_recursive_trimming_step + Len(recursion_edge_list)
             = total_recursive_trimming_steps
    BY <1>1 DEF IInv, LoopInv
  <2>3. /\ Len(non_terminal_node_list) \in Nat /\ Len(recursion_edge_list) \in Nat
        /\ \/ cur_trimming_stage = 0 /\ Len(non_terminal_node_list) > 0
           \/ cur_trimming_stage = 1 /\ Len(recursion_edge_list) > 0
    <3>1. /\ Len(tree_cur) \in Nat
          /\ Len(non_terminal_node_list) =
               IF finished_subtree_trimming_nodes <= Len(tree_cur)
               THEN Len(tree_cur) - finished_subtree_trimming_nodes ELSE 0
      BY <2>1, <2>2, NonTerminalsFacts, PopFrontFacts
    <3>2. /\ recursion_edge_size(tree_cur) \in Nat
          /\ Len(recursion_edge_list) =
               IF finished_recursive_trimming_edges <= recursion_edge_size(tree_cur)
               THEN recursion_edge_size(tree_cur) - finished_recursive_trimming_edges
               ELSE 0
      BY <2>1, <2>2, EdgeListPopped
    <3>3. \/ /\ cur_trimming_stage = 0
             /\ finished_subtree_trimming_nodes < Len(tree_cur)
          \/ /\ cur_trimming_stage = 1
             /\ finished_recursive_trimming_edges < recursion_edge_size(tree_cur)
      BY <1>1 DEF IInv, LoopInv
    <3>. QED  BY <2>1, <3>1, <3>2, <3>3
  <2>4. stage_cur < stage_max
    BY <2>1, <2>2, <2>3
  <2>. QED  BY <2>3, <2>4
<1>2. IInv => TrimHasWork
  BY <1>1 DEF TrimHasWork
<1>. QED  BY <1>2, Inductive, PTL

(* The reported progress is the total minus what is left in the lists; the *)
(* size_t subtractions never wrap.                                         *)
THEOREM ProgressIsExact == Spec => []ProgressCountsLists
<1>1. IInv => ProgressCountsLists
  BY DEF IInv, LoopInv, EndInv, ProgressCountsLists
<1>. QED  BY <1>1, Inductive, PTL

(* No node of the list was tried before, or generated by a success.        *)
THEOREM NodesTriedOnce == Spec => []NoNodeTriedTwice
<1>1. ASSUME IInv, afl = "loop", NEW k \in DOMAIN non_terminal_node_list
      PROVE  non_terminal_node_list[k] \notin tried_nodes
  <2>. DEFINE f == finished_subtree_trimming_nodes
              l == non_terminal_node_list
  <2>1. tree_cur \in Tree /\ f \in Nat
    BY <1>1 DEF IInv, TypeOK, DriverInv
  <2>2. l = PopFront(NonTerminals(tree_cur), f)
    BY <1>1 DEF IInv, LoopInv
  <2>3. /\ NonTerminals(tree_cur) \in Seq(Nat)
        /\ Len(NonTerminals(tree_cur)) = Len(tree_cur) /\ Len(tree_cur) \in Nat
        /\ \A j \in 1..Len(tree_cur) : NonTerminals(tree_cur)[j] = j
    BY <2>1, NonTerminalsFacts
  <2>4. /\ l \in Seq(Nat)
        /\ Len(l) = IF f <= Len(tree_cur) THEN Len(tree_cur) - f ELSE 0
        /\ \A j \in 1..Len(l) : l[j] = NonTerminals(tree_cur)[f + j]
    BY <2>1, <2>2, <2>3, PopFrontFacts
  <2>5. k \in 1..Len(l) /\ Len(l) \in Nat
    BY <2>4
  <2>6. f < Len(tree_cur) /\ f + k \in 1..Len(tree_cur) /\ f + k > f
    <3>1. f \in Nat /\ Len(tree_cur) \in Nat /\ k \in 1..Len(l) /\ k \in Nat
      BY <2>1, <2>3, <2>5
    <3>2. Len(l) = IF f <= Len(tree_cur) THEN Len(tree_cur) - f ELSE 0
      BY <2>4
    <3>. HIDE DEF f, l
    <3>. QED  BY <3>1, <3>2
  <2>7. l[k] = f + k
    BY <2>3, <2>4, <2>5, <2>6
  <2>8. tried_nodes \subseteq 1..f
    BY <1>1, <2>1, <2>3, <2>6 DEF IInv, LoopInv
  <2>9. f + k \notin 1..f
    BY <2>1, <2>5, <2>6
  <2>. QED  BY <2>7, <2>8, <2>9
<1>2. IInv => NoNodeTriedTwice
  BY <1>1 DEF NoNodeTriedTwice
<1>. QED  BY <1>2, Inductive, PTL

(* When AFL's loop has ended, the tree file holds the trimmed tree.        *)
THEOREM FileUpToDate == Spec => []FileIsCurrent
<1>1. IInv => FileIsCurrent
  BY DEF IInv, EndInv, FileIsCurrent
<1>. QED  BY <1>1, Inductive, PTL

(* While AFL trims, only the call that ends the trimming writes the file.  *)
THEOREM FileWrittenOnce == Spec => FileWrittenAtEnd
<1>1. ASSUME IInv, IInv', [Next]_vars, tree_file' # tree_file, afl = "run"
      PROVE  afl' = "done"
  <2>1. EndPostTrim
    BY <1>1 DEF Next, QueueGet, InitTrimNoTree, InitTrim, Trim, PostTrim,
                PostTrimSuccess, PostTrimFailure, Abort, vars
  <2>2. cur_trimming_stage' > 1 /\ afl' \in {"loop", "done"}
    BY <1>1, <2>1 DEF EndPostTrim
  <2>3. afl' = "loop" => cur_trimming_stage' \in {0, 1}
    BY <1>1 DEF IInv, LoopInv
  <2>. QED  BY <2>2, <2>3
<1>2. IInv /\ IInv' /\ [Next]_vars =>
        [(tree_file' # tree_file /\ afl = "run") => afl' = "done"]_vars
  BY <1>1
<1>. QED  BY <1>2, Inductive, PTL DEF Spec, FileWrittenAtEnd

(* Trimming implements the safety part of AFL's contract: every post_trim  *)
(* reports strictly more progress, never beyond the bound of init_trim.    *)
THEOREM ContractSafety == Spec => Contract!Init /\ [][Contract!Next]_(Contract!vars)
<1>. DEFINE running == afl \in {"loop", "run"}
<1>1. Init => Contract!Init
  BY DEF Init, Contract!Init
<1>2. ASSUME IInv, IInv', [Next]_vars
      PROVE  [Contract!Next]_(Contract!vars)
  <2>1. ASSUME NEW u \in Trees \cup {tree_file, NoTree}, QueueGet(u)
        PROVE  UNCHANGED Contract!vars
    BY <2>1 DEF QueueGet, Contract!vars
  <2>2. CASE InitTrimNoTree
    BY <2>2 DEF InitTrimNoTree, Contract!Next, Contract!Start
  <2>3. CASE InitTrim
    <3>1. afl = "got" /\ afl' = "loop" /\ stage_cur' = 0
      BY <2>3 DEF InitTrim
    <3>2. stage_max' \in Nat /\ stage_cur' \in Nat
      BY <1>2 DEF IInv, TypeOK
    <3>3. /\ stage_max' = total_subtree_trimming_steps' + total_recursive_trimming_steps'
          /\ stage_cur' = cur_subtree_trimming_step' + cur_recursive_trimming_step'
          /\ cur_subtree_trimming_step' + Len(non_terminal_node_list')
               = total_subtree_trimming_steps'
          /\ total_recursive_trimming_steps' \in Nat
          /\ total_subtree_trimming_steps' \in Nat
      BY <1>2, <3>1 DEF IInv, TypeOK, DriverInv, LoopInv
    <3>4. total_subtree_trimming_steps' > 0
      <4>1. total_subtree_trimming_steps' = non_term_size(tree_cur, 1)
        BY <2>3 DEF InitTrim
      <4>2. tree_cur \in Tree
        BY <1>2, <2>3 DEF IInv, TypeOK, InitTrim
      <4>3. tree_cur \in Seq(Node) /\ 1 \in 1..Len(tree_cur)
        BY <4>2 DEF Tree, IsTree
      <4>4. non_term_size(tree_cur, 1) \in Nat /\ non_term_size(tree_cur, 1) >= 1
        BY <4>3, SubtreeIsRun
      <4>. QED  BY <4>1, <4>4
    <3>5. stage_max' > 0
      <4>. DEFINE a == total_subtree_trimming_steps'
                  b == total_recursive_trimming_steps'
      <4>1. a \in Nat /\ a > 0 /\ b \in Nat /\ stage_max' = a + b
        BY <3>3, <3>4
      <4>. HIDE DEF a, b
      <4>. QED  BY <4>1
    <3>. QED  BY <3>1, <3>2, <3>5 DEF Contract!Next, Contract!Start
  <2>4. CASE Trim
    BY <2>4 DEF Trim, Contract!vars
  <2>5. CASE PostTrim
    <3>1. afl = "run" /\ EndPostTrim
      BY <2>5 DEF PostTrim, PostTrimSuccess, PostTrimFailure
    <3>2. /\ stage_max' = stage_max
          /\ afl' = IF stage_cur' < stage_max THEN "loop" ELSE "done"
      BY <3>1 DEF EndPostTrim
    <3>3. stage_cur \in Nat /\ stage_cur' \in Nat /\ stage_max \in Nat
      BY <1>2 DEF IInv, TypeOK
    <3>4. stage_cur' >= stage_cur + 1
      <4>1. CASE PostTrimSuccess
        BY <1>2, <4>1, SubtreeSuccessHolds, RecursiveSuccessHolds
      <4>2. CASE PostTrimFailure
        <5>1. stage_cur' = stage_cur + 1
          BY <1>2, <4>2, PostTrimFailureHolds
        <5>. QED  BY <3>3, <5>1
      <4>. QED  BY <2>5, <4>1, <4>2 DEF PostTrim
    <3>5. stage_cur' <= stage_max
      BY <1>2, <3>2 DEF IInv, DriverInv
    <3>6. stage_cur' \in (stage_cur + 1)..stage_max
      BY <3>3, <3>4, <3>5
    <3>7. (afl' \in {"loop", "run"}) = (stage_cur' < stage_max)
      BY <3>2
    <3>. QED  BY <3>1, <3>2, <3>6, <3>7 DEF Contract!Next, Contract!Advance
  <2>6. CASE Abort
    BY <2>6 DEF Abort, Contract!Next, Contract!GiveUp
  <2>7. CASE UNCHANGED vars
    BY <2>7 DEF vars, driver, Contract!vars
  <2>. QED  BY <1>2, <2>1, <2>2, <2>3, <2>4, <2>5, <2>6, <2>7 DEF Next
<1>. QED  BY <1>1, <1>2, Inductive, PTL DEF Spec

-----------------------------------------------------------------------------
(* The place of edge e in tree_get_recursion_edges(t).                     *)
Rank(t, e) == Cardinality({d \in RecursionEdges(t) : d <= e})

(* What recursive trimming has tried are edges among the finished ones.    *)
(* While the target runs, the edge after them is being tried as well, and  *)
(* the history knows which one it is.                                      *)
EdgeInv ==
  LET E == RecursionEdges(tree_cur)
      g == finished_recursive_trimming_edges IN
  /\ (afl = "got" \/ (afl \in {"loop", "run"} /\ cur_trimming_stage = 0)) =>
       tried_edges = {}
  /\ (afl = "loop" /\ cur_trimming_stage # 0) =>
       \A d \in tried_edges : d \in E /\ Rank(tree_cur, d) <= g
  /\ (afl = "run" /\ cur_trimming_stage # 0) =>
       \E e \in E :
         /\ Rank(tree_cur, e) = g + 1
         /\ trimmed_tree = Replace(tree_cur, parent(tree_cur, e), SubtreeAt(tree_cur, e))
         /\ trimmed_at = [pos |-> parent(tree_cur, e), src |-> e]
         /\ \A d \in tried_edges : d \in E /\ Rank(tree_cur, d) <= g + 1

(* Ranks are numbers, and grow strictly with the position.                 *)
LEMMA RankGrows ==
  ASSUME NEW t \in Tree, NEW a \in RecursionEdges(t), NEW b \in RecursionEdges(t)
  PROVE  /\ Rank(t, a) \in Nat /\ a \in Nat /\ b \in Nat
         /\ a < b => Rank(t, a) < Rank(t, b)
<1>. DEFINE E == RecursionEdges(t)
            Low(x) == {d \in E : d <= x}
<1>1. E \subseteq Nat /\ IsFiniteSet(E)
  <2>1. Len(t) \in Nat
    BY DEF Tree
  <2>. QED  BY <2>1, EdgesFinite
<1>2. /\ IsFiniteSet(Low(a)) /\ Cardinality(Low(a)) \in Nat
      /\ IsFiniteSet(Low(b)) /\ Cardinality(Low(b)) \in Nat
  <2>1. Low(a) \in SUBSET E /\ Low(b) \in SUBSET E
    OBVIOUS
  <2>. HIDE DEF Low, E
  <2>. QED  BY <1>1, <2>1, FS_Subset, FS_CardinalityType
<1>3. ASSUME a < b  PROVE Cardinality(Low(a)) < Cardinality(Low(b))
  <2>1. Low(a) \in SUBSET Low(b) /\ b \in Low(b) /\ b \notin Low(a)
    BY <1>1, <1>3
  <2>. HIDE DEF Low, E
  <2>2. Low(a) # Low(b)
    BY <2>1
  <2>. QED  BY <1>2, <2>1, <2>2, FS_Subset
<1>. QED  BY <1>1, <1>2, <1>3 DEF Rank

(* The element at place k of what is left after n edges has rank n + k.    *)
LEMMA ListedRank ==
  ASSUME NEW t \in Tree, NEW n \in Nat,
         NEW k \in 1..Len(PopFront(EdgeList(t), n))
  PROVE  LET e == PopFront(EdgeList(t), n)[k] IN
         e \in RecursionEdges(t) /\ Rank(t, e) = n + k /\ k \in Nat
<1>. DEFINE E == RecursionEdges(t)
            f(j) == CHOOSE e \in E : Cardinality({d \in E : d <= e}) = j
            l == PopFront(EdgeList(t), n)
<1>1. E \in SUBSET (1..Len(t)) /\ Cardinality(E) \in Nat /\ Len(t) \in Nat
  BY EdgesFinite DEF recursion_edge_size, Tree
<1>2. /\ EdgeList(t) \in Seq(E) /\ Len(EdgeList(t)) = Cardinality(E)
      /\ EdgeList(t) = [j \in 1..Cardinality(E) |-> f(j)]
  BY EdgeListFacts DEF EdgeList, InOrder, recursion_edge_size
<1>3. /\ Len(l) = IF n <= Cardinality(E) THEN Cardinality(E) - n ELSE 0
      /\ l[k] = EdgeList(t)[n + k]
  <2>. HIDE DEF E, f
  <2>1. /\ Len(l) = IF n <= Len(EdgeList(t)) THEN Len(EdgeList(t)) - n ELSE 0
        /\ \A j \in 1..Len(l) : l[j] = EdgeList(t)[n + j]
    BY <1>2, PopFrontFacts
  <2>. QED  BY <1>2, <2>1
<1>4. k \in Nat /\ n + k \in 1..Cardinality(E)
  <2>. HIDE DEF E, l
  <2>1. k \in 1..Len(l)
    BY DEF l
  <2>. QED  BY <1>1, <1>3, <2>1
<1>. HIDE DEF E
<1>5. \E e \in E : Cardinality({d \in E : d <= e}) = n + k
  BY <1>1, <1>4, RankExists
<1>6. f(n + k) \in E /\ Cardinality({d \in E : d <= f(n + k)}) = n + k
  BY <1>5
<1>. HIDE DEF f, l
<1>7. l[k] = f(n + k)
  BY <1>2, <1>3, <1>4
<1>. QED  BY <1>4, <1>6, <1>7 DEF E, l, Rank

(* Recursive trimming never moves an edge to a higher rank.                *)
LEMMA RankShrinks ==
  ASSUME NEW t \in Tree, NEW e \in RecursionEdges(t),
         NEW k \in RecursionEdges(Replace(t, parent(t, e), SubtreeAt(t, e)))
  PROVE  /\ Rank(Replace(t, parent(t, e), SubtreeAt(t, e)), k) \in Nat
         /\ Rank(Replace(t, parent(t, e), SubtreeAt(t, e)), k)
              <= Rank(t, EdgeSource(t, e, k))
<1>. DEFINE r == Replace(t, parent(t, e), SubtreeAt(t, e))
            f(j) == EdgeSource(t, e, j)
            R == {d \in RecursionEdges(r) : d <= k}
            T == {d \in RecursionEdges(t) : d <= f(k)}
            h == [d \in R |-> f(d)]
<1>1. r \in Tree
  BY RecursiveTrimEdges
<1>2. /\ \A j \in RecursionEdges(r) : j \in Nat /\ f(j) \in RecursionEdges(t) \ {e}
      /\ \A i, j \in RecursionEdges(r) : i < j => f(i) < f(j)
  BY EdgesKeepOrder
<1>3. RecursionEdges(t) \subseteq Nat /\ IsFiniteSet(RecursionEdges(t))
  <2>1. Len(t) \in Nat
    BY DEF Tree
  <2>. QED  BY <2>1, EdgesFinite
<1>4. k \in RecursionEdges(r)
  OBVIOUS
<1>. HIDE DEF r, f
<1>5. ASSUME NEW d \in R  PROVE d \in RecursionEdges(r) /\ d \in Nat /\ h[d] = f(d) /\ f(d) \in T
  <2>1. d \in RecursionEdges(r) /\ d <= k
    OBVIOUS
  <2>2. d \in Nat /\ k \in Nat /\ f(d) \in Nat /\ f(k) \in Nat /\ f(d) \in RecursionEdges(t)
    BY <1>2, <1>3, <1>4, <2>1
  <2>3. f(d) <= f(k)
    <3>1. CASE d = k
      BY <2>2, <3>1
    <3>2. CASE d < k
      <4>1. f(d) < f(k)
        BY <1>2, <1>4, <2>1, <3>2
      <4>. QED  BY <2>2, <4>1
    <3>. QED  BY <2>1, <2>2, <3>1, <3>2
  <2>. QED  BY <2>1, <2>2, <2>3
<1>6. IsFiniteSet(T)
  BY <1>3, FS_Subset
<1>7. h \in Injection(R, T)
  <2>1. h \in [R -> T]
    <3>. HIDE DEF R, T
    <3>. QED  BY <1>5
  <2>2. ASSUME NEW a \in R, NEW b \in R, h[a] = h[b]  PROVE a = b
    <3>1. /\ a \in RecursionEdges(r) /\ a \in Nat /\ h[a] = f(a)
          /\ b \in RecursionEdges(r) /\ b \in Nat /\ h[b] = f(b)
      BY <1>5
    <3>2. f(a) \in Nat /\ f(b) \in Nat
      BY <1>2, <1>3, <3>1
    <3>3. (a < b => f(a) < f(b)) /\ (b < a => f(b) < f(a))
      BY <1>2, <3>1
    <3>4. f(a) = f(b)
      BY <2>2, <3>1
    <3>5. ~ (f(a) < f(b)) /\ ~ (f(b) < f(a))
      BY <3>2, <3>4
    <3>6. ~ (a < b) /\ ~ (b < a) /\ a \in Nat /\ b \in Nat
      BY <3>1, <3>3, <3>5
    <3>. QED  BY ONLY <3>6
  <2>. HIDE DEF h, R, T
  <2>. QED  BY <2>1, <2>2 DEF Injection, IsInjective
<1>. HIDE DEF h, R, T
<1>8. Cardinality(R) <= Cardinality(T)
  BY <1>6, <1>7, FS_Injection
<1>9. Rank(r, k) = Cardinality(R) /\ Rank(t, f(k)) = Cardinality(T)
  BY DEF Rank, R, T
<1>10. Rank(r, k) \in Nat
  BY <1>1, <1>4, RankGrows
<1>. QED  BY <1>8, <1>9, <1>10 DEF r, f

(* A success in stage 1: what MoveHistory keeps as tried has a rank among  *)
(* the finished ones, although the edge just tried is gone.                *)
LEMMA RecursiveHistory ==
  ASSUME NEW g \in Nat, tree_cur \in Tree, NEW e \in RecursionEdges(tree_cur),
         Rank(tree_cur, e) = g + 1,
         trimmed_tree = Replace(tree_cur, parent(tree_cur, e), SubtreeAt(tree_cur, e)),
         trimmed_at = [pos |-> parent(tree_cur, e), src |-> e],
         \A d \in tried_edges : d \in RecursionEdges(tree_cur) /\ Rank(tree_cur, d) <= g + 1,
         MoveHistory,
         NEW k \in tried_edges'
  PROVE  k \in RecursionEdges(trimmed_tree) /\ Rank(trimmed_tree, k) <= g
<1>. DEFINE t == tree_cur
            r == trimmed_tree
            q == parent(t, e)
            n == non_term_size(t, q)
            l == non_term_size(t, e)
            f == EdgeSource(t, e, k)
            o == IF k = trimmed_at.pos THEN k ELSE Origin(k)
<1>1. k \in RecursionEdges(r) /\ o \in tried_edges
  BY DEF MoveHistory
<1>2. /\ e \in 1..Len(t) /\ e \in Nat /\ q \in Nat /\ q >= 1 /\ q < e /\ q \in 1..Len(t)
      /\ e + l <= q + n
  BY EdgeParent
<1>3. t \in Seq(Node) /\ Len(t) \in Nat
  BY DEF Tree
<1>4. n \in Nat /\ l \in Nat /\ l >= 1 /\ q + n - 1 <= Len(t)
  <2>. HIDE DEF q
  <2>. QED  BY <1>2, <1>3, SubtreeIsRun
<1>5. Len(r) = Len(t) - n + l
  <2>1. SubtreeAt(t, e) \in Tree /\ Len(SubtreeAt(t, e)) = l
    BY <1>2, SubtreeAtParts
  <2>2. Len(Replace(t, q, SubtreeAt(t, e))) = Len(t) - n + Len(SubtreeAt(t, e))
    <3>. HIDE DEF q
    <3>. QED  BY <1>2, <2>1, ReplaceParts
  <2>. QED  BY <2>1, <2>2
<1>6. k \in Nat /\ f \in RecursionEdges(t) \ {e}
  BY <1>1, EdgesKeepOrder
<1>7. o = f
  <2>1. trimmed_at.pos = q /\ trimmed_at.src = e /\ e # Generated
    BY <1>2 DEF Generated
  <2>2. Len(r) - (Len(t) - n) = l
    <3>. HIDE DEF n, l, t, r
    <3>. QED  BY <1>3, <1>4, <1>5
  <2>3. Origin(k) = CASE k < q      -> k
                      [] k >= q + l -> k - l + n
                      [] OTHER      -> e + (k - q)
    <3>. HIDE DEF l
    <3>. QED  BY <2>1, <2>2 DEF Origin
  <2>4. f = IF k <= q THEN k ELSE IF k < q + l THEN e + k - q ELSE k - l + n
    BY DEF EdgeSource
  <2>. HIDE DEF n, l, f, q
  <2>. QED  BY <1>2, <1>4, <1>6, <2>1, <2>3, <2>4
<1>8. Rank(t, f) <= g + 1
  <2>. HIDE DEF f, o
  <2>. QED  BY <1>1, <1>7
<1>9. Rank(t, f) # g + 1 /\ Rank(t, f) \in Nat
  <2>. HIDE DEF f
  <2>1. /\ Rank(t, f) \in Nat /\ Rank(t, e) \in Nat /\ f \in Nat /\ e \in Nat
        /\ f < e => Rank(t, f) < Rank(t, e)
        /\ e < f => Rank(t, e) < Rank(t, f)
    BY <1>6, RankGrows
  <2>. QED  BY <1>6, <2>1
<1>10. Rank(r, k) \in Nat /\ Rank(r, k) <= Rank(t, f)
  BY <1>1, RankShrinks
<1>. HIDE DEF f
<1>. QED  BY <1>1, <1>8, <1>9, <1>10

(* Every step keeps the history of the edges within the finished ones.     *)
LEMMA EdgeStep ==
  ASSUME IInv, EdgeInv, [Next]_vars
  PROVE  EdgeInv'
<1>. DEFINE g == finished_recursive_trimming_edges
<1>1. ASSUME NEW u \in Trees \cup {tree_file, NoTree}, QueueGet(u)  PROVE EdgeInv'
  BY <1>1 DEF QueueGet, EdgeInv
<1>2. CASE InitTrimNoTree
  BY <1>2 DEF InitTrimNoTree, EdgeInv
<1>3. CASE InitTrim
  BY <1>3 DEF InitTrim, EdgeInv, history
<1>4. CASE Trim
  <2>1. /\ afl = "loop" /\ afl' = "run" /\ tree_cur' = tree_cur /\ g' = g
        /\ cur_trimming_stage' = cur_trimming_stage
        /\ SubtreeTrim \/ RecursiveTrim
    BY <1>4 DEF Trim, recursive, stage
  <2>2. CASE SubtreeTrim
    BY <2>1, <2>2 DEF SubtreeTrim, EdgeInv
  <2>3. CASE RecursiveTrim
    <3>. DEFINE e == Head(recursion_edge_list)
    <3>1. /\ cur_trimming_stage = 1 /\ recursion_edge_list # <<>>
          /\ trimmed_tree' = Replace(tree_cur, parent(tree_cur, e), SubtreeAt(tree_cur, e))
          /\ trimmed_at' = [pos |-> parent(tree_cur, e), src |-> e]
          /\ tried_edges' = tried_edges \cup {e}
      BY <2>3 DEF RecursiveTrim
    <3>2. tree_cur \in Tree /\ g \in Nat /\ recursion_edge_list \in Seq(Nat)
      BY <2>1 DEF IInv, TypeOK, DriverInv
    <3>3. recursion_edge_list = PopFront(EdgeList(tree_cur), g)
      BY <2>1 DEF IInv, LoopInv
    <3>4. 1 \in 1..Len(recursion_edge_list) /\ e = recursion_edge_list[1]
      BY <3>1, <3>2
    <3>5. e \in RecursionEdges(tree_cur) /\ Rank(tree_cur, e) = g + 1
      <4>. HIDE DEF e
      <4>. QED  BY <3>2, <3>3, <3>4, ListedRank
    <3>6. \A d \in tried_edges : d \in RecursionEdges(tree_cur) /\ Rank(tree_cur, d) <= g
      BY <2>1, <3>1 DEF EdgeInv
    <3>. HIDE DEF e
    <3>7. \A d \in tried_edges' :
            d \in RecursionEdges(tree_cur) /\ Rank(tree_cur, d) <= g + 1
      <4>1. \A d \in tried_edges : Rank(tree_cur, d) \in Nat
        BY <3>2, <3>6, RankGrows
      <4>. QED  BY <3>1, <3>2, <3>5, <3>6, <4>1
    <3>. QED  BY <2>1, <3>1, <3>5, <3>7 DEF EdgeInv
  <2>. QED  BY <2>1, <2>2, <2>3
<1>5. CASE PostTrimSuccess
  <2>1. /\ afl = "run" /\ tree_cur' = trimmed_tree /\ g' = g /\ MoveHistory /\ EndPostTrim
    BY <1>5 DEF PostTrimSuccess
  <2>2. afl' \in {"loop", "done"}
    BY <2>1 DEF EndPostTrim
  <2>3. CASE cur_trimming_stage = 0
    <3>1. tried_edges = {}
      BY <2>1, <2>3 DEF EdgeInv
    <3>2. tried_edges' = {}
      BY <2>1, <3>1 DEF MoveHistory
    <3>. QED  BY <2>2, <3>2 DEF EdgeInv
  <2>4. CASE cur_trimming_stage # 0
    <3>1. tree_cur \in Tree /\ g \in Nat /\ cur_trimming_stage = 1
      BY <2>1, <2>4 DEF IInv, TypeOK, DriverInv, RecursiveRunInv
    <3>2. PICK e \in RecursionEdges(tree_cur) :
            /\ Rank(tree_cur, e) = g + 1
            /\ trimmed_tree = Replace(tree_cur, parent(tree_cur, e), SubtreeAt(tree_cur, e))
            /\ trimmed_at = [pos |-> parent(tree_cur, e), src |-> e]
            /\ \A d \in tried_edges :
                 d \in RecursionEdges(tree_cur) /\ Rank(tree_cur, d) <= g + 1
      BY <2>1, <2>4 DEF EdgeInv
    <3>3. \A k \in tried_edges' :
            k \in RecursionEdges(tree_cur') /\ Rank(tree_cur', k) <= g
      BY <2>1, <3>1, <3>2, RecursiveHistory
    <3>4. cur_trimming_stage' # 0
      BY <2>1, <3>1 DEF EndPostTrim, NextStage
    <3>. QED  BY <2>1, <2>2, <3>3, <3>4 DEF EdgeInv
  <2>. QED  BY <2>3, <2>4
<1>6. CASE PostTrimFailure
  <2>1. /\ afl = "run" /\ tree_cur' = tree_cur /\ tried_edges' = tried_edges /\ EndPostTrim
        /\ g' = g + One(cur_trimming_stage = 1)
    BY <1>6 DEF PostTrimFailure
  <2>2. afl' \in {"loop", "done"}
    BY <2>1 DEF EndPostTrim
  <2>3. CASE cur_trimming_stage = 0
    <3>1. tried_edges' = {}
      BY <2>1, <2>3 DEF EdgeInv
    <3>. QED  BY <2>2, <3>1 DEF EdgeInv
  <2>4. CASE cur_trimming_stage # 0
    <3>1. cur_trimming_stage = 1 /\ g' = g + 1
      BY <2>1, <2>4 DEF IInv, RecursiveRunInv, One
    <3>2. \A d \in tried_edges :
            d \in RecursionEdges(tree_cur) /\ Rank(tree_cur, d) <= g + 1
      BY <2>1, <2>4 DEF EdgeInv
    <3>3. cur_trimming_stage' # 0
      BY <2>1, <3>1 DEF EndPostTrim, NextStage
    <3>. QED  BY <2>1, <2>2, <3>1, <3>2, <3>3 DEF EdgeInv
  <2>. QED  BY <2>3, <2>4
<1>7. CASE Abort
  BY <1>7 DEF Abort, EdgeInv
<1>8. CASE UNCHANGED vars
  BY <1>8 DEF EdgeInv, vars, trees, recursive, stage, driver, history
<1>. QED  BY <1>1, <1>2, <1>3, <1>4, <1>5, <1>6, <1>7, <1>8 DEF Next, PostTrim

(* No edge that recursive trimming has tried is left in the list, although *)
(* a success renumbers the edges and drops some of the finished ones.      *)
THEOREM EdgesTriedOnce == Spec => []NoEdgeTriedTwice
<1>1. Init => EdgeInv
  BY DEF Init, EdgeInv
<1>2. IInv /\ EdgeInv /\ [Next]_vars => EdgeInv'
  BY EdgeStep
<1>3. ASSUME IInv, EdgeInv, afl = "loop", NEW k \in DOMAIN recursion_edge_list
      PROVE  recursion_edge_list[k] \notin tried_edges
  <2>. DEFINE g == finished_recursive_trimming_edges
              l == recursion_edge_list
  <2>1. tree_cur \in Tree /\ g \in Nat /\ l \in Seq(Nat)
    BY <1>3 DEF IInv, TypeOK, DriverInv
  <2>2. l = PopFront(EdgeList(tree_cur), g)
    BY <1>3 DEF IInv, LoopInv
  <2>3. k \in 1..Len(l)
    BY <2>1
  <2>4. k >= 1 /\ k \in Nat /\ Rank(tree_cur, l[k]) = g + k
    <3>1. k \in Nat /\ Rank(tree_cur, l[k]) = g + k
      BY <2>1, <2>2, <2>3, ListedRank
    <3>2. Len(l) \in Nat
      BY <2>1
    <3>. QED  BY <2>3, <3>1, <3>2
  <2>5. CASE cur_trimming_stage = 0
    BY <1>3, <2>5 DEF EdgeInv
  <2>6. CASE cur_trimming_stage # 0
    <3>1. \A d \in tried_edges : Rank(tree_cur, d) <= g
      BY <1>3, <2>6 DEF EdgeInv
    <3>2. ~ (g + k <= g)
      BY <2>1, <2>4
    <3>. QED  BY <2>4, <3>1, <3>2
  <2>. QED  BY <2>5, <2>6
<1>4. IInv /\ EdgeInv => NoEdgeTriedTwice
  BY <1>3 DEF NoEdgeTriedTwice
<1>. QED  BY <1>1, <1>2, <1>4, Inductive, PTL DEF Spec
=============================================================================
