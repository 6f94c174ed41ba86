----------------------------- MODULE MCTrimming ------------------------------
(***************************************************************************)
(* Trimming over a small recursive grammar with two non-terminals:         *)
(*     A -> "xxxx" | B | A A | A B          B -> "b" | "[" A "]"           *)
(* The cheapest A is an A over a B: two nodes, more than the single node   *)
(* of the rule "xxxx" that it may replace.  Trees: all trees of A with at  *)
(* most MaxNodes non-terminal nodes.                                       *)
(***************************************************************************)
EXTENDS Trimming

CONSTANTS A, B, MaxNodes

MCIds == {A, B}

Leaf(x) == <<[id |-> x, depth |-> 0]>>

Below(t) == [k \in DOMAIN t |-> [t[k] EXCEPT !.depth = @ + 1]]

MCTrees ==
  LET Gen[n \in 0..MaxNodes] ==
        IF n = 0 THEN [a |-> {}, b |-> {}] ELSE
        IF n = 1 THEN [a |-> {Leaf(A)}, b |-> {Leaf(B)}] ELSE
        [b |-> {Leaf(B) \o Below(t) : t \in Gen[n-1].a},
         a |-> {Leaf(A) \o Below(t) : t \in Gen[n-1].b} \cup
               UNION {{Leaf(A) \o Below(l) \o Below(r) :
                         l \in Gen[k].a, r \in Gen[n-1-k].a \cup Gen[n-1-k].b} :
                      k \in 1..(n-2)}]
  IN  UNION {Gen[n].a : n \in 1..MaxNodes}

MCMinTrees ==
  [x \in MCIds |-> IF x = A THEN {Leaf(A) \o Below(Leaf(B))} ELSE {Leaf(B)}]
=============================================================================
