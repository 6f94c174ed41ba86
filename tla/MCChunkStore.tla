---------------------------- MODULE MCChunkStore ----------------------------
(***************************************************************************)
(* The chunk store over one non-terminal A with the labels A1 and A2 (two  *)
(* of its rules) and the terminal X, with trees of two kinds: derivation   *)
(* trees of at most MaxNodes nodes, in which A1 has two subnodes and A2    *)
(* has one, and the trees of at most MaxDamaged nodes that the parser's    *)
(* error recovery may leave, in which A1 has any number of subnodes and A2 *)
(* none.                                                                   *)
(***************************************************************************)
EXTENDS ChunkStore

CONSTANTS A, A1, A2, X, MaxNodes, MaxDamaged

MCLabels == {A1, A2, X}

MCIdOf == [l \in MCLabels |-> IF l = X THEN Terminal ELSE A]

Shapes ==
  {t \in BoundedSeq([id : MCLabels, depth : 0..3], MaxNodes) :
     T!IsTree(t) /\ t[1].id # X}

DerivationTrees ==
  {t \in Shapes : \A i \in DOMAIN t :
     Arity(t, i) = CASE t[i].id = A1 -> 2 [] t[i].id = A2 -> 1 [] OTHER -> 0}

ParsedTrees ==
  {t \in Shapes : /\ Len(t) <= MaxDamaged
                  /\ \A i \in DOMAIN t : t[i].id # A1 => Arity(t, i) = 0}

MCTrees == DerivationTrees \cup ParsedTrees
=============================================================================
