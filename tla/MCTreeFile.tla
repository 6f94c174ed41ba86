----------------------------- MODULE MCTreeFile -----------------------------
(***************************************************************************)
(* Trees of depth at most 2 over one non-terminal with one or two          *)
(* subnodes and terminals with values of up to MaxVal bytes, the bytes     *)
(* being such that a value can look like a header.                         *)
(***************************************************************************)
EXTENDS TreeFile

CONSTANTS Bytes, MaxVal

Node(id, subs, val) == [id |-> id, rule |-> 0, subs |-> subs, val |-> val]

Leaves == {<<Node(0, 0, v)>> : v \in BoundedSeq(Bytes, MaxVal)}

Parents(trees) ==
    {<<Node(1, 1, <<>>)>> \o t : t \in trees} \cup
    {<<Node(1, 2, <<>>)>> \o t \o u : t, u \in trees}

MCTrees == Parents(Leaves \cup Parents({l \in Leaves : Len(l[1].val) = 1}))
=============================================================================
