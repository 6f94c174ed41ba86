------------------------------ MODULE MCFuzzing ------------------------------
(***************************************************************************)
(* Fuzzing over a grammar with an A of three rules and a B of one rule:    *)
(* all node lists of at most MaxNodes nodes, with known and unknown rules, *)
(* without recursion edges, with edges of which some grow too far, and     *)
(* with one edge that always grows too far.                                *)
(***************************************************************************)
EXTENDS Fuzzing, SequencesExt

CONSTANTS A, B, MaxNodes, MaxSteps

MCIds == {A, B}

MCNumRules == [x \in MCIds |-> IF x = A THEN 3 ELSE 1]

MCNodes == {[id |-> A, rule |-> r] : r \in {0, 1, 2, UnknownRule}} \cup
           {[id |-> B, rule |-> r] : r \in {0, UnknownRule}}

MCTrees == [nodes : BoundedSeq(MCNodes, MaxNodes) \ {<<>>},
            parts : {{}, {1, 5}, {5}}]

MCConfigs == [random : 0..MaxSteps, recursive : {0, MaxSteps}, splicing : 0..1]
=============================================================================
