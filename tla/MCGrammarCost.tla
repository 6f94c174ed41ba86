--------------------------- MODULE MCGrammarCost ---------------------------
(* All grammars of two keys with one or two rules of at most two tokens. *)
EXTENDS GrammarCost

CONSTANTS A, B, X, MaxRules, MaxTokens

MCKeys == <<A, B>>

MCTermLens == [t \in {X} |-> 1]

MCRules == BoundedSeq({A, B, X}, MaxTokens)

MCGrammars == [{A, B} -> BoundedSeq(MCRules, MaxRules) \ {<<>>}]
=============================================================================
