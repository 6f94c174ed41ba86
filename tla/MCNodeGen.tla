----------------------------- MODULE MCNodeGen -----------------------------
(* All grammars of two keys with two rules of at most two tokens that have *)
(* a pool, left recursive ones too, with their rules ordered by cost.      *)
EXTENDS NodeGen

CONSTANTS A, B, X, MaxTokens

MCKeys == <<A, B>>

MCTermLens == [t \in {X} |-> 1]

MCRules == BoundedSeq({A, B, X}, MaxTokens)

Ordered(g) ==
    \A k \in {A, B} : \A i, j \in DOMAIN g[k] :
        i < j => Min(RuleLengths(g[k][i], Lengths(g))) <=
                 Min(RuleLengths(g[k][j], Lengths(g)))

MCGrammars ==
    {g \in [{A, B} -> {s \in BoundedSeq(MCRules, 2) : Len(s) > 0}] :
        /\ HasPool(g)
        /\ B \in UNION {KeysOf(r) : r \in Range(g[A])}
        /\ \A k \in {A, B} : \A r \in Range(g[k]) : 
            \E n \in RuleLengths(r, Lengths(g)) : n <= MaxTreeLen
        /\ Ordered(g)}
=============================================================================
