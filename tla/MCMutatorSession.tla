-------------------------- MODULE MCMutatorSession --------------------------
(***************************************************************************)
(* Trees derive the texts a and bb.  Other texts are "b", a cut bb that    *)
(* does not parse, and "xa", which the parser repairs: its tree derives    *)
(* another text.                                                           *)
(***************************************************************************)
EXTENDS MutatorSession, TLC

CONSTANT MaxSize

(* no function depends on what an address is *)
MCSymmetry == Permutations(Addr)

MCDerivable == {"a", "bb"}

MCTexts == MCDerivable \cup {"b", "xa"}

MCParse ==
    [x \in MCTexts |-> CASE x \in MCDerivable -> x
                         [] x = "xa" -> "a"
                         [] OTHER -> NoTree]

MCCut == [x \in MCTexts |-> IF x = "bb" /\ MaxSize < 2 THEN "b" ELSE x]
=============================================================================
