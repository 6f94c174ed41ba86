----------------------------- MODULE GrammarDef -----------------------------
(***************************************************************************)
(* Grammars as the JSON files of Grammar-Mutator/grammars give them, and   *)
(* what can be said of one without running any of the generator's code.    *)
(* A grammar maps each key to its list of rules, a rule is a list of       *)
(* tokens, and a token is a key or a terminal string.                      *)
(***************************************************************************)
EXTENDS Integers, Sequences, FiniteSets, SequencesExt

CONSTANTS
    GrammarKeys,  \* the keys in the order of the file: self.grammar_keys
    TermLens      \* length of each terminal

Keys == Range(GrammarKeys)

Tokens == Keys \cup DOMAIN TermLens

ASSUME KeysAssumption ==
    /\ GrammarKeys \in Seq(Keys) \ {<<>>}
    /\ IsInjective(GrammarKeys)
    /\ Keys \cap DOMAIN TermLens = {}
    /\ \A x \in DOMAIN TermLens : TermLens[x] \in Nat

Grammar == [Keys -> Seq(Seq(Tokens))]

Plus(S, T) == {a + b : a \in S, b \in T}

(* sums of one element of each set of a sequence *)
Sums(sets) ==
    LET sum[i \in 0..Len(sets)] == IF i = 0 THEN {0} ELSE Plus(sum[i - 1], sets[i])
    IN  sum[Len(sets)]

(* lengths of the texts of a token and of a rule, if those of the keys are lens *)
TokenLengths(token, lens) ==
    IF token \in Keys THEN lens[token] ELSE {TermLens[token]}

RuleLengths(rule, lens) == Sums([i \in DOMAIN rule |-> TokenLengths(rule[i], lens)])

(* lengths of the texts of the keys, if those of the subnodes are lens *)
Derived(g, lens) ==
    [k \in Keys |-> UNION {RuleLengths(r, lens) : r \in Range(g[k])}]

(* lengths of the texts that trees of depth at most Cardinality(Keys) have: *)
(* a shortest tree need not be deeper, since a key below itself could be   *)
(* put in the place of the upper one                                       *)
Lengths(g) ==
    LET upto[d \in 0..Cardinality(Keys)] ==
            IF d = 0 THEN [k \in Keys |-> {}] ELSE Derived(g, upto[d - 1])
    IN  upto[Cardinality(Keys)]

Productive(g) == {k \in Keys : Lengths(g)[k] # {}}

MinLen(g) == [k \in Productive(g) |-> Min(Lengths(g)[k])]

(* keys that occur in a rule *)
KeysOf(rule) == Range(rule) \cap Keys

(* keys that can be leftmost in what a rule of k derives *)
Leftmost(g, k) ==
    {j \in Keys : \E r \in Range(g[k]) : \E i \in DOMAIN r :
        /\ r[i] = j
        /\ \A h \in 1..(i - 1) : 0 \in TokenLengths(r[h], Lengths(g))}

Further(edges, S) == S \cup UNION {edges[j] : j \in S}

(* what a key reaches over one or more edges *)
Reaches(edges, k) ==
    LET upto[n \in 1..Cardinality(Keys)] ==
            IF n = 1 THEN edges[k] ELSE Further(edges, upto[n - 1])
    IN  upto[Cardinality(Keys)]

(* the keys that the cheapest rules of each key turn to *)
CheapKeys(g) ==
    [k \in Keys |-> UNION {KeysOf(r) :
        r \in {q \in Range(g[k]) : MinLen(g)[k] \in RuleLengths(q, Lengths(g))}}]

(* The trees of the cheapest rules can be listed: every key has some, and  *)
(* none reaches itself by cheapest rules.                                  *)
HasPool(g) ==
    /\ Productive(g) = Keys
    /\ \A k \in Keys : k \notin Reaches(CheapKeys(g), k)

(* some key derives a string that starts with itself, possibly behind      *)
(* tokens that derive nothing                                              *)
LeftRecursive(g) ==
    \E k \in Keys : k \in Reaches([j \in Keys |-> Leftmost(g, j)], k)
=============================================================================
