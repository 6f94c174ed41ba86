---------------------------- MODULE GrammarCost ----------------------------
(***************************************************************************)
(* Build time: the costs of keys and rules, by which the C tables and the  *)
(* ANTLR grammar are ordered, and the grammar of the cheapest rules, from  *)
(* which the pool of minimal trees is made (LimitFuzzer in                 *)
(* Grammar-Mutator/grammars/f1_common.py, PooledFuzzer in f1_c_gen.py).    *)
(* One step handles one rule, so that the costs that a later rule of the   *)
(* same pass sees are those already lowered in this pass.                  *)
(***************************************************************************)
EXTENDS GrammarDef

CONSTANTS Grammars, Inf

ASSUME CostAssumption ==
    /\ Grammars \subseteq Grammar
    /\ Inf \notin Nat

VARIABLES
    grammar,
    key_cost,   \* the best cost so far, of the keys that have one
    cost,       \* key -> list of [cost, rule], of the last complete pass
    new_cost,   \* _cost, of this pass
    at,         \* the next rule of this pass: [key, rule] as positions
    c_grammar,  \* the cheapest rules
    phase

vars == <<grammar, key_cost, cost, new_cost, at, c_grammar, phase>>

-----------------------------------------------------------------------------

(* mutant: a key without cost counts as nothing *)
SymbolCostZero(symbol) ==
    IF symbol \notin Keys THEN TermLens[symbol]
    ELSE IF symbol \in DOMAIN key_cost THEN key_cost[symbol] ELSE 0

symbol_cost(symbol) ==
    IF symbol \notin Keys THEN TermLens[symbol]
    ELSE IF symbol \in DOMAIN key_cost THEN key_cost[symbol] ELSE Inf

expansion_cost(rule) ==
    IF \E i \in DOMAIN rule : symbol_cost(rule[i]) = Inf THEN Inf
    ELSE LET sum[i \in 0..Len(rule)] ==
                 IF i = 0 THEN 0 ELSE sum[i - 1] + symbol_cost(rule[i])
         IN  sum[Len(rule)]

(* the lists of costs at the start of a pass *)
NoCosts == [k \in Keys |-> <<>>]

Init ==
    /\ grammar \in Grammars
    /\ key_cost = [k \in {} |-> 0]
    /\ cost = [k \in {} |-> <<>>]
    /\ new_cost = NoCosts
    /\ at = [key |-> 1, rule |-> 1]
    /\ c_grammar = NoCosts
    /\ phase = "pass"

(* the key of the rule at hand *)
Key == GrammarKeys[at.key]

(* key_cost after a rule of this cost *)
Lowered(c) ==
    IF Key \in DOMAIN key_cost /\ key_cost[Key] <= c THEN key_cost
    ELSE [k \in DOMAIN key_cost \cup {Key} |-> IF k = Key THEN c ELSE key_cost[k]]

(* one rule of compute_cost()'s inner loops *)
RuleStep ==
    /\ phase = "pass"
    /\ at.key <= Len(GrammarKeys)
    /\ at.rule <= Len(grammar[Key])
    /\ LET rule == grammar[Key][at.rule]
           c == expansion_cost(rule)
       IN  IF c = Inf THEN UNCHANGED <<key_cost, new_cost>>
           ELSE /\ key_cost' = Lowered(c)
                /\ new_cost' = [new_cost EXCEPT
                                    ![Key] = Append(@, [cost |-> c, rule |-> rule])]
    /\ at' = [at EXCEPT !.rule = @ + 1]
    /\ UNCHANGED <<grammar, cost, c_grammar, phase>>

NextKey ==
    /\ phase = "pass"
    /\ at.key <= Len(GrammarKeys)
    /\ at.rule > Len(grammar[Key])
    /\ at' = [key |-> at.key + 1, rule |-> 1]
    /\ UNCHANGED <<grammar, key_cost, cost, new_cost, c_grammar, phase>>

(* mutant: the passes end when every key has a cost *)
SettledOnceKnown == DOMAIN key_cost = Keys \/ new_cost = cost

(* mutant: the lists are compared by identity *)
SettledNever == FALSE

(* nothing changed in this pass *)
Settled == new_cost = cost

(* the end of a pass: go on as long as something changed *)
EndPass ==
    /\ phase = "pass"
    /\ at.key > Len(GrammarKeys)
    /\ IF Settled
       THEN phase' = "sort" /\ UNCHANGED <<cost, new_cost, at>>
       ELSE /\ cost' = new_cost
            /\ new_cost' = NoCosts
            /\ at' = [key |-> 1, rule |-> 1]
            /\ UNCHANGED phase
    /\ UNCHANGED <<grammar, key_cost, c_grammar>>

(* mutant: the list is left as it is *)
NotSorted(s) == {s}

(* the ascending orders of a list of costs; the code decides between equal *)
(* costs by the text of the rules                                          *)
SortedBy(s) ==
    {t \in {[i \in DOMAIN s |-> s[p[i]]] : p \in Bijection(DOMAIN s, DOMAIN s)} :
        \A i, j \in DOMAIN t : i < j => t[i].cost <= t[j].cost}

Sort ==
    /\ phase = "sort"
    /\ cost' \in {c \in [Keys -> UNION {SortedBy(cost[k]) : k \in Keys}] :
                    \A k \in Keys : c[k] \in SortedBy(cost[k])}
    /\ phase' = "cheap"
    /\ UNCHANGED <<grammar, key_cost, new_cost, at, c_grammar>>

Rules(costs) == [i \in DOMAIN costs |-> costs[i].rule]

(* the rules that cost no more than the first *)
Cheapest(costs) ==
    LET upto[i \in 0..Len(costs)] ==
            IF i = 0 THEN <<>>
            ELSE IF costs[i].cost = costs[1].cost THEN Append(upto[i - 1], costs[i].rule)
            ELSE upto[i - 1]
    IN  upto[Len(costs)]

(* cheap_grammar(), and the grammar reordered by cost.  A key without any  *)
(* costs makes crules[0] fail.                                             *)
Cheap ==
    /\ phase = "cheap"
    /\ IF \E k \in Keys : cost[k] = <<>>
       THEN phase' = "error" /\ UNCHANGED <<grammar, c_grammar>>
       ELSE /\ c_grammar' = [k \in Keys |-> Cheapest(cost[k])]
            /\ grammar' = [k \in Keys |-> Rules(cost[k])]
            /\ phase' = "pool"
    /\ UNCHANGED <<key_cost, cost, new_cost, at>>

(* the keys that get_trees_for_rule() turns to *)
CheapUses == [k \in Keys |-> UNION {KeysOf(r) : r \in Range(c_grammar[k])}]

(* completion_trees(): the enumeration goes through every cheapest rule    *)
(* and does not return if a key is reached from itself                     *)
Pool ==
    /\ phase = "pool"
    /\ phase' = IF \E k \in Keys : k \in Reaches(CheapUses, k)
                THEN "endless" ELSE "done"
    /\ UNCHANGED <<grammar, key_cost, cost, new_cost, at, c_grammar>>

Next == RuleStep \/ NextKey \/ EndPass \/ Sort \/ Cheap \/ Pool

Spec == Init /\ [][Next]_vars /\ WF_vars(Next)

-----------------------------------------------------------------------------
(* Properties *)

(* When compute_cost()'s loop ends, key_cost is "the minimum cost (number  *)
(* of characters) for each key", and each rule has its own minimum.  (That *)
(* a pass changed no list must imply that it lowered no key either.)       *)
CostExact ==
    phase # "pass" =>
        /\ DOMAIN cost = Keys
        /\ key_cost = MinLen(grammar)
        /\ \A k \in Keys :
            {cost[k][i] : i \in DOMAIN cost[k]} =
                {[cost |-> Min(RuleLengths(r, Lengths(grammar))), rule |-> r] :
                    r \in {q \in Range(grammar[k]) :
                                RuleLengths(q, Lengths(grammar)) # {}}}

(* The pool is made exactly for the grammars whose keys all derive some    *)
(* text and do not reach themselves by cheapest rules; the enumeration     *)
(* returns for every grammar without left recursion, and for some with it. *)
PoolMade ==
    /\ phase = "error" => Productive(grammar) # Keys
    /\ phase = "endless" => LeftRecursive(grammar) /\ ~HasPool(grammar)
    /\ phase = "done" => HasPool(grammar)

(* The trees of the pool are shortest, and their rule ids, positions in    *)
(* the grammar of the cheapest rules, are positions in the reordered       *)
(* grammar, which gen_func() and the parser use.                           *)
PoolMinimal ==
    phase = "done" => \A k \in Keys :
        /\ Lengths(c_grammar)[k] = {MinLen(grammar)[k]}
        /\ IsPrefix(c_grammar[k], grammar[k])

(* The passes of compute_cost() end for every grammar. *)
PassesEnd == <>(phase \in {"error", "endless", "done"})
=============================================================================
