------------------------------ MODULE NodeGen ------------------------------
(***************************************************************************)
(* The generated functions gen_node_*(max_len, consumed, rule_index), as   *)
(* CFuzzer in Grammar-Mutator/grammars/f1_c_gen.py writes them: a random   *)
(* tree of a key with a text of at most max_len characters, or a tree of   *)
(* the pool if not even the cheapest rule fits.  Called with max_len 0 by  *)
(* trimming, with the length limit and a rule by rules mutation, and with  *)
(* a limit and no rule by the other mutations and the generator.           *)
(*                                                                         *)
(* The rules of the grammar are in the order of their costs, as            *)
(* GrammarCost leaves them; the costs are exact (GrammarCost!CostExact),   *)
(* so their values are taken from GrammarDef.                              *)
(* The C stack is a sequence of frames, the innermost last.                *)
(***************************************************************************)
EXTENDS GrammarDef

CONSTANTS
    PooledGrammars,  \* grammars that have a pool, left recursive or not
    MaxTreeLen       \* max_tree_len: no rule needs more

ASSUME PooledAssumption ==
    /\ MaxTreeLen \in Nat
    /\ \A g \in PooledGrammars :
        /\ g \in Grammar
        /\ HasPool(g)
        /\ \A k \in Keys : \A i, j \in DOMAIN g[k] : i < j =>
            Min(RuleLengths(g[k][i], Lengths(g))) <= Min(RuleLengths(g[k][j], Lengths(g)))
        /\ \A k \in Keys : \A r \in Range(g[k]) :
            \E n \in RuleLengths(r, Lengths(g)) : n <= MaxTreeLen

VARIABLES
    rules,          \* the grammar
    min_rule_cost,  \* key -> the costs of its rules
    call,           \* the outermost call: [key, max_len, rule_index]
    stack,
    done            \* what it returned: [len, consumed], or NoResult

gen_vars == <<rules, min_rule_cost, call, stack, done>>

NoResult == [len |-> -1, consumed |-> -1]

-----------------------------------------------------------------------------

Costs(g) ==
    LET lens == Lengths(g)
    IN  [k \in Keys |-> [r \in DOMAIN g[k] |-> Min(RuleLengths(g[k][r], lens))]]

(* node_min_lens: the rules are ordered, so the first is a cheapest *)
min_cost(k) == min_rule_cost[k][1]

(* one activation; rule 0 is "not chosen yet", sub is subnode_consumed,    *)
(* len counts the characters of the text made so far                       *)
Frame(k, max_len, rule_index) ==
    [key |-> k, max_len |-> max_len, rule_index |-> rule_index, rule |-> 0,
     pos |-> 1, remaining |-> 0, sub |-> 0, consumed |-> 0, len |-> 0]

Top == stack[Len(stack)]

Body(f) == rules[f.key][f.rule]

SetTop(f) == stack' = [stack EXCEPT ![Len(stack)] = f]

(* gen_init__(), subtree_trimming() and random_mutation(), rules_mutation() *)
Calls(g) ==
    [key : {GrammarKeys[1]}, max_len : 0..MaxTreeLen, rule_index : {-1}] \cup
    [key : Keys, max_len : {0, MaxTreeLen}, rule_index : {-1}] \cup
    UNION {[key : {k}, max_len : {MaxTreeLen}, rule_index : DOMAIN g[k]] : k \in Keys}

GenInit ==
    /\ rules \in PooledGrammars
    /\ min_rule_cost = Costs(rules)
    /\ call \in Calls(rules)
    /\ stack = <<Frame(call.key, call.max_len, call.rule_index)>>
    /\ done = NoResult

(* The caller goes on with the text of len characters that the top frame   *)
(* made; written tells whether the callee set *consumed.                   *)
Return(len, consumed, written) ==
    IF Len(stack) = 1
    THEN stack' = <<>> /\ done' = [len |-> len, consumed |-> consumed]
    ELSE LET caller == stack[Len(stack) - 1]
             sub == IF written THEN consumed ELSE caller.sub
         IN  /\ stack' = Append(SubSeq(stack, 1, Len(stack) - 2),
                    [caller EXCEPT !.sub = sub,
                                   !.remaining = @ - sub,
                                   !.consumed = @ + sub,
                                   !.len = @ + len,
                                   !.pos = @ + 1])
             /\ UNCHANGED done

(* not even the cheapest rule fits: a tree of the pool; the variable       *)
(* consumed of this block hides the parameter                              *)
FromPool ==
    /\ stack # <<>>
    /\ Top.rule = 0
    /\ Top.max_len < min_cost(Top.key)
    /\ Return(min_cost(Top.key), 0, FALSE)
    /\ UNCHANGED <<rules, min_rule_cost, call>>

(* mutant: the choice is made among all rules *)
RulesAll(k, max_len) == DOMAIN rules[k]

(* mutant: a rule that just fits is left out *)
RulesBelow(k, max_len) == {r \in DOMAIN rules[k] : min_rule_cost[k][r] < max_len}

(* rules_that_fit: the rules are ordered, so they are the first ones *)
RulesThatFit(k, max_len) == {r \in DOMAIN rules[k] : min_rule_cost[k][r] <= max_len}

ChooseRule ==
    /\ stack # <<>>
    /\ Top.rule = 0
    /\ Top.max_len >= min_cost(Top.key)
    /\ \E r \in IF Top.rule_index \in DOMAIN rules[Top.key] THEN {Top.rule_index}
                ELSE RulesThatFit(Top.key, Top.max_len) :
        SetTop([Top EXCEPT !.rule = r,
                           !.remaining = Top.max_len - min_rule_cost[Top.key][r]])
    /\ UNCHANGED <<rules, min_rule_cost, call, done>>

Terminal ==
    /\ stack # <<>>
    /\ Top.rule # 0
    /\ Top.pos <= Len(Body(Top))
    /\ Body(Top)[Top.pos] \notin Keys
    /\ LET n == TermLens[Body(Top)[Top.pos]]
       IN  SetTop([Top EXCEPT !.consumed = @ + n, !.len = @ + n, !.pos = @ + 1])
    /\ UNCHANGED <<rules, min_rule_cost, call, done>>

(* the keys of the rule from the current token on: nkeys *)
KeysLeft(f) == Cardinality({i \in f.pos..Len(Body(f)) : Body(f)[i] \in Keys})

(* get_random_len(): the least of total and num - 1 random numbers up to it *)
RandomLen(num, total) == IF num > 1 THEN 0..total ELSE {total}

(* remaining_len += key_cost: the subnode's minimum was set aside for it *)
GivenBack(k) == min_cost(k)

(* mutant: the subnode gets no more than the random share *)
ShareOnly(k) == 0

(* subnode_max_len += key_cost *)
Share(k) == min_cost(k)

Subnode ==
    /\ stack # <<>>
    /\ Top.rule # 0
    /\ Top.pos <= Len(Body(Top))
    /\ Body(Top)[Top.pos] \in Keys
    /\ LET k == Body(Top)[Top.pos]
       IN  \E n \in RandomLen(KeysLeft(Top), Top.remaining) :
             stack' = Append([stack EXCEPT ![Len(stack)].remaining = @ + GivenBack(k)],
                             Frame(k, n + Share(k), -1))
    /\ UNCHANGED <<rules, min_rule_cost, call, done>>

EndRule ==
    /\ stack # <<>>
    /\ Top.rule # 0
    /\ Top.pos > Len(Body(Top))
    /\ Return(Top.len, Top.consumed, TRUE)
    /\ UNCHANGED <<rules, min_rule_cost, call>>

GenNext == FromPool \/ ChooseRule \/ Terminal \/ Subnode \/ EndRule

GenSpec == GenInit /\ [][GenNext]_gen_vars /\ WF_gen_vars(GenNext)

-----------------------------------------------------------------------------
(* Properties *)

(* The limits on the length hold at every level.  Only the outermost call *)
(* can draw from the pool, so subnode_consumed is never the stale value of *)
(* an earlier subnode, and get_random_len() is never asked for a length    *)
(* below 0.  The result keeps the limit and *consumed is its length, if    *)
(* the limit allows for any text at all; otherwise it is a shortest text.  *)
LimitsKept ==
    /\ \A i \in 2..Len(stack) : stack[i].max_len >= min_cost(stack[i].key)
    /\ \A i \in DOMAIN stack : stack[i].remaining >= 0
    /\ done # NoResult =>
        IF call.max_len >= min_cost(call.key)
        THEN done.len <= call.max_len /\ done.consumed = done.len
        ELSE done.len = min_cost(call.key)

(* gen_func(0), which trimming uses, gives a shortest text, and no key is  *)
(* below itself in the tree: it has no recursion edge.                     *)
MinimalTree ==
    call.max_len = 0 =>
        /\ done # NoResult => done.len = min_cost(call.key)
        /\ \A i, j \in DOMAIN stack : i # j => stack[i].key # stack[j].key

(* Generation ends, for left recursive grammars too: what a call may spend *)
(* beyond the minimum of its key never grows on the way down, a rule that  *)
(* is not a cheapest one uses some of it up, and by cheapest rules no key  *)
(* reaches itself.                                                         *)
GenerationEnds == <>(stack = <<>>)
=============================================================================
