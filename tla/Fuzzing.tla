------------------------------- MODULE Fuzzing -------------------------------
(***************************************************************************)
(* The fuzzing half of the custom mutator (src/grammar_mutator.c):         *)
(* afl_custom_fuzz_count, afl_custom_fuzz and afl_custom_queue_new_entry,  *)
(* driven by AFL's custom mutator stage                                    *)
(*                                                                         *)
(*     stage_max = afl_custom_fuzz_count();                                *)
(*     for (stage_cur = 0; stage_cur < stage_max; ++stage_cur) {           *)
(*       afl_custom_fuzz();  <run the target>                              *)
(*       if <interesting> afl_custom_queue_new_entry(new, orig); }         *)
(*                                                                         *)
(* cur_fuzzing_stage is 0 for rules mutation, 1 for random, 2 for random   *)
(* recursive and 3 for splicing mutation.  What a mutation makes of the    *)
(* tree is left out: the stages work on clones of tree_cur.                *)
(***************************************************************************)
EXTENDS Integers, Sequences, FiniteSets

CONSTANTS
  Ids,          \* the node ids of the grammar's non-terminals
  NumRules,     \* node_num_rules[id]
  U32,          \* the number of values of a uint32_t
  RRM_GROWTH,   \* stage 2 lets a tree grow by 2^RRM_GROWTH bytes
  Trees,        \* trees that afl_custom_queue_get() may load
  Configs,      \* settings of the three *_MUTATION_STEPS variables
  NoTree        \* the NULL tree_t pointer

ASSUME RulesAssumption ==
  U32 \in Nat \ {0} /\ \A id \in Ids : NumRules[id] \in 1..(U32 - 1)

(* rule_id is getAltNumber() - 1: -1 if the parser never chose a rule.     *)
UnknownRule == U32 - 1

Rules(id) == 0..(NumRules[id] - 1)

Node == {n \in [id : Ids, rule : Nat] : n.rule \in Rules(n.id) \cup {UnknownRule}}

(* A tree: its non-terminal nodes in the order of non_terminal_node_list,  *)
(* and for each of its recursion edges how many bytes of the parent's text *)
(* lie outside the subnode.                                                *)
Tree == [nodes : Seq(Node) \ {<<>>}, parts : SUBSET Nat]

ASSUME TreesAssumption == Trees \subseteq Tree /\ NoTree \notin Tree

ASSUME ConfigsAssumption ==
  Configs \subseteq [random : Nat, recursive : Nat, splicing : Nat]

ASSUME GrowthAssumption == RRM_GROWTH \in Nat

VARIABLES
  config,               \* default_*_mutation_steps, from the environment
  tree_cur,
  mutated_tree,         \* is there one: mutated_tree != NULL
  cur_fuzzing_stage, cur_fuzzing_step,
  total,                \* stage -> total_*_mutation_steps
  cur_rules_mutation_node, cur_rules_mutation_rule_id,
  afl,                  \* "idle", "got" (an entry), "loop", "run", "stored", "done"
  stage_cur, stage_max,
  tried_rules,          \* history: the <<node, rule>> pairs tried in stage 0
  calls                 \* history: how often each stage mutated tree_cur

cursor == <<cur_rules_mutation_node, cur_rules_mutation_rule_id>>
progress == <<cur_fuzzing_stage, cur_fuzzing_step, cursor>>
history == <<tried_rules, calls>>
vars == <<config, tree_cur, mutated_tree, progress, total, afl, stage_cur,
          stage_max, history>>

Stages == 0..3

Sum(f) == f[0] + f[1] + f[2] + f[3]

-----------------------------------------------------------------------------
(* Mutant of rules_mutation_count: the root is not counted.                *)
CountWithoutRoot(t) ==
  Cardinality({p \in (2..Len(t.nodes)) \X (0..UnknownRule) :
                 p[2] \in 1..(NumRules[t.nodes[p[1]].id] - 1)})

(* rules_mutation_count(): for every non-terminal node, the rules of its   *)
(* id but one.                                                             *)
rules_mutation_count(t) ==
  Cardinality({p \in (1..Len(t.nodes)) \X (0..UnknownRule) :
                 p[2] \in 1..(NumRules[t.nodes[p[1]].id] - 1)})

(* The mutations that rules_mutation(tree, node, rule_id) does not refuse. *)
Offered(t) ==
  {p \in (1..Len(t.nodes)) \X (0..UnknownRule) :
     /\ p[2] \in Rules(t.nodes[p[1]].id)
     /\ p[2] # t.nodes[p[1]].rule}

(* The order of the cursor: node by node, and by rule id within a node.    *)
Before(p, q) == p[1] < q[1] \/ (p[1] = q[1] /\ p[2] < q[2])

(* The `while (true)` loop that looks for `node` and `rule_id`: the first  *)
(* mutation at or after p.  (With none left it would dereference NULL.)    *)
Seek(t, p) ==
  CHOOSE q \in Offered(t) : /\ ~Before(q, p)
                            /\ \A o \in Offered(t) : Before(o, q) => Before(o, p)

(* Mutant of AfterCursor: rule_id is not incremented.                      *)
SameCursor == cursor

(* Where the search goes on: "next rule id".                               *)
AfterCursor == <<cur_rules_mutation_node, cur_rules_mutation_rule_id + 1>>

MoveCursor(p) ==
  /\ cur_rules_mutation_node' = Seek(tree_cur, p)[1]
  /\ cur_rules_mutation_rule_id' = Seek(tree_cur, p)[2]

(* Mutant of StageAfter: a stage without a budget is not passed over.      *)
NextNumber(s) == s + 1

(* The stage after stage s, whose budget is used up: every stage without a *)
(* budget is passed over.                                                  *)
StageAfter(s) ==
  CHOOSE n \in (s+1)..4 : /\ n \in Stages => total[n] > 0
                          /\ \A m \in (s+1)..(n-1) : total[m] = 0

(* Mutants of fuzz_count: the sum is not cut to a uint32_t; the splicing   *)
(* mutations are forgotten.                                                *)
CountUncut(f) == Sum(f)

CountWithoutSplicing(f) == (f[0] + f[1] + f[2]) % U32

(* What afl_custom_fuzz_count() returns: the budgets, as a uint32_t.       *)
fuzz_count(f) == Sum(f) % U32

-----------------------------------------------------------------------------
Init ==
  /\ config \in Configs
  /\ tree_cur = NoTree /\ mutated_tree = FALSE
  /\ cur_fuzzing_stage = 0 /\ cur_fuzzing_step = 0
  /\ total = [s \in Stages |-> 0]
  /\ cur_rules_mutation_node = 0 /\ cur_rules_mutation_rule_id = 0
  /\ afl = "idle" /\ stage_cur = 0 /\ stage_max = 0
  /\ tried_rules = {} /\ calls = [s \in Stages |-> 0]

(* afl_custom_queue_get(), as far as fuzzing depends on it.                *)
QueueGet(t) ==
  /\ afl \in {"idle", "done"}
  /\ tree_cur' = t
  /\ afl' = "got"
  /\ tried_rules' = {} /\ calls' = [s \in Stages |-> 0]
  /\ UNCHANGED <<config, mutated_tree, progress, total, stage_cur, stage_max>>

(* afl_custom_fuzz_count() with no tree: nothing to fuzz.                  *)
FuzzCountNoTree ==
  /\ afl = "got" /\ tree_cur = NoTree
  /\ stage_cur' = 0 /\ stage_max' = 0
  /\ afl' = "done"
  /\ UNCHANGED <<config, tree_cur, mutated_tree, progress, total, history>>

(* afl_custom_fuzz_count(): the budgets, and the first rules mutation; if  *)
(* there is none, fuzzing starts in stage 1.                               *)
FuzzCount ==
  /\ afl = "got" /\ tree_cur # NoTree
  /\ total' = [s \in Stages |->
                 CASE s = 0 -> rules_mutation_count(tree_cur)
                   [] s = 1 -> config.random
                   [] s = 2 -> IF tree_cur.parts # {} THEN config.recursive ELSE 0
                   [] s = 3 -> config.splicing]
  /\ cur_fuzzing_step' = 0
  /\ \/ /\ total'[0] > 0
        /\ cur_fuzzing_stage' = 0
        /\ MoveCursor(<<1, 0>>)
     \/ /\ total'[0] = 0
        /\ cur_fuzzing_stage' = 1
        /\ UNCHANGED cursor
  /\ stage_cur' = 0
  /\ stage_max' = fuzz_count(total')
  /\ afl' = IF stage_max' > 0 THEN "loop" ELSE "done"
  /\ UNCHANGED <<config, tree_cur, mutated_tree, history>>

-----------------------------------------------------------------------------
(* The end of afl_custom_fuzz(): "update internal status".                 *)
UpdateStatus ==
  LET s == cur_fuzzing_stage IN
  \/ /\ cur_fuzzing_step + 1 < total[s]
     /\ cur_fuzzing_step' = cur_fuzzing_step + 1
     /\ cur_fuzzing_stage' = s
     /\ IF s = 0
        THEN MoveCursor(AfterCursor)
        ELSE UNCHANGED cursor
  \/ /\ cur_fuzzing_step + 1 >= total[s]
     /\ cur_fuzzing_step' = 0
     /\ cur_fuzzing_stage' = StageAfter(s)
     /\ UNCHANGED cursor

(* Stage 0: rules_mutation(), which refuses what is not offered.           *)
RulesMutation ==
  /\ cur_fuzzing_stage = 0
  /\ cursor \in Offered(tree_cur)
  /\ tried_rules' = tried_rules \cup {cursor}

(* Stage 1: random_mutation(), which finds a node in every tree.           *)
RandomMutation == cur_fuzzing_stage = 1 /\ UNCHANGED tried_rules

(* Stage 3: splicing_mutation(), which falls back on a clone of the tree   *)
(* if the chunk store has no alternative for the node.                     *)
SplicingMutation == cur_fuzzing_stage = 3 /\ UNCHANGED tried_rules

(* random_recursive_mutation(tree, n) with n < RRM_GROWTH + 1 repeats the  *)
(* part between the ends of an edge 2^n times.                             *)
Growth(t) == {part * 2^n : part \in t.parts, n \in 0..RRM_GROWTH}

Fits(g) == g <= 2^RRM_GROWTH

(* Mutant of RecursiveMutation: the loop allows no growth at all.          *)
RecursiveNoGrowth ==
  /\ cur_fuzzing_stage = 2
  /\ \E g \in Growth(tree_cur) : g = 0
  /\ UNCHANGED tried_rules

(* Stage 2: the do-while loop has drawn a tree that does not grow too far. *)
RecursiveMutation ==
  /\ cur_fuzzing_stage = 2
  /\ \E g \in Growth(tree_cur) : Fits(g)
  /\ UNCHANGED tried_rules

(* Mutant of Fuzz: the tree of stage 2 is not kept in mutated_tree.        *)
FuzzDropsTree ==
  /\ afl = "loop"
  /\ \/ RulesMutation \/ RandomMutation
     \/ RecursiveMutation \/ SplicingMutation
  /\ calls' = [calls EXCEPT ![cur_fuzzing_stage] = @ + 1]
  /\ UpdateStatus
  /\ mutated_tree' = (cur_fuzzing_stage # 2)
  /\ afl' = "run"
  /\ UNCHANGED <<config, tree_cur, total, stage_cur, stage_max>>

(* One call of afl_custom_fuzz() and the run of the target.                *)
Fuzz ==
  /\ afl = "loop"
  /\ \/ RulesMutation \/ RandomMutation
     \/ RecursiveMutation \/ SplicingMutation
  /\ calls' = [calls EXCEPT ![cur_fuzzing_stage] = @ + 1]
  /\ UpdateStatus
  /\ mutated_tree' = TRUE
  /\ afl' = "run"
  /\ UNCHANGED <<config, tree_cur, total, stage_cur, stage_max>>

(* One more pass of the do-while loop of stage 2.  The call has freed the  *)
(* mutated tree of the call before.                                        *)
RecursiveRetry ==
  /\ afl = "loop" /\ cur_fuzzing_stage = 2
  /\ \E g \in Growth(tree_cur) : ~Fits(g)
  /\ mutated_tree' = FALSE
  /\ UNCHANGED <<config, tree_cur, progress, total, afl, stage_cur, stage_max,
                 history>>

(* afl_custom_queue_new_entry(new, orig): the run was interesting.  The    *)
(* mutated tree goes to a tree file and to the chunk store; without one    *)
(* afl_custom_queue_get(new) loads the new entry in place of tree_cur.     *)
NewEntry ==
  /\ afl = "run"
  /\ IF mutated_tree
     THEN tree_cur' = tree_cur
     ELSE tree_cur' \in Trees \cup {NoTree}
  /\ mutated_tree' = FALSE
  /\ afl' = "stored"
  /\ UNCHANGED <<config, progress, total, stage_cur, stage_max, history>>

(* External: AFL's loop goes on.                                           *)
NextCall ==
  /\ afl \in {"run", "stored"}
  /\ stage_cur' = stage_cur + 1
  /\ afl' = IF stage_cur' < stage_max THEN "loop" ELSE "done"
  /\ UNCHANGED <<config, tree_cur, mutated_tree, progress, total, stage_max,
                 history>>

(* External: AFL abandons the entry.                                       *)
Abandon ==
  /\ afl \in {"run", "stored"}
  /\ afl' = "idle"
  /\ UNCHANGED <<config, tree_cur, mutated_tree, progress, total, stage_cur,
                 stage_max, history>>

Next == \/ \E t \in Trees \cup {NoTree} : QueueGet(t)
        \/ FuzzCountNoTree \/ FuzzCount
        \/ Fuzz \/ RecursiveRetry \/ NewEntry \/ NextCall \/ Abandon

(* AFL's loop goes on; and since the draws of stage 2 are random, a draw   *)
(* that fits comes up eventually if there is one.                          *)
Spec == Init /\ [][Next]_vars /\ WF_vars(Fuzz) /\ WF_vars(NextCall)

-----------------------------------------------------------------------------
Fuzzed == afl \in {"loop", "run", "stored", "done"} /\ tree_cur # NoTree

AllRulesKnown(t) == \A k \in 1..Len(t.nodes) : t.nodes[k].rule # UnknownRule

(* Every variable holds a value the code can give it.                      *)
TypeOK ==
  /\ config \in Configs
  /\ tree_cur \in Tree \cup {NoTree} /\ mutated_tree \in BOOLEAN
  /\ cur_fuzzing_stage \in 0..4 /\ cur_fuzzing_step \in Nat
  /\ total \in [Stages -> Nat] /\ calls \in [Stages -> Nat]
  /\ cur_rules_mutation_node \in Nat /\ cur_rules_mutation_rule_id \in Nat
  /\ afl \in {"idle", "got", "loop", "run", "stored", "done"}
  /\ stage_cur \in Nat /\ stage_max \in 0..(U32 - 1)
  /\ tried_rules \subseteq Nat \X Nat

(* Whenever AFL calls afl_custom_fuzz(), a mutation can be made: the stage *)
(* is a valid choice, and in stage 0 the cursor stands on a node and a     *)
(* rule that rules_mutation() accepts and that were not tried before.  So  *)
(* the search for the next rule has not run off the end of the node list.  *)
FuzzHasWork ==
  afl = "loop" =>
    /\ cur_fuzzing_stage \in Stages
    /\ cur_fuzzing_stage = 0 => cursor \in Offered(tree_cur) \ tried_rules

(* Stage 0 is "deterministic": when it is over, every node was replaced by *)
(* every other rule of its id, and nothing else was tried.                 *)
RulesCovered ==
  Fuzzed /\ AllRulesKnown(tree_cur) /\ cur_fuzzing_stage > 0
    => tried_rules = Offered(tree_cur)

(* fuzz_count() starts in stage 1 without a look at its budget.            *)
OddStart == total[0] = 0 /\ total[1] = 0

(* A stage starts only when the stages before it have used up exactly      *)
(* their budgets, and no stage exceeds its own.                            *)
StagesInOrder ==
  Fuzzed /\ ~OddStart =>
    \A s \in Stages : /\ calls[s] <= total[s]
                      /\ calls[s] > 0 => \A r \in 0..(s-1) : calls[r] = total[r]

(* If the sum of the budgets fits a uint32_t and AFL does not abandon the  *)
(* entry, every kind of mutation runs as often as configured.              *)
BudgetKept ==
  afl = "done" /\ tree_cur # NoTree /\ ~OddStart /\ Sum(total) < U32
    => calls = total

(* The tree of the entry stays the one that fuzz_count() counted, walked   *)
(* and gave its cursor to, through all the mutations and all the entries   *)
(* they add: queue_new_entry() never falls back on queue_get(), which      *)
(* frees tree_cur and leaves the cursor dangling.                          *)
TreeStays == [][(afl \in {"loop", "run", "stored"}) => tree_cur' = tree_cur]_vars

(* AFL's loop ends, if stage 2 can draw a tree that does not grow too far. *)
FuzzingEnds ==
  (afl = "loop" /\ (tree_cur.parts = {} \/ \E g \in Growth(tree_cur) : Fits(g)))
    ~> afl \in {"done", "idle"}

-----------------------------------------------------------------------------
(* "the number of random mutations" (README.md, of RANDOM_MUTATION_STEPS)  *)
(* etc.: the budgets are kept from every start.  It does not hold.         *)
EveryBudgetKept ==
  afl = "done" /\ tree_cur # NoTree /\ Sum(total) < U32 => calls = total

(* "the total number of possible rules mutations" (tree_mutation.h, of     *)
(* rules_mutation_count): all of them are made.  It does not hold.         *)
EveryRuleTried ==
  Fuzzed /\ cur_fuzzing_stage > 0 => tried_rules = Offered(tree_cur)
=============================================================================
