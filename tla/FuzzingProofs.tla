---------------------------- MODULE FuzzingProofs ----------------------------
(***************************************************************************)
(* Safety of the fuzzing stages, for every grammar, every tree, every      *)
(* setting of the mutation steps and every outcome of the target's runs.   *)
(***************************************************************************)
EXTENDS Fuzzing, FiniteSetTheorems, WellFoundedInduction, TLAPS

(* A non-empty set of naturals has a least element.                        *)
LEMMA LeastNat ==
  ASSUME NEW S \in SUBSET Nat, S # {}
  PROVE  \E n \in S : \A m \in S : ~ (m < n)
<1>1. \E x \in S : \A y \in S : ~ (<<y, x>> \in OpToRel(<, Nat))
  BY NatLessThanWellFounded, WFMin
<1>2. ASSUME NEW x \in S, NEW y \in S, ~ (<<y, x>> \in OpToRel(<, Nat))
      PROVE  ~ (y < x)
  BY <1>2 DEF OpToRel
<1>. QED  BY <1>1, <1>2

(* A non-empty set of pairs has a least one in the order of the cursor.    *)
LEMMA LeastPair ==
  ASSUME NEW S \in SUBSET (Nat \X Nat), S # {}
  PROVE  \E q \in S : \A o \in S : ~ Before(o, q)
<1>. DEFINE F == {p[1] : p \in S}
<1>1. F \in SUBSET Nat /\ F # {}
  OBVIOUS
<1>2. PICK k \in F : \A m \in F : ~ (m < k)
  BY <1>1, LeastNat
<1>. DEFINE G == {p[2] : p \in {o \in S : o[1] = k}}
<1>3. G \in SUBSET Nat /\ G # {}
  BY <1>2
<1>4. PICK r \in G : \A m \in G : ~ (m < r)
  BY <1>3, LeastNat
<1>5. PICK q \in S : q[1] = k /\ q[2] = r
  BY <1>4
<1>6. ASSUME NEW o \in S  PROVE ~ Before(o, q)
  <2>1. o[1] \in F
    OBVIOUS
  <2>2. ~ (o[1] < k)
    BY <1>2, <2>1
  <2>3. o[1] = k => o[2] \in G
    OBVIOUS
  <2>4. o[1] = k => ~ (o[2] < r)
    BY <1>4, <2>3
  <2>. QED  BY <1>5, <2>2, <2>4 DEF Before
<1>. QED  BY <1>6

(* The node lists of a tree.                                               *)
LEMMA TreeFacts ==
  ASSUME NEW t \in Tree
  PROVE  /\ Len(t.nodes) \in Nat
         /\ \A k \in 1..Len(t.nodes) :
              /\ t.nodes[k].id \in Ids
              /\ NumRules[t.nodes[k].id] \in Nat
              /\ NumRules[t.nodes[k].id] >= 1
              /\ NumRules[t.nodes[k].id] <= UnknownRule
              /\ t.nodes[k].rule \in Nat
              /\ \/ t.nodes[k].rule = UnknownRule
                 \/ t.nodes[k].rule <= NumRules[t.nodes[k].id] - 1
         /\ UnknownRule \in Int
<1>1. t.nodes \in Seq(Node) /\ Len(t.nodes) \in Nat
  BY DEF Tree
<1>2. UnknownRule \in Int
  BY RulesAssumption DEF UnknownRule
<1>3. ASSUME NEW k \in 1..Len(t.nodes)
      PROVE  /\ t.nodes[k].id \in Ids
             /\ t.nodes[k].rule \in Nat
             /\ t.nodes[k].rule \in Rules(t.nodes[k].id) \cup {UnknownRule}
  <2>1. t.nodes[k] \in Node
    BY <1>1
  <2>. QED  BY <2>1 DEF Node
<1>4. ASSUME NEW k \in 1..Len(t.nodes)
      PROVE  /\ NumRules[t.nodes[k].id] \in Nat
             /\ NumRules[t.nodes[k].id] >= 1
             /\ NumRules[t.nodes[k].id] <= UnknownRule
             /\ \/ t.nodes[k].rule = UnknownRule
                \/ t.nodes[k].rule <= NumRules[t.nodes[k].id] - 1
  BY <1>3, RulesAssumption DEF Rules, UnknownRule
<1>. QED  BY <1>1, <1>2, <1>3, <1>4

(* The mutations that rules_mutation_count() counts.                       *)
Counted(t) == {p \in (1..Len(t.nodes)) \X (0..UnknownRule) :
                 p[2] \in 1..(NumRules[t.nodes[p[1]].id] - 1)}

(* rules_mutation_count() never counts more than is offered, and exactly   *)
(* that if the rules of all nodes are known.                               *)
LEMMA CountFacts ==
  ASSUME NEW t \in Tree
  PROVE  /\ IsFiniteSet(Offered(t)) /\ Cardinality(Offered(t)) \in Nat
         /\ rules_mutation_count(t) \in Nat
         /\ rules_mutation_count(t) <= Cardinality(Offered(t))
         /\ AllRulesKnown(t) => rules_mutation_count(t) = Cardinality(Offered(t))
<1>. DEFINE N(k) == NumRules[t.nodes[k].id]
            r(k) == t.nodes[k].rule
            shift(p) == <<p[1], IF p[2] - 1 < r(p[1]) THEN p[2] - 1 ELSE p[2]>>
            f == [p \in Counted(t) |-> shift(p)]
<1>1. /\ Len(t.nodes) \in Nat /\ UnknownRule \in Int
      /\ \A k \in 1..Len(t.nodes) :
           /\ N(k) \in Nat /\ N(k) >= 1 /\ N(k) <= UnknownRule
           /\ r(k) \in Nat
           /\ r(k) = UnknownRule \/ r(k) <= N(k) - 1
  BY TreeFacts
<1>2. /\ \A p \in Counted(t) : /\ p \in (1..Len(t.nodes)) \X (0..UnknownRule)
                               /\ p[1] \in 1..Len(t.nodes)
                               /\ p[2] \in Int /\ 1 <= p[2] /\ p[2] <= N(p[1]) - 1
      /\ \A p \in (1..Len(t.nodes)) \X (0..UnknownRule) :
           (1 <= p[2] /\ p[2] <= N(p[1]) - 1) => p \in Counted(t)
  BY <1>1 DEF Counted
<1>3. /\ \A p \in Offered(t) : /\ p \in (1..Len(t.nodes)) \X (0..UnknownRule)
                               /\ p[1] \in 1..Len(t.nodes)
                               /\ p[2] \in Int /\ 0 <= p[2] /\ p[2] <= N(p[1]) - 1
                               /\ p[2] # r(p[1])
      /\ \A k \in 1..Len(t.nodes), s \in Int :
           (0 <= s /\ s <= N(k) - 1 /\ s # r(k)) => <<k, s>> \in Offered(t)
  <2>1. ASSUME NEW k \in 1..Len(t.nodes), NEW s \in Int,
               0 <= s, s <= N(k) - 1, s # r(k)
        PROVE  <<k, s>> \in Offered(t)
    <3>1. s \in 0..UnknownRule /\ s \in 0..(N(k) - 1)
      BY <1>1, <2>1
    <3>. QED  BY <2>1, <3>1 DEF Offered, Rules
  <2>2. ASSUME NEW p \in Offered(t)
        PROVE  /\ p \in (1..Len(t.nodes)) \X (0..UnknownRule)
               /\ p[1] \in 1..Len(t.nodes)
               /\ p[2] \in Int /\ 0 <= p[2] /\ p[2] <= N(p[1]) - 1
               /\ p[2] # r(p[1])
    BY <1>1 DEF Offered, Rules
  <2>. QED  BY <2>1, <2>2
<1>. HIDE DEF N, r
<1>4. ASSUME NEW p \in Counted(t)  PROVE shift(p) \in Offered(t)
  <2>1. /\ p[1] \in 1..Len(t.nodes) /\ p[2] \in Int /\ 1 <= p[2]
        /\ p[2] <= N(p[1]) - 1 /\ N(p[1]) \in Nat /\ r(p[1]) \in Nat
    BY <1>1, <1>2
  <2>2. CASE p[2] - 1 < r(p[1])
    <3>1. 0 <= p[2] - 1 /\ p[2] - 1 <= N(p[1]) - 1 /\ p[2] - 1 # r(p[1]) /\ p[2] - 1 \in Int
      BY <2>1, <2>2
    <3>. QED  BY <1>3, <2>1, <2>2, <3>1
  <2>3. CASE ~ (p[2] - 1 < r(p[1]))
    <3>1. 0 <= p[2] /\ p[2] # r(p[1])
      BY <2>1, <2>3
    <3>. QED  BY <1>3, <2>1, <2>3, <3>1
  <2>. QED  BY <2>2, <2>3
<1>5. ASSUME NEW p \in Counted(t), NEW q \in Counted(t), shift(p) = shift(q)
      PROVE  p = q
  <2>1. /\ p \in (1..Len(t.nodes)) \X (0..UnknownRule)
        /\ q \in (1..Len(t.nodes)) \X (0..UnknownRule)
        /\ p[2] \in Int /\ q[2] \in Int /\ r(p[1]) \in Nat
    BY <1>1, <1>2
  <2>2. p[1] = q[1]
    BY <1>5
  <2>3. (IF p[2] - 1 < r(p[1]) THEN p[2] - 1 ELSE p[2])
          = (IF q[2] - 1 < r(p[1]) THEN q[2] - 1 ELSE q[2])
    BY <1>5, <2>2
  <2>4. p[2] = q[2]
    BY <2>1, <2>3
  <2>. QED  BY <2>1, <2>2, <2>4
<1>6. f \in Injection(Counted(t), Offered(t))
  <2>1. f \in [Counted(t) -> Offered(t)]
    BY <1>4
  <2>2. ASSUME NEW p \in Counted(t), NEW q \in Counted(t), f[p] = f[q]  PROVE p = q
    <3>1. f[p] = shift(p) /\ f[q] = shift(q)
      OBVIOUS
    <3>2. shift(p) = shift(q)
      BY <2>2, <3>1
    <3>. HIDE DEF shift, f
    <3>. QED  BY <1>5, <3>2
  <2>. QED  BY <2>1, <2>2 DEF Injection, IsInjective
<1>7. IsFiniteSet(Offered(t)) /\ Cardinality(Offered(t)) \in Nat
  <2>1. IsFiniteSet((1..Len(t.nodes)) \X (0..UnknownRule))
    <3>1. IsFiniteSet(1..Len(t.nodes))
      BY <1>1, FS_Interval
    <3>2. IsFiniteSet(0..UnknownRule)
      BY <1>1, FS_Interval
    <3>. QED  BY <3>1, <3>2, FS_Product
  <2>2. Offered(t) \in SUBSET ((1..Len(t.nodes)) \X (0..UnknownRule))
    BY <1>3
  <2>. QED  BY <2>1, <2>2, FS_Subset, FS_CardinalityType
<1>8. /\ IsFiniteSet(Counted(t)) /\ Cardinality(Counted(t)) \in Nat
      /\ Cardinality(Counted(t)) <= Cardinality(Offered(t))
      /\ Cardinality(Counted(t)) = Cardinality(Offered(t))
           <=> f \in Surjection(Counted(t), Offered(t))
  <2>. HIDE DEF f
  <2>. QED  BY <1>6, <1>7, FS_Injection, FS_CardinalityType
<1>9. ASSUME AllRulesKnown(t)  PROVE f \in Surjection(Counted(t), Offered(t))
  <2>1. ASSUME NEW q \in Offered(t)  PROVE \E p \in Counted(t) : f[p] = q
    <3>1. /\ q \in (1..Len(t.nodes)) \X (0..UnknownRule)
          /\ q[1] \in 1..Len(t.nodes) /\ q[2] \in Int /\ 0 <= q[2]
          /\ q[2] <= N(q[1]) - 1 /\ q[2] # r(q[1])
          /\ N(q[1]) \in Nat /\ N(q[1]) <= UnknownRule /\ UnknownRule \in Int
          /\ r(q[1]) \in Nat /\ r(q[1]) <= N(q[1]) - 1
      BY <1>1, <1>3, <1>9 DEF AllRulesKnown, r
    <3>2. CASE q[2] < r(q[1])
      <4>. DEFINE p == <<q[1], q[2] + 1>>
      <4>1. p \in (1..Len(t.nodes)) \X (0..UnknownRule) /\ 1 <= p[2] /\ p[2] <= N(p[1]) - 1
        BY <3>1, <3>2
      <4>2. p \in Counted(t)
        BY <1>2, <4>1
      <4>3. p[2] - 1 = q[2] /\ p[2] - 1 < r(p[1])
        BY <3>1, <3>2
      <4>4. shift(p) = <<q[1], q[2]>>
        BY <4>3
      <4>5. <<q[1], q[2]>> = q
        BY <3>1
      <4>6. f[p] = shift(p)
        BY <4>2
      <4>. QED  BY <4>2, <4>4, <4>5, <4>6
    <3>3. CASE q[2] > r(q[1])
      <4>1. 1 <= q[2] /\ ~ (q[2] - 1 < r(q[1]))
        BY <3>1, <3>3
      <4>2. q \in Counted(t)
        BY <1>2, <3>1, <4>1
      <4>3. shift(q) = <<q[1], q[2]>>
        BY <4>1
      <4>4. <<q[1], q[2]>> = q
        BY <3>1
      <4>5. f[q] = shift(q)
        BY <4>2
      <4>. QED  BY <4>2, <4>3, <4>4, <4>5
    <3>. QED  BY <3>1, <3>2, <3>3
  <2>2. f \in [Counted(t) -> Offered(t)]
    BY <1>4
  <2>. QED  BY <2>1, <2>2 DEF Surjection
<1>10. rules_mutation_count(t) = Cardinality(Counted(t))
  BY DEF rules_mutation_count, Counted
<1>. QED  BY <1>7, <1>8, <1>9, <1>10

-----------------------------------------------------------------------------
(* The search for the next mutation finds the first one at or after p, if  *)
(* there is one.                                                           *)
LEMMA SeekFacts ==
  ASSUME NEW t \in Tree, NEW p, \E q \in Offered(t) : ~ Before(q, p)
  PROVE  /\ Seek(t, p) \in Offered(t)
         /\ ~ Before(Seek(t, p), p)
         /\ \A o \in Offered(t) : Before(o, Seek(t, p)) => Before(o, p)
<1>. DEFINE S == {q \in Offered(t) : ~ Before(q, p)}
<1>1. S \in SUBSET (Nat \X Nat) /\ S # {}
  <2>1. UnknownRule \in Int /\ Len(t.nodes) \in Nat
    BY TreeFacts
  <2>2. Offered(t) \subseteq (1..Len(t.nodes)) \X (0..UnknownRule)
    BY DEF Offered
  <2>3. (1..Len(t.nodes)) \X (0..UnknownRule) \subseteq Nat \X Nat
    BY <2>1
  <2>. QED  BY <2>2, <2>3
<1>2. \E q \in S : \A o \in S : ~ Before(o, q)
  BY <1>1, LeastPair
<1>3. \E q \in Offered(t) : /\ ~Before(q, p)
                            /\ \A o \in Offered(t) : Before(o, q) => Before(o, p)
  BY <1>2
<1>. QED  BY <1>3 DEF Seek

(* The pairs of a tree are pairs of naturals.                              *)
LEMMA OfferedPairs ==
  ASSUME NEW t \in Tree
  PROVE  \A p \in Offered(t) : /\ p \in Nat \X Nat
                               /\ p[1] \in Nat /\ p[2] \in Nat /\ p[1] >= 1
                               /\ p = <<p[1], p[2]>>
<1>1. UnknownRule \in Int /\ Len(t.nodes) \in Nat
  BY TreeFacts
<1>2. \A p \in Offered(t) : p \in (1..Len(t.nodes)) \X (0..UnknownRule)
  BY DEF Offered
<1>. QED  BY <1>1, <1>2

(* Which stage comes after stage s.                                        *)
LEMMA StageAfterFacts ==
  ASSUME NEW s \in Stages, total \in [Stages -> Nat]
  PROVE  /\ StageAfter(s) \in (s+1)..4
         /\ StageAfter(s) \in Stages => total[StageAfter(s)] > 0
         /\ \A m \in (s+1)..(StageAfter(s) - 1) : total[m] = 0
<1>. DEFINE P(n) == /\ n \in Stages => total[n] > 0
                    /\ \A m \in (s+1)..(n-1) : total[m] = 0
<1>0. s \in {0, 1, 2, 3} /\ Stages = {0, 1, 2, 3}
  BY DEF Stages
<1>1. total[1] \in Nat /\ total[2] \in Nat /\ total[3] \in Nat
  BY DEF Stages
<1>2. \E n \in (s+1)..4 : P(n)
  <2>1. CASE s < 1 /\ total[1] > 0
    <3>1. 1 \in (s+1)..4 /\ (s+1)..(1-1) = {}
      BY <1>0, <2>1
    <3>. QED  BY <2>1, <3>1
  <2>2. CASE s < 2 /\ total[2] > 0 /\ (s < 1 => total[1] = 0)
    <3>1. 2 \in (s+1)..4 /\ \A m \in (s+1)..(2-1) : m = 1 /\ s < 1
      BY <1>0, <2>2
    <3>. QED  BY <2>2, <3>1
  <2>3. CASE s < 3 /\ total[3] > 0 /\ (s < 1 => total[1] = 0) /\ (s < 2 => total[2] = 0)
    <3>1. 3 \in (s+1)..4 /\ \A m \in (s+1)..(3-1) : (m = 1 /\ s < 1) \/ (m = 2 /\ s < 2)
      BY <1>0, <2>3
    <3>. QED  BY <2>3, <3>1
  <2>4. CASE (s < 1 => total[1] = 0) /\ (s < 2 => total[2] = 0) /\ (s < 3 => total[3] = 0)
    <3>1. 4 \in (s+1)..4 /\ 4 \notin Stages
      BY <1>0
    <3>2. \A m \in (s+1)..(4-1) : (m = 1 /\ s < 1) \/ (m = 2 /\ s < 2) \/ (m = 3 /\ s < 3)
      BY <1>0
    <3>. QED  BY <2>4, <3>1, <3>2
  <2>. QED  BY <1>0, <1>1, <2>1, <2>2, <2>3, <2>4
<1>. QED  BY <1>2 DEF StageAfter

-----------------------------------------------------------------------------
(* How often a stage can really run: stage 1 runs once without a budget,   *)
(* if fuzzing starts there.                                                *)
Budget(tot, s) == IF tot[0] = 0 /\ tot[1] = 0 /\ s = 1 THEN 1 ELSE tot[s]

(* The stages before the current one have used their budgets, the ones     *)
(* after it have not started, and the current one has calls left.          *)
CallsInv ==
  Fuzzed =>
    /\ \A s \in Stages : s < cur_fuzzing_stage => calls[s] = Budget(total, s)
    /\ \A s \in Stages : s > cur_fuzzing_stage => calls[s] = 0
    /\ cur_fuzzing_stage \in Stages =>
         /\ calls[cur_fuzzing_stage] = cur_fuzzing_step
         /\ cur_fuzzing_step < Budget(total, cur_fuzzing_stage)

(* AFL's count of the calls agrees with them.                              *)
CountInv ==
  Fuzzed =>
    /\ stage_max = fuzz_count(total)
    /\ afl \in {"loop", "done"} => Sum(calls) = stage_cur
    /\ afl \in {"run", "stored"} => Sum(calls) = stage_cur + 1
    /\ afl # "done" => stage_cur < stage_max
    /\ afl = "done" => stage_cur = stage_max

(* In stage 0 exactly the mutations before the cursor were tried.          *)
RulesInv ==
  Fuzzed =>
    /\ total[0] = rules_mutation_count(tree_cur)
    /\ cur_fuzzing_stage = 0 =>
         /\ cursor \in Offered(tree_cur)
         /\ tried_rules = {p \in Offered(tree_cur) : Before(p, cursor)}
         /\ Cardinality(tried_rules) = cur_fuzzing_step
    /\ cur_fuzzing_stage # 0 =>
         /\ tried_rules \subseteq Offered(tree_cur)
         /\ Cardinality(tried_rules) = total[0]

(* Where AFL is.                                                           *)
DriverInv ==
  /\ afl = "got" => tried_rules = {} /\ calls = [s \in Stages |-> 0]
  /\ afl \in {"loop", "run", "stored"} => tree_cur # NoTree
  /\ afl = "run" => mutated_tree

(* The inductive invariant: the types, the calls made, the counters of the *)
(* stages, the rules' progress and the driver.                             *)
IInv == TypeOK /\ CallsInv /\ CountInv /\ RulesInv /\ DriverInv

-----------------------------------------------------------------------------
(* Counting a call of stage s.                                             *)
LEMMA SumFacts ==
  ASSUME NEW f \in [Stages -> Nat]
  PROVE  /\ Sum(f) \in Nat
         /\ fuzz_count(f) \in 0..(U32 - 1)
         /\ fuzz_count(f) <= Sum(f)
         /\ Sum(f) < U32 => fuzz_count(f) = Sum(f)
         /\ \A s \in Stages : Sum([f EXCEPT ![s] = @ + 1]) = Sum(f) + 1
<1>1. /\ f[0] \in Nat /\ f[1] \in Nat /\ f[2] \in Nat /\ f[3] \in Nat
      /\ Stages = {0, 1, 2, 3}
  BY DEF Stages
<1>2. Sum(f) \in Nat
  BY <1>1 DEF Sum
<1>3. ASSUME NEW s \in Stages  PROVE Sum([f EXCEPT ![s] = @ + 1]) = Sum(f) + 1
  <2>. DEFINE g == [f EXCEPT ![s] = @ + 1]
  <2>1. /\ g[0] = IF s = 0 THEN f[0] + 1 ELSE f[0]
        /\ g[1] = IF s = 1 THEN f[1] + 1 ELSE f[1]
        /\ g[2] = IF s = 2 THEN f[2] + 1 ELSE f[2]
        /\ g[3] = IF s = 3 THEN f[3] + 1 ELSE f[3]
    BY <1>1
  <2>. HIDE DEF g
  <2>2. Sum(g) = Sum(f) + 1
    BY <1>1, <2>1 DEF Sum
  <2>. QED  BY <2>2 DEF g
<1>4. U32 \in Nat /\ U32 > 0
  BY RulesAssumption
<1>5. ASSUME NEW n \in Nat
      PROVE  n % U32 \in 0..(U32 - 1) /\ n % U32 <= n /\ (n < U32 => n % U32 = n)
  BY <1>4
<1>. QED  BY <1>2, <1>3, <1>5 DEF fuzz_count

(* While AFL calls, the stage is one of the four: if all of them were used *)
(* up, AFL would have made more calls than it was promised.                *)
LEMMA LoopStage ==
  ASSUME IInv, afl = "loop"
  PROVE  cur_fuzzing_stage \in Stages
<1>1. Fuzzed
  BY DEF IInv, DriverInv, Fuzzed
<1>2. /\ total \in [Stages -> Nat] /\ calls \in [Stages -> Nat]
      /\ cur_fuzzing_stage \in 0..4 /\ stage_cur \in Nat /\ stage_max \in Nat
  BY SumFacts DEF IInv, TypeOK
<1>3. Sum(calls) = stage_cur /\ stage_cur < stage_max /\ stage_max = fuzz_count(total)
  BY <1>1 DEF IInv, CountInv
<1>4. ASSUME cur_fuzzing_stage = 4  PROVE FALSE
  <2>1. \A s \in Stages : calls[s] = Budget(total, s)
    <3>1. \A s \in Stages : s < cur_fuzzing_stage
      BY <1>4 DEF Stages
    <3>. QED  BY <1>1, <3>1 DEF IInv, CallsInv
  <2>2. \A s \in Stages : Budget(total, s) >= total[s]
    BY <1>2 DEF Budget, Stages
  <2>3. /\ calls[0] >= total[0] /\ calls[1] >= total[1]
        /\ calls[2] >= total[2] /\ calls[3] >= total[3]
    BY <2>1, <2>2 DEF Stages
  <2>4. /\ calls[0] \in Nat /\ calls[1] \in Nat /\ calls[2] \in Nat /\ calls[3] \in Nat
        /\ total[0] \in Nat /\ total[1] \in Nat /\ total[2] \in Nat /\ total[3] \in Nat
    BY <1>2 DEF Stages
  <2>5. Sum(calls) >= Sum(total)
    BY <2>3, <2>4 DEF Sum
  <2>6. fuzz_count(total) <= Sum(total) /\ Sum(total) \in Nat /\ Sum(calls) \in Nat
    BY <1>2, SumFacts
  <2>. QED  BY <1>2, <1>3, <2>5, <2>6
<1>. QED  BY <1>2, <1>4 DEF Stages

(* The state afl_custom_init() leaves.                                     *)
LEMMA InitHolds == Init => IInv
<1>. SUFFICES ASSUME Init PROVE IInv
  OBVIOUS
<1>1. TypeOK
  <2>1. mutated_tree \in BOOLEAN
    BY DEF Init
  <2>. QED  BY <2>1, RulesAssumption DEF Init, TypeOK, Stages
<1>2. ~ Fuzzed
  BY DEF Init, Fuzzed
<1>. QED  BY <1>1, <1>2 DEF Init, IInv, CallsInv, CountInv, RulesInv, DriverInv

(* A new entry: nothing is fuzzed yet.                                     *)
LEMMA QueueGetHolds ==
  ASSUME IInv, NEW t \in Trees \cup {NoTree}, QueueGet(t)
  PROVE  IInv'
<1>1. t \in Tree \cup {NoTree}
  BY TreesAssumption
<1>2. TypeOK'
  BY <1>1 DEF IInv, TypeOK, QueueGet, progress, cursor, Stages
<1>3. ~ Fuzzed'
  BY DEF QueueGet, Fuzzed
<1>. QED  BY <1>2, <1>3 DEF QueueGet, IInv, CallsInv, CountInv, RulesInv, DriverInv

(* Without a tree AFL's loop is over at once.                              *)
LEMMA FuzzCountNoTreeHolds ==
  ASSUME IInv, FuzzCountNoTree
  PROVE  IInv'
<1>1. TypeOK'
  BY RulesAssumption DEF IInv, TypeOK, FuzzCountNoTree, progress, cursor, history
<1>2. ~ Fuzzed'
  BY DEF FuzzCountNoTree, Fuzzed
<1>. QED  BY <1>1, <1>2
          DEF FuzzCountNoTree, IInv, CallsInv, CountInv, RulesInv, DriverInv

(* fuzz_count sets the budgets and starts with the first rules mutation,   *)
(* or in stage 1.                                                          *)
LEMMA FuzzCountHolds ==
  ASSUME IInv, FuzzCount
  PROVE  IInv'
<1>. DEFINE t == tree_cur
<1>1. /\ t \in Tree /\ config \in Configs /\ tried_rules = {}
      /\ calls = [s \in Stages |-> 0] /\ afl = "got" /\ t # NoTree
      /\ U32 \in Nat /\ U32 > 0
  BY RulesAssumption DEF IInv, TypeOK, DriverInv, FuzzCount
<1>2. /\ config.random \in Nat /\ config.recursive \in Nat /\ config.splicing \in Nat
      /\ rules_mutation_count(t) \in Nat
  BY <1>1, ConfigsAssumption, CountFacts
<1>3. /\ total' \in [Stages -> Nat] /\ total'[0] = rules_mutation_count(t)
      /\ total'[1] \in Nat
  <2>1. total' = [s \in Stages |->
                    CASE s = 0 -> rules_mutation_count(t)
                      [] s = 1 -> config.random
                      [] s = 2 -> IF t.parts # {} THEN config.recursive ELSE 0
                      [] s = 3 -> config.splicing]
    BY DEF FuzzCount
  <2>. QED  BY <1>2, <2>1 DEF Stages
<1>4. /\ cur_fuzzing_step' = 0 /\ stage_cur' = 0 /\ stage_max' = fuzz_count(total')
      /\ afl' = IF stage_max' > 0 THEN "loop" ELSE "done"
      /\ tree_cur' = t /\ mutated_tree' = mutated_tree /\ config' = config
      /\ tried_rules' = {} /\ calls' = [s \in Stages |-> 0]
  BY <1>1 DEF FuzzCount, history
<1>5. stage_max' \in 0..(U32 - 1) /\ stage_max' \in Nat
  BY <1>1, <1>3, <1>4, SumFacts
<1>6. Sum(calls') = 0
  BY <1>4 DEF Sum, Stages
<1>7. afl' \in {"loop", "done"} /\ (afl' = "done" => stage_max' = 0)
  BY <1>4, <1>5
<1>8. CountInv'
  BY <1>4, <1>5, <1>6, <1>7 DEF CountInv
<1>9. DriverInv'
  BY <1>1, <1>4, <1>7 DEF DriverInv
<1>10. CASE total'[0] > 0
  <2>1. cur_fuzzing_stage' = 0 /\ MoveCursor(<<1, 0>>)
    <3>1. total'[0] # 0
      BY <1>2, <1>3, <1>10
    <3>2. \/ cur_fuzzing_stage' = 0 /\ MoveCursor(<<1, 0>>)
          \/ total'[0] = 0
      BY Zenon DEF FuzzCount
    <3>. QED  BY <3>1, <3>2, Zenon
  <2>2. \E q \in Offered(t) : ~ Before(q, <<1, 0>>)
    <3>1. IsFiniteSet(Offered(t)) /\ Cardinality(Offered(t)) \in Nat
          /\ total'[0] <= Cardinality(Offered(t))
      BY <1>1, <1>3, CountFacts
    <3>2. Offered(t) # {}
      BY <1>2, <1>3, <1>10, <3>1, FS_EmptySet
    <3>. QED  BY <1>1, <3>2, OfferedPairs DEF Before
  <2>. DEFINE c == Seek(t, <<1, 0>>)
  <2>3. /\ c \in Offered(t)
        /\ \A o \in Offered(t) : Before(o, c) => Before(o, <<1, 0>>)
    BY <1>1, <2>2, SeekFacts
  <2>4. cursor' = <<c[1], c[2]>>
    BY <2>1 DEF MoveCursor, cursor
  <2>. HIDE DEF c
  <2>5. cursor' = c /\ c[1] \in Nat /\ c[2] \in Nat
    BY <1>1, <2>3, <2>4, OfferedPairs
  <2>6. {p \in Offered(t) : Before(p, c)} = {}
    <3>1. \A o \in Offered(t) : ~ Before(o, <<1, 0>>)
      BY <1>1, OfferedPairs DEF Before
    <3>. QED  BY <2>3, <3>1
  <2>7. RulesInv'
    <3>1. Cardinality({}) = 0
      BY FS_EmptySet
    <3>. QED  BY <1>3, <1>4, <2>1, <2>3, <2>5, <2>6, <3>1 DEF RulesInv
  <2>8. CallsInv'
    <3>1. Budget(total', 0) > 0
      BY <1>10 DEF Budget
    <3>2. \A s \in Stages : calls'[s] = 0 /\ ~ (s < 0)
      BY <1>4 DEF Stages
    <3>3. 0 \in Stages
      BY DEF Stages
    <3>. QED  BY <1>4, <2>1, <3>1, <3>2, <3>3 DEF CallsInv
  <2>9. TypeOK'
    <3>1. cur_rules_mutation_node' \in Nat /\ cur_rules_mutation_rule_id' \in Nat
      BY <2>1, <2>5 DEF MoveCursor, c
    <3>2. calls' \in [Stages -> Nat]
      BY <1>4
    <3>. QED  BY <1>1, <1>3, <1>4, <1>5, <1>7, <2>1, <3>1, <3>2 DEF IInv, TypeOK
  <2>. QED  BY <1>8, <1>9, <2>7, <2>8, <2>9 DEF IInv
<1>11. CASE ~ (total'[0] > 0)
  <2>1. total'[0] = 0 /\ cur_fuzzing_stage' = 1
    BY <1>2, <1>3, <1>11 DEF FuzzCount
  <2>2. UNCHANGED cursor
    BY <2>1 DEF FuzzCount
  <2>3. RulesInv'
    <3>1. Cardinality({}) = 0
      BY FS_EmptySet
    <3>. QED  BY <1>3, <1>4, <2>1, <3>1 DEF RulesInv
  <2>4. CallsInv'
    <3>1. /\ 1 \in Stages
          /\ \A s \in Stages : calls'[s] = 0 /\ (s < 1 => s = 0)
      BY <1>4 DEF Stages
    <3>2. Budget(total', 1) > 0
      BY <1>3, <2>1 DEF Budget
    <3>3. Budget(total', 0) = 0
      BY <2>1 DEF Budget
    <3>. QED  BY <1>4, <2>1, <3>1, <3>2, <3>3 DEF CallsInv
  <2>5. TypeOK'
    <3>1. calls' \in [Stages -> Nat]
      BY <1>4
    <3>. QED  BY <1>1, <1>3, <1>4, <1>5, <1>7, <2>1, <2>2, <3>1 DEF IInv, TypeOK, cursor
  <2>. QED  BY <1>8, <1>9, <2>3, <2>4, <2>5 DEF IInv
<1>. QED  BY <1>10, <1>11

(* What a call of afl_custom_fuzz() does to the calls of the stages.       *)
LEMMA FuzzCalls ==
  ASSUME IInv, Fuzz
  PROVE  CallsInv' /\ CountInv' /\ calls' \in [Stages -> Nat]
                   /\ cur_fuzzing_stage' \in 0..4 /\ cur_fuzzing_step' \in Nat
<1>. DEFINE s == cur_fuzzing_stage
            k == cur_fuzzing_step
<1>1. /\ afl = "loop" /\ afl' = "run" /\ tree_cur' = tree_cur /\ total' = total
      /\ stage_cur' = stage_cur /\ stage_max' = stage_max
      /\ calls' = [calls EXCEPT ![s] = @ + 1] /\ UpdateStatus
  BY DEF Fuzz
<1>2. Fuzzed /\ s \in Stages
  BY <1>1, LoopStage DEF IInv, DriverInv, Fuzzed
<1>3. /\ total \in [Stages -> Nat] /\ calls \in [Stages -> Nat] /\ k \in Nat
      /\ stage_cur \in Nat
  BY DEF IInv, TypeOK
<1>4. /\ \A r \in Stages : r < s => calls[r] = Budget(total, r)
      /\ \A r \in Stages : r > s => calls[r] = 0
      /\ calls[s] = k /\ k < Budget(total, s)
  BY <1>2 DEF IInv, CallsInv
<1>5. /\ calls' \in [Stages -> Nat] /\ calls'[s] = k + 1
      /\ \A r \in Stages : r # s => calls'[r] = calls[r]
  BY <1>1, <1>2, <1>3, <1>4
<1>6. CountInv'
  <2>1. /\ stage_max = fuzz_count(total) /\ Sum(calls) = stage_cur
        /\ stage_cur < stage_max
    BY <1>1, <1>2 DEF IInv, CountInv
  <2>2. Sum(calls') = Sum(calls) + 1
    BY <1>1, <1>2, <1>3, SumFacts
  <2>. QED  BY <1>1, <2>1, <2>2 DEF CountInv
<1>7. \A r \in Stages : Budget(total', r) = Budget(total, r)
  BY <1>1 DEF Budget
<1>8. /\ s \in {0, 1, 2, 3} /\ Stages = {0, 1, 2, 3}
      /\ \A r \in Stages : total[r] \in Nat /\ Budget(total, r) \in Nat
      /\ \A r \in Stages : total[r] > 0 => Budget(total, r) = total[r]
      /\ \A r \in Stages : (total[r] = 0 /\ r # 1) => Budget(total, r) = 0
      /\ total[0] > 0 => \A r \in Stages : Budget(total, r) = total[r]
      /\ Budget(total, s) # total[s] => Budget(total, s) = 1 /\ total[s] = 0
  BY <1>2, <1>3 DEF Budget, Stages
<1>9. CASE k + 1 < total[s]
  <2>1. cur_fuzzing_step' = k + 1 /\ cur_fuzzing_stage' = s
    BY <1>1, <1>3, <1>8, <1>9 DEF UpdateStatus
  <2>2. Budget(total, s) = total[s]
    BY <1>3, <1>8, <1>9
  <2>3. CallsInv'
    <3>1. \A r \in Stages : r < s => calls'[r] = Budget(total', r)
      BY <1>4, <1>5, <1>7, <1>8
    <3>2. \A r \in Stages : r > s => calls'[r] = 0
      BY <1>4, <1>5, <1>8
    <3>3. cur_fuzzing_step' < Budget(total', s)
      BY <1>7, <1>2, <1>9, <2>1, <2>2
    <3>. QED  BY <1>5, <2>1, <3>1, <3>2, <3>3 DEF CallsInv
  <2>. QED  BY <1>3, <1>5, <1>6, <1>8, <2>1, <2>3
<1>10. CASE ~ (k + 1 < total[s])
  <2>. DEFINE n == StageAfter(s)
  <2>1. cur_fuzzing_step' = 0 /\ cur_fuzzing_stage' = n
    BY <1>1, <1>3, <1>8, <1>10 DEF UpdateStatus
  <2>2. /\ n \in (s+1)..4
        /\ n \in Stages => total[n] > 0
        /\ \A m \in (s+1)..(n - 1) : total[m] = 0
    BY <1>2, <1>3, StageAfterFacts
  <2>. HIDE DEF n
  <2>3. k + 1 = Budget(total, s)
    BY <1>3, <1>4, <1>8, <1>10
  <2>4. s = 0 => total[0] > 0
    <3>1. Budget(total, s) > 0
      BY <1>3, <1>4, <1>8
    <3>2. Budget(total, 0) = total[0]
      BY DEF Budget
    <3>. QED  BY <3>1, <3>2
  <2>5. \A r \in Stages : (r > s /\ r < n) => Budget(total, r) = 0
    <3>1. \A r \in Stages : (r > s /\ r < n) => total[r] = 0
      BY <1>8, <2>2
    <3>. QED  BY <1>8, <2>4, <3>1
  <2>6. \A r \in Stages : r < n => calls'[r] = Budget(total', r)
    <3>1. \A r \in Stages : r < s => calls'[r] = Budget(total', r)
      BY <1>4, <1>5, <1>7, <1>8
    <3>2. calls'[s] = Budget(total', s)
      BY <1>2, <1>5, <1>7, <2>3
    <3>3. \A r \in Stages : (r > s /\ r < n) => calls'[r] = Budget(total', r)
      BY <1>4, <1>5, <1>7, <1>8, <2>5
    <3>. QED  BY <1>8, <3>1, <3>2, <3>3
  <2>7. \A r \in Stages : r >= n => calls'[r] = 0
    BY <1>4, <1>5, <1>8, <2>2
  <2>8. n \in Stages => Budget(total', n) > 0
    BY <1>7, <1>8, <2>2
  <2>9. CallsInv'
    <3>1. n \in Nat
      BY <1>8, <2>2
    <3>2. \A r \in Stages : r > n => calls'[r] = 0
      BY <1>8, <2>7, <3>1
    <3>3. n \in Stages => calls'[n] = 0
      BY <2>7, <3>1
    <3>. QED  BY <2>1, <2>6, <2>8, <3>2, <3>3 DEF CallsInv
  <2>10. n \in 0..4
    BY <1>8, <2>2
  <2>. QED  BY <1>5, <1>6, <2>1, <2>9, <2>10
<1>. QED  BY <1>9, <1>10

(* What it does to the cursor and to the mutations tried.                  *)
LEMMA FuzzRules ==
  ASSUME IInv, Fuzz
  PROVE  /\ RulesInv' /\ tried_rules' \subseteq Nat \X Nat
         /\ cur_rules_mutation_node' \in Nat /\ cur_rules_mutation_rule_id' \in Nat
<1>. DEFINE s == cur_fuzzing_stage
            k == cur_fuzzing_step
            t == tree_cur
<1>1. /\ afl = "loop" /\ tree_cur' = t /\ total' = total /\ UpdateStatus
      /\ \/ RulesMutation \/ RandomMutation
         \/ RecursiveMutation \/ SplicingMutation
  BY DEF Fuzz
<1>2. Fuzzed /\ s \in Stages /\ t \in Tree
  BY <1>1, LoopStage DEF IInv, TypeOK, DriverInv, Fuzzed
<1>3. /\ total \in [Stages -> Nat] /\ total[0] \in Nat /\ k \in Nat
      /\ cur_rules_mutation_node \in Nat /\ cur_rules_mutation_rule_id \in Nat
      /\ tried_rules \subseteq Nat \X Nat
  BY DEF IInv, TypeOK, Stages
<1>4. total[0] = rules_mutation_count(t)
  BY <1>2 DEF IInv, RulesInv
<1>5. CASE s # 0
  <2>1. tried_rules' = tried_rules
    BY <1>1, <1>5 DEF RulesMutation, RandomMutation, RecursiveMutation,
        SplicingMutation
  <2>2. cur_fuzzing_stage' # 0
    <3>1. cur_fuzzing_stage' = s \/ cur_fuzzing_stage' = StageAfter(s)
      BY <1>1 DEF UpdateStatus
    <3>2. StageAfter(s) \in (s+1)..4
      BY <1>2, <1>3, StageAfterFacts
    <3>. QED  BY <1>2, <1>5, <3>1, <3>2 DEF Stages
  <2>3. UNCHANGED cursor
    BY <1>1, <1>5 DEF UpdateStatus
  <2>4. tried_rules \subseteq Offered(t) /\ Cardinality(tried_rules) = total[0]
    BY <1>2, <1>5 DEF IInv, RulesInv
  <2>5. RulesInv'
    BY <1>1, <1>4, <2>1, <2>2, <2>4 DEF RulesInv
  <2>. QED  BY <1>3, <2>1, <2>3, <2>5 DEF cursor
<1>6. CASE s = 0
  <2>1. tried_rules' = tried_rules \cup {cursor}
    BY <1>1, <1>6 DEF RulesMutation, RandomMutation, RecursiveMutation,
        SplicingMutation
  <2>2. /\ cursor \in Offered(t) /\ Cardinality(tried_rules) = k
        /\ tried_rules = {p \in Offered(t) : Before(p, cursor)}
    BY <1>2, <1>6 DEF IInv, RulesInv
  <2>3. k < total[0]
    <3>1. k < Budget(total, 0)
      BY <1>2, <1>6 DEF IInv, CallsInv, Stages
    <3>. QED  BY <3>1 DEF Budget
  <2>4. /\ IsFiniteSet(Offered(t)) /\ Cardinality(Offered(t)) \in Nat
        /\ total[0] <= Cardinality(Offered(t))
    BY <1>2, <1>4, CountFacts
  <2>5. IsFiniteSet(tried_rules) /\ cursor \notin tried_rules
    <3>1. tried_rules \in SUBSET Offered(t)
      BY <2>2
    <3>2. ~ Before(cursor, cursor)
      BY <1>3 DEF Before, cursor
    <3>. QED  BY <2>2, <2>4, <3>1, <3>2, FS_Subset
  <2>6. /\ Cardinality(tried_rules') = k + 1
        /\ tried_rules' \subseteq Offered(t)
        /\ tried_rules' \subseteq Nat \X Nat
    <3>1. Cardinality(tried_rules \cup {cursor}) = Cardinality(tried_rules) + 1
      BY <2>5, FS_AddElement
    <3>2. tried_rules' \subseteq Offered(t)
      BY <2>1, <2>2
    <3>3. Offered(t) \subseteq Nat \X Nat
      BY <1>2, OfferedPairs
    <3>. QED  BY <2>1, <2>2, <3>1, <3>2, <3>3
  <2>7. CASE k + 1 < total[0]
    <3>1. cur_fuzzing_step' = k + 1 /\ cur_fuzzing_stage' = 0 /\ MoveCursor(AfterCursor)
      <4>1. ~ (k + 1 >= total[0])
        BY <1>3, <2>7
      <4>2. \/ cur_fuzzing_step' = k + 1 /\ cur_fuzzing_stage' = s
               /\ IF s = 0 THEN MoveCursor(AfterCursor) ELSE UNCHANGED cursor
            \/ k + 1 >= total[s]
        BY <1>1, Zenon DEF UpdateStatus
      <4>. QED  BY <1>6, <4>1, <4>2, Zenon
    <3>. DEFINE a == AfterCursor
                c == Seek(t, a)
    <3>2. a = <<cur_rules_mutation_node, cur_rules_mutation_rule_id + 1>>
      BY DEF AfterCursor
    <3>3. \A p \in Offered(t) : Before(p, a) <=> (Before(p, cursor) \/ p = cursor)
      <4>1. ASSUME NEW p \in Offered(t)
            PROVE  Before(p, a) <=> (Before(p, cursor) \/ p = cursor)
        <5>1. p[1] \in Nat /\ p[2] \in Nat /\ p = <<p[1], p[2]>>
          BY <1>2, OfferedPairs
        <5>2. p = cursor <=> /\ p[1] = cur_rules_mutation_node
                             /\ p[2] = cur_rules_mutation_rule_id
          BY <5>1 DEF cursor
        <5>. QED  BY <1>3, <3>2, <5>1, <5>2 DEF Before, cursor
      <4>. QED  BY <4>1
    <3>. HIDE DEF a
    <3>4. \E q \in Offered(t) : ~ Before(q, a)
      <4>1. tried_rules' # Offered(t)
        BY <1>3, <2>4, <2>6, <2>7
      <4>2. PICK q \in Offered(t) : q \notin tried_rules'
        BY <2>6, <4>1
      <4>3. ~ Before(q, a)
        BY <2>1, <2>2, <3>3, <4>2
      <4>. QED  BY <4>3
    <3>5. /\ c \in Offered(t) /\ ~ Before(c, a)
          /\ \A o \in Offered(t) : Before(o, c) => Before(o, a)
      BY <1>2, <3>4, SeekFacts
    <3>6. cursor' = <<c[1], c[2]>> /\ c[1] = cur_rules_mutation_node'
                    /\ c[2] = cur_rules_mutation_rule_id'
      BY <3>1 DEF MoveCursor, cursor, a
    <3>. HIDE DEF c
    <3>7. cursor' = c /\ c[1] \in Nat /\ c[2] \in Nat
      BY <1>2, <3>5, <3>6, OfferedPairs
    <3>8. tried_rules' = {p \in Offered(t) : Before(p, c)}
      <4>1. ASSUME NEW p \in Offered(t)  PROVE Before(p, a) => Before(p, c)
        <5>1. p[1] \in Nat /\ p[2] \in Nat
          BY <1>2, OfferedPairs
        <5>2. cur_rules_mutation_rule_id + 1 \in Nat
          BY <1>3
        <5>. QED  BY <1>3, <3>2, <3>5, <3>7, <5>1, <5>2 DEF Before
      <4>2. \A p \in Offered(t) : Before(p, c) <=> Before(p, a)
        BY <3>5, <4>1
      <4>. QED  BY <2>1, <2>2, <3>3, <4>2
    <3>9. RulesInv'
      BY <1>1, <1>4, <2>6, <3>1, <3>5, <3>7, <3>8 DEF RulesInv
    <3>. QED  BY <2>6, <3>6, <3>7, <3>9
  <2>8. CASE ~ (k + 1 < total[0])
    <3>1. cur_fuzzing_stage' = StageAfter(0) /\ UNCHANGED cursor
      BY <1>1, <1>6, <2>8 DEF UpdateStatus
    <3>2. StageAfter(0) \in (0+1)..4
      BY <1>3, StageAfterFacts DEF Stages
    <3>3. cur_fuzzing_stage' # 0
      BY <3>1, <3>2
    <3>4. k + 1 = total[0]
      BY <1>3, <2>3, <2>8
    <3>5. RulesInv'
      BY <1>1, <1>4, <2>6, <3>3, <3>4 DEF RulesInv
    <3>. QED  BY <1>3, <2>6, <3>1, <3>5 DEF cursor
  <2>. QED  BY <2>7, <2>8
<1>. QED  BY <1>5, <1>6

(* A call of afl_custom_fuzz().                                            *)
LEMMA FuzzHolds ==
  ASSUME IInv, Fuzz
  PROVE  IInv'
<1>1. /\ CallsInv' /\ CountInv' /\ RulesInv' /\ calls' \in [Stages -> Nat]
      /\ cur_fuzzing_stage' \in 0..4 /\ cur_fuzzing_step' \in Nat
      /\ tried_rules' \subseteq Nat \X Nat
      /\ cur_rules_mutation_node' \in Nat /\ cur_rules_mutation_rule_id' \in Nat
  BY FuzzCalls, FuzzRules
<1>2. mutated_tree' \in BOOLEAN /\ mutated_tree'
  BY DEF Fuzz
<1>3. TypeOK'
  BY <1>1, <1>2 DEF IInv, TypeOK, Fuzz
<1>4. DriverInv'
  BY <1>2 DEF IInv, DriverInv, Fuzz
<1>. QED  BY <1>1, <1>3, <1>4 DEF IInv

-----------------------------------------------------------------------------
(* Every step of the mutator and of AFL keeps the inductive invariant.     *)
LEMMA NextHolds ==
  ASSUME IInv, [Next]_vars
  PROVE  IInv'
<1>1. ASSUME NEW t \in Trees \cup {NoTree}, QueueGet(t)  PROVE IInv'
  BY <1>1, QueueGetHolds
<1>2. CASE FuzzCountNoTree
  BY <1>2, FuzzCountNoTreeHolds
<1>3. CASE FuzzCount
  BY <1>3, FuzzCountHolds
<1>4. CASE Fuzz
  BY <1>4, FuzzHolds
<1>5. CASE RecursiveRetry
  <2>1. mutated_tree' \in BOOLEAN
    BY <1>5 DEF RecursiveRetry
  <2>2. TypeOK'
    BY <1>5, <2>1 DEF RecursiveRetry, IInv, TypeOK, progress, cursor, history
  <2>. QED  BY <1>5, <2>2
            DEF RecursiveRetry, IInv, CallsInv, CountInv, RulesInv, DriverInv, Fuzzed,
                progress, cursor, history
<1>6. CASE NewEntry
  <2>1. mutated_tree' \in BOOLEAN /\ tree_cur' = tree_cur
    BY <1>6 DEF NewEntry, IInv, DriverInv
  <2>2. TypeOK'
    BY <1>6, <2>1 DEF NewEntry, IInv, TypeOK, progress, cursor, history
  <2>. QED  BY <1>6, <2>1, <2>2
            DEF NewEntry, IInv, CallsInv, CountInv, RulesInv, DriverInv, Fuzzed,
                progress, cursor, history
<1>7. CASE NextCall
  <2>1. /\ afl \in {"run", "stored"} /\ stage_cur' = stage_cur + 1
        /\ afl' = IF stage_cur' < stage_max THEN "loop" ELSE "done"
        /\ stage_max' = stage_max /\ total' = total /\ calls' = calls
        /\ tree_cur' = tree_cur /\ mutated_tree' = mutated_tree /\ config' = config
        /\ progress' = progress /\ tried_rules' = tried_rules
    BY <1>7 DEF NextCall, history
  <2>2. TypeOK'
    BY <2>1 DEF IInv, TypeOK, progress, cursor
  <2>3. Fuzzed /\ stage_cur \in Nat /\ stage_max \in Nat /\ stage_cur < stage_max
    BY <2>1, RulesAssumption DEF IInv, TypeOK, DriverInv, Fuzzed, CountInv
  <2>4. CountInv'
    BY <2>1, <2>3 DEF IInv, CountInv
  <2>5. DriverInv'
    BY <2>1 DEF IInv, DriverInv
  <2>6. CallsInv' /\ RulesInv'
    BY <2>1, <2>3 DEF IInv, CallsInv, RulesInv, progress, cursor
  <2>. QED  BY <2>2, <2>4, <2>5, <2>6 DEF IInv
<1>8. CASE Abandon
  <2>1. TypeOK'
    BY <1>8 DEF Abandon, IInv, TypeOK, progress, cursor, history
  <2>2. ~ Fuzzed'
    BY <1>8 DEF Abandon, Fuzzed
  <2>. QED  BY <1>8, <2>1, <2>2
            DEF Abandon, IInv, CallsInv, CountInv, RulesInv, DriverInv
<1>9. CASE UNCHANGED vars
  BY <1>9 DEF vars, progress, cursor, history, IInv, TypeOK, CallsInv, CountInv,
              RulesInv, DriverInv, Fuzzed
<1>. QED  BY <1>1, <1>2, <1>3, <1>4, <1>5, <1>6, <1>7, <1>8, <1>9 DEF Next

(* The inductive invariant holds in every state of every behaviour.        *)
THEOREM Inductive == Spec => []IInv
<1>1. Init => IInv
  BY InitHolds
<1>2. IInv /\ [Next]_vars => IInv'
  BY NextHolds
<1>. QED  BY <1>1, <1>2, PTL DEF Spec

(* Type correctness.                                                       *)
THEOREM TypeCorrect == Spec => []TypeOK
<1>1. IInv => TypeOK
  BY DEF IInv
<1>. QED  BY <1>1, Inductive, PTL

(* Every call of afl_custom_fuzz() finds a valid stage, and in stage 0 a   *)
(* mutation that was not tried before.                                     *)
THEOREM FuzzAlwaysHasWork == Spec => []FuzzHasWork
<1>1. ASSUME IInv, afl = "loop"
      PROVE  /\ cur_fuzzing_stage \in Stages
             /\ cur_fuzzing_stage = 0 => cursor \in Offered(tree_cur) \ tried_rules
  <2>1. cur_fuzzing_stage \in Stages
    BY <1>1, LoopStage
  <2>2. Fuzzed
    BY <1>1 DEF IInv, DriverInv, Fuzzed
  <2>3. ~ Before(cursor, cursor)
    BY <1>1 DEF IInv, TypeOK, Before, cursor
  <2>4. cur_fuzzing_stage = 0 =>
          /\ cursor \in Offered(tree_cur)
          /\ tried_rules = {p \in Offered(tree_cur) : Before(p, cursor)}
    BY <1>1, <2>2 DEF IInv, RulesInv
  <2>. QED  BY <2>1, <2>3, <2>4
<1>2. IInv => FuzzHasWork
  BY <1>1 DEF FuzzHasWork
<1>. QED  BY <1>2, Inductive, PTL

(* Stage 0 tries every other rule of every node.                           *)
THEOREM EveryKnownRuleTried == Spec => []RulesCovered
<1>1. ASSUME IInv, Fuzzed, AllRulesKnown(tree_cur), cur_fuzzing_stage > 0
      PROVE  tried_rules = Offered(tree_cur)
  <2>1. tree_cur \in Tree /\ cur_fuzzing_stage # 0
    BY <1>1 DEF IInv, TypeOK, Fuzzed
  <2>2. /\ total[0] = rules_mutation_count(tree_cur)
        /\ tried_rules \subseteq Offered(tree_cur)
        /\ Cardinality(tried_rules) = total[0]
    BY <1>1, <2>1 DEF IInv, RulesInv
  <2>3. /\ IsFiniteSet(Offered(tree_cur))
        /\ rules_mutation_count(tree_cur) = Cardinality(Offered(tree_cur))
    BY <1>1, <2>1, CountFacts
  <2>. QED  BY <2>2, <2>3, FS_Subset
<1>2. IInv => RulesCovered
  BY <1>1 DEF RulesCovered
<1>. QED  BY <1>2, Inductive, PTL

(* The stages run one after the other and none beyond its budget.          *)
THEOREM StagesRunInOrder == Spec => []StagesInOrder
<1>1. ASSUME IInv, Fuzzed, ~OddStart, NEW s \in Stages
      PROVE  /\ calls[s] <= total[s]
             /\ calls[s] > 0 => \A r \in 0..(s-1) : calls[r] = total[r]
  <2>1. \A r \in Stages : Budget(total, r) = total[r]
    BY <1>1 DEF Budget, OddStart
  <2>2. /\ \A r \in Stages : r < cur_fuzzing_stage => calls[r] = total[r]
        /\ \A r \in Stages : r > cur_fuzzing_stage => calls[r] = 0
        /\ cur_fuzzing_stage \in Stages => calls[cur_fuzzing_stage] < total[cur_fuzzing_stage]
    BY <1>1, <2>1 DEF IInv, CallsInv
  <2>3. /\ calls \in [Stages -> Nat] /\ total \in [Stages -> Nat]
        /\ cur_fuzzing_stage \in 0..4
    BY <1>1 DEF IInv, TypeOK
  <2>4. calls[s] <= total[s]
    <3>1. calls[s] \in Nat /\ total[s] \in Nat /\ s \in Nat /\ cur_fuzzing_stage \in Nat
      BY <2>3 DEF Stages
    <3>. QED  BY <2>2, <3>1
  <2>5. ASSUME calls[s] > 0, NEW r \in 0..(s-1)  PROVE calls[r] = total[r]
    <3>1. ~ (s > cur_fuzzing_stage)
      BY <2>2, <2>5
    <3>2. r \in Stages /\ r < cur_fuzzing_stage
      BY <2>3, <3>1 DEF Stages
    <3>. QED  BY <2>2, <3>2
  <2>. QED  BY <2>4, <2>5
<1>2. IInv => StagesInOrder
  BY <1>1 DEF StagesInOrder
<1>. QED  BY <1>2, Inductive, PTL

(* Four numbers, none of them too large, with the right sum.               *)
LEMMA EqualSums ==
  ASSUME NEW a \in Nat, NEW b \in Nat, NEW c \in Nat, NEW d \in Nat,
         NEW u \in Nat, NEW v \in Nat, NEW w \in Nat, NEW x \in Nat,
         a <= u, b <= v, c <= w, d <= x, a + b + c + d = u + v + w + x
  PROVE  a = u /\ b = v /\ c = w /\ d = x
OBVIOUS

(* Every kind of mutation runs as often as configured.                     *)
THEOREM BudgetsKept == Spec => []BudgetKept
<1>1. ASSUME IInv, afl = "done", tree_cur # NoTree, ~OddStart, Sum(total) < U32
      PROVE  calls = total
  <2>1. Fuzzed
    BY <1>1 DEF Fuzzed
  <2>2. calls \in [Stages -> Nat] /\ total \in [Stages -> Nat]
    BY <1>1 DEF IInv, TypeOK
  <2>3. Sum(calls) = Sum(total)
    <3>1. fuzz_count(total) = Sum(total)
      BY <1>1, <2>2, SumFacts
    <3>. QED  BY <1>1, <2>1, <3>1 DEF IInv, CountInv
  <2>4. \A r \in Stages : calls[r] <= total[r]
    <3>1. \A r \in Stages : Budget(total, r) = total[r]
      BY <1>1 DEF Budget, OddStart
    <3>2. /\ \A r \in Stages : r < cur_fuzzing_stage => calls[r] = total[r]
          /\ \A r \in Stages : r > cur_fuzzing_stage => calls[r] = 0
          /\ cur_fuzzing_stage \in Stages => calls[cur_fuzzing_stage] < total[cur_fuzzing_stage]
          /\ cur_fuzzing_stage \in 0..4
      BY <1>1, <2>1, <3>1 DEF IInv, TypeOK, CallsInv
    <3>3. \A r \in Stages : calls[r] \in Nat /\ total[r] \in Nat /\ r \in Nat
      BY <2>2 DEF Stages
    <3>. QED  BY <3>2, <3>3
  <2>5. Stages = {0, 1, 2, 3}
    BY DEF Stages
  <2>6. /\ calls[0] \in Nat /\ calls[1] \in Nat /\ calls[2] \in Nat /\ calls[3] \in Nat
        /\ total[0] \in Nat /\ total[1] \in Nat /\ total[2] \in Nat /\ total[3] \in Nat
    BY <2>2, <2>5
  <2>7. /\ calls[0] = total[0] /\ calls[1] = total[1]
        /\ calls[2] = total[2] /\ calls[3] = total[3]
    <3>1. /\ calls[0] <= total[0] /\ calls[1] <= total[1]
          /\ calls[2] <= total[2] /\ calls[3] <= total[3]
      BY <2>4, <2>5
    <3>2. calls[0] + calls[1] + calls[2] + calls[3]
            = total[0] + total[1] + total[2] + total[3]
      BY <2>3 DEF Sum
    <3>. QED  BY <2>6, <3>1, <3>2, EqualSums
  <2>8. \A r \in Stages : calls[r] = total[r]
    BY <2>5, <2>7
  <2>. QED  BY <2>2, <2>8
<1>2. IInv => BudgetKept
  BY <1>1 DEF BudgetKept
<1>. QED  BY <1>2, Inductive, PTL

(* No step of AFL or of the mutator replaces the tree of an entry while it *)
(* is being fuzzed.                                                        *)
THEOREM TreeIsKept == Spec => TreeStays
<1>1. ASSUME IInv, [Next]_vars
      PROVE  [(afl \in {"loop", "run", "stored"}) => tree_cur' = tree_cur]_vars
  <2>1. ASSUME NEW t \in Trees \cup {NoTree}, QueueGet(t)
        PROVE  afl \notin {"loop", "run", "stored"}
    BY <2>1 DEF QueueGet
  <2>2. CASE FuzzCountNoTree \/ FuzzCount \/ Fuzz \/ RecursiveRetry
    BY <2>2 DEF FuzzCountNoTree, FuzzCount, Fuzz, RecursiveRetry
  <2>3. CASE NewEntry
    BY <1>1, <2>3 DEF NewEntry, IInv, DriverInv
  <2>4. CASE NextCall \/ Abandon
    BY <2>4 DEF NextCall, Abandon
  <2>5. CASE UNCHANGED vars
    BY <2>5 DEF vars
  <2>. QED  BY <1>1, <2>1, <2>2, <2>3, <2>4, <2>5 DEF Next
<1>. QED  BY <1>1, Inductive, PTL DEF Spec, TreeStays
=============================================================================
