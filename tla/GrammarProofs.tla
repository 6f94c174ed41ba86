---------------------------- MODULE GrammarProofs ----------------------------
(***************************************************************************)
(* The generator of the grammar tables for all grammars.                   *)
(***************************************************************************)
EXTENDS GrammarCost, NodeGen, TreeShapeProofs

(* The partial sums of n numbers.                                          *)
Adds(v, p, n) ==
  /\ p \in [0..n -> Nat] /\ p[0] = 0
  /\ \A i \in 1..n : p[i] = p[i - 1] + v[i]

LEMMA AddsExist ==
  ASSUME NEW n \in Nat, NEW v \in [1..n -> Nat]
  PROVE  \E p : Adds(v, p, n)
<1>. DEFINE P == {m \in Nat : \E p : Adds(v, p, m)}
<1>1. 0 \in P
  <2>. DEFINE p == [i \in 0..0 |-> 0]
  <2>1. Adds(v, p, 0)
    BY DEF Adds
  <2>. QED  BY <2>1
<1>2. ASSUME NEW m \in 0..(n - 1), m \in P  PROVE m + 1 \in P
  <2>1. m \in Nat /\ m + 1 \in Nat /\ m + 1 \in 1..n
    OBVIOUS
  <2>2. PICK p : Adds(v, p, m)
    BY <1>2
  <2>. DEFINE q == [i \in 0..(m + 1) |-> IF i <= m THEN p[i] ELSE p[m] + v[m + 1]]
  <2>3. p[m] \in Nat /\ v[m + 1] \in Nat
    BY <2>1, <2>2 DEF Adds
  <2>4. p[m] + v[m + 1] \in Nat
    BY <2>3
  <2>5. \A i \in 0..m : p[i] \in Nat
    BY <2>2 DEF Adds
  <2>6. q \in [0..(m + 1) -> Nat]
    <3>1. ASSUME NEW i \in 0..(m + 1)
          PROVE  (IF i <= m THEN p[i] ELSE p[m] + v[m + 1]) \in Nat
      BY <2>1, <2>4, <2>5
    <3>. QED  BY <3>1
  <2>7. q[0] = 0
    BY <2>1, <2>2 DEF Adds
  <2>8. ASSUME NEW i \in 1..(m + 1)  PROVE q[i] = q[i - 1] + v[i]
    <3>1. CASE i = m + 1
      <4>1. q[i] = p[m] + v[m + 1] /\ q[i - 1] = p[m]
        BY <2>1, <3>1
      <4>. QED  BY <3>1, <4>1
    <3>2. CASE i # m + 1
      <4>1. i \in 1..m /\ i <= m /\ i - 1 <= m /\ i \in 0..(m + 1) /\ i - 1 \in 0..(m + 1)
        BY <2>1, <3>2
      <4>2. q[i] = p[i] /\ q[i - 1] = p[i - 1]
        BY <4>1
      <4>3. p[i] = p[i - 1] + v[i]
        BY <2>2, <4>1 DEF Adds
      <4>. QED  BY <4>2, <4>3
    <3>. QED  BY <3>1, <3>2
  <2>. HIDE DEF q
  <2>9. Adds(v, q, m + 1)
    BY <2>6, <2>7, <2>8 DEF Adds
  <2>. QED  BY <2>1, <2>9
<1>3. n \in P
  <2>1. n \in 0..n
    OBVIOUS
  <2>. HIDE DEF P
  <2>. QED  BY <1>1, <1>2, <2>1, UpTo
<1>. QED  BY <1>3

(* Larger numbers have larger sums.                                        *)
LEMMA AddsLess ==
  ASSUME NEW n \in Nat, NEW v \in [1..n -> Nat], NEW w \in [1..n -> Nat], NEW p, NEW q,
         Adds(v, p, n), Adds(w, q, n), \A i \in 1..n : v[i] <= w[i]
  PROVE  /\ p[n] <= q[n] /\ p[n] \in Nat /\ q[n] \in Nat
         /\ (\E i \in 1..n : v[i] < w[i]) => p[n] < q[n]
<1>. DEFINE P == {m \in Nat : /\ p[m] <= q[m]
                              /\ (\E i \in 1..m : v[i] < w[i]) => p[m] < q[m]}
<1>1. 0 \in P
  BY DEF Adds
<1>2. ASSUME NEW m \in 0..(n - 1), m \in P  PROVE m + 1 \in P
  <2>1. m \in Nat /\ m + 1 \in Nat /\ m + 1 \in 1..n /\ (m + 1) - 1 = m /\ m \in 0..n
    OBVIOUS
  <2>2. /\ p[m + 1] = p[m] + v[m + 1] /\ q[m + 1] = q[m] + w[m + 1]
        /\ p[m] \in Nat /\ q[m] \in Nat
    BY <2>1 DEF Adds
  <2>3. v[m + 1] \in Nat /\ w[m + 1] \in Nat /\ v[m + 1] <= w[m + 1]
    BY <2>1
  <2>4. p[m] <= q[m] /\ ((\E i \in 1..m : v[i] < w[i]) => p[m] < q[m])
    BY <1>2
  <2>5. p[m + 1] <= q[m + 1]
    BY <2>2, <2>3, <2>4
  <2>6. ASSUME NEW i \in 1..(m + 1), v[i] < w[i]  PROVE p[m + 1] < q[m + 1]
    <3>1. CASE i = m + 1
      BY <2>2, <2>3, <2>4, <2>6, <3>1
    <3>2. CASE i # m + 1
      <4>1. i \in 1..m
        BY <2>1, <3>2
      <4>2. p[m] < q[m]
        BY <2>4, <2>6, <4>1
      <4>. QED  BY <2>2, <2>3, <4>2
    <3>. QED  BY <3>1, <3>2
  <2>. QED  BY <2>1, <2>5, <2>6
<1>3. n \in P
  <2>1. n \in 0..n
    OBVIOUS
  <2>. HIDE DEF P
  <2>. QED  BY <1>1, <1>2, <2>1, UpTo
<1>4. n \in 0..n
  OBVIOUS
<1>5. p[n] \in Nat /\ q[n] \in Nat
  BY <1>4 DEF Adds
<1>. QED  BY <1>3, <1>5

(* The equations of Sums().                                                *)
LEMMA SumsRow ==
  ASSUME NEW sets, NEW n \in Nat, Len(sets) = n
  PROVE  \E f : /\ f[0] = {0}
                /\ \A i \in 1..n : f[i] = Plus(f[i - 1], sets[i])
                /\ Sums(sets) = f[n]
<1>. DEFINE Fn(g, m) == g = [i \in 0..m |-> IF i = 0 THEN {0} ELSE Plus(g[i - 1], sets[i])]
            P == {m \in Nat : \E g : Fn(g, m)}
<1>1. 0 \in P
  <2>. DEFINE g == [i \in 0..0 |-> {0}]
  <2>1. Fn(g, 0)
    OBVIOUS
  <2>. QED  BY <2>1
<1>2. ASSUME NEW m \in 0..(n - 1), m \in P  PROVE m + 1 \in P
  <2>1. m \in Nat /\ m + 1 \in Nat /\ (m + 1) - 1 = m
    OBVIOUS
  <2>2. PICK g : Fn(g, m)
    BY <1>2
  <2>. DEFINE next == Plus(g[m], sets[m + 1])
              h == [i \in 0..(m + 1) |-> IF i <= m THEN g[i] ELSE next]
  <2>3. ASSUME NEW i \in 0..(m + 1)
        PROVE  h[i] = IF i = 0 THEN {0} ELSE Plus(h[i - 1], sets[i])
    <3>1. CASE i = m + 1
      <4>1. h[i] = next /\ h[i - 1] = g[m] /\ i # 0
        BY <2>1, <3>1
      <4>. QED  BY <3>1, <4>1
    <3>2. CASE i # m + 1
      <4>1. i \in 0..m /\ i <= m /\ (i # 0 => i - 1 \in 0..(m + 1) /\ i - 1 <= m)
        BY <2>1, <3>2
      <4>2. h[i] = g[i] /\ (i # 0 => h[i - 1] = g[i - 1])
        BY <4>1
      <4>3. g[i] = IF i = 0 THEN {0} ELSE Plus(g[i - 1], sets[i])
        BY <2>2, <4>1
      <4>. QED  BY <4>2, <4>3
    <3>. QED  BY <3>1, <3>2
  <2>. HIDE DEF h
  <2>4. h = [i \in 0..(m + 1) |-> h[i]]
    BY DEF h
  <2>5. Fn(h, m + 1)
    BY <2>3, <2>4
  <2>. QED  BY <2>1, <2>5
<1>3. n \in P
  <2>1. n \in 0..n
    OBVIOUS
  <2>. HIDE DEF P
  <2>. QED  BY <1>1, <1>2, <2>1, UpTo
<1>4. PICK f : Fn(f, n) /\ Sums(sets) = f[n]
  <2>1. \E g : Fn(g, n)
    BY <1>3
  <2>. DEFINE h == CHOOSE g : Fn(g, n)
  <2>2. Fn(h, n)
    BY <2>1
  <2>3. Sums(sets) = h[n]
    BY DEF Sums
  <2>. HIDE DEF h
  <2>. QED  BY <2>2, <2>3
<1>5. f[0] = {0}
  BY <1>4
<1>6. ASSUME NEW i \in 1..n  PROVE f[i] = Plus(f[i - 1], sets[i])
  <2>1. i \in 0..n /\ i # 0
    OBVIOUS
  <2>. QED  BY <1>4, <2>1
<1>. QED  BY <1>4, <1>5, <1>6

(* One element of each of the first m sets, with their partial sums.       *)
Chosen(sets, m, v, p) ==
  /\ v \in [1..m -> Nat] /\ Adds(v, p, m)
  /\ \A i \in 1..m : v[i] \in sets[i]

ChosenSum(sets, m, x) == \E v, p : Chosen(sets, m, v, p) /\ x = p[m]

LEMMA ChosenGrows ==
  ASSUME NEW sets, NEW m \in Nat, NEW a \in Nat, ChosenSum(sets, m, a),
         NEW b \in Nat, b \in sets[m + 1]
  PROVE  ChosenSum(sets, m + 1, a + b)
<1>0. PICK v, p : Chosen(sets, m, v, p) /\ a = p[m]
  BY DEF ChosenSum
<1>. DEFINE w == [i \in 1..(m + 1) |-> IF i = m + 1 THEN b ELSE v[i]]
            q == [i \in 0..(m + 1) |-> IF i = m + 1 THEN p[m] + b ELSE p[i]]
<1>1. ASSUME NEW i \in 1..(m + 1), i # m + 1
      PROVE  i \in 1..m /\ i - 1 \in 0..m /\ i \in 0..m /\ i - 1 # m + 1
  BY <1>1
<1>2. m + 1 \in 1..(m + 1) /\ m + 1 \in 0..(m + 1) /\ m \in 0..m /\ m # m + 1
      /\ 0 \in 0..(m + 1) /\ 0 # m + 1 /\ (m + 1) - 1 = m /\ m \in 0..(m + 1)
  OBVIOUS
<1>3. w \in [1..(m + 1) -> Nat] /\ w[m + 1] = b
  BY <1>0, <1>1, <1>2 DEF Chosen
<1>4. \A i \in 1..(m + 1) : w[i] \in sets[i]
  BY <1>0, <1>1, <1>2 DEF Chosen
<1>5. p[m] \in Nat /\ \A i \in 0..m : p[i] \in Nat
  BY <1>0, <1>2 DEF Chosen, Adds
<1>6. p[m] + b \in Nat
  BY <1>5
<1>7. ASSUME NEW i \in 0..(m + 1)  PROVE q[i] \in Nat
  <2>1. i = m + 1 \/ i \in 0..m
    OBVIOUS
  <2>. QED  BY <1>5, <1>6, <2>1
<1>8. q \in [0..(m + 1) -> Nat] /\ q[0] = 0 /\ q[m + 1] = p[m] + b /\ q[m] = p[m]
  <2>1. q \in [0..(m + 1) -> Nat]
    BY <1>7
  <2>2. q[0] = p[0] /\ p[0] = 0
    BY <1>0, <1>2 DEF Chosen, Adds
  <2>. QED  BY <1>2, <2>1, <2>2
<1>9. ASSUME NEW i \in 1..(m + 1)  PROVE q[i] = q[i - 1] + w[i]
  <2>1. CASE i = m + 1
    BY <1>2, <1>3, <1>8, <2>1
  <2>2. CASE i # m + 1
    <3>1. i \in 1..m /\ i - 1 \in 0..(m + 1) /\ i - 1 # m + 1 /\ i \in 0..(m + 1)
      BY <2>2
    <3>2. q[i] = p[i] /\ q[i - 1] = p[i - 1] /\ w[i] = v[i]
      BY <2>2, <3>1
    <3>3. p[i] = p[i - 1] + v[i]
      BY <1>0, <3>1 DEF Chosen, Adds
    <3>. QED  BY <3>2, <3>3
  <2>. QED  BY <2>1, <2>2
<1>. HIDE DEF w, q
<1>10. Chosen(sets, m + 1, w, q)
  BY <1>0, <1>3, <1>4, <1>8, <1>9 DEF Chosen, Adds
<1>. QED  BY <1>0, <1>8, <1>10 DEF ChosenSum

LEMMA ChosenCut ==
  ASSUME NEW sets, NEW m \in Nat, NEW x, ChosenSum(sets, m + 1, x)
  PROVE  \E a \in Nat : \E b \in sets[m + 1] : ChosenSum(sets, m, a) /\ x = a + b
<1>0. PICK w, q : Chosen(sets, m + 1, w, q) /\ x = q[m + 1]
  BY DEF ChosenSum
<1>. DEFINE v == [i \in 1..m |-> w[i]]
            p == [i \in 0..m |-> q[i]]
<1>1. \A i \in 1..m : i \in 1..(m + 1) /\ i \in 0..m /\ i - 1 \in 0..m
  OBVIOUS
<1>2. \A i \in 0..m : i \in 0..(m + 1)
  OBVIOUS
<1>3. m + 1 \in 1..(m + 1) /\ (m + 1) - 1 = m /\ m \in 0..m /\ 0 \in 0..m
  OBVIOUS
<1>4. v \in [1..m -> Nat] /\ \A i \in 1..m : v[i] \in sets[i]
  BY <1>0, <1>1 DEF Chosen
<1>5. p \in [0..m -> Nat] /\ p[0] = 0 /\ p[m] = q[m]
  BY <1>0, <1>2, <1>3 DEF Chosen, Adds
<1>6. ASSUME NEW i \in 1..m  PROVE p[i] = p[i - 1] + v[i]
  BY <1>0, <1>1 DEF Chosen, Adds
<1>7. w[m + 1] \in sets[m + 1] /\ w[m + 1] \in Nat /\ q[m] \in Nat
  BY <1>0, <1>2, <1>3 DEF Chosen, Adds
<1>8. q[m + 1] = q[m] + w[m + 1]
  BY <1>0, <1>3 DEF Chosen, Adds
<1>. HIDE DEF v, p
<1>9. Chosen(sets, m, v, p)
  BY <1>0, <1>4, <1>5, <1>6 DEF Chosen, Adds
<1>10. ChosenSum(sets, m, q[m])
  BY <1>5, <1>9 DEF ChosenSum
<1>. QED  BY <1>0, <1>7, <1>8, <1>10

(* Sums() as the sums of the choices.                                      *)
LEMMA SumsAre ==
  ASSUME NEW sets, NEW n \in Nat, Len(sets) = n,
         \A i \in 1..n : \A x \in sets[i] : x \in Nat
  PROVE  \A x : x \in Sums(sets) <=> ChosenSum(sets, n, x)
<1>1. PICK f : /\ f[0] = {0}
               /\ \A i \in 1..n : f[i] = Plus(f[i - 1], sets[i])
               /\ Sums(sets) = f[n]
  BY SumsRow
<1>. DEFINE Is(m) == \A x : x \in f[m] <=> ChosenSum(sets, m, x)
            P == {m \in Nat : Is(m)}
<1>2. 0 \in P
  <2>. DEFINE v == [i \in 1..0 |-> 0]
              p == [i \in 0..0 |-> 0]
  <2>1. Chosen(sets, 0, v, p) /\ p[0] = 0
    BY DEF Chosen, Adds
  <2>2. \A u, q : Chosen(sets, 0, u, q) => q[0] = 0
    BY DEF Chosen, Adds
  <2>. HIDE DEF v, p
  <2>3. Is(0)
    BY <1>1, <2>1, <2>2 DEF ChosenSum
  <2>. QED  BY <2>3
<1>3. ASSUME NEW m \in 0..(n - 1), m \in P  PROVE m + 1 \in P
  <2>1. m \in Nat /\ m + 1 \in Nat /\ m + 1 \in 1..n /\ (m + 1) - 1 = m
    OBVIOUS
  <2>2. f[m + 1] = Plus(f[m], sets[m + 1])
    BY <1>1, <2>1
  <2>3. Is(m)
    BY <1>3
  <2>4. ASSUME NEW x \in f[m + 1]  PROVE ChosenSum(sets, m + 1, x)
    <3>1. PICK a \in f[m], b \in sets[m + 1] : x = a + b
      BY <2>2 DEF Plus
    <3>2. ChosenSum(sets, m, a) /\ b \in Nat
      BY <2>1, <2>3, <3>1
    <3>3. a \in Nat
      <4>1. m \in 0..m
        BY <2>1
      <4>. QED  BY <3>2, <4>1 DEF ChosenSum, Chosen, Adds
    <3>. HIDE DEF Is, P
    <3>. QED  BY <2>1, <3>1, <3>2, <3>3, ChosenGrows
  <2>5. ASSUME NEW x, ChosenSum(sets, m + 1, x)  PROVE x \in f[m + 1]
    <3>1. PICK a \in Nat, b \in sets[m + 1] : ChosenSum(sets, m, a) /\ x = a + b
      BY <2>1, <2>5, ChosenCut
    <3>2. a \in f[m]
      BY <2>3, <3>1
    <3>. QED  BY <2>2, <3>1, <3>2 DEF Plus
  <2>6. Is(m + 1)
    BY <2>4, <2>5
  <2>. QED  BY <2>1, <2>6
<1>4. n \in P
  <2>1. n \in 0..n
    OBVIOUS
  <2>. HIDE DEF P
  <2>. QED  BY <1>2, <1>3, <2>1, UpTo
<1>5. Is(n)
  BY <1>4
<1>. QED  BY <1>1, <1>5
-----------------------------------------------------------------------------
(* The lengths of a rule *)

(* Lengths of the texts of keys.                                           *)
Lens == [Keys -> SUBSET Nat]

(* The lengths of the tokens of a rule.                                    *)
TokenSets(r, lens) == [i \in DOMAIN r |-> TokenLengths(r[i], lens)]

LEMMA TokenFacts ==
  ASSUME NEW r \in Seq(Tokens), NEW lens \in Lens
  PROVE  /\ Len(r) \in Nat /\ DOMAIN r = 1..Len(r)
         /\ Len(TokenSets(r, lens)) = Len(r)
         /\ \A i \in 1..Len(r) : /\ TokenSets(r, lens)[i] = TokenLengths(r[i], lens)
                                 /\ r[i] \in Tokens
                                 /\ \A x \in TokenLengths(r[i], lens) : x \in Nat
         /\ RuleLengths(r, lens) = Sums(TokenSets(r, lens))
<1>1. Len(r) \in Nat /\ DOMAIN r = 1..Len(r)
  OBVIOUS
<1>2. Len(TokenSets(r, lens)) = Len(r)
  <2>1. DOMAIN TokenSets(r, lens) = 1..Len(r)
    BY <1>1 DEF TokenSets
  <2>2. TokenSets(r, lens) \in Seq({TokenLengths(r[i], lens) : i \in 1..Len(r)})
    BY <1>1 DEF TokenSets
  <2>. QED  BY <1>1, <2>1, <2>2
<1>3. ASSUME NEW i \in 1..Len(r)
      PROVE  /\ TokenSets(r, lens)[i] = TokenLengths(r[i], lens)
             /\ r[i] \in Tokens
             /\ \A x \in TokenLengths(r[i], lens) : x \in Nat
  <2>1. TokenSets(r, lens)[i] = TokenLengths(r[i], lens)
    BY <1>1 DEF TokenSets
  <2>2. r[i] \in Tokens
    OBVIOUS
  <2>3. r[i] \in Keys => TokenLengths(r[i], lens) = lens[r[i]] /\ lens[r[i]] \in SUBSET Nat
    BY DEF TokenLengths, Lens
  <2>4. r[i] \notin Keys => TokenLengths(r[i], lens) = {TermLens[r[i]]} /\ TermLens[r[i]] \in Nat
    BY <2>2, KeysAssumption DEF TokenLengths, Tokens
  <2>. QED  BY <2>1, <2>2, <2>3, <2>4
<1>4. RuleLengths(r, lens) = Sums(TokenSets(r, lens))
  BY DEF RuleLengths, TokenSets
<1>. QED  BY <1>1, <1>2, <1>3, <1>4

(* A text of a rule is made of a text of each token.                       *)
Splits(r, lens, v, p) ==
  /\ v \in [1..Len(r) -> Nat] /\ Adds(v, p, Len(r))
  /\ \A i \in 1..Len(r) : v[i] \in TokenLengths(r[i], lens)

LEMMA RuleSplits ==
  ASSUME NEW r \in Seq(Tokens), NEW lens \in Lens
  PROVE  /\ \A x \in RuleLengths(r, lens) :
              x \in Nat /\ \E v, p : Splits(r, lens, v, p) /\ x = p[Len(r)]
         /\ \A v, p : Splits(r, lens, v, p) => p[Len(r)] \in RuleLengths(r, lens)
<1>. DEFINE n == Len(r)  sets == TokenSets(r, lens)
<1>1. /\ n \in Nat /\ Len(sets) = n
      /\ \A i \in 1..n : sets[i] = TokenLengths(r[i], lens)
      /\ \A i \in 1..n : \A x \in sets[i] : x \in Nat
      /\ RuleLengths(r, lens) = Sums(sets)
  BY TokenFacts
<1>2. \A v, p : Splits(r, lens, v, p) <=> Chosen(sets, n, v, p)
  <2>. HIDE DEF sets
  <2>. QED  BY <1>1 DEF Splits, Chosen
<1>. HIDE DEF n, sets
<1>3. \A x : x \in Sums(sets) <=> ChosenSum(sets, n, x)
  BY <1>1, SumsAre
<1>4. n \in 0..n
  BY <1>1
<1>5. \A v, p : Chosen(sets, n, v, p) => p[n] \in Nat
  BY <1>4 DEF Chosen, Adds
<1>6. \A x \in RuleLengths(r, lens) : \E v, p : Splits(r, lens, v, p) /\ x = p[n]
  BY <1>1, <1>2, <1>3 DEF ChosenSum
<1>7. \A v, p : Splits(r, lens, v, p) => p[n] \in RuleLengths(r, lens)
  BY <1>1, <1>2, <1>3 DEF ChosenSum
<1>8. \A x \in RuleLengths(r, lens) : x \in Nat
  BY <1>2, <1>5, <1>6
<1>. QED  BY <1>6, <1>7, <1>8 DEF n

(* A text of a rule is no shorter than the least lengths of its tokens     *)
(* together, and if it is as short, then so is the text of each token.     *)
LEMMA RuleAtLeast ==
  ASSUME NEW r \in Seq(Tokens), NEW lens \in Lens,
         NEW c \in [1..Len(r) -> Nat], NEW q, Adds(c, q, Len(r)),
         \A i \in 1..Len(r) : \A x \in TokenLengths(r[i], lens) : c[i] <= x,
         NEW x \in RuleLengths(r, lens)
  PROVE  /\ x \in Nat /\ q[Len(r)] \in Nat /\ q[Len(r)] <= x
         /\ x = q[Len(r)] => \A i \in 1..Len(r) : c[i] \in TokenLengths(r[i], lens)
<1>1. PICK v, p : Splits(r, lens, v, p) /\ x = p[Len(r)]
  BY RuleSplits
<1>2. Len(r) \in Nat
  OBVIOUS
<1>3. /\ v \in [1..Len(r) -> Nat] /\ Adds(v, p, Len(r))
      /\ \A i \in 1..Len(r) : c[i] <= v[i] /\ v[i] \in TokenLengths(r[i], lens)
  BY <1>1 DEF Splits
<1>4. /\ q[Len(r)] <= p[Len(r)] /\ q[Len(r)] \in Nat /\ p[Len(r)] \in Nat
      /\ (\E i \in 1..Len(r) : c[i] < v[i]) => q[Len(r)] < p[Len(r)]
  BY <1>2, <1>3, AddsLess
<1>5. ASSUME x = q[Len(r)], NEW i \in 1..Len(r)  PROVE c[i] \in TokenLengths(r[i], lens)
  <2>1. ~ (c[i] < v[i])
    BY <1>1, <1>4, <1>5
  <2>2. c[i] \in Nat /\ v[i] \in Nat /\ c[i] <= v[i]
    BY <1>3
  <2>3. c[i] = v[i]
    BY <2>1, <2>2
  <2>. QED  BY <1>3, <2>3
<1>. QED  BY <1>1, <1>4, <1>5

(* More lengths of the keys give more lengths of the rule.                 *)
LEMMA RuleMonotone ==
  ASSUME NEW r \in Seq(Tokens), NEW lens \in Lens, NEW more \in Lens,
         \A k \in Keys : lens[k] \subseteq more[k]
  PROVE  RuleLengths(r, lens) \subseteq RuleLengths(r, more)
<1>1. ASSUME NEW i \in 1..Len(r)
      PROVE  TokenLengths(r[i], lens) \subseteq TokenLengths(r[i], more)
  BY DEF TokenLengths
<1>2. \A v, p : Splits(r, lens, v, p) => Splits(r, more, v, p)
  BY <1>1 DEF Splits
<1>. QED  BY <1>2, RuleSplits

(* A text of length 0 is made of such texts.                               *)
LEMMA RuleEmpty ==
  ASSUME NEW r \in Seq(Tokens), NEW lens \in Lens, 0 \in RuleLengths(r, lens),
         NEW i \in 1..Len(r)
  PROVE  0 \in TokenLengths(r[i], lens)
<1>. DEFINE c == [j \in 1..Len(r) |-> 0]
            q == [j \in 0..Len(r) |-> 0]
<1>1. c \in [1..Len(r) -> Nat] /\ Adds(c, q, Len(r)) /\ q[Len(r)] = 0
  BY DEF Adds
<1>2. \A j \in 1..Len(r) : c[j] = 0 /\ \A x \in TokenLengths(r[j], lens) : c[j] <= x
  BY TokenFacts
<1>. HIDE DEF c, q
<1>3. \A j \in 1..Len(r) : \A x \in TokenLengths(r[j], lens) : c[j] <= x
  BY <1>2
<1>4. \A j \in 1..Len(r) : c[j] \in TokenLengths(r[j], lens)
  BY <1>1, <1>3, RuleAtLeast
<1>. QED  BY <1>2, <1>4
-----------------------------------------------------------------------------
(* The lengths of the keys *)

LEMMA KeysFinite == IsFiniteSet(Keys) /\ Cardinality(Keys) \in Nat
<1>1. GrammarKeys \in Seq(Keys)
  BY KeysAssumption
<1>2. Len(GrammarKeys) \in Nat /\ DOMAIN GrammarKeys = 1..Len(GrammarKeys)
      /\ GrammarKeys \in [1..Len(GrammarKeys) -> Keys]
  BY <1>1
<1>3. GrammarKeys \in Surjection(1..Len(GrammarKeys), Keys)
  BY <1>2 DEF Surjection, Keys, Range
<1>4. IsFiniteSet(1..Len(GrammarKeys))
  BY <1>2, FS_Interval
<1>5. IsFiniteSet(Keys)
  BY <1>3, <1>4, FS_Surjection
<1>. QED  BY <1>5, FS_CardinalityType

LEMMA MinFacts ==
  ASSUME NEW S \in SUBSET Nat, S # {}
  PROVE  Min(S) \in S /\ Min(S) \in Nat /\ \A x \in S : Min(S) <= x
BY LeastElement DEF Min

LEMMA MinIs ==
  ASSUME NEW S \in SUBSET Nat, NEW m \in S, \A x \in S : m <= x
  PROVE  Min(S) = m
<1>1. Min(S) \in S /\ Min(S) \in Nat /\ Min(S) <= m
  BY MinFacts
<1>. QED  BY <1>1

(* A chain of Cardinality(S) steps in a finite set stops growing or fills  *)
(* the set.                                                                *)
LEMMA Chain ==
  ASSUME NEW S, IsFiniteSet(S), NEW w, \A d \in 0..Cardinality(S) : w[d] \subseteq S,
         \A d \in 0..(Cardinality(S) - 1) : w[d] \subseteq w[d + 1]
  PROVE  \/ w[Cardinality(S)] = S
         \/ \E d \in 0..(Cardinality(S) - 1) : w[d] = w[d + 1]
<1>. DEFINE n == Cardinality(S)
<1>. SUFFICES ASSUME \A d \in 0..(n - 1) : w[d] # w[d + 1]
              PROVE  w[n] = S
  OBVIOUS
<1>1. n \in Nat
  BY FS_CardinalityType
<1>. HIDE DEF n
<1>. DEFINE P == {m \in Nat : Cardinality(w[m]) >= m}
<1>2. ASSUME NEW d \in 0..n  PROVE IsFiniteSet(w[d]) /\ Cardinality(w[d]) \in Nat
  <2>1. w[d] \in SUBSET S
    BY DEF n
  <2>. QED  BY <2>1, FS_Subset, FS_CardinalityType
<1>3. 0 \in P
  <2>1. 0 \in 0..n
    BY <1>1
  <2>. QED  BY <1>2, <2>1
<1>4. ASSUME NEW m \in 0..(n - 1), m \in P  PROVE m + 1 \in P
  <2>1. m \in 0..n /\ m + 1 \in 0..n /\ m \in Nat /\ m + 1 \in Nat
    BY <1>1
  <2>2. w[m] \in SUBSET w[m + 1] /\ w[m] # w[m + 1]
    BY DEF n
  <2>3. /\ IsFiniteSet(w[m + 1]) /\ Cardinality(w[m]) \in Nat
        /\ Cardinality(w[m + 1]) \in Nat
    BY <1>2, <2>1
  <2>4. Cardinality(w[m]) <= Cardinality(w[m + 1]) /\ Cardinality(w[m]) # Cardinality(w[m + 1])
    BY <2>2, <2>3, FS_Subset
  <2>5. Cardinality(w[m]) >= m
    BY <1>4
  <2>6. Cardinality(w[m + 1]) >= m + 1
    BY <2>1, <2>3, <2>4, <2>5
  <2>. QED  BY <2>1, <2>6
<1>5. n \in P
  <2>1. n \in 0..n
    BY <1>1
  <2>. HIDE DEF P
  <2>. QED  BY <1>1, <1>3, <1>4, <2>1, UpTo
<1>6. w[n] \in SUBSET S /\ Cardinality(w[n]) \in Nat
  <2>1. n \in 0..n
    BY <1>1
  <2>. QED  BY <1>2, <2>1 DEF n
<1>7. Cardinality(w[n]) <= Cardinality(S) /\ (Cardinality(S) = Cardinality(w[n]) => S = w[n])
  BY <1>6, FS_Subset
<1>8. Cardinality(w[n]) >= n /\ Cardinality(S) = n
  BY <1>5 DEF n
<1>. QED  BY <1>1, <1>6, <1>7, <1>8

LEMMA GrammarRules ==
  ASSUME NEW g \in Grammar, NEW k \in Keys
  PROVE  /\ Len(g[k]) \in Nat /\ DOMAIN g[k] = 1..Len(g[k])
         /\ \A i \in 1..Len(g[k]) : g[k][i] \in Seq(Tokens) /\ g[k][i] \in Range(g[k])
         /\ \A r \in Range(g[k]) : r \in Seq(Tokens) /\ \E i \in 1..Len(g[k]) : r = g[k][i]
<1>1. g[k] \in Seq(Seq(Tokens))
  BY DEF Grammar
<1>. QED  BY <1>1 DEF Range

(* A length is derived by a rule.                                          *)
LEMMA DerivedHas ==
  ASSUME NEW g \in Grammar, NEW lens \in Lens
  PROVE  /\ Derived(g, lens) \in Lens
         /\ \A k \in Keys : \A x : x \in Derived(g, lens)[k] <=>
                \E r \in Range(g[k]) : x \in RuleLengths(r, lens)
<1>1. ASSUME NEW k \in Keys
      PROVE  /\ Derived(g, lens)[k] = UNION {RuleLengths(r, lens) : r \in Range(g[k])}
             /\ Derived(g, lens)[k] \in SUBSET Nat
  <2>1. Derived(g, lens)[k] = UNION {RuleLengths(r, lens) : r \in Range(g[k])}
    BY DEF Derived
  <2>2. ASSUME NEW r \in Range(g[k])  PROVE \A x \in RuleLengths(r, lens) : x \in Nat
    BY GrammarRules, RuleSplits
  <2>. QED  BY <2>1, <2>2
<1>2. Derived(g, lens) = [k \in Keys |-> Derived(g, lens)[k]]
  BY DEF Derived
<1>3. Derived(g, lens) \in Lens
  BY <1>1, <1>2 DEF Lens
<1>. QED  BY <1>1, <1>3

LEMMA DerivedMonotone ==
  ASSUME NEW g \in Grammar, NEW lens \in Lens, NEW more \in Lens,
         \A k \in Keys : lens[k] \subseteq more[k]
  PROVE  \A k \in Keys : Derived(g, lens)[k] \subseteq Derived(g, more)[k]
<1>. SUFFICES ASSUME NEW k \in Keys, NEW x \in Derived(g, lens)[k]
              PROVE  x \in Derived(g, more)[k]
  OBVIOUS
<1>1. PICK r \in Range(g[k]) : x \in RuleLengths(r, lens)
  BY DerivedHas
<1>2. r \in Seq(Tokens)
  BY GrammarRules
<1>3. x \in RuleLengths(r, more)
  BY <1>1, <1>2, RuleMonotone
<1>. QED  BY <1>3, DerivedHas

NoLens == [k \in Keys |-> {}]

(* The lengths by the depth of the tree.                                   *)
Depths(g, u) ==
  /\ u[0] = NoLens
  /\ \A d \in 1..Cardinality(Keys) : u[d] = Derived(g, u[d - 1])
  /\ \A d \in 0..Cardinality(Keys) : u[d] \in Lens
  /\ Lengths(g) = u[Cardinality(Keys)]

LEMMA LengthsRow ==
  ASSUME NEW g \in Grammar
  PROVE  \E u : Depths(g, u)
<1>. DEFINE n == Cardinality(Keys)
            Fn(f, m) == f = [i \in 0..m |-> IF i = 0 THEN NoLens ELSE Derived(g, f[i - 1])]
            P == {m \in Nat : \E f : Fn(f, m)}
<1>0. n \in Nat
  BY KeysFinite
<1>. HIDE DEF n
<1>1. 0 \in P
  <2>. DEFINE f == [i \in 0..0 |-> NoLens]
  <2>1. Fn(f, 0)
    OBVIOUS
  <2>. QED  BY <2>1
<1>2. ASSUME NEW m \in 0..(n - 1), m \in P  PROVE m + 1 \in P
  <2>1. m \in Nat /\ m + 1 \in Nat /\ (m + 1) - 1 = m
    BY <1>0
  <2>2. PICK f : Fn(f, m)
    BY <1>2
  <2>. DEFINE next == Derived(g, f[m])
              h == [i \in 0..(m + 1) |-> IF i <= m THEN f[i] ELSE next]
  <2>3. ASSUME NEW i \in 0..(m + 1)
        PROVE  h[i] = IF i = 0 THEN NoLens ELSE Derived(g, h[i - 1])
    <3>1. CASE i = m + 1
      <4>1. h[i] = next /\ h[i - 1] = f[m] /\ i # 0
        BY <2>1, <3>1
      <4>. QED  BY <3>1, <4>1
    <3>2. CASE i # m + 1
      <4>1. i \in 0..m /\ i <= m /\ (i # 0 => i - 1 \in 0..(m + 1) /\ i - 1 <= m)
        BY <2>1, <3>2
      <4>2. h[i] = f[i] /\ (i # 0 => h[i - 1] = f[i - 1])
        BY <4>1
      <4>3. f[i] = IF i = 0 THEN NoLens ELSE Derived(g, f[i - 1])
        BY <2>2, <4>1
      <4>. QED  BY <4>2, <4>3
    <3>. QED  BY <3>1, <3>2
  <2>. HIDE DEF h
  <2>4. h = [i \in 0..(m + 1) |-> h[i]]
    BY DEF h
  <2>5. Fn(h, m + 1)
    BY <2>3, <2>4
  <2>. QED  BY <2>1, <2>5
<1>3. n \in P
  <2>1. n \in 0..n
    BY <1>0
  <2>. HIDE DEF P
  <2>. QED  BY <1>0, <1>1, <1>2, <2>1, UpTo
<1>4. PICK u : Fn(u, n) /\ Lengths(g) = u[n]
  <2>1. \E f : Fn(f, n)
    BY <1>3
  <2>. DEFINE h == CHOOSE f : Fn(f, n)
  <2>2. Fn(h, n)
    BY <2>1
  <2>3. Lengths(g) = h[n]
    BY DEF Lengths, n, NoLens
  <2>. HIDE DEF h
  <2>. QED  BY <2>2, <2>3
<1>5. u[0] = NoLens
  BY <1>0, <1>4
<1>6. ASSUME NEW i \in 1..n  PROVE u[i] = Derived(g, u[i - 1])
  <2>1. i \in 0..n /\ i # 0
    BY <1>0
  <2>. QED  BY <1>4, <2>1
<1>7. \A d \in 0..n : u[d] \in Lens
  <2>. DEFINE Q == {d \in Nat : u[d] \in Lens}
  <2>1. 0 \in Q
    BY <1>5 DEF NoLens, Lens
  <2>2. ASSUME NEW m \in 0..(n - 1), m \in Q  PROVE m + 1 \in Q
    <3>1. m + 1 \in 1..n /\ (m + 1) - 1 = m /\ m + 1 \in Nat
      BY <1>0
    <3>2. u[m + 1] = Derived(g, u[m]) /\ u[m] \in Lens
      BY <1>6, <2>2, <3>1
    <3>. QED  BY <3>1, <3>2, DerivedHas
  <2>3. \A d \in 0..n : d \in Q
    <3>. HIDE DEF Q
    <3>. QED  BY <1>0, <2>1, <2>2, UpTo
  <2>. QED  BY <2>3
<1>. QED  BY <1>4, <1>5, <1>6, <1>7 DEF Depths, n
(* Deeper trees have more texts.                                           *)
LEMMA DepthsGrow ==
  ASSUME NEW g \in Grammar, NEW u, Depths(g, u)
  PROVE  \A d \in 0..Cardinality(Keys) : \A k \in Keys : u[d][k] \subseteq Derived(g, u[d])[k]
<1>. DEFINE n == Cardinality(Keys)
            P == {d \in Nat : \A k \in Keys : u[d][k] \subseteq Derived(g, u[d])[k]}
<1>0. n \in Nat
  BY KeysFinite
<1>1. 0 \in P
  BY DEF Depths, NoLens
<1>2. ASSUME NEW d \in 0..(n - 1), d \in P  PROVE d + 1 \in P
  <2>1. d + 1 \in 1..n /\ (d + 1) - 1 = d /\ d + 1 \in Nat /\ d \in 0..n /\ d + 1 \in 0..n
    BY <1>0
  <2>2. u[d + 1] = Derived(g, u[d]) /\ u[d] \in Lens /\ u[d + 1] \in Lens
    BY <2>1 DEF Depths
  <2>3. \A k \in Keys : u[d][k] \subseteq u[d + 1][k]
    BY <1>2, <2>2
  <2>4. \A k \in Keys : Derived(g, u[d])[k] \subseteq Derived(g, u[d + 1])[k]
    <3>. HIDE DEF n, P
    <3>. QED  BY <2>2, <2>3, DerivedMonotone
  <2>. QED  BY <2>1, <2>2, <2>4
<1>3. \A d \in 0..n : d \in P
  <2>. HIDE DEF P, n
  <2>. QED  BY <1>0, <1>1, <1>2, UpTo
<1>. QED  BY <1>3

(* Lengths that every rule leads to again.                                 *)
Closed(g, lens) == \A k \in Keys : Derived(g, lens)[k] \subseteq lens[k]

(* The lengths of trees of any depth.                                      *)
AllLengths(g) ==
  [k \in Keys |-> {x \in Nat : \A lens \in Lens : Closed(g, lens) => x \in lens[k]}]

LEMMA AllFacts ==
  ASSUME NEW g \in Grammar
  PROVE  /\ AllLengths(g) \in Lens
         /\ Closed(g, AllLengths(g))
         /\ \A lens \in Lens : Closed(g, lens) =>
                \A k \in Keys : AllLengths(g)[k] \subseteq lens[k]
<1>1. AllLengths(g) \in Lens
  BY DEF AllLengths, Lens
<1>2. ASSUME NEW lens \in Lens, Closed(g, lens), NEW k \in Keys
      PROVE  AllLengths(g)[k] \subseteq lens[k]
  BY <1>2 DEF AllLengths
<1>3. ASSUME NEW k \in Keys, NEW x \in Derived(g, AllLengths(g))[k]
      PROVE  x \in AllLengths(g)[k]
  <2>1. x \in Nat
    BY <1>1, DerivedHas DEF Lens
  <2>2. ASSUME NEW lens \in Lens, Closed(g, lens)  PROVE x \in lens[k]
    <3>1. \A j \in Keys : AllLengths(g)[j] \subseteq lens[j]
      BY <1>2, <2>2
    <3>2. x \in Derived(g, lens)[k]
      BY <1>1, <3>1, DerivedMonotone
    <3>. QED  BY <2>2, <3>2 DEF Closed
  <2>. QED  BY <2>1, <2>2 DEF AllLengths
<1>. QED  BY <1>1, <1>2, <1>3 DEF Closed

LEMMA DepthsInAll ==
  ASSUME NEW g \in Grammar, NEW u, Depths(g, u)
  PROVE  \A d \in 0..Cardinality(Keys) : \A k \in Keys : u[d][k] \subseteq AllLengths(g)[k]
<1>. DEFINE n == Cardinality(Keys)
            P == {d \in Nat : \A k \in Keys : u[d][k] \subseteq AllLengths(g)[k]}
<1>0. n \in Nat
  BY KeysFinite
<1>1. 0 \in P
  BY DEF Depths, NoLens
<1>2. ASSUME NEW d \in 0..(n - 1), d \in P  PROVE d + 1 \in P
  <2>1. d + 1 \in 1..n /\ (d + 1) - 1 = d /\ d + 1 \in Nat /\ d \in 0..n
    BY <1>0
  <2>2. u[d + 1] = Derived(g, u[d]) /\ u[d] \in Lens
    BY <2>1 DEF Depths
  <2>3. \A k \in Keys : u[d][k] \subseteq AllLengths(g)[k]
    BY <1>2
  <2>4. \A k \in Keys : Derived(g, u[d])[k] \subseteq Derived(g, AllLengths(g))[k]
    <3>. HIDE DEF n, P
    <3>. QED  BY <2>2, <2>3, DerivedMonotone, AllFacts
  <2>5. \A k \in Keys : Derived(g, u[d])[k] \subseteq AllLengths(g)[k]
    BY <2>4, AllFacts DEF Closed
  <2>. QED  BY <2>1, <2>2, <2>5
<1>3. \A d \in 0..n : d \in P
  <2>. HIDE DEF P, n
  <2>. QED  BY <1>0, <1>1, <1>2, UpTo
<1>. QED  BY <1>3

(* The keys with a text, and those with a shortest text in lens.           *)
WithText(g) == {k \in Keys : AllLengths(g)[k] # {}}
Least(g, k) == Min(AllLengths(g)[k])
WithShortest(g, lens) == {k \in WithText(g) : Least(g, k) \in lens[k]}

LEMMA LeastFacts ==
  ASSUME NEW g \in Grammar, NEW k \in WithText(g)
  PROVE  /\ k \in Keys /\ Least(g, k) \in AllLengths(g)[k] /\ Least(g, k) \in Nat
         /\ \A x \in AllLengths(g)[k] : x \in Nat /\ Least(g, k) <= x
<1>1. k \in Keys /\ AllLengths(g)[k] # {}
  BY DEF WithText
<1>2. AllLengths(g)[k] \in SUBSET Nat
  BY <1>1, AllFacts DEF Lens
<1>. QED  BY <1>1, <1>2, MinFacts DEF Least

(* The least lengths, but longer where lens has no shortest text.          *)
Above(g, lens) ==
  [k \in Keys |-> IF k \notin WithText(g) THEN {}
                  ELSE {x \in Nat : x > Least(g, k) \/ (x = Least(g, k) /\ k \in WithShortest(g, lens))}]

(* If deeper trees add no key with a shortest text, all keys have one.     *)
LEMMA NoNewShortest ==
  ASSUME NEW g \in Grammar, NEW lens \in Lens,
         WithShortest(g, Derived(g, lens)) \subseteq WithShortest(g, lens)
  PROVE  WithShortest(g, lens) = WithText(g)
<1>. DEFINE Q == Above(g, lens)
<1>1. Q \in Lens
  BY DEF Above, Lens
<1>2. ASSUME NEW k \in Keys
      PROVE  \A x : x \in Q[k] <=> /\ k \in WithText(g) /\ x \in Nat
                                   /\ \/ x > Least(g, k)
                                      \/ x = Least(g, k) /\ k \in WithShortest(g, lens)
  BY DEF Above
<1>. HIDE DEF Q
<1>3. ASSUME NEW k \in Keys, NEW x \in Derived(g, Q)[k]  PROVE x \in Q[k]
  <2>1. PICK r \in Range(g[k]) : x \in RuleLengths(r, Q)
    BY <1>1, DerivedHas
  <2>2. r \in Seq(Tokens) /\ Len(r) \in Nat
    BY GrammarRules
  <2>3. PICK v, p : Splits(r, Q, v, p) /\ x = p[Len(r)]
    BY <1>1, <2>1, <2>2, RuleSplits
  <2>. DEFINE c == [i \in 1..Len(r) |-> IF r[i] \in Keys THEN Least(g, r[i]) ELSE TermLens[r[i]]]
  <2>4. ASSUME NEW i \in 1..Len(r)
        PROVE  /\ c[i] \in Nat /\ c[i] \in TokenLengths(r[i], AllLengths(g))
               /\ \A y \in TokenLengths(r[i], Q) : c[i] <= y
               /\ r[i] \in Keys => r[i] \in WithText(g) /\ c[i] = Least(g, r[i])
               /\ r[i] \notin Keys => TokenLengths(r[i], lens) = {c[i]}
    <3>1. CASE r[i] \in Keys
      <4>1. v[i] \in Q[r[i]] /\ TokenLengths(r[i], Q) = Q[r[i]]
            /\ TokenLengths(r[i], AllLengths(g)) = AllLengths(g)[r[i]]
        BY <2>3, <3>1 DEF Splits, TokenLengths
      <4>2. r[i] \in WithText(g)
        BY <1>2, <3>1, <4>1
      <4>3. c[i] = Least(g, r[i])
        BY <3>1
      <4>4. Least(g, r[i]) \in Nat /\ Least(g, r[i]) \in AllLengths(g)[r[i]]
        BY <4>2, LeastFacts
      <4>5. \A y \in Q[r[i]] : Least(g, r[i]) <= y
        BY <1>2, <3>1, <4>4
      <4>. HIDE DEF c
      <4>. QED  BY <3>1, <4>1, <4>2, <4>3, <4>4, <4>5
    <3>2. CASE r[i] \notin Keys
      <4>1. TermLens[r[i]] \in Nat
        BY <2>2, <3>2, KeysAssumption DEF Tokens
      <4>2. c[i] = TermLens[r[i]]
        BY <3>2
      <4>. HIDE DEF c
      <4>. QED  BY <3>2, <4>1, <4>2 DEF TokenLengths
    <3>. QED  BY <3>1, <3>2
  <2>5. c \in [1..Len(r) -> Nat]
    BY <2>4
  <2>. HIDE DEF c
  <2>6. PICK q : Adds(c, q, Len(r))
    BY <2>2, <2>5, AddsExist
  <2>7. /\ x \in Nat /\ q[Len(r)] \in Nat /\ q[Len(r)] <= x
        /\ x = q[Len(r)] => \A i \in 1..Len(r) : c[i] \in TokenLengths(r[i], Q)
    BY <1>1, <2>1, <2>2, <2>4, <2>5, <2>6, RuleAtLeast
  <2>8. q[Len(r)] \in AllLengths(g)[k]
    <3>1. AllLengths(g) \in Lens /\ Closed(g, AllLengths(g))
      BY AllFacts
    <3>2. Splits(r, AllLengths(g), c, q)
      BY <2>4, <2>5, <2>6 DEF Splits
    <3>3. q[Len(r)] \in RuleLengths(r, AllLengths(g))
      BY <2>2, <3>1, <3>2, RuleSplits
    <3>4. q[Len(r)] \in Derived(g, AllLengths(g))[k]
      BY <3>1, <3>3, DerivedHas
    <3>. QED  BY <3>1, <3>4 DEF Closed
  <2>9. k \in WithText(g)
    BY <2>8 DEF WithText
  <2>10. Least(g, k) \in Nat /\ Least(g, k) <= q[Len(r)]
    BY <2>8, <2>9, LeastFacts
  <2>11. CASE x = Least(g, k)
    <3>1. x = q[Len(r)]
      BY <2>7, <2>10, <2>11
    <3>2. ASSUME NEW i \in 1..Len(r)  PROVE c[i] \in TokenLengths(r[i], lens)
      <4>1. CASE r[i] \in Keys
        <5>1. c[i] \in Q[r[i]]
          BY <2>7, <3>1, <4>1 DEF TokenLengths
        <5>2. c[i] = Least(g, r[i]) /\ c[i] \in Nat
          BY <2>4, <4>1
        <5>3. r[i] \in WithShortest(g, lens)
          BY <1>2, <4>1, <5>1, <5>2
        <5>. QED  BY <4>1, <5>2, <5>3 DEF WithShortest, TokenLengths
      <4>2. CASE r[i] \notin Keys
        BY <2>4, <4>2
      <4>. QED  BY <4>1, <4>2
    <3>3. Splits(r, lens, c, q)
      BY <2>5, <2>6, <3>2 DEF Splits
    <3>4. x \in RuleLengths(r, lens)
      BY <2>2, <3>1, <3>3, RuleSplits
    <3>5. x \in Derived(g, lens)[k]
      BY <3>4, DerivedHas
    <3>6. k \in WithShortest(g, Derived(g, lens))
      BY <2>9, <2>11, <3>5 DEF WithShortest
    <3>. QED  BY <1>2, <2>7, <2>9, <2>11, <3>6
  <2>12. CASE x # Least(g, k)
    <3>1. x > Least(g, k)
      BY <2>7, <2>10, <2>12
    <3>. QED  BY <1>2, <2>7, <2>9, <3>1
  <2>. QED  BY <2>11, <2>12
<1>4. \A k \in Keys : AllLengths(g)[k] \subseteq Q[k]
  BY <1>1, <1>3, AllFacts DEF Closed
<1>5. ASSUME NEW k \in WithText(g)  PROVE k \in WithShortest(g, lens)
  <2>1. k \in Keys /\ Least(g, k) \in AllLengths(g)[k] /\ Least(g, k) \in Nat
    BY LeastFacts
  <2>2. Least(g, k) \in Q[k]
    BY <1>4, <2>1
  <2>. QED  BY <1>2, <2>1, <2>2
<1>. QED  BY <1>5 DEF WithShortest

(* A shortest tree need not be deeper than the number of keys.             *)
LEMMA ShortestSoon ==
  ASSUME NEW g \in Grammar, NEW k \in WithText(g)
  PROVE  Least(g, k) \in Lengths(g)[k]
<1>. DEFINE n == Cardinality(Keys)
<1>1. PICK u : Depths(g, u)
  BY LengthsRow
<1>2. n \in Nat /\ IsFiniteSet(Keys)
  BY KeysFinite
<1>. DEFINE w == [d \in 0..n |-> WithShortest(g, u[d])]
<1>3. \A d \in 0..n : w[d] \subseteq Keys /\ w[d] = WithShortest(g, u[d])
  BY DEF WithShortest, WithText
<1>4. ASSUME NEW d \in 0..(n - 1)
      PROVE  /\ d \in 0..n /\ d + 1 \in 0..n /\ w[d + 1] = WithShortest(g, Derived(g, u[d]))
             /\ u[d] \in Lens /\ w[d] \subseteq w[d + 1]
  <2>1. d + 1 \in 1..n /\ (d + 1) - 1 = d /\ d \in 0..n /\ d + 1 \in 0..n
    BY <1>2
  <2>2. u[d + 1] = Derived(g, u[d]) /\ u[d] \in Lens
    BY <1>1, <2>1 DEF Depths
  <2>3. \A j \in Keys : u[d][j] \subseteq u[d + 1][j]
    BY <1>1, <2>1, <2>2, DepthsGrow
  <2>4. w[d] = WithShortest(g, u[d]) /\ w[d + 1] = WithShortest(g, u[d + 1])
    BY <2>1
  <2>5. WithShortest(g, u[d]) \subseteq WithShortest(g, u[d + 1])
    BY <2>3 DEF WithShortest, WithText
  <2>. QED  BY <2>1, <2>2, <2>4, <2>5
<1>. HIDE DEF w
<1>5. w[n] = Keys \/ \E d \in 0..(n - 1) : w[d] = w[d + 1]
  <2>1. \A d \in 0..n : w[d] \subseteq Keys
    BY <1>3
  <2>2. \A d \in 0..(n - 1) : w[d] \subseteq w[d + 1]
    BY <1>4
  <2>. QED  BY <1>2, <2>1, <2>2, Chain
<1>6. n \in 0..n
  BY <1>2
<1>7. CASE w[n] = Keys
  <2>1. k \in WithShortest(g, u[n])
    BY <1>3, <1>6, <1>7 DEF WithText
  <2>. QED  BY <1>1, <2>1 DEF WithShortest, Depths
<1>8. ASSUME NEW d \in 0..(n - 1), w[d] = w[d + 1]  PROVE Least(g, k) \in Lengths(g)[k]
  <2>1. w[d] = WithText(g)
    BY <1>3, <1>4, <1>8, NoNewShortest
  <2>. DEFINE P == {m \in Nat : d + m <= n => k \in w[d + m]}
  <2>2. 0 \in P
    BY <2>1
  <2>3. ASSUME NEW m \in 0..(n - 1), m \in P  PROVE m + 1 \in P
    <3>1. m \in Nat /\ m + 1 \in Nat /\ d \in Nat
      BY <1>2
    <3>2. SUFFICES ASSUME d + (m + 1) <= n  PROVE k \in w[d + (m + 1)]
      BY <3>1
    <3>3. d + m \in 0..(n - 1) /\ (d + m) + 1 = d + (m + 1) /\ d + m <= n
      BY <1>2, <3>1, <3>2
    <3>4. k \in w[d + m]
      BY <2>3, <3>3
    <3>5. w[d + m] \subseteq w[(d + m) + 1]
      BY <1>4, <3>3
    <3>. QED  BY <3>3, <3>4, <3>5
  <2>4. n - d \in P
    <3>1. n - d \in 0..n
      BY <1>2
    <3>. HIDE DEF P
    <3>. QED  BY <1>2, <2>2, <2>3, <3>1, UpTo
  <2>5. k \in w[n]
    <3>1. d + (n - d) = n
      BY <1>2
    <3>2. d + (n - d) <= n => k \in w[d + (n - d)]
      BY <2>4
    <3>3. n <= n
      BY <1>2
    <3>. QED  BY <3>1, <3>2, <3>3
  <2>6. k \in WithShortest(g, u[n])
    BY <1>3, <1>6, <2>5
  <2>. QED  BY <1>1, <2>6 DEF WithShortest, Depths
<1>. QED  BY <1>5, <1>7, <1>8
LEMMA LengthsFacts ==
  ASSUME NEW g \in Grammar
  PROVE  /\ Lengths(g) \in Lens
         /\ \A k \in Keys : /\ Lengths(g)[k] \subseteq Derived(g, Lengths(g))[k]
                            /\ Lengths(g)[k] \subseteq AllLengths(g)[k]
                            /\ Lengths(g)[k] \in SUBSET Nat
<1>1. PICK u : Depths(g, u)
  BY LengthsRow
<1>2. Cardinality(Keys) \in 0..Cardinality(Keys)
  BY KeysFinite
<1>3. Lengths(g) \in Lens
  BY <1>1, <1>2 DEF Depths
<1>4. Lengths(g) = u[Cardinality(Keys)]
  BY <1>1 DEF Depths
<1>5. \A k \in Keys : /\ Lengths(g)[k] \subseteq Derived(g, Lengths(g))[k]
                      /\ Lengths(g)[k] \subseteq AllLengths(g)[k]
  BY <1>1, <1>2, <1>4, DepthsGrow, DepthsInAll
<1>. QED  BY <1>3, <1>5 DEF Lens

(* The least lengths are exact: no rule gives less.                        *)
LEMMA MinLenFacts ==
  ASSUME NEW g \in Grammar
  PROVE  /\ \A k \in Productive(g) :
              /\ k \in Keys /\ MinLen(g)[k] \in Nat /\ MinLen(g)[k] \in Lengths(g)[k]
              /\ MinLen(g)[k] = Min(Lengths(g)[k])
              /\ \A x \in Lengths(g)[k] : MinLen(g)[k] <= x
         /\ \A k \in Keys : \A r \in Range(g[k]) : \A x \in RuleLengths(r, Lengths(g)) :
              k \in Productive(g) /\ x \in Nat /\ MinLen(g)[k] <= x
<1>1. ASSUME NEW k \in Productive(g)
      PROVE  /\ k \in Keys /\ MinLen(g)[k] \in Nat /\ MinLen(g)[k] \in Lengths(g)[k]
             /\ MinLen(g)[k] = Min(Lengths(g)[k])
             /\ \A x \in Lengths(g)[k] : MinLen(g)[k] <= x
  <2>1. k \in Keys /\ Lengths(g)[k] # {} /\ MinLen(g)[k] = Min(Lengths(g)[k])
    BY DEF Productive, MinLen
  <2>2. Lengths(g)[k] \in SUBSET Nat
    BY <2>1, LengthsFacts
  <2>. QED  BY <2>1, <2>2, MinFacts
<1>2. ASSUME NEW k \in Keys, NEW r \in Range(g[k]), NEW x \in RuleLengths(r, Lengths(g))
      PROVE  k \in Productive(g) /\ x \in Nat /\ MinLen(g)[k] <= x
  <2>1. r \in Seq(Tokens)
    BY GrammarRules
  <2>2. /\ Lengths(g) \in Lens /\ AllLengths(g) \in Lens
        /\ \A j \in Keys : Lengths(g)[j] \subseteq AllLengths(g)[j]
    BY LengthsFacts, AllFacts
  <2>3. x \in RuleLengths(r, AllLengths(g))
    BY <2>1, <2>2, RuleMonotone
  <2>4. x \in Derived(g, AllLengths(g))[k]
    BY <2>2, <2>3, DerivedHas
  <2>5. x \in AllLengths(g)[k]
    BY <2>4, AllFacts DEF Closed
  <2>6. k \in WithText(g)
    BY <2>5 DEF WithText
  <2>7. Least(g, k) \in Lengths(g)[k] /\ Least(g, k) <= x /\ x \in Nat /\ Least(g, k) \in Nat
    BY <2>5, <2>6, ShortestSoon, LeastFacts
  <2>8. k \in Productive(g)
    BY <2>7 DEF Productive
  <2>9. MinLen(g)[k] <= Least(g, k) /\ MinLen(g)[k] \in Nat
    BY <1>1, <2>7, <2>8
  <2>. QED  BY <2>7, <2>8, <2>9
<1>. QED  BY <1>1, <1>2

-----------------------------------------------------------------------------
(* The generated functions: costs *)

LEMMA CostFacts ==
  ASSUME NEW g \in PooledGrammars, NEW k \in Keys
  PROVE  /\ g \in Grammar /\ Len(g[k]) \in Nat /\ 1 \in 1..Len(g[k])
         /\ \A i \in 1..Len(g[k]) :
              /\ Costs(g)[k][i] \in RuleLengths(g[k][i], Lengths(g))
              /\ Costs(g)[k][i] \in Nat /\ Costs(g)[k][i] <= MaxTreeLen
              /\ Costs(g)[k][1] <= Costs(g)[k][i]
         /\ \A x \in Lengths(g)[k] : Costs(g)[k][1] <= x
<1>1. /\ g \in Grammar /\ Productive(g) = Keys /\ MaxTreeLen \in Nat
      /\ \A i, j \in DOMAIN g[k] : i < j =>
            Min(RuleLengths(g[k][i], Lengths(g))) <= Min(RuleLengths(g[k][j], Lengths(g)))
      /\ \A r \in Range(g[k]) : \E n \in RuleLengths(r, Lengths(g)) : n <= MaxTreeLen
  BY PooledAssumption DEF HasPool
<1>2. /\ Len(g[k]) \in Nat /\ DOMAIN g[k] = 1..Len(g[k])
      /\ \A i \in 1..Len(g[k]) : g[k][i] \in Seq(Tokens) /\ g[k][i] \in Range(g[k])
      /\ \A r \in Range(g[k]) : r \in Seq(Tokens) /\ \E i \in 1..Len(g[k]) : r = g[k][i]
  BY <1>1, GrammarRules
<1>3. ASSUME NEW i \in 1..Len(g[k])
      PROVE  /\ Costs(g)[k][i] = Min(RuleLengths(g[k][i], Lengths(g)))
             /\ Costs(g)[k][i] \in RuleLengths(g[k][i], Lengths(g))
             /\ Costs(g)[k][i] \in Nat
             /\ \A x \in RuleLengths(g[k][i], Lengths(g)) : Costs(g)[k][i] <= x
             /\ Costs(g)[k][i] <= MaxTreeLen
  <2>1. Costs(g)[k][i] = Min(RuleLengths(g[k][i], Lengths(g)))
    BY <1>2 DEF Costs
  <2>2. RuleLengths(g[k][i], Lengths(g)) \in SUBSET Nat
    BY <1>1, <1>2, LengthsFacts, RuleSplits
  <2>3. PICK n \in RuleLengths(g[k][i], Lengths(g)) : n <= MaxTreeLen
    BY <1>1, <1>2
  <2>. DEFINE S == RuleLengths(g[k][i], Lengths(g))
  <2>4. S \in SUBSET Nat /\ S # {}
    BY <2>2, <2>3
  <2>. HIDE DEF S
  <2>5. Min(S) \in S /\ Min(S) \in Nat /\ \A x \in S : Min(S) <= x
    BY <2>4, MinFacts
  <2>6. Min(S) <= n /\ n \in Nat
    BY <2>3, <2>4, <2>5 DEF S
  <2>7. Min(S) <= MaxTreeLen
    BY <1>1, <2>3, <2>5, <2>6
  <2>. QED  BY <2>1, <2>5, <2>7 DEF S
<1>4. ASSUME NEW i \in 1..Len(g[k])  PROVE Costs(g)[k][1] <= Costs(g)[k][i]
  <2>1. 1 \in 1..Len(g[k])
    BY <1>2
  <2>2. CASE i = 1
    BY <1>3, <2>2
  <2>3. CASE i # 1
    <3>1. 1 < i
      BY <2>3
    <3>2. 1 \in DOMAIN g[k] /\ i \in DOMAIN g[k]
      BY <1>2, <2>1
    <3>3. Min(RuleLengths(g[k][1], Lengths(g))) <= Min(RuleLengths(g[k][i], Lengths(g)))
      BY <1>1, <3>1, <3>2
    <3>4. /\ Costs(g)[k][1] = Min(RuleLengths(g[k][1], Lengths(g)))
          /\ Costs(g)[k][i] = Min(RuleLengths(g[k][i], Lengths(g)))
      BY <1>3, <2>1
    <3>. QED  BY <3>3, <3>4
  <2>. QED  BY <2>2, <2>3
<1>5. ASSUME NEW x \in Lengths(g)[k]  PROVE 1 \in 1..Len(g[k]) /\ Costs(g)[k][1] <= x
  <2>1. x \in Derived(g, Lengths(g))[k] /\ Lengths(g) \in Lens
    BY <1>1, LengthsFacts
  <2>2. PICK r \in Range(g[k]) : x \in RuleLengths(r, Lengths(g))
    BY <1>1, <2>1, DerivedHas
  <2>3. PICK i \in 1..Len(g[k]) : r = g[k][i]
    BY <1>2
  <2>4. 1 \in 1..Len(g[k])
    BY <1>2
  <2>5. Costs(g)[k][i] <= x /\ x \in Nat
    <3>1. x \in Nat
      BY <1>1, <1>2, <2>1, <2>2, RuleSplits
    <3>. QED  BY <1>3, <2>2, <2>3, <3>1
  <2>6. Costs(g)[k][1] <= Costs(g)[k][i]
    BY <1>4
  <2>7. Costs(g)[k][1] \in Nat /\ Costs(g)[k][i] \in Nat
    BY <1>3, <2>4
  <2>8. Costs(g)[k][1] <= x
    BY <2>5, <2>6, <2>7
  <2>. QED  BY <2>4, <2>8
<1>6. Lengths(g)[k] # {}
  BY <1>1 DEF Productive
<1>. QED  BY <1>1, <1>2, <1>3, <1>5, <1>6, <1>4

TokenCost(c, token) == IF token \in Keys THEN c[token][1] ELSE TermLens[token]

RuleCosts(c, r) == [i \in 1..Len(r) |-> TokenCost(c, r[i])]

(* What the first i tokens of a rule cost.                                 *)
Spent(c, r) == CHOOSE p : Adds(RuleCosts(c, r), p, Len(r))

LEMMA AddsGrow ==
  ASSUME NEW n \in Nat, NEW v \in [1..n -> Nat], NEW p, Adds(v, p, n)
  PROVE  \A i \in 0..n : p[i] <= p[n]
<1>. DEFINE P == {m \in Nat : \A i \in 0..m : p[i] <= p[m]}
<1>1. 0 \in P
  BY DEF Adds
<1>2. ASSUME NEW m \in 0..(n - 1), m \in P  PROVE m + 1 \in P
  <2>1. m \in Nat /\ m + 1 \in Nat /\ m + 1 \in 1..n /\ m \in 0..n /\ (m + 1) - 1 = m
    OBVIOUS
  <2>2. p[m + 1] = p[m] + v[m + 1] /\ p[m] \in Nat /\ v[m + 1] \in Nat
    BY <2>1 DEF Adds
  <2>3. ASSUME NEW i \in 0..(m + 1)  PROVE p[i] <= p[m + 1]
    <3>1. CASE i = m + 1
      BY <2>2, <3>1
    <3>2. CASE i # m + 1
      <4>1. i \in 0..m /\ i \in 0..n
        BY <2>1, <3>2
      <4>2. p[i] <= p[m] /\ p[i] \in Nat
        BY <1>2, <4>1 DEF Adds
      <4>. QED  BY <2>2, <4>2
    <3>. QED  BY <3>1, <3>2
  <2>. QED  BY <2>1, <2>3
<1>3. n \in P
  <2>1. n \in 0..n
    OBVIOUS
  <2>. HIDE DEF P
  <2>. QED  BY <1>1, <1>2, <2>1, UpTo
<1>. QED  BY <1>3

LEMMA SpentFacts ==
  ASSUME NEW g \in PooledGrammars, NEW k \in Keys, NEW j \in 1..Len(g[k])
  PROVE  LET r == g[k][j]  p == Spent(Costs(g), r) IN
         /\ r \in Seq(Tokens) /\ Len(r) \in Nat
         /\ p[0] = 0 /\ p[Len(r)] <= Costs(g)[k][j]
         /\ \A i \in 0..Len(r) : p[i] \in Nat /\ p[i] <= p[Len(r)]
         /\ \A i \in 1..Len(r) : /\ TokenCost(Costs(g), r[i]) \in Nat
                                 /\ p[i] = p[i - 1] + TokenCost(Costs(g), r[i])
<1>. DEFINE r == g[k][j]  p == Spent(Costs(g), r)  c == RuleCosts(Costs(g), r)
<1>1. g \in Grammar /\ Lengths(g) \in Lens
  BY CostFacts, LengthsFacts
<1>2. r \in Seq(Tokens) /\ Len(r) \in Nat
  BY <1>1, GrammarRules
<1>3. ASSUME NEW i \in 1..Len(r)
      PROVE  /\ c[i] = TokenCost(Costs(g), r[i]) /\ c[i] \in Nat
             /\ \A x \in TokenLengths(r[i], Lengths(g)) : c[i] <= x
  <2>1. c[i] = TokenCost(Costs(g), r[i])
    BY DEF RuleCosts
  <2>2. CASE r[i] \in Keys
    <3>1. Costs(g)[r[i]][1] \in Nat /\ \A x \in Lengths(g)[r[i]] : Costs(g)[r[i]][1] <= x
      BY <2>2, CostFacts
    <3>. QED  BY <2>1, <2>2, <3>1 DEF TokenCost, TokenLengths
  <2>3. CASE r[i] \notin Keys
    <3>1. TermLens[r[i]] \in Nat
      BY <1>2, <2>3, KeysAssumption DEF Tokens
    <3>. QED  BY <2>1, <2>3, <3>1 DEF TokenCost, TokenLengths
  <2>. QED  BY <2>2, <2>3
<1>4. c \in [1..Len(r) -> Nat]
  <2>1. c = [i \in 1..Len(r) |-> c[i]]
    BY DEF RuleCosts
  <2>. HIDE DEF c
  <2>. QED  BY <1>3, <2>1
<1>5. Adds(c, p, Len(r))
  <2>1. \E q : Adds(c, q, Len(r))
    <3>. HIDE DEF c, r
    <3>. QED  BY <1>2, <1>4, AddsExist
  <2>. QED  BY <2>1 DEF Spent
<1>6. Costs(g)[k][j] \in RuleLengths(r, Lengths(g))
  BY CostFacts
<1>. HIDE DEF r, p, c
<1>7. p[Len(r)] <= Costs(g)[k][j]
  <2>1. \A i \in 1..Len(r) : \A x \in TokenLengths(r[i], Lengths(g)) : c[i] <= x
    BY <1>3
  <2>. QED  BY <1>1, <1>2, <1>4, <1>5, <1>6, <2>1, RuleAtLeast
<1>8. \A i \in 0..Len(r) : p[i] \in Nat /\ p[i] <= p[Len(r)]
  <2>1. \A i \in 0..Len(r) : p[i] <= p[Len(r)]
    BY <1>2, <1>4, <1>5, AddsGrow
  <2>2. \A i \in 0..Len(r) : p[i] \in Nat
    BY <1>5 DEF Adds
  <2>. QED  BY <2>1, <2>2
<1>9. \A i \in 1..Len(r) : /\ TokenCost(Costs(g), r[i]) \in Nat
                           /\ p[i] = p[i - 1] + TokenCost(Costs(g), r[i])
  <2>1. \A i \in 1..Len(r) : p[i] = p[i - 1] + c[i]
    BY <1>5 DEF Adds
  <2>. QED  BY <1>3, <2>1
<1>10. p[0] = 0
  BY <1>5 DEF Adds
<1>. QED  BY <1>2, <1>7, <1>8, <1>9, <1>10 DEF r, p
-----------------------------------------------------------------------------
(* The generated functions: the stack *)

FrameSet ==
  [key : Keys, max_len : Nat, rule_index : Int, rule : Nat, pos : Nat,
   remaining : Nat, sub : Nat, consumed : Nat, len : Nat]

BodyOf(g, f) == g[f.key][f.rule]

(* What the tokens of a frame's rule behind the first i cost.              *)
Left(g, f, i) ==
  Spent(Costs(g), BodyOf(g, f))[Len(BodyOf(g, f))] - Spent(Costs(g), BodyOf(g, f))[i]

(* A frame that has chosen a rule.                                         *)
Started(g, f) ==
  /\ f.rule \in 1..Len(g[f.key])
  /\ Costs(g)[f.key][f.rule] <= f.max_len
  /\ f.pos \in 1..(Len(BodyOf(g, f)) + 1)
  /\ f.consumed = f.len

(* The frame that runs: what it has consumed, what remains and what is set *)
(* aside for the tokens to come keep its limit.                            *)
Runs(g, f) ==
  IF f.rule = 0 THEN f.pos = 1 /\ f.consumed = 0 /\ f.len = 0
  ELSE Started(g, f) /\ f.consumed + f.remaining + Left(g, f, f.pos - 1) <= f.max_len

(* Frame f waits for its subnode h.                                        *)
Waits(g, f, h) ==
  /\ Started(g, f)
  /\ f.pos <= Len(BodyOf(g, f)) /\ BodyOf(g, f)[f.pos] = h.key
  /\ f.consumed + f.remaining + Left(g, f, f.pos) <= f.max_len
  /\ Costs(g)[h.key][1] <= h.max_len /\ h.max_len <= f.remaining
  /\ h.rule_index = -1

SameCall(f, h) == f.key = h.key /\ f.max_len = h.max_len /\ f.rule_index = h.rule_index

StackOK(g, c, s) ==
  /\ s \in Seq(FrameSet) /\ s # <<>>
  /\ SameCall(s[1], c)
  /\ \A i \in 1..(Len(s) - 1) : Waits(g, s[i], s[i + 1])
  /\ Runs(g, s[Len(s)])

(* The result.                                                             *)
ResultOK(g, c, d) ==
  /\ d.len \in Nat
  /\ IF c.max_len >= Costs(g)[c.key][1]
     THEN d.len <= c.max_len /\ d.consumed = d.len
     ELSE d.len = Costs(g)[c.key][1]

GenInv ==
  /\ rules \in PooledGrammars
  /\ min_rule_cost = Costs(rules)
  /\ call \in Calls(rules)
  /\ \/ StackOK(rules, call, stack) /\ done = NoResult
     \/ stack = <<>> /\ ResultOK(rules, call, done)

LEMMA WaitsSame ==
  ASSUME NEW g, NEW f, NEW h, NEW t, SameCall(h, t), Waits(g, f, h)
  PROVE  Waits(g, f, t)
BY DEF SameCall, Waits

(* The top frame is changed.                                               *)
LEMMA TopChanged ==
  ASSUME NEW g, NEW c, NEW s, StackOK(g, c, s),
         NEW f \in FrameSet, SameCall(s[Len(s)], f), Runs(g, f)
  PROVE  StackOK(g, c, [s EXCEPT ![Len(s)] = f])
<1>. DEFINE n == Len(s)  t == [s EXCEPT ![n] = f]
<1>1. s \in Seq(FrameSet) /\ n \in Nat /\ n >= 1 /\ n \in 1..n
  BY DEF StackOK
<1>2. /\ t \in Seq(FrameSet) /\ Len(t) = n /\ t # <<>>
      /\ t[n] = f /\ \A i \in 1..n : i # n => t[i] = s[i]
  BY <1>1
<1>. HIDE DEF t, n
<1>3. SameCall(t[1], c)
  <2>1. SameCall(s[1], c) /\ SameCall(s[n], f)
    BY DEF StackOK, n
  <2>2. n = 1 => t[1] = f
    BY <1>2
  <2>3. n # 1 => t[1] = s[1]
    BY <1>1, <1>2
  <2>. QED  BY <2>1, <2>2, <2>3 DEF SameCall
<1>4. ASSUME NEW i \in 1..(n - 1)  PROVE Waits(g, t[i], t[i + 1])
  <2>1. i \in 1..n /\ i # n /\ i + 1 \in 1..n
    BY <1>1
  <2>2. Waits(g, s[i], s[i + 1]) /\ t[i] = s[i]
    BY <1>2, <2>1 DEF StackOK, n
  <2>3. CASE i + 1 = n
    <3>1. SameCall(s[i + 1], f) /\ t[i + 1] = f
      BY <1>2, <2>3 DEF n
    <3>. QED  BY <2>2, <3>1, WaitsSame
  <2>4. CASE i + 1 # n
    <3>1. t[i + 1] = s[i + 1]
      BY <1>2, <2>1, <2>4
    <3>. QED  BY <2>2, <3>1
  <2>. QED  BY <2>3, <2>4
<1>. QED  BY <1>2, <1>3, <1>4 DEF StackOK, t, n

(* A call.                                                                 *)
LEMMA Pushed ==
  ASSUME NEW g, NEW c, NEW s, StackOK(g, c, s),
         NEW f \in FrameSet, SameCall(s[Len(s)], f),
         NEW h \in FrameSet, Waits(g, f, h), Runs(g, h)
  PROVE  StackOK(g, c, Append([s EXCEPT ![Len(s)] = f], h))
<1>. DEFINE n == Len(s)  t == [s EXCEPT ![n] = f]  u == Append(t, h)
<1>1. s \in Seq(FrameSet) /\ n \in Nat /\ n >= 1 /\ n \in 1..n
  BY DEF StackOK
<1>2. /\ t \in Seq(FrameSet) /\ Len(t) = n
      /\ t[n] = f /\ \A i \in 1..n : i # n => t[i] = s[i]
  BY <1>1
<1>. HIDE DEF t, n
<1>3. /\ u \in Seq(FrameSet) /\ Len(u) = n + 1 /\ u # <<>>
      /\ u[n + 1] = h /\ \A i \in 1..n : u[i] = t[i]
  BY <1>1, <1>2
<1>. HIDE DEF u
<1>4. SameCall(u[1], c)
  <2>1. SameCall(s[1], c) /\ SameCall(s[n], f) /\ u[1] = t[1]
    BY <1>1, <1>3 DEF StackOK, n
  <2>2. n = 1 => t[1] = f
    BY <1>2
  <2>3. n # 1 => t[1] = s[1]
    BY <1>1, <1>2
  <2>. QED  BY <2>1, <2>2, <2>3 DEF SameCall
<1>5. ASSUME NEW i \in 1..n  PROVE Waits(g, u[i], u[i + 1])
  <2>1. CASE i = n
    BY <1>1, <1>2, <1>3, <2>1
  <2>2. CASE i # n
    <3>1. i \in 1..(n - 1) /\ i + 1 \in 1..n
      BY <1>1, <2>2
    <3>2. Waits(g, s[i], s[i + 1]) /\ u[i] = s[i] /\ u[i + 1] = t[i + 1]
      BY <1>2, <1>3, <2>2, <3>1 DEF StackOK, n
    <3>3. CASE i + 1 = n
      <4>1. SameCall(s[i + 1], f) /\ t[i + 1] = f
        BY <1>2, <3>3 DEF n
      <4>. QED  BY <3>2, <4>1, WaitsSame
    <3>4. CASE i + 1 # n
      <4>1. t[i + 1] = s[i + 1]
        BY <1>2, <3>1, <3>4
      <4>. QED  BY <3>2, <4>1
    <3>. QED  BY <3>3, <3>4
  <2>. QED  BY <2>1, <2>2
<1>6. (n + 1) - 1 = n
  BY <1>1
<1>. QED  BY <1>3, <1>4, <1>5, <1>6 DEF StackOK, t, n, u

(* A return to the caller.                                                 *)
LEMMA Popped ==
  ASSUME NEW g, NEW c, NEW s, StackOK(g, c, s), Len(s) # 1,
         NEW f \in FrameSet, SameCall(s[Len(s) - 1], f), Runs(g, f)
  PROVE  StackOK(g, c, Append(SubSeq(s, 1, Len(s) - 2), f))
<1>. DEFINE n == Len(s)  m == n - 1  t == SubSeq(s, 1, n - 2)  u == Append(t, f)
<1>1. s \in Seq(FrameSet) /\ n \in Nat /\ n >= 2 /\ m \in Nat /\ m >= 1 /\ n - 2 = m - 1
      /\ m - 1 \in Nat
  <2>1. s \in Seq(FrameSet) /\ s # <<>>
    BY DEF StackOK
  <2>2. n \in Nat /\ n # 0 /\ n # 1
    BY <2>1
  <2>. HIDE DEF n
  <2>. QED  BY <2>1, <2>2
<1>2. t \in Seq(FrameSet) /\ Len(t) = m - 1 /\ \A i \in 1..(m - 1) : t[i] = s[i]
  BY <1>1
<1>. HIDE DEF t
<1>3. /\ u \in Seq(FrameSet) /\ Len(u) = m /\ u # <<>>
      /\ u[m] = f /\ \A i \in 1..(m - 1) : u[i] = s[i]
  <2>1. u \in Seq(FrameSet) /\ Len(u) = Len(t) + 1 /\ u[Len(t) + 1] = f
        /\ \A i \in 1..Len(t) : u[i] = t[i]
    <3>. HIDE DEF m
    <3>. QED  BY <1>2
  <2>2. (m - 1) + 1 = m /\ Len(t) = m - 1
    BY <1>1, <1>2
  <2>3. u # <<>>
    BY <1>1, <2>1
  <2>. HIDE DEF m, u
  <2>. QED  BY <1>2, <2>1, <2>2, <2>3
<1>4. SameCall(s[m], f)
  OBVIOUS
<1>. HIDE DEF u, m
<1>5. SameCall(u[1], c)
  <2>1. SameCall(s[1], c)
    BY DEF StackOK
  <2>2. m = 1 => u[1] = f
    BY <1>3
  <2>3. m # 1 => u[1] = s[1]
    BY <1>1, <1>3
  <2>. QED  BY <1>4, <2>1, <2>2, <2>3 DEF SameCall
<1>6. ASSUME NEW i \in 1..(m - 1)  PROVE Waits(g, u[i], u[i + 1])
  <2>1. i \in 1..(n - 1) /\ i + 1 \in 1..m
    BY <1>1 DEF m
  <2>2. Waits(g, s[i], s[i + 1]) /\ u[i] = s[i]
    BY <1>3, <2>1 DEF StackOK
  <2>3. CASE i + 1 = m
    <3>1. SameCall(s[i + 1], f) /\ u[i + 1] = f
      BY <1>3, <1>4, <2>3
    <3>. QED  BY <2>2, <3>1, WaitsSame
  <2>4. CASE i + 1 # m
    <3>1. i + 1 \in 1..(m - 1)
      BY <1>1, <2>1, <2>4
    <3>2. u[i + 1] = s[i + 1]
      BY <1>3, <3>1
    <3>. QED  BY <2>2, <3>2
  <2>. QED  BY <2>3, <2>4
<1>. QED  BY <1>3, <1>5, <1>6 DEF StackOK, t, m, n, u
LEMMA LeftFacts ==
  ASSUME NEW g \in PooledGrammars, NEW f \in FrameSet, f.rule \in 1..Len(g[f.key])
  PROVE  LET b == BodyOf(g, f) IN
         /\ b \in Seq(Tokens) /\ Len(b) \in Nat
         /\ \A i \in 0..Len(b) : Left(g, f, i) \in Nat
         /\ Left(g, f, Len(b)) = 0
         /\ Left(g, f, 0) <= Costs(g)[f.key][f.rule]
         /\ \A i \in 1..Len(b) : /\ TokenCost(Costs(g), b[i]) \in Nat
                                 /\ Left(g, f, i - 1) = Left(g, f, i) + TokenCost(Costs(g), b[i])
<1>. DEFINE b == BodyOf(g, f)  p == Spent(Costs(g), b)  n == Len(b)
<1>1. f.key \in Keys
  BY DEF FrameSet
<1>2. /\ b \in Seq(Tokens) /\ n \in Nat
      /\ p[0] = 0 /\ p[n] <= Costs(g)[f.key][f.rule]
      /\ \A i \in 0..n : p[i] \in Nat /\ p[i] <= p[n]
      /\ \A i \in 1..n : /\ TokenCost(Costs(g), b[i]) \in Nat
                         /\ p[i] = p[i - 1] + TokenCost(Costs(g), b[i])
  BY <1>1, SpentFacts DEF BodyOf
<1>3. \A i : Left(g, f, i) = p[n] - p[i]
  BY DEF Left
<1>. HIDE DEF b, p, n
<1>4. n \in 0..n /\ 0 \in 0..n
  BY <1>2
<1>5. ASSUME NEW i \in 0..n  PROVE Left(g, f, i) \in Nat
  <2>1. p[i] \in Nat /\ p[n] \in Nat /\ p[i] <= p[n]
    BY <1>2, <1>4
  <2>. QED  BY <1>3, <2>1
<1>6. Left(g, f, n) = 0
  <2>1. p[n] \in Nat
    BY <1>2, <1>4
  <2>. QED  BY <1>3, <2>1
<1>7. Left(g, f, 0) <= Costs(g)[f.key][f.rule]
  <2>1. p[n] \in Nat
    BY <1>2, <1>4
  <2>2. p[n] - 0 = p[n]
    BY <2>1
  <2>3. Left(g, f, 0) = p[n]
    BY <1>2, <1>3, <2>2
  <2>. QED  BY <1>2, <2>3
<1>8. ASSUME NEW i \in 1..n
      PROVE  /\ TokenCost(Costs(g), b[i]) \in Nat
             /\ Left(g, f, i - 1) = Left(g, f, i) + TokenCost(Costs(g), b[i])
  <2>1. i \in 0..n /\ i - 1 \in 0..n
    BY <1>2
  <2>2. p[i] \in Nat /\ p[i - 1] \in Nat /\ p[n] \in Nat
    BY <1>2, <1>4, <2>1
  <2>3. TokenCost(Costs(g), b[i]) \in Nat /\ p[i] = p[i - 1] + TokenCost(Costs(g), b[i])
    BY <1>2
  <2>4. ASSUME NEW x \in Nat, NEW y \in Nat, NEW z \in Nat, NEW c \in Nat, y = z + c
        PROVE  x - z = (x - y) + c
    BY <2>4
  <2>5. p[n] - p[i - 1] = (p[n] - p[i]) + TokenCost(Costs(g), b[i])
    BY <2>2, <2>3, <2>4
  <2>. QED  BY <1>3, <2>3, <2>5
<1>. QED  BY <1>2, <1>5, <1>6, <1>7, <1>8 DEF b, n

(* Left depends on the rule only.                                          *)
LEMMA LeftSame ==
  ASSUME NEW g, NEW f, NEW h, f.key = h.key, f.rule = h.rule
  PROVE  BodyOf(g, f) = BodyOf(g, h) /\ \A i : Left(g, f, i) = Left(g, h, i)
BY DEF BodyOf, Left

LEMMA TopFacts ==
  ASSUME NEW g, NEW c, NEW s, StackOK(g, c, s)
  PROVE  /\ s \in Seq(FrameSet) /\ s # <<>> /\ Len(s) \in Nat /\ Len(s) >= 1
         /\ s[Len(s)] \in FrameSet /\ Runs(g, s[Len(s)])
         /\ Len(s) = 1 => SameCall(s[Len(s)], c)
         /\ Len(s) # 1 => /\ s[Len(s) - 1] \in FrameSet
                          /\ Waits(g, s[Len(s) - 1], s[Len(s)])
<1>1. s \in Seq(FrameSet) /\ s # <<>> /\ Len(s) \in Nat /\ Len(s) >= 1 /\ Len(s) \in 1..Len(s)
  BY DEF StackOK
<1>2. s[Len(s)] \in FrameSet /\ Runs(g, s[Len(s)]) /\ SameCall(s[1], c)
  BY <1>1 DEF StackOK
<1>3. CASE Len(s) # 1
  <2>1. Len(s) - 1 \in 1..(Len(s) - 1) /\ Len(s) - 1 \in 1..Len(s) /\ (Len(s) - 1) + 1 = Len(s)
    <3>1. ASSUME NEW n \in Nat, n >= 1, n # 1
          PROVE  n - 1 \in 1..(n - 1) /\ n - 1 \in 1..n /\ (n - 1) + 1 = n
      BY <3>1
    <3>. QED  BY <1>1, <1>3, <3>1
  <2>2. s[Len(s) - 1] \in FrameSet
    BY <1>1, <2>1
  <2>3. Waits(g, s[Len(s) - 1], s[(Len(s) - 1) + 1])
    BY <2>1 DEF StackOK
  <2>. QED  BY <1>1, <1>2, <1>3, <2>1, <2>2, <2>3
<1>. QED  BY <1>1, <1>2, <1>3

LEMMA GenInitHolds == GenInit => GenInv
<1>. SUFFICES ASSUME GenInit  PROVE GenInv
  OBVIOUS
<1>1. rules \in PooledGrammars /\ min_rule_cost = Costs(rules) /\ call \in Calls(rules)
      /\ done = NoResult
  BY DEF GenInit
<1>. DEFINE f == Frame(call.key, call.max_len, call.rule_index)
<1>2. call.key \in Keys /\ call.max_len \in Nat /\ call.rule_index \in Int
  <2>1. GrammarKeys[1] \in Keys
    BY KeysAssumption DEF Keys, Range
  <2>2. MaxTreeLen \in Nat
    BY PooledAssumption
  <2>3. \A k \in Keys : DOMAIN rules[k] \subseteq Int
    BY <1>1, CostFacts, GrammarRules
  <2>. QED  BY <1>1, <2>1, <2>2, <2>3 DEF Calls
<1>3. f \in FrameSet /\ SameCall(f, call) /\ f.rule = 0 /\ f.pos = 1 /\ f.consumed = 0 /\ f.len = 0
  BY <1>2 DEF Frame, FrameSet, SameCall
<1>4. Runs(rules, f)
  BY <1>3 DEF Runs
<1>5. stack = <<f>>
  BY DEF GenInit
<1>. HIDE DEF f
<1>6. stack \in Seq(FrameSet) /\ Len(stack) = 1 /\ stack[1] = f /\ stack # <<>>
  BY <1>3, <1>5
<1>7. 1..(Len(stack) - 1) = {}
  BY <1>6
<1>8. StackOK(rules, call, stack)
  BY <1>3, <1>4, <1>6, <1>7 DEF StackOK
<1>. QED  BY <1>1, <1>8 DEF GenInv

(* The pool is drawn from in the outermost call only.                      *)
LEMMA FromPoolHolds ==
  ASSUME GenInv, FromPool
  PROVE  GenInv'
<1>. DEFINE g == rules
<1>1. /\ g \in PooledGrammars /\ min_rule_cost = Costs(g) /\ call \in Calls(g)
      /\ StackOK(g, call, stack) /\ done = NoResult
  BY DEF GenInv, FromPool
<1>2. /\ stack \in Seq(FrameSet) /\ stack # <<>> /\ Len(stack) \in Nat /\ Len(stack) >= 1
      /\ Top \in FrameSet /\ Runs(g, Top)
      /\ Len(stack) = 1 => SameCall(Top, call)
      /\ Len(stack) # 1 => Waits(g, stack[Len(stack) - 1], Top)
  BY <1>1, TopFacts DEF Top
<1>3. Costs(g)[Top.key][1] \in Nat /\ Top.key \in Keys /\ Top.max_len \in Nat
  <2>1. Top.key \in Keys /\ Top.max_len \in Nat
    BY <1>2 DEF FrameSet
  <2>. QED  BY <1>1, <2>1, CostFacts
<1>4. Top.max_len < Costs(g)[Top.key][1]
  BY <1>1 DEF FromPool, min_cost
<1>5. Len(stack) = 1
  <2>. SUFFICES ASSUME Len(stack) # 1  PROVE FALSE
    OBVIOUS
  <2>1. Costs(g)[Top.key][1] <= Top.max_len
    BY <1>2 DEF Waits
  <2>. QED  BY <1>3, <1>4, <2>1
<1>6. stack' = <<>> /\ done' = [len |-> min_cost(Top.key), consumed |-> 0]
  BY <1>5 DEF FromPool, Return
<1>7. call.key = Top.key /\ call.max_len = Top.max_len
  BY <1>2, <1>5 DEF SameCall
<1>8. done'.len = Costs(g)[call.key][1]
  BY <1>1, <1>6, <1>7 DEF min_cost
<1>9. ResultOK(g, call, done')
  <2>1. ~ (call.max_len >= Costs(g)[call.key][1])
    BY <1>3, <1>4, <1>7
  <2>. QED  BY <1>3, <1>7, <1>8, <2>1 DEF ResultOK
<1>10. UNCHANGED <<rules, min_rule_cost, call>>
  BY DEF FromPool
<1>. QED  BY <1>1, <1>6, <1>9, <1>10 DEF GenInv

LEMMA ChooseRuleHolds ==
  ASSUME GenInv, ChooseRule
  PROVE  GenInv'
<1>. DEFINE g == rules
<1>1. /\ g \in PooledGrammars /\ min_rule_cost = Costs(g) /\ call \in Calls(g)
      /\ StackOK(g, call, stack) /\ done = NoResult
  BY DEF GenInv, ChooseRule
<1>2. /\ Len(stack) \in Nat /\ Top \in FrameSet /\ Runs(g, Top)
      /\ Len(stack) = 1 => SameCall(Top, call)
      /\ Len(stack) # 1 => Waits(g, stack[Len(stack) - 1], Top)
  BY <1>1, TopFacts DEF Top
<1>3. Top.key \in Keys /\ Top.max_len \in Nat /\ Top.rule = 0
      /\ Top.pos = 1 /\ Top.consumed = 0 /\ Top.len = 0
  BY <1>2 DEF FrameSet, ChooseRule, Runs
<1>4. /\ DOMAIN g[Top.key] = 1..Len(g[Top.key]) /\ MaxTreeLen \in Nat
      /\ \A i \in 1..Len(g[Top.key]) : Costs(g)[Top.key][i] \in Nat /\ Costs(g)[Top.key][i] <= MaxTreeLen
  <2>1. g \in Grammar
    BY <1>1, PooledAssumption
  <2>. QED  BY <1>1, <1>3, <2>1, CostFacts, GrammarRules, PooledAssumption
<1>5. PICK r \in IF Top.rule_index \in DOMAIN g[Top.key] THEN {Top.rule_index}
                 ELSE RulesThatFit(Top.key, Top.max_len) :
        SetTop([Top EXCEPT !.rule = r,
                           !.remaining = Top.max_len - min_rule_cost[Top.key][r]])
  BY DEF ChooseRule
<1>6. r \in 1..Len(g[Top.key]) /\ Costs(g)[Top.key][r] <= Top.max_len
  <2>1. CASE Top.rule_index \in DOMAIN g[Top.key]
    <3>1. r = Top.rule_index
      BY <1>5, <2>1
    <3>2. Len(stack) = 1
      <4>. SUFFICES ASSUME Len(stack) # 1  PROVE FALSE
        OBVIOUS
      <4>1. Top.rule_index = -1
        BY <1>2 DEF Waits
      <4>. QED  BY <1>4, <2>1, <4>1
    <3>3. call.key = Top.key /\ call.max_len = Top.max_len /\ call.rule_index = Top.rule_index
      BY <1>2, <3>2 DEF SameCall
    <3>4. call.rule_index # -1
      BY <1>4, <2>1, <3>3
    <3>5. call.max_len = MaxTreeLen
      BY <1>1, <3>4 DEF Calls
    <3>. QED  BY <1>4, <2>1, <3>1, <3>3, <3>5
  <2>2. CASE Top.rule_index \notin DOMAIN g[Top.key]
    BY <1>1, <1>4, <1>5, <2>2 DEF RulesThatFit
  <2>. QED  BY <2>1, <2>2
<1>. DEFINE x == Top.max_len - Costs(g)[Top.key][r]
            f == [Top EXCEPT !.rule = r, !.remaining = x]
<1>7. x \in Nat
  BY <1>3, <1>4, <1>6
<1>8. x + Costs(g)[Top.key][r] = Top.max_len /\ r \in Nat /\ r # 0
  BY <1>3, <1>4, <1>6
<1>. HIDE DEF x
<1>9. /\ f \in FrameSet /\ f.key = Top.key /\ f.max_len = Top.max_len
      /\ f.rule_index = Top.rule_index /\ f.rule = r /\ f.pos = Top.pos
      /\ f.consumed = Top.consumed /\ f.len = Top.len /\ f.remaining = x
  BY <1>2, <1>7, <1>8 DEF FrameSet
<1>10. stack' = [stack EXCEPT ![Len(stack)] = f]
  BY <1>1, <1>5 DEF SetTop, x
<1>. HIDE DEF f
<1>11. /\ Len(BodyOf(g, f)) \in Nat /\ Left(g, f, 0) \in Nat
       /\ Left(g, f, 0) <= Costs(g)[f.key][f.rule]
  <2>1. f.rule \in 1..Len(g[f.key])
    BY <1>6, <1>9
  <2>2. /\ Len(BodyOf(g, f)) \in Nat /\ \A i \in 0..Len(BodyOf(g, f)) : Left(g, f, i) \in Nat
        /\ Left(g, f, 0) <= Costs(g)[f.key][f.rule]
    BY <1>1, <1>9, <2>1, LeftFacts
  <2>. QED  BY <2>2
<1>12. Started(g, f)
  BY <1>3, <1>6, <1>9, <1>11 DEF Started
<1>13. f.consumed + f.remaining + Left(g, f, f.pos - 1) <= f.max_len
  <2>1. f.pos - 1 = 0 /\ f.consumed = 0
    BY <1>3, <1>9
  <2>2. Costs(g)[f.key][f.rule] = Costs(g)[Top.key][r] /\ Costs(g)[Top.key][r] \in Nat
    BY <1>4, <1>6, <1>9
  <2>3. 0 + x + Left(g, f, 0) <= Top.max_len
    BY <1>3, <1>7, <1>8, <1>11, <2>2
  <2>. QED  BY <1>9, <2>1, <2>3
<1>14. Runs(g, f)
  BY <1>8, <1>9, <1>12, <1>13 DEF Runs
<1>15. StackOK(g, call, stack')
  <2>1. SameCall(stack[Len(stack)], f)
    BY <1>9 DEF SameCall, Top
  <2>. QED  BY <1>1, <1>9, <1>10, <1>14, <2>1, TopChanged
<1>16. UNCHANGED <<rules, min_rule_cost, call, done>>
  BY DEF ChooseRule
<1>. QED  BY <1>1, <1>15, <1>16 DEF GenInv
(* A frame at a token of its rule.                                         *)
LEMMA AtToken ==
  ASSUME GenInv, stack # <<>>, Top.rule # 0, Top.pos <= Len(Body(Top))
  PROVE  LET g == rules  b == BodyOf(g, Top)  c == TokenCost(Costs(g), b[Top.pos]) IN
         /\ g \in PooledGrammars /\ min_rule_cost = Costs(g) /\ call \in Calls(g)
         /\ StackOK(g, call, stack) /\ done = NoResult
         /\ Top \in FrameSet /\ Started(g, Top) /\ Body(Top) = b
         /\ b \in Seq(Tokens) /\ Top.pos \in 1..Len(b) /\ b[Top.pos] \in Tokens
         /\ c \in Nat /\ Left(g, Top, Top.pos) \in Nat
         /\ Top.consumed + Top.remaining + (Left(g, Top, Top.pos) + c) <= Top.max_len
<1>. DEFINE g == rules  b == BodyOf(g, Top)  c == TokenCost(Costs(g), b[Top.pos])
<1>1. /\ g \in PooledGrammars /\ min_rule_cost = Costs(g) /\ call \in Calls(g)
      /\ StackOK(g, call, stack) /\ done = NoResult
  BY DEF GenInv
<1>2. Top \in FrameSet /\ Runs(g, Top)
  BY <1>1, TopFacts DEF Top
<1>3. Started(g, Top) /\ Top.consumed + Top.remaining + Left(g, Top, Top.pos - 1) <= Top.max_len
  BY <1>2 DEF Runs
<1>4. Body(Top) = b
  BY DEF Body, BodyOf
<1>5. /\ b \in Seq(Tokens) /\ Len(b) \in Nat
      /\ \A i \in 0..Len(b) : Left(g, Top, i) \in Nat
      /\ \A i \in 1..Len(b) : /\ TokenCost(Costs(g), b[i]) \in Nat
                              /\ Left(g, Top, i - 1) = Left(g, Top, i) + TokenCost(Costs(g), b[i])
  <2>1. Top.rule \in 1..Len(g[Top.key])
    BY <1>3 DEF Started
  <2>. QED  BY <1>1, <1>2, <2>1, LeftFacts
<1>6. Top.pos \in 1..(Len(b) + 1) /\ Top.pos <= Len(b)
  BY <1>3, <1>4 DEF Started
<1>7. Top.pos \in 1..Len(b) /\ Top.pos \in 0..Len(b)
  BY <1>5, <1>6
<1>8. c \in Nat /\ Left(g, Top, Top.pos) \in Nat
      /\ Left(g, Top, Top.pos - 1) = Left(g, Top, Top.pos) + c
  BY <1>5, <1>7
<1>9. b[Top.pos] \in Tokens
  BY <1>5, <1>7
<1>. QED  BY <1>1, <1>2, <1>3, <1>4, <1>5, <1>7, <1>8, <1>9

LEMMA TerminalHolds ==
  ASSUME GenInv, Terminal
  PROVE  GenInv'
<1>. DEFINE g == rules  b == BodyOf(g, Top)  n == TermLens[b[Top.pos]]
<1>1. stack # <<>> /\ Top.rule # 0 /\ Top.pos <= Len(Body(Top))
  BY DEF Terminal
<1>2. /\ g \in PooledGrammars /\ min_rule_cost = Costs(g) /\ call \in Calls(g)
      /\ StackOK(g, call, stack) /\ done = NoResult
      /\ Top \in FrameSet /\ Started(g, Top) /\ Body(Top) = b
      /\ Top.pos \in 1..Len(b) /\ b \in Seq(Tokens)
      /\ TokenCost(Costs(g), b[Top.pos]) \in Nat /\ Left(g, Top, Top.pos) \in Nat
      /\ Top.consumed + Top.remaining + (Left(g, Top, Top.pos) + TokenCost(Costs(g), b[Top.pos])) <= Top.max_len
  BY <1>1, AtToken
<1>3. TokenCost(Costs(g), b[Top.pos]) = n
  BY <1>2 DEF Terminal, TokenCost
<1>4. stack' = [stack EXCEPT ![Len(stack)] =
                  [Top EXCEPT !.consumed = @ + n, !.len = @ + n, !.pos = @ + 1]]
  BY <1>2 DEF Terminal, SetTop
<1>5. n \in Nat
  BY <1>2, <1>3
<1>. HIDE DEF n
<1>. DEFINE f == [Top EXCEPT !.consumed = @ + n, !.len = @ + n, !.pos = @ + 1]
<1>6. /\ Top.consumed \in Nat /\ Top.len \in Nat /\ Top.pos \in Nat /\ Top.remaining \in Nat
      /\ Top.max_len \in Nat
  BY <1>2 DEF FrameSet
<1>7. /\ f \in FrameSet /\ f.key = Top.key /\ f.max_len = Top.max_len
      /\ f.rule_index = Top.rule_index /\ f.rule = Top.rule /\ f.pos = Top.pos + 1
      /\ f.consumed = Top.consumed + n /\ f.len = Top.len + n /\ f.remaining = Top.remaining
  <2>1. Top.consumed + n \in Nat /\ Top.len + n \in Nat /\ Top.pos + 1 \in Nat
    BY <1>5, <1>6
  <2>. QED  BY <1>2, <2>1 DEF FrameSet
<1>. HIDE DEF f
<1>8. BodyOf(g, f) = b /\ Left(g, f, Top.pos) = Left(g, Top, Top.pos)
  BY <1>7, LeftSame
<1>9. Started(g, f)
  <2>1. Top.pos + 1 \in 1..(Len(b) + 1)
    BY <1>2
  <2>. QED  BY <1>2, <1>7, <1>8, <2>1 DEF Started
<1>10. f.consumed + f.remaining + Left(g, f, f.pos - 1) <= f.max_len
  <2>1. f.pos - 1 = Top.pos
    BY <1>6, <1>7
  <2>2. ASSUME NEW c \in Nat, NEW e \in Nat, NEW l \in Nat, NEW m \in Nat, NEW k \in Nat,
               c + e + (l + k) <= m
        PROVE  (c + k) + e + l <= m
    BY <2>2
  <2>3. (Top.consumed + n) + Top.remaining + Left(g, Top, Top.pos) <= Top.max_len
    BY <1>2, <1>3, <1>5, <1>6, <2>2
  <2>. QED  BY <1>7, <1>8, <2>1, <2>3
<1>11. Runs(g, f)
  BY <1>1, <1>7, <1>9, <1>10 DEF Runs
<1>12. StackOK(g, call, stack')
  <2>1. SameCall(stack[Len(stack)], f)
    BY <1>7 DEF SameCall, Top
  <2>2. stack' = [stack EXCEPT ![Len(stack)] = f]
    BY <1>4 DEF f
  <2>. QED  BY <1>2, <1>7, <1>11, <2>1, <2>2, TopChanged
<1>13. UNCHANGED <<rules, min_rule_cost, call, done>>
  BY DEF Terminal
<1>. QED  BY <1>2, <1>12, <1>13 DEF GenInv

LEMMA SubnodeHolds ==
  ASSUME GenInv, Subnode
  PROVE  GenInv'
<1>. DEFINE g == rules  b == BodyOf(g, Top)  k == b[Top.pos]  m == Costs(g)[k][1]
<1>1. stack # <<>> /\ Top.rule # 0 /\ Top.pos <= Len(Body(Top))
  BY DEF Subnode
<1>2. /\ g \in PooledGrammars /\ min_rule_cost = Costs(g) /\ call \in Calls(g)
      /\ StackOK(g, call, stack) /\ done = NoResult
      /\ Top \in FrameSet /\ Started(g, Top) /\ Body(Top) = b
      /\ Top.pos \in 1..Len(b) /\ b \in Seq(Tokens)
      /\ TokenCost(Costs(g), k) \in Nat /\ Left(g, Top, Top.pos) \in Nat
      /\ Top.consumed + Top.remaining + (Left(g, Top, Top.pos) + TokenCost(Costs(g), k)) <= Top.max_len
  BY <1>1, AtToken
<1>3. k \in Keys
  BY <1>2 DEF Subnode
<1>4. TokenCost(Costs(g), k) = m /\ m = min_cost(k) /\ m \in Nat
  BY <1>2, <1>3 DEF TokenCost, min_cost
<1>5. /\ Top.consumed \in Nat /\ Top.len \in Nat /\ Top.pos \in Nat /\ Top.remaining \in Nat
      /\ Top.max_len \in Nat
  BY <1>2 DEF FrameSet
<1>6. PICK n \in RandomLen(KeysLeft(Top), Top.remaining) :
        stack' = Append([stack EXCEPT ![Len(stack)].remaining = @ + m], Frame(k, n + m, -1))
  BY <1>2, <1>4 DEF Subnode, GivenBack, Share
<1>7. n \in Nat /\ n <= Top.remaining
  BY <1>5 DEF RandomLen
<1>. HIDE DEF m
<1>. DEFINE f == [Top EXCEPT !.remaining = @ + m]
            h == Frame(k, n + m, -1)
<1>8. /\ f \in FrameSet /\ f.key = Top.key /\ f.max_len = Top.max_len
      /\ f.rule_index = Top.rule_index /\ f.rule = Top.rule /\ f.pos = Top.pos
      /\ f.consumed = Top.consumed /\ f.len = Top.len /\ f.remaining = Top.remaining + m
  <2>1. Top.remaining + m \in Nat
    BY <1>4, <1>5
  <2>. QED  BY <1>2, <2>1 DEF FrameSet
<1>9. [stack EXCEPT ![Len(stack)].remaining = @ + m] = [stack EXCEPT ![Len(stack)] = f]
  BY DEF Top
<1>10. n + m \in Nat /\ m <= n + m /\ n + m <= Top.remaining + m
  BY <1>4, <1>5, <1>7
<1>11. /\ h \in FrameSet /\ h.key = k /\ h.max_len = n + m /\ h.rule_index = -1
       /\ h.rule = 0 /\ h.pos = 1 /\ h.consumed = 0 /\ h.len = 0
  BY <1>3, <1>10 DEF Frame, FrameSet
<1>. HIDE DEF f, h
<1>12. Runs(g, h)
  BY <1>11 DEF Runs
<1>13. BodyOf(g, f) = b /\ Left(g, f, f.pos) = Left(g, Top, Top.pos)
  BY <1>8, LeftSame
<1>14. Started(g, f)
  BY <1>2, <1>8, <1>13 DEF Started
<1>15. f.consumed + f.remaining + Left(g, f, f.pos) <= f.max_len
  <2>1. ASSUME NEW c \in Nat, NEW e \in Nat, NEW l \in Nat, NEW w \in Nat, NEW x \in Nat,
               c + e + (l + x) <= w
        PROVE  c + (e + x) + l <= w
    BY <2>1
  <2>2. Top.consumed + (Top.remaining + m) + Left(g, Top, Top.pos) <= Top.max_len
    BY <1>2, <1>4, <1>5, <2>1
  <2>. QED  BY <1>8, <1>13, <2>2
<1>16. Waits(g, f, h)
  <2>1. f.pos <= Len(BodyOf(g, f)) /\ BodyOf(g, f)[f.pos] = h.key
    BY <1>2, <1>8, <1>11, <1>13
  <2>2. Costs(g)[h.key][1] <= h.max_len /\ h.max_len <= f.remaining
    BY <1>8, <1>10, <1>11 DEF m
  <2>. QED  BY <1>11, <1>14, <1>15, <2>1, <2>2 DEF Waits
<1>17. StackOK(g, call, stack')
  <2>1. SameCall(stack[Len(stack)], f)
    BY <1>8 DEF SameCall, Top
  <2>2. stack' = Append([stack EXCEPT ![Len(stack)] = f], h)
    BY <1>6, <1>9 DEF h
  <2>. QED  BY <1>2, <1>8, <1>11, <1>12, <1>16, <2>1, <2>2, Pushed
<1>18. UNCHANGED <<rules, min_rule_cost, call, done>>
  BY DEF Subnode
<1>. QED  BY <1>2, <1>17, <1>18 DEF GenInv

LEMMA EndRuleHolds ==
  ASSUME GenInv, EndRule
  PROVE  GenInv'
<1>. DEFINE g == rules
<1>1. /\ g \in PooledGrammars /\ min_rule_cost = Costs(g) /\ call \in Calls(g)
      /\ StackOK(g, call, stack) /\ done = NoResult
  BY DEF GenInv, EndRule
<1>2. /\ Len(stack) \in Nat /\ Len(stack) >= 1 /\ Top \in FrameSet /\ Runs(g, Top)
      /\ Len(stack) = 1 => SameCall(Top, call)
      /\ Len(stack) # 1 => /\ stack[Len(stack) - 1] \in FrameSet
                           /\ Waits(g, stack[Len(stack) - 1], Top)
  BY <1>1, TopFacts DEF Top
<1>3. Top.rule # 0 /\ Top.pos > Len(Body(Top)) /\ Return(Top.len, Top.consumed, TRUE)
  BY DEF EndRule
<1>4. Started(g, Top) /\ Top.consumed + Top.remaining + Left(g, Top, Top.pos - 1) <= Top.max_len
  BY <1>2, <1>3 DEF Runs
<1>5. Top.consumed \in Nat /\ Top.remaining \in Nat /\ Top.max_len \in Nat /\ Top.key \in Keys
  BY <1>2 DEF FrameSet
<1>6. Top.consumed = Top.len /\ Top.consumed <= Top.max_len
  <2>1. /\ Len(BodyOf(g, Top)) \in Nat /\ Left(g, Top, Len(BodyOf(g, Top))) = 0
    <3>1. Top.rule \in 1..Len(g[Top.key])
      BY <1>4 DEF Started
    <3>. QED  BY <1>1, <1>2, <3>1, LeftFacts
  <2>2. Top.pos - 1 = Len(BodyOf(g, Top))
    <3>1. Top.pos \in 1..(Len(BodyOf(g, Top)) + 1) /\ Top.pos > Len(BodyOf(g, Top))
      BY <1>3, <1>4 DEF Started, Body, BodyOf
    <3>. QED  BY <2>1, <3>1
  <2>3. Top.consumed + Top.remaining + 0 <= Top.max_len
    BY <1>4, <2>1, <2>2
  <2>4. Top.consumed <= Top.max_len
    BY <1>5, <2>3
  <2>. QED  BY <1>4, <2>4 DEF Started
<1>7. UNCHANGED <<rules, min_rule_cost, call>>
  BY DEF EndRule
<1>8. CASE Len(stack) = 1
  <2>1. stack' = <<>> /\ done' = [len |-> Top.len, consumed |-> Top.consumed]
    BY <1>3, <1>8 DEF Return
  <2>2. call.key = Top.key /\ call.max_len = Top.max_len
    BY <1>2, <1>8 DEF SameCall
  <2>3. /\ Costs(g)[Top.key][1] \in Nat /\ \A x \in Lengths(g)[Top.key] : Costs(g)[Top.key][1] <= x
        /\ Costs(g)[Top.key][1] <= Top.max_len
    <3>1. Costs(g)[Top.key][1] \in Nat /\ \A x \in Lengths(g)[Top.key] : Costs(g)[Top.key][1] <= x
      BY <1>1, <1>5, CostFacts
    <3>2. Costs(g)[Top.key][1] <= Costs(g)[Top.key][Top.rule] /\ Costs(g)[Top.key][Top.rule] \in Nat
      BY <1>1, <1>4, <1>5, CostFacts DEF Started
    <3>3. Costs(g)[Top.key][Top.rule] <= Top.max_len
      BY <1>4 DEF Started
    <3>. QED  BY <1>5, <3>1, <3>2, <3>3
  <2>4. ResultOK(g, call, done')
    BY <1>5, <1>6, <2>1, <2>2, <2>3 DEF ResultOK
  <2>. QED  BY <1>1, <1>7, <2>1, <2>4 DEF GenInv
<1>9. CASE Len(stack) # 1
  <2>. DEFINE caller == stack[Len(stack) - 1]
              s == Top.consumed
              l == Top.len
              f == [caller EXCEPT !.sub = s, !.remaining = @ - s, !.consumed = @ + s,
                                  !.len = @ + l, !.pos = @ + 1]
  <2>1. stack' = Append(SubSeq(stack, 1, Len(stack) - 2), f) /\ done' = done
    BY <1>3, <1>9 DEF Return
  <2>2. caller \in FrameSet /\ Waits(g, caller, Top)
    BY <1>2, <1>9
  <2>3. s \in Nat /\ l \in Nat /\ s = l
    BY <1>5, <1>6
  <2>. HIDE DEF caller, s, l
  <2>4. /\ caller.remaining \in Nat /\ caller.consumed \in Nat /\ caller.len \in Nat
        /\ caller.pos \in Nat /\ caller.max_len \in Nat
    BY <2>2 DEF FrameSet
  <2>5. s <= caller.remaining
    <3>1. Top.max_len <= caller.remaining /\ s <= Top.max_len
      BY <1>6, <2>2 DEF Waits, s
    <3>. QED  BY <1>5, <2>3, <2>4, <3>1
  <2>6. caller.remaining - s \in Nat /\ caller.consumed + s \in Nat /\ caller.len + l \in Nat
        /\ caller.pos + 1 \in Nat
    BY <2>3, <2>4, <2>5
  <2>7. /\ f \in FrameSet /\ f.key = caller.key /\ f.max_len = caller.max_len
        /\ f.rule_index = caller.rule_index /\ f.rule = caller.rule /\ f.pos = caller.pos + 1
        /\ f.consumed = caller.consumed + s /\ f.len = caller.len + l
        /\ f.remaining = caller.remaining - s
    BY <2>2, <2>3, <2>6 DEF FrameSet
  <2>. HIDE DEF f
  <2>8. BodyOf(g, f) = BodyOf(g, caller) /\ Left(g, f, caller.pos) = Left(g, caller, caller.pos)
    BY <2>7, LeftSame
  <2>9. /\ Started(g, caller) /\ caller.pos <= Len(BodyOf(g, caller))
        /\ caller.consumed + caller.remaining + Left(g, caller, caller.pos) <= caller.max_len
    BY <2>2 DEF Waits
  <2>10. /\ Len(BodyOf(g, caller)) \in Nat /\ Left(g, caller, caller.pos) \in Nat
         /\ caller.pos \in 1..Len(BodyOf(g, caller)) /\ caller.rule \in 1..Len(g[caller.key])
    <3>1. caller.rule \in 1..Len(g[caller.key]) /\ caller.pos \in 1..(Len(BodyOf(g, caller)) + 1)
      BY <2>9 DEF Started
    <3>2. /\ Len(BodyOf(g, caller)) \in Nat
          /\ \A i \in 0..Len(BodyOf(g, caller)) : Left(g, caller, i) \in Nat
      BY <1>1, <2>2, <3>1, LeftFacts
    <3>3. caller.pos \in 1..Len(BodyOf(g, caller)) /\ caller.pos \in 0..Len(BodyOf(g, caller))
      BY <2>9, <3>1, <3>2
    <3>. QED  BY <3>1, <3>2, <3>3
  <2>11. Started(g, f)
    <3>1. caller.pos + 1 \in 1..(Len(BodyOf(g, caller)) + 1)
      BY <2>10
    <3>2. caller.consumed = caller.len /\ Costs(g)[caller.key][caller.rule] <= caller.max_len
      BY <2>9 DEF Started
    <3>3. f.consumed = f.len
      BY <2>3, <2>7, <3>2
    <3>. QED  BY <2>7, <2>8, <2>10, <3>1, <3>2, <3>3 DEF Started
  <2>12. f.consumed + f.remaining + Left(g, f, f.pos - 1) <= f.max_len
    <3>1. f.pos - 1 = caller.pos
      BY <2>4, <2>7
    <3>2. ASSUME NEW c \in Nat, NEW e \in Nat, NEW t \in Nat, NEW w \in Nat, NEW x \in Nat,
                 c + e + t <= w
          PROVE  (c + x) + (e - x) + t <= w
      BY <3>2
    <3>3. (caller.consumed + s) + (caller.remaining - s) + Left(g, caller, caller.pos) <= caller.max_len
      BY <2>3, <2>4, <2>9, <2>10, <3>2
    <3>. QED  BY <2>7, <2>8, <3>1, <3>3
  <2>13. Runs(g, f)
    <3>1. f.rule # 0
      BY <2>7, <2>10
    <3>. QED  BY <2>11, <2>12, <3>1 DEF Runs
  <2>14. StackOK(g, call, stack')
    <3>1. SameCall(stack[Len(stack) - 1], f)
      BY <2>7 DEF SameCall, caller
    <3>. QED  BY <1>1, <1>9, <2>1, <2>7, <2>13, <3>1, Popped
  <2>. QED  BY <1>1, <1>7, <2>1, <2>14 DEF GenInv
<1>. QED  BY <1>8, <1>9
LEMMA GenStep == GenInv /\ [GenNext]_gen_vars => GenInv'
<1>1. CASE GenInv /\ GenNext
  BY <1>1, FromPoolHolds, ChooseRuleHolds, TerminalHolds, SubnodeHolds, EndRuleHolds DEF GenNext
<1>2. CASE GenInv /\ UNCHANGED gen_vars
  BY <1>2 DEF gen_vars, GenInv
<1>. QED  BY <1>1, <1>2

LEMMA GenInductive == GenSpec => []GenInv
<1>. QED  BY GenInitHolds, GenStep, PTL DEF GenSpec

LEMMA LimitsFollow == GenInv => LimitsKept
<1>. SUFFICES ASSUME GenInv  PROVE LimitsKept
  OBVIOUS
<1>1. min_rule_cost = Costs(rules)
  BY DEF GenInv
<1>2. CASE StackOK(rules, call, stack) /\ done = NoResult
  <2>1. stack \in Seq(FrameSet) /\ Len(stack) \in Nat
    BY <1>2, TopFacts
  <2>2. ASSUME NEW i \in 2..Len(stack)
        PROVE  stack[i].max_len >= min_cost(stack[i].key)
    <3>1. i - 1 \in 1..(Len(stack) - 1) /\ (i - 1) + 1 = i /\ i \in 1..Len(stack)
      BY <2>1
    <3>2. Waits(rules, stack[i - 1], stack[(i - 1) + 1])
      BY <1>2, <3>1 DEF StackOK
    <3>3. Costs(rules)[stack[i].key][1] <= stack[i].max_len
      BY <3>1, <3>2 DEF Waits
    <3>4. stack[i].max_len \in Nat /\ Costs(rules)[stack[i].key][1] \in Nat
      <4>1. stack[i] \in FrameSet
        BY <2>1, <3>1
      <4>2. stack[i].key \in Keys /\ stack[i].max_len \in Nat
        BY <4>1 DEF FrameSet
      <4>3. rules \in PooledGrammars
        BY DEF GenInv
      <4>. QED  BY <4>2, <4>3, CostFacts
    <3>. QED  BY <1>1, <3>3, <3>4 DEF min_cost
  <2>3. ASSUME NEW i \in DOMAIN stack  PROVE stack[i].remaining >= 0
    <3>1. stack[i] \in FrameSet
      BY <2>1
    <3>2. stack[i].remaining \in Nat
      BY <3>1 DEF FrameSet
    <3>. QED  BY <3>2
  <2>. QED  BY <1>2, <2>2, <2>3 DEF LimitsKept
<1>3. CASE stack = <<>> /\ ResultOK(rules, call, done)
  <2>1. 2..Len(stack) = {} /\ DOMAIN stack = {}
    BY <1>3
  <2>. QED  BY <1>1, <1>3, <2>1 DEF LimitsKept, ResultOK, min_cost
<1>. QED  BY <1>2, <1>3 DEF GenInv

(* gen_node_*() keeps its limits, for every grammar that has a pool, left  *)
(* recursive or not, and every limit: no subnode gets less than it needs   *)
(* or draws from the pool, and the text is no longer than max_len.         *)
THEOREM GenerationKeepsLimits == GenSpec => []LimitsKept
BY GenInductive, LimitsFollow, PTL

-----------------------------------------------------------------------------
(* What a key reaches *)

LEMMA UpFrom ==
  ASSUME NEW n \in Nat, NEW d \in 0..n, NEW P, d \in P, \A m \in d..(n - 1) : m \in P => m + 1 \in P
  PROVE  \A m \in d..n : m \in P
<1>. DEFINE Q == {i \in Nat : i >= d => i \in P}
<1>1. 0 \in Q
  OBVIOUS
<1>2. ASSUME NEW i \in 0..(n - 1), i \in Q  PROVE i + 1 \in Q
  <2>1. i + 1 \in Nat
    OBVIOUS
  <2>2. CASE i >= d
    <3>1. i \in d..(n - 1) /\ i \in P
      BY <1>2, <2>2
    <3>. QED  BY <2>1, <3>1
  <2>3. CASE ~ (i >= d)
    <3>1. i + 1 >= d => i + 1 = d
      BY <2>3
    <3>. QED  BY <2>1, <3>1
  <2>. QED  BY <2>2, <2>3
<1>3. \A i \in 0..n : i \in Q
  <2>. HIDE DEF Q
  <2>. QED  BY <1>1, <1>2, UpTo
<1>4. \A m \in d..n : m \in 0..n /\ m >= d
  OBVIOUS
<1>. QED  BY <1>3, <1>4

(* Reaches() step by step.                                                 *)
Hops(edges, k, w) ==
  /\ w[1] = edges[k]
  /\ \A d \in 2..Cardinality(Keys) : w[d] = Further(edges, w[d - 1])
  /\ Reaches(edges, k) = w[Cardinality(Keys)]

LEMMA KeysSome == ASSUME NEW k \in Keys PROVE Cardinality(Keys) \in Nat /\ Cardinality(Keys) >= 1
<1>1. IsFiniteSet(Keys) /\ Cardinality(Keys) \in Nat
  BY KeysFinite
<1>2. Cardinality(Keys) # 0
  BY <1>1, FS_EmptySet
<1>. QED  BY <1>1, <1>2

LEMMA ReachesRow ==
  ASSUME NEW edges, NEW k \in Keys
  PROVE  \E w : Hops(edges, k, w)
<1>. DEFINE n == Cardinality(Keys)
            Fn(f, m) == f = [i \in 1..m |-> IF i = 1 THEN edges[k] ELSE Further(edges, f[i - 1])]
            P == {m \in Nat : \E f : Fn(f, m)}
<1>0. n \in Nat /\ n >= 1
  BY KeysSome
<1>. HIDE DEF n
<1>1. 1 \in P
  <2>. DEFINE f == [i \in 1..1 |-> edges[k]]
  <2>1. Fn(f, 1)
    OBVIOUS
  <2>. QED  BY <2>1
<1>2. ASSUME NEW m \in 1..(n - 1), m \in P  PROVE m + 1 \in P
  <2>1. m \in Nat /\ m + 1 \in Nat /\ (m + 1) - 1 = m /\ m >= 1
    BY <1>0
  <2>2. PICK f : Fn(f, m)
    BY <1>2
  <2>. DEFINE next == Further(edges, f[m])
              h == [i \in 1..(m + 1) |-> IF i <= m THEN f[i] ELSE next]
  <2>3. ASSUME NEW i \in 1..(m + 1)
        PROVE  h[i] = IF i = 1 THEN edges[k] ELSE Further(edges, h[i - 1])
    <3>1. CASE i = m + 1
      <4>1. h[i] = next /\ h[i - 1] = f[m] /\ i # 1
        BY <2>1, <3>1
      <4>. QED  BY <3>1, <4>1
    <3>2. CASE i # m + 1
      <4>1. i \in 1..m /\ i <= m /\ (i # 1 => i - 1 \in 1..(m + 1) /\ i - 1 <= m)
        BY <2>1, <3>2
      <4>2. h[i] = f[i] /\ (i # 1 => h[i - 1] = f[i - 1])
        BY <4>1
      <4>3. f[i] = IF i = 1 THEN edges[k] ELSE Further(edges, f[i - 1])
        BY <2>2, <4>1
      <4>. QED  BY <4>2, <4>3
    <3>. QED  BY <3>1, <3>2
  <2>. HIDE DEF h
  <2>4. h = [i \in 1..(m + 1) |-> h[i]]
    BY DEF h
  <2>5. Fn(h, m + 1)
    BY <2>3, <2>4
  <2>. QED  BY <2>1, <2>5
<1>3. n \in P
  <2>1. n \in 1..n /\ 1 \in 0..n
    BY <1>0
  <2>. HIDE DEF P
  <2>. QED  BY <1>0, <1>1, <1>2, <2>1, UpFrom
<1>4. PICK w : Fn(w, n) /\ Reaches(edges, k) = w[n]
  <2>1. \E f : Fn(f, n)
    BY <1>3
  <2>. DEFINE h == CHOOSE f : Fn(f, n)
  <2>2. Fn(h, n)
    BY <2>1
  <2>3. Reaches(edges, k) = h[n]
    BY DEF Reaches, n
  <2>. HIDE DEF h
  <2>. QED  BY <2>2, <2>3
<1>5. w[1] = edges[k]
  BY <1>0, <1>4
<1>6. ASSUME NEW i \in 2..n  PROVE w[i] = Further(edges, w[i - 1])
  <2>1. i \in 1..n /\ i # 1
    BY <1>0
  <2>. QED  BY <1>4, <2>1
<1>. QED  BY <1>4, <1>5, <1>6 DEF Hops, n

Shut(edges, S) == \A j \in S : edges[j] \subseteq S

LEMMA FurtherShut ==
  ASSUME NEW edges, NEW S, Shut(edges, S)
  PROVE  Further(edges, S) = S
BY DEF Shut, Further

(* Reaches() is the least set with the edges of k that no edge leaves.     *)
LEMMA ReachesFacts ==
  ASSUME NEW edges \in [Keys -> SUBSET Keys], NEW k \in Keys
  PROVE  /\ Reaches(edges, k) \subseteq Keys /\ edges[k] \subseteq Reaches(edges, k)
         /\ Shut(edges, Reaches(edges, k))
         /\ \A S \in SUBSET Keys : edges[k] \subseteq S /\ Shut(edges, S) => Reaches(edges, k) \subseteq S
<1>. DEFINE n == Cardinality(Keys)
<1>0. n \in Nat /\ n >= 1 /\ IsFiniteSet(Keys)
  BY KeysSome, KeysFinite
<1>1. PICK w : Hops(edges, k, w)
  BY ReachesRow
<1>. HIDE DEF n
<1>2. w[1] = edges[k] /\ Reaches(edges, k) = w[n] /\ \A d \in 2..n : w[d] = Further(edges, w[d - 1])
  BY <1>1 DEF Hops, n
<1>3. ASSUME NEW d \in 1..(n - 1)  PROVE w[d + 1] = Further(edges, w[d])
  <2>1. d + 1 \in 2..n /\ (d + 1) - 1 = d
    BY <1>0
  <2>. QED  BY <1>2, <2>1
<1>4. 1 \in 0..n /\ n \in 1..n
  BY <1>0
<1>5. ASSUME NEW S \in SUBSET Keys, edges[k] \subseteq S, Shut(edges, S)
      PROVE  \A d \in 1..n : w[d] \subseteq S
  <2>. DEFINE P == {d \in Nat : w[d] \subseteq S}
  <2>1. 1 \in P
    BY <1>2, <1>5
  <2>2. ASSUME NEW d \in 1..(n - 1), d \in P  PROVE d + 1 \in P
    <3>1. d + 1 \in Nat /\ w[d] \subseteq S /\ w[d + 1] = Further(edges, w[d])
      BY <1>0, <1>3, <2>2
    <3>2. Further(edges, w[d]) \subseteq S
      BY <1>5, <3>1 DEF Further, Shut
    <3>. QED  BY <3>1, <3>2
  <2>3. \A d \in 1..n : d \in P
    <3>. HIDE DEF P
    <3>. QED  BY <1>0, <1>4, <2>1, <2>2, UpFrom
  <2>. QED  BY <2>3
<1>6. \A d \in 1..n : w[d] \subseteq Keys
  <2>1. edges[k] \subseteq Keys /\ Shut(edges, Keys)
    BY DEF Shut
  <2>. QED  BY <1>5, <2>1
<1>7. \A d \in 1..n : edges[k] \subseteq w[d]
  <2>. DEFINE P == {d \in Nat : edges[k] \subseteq w[d]}
  <2>1. 1 \in P
    BY <1>2
  <2>2. ASSUME NEW d \in 1..(n - 1), d \in P  PROVE d + 1 \in P
    <3>1. d + 1 \in Nat /\ edges[k] \subseteq w[d] /\ w[d + 1] = Further(edges, w[d])
      BY <1>0, <1>3, <2>2
    <3>. QED  BY <3>1 DEF Further
  <2>3. \A d \in 1..n : d \in P
    <3>. HIDE DEF P
    <3>. QED  BY <1>0, <1>4, <2>1, <2>2, UpFrom
  <2>. QED  BY <2>3
<1>8. Shut(edges, w[n])
  <2>. DEFINE v == [d \in 0..n |-> IF d = 0 THEN {} ELSE w[d]]
  <2>1. v[0] = {} /\ \A d \in 1..n : v[d] = w[d]
    BY <1>0
  <2>. HIDE DEF v
  <2>2. \A d \in 0..n : v[d] \subseteq Keys
    <3>1. \A d \in 0..n : d = 0 \/ d \in 1..n
      BY <1>0
    <3>. QED  BY <1>6, <2>1, <3>1
  <2>3. ASSUME NEW d \in 0..(n - 1)  PROVE v[d] \subseteq v[d + 1]
    <3>1. CASE d = 0
      BY <2>1, <3>1
    <3>2. CASE d # 0
      <4>1. d \in 1..(n - 1) /\ d \in 1..n /\ d + 1 \in 1..n
        BY <1>0, <3>2
      <4>. QED  BY <1>3, <2>1, <4>1 DEF Further
    <3>. QED  BY <3>1, <3>2
  <2>4. v[n] = Keys \/ \E d \in 0..(n - 1) : v[d] = v[d + 1]
    BY <1>0, <2>2, <2>3, Chain DEF n
  <2>5. CASE v[n] = Keys
    <3>1. w[n] = Keys
      BY <1>4, <2>1, <2>5
    <3>. QED  BY <3>1 DEF Shut
  <2>6. ASSUME NEW d \in 0..(n - 1), v[d] = v[d + 1]  PROVE Shut(edges, w[n])
    <3>1. d + 1 \in 1..n /\ d + 1 \in 0..n
      BY <1>0
    <3>2. Shut(edges, w[d + 1])
      <4>1. CASE d = 0
        <5>1. w[d + 1] = {}
          BY <2>1, <2>6, <3>1, <4>1
        <5>. QED  BY <5>1 DEF Shut
      <4>2. CASE d # 0
        <5>1. d \in 1..(n - 1) /\ d \in 1..n
          BY <1>0, <4>2
        <5>2. w[d + 1] = w[d] /\ w[d + 1] = Further(edges, w[d])
          BY <1>3, <2>1, <2>6, <3>1, <5>1
        <5>. QED  BY <5>2 DEF Further, Shut
      <4>. QED  BY <4>1, <4>2
    <3>. DEFINE P == {e \in Nat : Shut(edges, w[e])}
    <3>3. d + 1 \in P
      BY <3>1, <3>2
    <3>4. ASSUME NEW e \in (d + 1)..(n - 1), e \in P  PROVE e + 1 \in P
      <4>1. e \in 1..(n - 1) /\ e + 1 \in Nat
        BY <1>0, <3>1
      <4>2. w[e + 1] = w[e]
        BY <1>3, <3>4, <4>1, FurtherShut
      <4>. QED  BY <3>4, <4>1, <4>2
    <3>5. n \in (d + 1)..n
      BY <1>0, <3>1
    <3>6. n \in P
      <4>. HIDE DEF P
      <4>. QED  BY <1>0, <3>1, <3>3, <3>4, <3>5, UpFrom
    <3>. QED  BY <3>6
  <2>. QED  BY <2>4, <2>5, <2>6
<1>. QED  BY <1>2, <1>4, <1>5, <1>6, <1>7, <1>8
-----------------------------------------------------------------------------
(* Minimal trees *)

(* With the limit 0 every frame has it.                                    *)
LEMMA ZeroLimits ==
  ASSUME NEW g \in PooledGrammars, NEW c, NEW s, StackOK(g, c, s), c.max_len = 0
  PROVE  \A i \in 1..Len(s) : s[i] \in FrameSet /\ s[i].key \in Keys /\ s[i].max_len = 0
<1>1. s \in Seq(FrameSet) /\ Len(s) \in Nat /\ Len(s) >= 1
  BY TopFacts
<1>2. \A i \in 1..Len(s) : s[i] \in FrameSet
  BY <1>1
<1>. DEFINE n == Len(s)
            P == {i \in Nat : s[i].max_len = 0}
<1>3. 1 \in P
  BY DEF StackOK, SameCall
<1>4. ASSUME NEW i \in 1..(n - 1), i \in P  PROVE i + 1 \in P
  <2>1. i \in 1..n /\ i + 1 \in 1..n /\ i + 1 \in Nat
    BY <1>1
  <2>2. Waits(g, s[i], s[i + 1]) /\ s[i] \in FrameSet /\ s[i + 1] \in FrameSet
    BY <1>2, <2>1 DEF StackOK
  <2>. DEFINE f == s[i]  h == s[i + 1]
  <2>3. /\ f.consumed \in Nat /\ f.remaining \in Nat /\ f.max_len = 0 /\ h.max_len \in Nat
        /\ f.pos \in Nat
    BY <1>4, <2>2 DEF FrameSet
  <2>4. /\ Started(g, f) /\ f.pos <= Len(BodyOf(g, f)) /\ h.max_len <= f.remaining
        /\ f.consumed + f.remaining + Left(g, f, f.pos) <= f.max_len
    BY <2>2 DEF Waits
  <2>5. Left(g, f, f.pos) \in Nat
    <3>1. f.rule \in 1..Len(g[f.key])
      BY <2>4 DEF Started
    <3>. HIDE DEF f
    <3>2. /\ Len(BodyOf(g, f)) \in Nat /\ \A j \in 0..Len(BodyOf(g, f)) : Left(g, f, j) \in Nat
      BY <2>2, <3>1, LeftFacts DEF f
    <3>3. f.pos \in 0..Len(BodyOf(g, f))
      BY <2>3, <2>4, <3>2
    <3>. QED  BY <3>2, <3>3
  <2>. HIDE DEF f, h
  <2>6. h.max_len = 0
    BY <2>3, <2>4, <2>5
  <2>. QED  BY <2>1, <2>6 DEF h
<1>5. \A i \in 1..n : i \in P
  <2>1. n \in Nat /\ 1 \in 0..n
    BY <1>1
  <2>. HIDE DEF P, n
  <2>. QED  BY <1>3, <1>4, <2>1, UpFrom
<1>6. \A i \in 1..Len(s) : s[i].key \in Keys
  BY <1>2 DEF FrameSet
<1>. QED  BY <1>2, <1>5, <1>6

(* A frame with the limit 0 has taken a cheapest rule.                     *)
LEMMA ZeroWaits ==
  ASSUME NEW g \in PooledGrammars, NEW f \in FrameSet, NEW h \in FrameSet,
         Waits(g, f, h), f.max_len = 0
  PROVE  h.key \in CheapKeys(g)[f.key]
<1>. DEFINE r == BodyOf(g, f)  x == Costs(g)[f.key][f.rule]
<1>1. f.key \in Keys /\ h.key \in Keys /\ f.pos \in Nat
  BY DEF FrameSet
<1>2. /\ f.rule \in 1..Len(g[f.key]) /\ x <= 0
      /\ f.pos \in 1..(Len(r) + 1) /\ f.pos <= Len(r) /\ r[f.pos] = h.key
  BY DEF Waits, Started
<1>3. g \in Grammar /\ x \in RuleLengths(r, Lengths(g)) /\ x \in Nat
  BY <1>1, <1>2, CostFacts DEF BodyOf
<1>4. r \in Seq(Tokens) /\ r \in Range(g[f.key])
  BY <1>1, <1>2, <1>3, GrammarRules DEF BodyOf
<1>5. MinLen(g)[f.key] \in RuleLengths(r, Lengths(g))
  <2>. HIDE DEF x, r
  <2>1. f.key \in Productive(g) /\ MinLen(g)[f.key] <= x
    BY <1>1, <1>3, <1>4, MinLenFacts
  <2>2. MinLen(g)[f.key] \in Nat
    BY <1>3, <2>1, MinLenFacts
  <2>3. MinLen(g)[f.key] = x
    BY <1>2, <1>3, <2>1, <2>2
  <2>. QED  BY <1>3, <2>3
<1>. HIDE DEF r
<1>6. h.key \in KeysOf(r)
  <2>1. f.pos \in DOMAIN r
    BY <1>1, <1>2, <1>4
  <2>. QED  BY <1>1, <1>2, <2>1 DEF KeysOf, Range
<1>. QED  BY <1>1, <1>4, <1>5, <1>6 DEF CheapKeys

LEMMA MinimalFollows == GenInv => MinimalTree
<1>. SUFFICES ASSUME GenInv  PROVE MinimalTree
  OBVIOUS
<1>. SUFFICES ASSUME call.max_len = 0
              PROVE  /\ done # NoResult => done.len = min_cost(call.key)
                     /\ \A i, j \in DOMAIN stack : i # j => stack[i].key # stack[j].key
  BY Zenon DEF MinimalTree
<1>. DEFINE g == rules  E == CheapKeys(g)
<1>1. g \in PooledGrammars /\ min_rule_cost = Costs(g) /\ call \in Calls(g) /\ g \in Grammar
  BY PooledAssumption DEF GenInv
<1>2. ASSUME done # NoResult  PROVE done.len = min_cost(call.key)
  <2>1. ResultOK(g, call, done)
    BY <1>2 DEF GenInv
  <2>2. call.key \in Keys
    <3>1. GrammarKeys[1] \in Keys
      BY KeysAssumption DEF Keys, Range
    <3>. QED  BY <1>1, <3>1 DEF Calls
  <2>3. Costs(g)[call.key][1] \in Nat /\ min_cost(call.key) = Costs(g)[call.key][1]
    BY <1>1, <2>2, CostFacts DEF min_cost
  <2>4. done.len \in Nat /\ IF 0 >= Costs(g)[call.key][1] THEN done.len <= 0
                            ELSE done.len = Costs(g)[call.key][1]
    BY <2>1 DEF ResultOK
  <2>. QED  BY <2>3, <2>4
<1>3. CASE stack = <<>>
  <2>1. DOMAIN stack = {}
    BY <1>3
  <2>. QED  BY <1>2, <2>1
<1>4. CASE StackOK(g, call, stack)
  <2>1. stack \in Seq(FrameSet) /\ Len(stack) \in Nat /\ DOMAIN stack = 1..Len(stack)
    BY <1>4, TopFacts
  <2>2. \A i \in 1..Len(stack) : stack[i] \in FrameSet /\ stack[i].key \in Keys /\ stack[i].max_len = 0
    BY <1>1, <1>4, ZeroLimits
  <2>3. E \in [Keys -> SUBSET Keys]
    BY DEF CheapKeys, KeysOf
  <2>. HIDE DEF E, g
  <2>. DEFINE n == Len(stack)
  <2>4. ASSUME NEW i \in 1..(n - 1)
        PROVE  stack[i + 1].key \in E[stack[i].key]
    <3>1. i \in 1..n /\ i + 1 \in 1..n
      BY <2>1
    <3>2. Waits(g, stack[i], stack[i + 1])
      BY <1>4 DEF StackOK
    <3>. QED  BY <1>1, <2>2, <3>1, <3>2, ZeroWaits DEF E
  <2>5. ASSUME NEW i \in 1..n, NEW j \in 1..n, i < j  PROVE stack[i].key # stack[j].key
    <3>. DEFINE k == stack[i].key
                R == Reaches(E, k)
                P == {m \in Nat : stack[m].key \in R}
    <3>0. k \in Keys
      BY <2>2
    <3>. HIDE DEF k
    <3>1. R \subseteq Keys /\ E[k] \subseteq R /\ Shut(E, R)
      BY <2>3, <3>0, ReachesFacts
    <3>. HIDE DEF R
    <3>2. i \in 1..(n - 1) /\ i + 1 \in Nat /\ i + 1 \in 0..n /\ j \in (i + 1)..n
      BY <2>1, <2>5
    <3>3. i + 1 \in P
      BY <2>4, <3>1, <3>2 DEF k
    <3>4. ASSUME NEW m \in (i + 1)..(n - 1), m \in P  PROVE m + 1 \in P
      <4>1. m \in 1..(n - 1) /\ m + 1 \in Nat
        BY <2>1, <3>2
      <4>2. stack[m + 1].key \in E[stack[m].key] /\ stack[m].key \in R
        BY <2>4, <3>4, <4>1
      <4>. QED  BY <3>1, <4>1, <4>2 DEF Shut
    <3>5. j \in P
      <4>. HIDE DEF P
      <4>. QED  BY <2>1, <3>2, <3>3, <3>4, UpFrom
    <3>6. k \notin R
      <4>1. HasPool(g)
        BY <1>1, PooledAssumption
      <4>. QED  BY <3>0, <4>1 DEF HasPool, R, E
    <3>. QED  BY <3>5, <3>6 DEF k
  <2>6. ASSUME NEW i \in DOMAIN stack, NEW j \in DOMAIN stack, i # j
        PROVE  stack[i].key # stack[j].key
    <3>1. i \in 1..n /\ j \in 1..n
      BY <2>1
    <3>2. CASE i < j
      BY <2>5, <3>1, <3>2
    <3>3. CASE ~ (i < j)
      <4>1. j < i
        BY <2>1, <2>6, <3>1, <3>3
      <4>2. stack[j].key # stack[i].key
        BY <2>5, <3>1, <4>1
      <4>. QED  BY <4>2
    <3>. QED  BY <3>2, <3>3
  <2>. QED  BY <1>2, <2>6
<1>. QED  BY <1>3, <1>4 DEF GenInv

(* gen_node_*(0), which subtree trimming calls, makes a shortest text by a *)
(* tree in which no key is below itself, for every grammar that has a      *)
(* pool, left recursive or not.                                            *)
THEOREM TrimmingGetsMinimalTrees == GenSpec => []MinimalTree
BY GenInductive, MinimalFollows, PTL
-----------------------------------------------------------------------------
(* compute_cost(): the cost of a rule *)

(* symbol_cost() and expansion_cost() for the costs kc of the keys.        *)
SymCost(kc, t) == IF t \notin Keys THEN TermLens[t] ELSE IF t \in DOMAIN kc THEN kc[t] ELSE Inf

SymCosts(kc, r) == [i \in 1..Len(r) |-> SymCost(kc, r[i])]

ExpCost(kc, r) ==
  IF \E i \in DOMAIN r : SymCost(kc, r[i]) = Inf THEN Inf
  ELSE LET sum[i \in 0..Len(r)] == IF i = 0 THEN 0 ELSE sum[i - 1] + SymCost(kc, r[i])
       IN  sum[Len(r)]

IsCosts(kc) == DOMAIN kc \subseteq Keys /\ kc \in [DOMAIN kc -> Nat]

(* Every key of the rule has a cost.                                       *)
Known(kc, r) == \A i \in 1..Len(r) : r[i] \in Keys => r[i] \in DOMAIN kc

LEMMA SymFacts ==
  ASSUME NEW kc, IsCosts(kc), NEW t \in Tokens
  PROVE  /\ t \notin Keys => SymCost(kc, t) = TermLens[t] /\ TermLens[t] \in Nat
         /\ t \in Keys /\ t \in DOMAIN kc => SymCost(kc, t) = kc[t] /\ kc[t] \in Nat
         /\ t \in Keys /\ t \notin DOMAIN kc => SymCost(kc, t) = Inf
<1>1. t \notin Keys => TermLens[t] \in Nat
  BY KeysAssumption DEF Tokens
<1>2. t \in DOMAIN kc => kc[t] \in Nat
  BY DEF IsCosts
<1>. QED  BY <1>1, <1>2 DEF SymCost

LEMMA ExpIs ==
  ASSUME NEW kc, IsCosts(kc), NEW r \in Seq(Tokens)
  PROVE  /\ ~ Known(kc, r) => ExpCost(kc, r) = Inf
         /\ Known(kc, r) => /\ SymCosts(kc, r) \in [1..Len(r) -> Nat]
                            /\ ExpCost(kc, r) \in Nat
                            /\ \E p : Adds(SymCosts(kc, r), p, Len(r)) /\ ExpCost(kc, r) = p[Len(r)]
<1>. DEFINE n == Len(r)  v == SymCosts(kc, r)
<1>1. n \in Nat /\ DOMAIN r = 1..n /\ \A i \in 1..n : r[i] \in Tokens
  OBVIOUS
<1>2. Inf \notin Nat
  BY CostAssumption
<1>3. CASE ~ Known(kc, r)
  <2>1. PICK i \in 1..n : r[i] \in Keys /\ r[i] \notin DOMAIN kc
    BY <1>3 DEF Known
  <2>2. SymCost(kc, r[i]) = Inf
    BY <1>1, <2>1, SymFacts
  <2>3. \E j \in DOMAIN r : SymCost(kc, r[j]) = Inf
    BY <1>1, <2>2
  <2>4. ExpCost(kc, r) = Inf
    BY <2>3 DEF ExpCost
  <2>. QED  BY <1>3, <2>4
<1>4. CASE Known(kc, r)
  <2>1. ASSUME NEW i \in 1..n  PROVE SymCost(kc, r[i]) \in Nat
    BY <1>1, <1>4, SymFacts DEF Known
  <2>2. v \in [1..n -> Nat] /\ \A i \in 1..n : v[i] = SymCost(kc, r[i])
    BY <2>1 DEF SymCosts
  <2>3. ~ \E i \in DOMAIN r : SymCost(kc, r[i]) = Inf
    BY <1>1, <1>2, <2>1
  <2>. DEFINE Fn(f) == f = [i \in 0..n |-> IF i = 0 THEN 0 ELSE f[i - 1] + SymCost(kc, r[i])]
              h == CHOOSE f : Fn(f)
  <2>4. ExpCost(kc, r) = h[n]
    BY <2>3 DEF ExpCost
  <2>5. PICK p : Adds(v, p, n)
    BY <1>1, <2>2, AddsExist
  <2>6. Fn(p)
    <3>1. p = [i \in 0..n |-> p[i]] /\ p[0] = 0
      BY <2>5 DEF Adds
    <3>2. ASSUME NEW i \in 0..n, i # 0  PROVE p[i] = p[i - 1] + SymCost(kc, r[i])
      <4>1. i \in 1..n
        BY <1>1, <3>2
      <4>. HIDE DEF v
      <4>. QED  BY <2>2, <2>5, <4>1 DEF Adds
    <3>3. \A i \in 0..n : p[i] = IF i = 0 THEN 0 ELSE p[i - 1] + SymCost(kc, r[i])
      BY <3>1, <3>2
    <3>. QED  BY <3>1, <3>3
  <2>7. Fn(h)
    BY <2>6
  <2>. HIDE DEF h, v, n
  <2>8. DOMAIN h = 0..n /\ h[0] = 0
    <3>1. 0 \in 0..n
      BY <1>1
    <3>. QED  BY <2>7, <3>1
  <2>9. ASSUME NEW i \in 1..n  PROVE h[i] = h[i - 1] + v[i]
    <3>1. i \in 0..n /\ i # 0
      BY <1>1
    <3>. QED  BY <2>2, <2>7, <3>1
  <2>10. \A i \in 0..n : h[i] \in Nat
    <3>. DEFINE P == {m \in Nat : h[m] \in Nat}
    <3>1. 0 \in P
      BY <2>8
    <3>2. ASSUME NEW m \in 0..(n - 1), m \in P  PROVE m + 1 \in P
      <4>1. m + 1 \in 1..n /\ (m + 1) - 1 = m /\ m + 1 \in Nat
        BY <1>1
      <4>2. h[m + 1] = h[m] + v[m + 1] /\ h[m] \in Nat /\ v[m + 1] \in Nat
        BY <2>2, <2>9, <3>2, <4>1
      <4>. QED  BY <4>1, <4>2
    <3>3. \A i \in 0..n : i \in P
      <4>. HIDE DEF P
      <4>. QED  BY <1>1, <3>1, <3>2, UpTo
    <3>. QED  BY <3>3
  <2>11. h \in [0..n -> Nat]
    <3>1. h = [i \in 0..n |-> h[i]]
      BY <2>7
    <3>. QED  BY <2>10, <3>1
  <2>12. Adds(v, h, n)
    BY <2>8, <2>9, <2>11 DEF Adds
  <2>13. h[n] \in Nat
    <3>1. n \in 0..n
      BY <1>1
    <3>. QED  BY <2>10, <3>1
  <2>. QED  BY <1>4, <2>2, <2>4, <2>12, <2>13 DEF v, n
<1>. QED  BY <1>3, <1>4

(* Lower costs of the keys give a lower cost of the rule.                  *)
NoHigher(kd, kc) == DOMAIN kc \subseteq DOMAIN kd /\ \A k \in DOMAIN kc : kd[k] <= kc[k]

LEMMA ExpLower ==
  ASSUME NEW kc, IsCosts(kc), NEW kd, IsCosts(kd), NoHigher(kd, kc),
         NEW r \in Seq(Tokens), Known(kc, r)
  PROVE  /\ Known(kd, r) /\ ExpCost(kd, r) \in Nat /\ ExpCost(kc, r) \in Nat
         /\ ExpCost(kd, r) <= ExpCost(kc, r)
<1>1. Known(kd, r)
  BY DEF Known, NoHigher
<1>. DEFINE n == Len(r)  v == SymCosts(kc, r)  w == SymCosts(kd, r)
<1>2. n \in Nat /\ \A i \in 1..n : r[i] \in Tokens
  OBVIOUS
<1>3. v \in [1..n -> Nat] /\ ExpCost(kc, r) \in Nat
  BY ExpIs
<1>4. PICK p : Adds(v, p, n) /\ ExpCost(kc, r) = p[n]
  BY ExpIs
<1>5. w \in [1..n -> Nat] /\ ExpCost(kd, r) \in Nat
  BY <1>1, ExpIs
<1>6. PICK q : Adds(w, q, n) /\ ExpCost(kd, r) = q[n]
  BY <1>1, ExpIs
<1>7. ASSUME NEW i \in 1..n  PROVE w[i] <= v[i]
  <2>1. v[i] = SymCost(kc, r[i]) /\ w[i] = SymCost(kd, r[i])
    BY DEF SymCosts
  <2>2. CASE r[i] \in Keys
    <3>1. r[i] \in DOMAIN kc /\ r[i] \in DOMAIN kd /\ kd[r[i]] <= kc[r[i]]
      BY <2>2 DEF Known, NoHigher
    <3>2. SymCost(kc, r[i]) = kc[r[i]] /\ SymCost(kd, r[i]) = kd[r[i]]
      BY <1>2, <2>2, <3>1, SymFacts
    <3>. QED  BY <2>1, <3>1, <3>2
  <2>3. CASE r[i] \notin Keys
    <3>1. v[i] = TermLens[r[i]] /\ w[i] = TermLens[r[i]] /\ TermLens[r[i]] \in Nat
      BY <1>2, <2>1, <2>3, SymFacts
    <3>. HIDE DEF v, w
    <3>. QED  BY <3>1
  <2>. QED  BY <2>2, <2>3
<1>. HIDE DEF n, v, w
<1>8. q[n] <= p[n]
  BY <1>2, <1>3, <1>4, <1>5, <1>6, <1>7, AddsLess
<1>. QED  BY <1>1, <1>3, <1>4, <1>5, <1>6, <1>8

(* No cost is below the least length.                                      *)
Sound(g, kc) == \A k \in DOMAIN kc : k \in Productive(g) /\ MinLen(g)[k] <= kc[k]

(* A rule's least lengths of the tokens together are a length of the rule. *)
LEMMA LeastOfRule ==
  ASSUME NEW g \in Grammar, NEW r \in Seq(Tokens), Known(MinLen(g), r)
  PROVE  /\ IsCosts(MinLen(g)) /\ ExpCost(MinLen(g), r) \in Nat
         /\ ExpCost(MinLen(g), r) \in RuleLengths(r, Lengths(g))
         /\ ExpCost(MinLen(g), r) = Min(RuleLengths(r, Lengths(g)))
<1>. DEFINE n == Len(r)  kc == MinLen(g)  v == SymCosts(kc, r)
<1>1. IsCosts(kc) /\ DOMAIN kc = Productive(g)
  <2>1. DOMAIN kc = Productive(g) /\ Productive(g) \subseteq Keys
    BY DEF MinLen, Productive
  <2>2. \A k \in Productive(g) : kc[k] \in Nat
    BY MinLenFacts
  <2>3. kc = [k \in Productive(g) |-> kc[k]]
    BY DEF MinLen
  <2>. QED  BY <2>1, <2>2, <2>3 DEF IsCosts
<1>2. v \in [1..n -> Nat] /\ ExpCost(kc, r) \in Nat
  BY <1>1, ExpIs
<1>3. PICK p : Adds(v, p, n) /\ ExpCost(kc, r) = p[n]
  BY <1>1, ExpIs
<1>4. Lengths(g) \in Lens /\ \A i \in 1..n : r[i] \in Tokens
  BY LengthsFacts
<1>5. ASSUME NEW i \in 1..n
      PROVE  /\ v[i] \in TokenLengths(r[i], Lengths(g))
             /\ \A x \in TokenLengths(r[i], Lengths(g)) : v[i] <= x
  <2>1. v[i] = SymCost(kc, r[i])
    BY DEF SymCosts
  <2>2. CASE r[i] \in Keys
    <3>1. r[i] \in Productive(g)
      BY <1>1, <2>2 DEF Known
    <3>2. v[i] = kc[r[i]]
      BY <1>1, <1>4, <2>1, <2>2, <3>1, SymFacts
    <3>3. kc[r[i]] \in Lengths(g)[r[i]] /\ \A x \in Lengths(g)[r[i]] : kc[r[i]] <= x
      BY <3>1, MinLenFacts
    <3>. QED  BY <2>2, <3>2, <3>3 DEF TokenLengths
  <2>3. CASE r[i] \notin Keys
    <3>1. v[i] = TermLens[r[i]] /\ TermLens[r[i]] \in Nat
      BY <1>1, <1>4, <2>1, <2>3, SymFacts
    <3>. HIDE DEF v
    <3>. QED  BY <2>3, <3>1 DEF TokenLengths
  <2>. QED  BY <2>2, <2>3
<1>. HIDE DEF v, kc
<1>6. Splits(r, Lengths(g), v, p)
  BY <1>2, <1>3, <1>5 DEF Splits
<1>7. ExpCost(kc, r) \in RuleLengths(r, Lengths(g))
  BY <1>3, <1>4, <1>6, RuleSplits
<1>8. ASSUME NEW x \in RuleLengths(r, Lengths(g))  PROVE x \in Nat /\ ExpCost(kc, r) <= x
  BY <1>2, <1>3, <1>4, <1>5, RuleAtLeast
<1>9. ExpCost(kc, r) = Min(RuleLengths(r, Lengths(g)))
  <2>. DEFINE S == RuleLengths(r, Lengths(g))  m == ExpCost(kc, r)
  <2>1. S \in SUBSET Nat /\ m \in S /\ \A x \in S : m <= x
    BY <1>7, <1>8
  <2>. HIDE DEF S, m
  <2>2. Min(S) = m
    BY <2>1, MinIs
  <2>. QED  BY <2>2 DEF S, m
<1>. QED  BY <1>1, <1>2, <1>7, <1>9 DEF kc

LEMMA ExpSound ==
  ASSUME NEW g \in Grammar, NEW kc, IsCosts(kc), Sound(g, kc),
         NEW k \in Keys, NEW r \in Range(g[k]), Known(kc, r)
  PROVE  k \in Productive(g) /\ MinLen(g)[k] <= ExpCost(kc, r) /\ ExpCost(kc, r) \in Nat
<1>1. r \in Seq(Tokens)
  BY GrammarRules
<1>2. Known(MinLen(g), r) /\ DOMAIN MinLen(g) = Productive(g)
  BY DEF Known, Sound, MinLen
<1>3. /\ IsCosts(MinLen(g)) /\ ExpCost(MinLen(g), r) \in Nat
      /\ ExpCost(MinLen(g), r) \in RuleLengths(r, Lengths(g))
  BY <1>1, <1>2, LeastOfRule
<1>4. k \in Productive(g) /\ MinLen(g)[k] <= ExpCost(MinLen(g), r)
  BY <1>3, MinLenFacts
<1>. DEFINE n == Len(r)  v == SymCosts(MinLen(g), r)  w == SymCosts(kc, r)
<1>5. v \in [1..n -> Nat] /\ \E p : Adds(v, p, n) /\ ExpCost(MinLen(g), r) = p[n]
  BY <1>1, <1>2, <1>3, ExpIs
<1>6. w \in [1..n -> Nat] /\ ExpCost(kc, r) \in Nat /\ \E p : Adds(w, p, n) /\ ExpCost(kc, r) = p[n]
  BY <1>1, ExpIs
<1>7. ASSUME NEW i \in 1..n  PROVE v[i] <= w[i]
  <2>1. r[i] \in Tokens /\ v[i] = SymCost(MinLen(g), r[i]) /\ w[i] = SymCost(kc, r[i])
    BY <1>1 DEF SymCosts
  <2>2. CASE r[i] \in Keys
    <3>1. r[i] \in DOMAIN kc /\ r[i] \in DOMAIN MinLen(g) /\ MinLen(g)[r[i]] <= kc[r[i]]
      BY <1>2, <2>2 DEF Known, Sound
    <3>2. v[i] = MinLen(g)[r[i]] /\ w[i] = kc[r[i]]
      BY <1>3, <2>1, <2>2, <3>1, SymFacts
    <3>. HIDE DEF v, w
    <3>. QED  BY <3>1, <3>2
  <2>3. CASE r[i] \notin Keys
    <3>1. v[i] = TermLens[r[i]] /\ w[i] = TermLens[r[i]] /\ TermLens[r[i]] \in Nat
      BY <1>3, <2>1, <2>3, SymFacts
    <3>. HIDE DEF v, w
    <3>. QED  BY <3>1
  <2>. QED  BY <2>2, <2>3
<1>8. n \in Nat
  BY <1>1
<1>. HIDE DEF v, w, n
<1>9. ExpCost(MinLen(g), r) <= ExpCost(kc, r)
  <2>1. PICK p : Adds(v, p, n) /\ ExpCost(MinLen(g), r) = p[n]
    BY <1>5
  <2>2. PICK q : Adds(w, q, n) /\ ExpCost(kc, r) = q[n]
    BY <1>6
  <2>3. p[n] <= q[n]
    BY <1>5, <1>6, <1>7, <1>8, <2>1, <2>2, AddsLess
  <2>. QED  BY <2>1, <2>2, <2>3
<1>10. MinLen(g)[k] \in Nat
  BY <1>4, MinLenFacts
<1>. QED  BY <1>3, <1>4, <1>6, <1>9, <1>10

(* A pass would lower nothing.                                             *)
Fixed(g, kc) ==
  \A k \in Keys : \A r \in Range(g[k]) :
    Known(kc, r) => k \in DOMAIN kc /\ kc[k] <= ExpCost(kc, r)

(* Costs that a pass lowers no more are the least lengths.                 *)
LEMMA FixedIsExact ==
  ASSUME NEW g \in Grammar, NEW kc, IsCosts(kc), Sound(g, kc), Fixed(g, kc)
  PROVE  kc = MinLen(g)
<1>. DEFINE Q == [k \in Keys |-> {x \in Nat : k \in DOMAIN kc /\ kc[k] <= x}]
<1>1. Q \in Lens /\ \A k \in Keys : \A x : x \in Q[k] <=> x \in Nat /\ k \in DOMAIN kc /\ kc[k] <= x
  BY DEF Lens
<1>. HIDE DEF Q
<1>2. ASSUME NEW k \in Keys, NEW x \in Derived(g, Q)[k]  PROVE x \in Q[k]
  <2>1. PICK r \in Range(g[k]) : x \in RuleLengths(r, Q)
    BY <1>1, DerivedHas
  <2>2. r \in Seq(Tokens) /\ \A i \in 1..Len(r) : r[i] \in Tokens
    <3>1. r \in Seq(Tokens)
      BY GrammarRules
    <3>. QED  BY <3>1
  <2>3. PICK v, p : Splits(r, Q, v, p) /\ x = p[Len(r)]
    BY <1>1, <2>1, <2>2, RuleSplits
  <2>4. Known(kc, r)
    <3>. SUFFICES ASSUME NEW i \in 1..Len(r), r[i] \in Keys  PROVE r[i] \in DOMAIN kc
      BY DEF Known
    <3>1. v[i] \in Q[r[i]]
      BY <2>3 DEF Splits, TokenLengths
    <3>. QED  BY <1>1, <3>1
  <2>. DEFINE c == SymCosts(kc, r)
  <2>5. c \in [1..Len(r) -> Nat] /\ ExpCost(kc, r) \in Nat
    BY <2>2, <2>4, ExpIs
  <2>6. PICK q : Adds(c, q, Len(r)) /\ ExpCost(kc, r) = q[Len(r)]
    BY <2>2, <2>4, ExpIs
  <2>7. ASSUME NEW i \in 1..Len(r), NEW y \in TokenLengths(r[i], Q)  PROVE c[i] <= y
    <3>1. c[i] = SymCost(kc, r[i])
      BY DEF SymCosts
    <3>2. CASE r[i] \in Keys
      <4>1. y \in Q[r[i]] /\ r[i] \in DOMAIN kc
        BY <2>4, <2>7, <3>2 DEF TokenLengths, Known
      <4>2. kc[r[i]] <= y
        BY <1>1, <3>2, <4>1
      <4>3. c[i] = kc[r[i]]
        BY <2>2, <3>1, <3>2, <4>1, SymFacts
      <4>. HIDE DEF c
      <4>. QED  BY <4>2, <4>3
    <3>3. CASE r[i] \notin Keys
      <4>1. c[i] = TermLens[r[i]] /\ TermLens[r[i]] \in Nat
        BY <2>2, <3>1, <3>3, SymFacts
      <4>2. y = TermLens[r[i]]
        BY <2>7, <3>3 DEF TokenLengths
      <4>. HIDE DEF c
      <4>. QED  BY <4>1, <4>2
    <3>. QED  BY <3>2, <3>3
  <2>. HIDE DEF c
  <2>8. x \in Nat /\ ExpCost(kc, r) <= x
    BY <1>1, <2>1, <2>2, <2>5, <2>6, <2>7, RuleAtLeast
  <2>9. k \in DOMAIN kc /\ kc[k] <= ExpCost(kc, r)
    BY <2>4 DEF Fixed
  <2>10. kc[k] \in Nat
    BY <2>9 DEF IsCosts
  <2>11. kc[k] <= x
    BY <2>5, <2>8, <2>9, <2>10
  <2>. QED  BY <1>1, <2>8, <2>9, <2>11
<1>3. \A k \in Keys : AllLengths(g)[k] \subseteq Q[k]
  BY <1>1, <1>2, AllFacts DEF Closed
<1>4. ASSUME NEW k \in Productive(g)  PROVE k \in DOMAIN kc /\ kc[k] <= MinLen(g)[k]
  <2>1. k \in Keys /\ MinLen(g)[k] \in Lengths(g)[k]
    BY MinLenFacts
  <2>2. MinLen(g)[k] \in Q[k]
    BY <1>3, <2>1, LengthsFacts
  <2>. QED  BY <1>1, <2>1, <2>2
<1>5. DOMAIN kc = Productive(g)
  BY <1>4 DEF Sound
<1>6. ASSUME NEW k \in Productive(g)  PROVE kc[k] = MinLen(g)[k]
  <2>1. kc[k] \in Nat /\ MinLen(g)[k] \in Nat /\ kc[k] <= MinLen(g)[k] /\ MinLen(g)[k] <= kc[k]
    BY <1>4, <1>5, MinLenFacts DEF IsCosts, Sound
  <2>. QED  BY <2>1
<1>7. kc = [k \in Productive(g) |-> kc[k]]
  BY <1>5 DEF IsCosts
<1>8. MinLen(g) = [k \in Productive(g) |-> MinLen(g)[k]]
  BY DEF MinLen
<1>. QED  BY <1>6, <1>7, <1>8
-----------------------------------------------------------------------------
(* compute_cost(): the passes *)

Entry == [cost : Nat, rule : Seq(Tokens)]

EntrySets == [Keys -> SUBSET Entry]

NoEntries == [k \in Keys |-> {}]

ExpEntry(kc, r) == [cost |-> ExpCost(kc, r), rule |-> r]

(* This pass has been at the rule r of the key k.                          *)
Seen(g, a, k, r) ==
  \E j \in DOMAIN GrammarKeys : \E i \in DOMAIN g[k] :
    /\ GrammarKeys[j] = k /\ g[k][i] = r
    /\ j < a.key \/ (j = a.key /\ i < a.rule)

(* Since an entry was made the costs went down only.                       *)
Listed(g, kc, k, e) ==
  /\ e.rule \in Range(g[k]) /\ Known(kc, e.rule) /\ ExpCost(kc, e.rule) <= e.cost
  /\ k \in DOMAIN kc /\ kc[k] <= e.cost

HasCost(S, c) == \E e \in S : e.cost = c

(* No key is cheaper than in the last pass.                                *)
Attained(kc, old) == \A k \in DOMAIN kc : HasCost(old[k], kc[k])

(* A pass that lowers no key lists the costs by the present key_cost.      *)
Steady(g, kc, new, a) ==
  /\ \A k \in Keys : \A r : Seen(g, a, k, r) /\ Known(kc, r) => ExpEntry(kc, r) \in new[k]
  /\ \A k \in Keys : \A e \in new[k] : e.cost = ExpCost(kc, e.rule)

Covered(S, e) == \E f \in S : f.cost <= e.cost

(* old and new are the entries of the last pass and of this one.           *)
Passing(g, kc, old, new, a) ==
  /\ IsCosts(kc) /\ Sound(g, kc)
  /\ \A k \in Keys : \A e \in old[k] : Listed(g, kc, k, e)
  /\ \A k \in Keys : \A e \in new[k] : Listed(g, kc, k, e)
  /\ \A k \in DOMAIN kc : HasCost(old[k], kc[k]) \/ HasCost(new[k], kc[k])
  /\ \A k \in Keys : \A e \in old[k] : Seen(g, a, k, e.rule) => Covered(new[k], e)
  /\ Attained(kc, old) => Steady(g, kc, new, a)

LEMMA NothingSeen ==
  ASSUME NEW g \in Grammar, NEW k \in Keys, NEW r
  PROVE  ~ Seen(g, [key |-> 1, rule |-> 1], k, r)
<1>1. DOMAIN g[k] = 1..Len(g[k]) /\ Len(g[k]) \in Nat
  BY GrammarRules
<1>2. DOMAIN GrammarKeys = 1..Len(GrammarKeys) /\ Len(GrammarKeys) \in Nat
  BY KeysAssumption
<1>. QED  BY <1>1, <1>2 DEF Seen

LEMMA AllSeen ==
  ASSUME NEW g \in Grammar, NEW a, a.key \in Nat, a.key > Len(GrammarKeys),
         NEW k \in Keys, NEW r \in Range(g[k])
  PROVE  Seen(g, a, k, r)
<1>1. PICK i \in DOMAIN g[k] : r = g[k][i]
  BY DEF Range
<1>2. DOMAIN GrammarKeys = 1..Len(GrammarKeys) /\ Len(GrammarKeys) \in Nat
  BY KeysAssumption
<1>3. PICK j \in DOMAIN GrammarKeys : GrammarKeys[j] = k
  BY DEF Keys, Range
<1>4. j < a.key
  BY <1>2
<1>. QED  BY <1>1, <1>3, <1>4 DEF Seen

LEMMA SeenMore ==
  ASSUME NEW g \in Grammar, NEW a \in [key : Nat, rule : Nat], NEW b, b.key = a.key, b.rule = a.rule + 1,
         NEW k \in Keys, NEW r, Seen(g, b, k, r)
  PROVE  Seen(g, a, k, r) \/ (k = GrammarKeys[a.key] /\ r = g[k][a.rule])
<1>1. DOMAIN g[k] = 1..Len(g[k]) /\ Len(g[k]) \in Nat
  BY GrammarRules
<1>2. PICK j \in DOMAIN GrammarKeys, i \in DOMAIN g[k] :
        /\ GrammarKeys[j] = k /\ g[k][i] = r
        /\ j < b.key \/ (j = b.key /\ i < b.rule)
  BY DEF Seen
<1>3. i < a.rule + 1 => i < a.rule \/ i = a.rule
  BY <1>1
<1>. QED  BY <1>2, <1>3 DEF Seen

LEMMA SeenKey ==
  ASSUME NEW g \in Grammar, NEW a \in [key : Nat, rule : Nat], a.key <= Len(GrammarKeys),
         a.rule > Len(g[GrammarKeys[a.key]]),
         NEW b, b.key = a.key + 1, b.rule = 1,
         NEW k \in Keys, NEW r, Seen(g, b, k, r)
  PROVE  Seen(g, a, k, r)
<1>1. DOMAIN g[k] = 1..Len(g[k]) /\ Len(g[k]) \in Nat
  BY GrammarRules
<1>2. DOMAIN GrammarKeys = 1..Len(GrammarKeys) /\ Len(GrammarKeys) \in Nat
  BY KeysAssumption
<1>3. PICK j \in DOMAIN GrammarKeys, i \in DOMAIN g[k] :
        /\ GrammarKeys[j] = k /\ g[k][i] = r
        /\ j < b.key \/ (j = b.key /\ i < b.rule)
  BY DEF Seen
<1>4. j < a.key + 1
  BY <1>1, <1>3
<1>5. j < a.key \/ j = a.key
  BY <1>2, <1>4
<1>6. j = a.key => i < a.rule
  BY <1>1, <1>3
<1>. QED  BY <1>3, <1>5, <1>6 DEF Seen

LEMMA PassSkip ==
  ASSUME NEW g \in Grammar, NEW kc, NEW old, NEW new, NEW a, NEW b,
         Passing(g, kc, old, new, a),
         \A k \in Keys : \A r : Seen(g, b, k, r) => Seen(g, a, k, r) \/ ~ Known(kc, r)
  PROVE  Passing(g, kc, old, new, b)
<1>1. ASSUME NEW k \in Keys, NEW e \in old[k], Seen(g, b, k, e.rule)  PROVE Covered(new[k], e)
  <2>1. Known(kc, e.rule)
    BY DEF Passing, Listed
  <2>2. Seen(g, a, k, e.rule)
    BY <1>1, <2>1
  <2>. QED  BY <2>2 DEF Passing
<1>2. Attained(kc, old) => Steady(g, kc, new, b)
  BY DEF Passing, Steady
<1>. QED  BY <1>1, <1>2 DEF Passing

(* Lowered(c) for the key k.                                               *)
LoweredFor(kc, k, c) ==
  IF k \in DOMAIN kc /\ kc[k] <= c THEN kc
  ELSE [j \in DOMAIN kc \cup {k} |-> IF j = k THEN c ELSE kc[j]]

LowerBy(kc, k, c, kd) ==
  /\ IsCosts(kd) /\ NoHigher(kd, kc) /\ DOMAIN kd = DOMAIN kc \cup {k} /\ kd[k] <= c
  /\ \A j \in DOMAIN kc : j # k => kd[j] = kc[j]
  /\ kd = kc \/ (kd[k] = c /\ (k \in DOMAIN kc => c < kc[k]))

LEMMA LoweredFacts ==
  ASSUME NEW kc, IsCosts(kc), NEW k \in Keys, NEW c \in Nat,
         NEW kd, kd = LoweredFor(kc, k, c)
  PROVE  LowerBy(kc, k, c, kd)
<1>. SUFFICES /\ IsCosts(kd) /\ NoHigher(kd, kc) /\ DOMAIN kd = DOMAIN kc \cup {k} /\ kd[k] <= c
              /\ \A j \in DOMAIN kc : j # k => kd[j] = kc[j]
              /\ kd = kc \/ (kd[k] = c /\ (k \in DOMAIN kc => c < kc[k]))
  BY DEF LowerBy
<1>0. DOMAIN kc \subseteq Keys /\ \A j \in DOMAIN kc : kc[j] \in Nat
  BY DEF IsCosts
<1>1. CASE k \in DOMAIN kc /\ kc[k] <= c
  <2>1. kd = kc
    BY <1>1 DEF LoweredFor
  <2>2. NoHigher(kc, kc)
    BY <1>0 DEF NoHigher
  <2>3. DOMAIN kc = DOMAIN kc \cup {k}
    BY <1>1
  <2>4. /\ IsCosts(kd) /\ NoHigher(kd, kc) /\ DOMAIN kd = DOMAIN kc \cup {k} /\ kd[k] <= c
        /\ \A j \in DOMAIN kc : j # k => kd[j] = kc[j]
    BY <1>1, <2>1, <2>2, <2>3
  <2>. QED  BY <2>1, <2>4
<1>2. CASE ~ (k \in DOMAIN kc /\ kc[k] <= c)
  <2>1. kd = [j \in DOMAIN kc \cup {k} |-> IF j = k THEN c ELSE kc[j]]
    BY <1>2 DEF LoweredFor
  <2>2. DOMAIN kd = DOMAIN kc \cup {k} /\ kd[k] = c /\ \A j \in DOMAIN kc : j # k => kd[j] = kc[j]
    BY <2>1
  <2>3. k \in DOMAIN kc => c < kc[k]
    BY <1>0, <1>2
  <2>4. NoHigher(kd, kc)
    <3>1. ASSUME NEW j \in DOMAIN kc  PROVE kd[j] <= kc[j]
      <4>1. CASE j = k
        BY <1>0, <2>2, <2>3, <4>1
      <4>2. CASE j # k
        BY <1>0, <2>2, <4>2
      <4>. QED  BY <4>1, <4>2
    <3>. QED  BY <2>2, <3>1 DEF NoHigher
  <2>5. IsCosts(kd)
    <3>1. \A j \in DOMAIN kd : kd[j] \in Nat
      BY <1>0, <2>2
    <3>2. kd = [j \in DOMAIN kd |-> kd[j]]
      BY <2>1
    <3>. QED  BY <1>0, <2>2, <3>1, <3>2 DEF IsCosts
  <2>6. kd[k] <= c
    BY <2>2
  <2>. QED  BY <2>2, <2>3, <2>4, <2>5, <2>6
<1>. QED  BY <1>1, <1>2

LEMMA StillListed ==
  ASSUME NEW g \in Grammar, NEW kc, IsCosts(kc), NEW kd, IsCosts(kd), NoHigher(kd, kc),
         NEW k \in Keys, NEW e \in Entry, Listed(g, kc, k, e)
  PROVE  Listed(g, kd, k, e)
<1>1. e.cost \in Nat /\ e.rule \in Seq(Tokens)
  BY DEF Entry
<1>2. Known(kc, e.rule) /\ ExpCost(kc, e.rule) <= e.cost
  BY DEF Listed
<1>3. /\ Known(kd, e.rule) /\ ExpCost(kd, e.rule) \in Nat /\ ExpCost(kc, e.rule) \in Nat
      /\ ExpCost(kd, e.rule) <= ExpCost(kc, e.rule)
  BY <1>1, <1>2, ExpLower
<1>4. ExpCost(kd, e.rule) <= e.cost
  BY <1>1, <1>2, <1>3
<1>5. k \in DOMAIN kd /\ kd[k] <= e.cost
  <2>1. k \in DOMAIN kc /\ kc[k] <= e.cost /\ k \in DOMAIN kd /\ kd[k] <= kc[k]
    BY DEF Listed, NoHigher
  <2>2. kc[k] \in Nat /\ kd[k] \in Nat
    BY <2>1 DEF IsCosts
  <2>. QED  BY <1>1, <2>1, <2>2
<1>. QED  BY <1>3, <1>4, <1>5 DEF Listed

OneMore(new, k, e, nw) ==
  nw[k] = new[k] \cup {e} /\ \A j \in Keys : j # k => nw[j] = new[j]

(* One more rule has been listed and the cost of its key lowered.          *)
LEMMA PassRule ==
  ASSUME NEW g \in Grammar, NEW kc, NEW old \in EntrySets, NEW new \in EntrySets,
         NEW a \in [key : Nat, rule : Nat], Passing(g, kc, old, new, a),
         NEW k \in Keys, k = GrammarKeys[a.key], a.rule \in 1..Len(g[k]),
         NEW r, r = g[k][a.rule], Known(kc, r),
         NEW kd, kd = LoweredFor(kc, k, ExpCost(kc, r)),
         NEW nw \in EntrySets, OneMore(new, k, ExpEntry(kc, r), nw),
         NEW b, b.key = a.key, b.rule = a.rule + 1
  PROVE  Passing(g, kd, old, nw, b)
<1>. DEFINE c == ExpCost(kc, r)  en == ExpEntry(kc, r)
<1>0. nw[k] = new[k] \cup {en} /\ \A j \in Keys : j # k => nw[j] = new[j]
  BY DEF OneMore
<1>1. r \in Seq(Tokens) /\ r \in Range(g[k])
  BY GrammarRules
<1>2. IsCosts(kc) /\ Sound(g, kc)
  BY DEF Passing
<1>3. k \in Productive(g) /\ MinLen(g)[k] <= c /\ c \in Nat
  BY <1>1, <1>2, ExpSound
<1>4. en.cost = c /\ en.rule = r /\ en \in Entry
  BY <1>1, <1>3 DEF ExpEntry, Entry
<1>. HIDE DEF c, en
<1>5. /\ IsCosts(kd) /\ NoHigher(kd, kc) /\ DOMAIN kd = DOMAIN kc \cup {k} /\ kd[k] <= c
      /\ \A j \in DOMAIN kc : j # k => kd[j] = kc[j]
      /\ kd = kc \/ (kd[k] = c /\ (k \in DOMAIN kc => c < kc[k]))
  <2>1. kd = LoweredFor(kc, k, c)
    BY DEF c
  <2>2. LowerBy(kc, k, c, kd)
    BY <1>2, <1>3, <2>1, LoweredFacts
  <2>. QED  BY <2>2 DEF LowerBy
<1>6. Sound(g, kd)
  <2>1. ASSUME NEW j \in DOMAIN kd  PROVE j \in Productive(g) /\ MinLen(g)[j] <= kd[j]
    <3>1. CASE kd = kc
      BY <1>2, <3>1 DEF Sound
    <3>2. CASE j # k
      BY <1>2, <1>5, <3>2 DEF Sound
    <3>3. CASE kd # kc /\ j = k
      BY <1>3, <1>5, <3>3
    <3>. QED  BY <3>1, <3>2, <3>3
  <2>. QED  BY <2>1 DEF Sound
<1>7. \A j \in Keys : \A e \in old[j] : Listed(g, kd, j, e)
  <2>. SUFFICES ASSUME NEW j \in Keys, NEW e \in old[j]  PROVE Listed(g, kd, j, e)
    OBVIOUS
  <2>1. e \in Entry /\ Listed(g, kc, j, e)
    BY DEF EntrySets, Passing
  <2>. QED  BY <1>2, <1>5, <2>1, StillListed
<1>8. Listed(g, kd, k, en)
  <2>1. Known(kd, r) /\ ExpCost(kd, r) <= c
    <3>1. IsCosts(kd) /\ NoHigher(kd, kc)
      BY <1>5
    <3>. QED  BY <1>1, <1>2, <3>1, ExpLower DEF c
  <2>2. k \in DOMAIN kd
    BY <1>5
  <2>. QED  BY <1>1, <1>4, <1>5, <2>1, <2>2 DEF Listed
<1>9. \A j \in Keys : \A e \in nw[j] : Listed(g, kd, j, e)
  <2>. SUFFICES ASSUME NEW j \in Keys, NEW e \in nw[j]  PROVE Listed(g, kd, j, e)
    OBVIOUS
  <2>1. CASE e \in new[j]
    <3>1. e \in Entry /\ Listed(g, kc, j, e)
      BY <2>1 DEF EntrySets, Passing
    <3>. QED  BY <1>2, <1>5, <3>1, StillListed
  <2>2. CASE e \notin new[j]
    <3>1. j = k /\ e = en
      BY <1>0, <2>2
    <3>. QED  BY <1>8, <3>1
  <2>. QED  BY <2>1, <2>2
<1>10. \A j \in Keys : new[j] \subseteq nw[j]
  BY <1>0
<1>11. en \in nw[k]
  BY <1>0
<1>12. ASSUME NEW j \in DOMAIN kd  PROVE HasCost(old[j], kd[j]) \/ HasCost(nw[j], kd[j])
  <2>1. CASE j \in DOMAIN kc /\ kd[j] = kc[j]
    <3>1. j \in Keys
      BY <1>2, <2>1 DEF IsCosts
    <3>2. HasCost(old[j], kc[j]) \/ HasCost(new[j], kc[j])
      BY <2>1 DEF Passing
    <3>. QED  BY <1>10, <2>1, <3>1, <3>2 DEF HasCost
  <2>2. CASE ~ (j \in DOMAIN kc /\ kd[j] = kc[j])
    <3>1. j = k /\ kd[k] = c
      BY <1>5, <2>2
    <3>. QED  BY <1>4, <1>11, <3>1 DEF HasCost
  <2>. QED  BY <2>1, <2>2
<1>13. ASSUME NEW j \in Keys, NEW e \in old[j], Seen(g, b, j, e.rule)  PROVE Covered(nw[j], e)
  <2>1. CASE Seen(g, a, j, e.rule)
    <3>1. Covered(new[j], e)
      BY <2>1 DEF Passing
    <3>. QED  BY <1>10, <3>1 DEF Covered
  <2>2. CASE ~ Seen(g, a, j, e.rule)
    <3>1. j = k /\ e.rule = r
      BY <1>13, <2>2, SeenMore
    <3>2. c <= e.cost
      BY <3>1 DEF Passing, Listed, c
    <3>. QED  BY <1>4, <1>11, <3>1, <3>2 DEF Covered
  <2>. QED  BY <2>1, <2>2
<1>14. ASSUME Attained(kd, old)  PROVE Steady(g, kd, nw, b)
  <2>1. kd = kc
    <3>. SUFFICES ASSUME kd # kc  PROVE FALSE
      OBVIOUS
    <3>0. k \in DOMAIN kd /\ kd[k] = c
      BY <1>5
    <3>1. PICK e \in old[k] : e.cost = c
      BY <1>14, <3>0 DEF Attained, HasCost
    <3>2. Listed(g, kc, k, e)
      BY DEF Passing
    <3>3. k \in DOMAIN kc /\ kc[k] <= c /\ c < kc[k]
      BY <1>5, <3>1, <3>2 DEF Listed
    <3>4. kc[k] \in Nat
      BY <1>2, <3>3 DEF IsCosts
    <3>. QED  BY <1>3, <3>3, <3>4
  <2>2. Steady(g, kc, new, a)
    BY <1>14, <2>1 DEF Passing
  <2>3. ASSUME NEW j \in Keys, NEW q, Seen(g, b, j, q), Known(kc, q)
        PROVE  ExpEntry(kc, q) \in nw[j]
    <3>1. CASE Seen(g, a, j, q)
      BY <1>10, <2>2, <2>3, <3>1 DEF Steady
    <3>2. CASE ~ Seen(g, a, j, q)
      <4>1. j = k /\ q = r
        BY <2>3, <3>2, SeenMore
      <4>. QED  BY <1>11, <4>1 DEF en
    <3>. QED  BY <3>1, <3>2
  <2>4. ASSUME NEW j \in Keys, NEW e \in nw[j]  PROVE e.cost = ExpCost(kc, e.rule)
    <3>1. CASE e \in new[j]
      BY <2>2, <3>1 DEF Steady
    <3>2. CASE e \notin new[j]
      <4>1. e = en
        BY <1>0, <3>2
      <4>. QED  BY <1>4, <4>1 DEF c
    <3>. QED  BY <3>1, <3>2
  <2>. QED  BY <2>1, <2>3, <2>4 DEF Steady
<1>. QED  BY <1>5, <1>6, <1>7, <1>9, <1>12, <1>13, <1>14 DEF Passing

LEMMA PassStart ==
  ASSUME NEW g \in Grammar, NEW kc, DOMAIN kc = {}, kc \in [{} -> Nat]
  PROVE  Passing(g, kc, NoEntries, NoEntries, [key |-> 1, rule |-> 1])
<1>1. IsCosts(kc) /\ Sound(g, kc)
  BY DEF IsCosts, Sound
<1>2. \A k \in Keys : NoEntries[k] = {}
  BY DEF NoEntries
<1>3. \A k \in Keys : \A r : ~ Seen(g, [key |-> 1, rule |-> 1], k, r)
  BY NothingSeen
<1>4. Steady(g, kc, NoEntries, [key |-> 1, rule |-> 1])
  BY <1>2, <1>3 DEF Steady
<1>. QED  BY <1>1, <1>2, <1>4 DEF Passing

(* At the end of a pass the next one can start.                            *)
LEMMA PassAgain ==
  ASSUME NEW g \in Grammar, NEW kc, NEW old \in EntrySets, NEW new \in EntrySets,
         NEW a, Passing(g, kc, old, new, a), a.key \in Nat, a.key > Len(GrammarKeys)
  PROVE  Passing(g, kc, new, NoEntries, [key |-> 1, rule |-> 1])
<1>1. IsCosts(kc)
  BY DEF Passing
<1>2. \A k \in Keys : NoEntries[k] = {}
  BY DEF NoEntries
<1>3. \A k \in Keys : \A r : ~ Seen(g, [key |-> 1, rule |-> 1], k, r)
  BY NothingSeen
<1>4. Steady(g, kc, NoEntries, [key |-> 1, rule |-> 1])
  BY <1>2, <1>3 DEF Steady
<1>5. ASSUME NEW k \in DOMAIN kc  PROVE HasCost(new[k], kc[k])
  <2>1. k \in Keys /\ kc[k] \in Nat
    BY <1>1 DEF IsCosts
  <2>2. CASE HasCost(new[k], kc[k])
    BY <2>2
  <2>3. CASE ~ HasCost(new[k], kc[k])
    <3>1. PICK e \in old[k] : e.cost = kc[k]
      BY <2>3 DEF Passing, HasCost
    <3>2. e.rule \in Range(g[k])
      BY <2>1 DEF Passing, Listed
    <3>3. Seen(g, a, k, e.rule)
      BY <2>1, <3>2, AllSeen
    <3>4. PICK f \in new[k] : f.cost <= e.cost
      BY <2>1, <3>3 DEF Passing, Covered
    <3>5. kc[k] <= f.cost /\ f.cost \in Nat
      BY <2>1 DEF Passing, Listed, EntrySets, Entry
    <3>6. f.cost = kc[k]
      BY <2>1, <3>1, <3>4, <3>5
    <3>. QED  BY <3>6 DEF HasCost
  <2>. QED  BY <2>2, <2>3
<1>. QED  BY <1>2, <1>3, <1>4, <1>5 DEF Passing

(* The rules of a key that derive some text, each with its least length.   *)
ExactEntries(g, k) ==
  {[cost |-> Min(RuleLengths(r, Lengths(g))), rule |-> r] :
      r \in {q \in Range(g[k]) : RuleLengths(q, Lengths(g)) # {}}}

LEMMA KnownHasLengths ==
  ASSUME NEW g \in Grammar, NEW r \in Seq(Tokens)
  PROVE  Known(MinLen(g), r) <=> RuleLengths(r, Lengths(g)) # {}
<1>1. Known(MinLen(g), r) => RuleLengths(r, Lengths(g)) # {}
  BY LeastOfRule
<1>2. ASSUME RuleLengths(r, Lengths(g)) # {}  PROVE Known(MinLen(g), r)
  <2>1. Lengths(g) \in Lens
    BY LengthsFacts
  <2>2. PICK x \in RuleLengths(r, Lengths(g)) : TRUE
    BY <1>2
  <2>3. PICK v, p : Splits(r, Lengths(g), v, p)
    BY <2>1, <2>2, RuleSplits
  <2>4. ASSUME NEW i \in 1..Len(r), r[i] \in Keys  PROVE r[i] \in Productive(g)
    <3>1. v[i] \in Lengths(g)[r[i]]
      BY <2>3, <2>4 DEF Splits, TokenLengths
    <3>. QED  BY <2>4, <3>1 DEF Productive
  <2>5. DOMAIN MinLen(g) = Productive(g)
    BY DEF MinLen
  <2>. QED  BY <2>4, <2>5 DEF Known
<1>. QED  BY <1>1, <1>2

LEMMA ExactHas ==
  ASSUME NEW g \in Grammar, NEW k \in Keys
  PROVE  \A e : e \in ExactEntries(g, k) <=>
            \E r \in Range(g[k]) : Known(MinLen(g), r) /\ e = ExpEntry(MinLen(g), r)
<1>1. ASSUME NEW r \in Range(g[k])
      PROVE  /\ Known(MinLen(g), r) <=> RuleLengths(r, Lengths(g)) # {}
             /\ Known(MinLen(g), r) =>
                  ExpEntry(MinLen(g), r) = [cost |-> Min(RuleLengths(r, Lengths(g))), rule |-> r]
  <2>1. r \in Seq(Tokens)
    BY GrammarRules
  <2>2. Known(MinLen(g), r) => ExpCost(MinLen(g), r) = Min(RuleLengths(r, Lengths(g)))
    BY <2>1, LeastOfRule
  <2>. QED  BY <2>1, <2>2, KnownHasLengths DEF ExpEntry
<1>. SUFFICES ASSUME NEW e
              PROVE  e \in ExactEntries(g, k) <=>
                       \E r \in Range(g[k]) : Known(MinLen(g), r) /\ e = ExpEntry(MinLen(g), r)
  OBVIOUS
<1>2. e \in ExactEntries(g, k) <=>
        \E r \in Range(g[k]) : /\ RuleLengths(r, Lengths(g)) # {}
                               /\ e = [cost |-> Min(RuleLengths(r, Lengths(g))), rule |-> r]
  BY DEF ExactEntries
<1>. QED  BY <1>1, <1>2

(* A pass that made the same lists as the one before it has lowered no     *)
(* key, and all costs are exact.                                           *)
LEMMA PassSettled ==
  ASSUME NEW g \in Grammar, NEW kc, NEW new \in EntrySets,
         NEW a, Passing(g, kc, new, new, a), a.key \in Nat, a.key > Len(GrammarKeys)
  PROVE  kc = MinLen(g) /\ \A k \in Keys : new[k] = ExactEntries(g, k)
<1>1. IsCosts(kc) /\ Sound(g, kc)
  BY DEF Passing
<1>2. Attained(kc, new)
  BY DEF Passing, Attained
<1>3. Steady(g, kc, new, a)
  BY <1>2 DEF Passing
<1>4. ASSUME NEW k \in Keys, NEW r \in Range(g[k]), Known(kc, r)
      PROVE  ExpEntry(kc, r) \in new[k]
  <2>1. Seen(g, a, k, r)
    BY AllSeen
  <2>. QED  BY <1>3, <1>4, <2>1 DEF Steady
<1>5. Fixed(g, kc)
  <2>. SUFFICES ASSUME NEW k \in Keys, NEW r \in Range(g[k]), Known(kc, r)
                PROVE  k \in DOMAIN kc /\ kc[k] <= ExpCost(kc, r)
    BY DEF Fixed
  <2>1. Listed(g, kc, k, ExpEntry(kc, r))
    BY <1>4 DEF Passing
  <2>2. ExpEntry(kc, r).cost = ExpCost(kc, r)
    BY DEF ExpEntry
  <2>. QED  BY <2>1, <2>2 DEF Listed
<1>6. kc = MinLen(g)
  BY <1>1, <1>5, FixedIsExact
<1>7. ASSUME NEW k \in Keys  PROVE new[k] = ExactEntries(g, k)
  <2>1. ASSUME NEW e \in new[k]  PROVE e \in ExactEntries(g, k)
    <3>1. e \in Entry /\ e.cost = ExpCost(kc, e.rule) /\ e.rule \in Range(g[k]) /\ Known(kc, e.rule)
      BY <1>3 DEF EntrySets, Steady, Passing, Listed
    <3>2. e = ExpEntry(kc, e.rule)
      BY <3>1 DEF Entry, ExpEntry
    <3>. QED  BY <1>6, <3>1, <3>2, ExactHas
  <2>2. ASSUME NEW e \in ExactEntries(g, k)  PROVE e \in new[k]
    BY <1>4, <1>6, ExactHas
  <2>. QED  BY <2>1, <2>2
<1>. QED  BY <1>6, <1>7
-----------------------------------------------------------------------------
(* The steps of compute_cost() *)

Entries(c) == [k \in Keys |-> IF k \in DOMAIN c THEN Range(c[k]) ELSE {}]

IsLists(c) == c \in [Keys -> Seq(Entry)]

LEMMA EntriesFacts ==
  ASSUME NEW c, IsLists(c) \/ DOMAIN c = {}
  PROVE  /\ Entries(c) \in EntrySets
         /\ IsLists(c) => \A k \in Keys : Entries(c)[k] = Range(c[k])
<1>1. ASSUME NEW k \in Keys, IsLists(c)  PROVE Range(c[k]) \subseteq Entry
  <2>1. c[k] \in Seq(Entry)
    BY <1>1 DEF IsLists
  <2>. QED  BY <2>1 DEF Range
<1>2. IsLists(c) => DOMAIN c = Keys
  BY DEF IsLists
<1>. QED  BY <1>1, <1>2 DEF Entries, EntrySets

Sorted(s) == \A i, j \in 1..Len(s) : i < j => s[i].cost <= s[j].cost

SomeCycle == \E k \in Keys : k \in Reaches(CheapUses, k)

CostInv ==
  /\ grammar \in Grammar /\ IsLists(new_cost)
  /\ at \in [key : Nat \ {0}, rule : Nat \ {0}]
  /\ phase \in {"pass", "sort", "cheap", "error", "pool", "endless", "done"}
  /\ phase = "pass" =>
       /\ IsLists(cost) \/ DOMAIN cost = {}
       /\ Passing(grammar, key_cost, Entries(cost), Entries(new_cost), at)
  /\ phase # "pass" =>
       /\ IsLists(cost) /\ key_cost = MinLen(grammar)
       /\ \A k \in Keys : Range(cost[k]) = ExactEntries(grammar, k)
  /\ phase \notin {"pass", "sort"} => \A k \in Keys : Sorted(cost[k])
  /\ phase = "error" => Productive(grammar) # Keys
  /\ phase \in {"pool", "endless", "done"} =>
       /\ Productive(grammar) = Keys
       /\ grammar = [k \in Keys |-> Rules(cost[k])]
       /\ c_grammar = [k \in Keys |-> Cheapest(cost[k])]
  /\ phase = "endless" => SomeCycle
  /\ phase = "done" => ~ SomeCycle

LEMMA NoCostsFacts == IsLists(NoCosts) /\ Entries(NoCosts) = NoEntries
<1>1. IsLists(NoCosts)
  BY DEF IsLists, NoCosts
<1>2. \A k \in Keys : Range(NoCosts[k]) = {}
  BY DEF NoCosts, Range
<1>3. DOMAIN NoCosts = Keys
  BY DEF NoCosts
<1>. QED  BY <1>1, <1>2, <1>3 DEF Entries, NoEntries

LEMMA CostInitHolds == Init => CostInv
<1>. SUFFICES ASSUME Init  PROVE CostInv
  OBVIOUS
<1>1. grammar \in Grammar
  BY CostAssumption DEF Init
<1>2. DOMAIN key_cost = {} /\ key_cost \in [{} -> Nat] /\ DOMAIN cost = {}
  BY DEF Init
<1>3. Entries(cost) = NoEntries
  BY <1>2 DEF Entries, NoEntries
<1>4. Passing(grammar, key_cost, Entries(cost), Entries(new_cost), at)
  BY <1>1, <1>2, <1>3, NoCostsFacts, PassStart DEF Init
<1>5. at \in [key : Nat \ {0}, rule : Nat \ {0}]
  BY DEF Init
<1>. QED  BY <1>1, <1>2, <1>4, <1>5, NoCostsFacts DEF Init, CostInv

(* The steps of a pass keep the rest of the invariant.                     *)
LEMMA InPass ==
  ASSUME CostInv, phase = "pass", phase' = "pass", UNCHANGED <<grammar, c_grammar>>,
         IsLists(new_cost'), at' \in [key : Nat \ {0}, rule : Nat \ {0}],
         IsLists(cost') \/ DOMAIN cost' = {},
         Passing(grammar, key_cost', Entries(cost'), Entries(new_cost'), at')
  PROVE  CostInv'
BY Zenon DEF CostInv

LEMMA KeyFacts ==
  ASSUME CostInv, at.key <= Len(GrammarKeys)
  PROVE  Key \in Keys
<1>1. at.key \in Nat /\ at.key >= 1 /\ Len(GrammarKeys) \in Nat /\ DOMAIN GrammarKeys = 1..Len(GrammarKeys)
  BY KeysAssumption DEF CostInv
<1>2. at.key \in DOMAIN GrammarKeys
  BY <1>1
<1>. QED  BY <1>2 DEF Key, Keys, Range

LEMMA RuleStepHolds ==
  ASSUME CostInv, RuleStep
  PROVE  CostInv'
<1>. DEFINE r == grammar[Key][at.rule]
<1>1. phase = "pass" /\ phase' = "pass" /\ grammar' = grammar /\ c_grammar' = c_grammar /\ cost' = cost
  BY DEF RuleStep
<1>2. at.key <= Len(GrammarKeys) /\ at.rule <= Len(grammar[Key])
      /\ at' = [at EXCEPT !.rule = @ + 1]
  BY DEF RuleStep
<1>3. Key \in Keys /\ grammar \in Grammar
  BY <1>2, KeyFacts DEF CostInv
<1>4. /\ at \in [key : Nat, rule : Nat] /\ at' \in [key : Nat \ {0}, rule : Nat \ {0}]
      /\ at'.key = at.key /\ at'.rule = at.rule + 1
  BY <1>2 DEF CostInv
<1>5. at.rule \in 1..Len(grammar[Key])
  <2>1. at.rule \in Nat /\ at.rule >= 1 /\ Len(grammar[Key]) \in Nat
    BY <1>3, GrammarRules DEF CostInv
  <2>. QED  BY <1>2, <2>1
<1>6. r \in Seq(Tokens)
  BY <1>3, <1>5, GrammarRules
<1>7. /\ IsLists(new_cost) /\ (IsLists(cost) \/ DOMAIN cost = {})
      /\ Passing(grammar, key_cost, Entries(cost), Entries(new_cost), at)
  BY <1>1 DEF CostInv
<1>8. IsCosts(key_cost)
  BY <1>7 DEF Passing
<1>9. expansion_cost(r) = ExpCost(key_cost, r)
  BY DEF expansion_cost, ExpCost, symbol_cost, SymCost
<1>10. CASE ~ Known(key_cost, r)
  <2>1. expansion_cost(r) = Inf
    BY <1>6, <1>8, <1>9, <1>10, ExpIs
  <2>2. key_cost' = key_cost /\ new_cost' = new_cost
    BY <2>1 DEF RuleStep
  <2>3. ASSUME NEW k \in Keys, NEW q, Seen(grammar, at', k, q)
        PROVE  Seen(grammar, at, k, q) \/ ~ Known(key_cost, q)
    <3>1. Seen(grammar, at, k, q) \/ (k = GrammarKeys[at.key] /\ q = grammar[k][at.rule])
      BY <1>3, <1>4, <2>3, SeenMore
    <3>. QED  BY <1>10, <3>1 DEF Key
  <2>. HIDE DEF r
  <2>4. Passing(grammar, key_cost, Entries(cost), Entries(new_cost), at')
    BY <1>3, <1>7, <2>3, PassSkip
  <2>. QED  BY <1>1, <1>4, <1>7, <2>2, <2>4, InPass
<1>11. CASE Known(key_cost, r)
  <2>. DEFINE c == ExpCost(key_cost, r)
  <2>1. c \in Nat /\ c # Inf
    BY <1>6, <1>8, <1>11, ExpIs, CostAssumption
  <2>2. /\ key_cost' = Lowered(c)
        /\ new_cost' = [new_cost EXCEPT ![Key] = Append(@, [cost |-> c, rule |-> r])]
    BY <1>9, <2>1 DEF RuleStep
  <2>3. key_cost' = LoweredFor(key_cost, Key, c)
    BY <2>2 DEF Lowered, LoweredFor
  <2>. DEFINE en == ExpEntry(key_cost, r)
  <2>4. en \in Entry
    BY <1>6, <2>1 DEF ExpEntry, Entry
  <2>5. new_cost' = [new_cost EXCEPT ![Key] = Append(@, en)]
    BY <2>2 DEF ExpEntry
  <2>. HIDE DEF en, r, c
  <2>6. /\ new_cost'[Key] = Append(new_cost[Key], en) /\ new_cost[Key] \in Seq(Entry)
        /\ \A k \in Keys : k # Key => new_cost'[k] = new_cost[k]
        /\ DOMAIN new_cost' = Keys
    BY <1>3, <1>7, <2>5 DEF IsLists
  <2>7. IsLists(new_cost')
    <3>1. Append(new_cost[Key], en) \in Seq(Entry)
      BY <2>4, <2>6
    <3>. QED  BY <1>3, <1>7, <2>5, <3>1 DEF IsLists
  <2>8. Range(new_cost'[Key]) = Range(new_cost[Key]) \cup {en}
    <3>. DEFINE s == new_cost[Key]
    <3>1. s \in Seq(Entry)
      BY <2>6
    <3>. HIDE DEF s
    <3>2. /\ Len(s) \in Nat /\ DOMAIN s = 1..Len(s) /\ DOMAIN Append(s, en) = 1..(Len(s) + 1)
          /\ \A i \in 1..Len(s) : Append(s, en)[i] = s[i]
          /\ Append(s, en)[Len(s) + 1] = en
      BY <2>4, <3>1
    <3>3. \A i : i \in 1..(Len(s) + 1) <=> i \in 1..Len(s) \/ i = Len(s) + 1
      BY <3>2
    <3>4. Range(Append(s, en)) = Range(s) \cup {en}
      BY <3>2, <3>3 DEF Range
    <3>. QED  BY <2>6, <3>4 DEF s
  <2>9. /\ Entries(new_cost') \in EntrySets /\ Entries(new_cost) \in EntrySets /\ Entries(cost) \in EntrySets
        /\ \A k \in Keys : Entries(new_cost')[k] = Range(new_cost'[k])
        /\ \A k \in Keys : Entries(new_cost)[k] = Range(new_cost[k])
    BY <1>7, <2>7, EntriesFacts
  <2>10. OneMore(Entries(new_cost), Key, ExpEntry(key_cost, r), Entries(new_cost'))
    BY <1>3, <2>6, <2>8, <2>9 DEF en, OneMore
  <2>11. Passing(grammar, key_cost', Entries(cost), Entries(new_cost'), at')
    <3>1. Key = GrammarKeys[at.key] /\ r = grammar[Key][at.rule]
      BY DEF Key, r
    <3>2. key_cost' = LoweredFor(key_cost, Key, ExpCost(key_cost, r))
      BY <2>3 DEF c
    <3>. QED  BY <1>3, <1>4, <1>5, <1>7, <1>11, <2>9, <2>10, <3>1, <3>2, PassRule
  <2>. QED  BY <1>1, <1>4, <1>7, <2>7, <2>11, InPass
<1>. QED  BY <1>10, <1>11

LEMMA NextKeyHolds ==
  ASSUME CostInv, NextKey
  PROVE  CostInv'
<1>1. phase = "pass" /\ UNCHANGED <<grammar, key_cost, cost, new_cost, c_grammar, phase>>
  BY DEF NextKey
<1>2. at.key <= Len(GrammarKeys) /\ at.rule > Len(grammar[Key]) /\ at' = [key |-> at.key + 1, rule |-> 1]
  BY DEF NextKey
<1>3. /\ at \in [key : Nat, rule : Nat] /\ at' \in [key : Nat \ {0}, rule : Nat \ {0}]
      /\ at'.key = at.key + 1 /\ at'.rule = 1
  BY <1>2 DEF CostInv
<1>4. /\ grammar \in Grammar /\ IsLists(new_cost) /\ (IsLists(cost) \/ DOMAIN cost = {})
      /\ Passing(grammar, key_cost, Entries(cost), Entries(new_cost), at)
  BY <1>1 DEF CostInv
<1>5. ASSUME NEW k \in Keys, NEW q, Seen(grammar, at', k, q)  PROVE Seen(grammar, at, k, q)
  BY <1>2, <1>3, <1>4, <1>5, SeenKey DEF Key
<1>6. Passing(grammar, key_cost, Entries(cost), Entries(new_cost), at')
  BY <1>4, <1>5, PassSkip
<1>. QED  BY <1>1, <1>3, <1>4, <1>6, InPass

LEMMA EndPassHolds ==
  ASSUME CostInv, EndPass
  PROVE  CostInv'
<1>1. /\ phase = "pass" /\ at.key > Len(GrammarKeys)
      /\ grammar' = grammar /\ key_cost' = key_cost /\ c_grammar' = c_grammar
  BY DEF EndPass
<1>2. /\ grammar \in Grammar /\ IsLists(new_cost) /\ (IsLists(cost) \/ DOMAIN cost = {})
      /\ Passing(grammar, key_cost, Entries(cost), Entries(new_cost), at)
      /\ at.key \in Nat /\ at \in [key : Nat \ {0}, rule : Nat \ {0}]
  BY <1>1 DEF CostInv
<1>3. Entries(new_cost) \in EntrySets /\ Entries(cost) \in EntrySets
      /\ \A k \in Keys : Entries(new_cost)[k] = Range(new_cost[k])
  BY <1>2, EntriesFacts
<1>4. CASE Settled
  <2>1. new_cost = cost /\ phase' = "sort" /\ cost' = cost /\ new_cost' = new_cost /\ at' = at
    BY <1>4 DEF EndPass, Settled
  <2>2. key_cost = MinLen(grammar) /\ \A k \in Keys : Entries(new_cost)[k] = ExactEntries(grammar, k)
    BY <1>1, <1>2, <1>3, <2>1, PassSettled
  <2>3. \A k \in Keys : Range(cost[k]) = ExactEntries(grammar, k)
    BY <1>3, <2>1, <2>2
  <2>4. IsLists(cost)
    BY <1>2, <2>1
  <2>. QED  BY <1>1, <1>2, <2>1, <2>2, <2>3, <2>4 DEF CostInv
<1>5. CASE ~ Settled
  <2>1. phase' = phase /\ cost' = new_cost /\ new_cost' = NoCosts /\ at' = [key |-> 1, rule |-> 1]
    BY <1>5 DEF EndPass
  <2>2. Passing(grammar, key_cost, Entries(new_cost), NoEntries, [key |-> 1, rule |-> 1])
    BY <1>1, <1>2, <1>3, PassAgain
  <2>3. at' \in [key : Nat \ {0}, rule : Nat \ {0}]
    BY <2>1
  <2>. QED  BY <1>1, <1>2, <2>1, <2>2, <2>3, NoCostsFacts, InPass
<1>. QED  BY <1>4, <1>5
-----------------------------------------------------------------------------
(* Sorting, and the grammar of the cheapest rules *)

LEMMA SortedFacts ==
  ASSUME NEW s \in Seq(Entry), NEW t \in SortedBy(s)
  PROVE  t \in Seq(Entry) /\ Range(t) = Range(s) /\ Sorted(t)
<1>1. PICK p \in Bijection(DOMAIN s, DOMAIN s) : t = [i \in DOMAIN s |-> s[p[i]]]
  BY DEF SortedBy
<1>2. \A i, j \in DOMAIN t : i < j => t[i].cost <= t[j].cost
  BY DEF SortedBy
<1>3. /\ p \in [DOMAIN s -> DOMAIN s]
      /\ \A j \in DOMAIN s : \E i \in DOMAIN s : p[i] = j
  BY DEF Bijection, Injection, Surjection
<1>4. Len(s) \in Nat /\ DOMAIN s = 1..Len(s) /\ \A i \in 1..Len(s) : s[i] \in Entry
  OBVIOUS
<1>5. DOMAIN t = 1..Len(s) /\ \A i \in 1..Len(s) : t[i] = s[p[i]] /\ p[i] \in 1..Len(s) /\ t[i] \in Entry
  BY <1>1, <1>3, <1>4
<1>6. t \in Seq(Entry) /\ Len(t) = Len(s)
  BY <1>1, <1>4, <1>5
<1>7. Range(t) = Range(s)
  <2>1. ASSUME NEW i \in 1..Len(s)  PROVE \E j \in 1..Len(s) : t[j] = s[i]
    <3>1. PICK j \in 1..Len(s) : p[j] = i
      BY <1>3, <1>4
    <3>. QED  BY <1>5, <3>1
  <2>2. Range(t) \subseteq Range(s)
    BY <1>4, <1>5 DEF Range
  <2>3. Range(s) \subseteq Range(t)
    <3>1. ASSUME NEW x \in Range(s)  PROVE \E j \in DOMAIN t : x = t[j]
      <4>1. PICK i \in 1..Len(s) : x = s[i]
        BY <1>4 DEF Range
      <4>. QED  BY <1>5, <2>1, <4>1
    <3>. QED  BY <3>1 DEF Range
  <2>. QED  BY <2>2, <2>3
<1>8. Sorted(t)
  BY <1>2, <1>5, <1>6 DEF Sorted
<1>. QED  BY <1>6, <1>7, <1>8

LEMMA SortHolds ==
  ASSUME CostInv, Sort
  PROVE  CostInv'
<1>1. /\ phase = "sort" /\ phase' = "cheap" /\ UNCHANGED <<grammar, key_cost, new_cost, at, c_grammar>>
      /\ DOMAIN cost' = Keys /\ cost' = [k \in Keys |-> cost'[k]]
      /\ \A k \in Keys : cost'[k] \in SortedBy(cost[k])
  BY DEF Sort
<1>2. IsLists(cost) /\ \A k \in Keys : Range(cost[k]) = ExactEntries(grammar, k)
  BY <1>1 DEF CostInv
<1>3. \A k \in Keys : cost[k] \in Seq(Entry)
  BY <1>2 DEF IsLists
<1>4. \A k \in Keys : cost'[k] \in Seq(Entry) /\ Range(cost'[k]) = Range(cost[k]) /\ Sorted(cost'[k])
  BY <1>1, <1>3, SortedFacts
<1>5. IsLists(cost')
  BY <1>1, <1>4 DEF IsLists
<1>6. \A k \in Keys : Range(cost'[k]) = ExactEntries(grammar', k)
  BY <1>1, <1>2, <1>4
<1>. QED  BY <1>1, <1>4, <1>5, <1>6 DEF CostInv

LEMMA ExactSome ==
  ASSUME NEW g \in Grammar, NEW k \in Keys
  PROVE  k \in Productive(g) <=> ExactEntries(g, k) # {}
<1>1. ASSUME k \in Productive(g)  PROVE ExactEntries(g, k) # {}
  <2>1. MinLen(g)[k] \in Derived(g, Lengths(g))[k] /\ Lengths(g) \in Lens
    BY <1>1, MinLenFacts, LengthsFacts
  <2>2. PICK r \in Range(g[k]) : MinLen(g)[k] \in RuleLengths(r, Lengths(g))
    BY <2>1, DerivedHas
  <2>3. [cost |-> Min(RuleLengths(r, Lengths(g))), rule |-> r] \in ExactEntries(g, k)
    BY <2>2 DEF ExactEntries
  <2>. QED  BY <2>3
<1>2. ASSUME ExactEntries(g, k) # {}  PROVE k \in Productive(g)
  <2>1. PICK r \in Range(g[k]) : RuleLengths(r, Lengths(g)) # {}
    BY <1>2 DEF ExactEntries
  <2>. QED  BY <2>1, MinLenFacts
<1>. QED  BY <1>1, <1>2

(* The lengths do not depend on the order of the rules.                    *)
LEMMA SameLengths ==
  ASSUME NEW g \in Grammar, NEW h \in Grammar, \A k \in Keys : Range(g[k]) = Range(h[k])
  PROVE  Lengths(g) = Lengths(h)
<1>. DEFINE n == Cardinality(Keys)
<1>0. n \in Nat
  BY KeysFinite
<1>1. PICK u : Depths(g, u)
  BY LengthsRow
<1>2. PICK w : Depths(h, w)
  BY LengthsRow
<1>3. \A lens : Derived(g, lens) = Derived(h, lens)
  BY DEF Derived
<1>. DEFINE P == {d \in Nat : u[d] = w[d]}
<1>4. 0 \in P
  BY <1>1, <1>2 DEF Depths
<1>5. ASSUME NEW d \in 0..(n - 1), d \in P  PROVE d + 1 \in P
  <2>1. d + 1 \in 1..n /\ (d + 1) - 1 = d /\ d + 1 \in Nat
    BY <1>0
  <2>2. u[d + 1] = Derived(g, u[d]) /\ w[d + 1] = Derived(h, w[d])
    BY <1>1, <1>2, <2>1 DEF Depths
  <2>. QED  BY <1>3, <1>5, <2>1, <2>2
<1>6. n \in P
  <2>1. n \in 0..n
    BY <1>0
  <2>. HIDE DEF P, n
  <2>. QED  BY <1>0, <1>4, <1>5, <2>1, UpTo
<1>. QED  BY <1>1, <1>2, <1>6 DEF Depths

LEMMA CheapHolds ==
  ASSUME CostInv, Cheap
  PROVE  CostInv'
<1>1. phase = "cheap" /\ UNCHANGED <<key_cost, cost, new_cost, at>>
  BY DEF Cheap
<1>2. /\ IsLists(cost) /\ key_cost = MinLen(grammar) /\ grammar \in Grammar
      /\ \A k \in Keys : Range(cost[k]) = ExactEntries(grammar, k)
      /\ \A k \in Keys : Sorted(cost[k])
  BY <1>1 DEF CostInv
<1>3. CASE \E k \in Keys : cost[k] = <<>>
  <2>1. phase' = "error" /\ grammar' = grammar /\ c_grammar' = c_grammar
    BY <1>3 DEF Cheap
  <2>2. PICK k \in Keys : cost[k] = <<>>
    BY <1>3
  <2>3. Range(cost[k]) = {}
    BY <2>2 DEF Range
  <2>4. k \notin Productive(grammar)
    BY <1>2, <2>3, ExactSome
  <2>5. Productive(grammar) # Keys
    BY <2>4
  <2>. QED  BY <1>1, <1>2, <2>1, <2>5 DEF CostInv
<1>4. CASE ~ \E k \in Keys : cost[k] = <<>>
  <2>. DEFINE g == grammar  h == [k \in Keys |-> Rules(cost[k])]
  <2>1. phase' = "pool" /\ grammar' = h /\ c_grammar' = [k \in Keys |-> Cheapest(cost[k])]
    BY <1>4 DEF Cheap
  <2>2. \A k \in Keys : /\ cost[k] \in Seq(Entry) /\ Len(cost[k]) \in Nat
                        /\ DOMAIN cost[k] = 1..Len(cost[k]) /\ cost[k] # <<>>
    BY <1>2, <1>4 DEF IsLists
  <2>3. Productive(g) = Keys
    <3>1. ASSUME NEW k \in Keys  PROVE k \in Productive(g)
      <4>1. cost[k][1] \in Range(cost[k])
        BY <2>2 DEF Range
      <4>. QED  BY <1>2, <4>1, ExactSome
    <3>. QED  BY <3>1 DEF Productive
  <2>4. ASSUME NEW k \in Keys
        PROVE  /\ h[k] \in Seq(Seq(Tokens)) /\ Range(h[k]) = Range(g[k])
    <3>1. h[k] = [i \in 1..Len(cost[k]) |-> cost[k][i].rule]
      BY <2>2 DEF Rules
    <3>2. ASSUME NEW i \in 1..Len(cost[k])  PROVE cost[k][i].rule \in Seq(Tokens)
      <4>1. cost[k][i] \in Entry
        BY <2>2
      <4>. QED  BY <4>1 DEF Entry
    <3>3. h[k] \in Seq(Seq(Tokens))
      BY <2>2, <3>1, <3>2
    <3>4. \A q : q \in Range(h[k]) <=> \E e \in Range(cost[k]) : q = e.rule
      BY <2>2, <3>1 DEF Range
    <3>5. ASSUME NEW q \in Range(g[k])  PROVE q \in Range(h[k])
      <4>1. q \in Seq(Tokens)
        BY <1>2, GrammarRules
      <4>2. Known(MinLen(g), q)
        BY <2>3, <4>1 DEF Known, MinLen
      <4>3. ExpEntry(MinLen(g), q) \in ExactEntries(g, k)
        BY <1>2, <4>2, ExactHas
      <4>4. ExpEntry(MinLen(g), q).rule = q
        BY DEF ExpEntry
      <4>. QED  BY <1>2, <3>4, <4>3, <4>4
    <3>6. ASSUME NEW q \in Range(h[k])  PROVE q \in Range(g[k])
      <4>1. PICK e \in ExactEntries(g, k) : q = e.rule
        BY <1>2, <3>4
      <4>2. e.rule \in Range(g[k])
        BY DEF ExactEntries
      <4>. QED  BY <4>1, <4>2
    <3>. QED  BY <3>3, <3>5, <3>6
  <2>5. h \in Grammar
    BY <2>4 DEF Grammar
  <2>. HIDE DEF h
  <2>6. Lengths(h) = Lengths(g)
    BY <1>2, <2>4, <2>5, SameLengths
  <2>7. Productive(h) = Productive(g) /\ MinLen(h) = MinLen(g)
    BY <2>6 DEF Productive, MinLen
  <2>8. \A k \in Keys : ExactEntries(h, k) = ExactEntries(g, k)
    BY <2>4, <2>6 DEF ExactEntries
  <2>. HIDE DEF g
  <2>9. grammar' = [k \in Keys |-> Rules(cost'[k])] /\ c_grammar' = [k \in Keys |-> Cheapest(cost'[k])]
    BY <1>1, <2>1 DEF h
  <2>. QED  BY <1>1, <1>2, <2>1, <2>3, <2>5, <2>7, <2>8, <2>9 DEF CostInv, g
<1>. QED  BY <1>3, <1>4

LEMMA PoolHolds ==
  ASSUME CostInv, Pool
  PROVE  CostInv'
<1>1. phase = "pool" /\ UNCHANGED <<grammar, key_cost, cost, new_cost, at, c_grammar>>
      /\ phase' = IF SomeCycle THEN "endless" ELSE "done"
  BY DEF Pool, SomeCycle
<1>2. SomeCycle' <=> SomeCycle
  BY <1>1 DEF SomeCycle, CheapUses
<1>. QED  BY <1>1, <1>2 DEF CostInv

LEMMA CostStep == CostInv /\ [Next]_vars => CostInv'
<1>. SUFFICES ASSUME CostInv, [Next]_vars  PROVE CostInv'
  OBVIOUS
<1>1. CASE UNCHANGED vars
  <2>1. SomeCycle' <=> SomeCycle
    BY <1>1 DEF SomeCycle, CheapUses, vars
  <2>. QED  BY <1>1, <2>1 DEF CostInv, vars
<1>. QED  BY <1>1, RuleStepHolds, NextKeyHolds, EndPassHolds, SortHolds, CheapHolds, PoolHolds DEF Next

LEMMA CostInductive == Spec => []CostInv
BY CostInitHolds, CostStep, PTL DEF Spec

LEMMA ExactFollows == CostInv => CostExact
<1>. SUFFICES ASSUME CostInv, phase # "pass"
              PROVE  /\ DOMAIN cost = Keys /\ key_cost = MinLen(grammar)
                     /\ \A k \in Keys : {cost[k][i] : i \in DOMAIN cost[k]} = ExactEntries(grammar, k)
  BY DEF CostExact, ExactEntries
<1>1. ASSUME NEW k \in Keys  PROVE {cost[k][i] : i \in DOMAIN cost[k]} = Range(cost[k])
  BY DEF Range
<1>. QED  BY <1>1 DEF CostInv, IsLists

(* When compute_cost() ends, the costs of the keys and of the rules are    *)
(* the least lengths of their texts, for every grammar: a pass that makes  *)
(* the same lists as the last one has lowered no key.                      *)
THEOREM CostsAreExact == Spec => []CostExact
BY CostInductive, ExactFollows, PTL

(* The first m entries are the cheapest ones.                              *)
FirstOnes(s, m) ==
  /\ m \in 1..Len(s)
  /\ \A x \in 1..m : s[x].cost = s[1].cost
  /\ \A x \in (m + 1)..Len(s) : s[x].cost # s[1].cost

RulesUpTo(s, m) == [x \in 1..m |-> s[x].rule]

LEMMA FirstOnesExist ==
  ASSUME NEW s \in Seq(Entry), s # <<>>, Sorted(s)
  PROVE  \E m : FirstOnes(s, m)
<1>. DEFINE n == Len(s)  T == {x \in 1..n : s[x].cost # s[1].cost}
<1>1. n \in Nat /\ n >= 1
  OBVIOUS
<1>2. ASSUME NEW x \in 1..n  PROVE s[x].cost \in Nat
  <2>1. s[x] \in Entry
    OBVIOUS
  <2>. QED  BY <2>1 DEF Entry
<1>3. CASE T = {}
  <2>1. \A x \in 1..n : s[x].cost = s[1].cost
    BY <1>3
  <2>2. n \in 1..n /\ (n + 1)..n = {}
    BY <1>1
  <2>. QED  BY <2>1, <2>2 DEF FirstOnes
<1>4. CASE T # {}
  <2>. DEFINE m == Min(T)
  <2>1. m \in T /\ m \in Nat /\ \A x \in T : m <= x
    <3>1. T \in SUBSET Nat
      BY <1>1
    <3>. HIDE DEF T
    <3>. QED  BY <1>4, <3>1, MinFacts
  <2>. HIDE DEF m
  <2>2. m \in 1..n /\ m # 1 /\ s[m].cost # s[1].cost
    BY <2>1
  <2>3. m - 1 \in 1..n
    BY <1>1, <2>2
  <2>4. ASSUME NEW x \in 1..(m - 1)  PROVE s[x].cost = s[1].cost
    <3>1. x \in 1..n /\ ~ (m <= x)
      BY <1>1, <2>1, <2>2
    <3>. QED  BY <2>1, <3>1
  <2>5. ASSUME NEW x \in ((m - 1) + 1)..n  PROVE s[x].cost # s[1].cost
    <3>1. x \in 1..n /\ (m < x \/ m = x) /\ 1 < m /\ 1 \in 1..n
      BY <1>1, <2>2
    <3>2. s[1].cost <= s[m].cost /\ (m < x => s[m].cost <= s[x].cost)
      BY <2>2, <3>1 DEF Sorted
    <3>3. s[1].cost \in Nat /\ s[m].cost \in Nat /\ s[x].cost \in Nat
      BY <1>2, <2>2, <3>1
    <3>4. CASE m < x
      BY <2>2, <3>2, <3>3, <3>4
    <3>5. CASE m = x
      BY <2>2, <3>5
    <3>. QED  BY <3>1, <3>4, <3>5
  <2>6. FirstOnes(s, m - 1)
    BY <2>3, <2>4, <2>5 DEF FirstOnes
  <2>. QED  BY <2>6
<1>. QED  BY <1>3, <1>4

LEMMA CheapestIs ==
  ASSUME NEW s \in Seq(Entry), NEW m, FirstOnes(s, m)
  PROVE  Cheapest(s) = RulesUpTo(s, m)
<1>. DEFINE n == Len(s)
            Same(i) == s[i].cost = s[1].cost
            Fn(f) == f = [i \in 0..n |->
                            IF i = 0 THEN <<>>
                            ELSE IF Same(i) THEN Append(f[i - 1], s[i].rule) ELSE f[i - 1]]
            u == [i \in 0..n |-> RulesUpTo(s, IF i <= m THEN i ELSE m)]
            h == CHOOSE f : Fn(f)
<1>1. n \in Nat /\ m \in 1..n
  BY DEF FirstOnes
<1>2. \A x \in 1..n : Same(x) <=> x <= m
  <2>. SUFFICES ASSUME NEW x \in 1..n  PROVE Same(x) <=> x <= m
    OBVIOUS
  <2>1. CASE x <= m
    <3>1. x \in 1..m
      BY <1>1, <2>1
    <3>. QED  BY <2>1, <3>1 DEF FirstOnes
  <2>2. CASE ~ (x <= m)
    <3>1. x \in (m + 1)..Len(s)
      BY <1>1, <2>2
    <3>. QED  BY <2>2, <3>1 DEF FirstOnes
  <2>. QED  BY <2>1, <2>2
<1>3. Cheapest(s) = h[n]
  BY DEF Cheapest
<1>. HIDE DEF Same
<1>4. u[0] = <<>>
  BY <1>1 DEF RulesUpTo
<1>5. ASSUME NEW i \in 1..n
      PROVE  u[i] = IF Same(i) THEN Append(u[i - 1], s[i].rule) ELSE u[i - 1]
  <2>0. i - 1 \in 0..n /\ i \in 0..n
    BY <1>1
  <2>1. CASE i <= m
    <3>1. u[i] = RulesUpTo(s, i) /\ u[i - 1] = RulesUpTo(s, i - 1)
      BY <1>1, <2>0, <2>1
    <3>2. Append(RulesUpTo(s, i - 1), s[i].rule) = RulesUpTo(s, i)
      <4>. DEFINE q == RulesUpTo(s, i - 1)  t == RulesUpTo(s, i)  w == Append(q, s[i].rule)
      <4>0. i - 1 \in Nat /\ (i - 1) + 1 = i
        BY <1>1
      <4>1. q \in Seq({s[x].rule : x \in 1..n}) /\ Len(q) = i - 1
            /\ \A x \in 1..(i - 1) : q[x] = s[x].rule
        <5>1. \A x \in 1..(i - 1) : s[x].rule \in {s[y].rule : y \in 1..n}
          BY <1>1
        <5>. QED  BY <4>0, <5>1 DEF RulesUpTo
      <4>2. t = [x \in 1..i |-> s[x].rule]
        BY DEF RulesUpTo
      <4>. HIDE DEF q, t
      <4>3. w = [x \in 1..i |-> w[x]] /\ \A x \in 1..(i - 1) : w[x] = q[x]
            /\ w[i] = s[i].rule
        BY <4>0, <4>1
      <4>4. \A x \in 1..i : w[x] = s[x].rule
        BY <4>0, <4>1, <4>3
      <4>. HIDE DEF w
      <4>5. w = t
        BY <4>2, <4>3, <4>4
      <4>. QED  BY <4>5 DEF w, q, t
    <3>. QED  BY <1>2, <2>1, <3>1, <3>2
  <2>2. CASE ~ (i <= m)
    <3>1. u[i] = RulesUpTo(s, m)
      BY <1>1, <2>0, <2>2
    <3>2. u[i - 1] = RulesUpTo(s, m)
      <4>1. i - 1 = m \/ ~ (i - 1 <= m)
        BY <1>1, <2>2
      <4>. QED  BY <1>1, <2>0, <4>1
    <3>. QED  BY <1>2, <2>2, <3>1, <3>2
  <2>. QED  BY <2>1, <2>2
<1>6. u = [i \in 0..n |-> u[i]]
  OBVIOUS
<1>7. u[n] = RulesUpTo(s, m)
  <2>1. n \in 0..n /\ (n <= m => n = m)
    BY <1>1
  <2>. QED  BY <2>1
<1>. HIDE DEF u
<1>8. Fn(u)
  <2>1. \A i \in 0..n : u[i] = IF i = 0 THEN <<>>
                               ELSE IF Same(i) THEN Append(u[i - 1], s[i].rule) ELSE u[i - 1]
    <3>. SUFFICES ASSUME NEW i \in 0..n, i # 0
                  PROVE  u[i] = IF Same(i) THEN Append(u[i - 1], s[i].rule) ELSE u[i - 1]
      BY <1>4
    <3>1. i \in 1..n
      BY <1>1
    <3>. QED  BY <1>5, <3>1
  <2>. QED  BY <1>6, <2>1
<1>9. Fn(h)
  BY <1>8
<1>. HIDE DEF h
<1>10. h[0] = <<>>
  <2>1. 0 \in 0..n
    BY <1>1
  <2>. QED  BY <1>9, <2>1
<1>11. ASSUME NEW i \in 1..n
       PROVE  h[i] = IF Same(i) THEN Append(h[i - 1], s[i].rule) ELSE h[i - 1]
  <2>1. i \in 0..n /\ i # 0
    BY <1>1
  <2>. QED  BY <1>9, <2>1
<1>. DEFINE P == {i \in Nat : h[i] = u[i]}
<1>12. 0 \in P
  BY <1>4, <1>10
<1>13. ASSUME NEW i \in 0..(n - 1), i \in P  PROVE i + 1 \in P
  <2>1. i + 1 \in 1..n /\ (i + 1) - 1 = i /\ i + 1 \in Nat
    BY <1>1
  <2>2. /\ h[i + 1] = IF Same(i + 1) THEN Append(h[i], s[i + 1].rule) ELSE h[i]
        /\ u[i + 1] = IF Same(i + 1) THEN Append(u[i], s[i + 1].rule) ELSE u[i]
    BY <1>5, <1>11, <2>1
  <2>. QED  BY <1>13, <2>1, <2>2
<1>14. n \in P
  <2>1. n \in 0..n
    BY <1>1
  <2>. HIDE DEF P, n
  <2>. QED  BY <1>1, <1>12, <1>13, <2>1, UpTo
<1>. QED  BY <1>3, <1>7, <1>14
-----------------------------------------------------------------------------
(* The pool of minimal trees *)

CheapRule(g, k, r) ==
  r \in Range(g[k]) /\ Known(MinLen(g), r) /\ ExpCost(MinLen(g), r) = MinLen(g)[k]

LEMMA FirstIsLeast ==
  ASSUME NEW g \in Grammar, NEW k \in Keys, NEW s \in Seq(Entry), s # <<>>, Sorted(s),
         Range(s) = ExactEntries(g, k)
  PROVE  /\ k \in Productive(g) /\ s[1].cost = MinLen(g)[k]
         /\ \A x \in 1..Len(s) : s[x].cost = s[1].cost => CheapRule(g, k, s[x].rule)
<1>. DEFINE n == Len(s)
<1>1. n \in Nat /\ 1 \in 1..n /\ DOMAIN s = 1..n
  OBVIOUS
<1>2. ASSUME NEW x \in 1..n
      PROVE  s[x] \in ExactEntries(g, k) /\ s[x].cost \in Nat
  <2>1. s[x] \in Range(s)
    BY <1>1 DEF Range
  <2>2. s[x] \in Entry
    OBVIOUS
  <2>. QED  BY <2>1, <2>2 DEF Entry
<1>3. ASSUME NEW x \in 1..n
      PROVE  /\ s[x].rule \in Range(g[k]) /\ Known(MinLen(g), s[x].rule)
             /\ s[x].cost = ExpCost(MinLen(g), s[x].rule)
             /\ k \in Productive(g) /\ MinLen(g)[k] <= s[x].cost
  <2>1. PICK r \in Range(g[k]) : Known(MinLen(g), r) /\ s[x] = ExpEntry(MinLen(g), r)
    BY <1>2, ExactHas
  <2>2. s[x].cost = ExpCost(MinLen(g), r) /\ s[x].rule = r
    BY <2>1 DEF ExpEntry
  <2>3. r \in Seq(Tokens)
    BY GrammarRules
  <2>4. ExpCost(MinLen(g), r) \in RuleLengths(r, Lengths(g))
    BY <2>1, <2>3, LeastOfRule
  <2>5. k \in Productive(g) /\ MinLen(g)[k] <= ExpCost(MinLen(g), r)
    BY <2>4, MinLenFacts
  <2>. QED  BY <2>1, <2>2, <2>5
<1>4. k \in Productive(g)
  BY <1>1, <1>3
<1>5. \E x \in 1..n : s[x].cost <= MinLen(g)[k]
  <2>1. MinLen(g)[k] \in Derived(g, Lengths(g))[k] /\ Lengths(g) \in Lens
    BY <1>4, MinLenFacts, LengthsFacts
  <2>2. PICK r \in Range(g[k]) : MinLen(g)[k] \in RuleLengths(r, Lengths(g))
    BY <2>1, DerivedHas
  <2>3. r \in Seq(Tokens)
    BY GrammarRules
  <2>4. Known(MinLen(g), r)
    BY <2>2, <2>3, KnownHasLengths
  <2>5. ExpCost(MinLen(g), r) = Min(RuleLengths(r, Lengths(g)))
    BY <2>3, <2>4, LeastOfRule
  <2>6. Min(RuleLengths(r, Lengths(g))) <= MinLen(g)[k]
    <3>1. RuleLengths(r, Lengths(g)) \in SUBSET Nat
      BY <2>1, <2>3, RuleSplits
    <3>. QED  BY <2>2, <3>1, MinFacts
  <2>7. ExpEntry(MinLen(g), r) \in Range(s)
    BY <2>4, ExactHas
  <2>8. PICK x \in 1..n : s[x] = ExpEntry(MinLen(g), r)
    BY <1>1, <2>7 DEF Range
  <2>9. s[x].cost = ExpCost(MinLen(g), r)
    BY <2>8 DEF ExpEntry
  <2>. QED  BY <2>5, <2>6, <2>9
<1>6. s[1].cost = MinLen(g)[k]
  <2>1. PICK x \in 1..n : s[x].cost <= MinLen(g)[k]
    BY <1>5
  <2>2. s[1].cost <= s[x].cost
    <3>1. CASE x = 1
      BY <1>2, <3>1
    <3>2. CASE x # 1
      <4>1. 1 < x
        BY <1>1, <3>2
      <4>. QED  BY <1>1, <4>1 DEF Sorted
    <3>. QED  BY <3>1, <3>2
  <2>3. MinLen(g)[k] \in Nat /\ s[1].cost \in Nat /\ s[x].cost \in Nat /\ MinLen(g)[k] <= s[1].cost
    BY <1>1, <1>2, <1>3, <1>4, MinLenFacts
  <2>. QED  BY <2>1, <2>2, <2>3
<1>7. ASSUME NEW x \in 1..n, s[x].cost = s[1].cost  PROVE CheapRule(g, k, s[x].rule)
  BY <1>3, <1>6, <1>7 DEF CheapRule
<1>. QED  BY <1>4, <1>6, <1>7

PoolPhases == {"pool", "endless", "done"}

LEMMA CheapGrammar ==
  ASSUME CostInv, phase \in PoolPhases
  PROVE  /\ grammar \in Grammar /\ c_grammar \in Grammar /\ Productive(grammar) = Keys
         /\ \A k \in Keys : /\ c_grammar[k] # <<>> /\ IsPrefix(c_grammar[k], grammar[k])
                            /\ \A r : r \in Range(c_grammar[k]) <=> CheapRule(grammar, k, r)
<1>1. /\ grammar \in Grammar /\ Productive(grammar) = Keys /\ IsLists(cost)
      /\ grammar = [k \in Keys |-> Rules(cost[k])]
      /\ c_grammar = [k \in Keys |-> Cheapest(cost[k])]
      /\ \A k \in Keys : Range(cost[k]) = ExactEntries(grammar, k) /\ Sorted(cost[k])
  BY DEF CostInv, PoolPhases
<1>2. ASSUME NEW k \in Keys
      PROVE  /\ c_grammar[k] \in Seq(Seq(Tokens)) /\ c_grammar[k] # <<>>
             /\ IsPrefix(c_grammar[k], grammar[k])
             /\ \A r : r \in Range(c_grammar[k]) <=> CheapRule(grammar, k, r)
  <2>. DEFINE s == cost[k]  n == Len(s)  c == c_grammar[k]  d == grammar[k]
  <2>1. s \in Seq(Entry) /\ Range(s) = ExactEntries(grammar, k) /\ Sorted(s)
    BY <1>1 DEF IsLists
  <2>2. s # <<>>
    <3>1. Range(s) # {}
      BY <1>1, <2>1, ExactSome
    <3>. QED  BY <3>1 DEF Range
  <2>3. PICK m : FirstOnes(s, m)
    BY <2>1, <2>2, FirstOnesExist
  <2>4. c = RulesUpTo(s, m)
    BY <1>1, <2>1, <2>3, CheapestIs
  <2>5. d = Rules(s)
    BY <1>1
  <2>. HIDE DEF s, c, d
  <2>6. n \in Nat /\ m \in 1..n /\ DOMAIN s = 1..n
    BY <2>1, <2>3 DEF FirstOnes
  <2>7. ASSUME NEW x \in 1..n  PROVE s[x].rule \in Seq(Tokens)
    <3>1. s[x] \in Entry
      BY <2>1
    <3>. QED  BY <3>1 DEF Entry
  <2>8. /\ d \in Seq(Seq(Tokens)) /\ Len(d) = n /\ \A x \in 1..n : d[x] = s[x].rule
    BY <2>5, <2>6, <2>7 DEF Rules
  <2>9. /\ c \in Seq(Seq(Tokens)) /\ Len(c) = m /\ DOMAIN c = 1..m /\ \A x \in 1..m : c[x] = s[x].rule
    <3>1. \A x \in 1..m : s[x].rule \in Seq(Tokens)
      BY <2>6, <2>7
    <3>. QED  BY <2>4, <2>6, <3>1 DEF RulesUpTo
  <2>10. c # <<>>
    BY <2>6, <2>9
  <2>11. IsPrefix(c, d)
    <3>1. SubSeq(c, 1, m) = [x \in 1..m |-> c[x]]
      BY <2>6, <2>9
    <3>2. SubSeq(d, 1, m) = [x \in 1..m |-> d[x]]
      BY <2>6, <2>8
    <3>3. ASSUME NEW x \in 1..m  PROVE c[x] = d[x]
      <4>1. x \in 1..n
        BY <2>6
      <4>. QED  BY <2>8, <2>9, <4>1
    <3>4. SubSeq(c, 1, m) = SubSeq(d, 1, m)
      BY <3>1, <3>2, <3>3
    <3>. QED  BY <2>6, <2>8, <2>9, <3>4 DEF IsPrefix
  <2>12. ASSUME NEW r \in Range(c)  PROVE CheapRule(grammar, k, r)
    <3>1. PICK x \in 1..m : r = s[x].rule
      BY <2>9 DEF Range
    <3>2. x \in 1..n /\ s[x].cost = s[1].cost
      BY <2>3, <2>6 DEF FirstOnes
    <3>. QED  BY <1>1, <2>1, <2>2, <3>1, <3>2, FirstIsLeast
  <2>13. ASSUME NEW r, CheapRule(grammar, k, r)  PROVE r \in Range(c)
    <3>1. ExpEntry(MinLen(grammar), r) \in Range(s)
      BY <1>1, <2>1, <2>13, ExactHas DEF CheapRule
    <3>2. PICK x \in 1..n : s[x] = ExpEntry(MinLen(grammar), r)
      BY <2>6, <3>1 DEF Range
    <3>3. s[1].cost = MinLen(grammar)[k]
      BY <1>1, <2>1, <2>2, FirstIsLeast
    <3>4. s[x].rule = r /\ s[x].cost = s[1].cost
      BY <2>13, <3>2, <3>3 DEF CheapRule, ExpEntry
    <3>5. x \in 1..m
      <4>1. x \notin (m + 1)..n
        BY <2>3, <3>4 DEF FirstOnes, n
      <4>. QED  BY <2>6, <3>2, <4>1
    <3>. QED  BY <2>9, <3>4, <3>5 DEF Range
  <2>. QED  BY <2>9, <2>10, <2>11, <2>12, <2>13 DEF c, d
<1>3. c_grammar \in Grammar
  <2>1. DOMAIN c_grammar = Keys /\ c_grammar = [k \in Keys |-> c_grammar[k]]
    BY <1>1
  <2>. QED  BY <1>2, <2>1 DEF Grammar
<1>. QED  BY <1>1, <1>2, <1>3

LeftEdges(g) == [j \in Keys |-> Leftmost(g, j)]

(* The tokens of a cheapest rule are not longer than what it derives, and  *)
(* one as long as that has only empty ones beside it.                      *)
LEMMA CheapToken ==
  ASSUME NEW g \in Grammar, NEW k \in Keys, NEW r, CheapRule(g, k, r), NEW j \in KeysOf(r)
  PROVE  /\ k \in Productive(g) /\ j \in Productive(g) /\ MinLen(g)[j] <= MinLen(g)[k]
         /\ MinLen(g)[j] = MinLen(g)[k] => j \in LeftEdges(g)[k]
<1>. DEFINE kc == MinLen(g)  n == Len(r)  v == SymCosts(kc, r)
<1>1. r \in Range(g[k]) /\ r \in Seq(Tokens) /\ Known(kc, r) /\ ExpCost(kc, r) = kc[k]
  BY GrammarRules DEF CheapRule
<1>2. n \in Nat /\ DOMAIN r = 1..n /\ \A i \in 1..n : r[i] \in Tokens
  BY <1>1
<1>3. IsCosts(kc) /\ ExpCost(kc, r) \in RuleLengths(r, Lengths(g)) /\ DOMAIN kc = Productive(g)
  BY <1>1, LeastOfRule DEF MinLen
<1>4. k \in Productive(g)
  BY <1>1, <1>3, MinLenFacts
<1>5. v \in [1..n -> Nat]
  BY <1>1, <1>3, ExpIs
<1>6. PICK p : Adds(v, p, n) /\ kc[k] = p[n]
  BY <1>1, <1>3, ExpIs
<1>7. PICK i \in 1..n : r[i] = j
  BY <1>2 DEF KeysOf, Range
<1>8. j \in Keys /\ j \in Productive(g)
  BY <1>1, <1>3, <1>7 DEF KeysOf, Known
<1>9. v[i] = kc[j]
  <2>1. v[i] = SymCost(kc, j)
    BY <1>7 DEF SymCosts
  <2>. QED  BY <1>2, <1>3, <1>7, <1>8, <2>1, SymFacts
<1>10. ASSUME NEW h \in 1..n  PROVE v[h] \in TokenLengths(r[h], Lengths(g))
  <2>1. v[h] = SymCost(kc, r[h])
    BY DEF SymCosts
  <2>2. CASE r[h] \in Keys
    <3>1. r[h] \in Productive(g)
      BY <1>1, <1>3, <2>2 DEF Known
    <3>2. v[h] = kc[r[h]] /\ kc[r[h]] \in Lengths(g)[r[h]]
      BY <1>2, <1>3, <2>1, <2>2, <3>1, SymFacts, MinLenFacts
    <3>. QED  BY <2>2, <3>2 DEF TokenLengths
  <2>3. CASE r[h] \notin Keys
    <3>1. v[h] = TermLens[r[h]]
      BY <2>1, <2>3 DEF SymCost
    <3>. HIDE DEF v
    <3>. QED  BY <2>3, <3>1 DEF TokenLengths
  <2>. QED  BY <2>2, <2>3
<1>. HIDE DEF v, kc, n
<1>11. /\ p \in [0..n -> Nat] /\ p[0] = 0 /\ \A h \in 1..n : p[h] = p[h - 1] + v[h]
       /\ \A h \in 0..n : p[h] <= p[n]
  BY <1>2, <1>5, <1>6, AddsGrow DEF Adds
<1>12. /\ i \in 0..n /\ i - 1 \in 0..n /\ n \in 0..n /\ i - 1 \in Nat
  BY <1>2
<1>13. /\ p[i] \in Nat /\ p[i - 1] \in Nat /\ p[n] \in Nat /\ v[i] \in Nat
       /\ p[i] = p[i - 1] + v[i] /\ p[i] <= p[n]
  BY <1>5, <1>11, <1>12
<1>14. kc[j] <= kc[k]
  BY <1>6, <1>9, <1>13
<1>15. ASSUME kc[j] = kc[k]  PROVE j \in Leftmost(g, k)
  <2>1. p[i - 1] = 0
    BY <1>6, <1>9, <1>13, <1>15
  <2>. DEFINE l == i - 1  w == [x \in 1..l |-> v[x]]  q == [x \in 0..l |-> p[x]]
  <2>2. \A x \in 0..l : x \in 0..n
    BY <1>2
  <2>3. \A x \in 1..l : x \in 1..n /\ x - 1 \in 0..l /\ x \in 0..l
    BY <1>2
  <2>4. w \in [1..l -> Nat] /\ q \in [0..l -> Nat] /\ q[0] = 0
    <3>1. \A x \in 1..l : v[x] \in Nat
      BY <1>5, <2>3
    <3>2. \A x \in 0..l : p[x] \in Nat
      BY <1>11, <2>2
    <3>3. 0 \in 0..l
      BY <1>12
    <3>. HIDE DEF l
    <3>. QED  BY <1>11, <3>1, <3>2, <3>3
  <2>5. ASSUME NEW x \in 1..l  PROVE q[x] = q[x - 1] + w[x]
    BY <1>11, <2>3
  <2>6. w = [x \in 1..l |-> v[x]] /\ q[l] = 0
    BY <1>12, <2>1
  <2>. HIDE DEF w, q
  <2>7. Adds(w, q, l)
    BY <2>4, <2>5 DEF Adds
  <2>8. \A x \in 0..l : q[x] <= q[l]
    BY <1>12, <2>4, <2>7, AddsGrow
  <2>9. ASSUME NEW x \in 1..l  PROVE v[x] = 0
    <3>1. q[x] \in Nat /\ q[x - 1] \in Nat /\ w[x] \in Nat /\ q[x] <= 0 /\ q[x] = q[x - 1] + w[x]
      BY <2>3, <2>4, <2>5, <2>6, <2>8
    <3>2. w[x] = v[x]
      BY <2>6
    <3>. QED  BY <3>1, <3>2
  <2>10. ASSUME NEW x \in 1..(i - 1)  PROVE 0 \in TokenLengths(r[x], Lengths(g))
    <3>1. x \in 1..n /\ v[x] = 0
      BY <2>3, <2>9
    <3>. QED  BY <1>10, <3>1
  <2>11. i \in DOMAIN r
    BY <1>2 DEF n
  <2>. QED  BY <1>1, <1>7, <1>8, <2>10, <2>11 DEF Leftmost
<1>. QED  BY <1>4, <1>8, <1>14, <1>15 DEF LeftEdges, kc

LEMMA CheapUsesFacts ==
  ASSUME CostInv, phase \in PoolPhases
  PROVE  /\ CheapUses \in [Keys -> SUBSET Keys]
         /\ \A k \in Keys : \A j : j \in CheapUses[k] <=>
              \E r \in Range(c_grammar[k]) : j \in KeysOf(r)
<1>1. \A k \in Keys : \A j : j \in CheapUses[k] <=> \E r \in Range(c_grammar[k]) : j \in KeysOf(r)
  BY DEF CheapUses
<1>2. \A r : KeysOf(r) \subseteq Keys
  BY DEF KeysOf
<1>. QED  BY <1>1, <1>2 DEF CheapUses

(* A cheapest rule has the least length of its key.                        *)
LEMMA CheapRuleIs ==
  ASSUME NEW g \in Grammar, NEW k \in Keys, NEW r \in Range(g[k])
  PROVE  CheapRule(g, k, r) <=> MinLen(g)[k] \in RuleLengths(r, Lengths(g))
<1>1. r \in Seq(Tokens)
  BY GrammarRules
<1>2. ASSUME CheapRule(g, k, r)  PROVE MinLen(g)[k] \in RuleLengths(r, Lengths(g))
  <2>1. Known(MinLen(g), r) /\ ExpCost(MinLen(g), r) = MinLen(g)[k]
    BY <1>2 DEF CheapRule
  <2>2. ExpCost(MinLen(g), r) \in RuleLengths(r, Lengths(g))
    BY <1>1, <2>1, LeastOfRule
  <2>. QED  BY <2>1, <2>2
<1>3. ASSUME MinLen(g)[k] \in RuleLengths(r, Lengths(g))  PROVE CheapRule(g, k, r)
  <2>. DEFINE S == RuleLengths(r, Lengths(g))
  <2>1. Known(MinLen(g), r)
    BY <1>1, <1>3, KnownHasLengths
  <2>2. ExpCost(MinLen(g), r) \in S /\ ExpCost(MinLen(g), r) = Min(S)
    BY <1>1, <2>1, LeastOfRule
  <2>3. S \in SUBSET Nat /\ \A x \in S : MinLen(g)[k] <= x
    BY MinLenFacts
  <2>. HIDE DEF S
  <2>4. Min(S) <= MinLen(g)[k]
    BY <1>3, <2>3, MinFacts DEF S
  <2>5. ExpCost(MinLen(g), r) = MinLen(g)[k]
    BY <1>3, <2>2, <2>3, <2>4 DEF S
  <2>. QED  BY <2>1, <2>5 DEF CheapRule
<1>. QED  BY <1>2, <1>3

(* The enumeration goes along the cheapest rules of the grammar.           *)
LEMMA CheapUsesAre ==
  ASSUME CostInv, phase \in PoolPhases
  PROVE  CheapUses = CheapKeys(grammar)
<1>1. /\ grammar \in Grammar
      /\ \A k \in Keys : \A r : r \in Range(c_grammar[k]) <=> CheapRule(grammar, k, r)
  BY CheapGrammar
<1>2. ASSUME NEW k \in Keys
      PROVE  Range(c_grammar[k]) =
               {q \in Range(grammar[k]) : MinLen(grammar)[k] \in RuleLengths(q, Lengths(grammar))}
  <2>1. \A r : CheapRule(grammar, k, r) <=>
            r \in Range(grammar[k]) /\ MinLen(grammar)[k] \in RuleLengths(r, Lengths(grammar))
    BY <1>1, CheapRuleIs DEF CheapRule
  <2>. QED  BY <1>1, <2>1
<1>. QED  BY <1>2 DEF CheapUses, CheapKeys

(* An enumeration that does not return goes round keys of the same cost,   *)
(* each leftmost in a rule of the one before.                              *)
LEMMA EndlessIsLeft ==
  ASSUME CostInv, phase \in PoolPhases, SomeCycle
  PROVE  LeftRecursive(grammar)
<1>. DEFINE g == grammar  kc == MinLen(g)  E == CheapUses  L == LeftEdges(g)
<1>1. g \in Grammar /\ Productive(g) = Keys
      /\ \A k \in Keys : \A r \in Range(c_grammar[k]) : CheapRule(g, k, r)
  BY CheapGrammar
<1>2. \A k \in Keys : kc[k] \in Nat
  BY <1>1, MinLenFacts
<1>3. E \in [Keys -> SUBSET Keys]
  BY CheapUsesFacts
<1>4. L \in [Keys -> SUBSET Keys]
  BY DEF LeftEdges, Leftmost
<1>5. ASSUME NEW j \in Keys, NEW m \in E[j]
      PROVE  m \in Keys /\ kc[m] <= kc[j] /\ (kc[m] = kc[j] => m \in L[j])
  <2>1. PICK r \in Range(c_grammar[j]) : m \in KeysOf(r)
    BY <1>5, CheapUsesFacts
  <2>2. CheapRule(g, j, r)
    BY <1>1
  <2>3. m \in Keys
    BY <2>1 DEF KeysOf
  <2>. QED  BY <1>1, <2>1, <2>2, <2>3, CheapToken
<1>6. PICK k \in Keys : k \in Reaches(E, k)
  BY DEF SomeCycle
<1>. HIDE DEF g, kc, E, L
<1>. DEFINE R == Reaches(L, k)
            S == {j \in Keys : kc[j] < kc[k] \/ (kc[j] = kc[k] /\ j \in R)}
<1>7. R \subseteq Keys /\ L[k] \subseteq R /\ Shut(L, R)
  BY <1>4, ReachesFacts
<1>. HIDE DEF R
<1>8. E[k] \subseteq S
  <2>. SUFFICES ASSUME NEW m \in E[k]  PROVE m \in S
    OBVIOUS
  <2>1. m \in Keys /\ kc[m] <= kc[k] /\ (kc[m] = kc[k] => m \in L[k])
    BY <1>5
  <2>2. kc[m] < kc[k] \/ kc[m] = kc[k]
    BY <1>2, <2>1
  <2>. QED  BY <1>7, <2>1, <2>2
<1>9. Shut(E, S)
  <2>. SUFFICES ASSUME NEW j \in S, NEW m \in E[j]  PROVE m \in S
    BY DEF Shut
  <2>1. m \in Keys /\ kc[m] <= kc[j] /\ (kc[m] = kc[j] => m \in L[j]) /\ j \in Keys
    BY <1>5
  <2>2. kc[m] \in Nat /\ kc[j] \in Nat /\ kc[k] \in Nat
    BY <1>2, <2>1
  <2>3. CASE kc[m] < kc[k]
    BY <2>1, <2>3
  <2>4. CASE ~ (kc[m] < kc[k])
    <3>1. kc[m] = kc[j] /\ kc[j] = kc[k] /\ ~ (kc[j] < kc[k])
      BY <2>1, <2>2, <2>4
    <3>2. j \in R /\ m \in L[j]
      BY <2>1, <3>1
    <3>3. m \in R
      BY <1>7, <3>2 DEF Shut
    <3>. QED  BY <2>1, <3>1, <3>3
  <2>. QED  BY <2>3, <2>4
<1>10. k \in S
  <2>1. S \in SUBSET Keys
    OBVIOUS
  <2>. HIDE DEF S
  <2>. QED  BY <1>3, <1>6, <1>8, <1>9, <2>1, ReachesFacts
<1>11. k \in R
  <2>1. ~ (kc[k] < kc[k])
    BY <1>2
  <2>. QED  BY <1>10, <2>1
<1>. QED  BY <1>11 DEF LeftRecursive, R, L, LeftEdges, g

LEMMA PoolMadeFollows == CostInv => PoolMade
<1>. SUFFICES ASSUME CostInv  PROVE PoolMade
  OBVIOUS
<1>1. phase = "endless" => LeftRecursive(grammar)
  BY EndlessIsLeft DEF CostInv, PoolPhases
<1>2. ASSUME phase \in PoolPhases  PROVE HasPool(grammar) <=> ~ SomeCycle
  <2>1. CheapUses = CheapKeys(grammar) /\ Productive(grammar) = Keys
    BY <1>2, CheapUsesAre, CheapGrammar
  <2>. QED  BY <2>1 DEF HasPool, SomeCycle
<1>. QED  BY <1>1, <1>2 DEF PoolMade, CostInv, PoolPhases

(* The pool is made exactly for the grammars that HasPool describes, among *)
(* them all whose keys derive some text and that are not left recursive.   *)
THEOREM PoolIsMade == Spec => []PoolMade
BY CostInductive, PoolMadeFollows, PTL

(* A set of keys that each lead to one of them has a cycle.                *)
LEMMA CycleInside ==
  ASSUME NEW E \in [Keys -> SUBSET Keys], NEW U \in SUBSET Keys, U # {},
         \A k \in U : \E j \in U : j \in E[k]
  PROVE  \E k \in Keys : k \in Reaches(E, k)
<1>. SUFFICES ASSUME \A k \in Keys : k \notin Reaches(E, k)  PROVE FALSE
  OBVIOUS
<1>. DEFINE c(k) == Cardinality(Reaches(E, k))
            N == {c(k) : k \in U}
<1>1. ASSUME NEW k \in Keys
      PROVE  Reaches(E, k) \subseteq Keys /\ IsFiniteSet(Reaches(E, k)) /\ c(k) \in Nat
  <2>1. Reaches(E, k) \subseteq Keys
    BY ReachesFacts
  <2>2. IsFiniteSet(Reaches(E, k))
    BY <2>1, KeysFinite, FS_Subset
  <2>. QED  BY <2>1, <2>2, FS_CardinalityType
<1>. HIDE DEF c
<1>2. Min(N) \in N /\ \A x \in N : Min(N) <= x
  <2>1. N \in SUBSET Nat /\ N # {}
    BY <1>1
  <2>. HIDE DEF N
  <2>. QED  BY <2>1, MinFacts
<1>3. PICK k \in U : \A j \in U : c(k) <= c(j)
  BY <1>2
<1>4. PICK j \in U : j \in E[k]
  OBVIOUS
<1>5. k \in Keys /\ j \in Keys /\ c(k) <= c(j)
  BY <1>3, <1>4
<1>6. j \in Reaches(E, k) /\ Shut(E, Reaches(E, k)) /\ Reaches(E, k) \in SUBSET Keys
  BY <1>4, <1>5, ReachesFacts
<1>7. E[j] \subseteq Reaches(E, k)
  BY <1>6 DEF Shut
<1>8. Reaches(E, j) \subseteq Reaches(E, k)
  BY <1>5, <1>6, <1>7, ReachesFacts
<1>9. Reaches(E, j) # Reaches(E, k)
  BY <1>5, <1>6
<1>10. c(j) < c(k)
  <2>. DEFINE S == Reaches(E, k)  T == Reaches(E, j)
  <2>1. T \in SUBSET S /\ T # S /\ IsFiniteSet(S)
    BY <1>1, <1>5, <1>8, <1>9
  <2>2. Cardinality(T) \in Nat /\ Cardinality(S) \in Nat
    BY <1>1, <1>5 DEF c
  <2>. HIDE DEF S, T
  <2>3. Cardinality(T) <= Cardinality(S) /\ (Cardinality(S) = Cardinality(T) => S = T)
    BY <2>1, FS_Subset
  <2>4. Cardinality(T) < Cardinality(S)
    BY <2>1, <2>2, <2>3
  <2>. QED  BY <2>4 DEF c, S, T
<1>. QED  BY <1>1, <1>5, <1>10

(* A rule all of whose keys derive some text derives some text.            *)
LEMMA TextFromTokens ==
  ASSUME NEW h \in Grammar, NEW k \in Keys, NEW r \in Range(h[k]), KeysOf(r) \subseteq WithText(h)
  PROVE  k \in WithText(h)
<1>. DEFINE A == AllLengths(h)  n == Len(r)
            v == [i \in 1..n |-> CHOOSE x : x \in TokenLengths(r[i], A)]
<1>1. r \in Seq(Tokens)
  BY GrammarRules
<1>2. A \in Lens /\ Closed(h, A)
  BY AllFacts
<1>. HIDE DEF A
<1>3. n \in Nat /\ DOMAIN r = 1..n
      /\ \A i \in 1..n : r[i] \in Tokens /\ \A x \in TokenLengths(r[i], A) : x \in Nat
  BY <1>1, <1>2, TokenFacts
<1>4. ASSUME NEW i \in 1..n  PROVE v[i] \in TokenLengths(r[i], A) /\ v[i] \in Nat
  <2>1. TokenLengths(r[i], A) # {}
    <3>1. CASE r[i] \in Keys
      <4>1. r[i] \in KeysOf(r)
        BY <1>3, <3>1 DEF KeysOf, Range
      <4>2. r[i] \in WithText(h)
        BY <4>1
      <4>. QED  BY <3>1, <4>2 DEF WithText, TokenLengths, A
    <3>2. CASE r[i] \notin Keys
      BY <3>2 DEF TokenLengths
    <3>. QED  BY <3>1, <3>2
  <2>2. v[i] \in TokenLengths(r[i], A)
    BY <2>1
  <2>. QED  BY <1>3, <2>2
<1>5. v \in [1..n -> Nat]
  <2>1. v = [i \in 1..n |-> v[i]]
    OBVIOUS
  <2>. HIDE DEF v
  <2>. QED  BY <1>4, <2>1
<1>. HIDE DEF v
<1>6. PICK p : Adds(v, p, n)
  BY <1>3, <1>5, AddsExist
<1>7. Splits(r, A, v, p)
  BY <1>4, <1>5, <1>6 DEF Splits
<1>8. p[n] \in RuleLengths(r, A)
  BY <1>1, <1>2, <1>7, RuleSplits
<1>9. p[n] \in Derived(h, A)[k]
  BY <1>2, <1>8, DerivedHas
<1>10. p[n] \in A[k]
  BY <1>2, <1>9 DEF Closed
<1>. QED  BY <1>10 DEF WithText, A

(* What the cheapest rules derive is as long as the key costs.             *)
LEMMA CheapLengths ==
  ASSUME NEW g \in Grammar, NEW h \in Grammar, Productive(g) = Keys,
         \A k \in Keys : \A r \in Range(h[k]) : CheapRule(g, k, r)
  PROVE  \A k \in Keys : AllLengths(h)[k] \subseteq {MinLen(g)[k]}
<1>. DEFINE kc == MinLen(g)  Q == [k \in Keys |-> {kc[k]}]
<1>1. \A k \in Keys : kc[k] \in Nat
  BY MinLenFacts
<1>2. Q \in Lens /\ \A k \in Keys : Q[k] = {kc[k]}
  BY <1>1 DEF Lens
<1>. HIDE DEF Q
<1>3. ASSUME NEW k \in Keys, NEW x \in Derived(h, Q)[k]  PROVE x \in Q[k]
  <2>1. PICK r \in Range(h[k]) : x \in RuleLengths(r, Q)
    BY <1>2, DerivedHas
  <2>2. r \in Seq(Tokens)
    BY GrammarRules
  <2>3. Known(kc, r) /\ ExpCost(kc, r) = kc[k]
    BY <2>1 DEF CheapRule
  <2>4. IsCosts(kc)
    BY <2>2, <2>3, LeastOfRule
  <2>. DEFINE n == Len(r)  c == SymCosts(kc, r)
  <2>5. n \in Nat /\ \A i \in 1..n : r[i] \in Tokens
    BY <2>2
  <2>6. c \in [1..n -> Nat]
    BY <2>2, <2>3, <2>4, ExpIs
  <2>7. PICK q : Adds(c, q, n) /\ kc[k] = q[n]
    BY <2>2, <2>3, <2>4, ExpIs
  <2>8. PICK v, p : Splits(r, Q, v, p) /\ x = p[n]
    BY <1>2, <2>1, <2>2, RuleSplits
  <2>9. ASSUME NEW i \in 1..n  PROVE v[i] = c[i]
    <3>1. v[i] \in TokenLengths(r[i], Q) /\ c[i] = SymCost(kc, r[i])
      BY <2>8 DEF Splits, SymCosts
    <3>2. CASE r[i] \in Keys
      <4>1. c[i] = kc[r[i]]
        BY <2>3, <2>4, <2>5, <3>1, <3>2, SymFacts DEF Known
      <4>2. v[i] = kc[r[i]]
        BY <1>2, <3>1, <3>2 DEF TokenLengths
      <4>. HIDE DEF c
      <4>. QED  BY <4>1, <4>2
    <3>3. CASE r[i] \notin Keys
      <4>1. c[i] = TermLens[r[i]]
        BY <3>1, <3>3 DEF SymCost
      <4>2. v[i] = TermLens[r[i]]
        BY <3>1, <3>3 DEF TokenLengths
      <4>. HIDE DEF c
      <4>. QED  BY <4>1, <4>2
    <3>. QED  BY <3>2, <3>3
  <2>10. v \in [1..n -> Nat] /\ Adds(v, p, n)
    BY <2>8 DEF Splits
  <2>. HIDE DEF c, n
  <2>11. \A i \in 1..n : v[i] <= c[i] /\ c[i] <= v[i]
    BY <2>6, <2>9
  <2>12. p[n] <= q[n] /\ p[n] \in Nat /\ q[n] \in Nat
    BY <2>5, <2>6, <2>7, <2>10, <2>11, AddsLess
  <2>13. q[n] <= p[n]
    BY <2>5, <2>6, <2>7, <2>10, <2>11, AddsLess
  <2>14. x = kc[k]
    BY <2>7, <2>8, <2>12, <2>13
  <2>. QED  BY <1>2, <2>14
<1>4. \A k \in Keys : AllLengths(h)[k] \subseteq Q[k]
  BY <1>2, <1>3, AllFacts DEF Closed
<1>. QED  BY <1>2, <1>4

LEMMA PoolMinimalFollows == CostInv => PoolMinimal
<1>. SUFFICES ASSUME CostInv, phase = "done"
              PROVE  \A k \in Keys : /\ Lengths(c_grammar)[k] = {MinLen(grammar)[k]}
                                     /\ IsPrefix(c_grammar[k], grammar[k])
  BY DEF PoolMinimal
<1>. DEFINE g == grammar  h == c_grammar  U == Keys \ WithText(h)
<1>1. phase \in PoolPhases /\ ~ SomeCycle
  BY DEF PoolPhases, CostInv
<1>2. /\ g \in Grammar /\ h \in Grammar /\ Productive(g) = Keys
      /\ \A k \in Keys : /\ h[k] # <<>> /\ IsPrefix(h[k], g[k])
                         /\ \A r \in Range(h[k]) : CheapRule(g, k, r)
  BY <1>1, CheapGrammar
<1>3. CheapUses \in [Keys -> SUBSET Keys]
  BY <1>1, CheapUsesFacts
<1>4. ASSUME NEW k \in U  PROVE \E j \in U : j \in CheapUses[k]
  <2>1. k \in Keys /\ k \notin WithText(h)
    OBVIOUS
  <2>2. h[k][1] \in Range(h[k])
    <3>1. Len(h[k]) \in Nat /\ DOMAIN h[k] = 1..Len(h[k]) /\ h[k] # <<>> /\ h[k] \in Seq(Seq(Tokens))
      BY <1>2, <2>1, GrammarRules DEF Grammar
    <3>2. 1 \in DOMAIN h[k]
      BY <3>1
    <3>. QED  BY <3>2 DEF Range
  <2>3. PICK j \in KeysOf(h[k][1]) : j \notin WithText(h)
    BY <1>2, <2>1, <2>2, TextFromTokens
  <2>4. j \in Keys
    BY DEF KeysOf
  <2>5. j \in CheapUses[k]
    BY <1>1, <2>1, <2>2, <2>3, CheapUsesFacts
  <2>. QED  BY <2>3, <2>4, <2>5
<1>5. U = {}
  <2>1. U \in SUBSET Keys
    OBVIOUS
  <2>. HIDE DEF U
  <2>. QED  BY <1>1, <1>3, <1>4, <2>1, CycleInside DEF SomeCycle
<1>6. ASSUME NEW k \in Keys  PROVE Lengths(h)[k] = {MinLen(g)[k]}
  <2>1. k \in WithText(h)
    BY <1>5
  <2>2. AllLengths(h)[k] \subseteq {MinLen(g)[k]}
    BY <1>2, CheapLengths
  <2>3. Lengths(h)[k] \subseteq AllLengths(h)[k]
    BY <1>2, LengthsFacts
  <2>4. Least(h, k) \in Lengths(h)[k]
    BY <1>2, <2>1, ShortestSoon
  <2>. QED  BY <2>2, <2>3, <2>4
<1>. QED  BY <1>2, <1>6

(* The trees of the pool are the shortest ones of their keys, and their    *)
(* rule ids are positions in the reordered grammar.                        *)
THEOREM PoolIsMinimal == Spec => []PoolMinimal
BY CostInductive, PoolMinimalFollows, PTL
=============================================================================
