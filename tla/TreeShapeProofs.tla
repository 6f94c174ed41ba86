--------------------------- MODULE TreeShapeProofs ---------------------------
(***************************************************************************)
(* Facts about the preorder trees of TreeShape, for every set Ids: the     *)
(* subtree of a node is contiguous, both kinds of trimming produce trees,  *)
(* and neither adds a recursion edge.                                      *)
(***************************************************************************)
EXTENDS TreeShape, SequencesExt, FiniteSetTheorems, SequenceTheorems,
        WellFoundedInduction, TLAPS

(* A non-empty set of naturals has a least element.                        *)
LEMMA LeastElement ==
  ASSUME NEW S \in SUBSET Nat, S # {}
  PROVE  \E n \in S : \A m \in S : n <= m
<1>1. \E x \in S : \A y \in S : ~ (<<y, x>> \in OpToRel(<, Nat))
  BY NatLessThanWellFounded, WFMin
<1>2. ASSUME NEW x \in S, NEW y \in S, ~ (<<y, x>> \in OpToRel(<, Nat))
      PROVE  x <= y
  <2>1. x \in Nat /\ y \in Nat
    OBVIOUS
  <2>2. ~ (y < x)
    BY <1>2, <2>1 DEF OpToRel
  <2>. QED  BY <2>1, <2>2
<1>. QED  BY <1>1, <1>2

(* A set that holds 0, and with a number below n the next one, holds all   *)
(* numbers up to n.                                                        *)
LEMMA UpTo ==
  ASSUME NEW n \in Nat, NEW P, 0 \in P, \A k \in 0..(n - 1) : k \in P => k + 1 \in P
  PROVE  \A k \in 0..n : k \in P
<1>. DEFINE Bad == {k \in 0..n : k \notin P}
<1>. SUFFICES ASSUME Bad # {}  PROVE FALSE
  OBVIOUS
<1>1. PICK k \in Bad : \A i \in Bad : k <= i
  <2>1. Bad \in SUBSET Nat
    OBVIOUS
  <2>. HIDE DEF Bad
  <2>. QED  BY <2>1, LeastElement
<1>2. k # 0 /\ k \in 0..n /\ k \notin P
  BY <1>1
<1>3. k - 1 \in 0..(n - 1) /\ k - 1 \in 0..n /\ ~ (k <= k - 1) /\ (k - 1) + 1 = k
  BY <1>2
<1>4. k - 1 \in P
  BY <1>1, <1>3
<1>. QED  BY <1>2, <1>3, <1>4

(* The elements of a concatenation.                                        *)
LEMMA ConcatAt ==
  ASSUME NEW S, NEW x \in Seq(S), NEW y \in Seq(S)
  PROVE  /\ x \o y \in Seq(S)
         /\ Len(x \o y) = Len(x) + Len(y)
         /\ \A p \in 1..Len(x) : (x \o y)[p] = x[p]
         /\ \A p \in 1..Len(y) : (x \o y)[Len(x) + p] = y[p]
         /\ \A p \in 1..Len(x \o y) :
              p \in 1..Len(x) \/ \E k \in 1..Len(y) : p = Len(x) + k
<1>1. /\ x \o y \in Seq(S) /\ Len(x \o y) = Len(x) + Len(y)
      /\ \A p \in 1..(Len(x) + Len(y)) :
           (x \o y)[p] = IF p <= Len(x) THEN x[p] ELSE y[p - Len(x)]
      /\ Len(x) \in Nat /\ Len(y) \in Nat
  BY ConcatProperties
<1>2. ASSUME NEW p \in 1..Len(x)  PROVE (x \o y)[p] = x[p]
  <2>1. p \in 1..(Len(x) + Len(y)) /\ p <= Len(x)
    BY <1>1
  <2>. QED  BY <1>1, <2>1
<1>3. ASSUME NEW p \in 1..Len(y)  PROVE (x \o y)[Len(x) + p] = y[p]
  <2>1. /\ Len(x) + p \in 1..(Len(x) + Len(y)) /\ ~ (Len(x) + p <= Len(x))
        /\ (Len(x) + p) - Len(x) = p
    BY <1>1
  <2>. QED  BY <1>1, <2>1
<1>4. ASSUME NEW p \in 1..Len(x \o y), p \notin 1..Len(x)
      PROVE  \E k \in 1..Len(y) : p = Len(x) + k
  <2>1. p - Len(x) \in 1..Len(y) /\ p = Len(x) + (p - Len(x))
    BY <1>1, <1>4
  <2>. QED  BY <2>1
<1>. QED  BY <1>1, <1>2, <1>3, <1>4

(* The places of a sequence.                                               *)
LEMMA PlacesOfSeq ==
  ASSUME NEW S, NEW x \in Seq(S)
  PROVE  DOMAIN x = 1..Len(x) /\ Len(x) \in Nat /\ \A k \in 1..Len(x) : x[k] \in S
OBVIOUS

(* Sequences with the same elements in the same places are equal.          *)
LEMMA SeqSame ==
  ASSUME NEW S, NEW x \in Seq(S), NEW y \in Seq(S), Len(x) = Len(y),
         \A k \in 1..Len(y) : x[k] = y[k]
  PROVE  x = y
OBVIOUS

(* A function on the first naturals is a sequence.                         *)
LEMMA SeqOfFun ==
  ASSUME NEW S, NEW n \in Nat, NEW f \in [1..n -> S]
  PROVE  f \in Seq(S) /\ Len(f) = n
OBVIOUS

(* The sums of the first sequences of ss, as FlattenSeq() makes them.      *)
IsRow(S, ss, f) ==
  /\ f \in [1..Len(ss) -> Seq(S)] /\ f[1] = ss[1]
  /\ \A i \in 1..Len(ss) : i # 1 => f[i] = f[i-1] \o ss[i]

(* FlattenSeq() is the last of these sums.                                 *)
LEMMA FlattenRow ==
  ASSUME NEW S, NEW ss \in Seq(Seq(S)), Len(ss) # 0
  PROVE  \E f : IsRow(S, ss, f) /\ FlattenSeq(ss) = f[Len(ss)]
<1>. DEFINE n == Len(ss)
            Row(f, m) == f = [i \in 1..m |-> IF i = 1 THEN ss[i] ELSE f[i-1] \o ss[i]]
<1>0. n \in Nat /\ n >= 1 /\ \A i \in 1..n : ss[i] \in Seq(S)
  OBVIOUS
<1>1. ASSUME NEW m \in Nat, m >= 1  PROVE \E f : Row(f, m)
  <2>. DEFINE Bad == {k \in Nat : k >= 1 /\ ~ \E f : Row(f, k)}
  <2>. SUFFICES ASSUME Bad # {}  PROVE FALSE
    BY <1>1
  <2>1. PICK k \in Bad : \A i \in Bad : k <= i
    <3>1. Bad \in SUBSET Nat
      OBVIOUS
    <3>. HIDE DEF Bad
    <3>. QED  BY <3>1, LeastElement
  <2>2. CASE k = 1
    <3>. DEFINE f == [i \in 1..1 |-> ss[1]]
    <3>1. Row(f, 1)
      OBVIOUS
    <3>. QED  BY <2>1, <2>2, <3>1
  <2>3. CASE k # 1
    <3>1. k - 1 \in Nat /\ k - 1 >= 1 /\ ~ (k <= k - 1)
      BY <2>1, <2>3
    <3>2. PICK g : Row(g, k - 1)
      BY <2>1, <3>1
    <3>. DEFINE f == [i \in 1..k |-> IF i < k THEN g[i] ELSE g[k-1] \o ss[k]]
    <3>3. ASSUME NEW i \in 1..k
          PROVE  f[i] = IF i = 1 THEN ss[i] ELSE f[i-1] \o ss[i]
      <4>1. CASE i = k
        <5>0. k \in 1..k /\ ~ (k < k) /\ k - 1 \in 1..k /\ k - 1 < k
          BY <3>1
        <5>1. f[k] = g[k-1] \o ss[k] /\ f[k-1] = g[k-1]
          BY <5>0
        <5>. QED  BY <2>3, <4>1, <5>1
      <4>2. CASE i < k
        <5>1. i \in 1..(k-1) /\ f[i] = g[i]
          BY <4>2, <2>1
        <5>2. g[i] = IF i = 1 THEN ss[i] ELSE g[i-1] \o ss[i]
          BY <3>2, <5>1
        <5>3. i # 1 => f[i-1] = g[i-1]
          BY <2>1, <4>2
        <5>. QED  BY <5>1, <5>2, <5>3
      <4>. QED  BY <2>1, <4>1, <4>2
    <3>. HIDE DEF f
    <3>4. f = [i \in 1..k |-> f[i]]
      BY DEF f
    <3>5. Row(f, k)
      BY <3>3, <3>4
    <3>. QED  BY <2>1, <3>5
  <2>. QED  BY <2>2, <2>3
<1>2. PICK f : Row(f, n) /\ FlattenSeq(ss) = f[n]
  <2>1. \E f : Row(f, n)
    BY <1>0, <1>1
  <2>. DEFINE h == CHOOSE f : Row(f, n)
  <2>2. Row(h, n)
    BY <2>1
  <2>3. FlattenSeq(ss) = h[n]
    BY <1>0 DEF FlattenSeq
  <2>. HIDE DEF h
  <2>. QED  BY <2>2, <2>3
<1>3. \A i \in 1..n : f[i] = IF i = 1 THEN ss[i] ELSE f[i-1] \o ss[i]
  BY <1>2
<1>4. DOMAIN f = 1..n /\ f = [i \in 1..n |-> f[i]]
  BY <1>2
<1>. HIDE DEF n
<1>5. ASSUME NEW j \in 1..n  PROVE f[j] \in Seq(S)
  <2>. DEFINE Bad == {i \in 1..n : f[i] \notin Seq(S)}
  <2>. SUFFICES ASSUME Bad # {}  PROVE FALSE
    OBVIOUS
  <2>1. PICK k \in Bad : \A i \in Bad : k <= i
    <3>1. Bad \in SUBSET Nat
      BY <1>0
    <3>. HIDE DEF Bad
    <3>. QED  BY <3>1, LeastElement
  <2>2. k \in 1..n /\ f[k] \notin Seq(S)
    BY <2>1
  <2>3. k # 1
    BY <1>0, <1>3, <2>2
  <2>4. k - 1 \in 1..n /\ ~ (k <= k - 1)
    BY <1>0, <2>2, <2>3
  <2>5. f[k-1] \in Seq(S) /\ ss[k] \in Seq(S)
    BY <1>0, <2>1, <2>2, <2>4
  <2>6. f[k] = f[k-1] \o ss[k]
    BY <1>3, <2>2, <2>3
  <2>. QED  BY <2>2, <2>5, <2>6, ConcatAt
<1>6. f \in [1..n -> Seq(S)]
  BY <1>4, <1>5
<1>7. f[1] = ss[1] /\ \A i \in 1..n : i # 1 => f[i] = f[i-1] \o ss[i]
  <2>1. 1 \in 1..n
    BY <1>0
  <2>2. f[1] = ss[1]
    BY <1>3, <2>1
  <2>3. \A i \in 1..n : i # 1 => f[i] = f[i-1] \o ss[i]
    BY <1>3
  <2>. QED  BY <2>2, <2>3
<1>. QED  BY <1>2, <1>6, <1>7 DEF IsRow, n

-----------------------------------------------------------------------------
(* The fields of a node of a tree.                                         *)
LEMMA NodeFields ==
  ASSUME NEW t \in Seq(Node), NEW i \in 1..Len(t)
  PROVE  /\ t[i] \in Node /\ t[i].id \in Ids /\ t[i].depth \in Nat
         /\ t[i] = [id |-> t[i].id, depth |-> t[i].depth]
<1>1. t[i] \in Node
  OBVIOUS
<1>. QED  BY <1>1 DEF Node

(* A sequence of nodes with depths.                                        *)
LevelsTyped(t) == Len(t) \in Nat /\ \A i \in 1..Len(t) : t[i].depth \in Nat

(* The subtree at i is the run of non_term_size(t, i) positions from i: it *)
(* lies in the tree, all of it below i, and what follows is not below i.   *)
LEMMA SubtreeRun ==
  ASSUME NEW t, LevelsTyped(t), NEW i \in 1..Len(t)
  PROVE  LET n == non_term_size(t, i) IN
         /\ n \in Nat /\ n >= 1 /\ i + n - 1 <= Len(t)
         /\ Subtree(t, i) = i..(i + n - 1)
         /\ \A k \in (i+1)..(i + n - 1) : t[k].depth > t[i].depth
         /\ i + n <= Len(t) => t[i + n].depth <= t[i].depth
<1>. DEFINE Stop == {k \in (i+1)..(Len(t) + 1) :
                      k = Len(t) + 1 \/ ~ (t[k].depth > t[i].depth)}
<1>1. Len(t) \in Nat /\ i \in Nat /\ Len(t) + 1 \in Stop
  BY DEF LevelsTyped
<1>2. PICK m \in Stop : \A k \in Stop : m <= k
  <2>1. Stop \in SUBSET Nat
    BY <1>1
  <2>. HIDE DEF Stop
  <2>. QED  BY <1>1, <2>1, LeastElement
<1>3. \A k \in (i+1)..(m-1) : t[k].depth > t[i].depth
  <2>. SUFFICES ASSUME NEW k \in (i+1)..(m-1), ~ (t[k].depth > t[i].depth)
                PROVE  FALSE
    OBVIOUS
  <2>1. k \in Stop
    BY <1>1, <1>2
  <2>. QED  BY <1>1, <1>2, <2>1
<1>4. Subtree(t, i) = i..(m-1)
  <2>1. ASSUME NEW k \in Subtree(t, i)  PROVE k \in i..(m-1)
    <3>1. k \in i..Len(t) /\ \A l \in (i+1)..k : t[l].depth > t[i].depth
      BY <2>1 DEF Subtree
    <3>2. CASE k >= m
      <4>1. m \in (i+1)..k /\ m # Len(t) + 1
        BY <1>1, <1>2, <3>1, <3>2
      <4>. QED  BY <1>2, <3>1, <4>1
    <3>. QED  BY <1>1, <1>2, <3>1, <3>2
  <2>2. ASSUME NEW k \in i..(m-1)  PROVE k \in Subtree(t, i)
    BY <1>1, <1>2, <1>3 DEF Subtree
  <2>. QED  BY <2>1, <2>2
<1>5. non_term_size(t, i) = m - i
  <2>1. i \in Int /\ m - 1 \in Int /\ m > i
    BY <1>1, <1>2
  <2>. QED  BY <1>4, <2>1, FS_Interval DEF non_term_size
<1>6. m <= Len(t) => t[m].depth <= t[i].depth
  <2>. SUFFICES ASSUME m <= Len(t)  PROVE t[m].depth <= t[i].depth
    OBVIOUS
  <2>1. m \in 1..Len(t) /\ ~ (t[m].depth > t[i].depth)
    BY <1>1, <1>2
  <2>2. t[m].depth \in Nat /\ t[i].depth \in Nat
    BY <2>1 DEF LevelsTyped
  <2>. QED  BY <2>1, <2>2
<1>. DEFINE n == non_term_size(t, i)
<1>7. /\ n \in Nat /\ n >= 1 /\ i + n - 1 <= Len(t)
      /\ i + n = m /\ i + n - 1 = m - 1
  <2>1. m \in (i+1)..(Len(t) + 1)
    BY <1>2
  <2>2. n = m - i
    BY <1>5
  <2>. HIDE DEF n, Stop
  <2>. QED  BY <1>1, <2>1, <2>2
<1>. HIDE DEF n
<1>. QED  BY <1>3, <1>4, <1>6, <1>7 DEF n

(* So it is in a tree.                                                     *)
LEMMA SubtreeIsRun ==
  ASSUME NEW t \in Seq(Node), NEW i \in 1..Len(t)
  PROVE  LET n == non_term_size(t, i) IN
         /\ n \in Nat /\ n >= 1 /\ i + n - 1 <= Len(t)
         /\ Subtree(t, i) = i..(i + n - 1)
         /\ \A k \in (i+1)..(i + n - 1) : t[k].depth > t[i].depth
         /\ i + n <= Len(t) => t[i + n].depth <= t[i].depth
<1>1. LevelsTyped(t)
  <2>1. Len(t) \in Nat
    OBVIOUS
  <2>. QED  BY <2>1, NodeFields DEF LevelsTyped
<1>. QED  BY <1>1, SubtreeRun

-----------------------------------------------------------------------------
(* Replace(t, q, s), part by part: before q, the copy of s, after q's      *)
(* subtree.                                                                *)
LEMMA ReplaceParts ==
  ASSUME NEW t \in Tree, NEW q \in 1..Len(t), NEW s \in Tree
  PROVE  LET n == non_term_size(t, q)
             r == Replace(t, q, s) IN
         /\ r \in Seq(Node)
         /\ Len(r) = Len(t) - n + Len(s)
         /\ \A k \in 1..(q-1) : r[k] = t[k]
         /\ \A k \in q..(q + Len(s) - 1) :
              r[k].id = s[k-q+1].id /\ r[k].depth = s[k-q+1].depth + t[q].depth
         /\ r[q].id = s[1].id /\ r[q].depth = t[q].depth
         /\ \A k \in (q + Len(s))..Len(r) : r[k] = t[k - Len(s) + n]
<1>. DEFINE n == non_term_size(t, q)
            L == Len(t) - n + Len(s)
            e(k) == IF k < q THEN t[k]
                    ELSE IF k < q + Len(s)
                    THEN [id |-> s[k-q+1].id, depth |-> s[k-q+1].depth + t[q].depth]
                    ELSE t[k - Len(s) + n]
<1>1. /\ t \in Seq(Node) /\ s \in Seq(Node)
      /\ Len(t) \in Nat /\ Len(s) \in Nat /\ Len(s) >= 1 /\ q \in Nat
  BY DEF Tree, IsTree
<1>2. n \in Nat /\ n >= 1 /\ q + n - 1 <= Len(t)
  BY <1>1, SubtreeIsRun
<1>3. Replace(t, q, s) = [k \in 1..L |-> e(k)]
  BY DEF Replace
<1>4. ASSUME NEW k \in 1..L  PROVE e(k) \in Node
  <2>1. CASE k < q
    BY <1>1, <1>2, <2>1, NodeFields
  <2>2. CASE k >= q /\ k < q + Len(s)
    <3>1. k - q + 1 \in 1..Len(s)
      BY <1>1, <2>2
    <3>2. s[k-q+1].id \in Ids /\ s[k-q+1].depth \in Nat /\ t[q].depth \in Nat
      BY <1>1, <3>1, NodeFields
    <3>3. e(k) = [id |-> s[k-q+1].id, depth |-> s[k-q+1].depth + t[q].depth]
      BY <1>1, <2>2
    <3>4. s[k-q+1].depth + t[q].depth \in Nat
      BY <3>2
    <3>. QED  BY <3>2, <3>3, <3>4 DEF Node
  <2>3. CASE k >= q + Len(s)
    <3>1. k - Len(s) + n \in 1..Len(t) /\ ~ (k < q)
      BY <1>1, <1>2, <2>3
    <3>. QED  BY <1>1, <2>3, <3>1, NodeFields
  <2>. QED  BY <1>1, <2>1, <2>2, <2>3
<1>5. L \in Nat
  BY <1>1, <1>2
<1>. HIDE DEF e, L, n
<1>6. Replace(t, q, s) \in Seq(Node) /\ Len(Replace(t, q, s)) = L
  BY <1>3, <1>4, <1>5
<1>7. \A k \in 1..L : Replace(t, q, s)[k] = e(k)
  BY <1>3
<1>8. L = Len(t) - n + Len(s)
  BY DEF L
<1>9. ASSUME NEW k \in 1..(q-1)  PROVE Replace(t, q, s)[k] = t[k]
  <2>1. k \in 1..L /\ k < q
    BY <1>1, <1>2, <1>8
  <2>2. e(k) = t[k]
    BY <2>1 DEF e
  <2>. QED  BY <1>7, <2>1, <2>2
<1>10. ASSUME NEW k \in q..(q + Len(s) - 1)
       PROVE  /\ Replace(t, q, s)[k].id = s[k-q+1].id
              /\ Replace(t, q, s)[k].depth = s[k-q+1].depth + t[q].depth
  <2>1. k \in 1..L /\ ~ (k < q) /\ k < q + Len(s)
    BY <1>1, <1>2, <1>8
  <2>2. e(k) = [id |-> s[k-q+1].id, depth |-> s[k-q+1].depth + t[q].depth]
    BY <2>1 DEF e
  <2>. QED  BY <1>7, <2>1, <2>2
<1>11. ASSUME NEW k \in (q + Len(s))..L
       PROVE  Replace(t, q, s)[k] = t[k - Len(s) + n]
  <2>1. k \in 1..L /\ ~ (k < q) /\ ~ (k < q + Len(s))
    BY <1>1, <1>2, <1>8
  <2>2. e(k) = t[k - Len(s) + n]
    BY <2>1 DEF e
  <2>. QED  BY <1>7, <2>1, <2>2
<1>12. /\ Replace(t, q, s)[q].id = s[1].id
       /\ Replace(t, q, s)[q].depth = t[q].depth
  <2>1. q \in q..(q + Len(s) - 1) /\ q - q + 1 = 1
    BY <1>1
  <2>2. s[1].depth = 0 /\ t[q].depth \in Nat
    BY <1>1, NodeFields DEF Tree, IsTree
  <2>3. /\ Replace(t, q, s)[q].id = s[q-q+1].id
        /\ Replace(t, q, s)[q].depth = s[q-q+1].depth + t[q].depth
    BY <1>10, <2>1
  <2>. QED  BY <2>1, <2>2, <2>3
<1>. QED  BY <1>6, <1>8, <1>9, <1>10, <1>11, <1>12 DEF n

(* Depths in a copied subtree: x and y are depths in s, d the depth of its *)
(* new place.                                                              *)
LEMMA DepthShift ==
  ASSUME NEW x \in Nat, NEW y \in Nat, NEW d \in Nat
  PROVE  /\ x \in 1..(y + 1) => x + d \in 1..((y + d) + 1)
         /\ x + d = (y + d) - 1 => x = y - 1
         /\ x + d >= y + d => x >= y
         /\ (x > d /\ x <= y + 1) => x - d \in 1..((y - d) + 1)
OBVIOUS

(* The node after a subtree, of depth x, may follow any node of depth y in *)
(* a subtree put in its place.                                             *)
LEMMA DepthAfter ==
  ASSUME NEW x \in Nat, NEW y \in Nat, NEW d \in Nat, x >= 1, x <= d
  PROVE  x \in 1..((y + d) + 1)
OBVIOUS

(* Replacing a subtree by a tree gives a tree.                             *)
LEMMA ReplaceIsTree ==
  ASSUME NEW t \in Tree, NEW q \in 1..Len(t), NEW s \in Tree
  PROVE  Replace(t, q, s) \in Tree
<1>. DEFINE n == non_term_size(t, q)
            r == Replace(t, q, s)
<1>1. /\ t \in Seq(Node) /\ s \in Seq(Node) /\ IsTree(t) /\ IsTree(s)
      /\ Len(t) \in Nat /\ Len(s) \in Nat /\ Len(s) >= 1 /\ q \in Nat
  BY DEF Tree, IsTree
<1>2. /\ n \in Nat /\ n >= 1 /\ q + n - 1 <= Len(t)
      /\ q + n <= Len(t) => t[q + n].depth <= t[q].depth
  BY <1>1, SubtreeIsRun
<1>3. /\ r \in Seq(Node) /\ Len(r) = Len(t) - n + Len(s)
      /\ \A k \in 1..(q-1) : r[k] = t[k]
      /\ \A k \in q..(q + Len(s) - 1) : r[k].depth = s[k-q+1].depth + t[q].depth
      /\ r[q].depth = t[q].depth
      /\ \A k \in (q + Len(s))..Len(r) : r[k] = t[k - Len(s) + n]
  BY ReplaceParts
<1>. HIDE DEF n, r
<1>4. /\ \A k \in 1..Len(t) : t[k].depth \in Nat
      /\ \A k \in 1..Len(s) : s[k].depth \in Nat
      /\ t[1].depth = 0 /\ s[1].depth = 0
      /\ \A k \in 2..Len(t) : t[k].depth \in 1..(t[k-1].depth + 1)
      /\ \A k \in 2..Len(s) : s[k].depth \in 1..(s[k-1].depth + 1)
  BY <1>1, NodeFields DEF IsTree
<1>5. r # <<>>
  BY <1>1, <1>2, <1>3
<1>6. r[1].depth = 0
  <2>1. CASE q = 1
    BY <1>1, <1>3, <1>4, <2>1
  <2>2. CASE q > 1
    BY <1>1, <1>3, <1>4, <2>2
  <2>. QED  BY <1>1, <2>1, <2>2
<1>7. ASSUME NEW k \in 2..Len(r)  PROVE r[k].depth \in 1..(r[k-1].depth + 1)
  <2>1. CASE k < q
    <3>1. r[k] = t[k] /\ r[k-1] = t[k-1] /\ k \in 2..Len(t)
      BY <1>1, <1>3, <2>1
    <3>. QED  BY <1>4, <3>1
  <2>2. CASE k = q
    <3>1. r[k].depth = t[q].depth /\ r[k-1] = t[k-1] /\ k \in 2..Len(t)
      BY <1>1, <1>3, <1>4, <2>2
    <3>. QED  BY <1>4, <2>2, <3>1
  <2>3. CASE k > q /\ k < q + Len(s)
    <3>1. /\ r[k].depth = s[k-q+1].depth + t[q].depth
          /\ r[k-1].depth = s[k-q].depth + t[q].depth
      <4>1. k - 1 \in q..(q + Len(s) - 1) /\ (k-1) - q + 1 = k - q
        BY <1>1, <2>3
      <4>2. r[k-1].depth = s[(k-1)-q+1].depth + t[q].depth
        BY <1>3, <4>1
      <4>. QED  BY <1>1, <1>3, <2>3, <4>1, <4>2
    <3>2. k - q + 1 \in 2..Len(s) /\ (k-q+1) - 1 = k - q /\ k - q \in 1..Len(s)
      BY <1>1, <2>3
    <3>3. s[k-q+1].depth \in 1..(s[k-q].depth + 1)
      BY <1>4, <3>2
    <3>4. s[k-q].depth \in Nat /\ s[k-q+1].depth \in Nat /\ t[q].depth \in Nat
      BY <1>4, <3>2
    <3>5. s[k-q+1].depth + t[q].depth \in 1..((s[k-q].depth + t[q].depth) + 1)
      BY <3>3, <3>4, DepthShift
    <3>. QED  BY <3>1, <3>5
  <2>4. CASE k = q + Len(s)
    <3>1. r[k] = t[q + n] /\ q + n \in 2..Len(t)
      <4>1. k - Len(s) + n = q + n
        BY <1>1, <1>2, <2>4
      <4>. QED  BY <1>1, <1>2, <1>3, <2>4, <4>1
    <3>2. r[k-1].depth = s[Len(s)].depth + t[q].depth
      <4>1. k - 1 \in q..(q + Len(s) - 1) /\ (k-1) - q + 1 = Len(s)
        BY <1>1, <2>4
      <4>2. r[k-1].depth = s[(k-1)-q+1].depth + t[q].depth
        BY <1>3, <4>1
      <4>. QED  BY <4>1, <4>2
    <3>3. t[q+n].depth \in Nat /\ t[q+n].depth >= 1 /\ t[q+n].depth <= t[q].depth
      BY <1>2, <1>4, <3>1
    <3>4. s[Len(s)].depth \in Nat /\ t[q].depth \in Nat
      BY <1>1, <1>4
    <3>5. t[q+n].depth \in 1..((s[Len(s)].depth + t[q].depth) + 1)
      BY <3>3, <3>4, DepthAfter
    <3>. QED  BY <3>1, <3>2, <3>5
  <2>5. CASE k > q + Len(s)
    <3>1. /\ r[k] = t[k - Len(s) + n]
          /\ r[k-1] = t[(k - Len(s) + n) - 1]
      <4>1. k - 1 \in (q + Len(s))..Len(r) /\ (k-1) - Len(s) + n = (k - Len(s) + n) - 1
        BY <1>1, <1>2, <1>3, <2>5
      <4>2. r[k-1] = t[(k-1) - Len(s) + n]
        BY <1>3, <4>1
      <4>3. k \in (q + Len(s))..Len(r)
        BY <1>1, <1>3, <2>5
      <4>4. r[k] = t[k - Len(s) + n]
        BY <1>3, <4>3
      <4>. QED  BY <4>1, <4>2, <4>4
    <3>2. k - Len(s) + n \in 2..Len(t)
      BY <1>1, <1>2, <1>3, <2>5
    <3>3. t[k - Len(s) + n].depth \in 1..(t[(k - Len(s) + n) - 1].depth + 1)
      BY <1>4, <3>2
    <3>. QED  BY <3>1, <3>3
  <2>6. \/ k < q \/ k = q \/ (k > q /\ k < q + Len(s))
        \/ k = q + Len(s) \/ k > q + Len(s)
    <3>1. Len(r) \in Nat /\ k \in Nat
      BY <1>3
    <3>. QED  BY <1>1, <3>1
  <2>. QED  BY <2>1, <2>2, <2>3, <2>4, <2>5, <2>6
<1>8. r \in Tree
  BY <1>3, <1>5, <1>6, <1>7 DEF Tree, IsTree
<1>. QED  BY <1>8 DEF r

(* The replaced node's subtree in the result holds the whole of s.         *)
LEMMA ReplacedSize ==
  ASSUME NEW t \in Tree, NEW q \in 1..Len(t), NEW s \in Tree
  PROVE  /\ q <= Len(Replace(t, q, s))
         /\ non_term_size(Replace(t, q, s), q) >= Len(s)
<1>. DEFINE n == non_term_size(t, q)
            r == Replace(t, q, s)
<1>1. /\ t \in Seq(Node) /\ s \in Seq(Node) /\ IsTree(t) /\ IsTree(s)
      /\ Len(t) \in Nat /\ Len(s) \in Nat /\ Len(s) >= 1 /\ q \in Nat
  BY DEF Tree, IsTree
<1>2. n \in Nat /\ n >= 1 /\ q + n - 1 <= Len(t)
  BY <1>1, SubtreeIsRun
<1>3. /\ r \in Seq(Node) /\ Len(r) = Len(t) - n + Len(s)
      /\ \A k \in q..(q + Len(s) - 1) : r[k].depth = s[k-q+1].depth + t[q].depth
      /\ r[q].depth = t[q].depth
  BY ReplaceParts
<1>. HIDE DEF n, r
<1>4. q \in 1..Len(r) /\ q + Len(s) - 1 <= Len(r)
  BY <1>1, <1>2, <1>3
<1>5. /\ non_term_size(r, q) \in Nat
      /\ q + non_term_size(r, q) <= Len(r) => r[q + non_term_size(r, q)].depth <= r[q].depth
      /\ non_term_size(r, q) >= 1
  BY <1>3, <1>4, SubtreeIsRun
<1>6. ASSUME non_term_size(r, q) < Len(s)  PROVE FALSE
  <2>. DEFINE x == non_term_size(r, q)
  <2>1. q + x \in q..(q + Len(s) - 1) /\ (q + x) - q + 1 = x + 1 /\ x + 1 \in 2..Len(s)
    BY <1>1, <1>5, <1>6
  <2>2. r[q + x].depth = s[x + 1].depth + t[q].depth
    <3>. HIDE DEF x
    <3>1. r[q + x].depth = s[(q + x) - q + 1].depth + t[q].depth
      BY <1>3, <2>1
    <3>. QED  BY <2>1, <3>1
  <2>4. /\ t[q].depth \in Nat
        /\ s[x + 1].depth >= 1 /\ s[x + 1].depth \in Nat
    <3>. HIDE DEF x
    <3>1. s[x+1].depth \in 1..(s[(x+1)-1].depth + 1)
      BY <1>1, <2>1 DEF IsTree
    <3>2. x + 1 \in 1..Len(s)
      BY <1>1, <2>1
    <3>3. s[x+1].depth \in Nat /\ t[q].depth \in Nat
      BY <1>1, <3>2, NodeFields
    <3>. QED  BY <1>1, <3>1, <3>3 DEF IsTree
  <2>5. q + x <= Len(r)
    BY <1>1, <1>4, <1>5, <1>6
  <2>. HIDE DEF x
  <2>6. r[q + x].depth <= r[q].depth
    BY <1>5, <2>5 DEF x
  <2>. QED  BY <1>3, <2>2, <2>4, <2>6
<1>7. non_term_size(r, q) >= Len(s)
  BY <1>1, <1>5, <1>6
<1>. QED  BY <1>1, <1>4, <1>7 DEF r

-----------------------------------------------------------------------------
(* The clone of the subtree at i, node by node; it is a tree.              *)
LEMMA SubtreeAtParts ==
  ASSUME NEW t \in Tree, NEW i \in 1..Len(t)
  PROVE  LET c == SubtreeAt(t, i) IN
         /\ c \in Tree
         /\ Len(c) = non_term_size(t, i)
         /\ c[1].id = t[i].id
         /\ \A k \in 1..Len(c) : /\ c[k].id = t[i+k-1].id
                                 /\ c[k].depth = t[i+k-1].depth - t[i].depth
<1>. DEFINE n == non_term_size(t, i)
            c == SubtreeAt(t, i)
            e(k) == [id |-> t[i+k-1].id, depth |-> t[i+k-1].depth - t[i].depth]
<1>1. t \in Seq(Node) /\ IsTree(t) /\ Len(t) \in Nat /\ i \in Nat /\ i >= 1
  BY DEF Tree
<1>2. /\ n \in Nat /\ n >= 1 /\ i + n - 1 <= Len(t)
      /\ \A k \in (i+1)..(i + n - 1) : t[k].depth > t[i].depth
  BY <1>1, SubtreeIsRun
<1>. HIDE DEF n
<1>3. \A k \in 1..Len(t) : t[k].depth \in Nat /\ t[k].id \in Ids
  BY <1>1, NodeFields
<1>4. ASSUME NEW k \in 1..n
      PROVE  /\ i + k - 1 \in 1..Len(t) /\ e(k) \in Node
             /\ k > 1 => t[i+k-1].depth > t[i].depth
  <2>1. i + k - 1 \in 1..Len(t) /\ (k > 1 => i + k - 1 \in (i+1)..(i+n-1))
    BY <1>1, <1>2
  <2>2. k > 1 => t[i+k-1].depth > t[i].depth
    BY <1>2, <2>1
  <2>3. k = 1 => t[i+k-1].depth = t[i].depth
    BY <1>1
  <2>4. t[i+k-1].id \in Ids /\ t[i+k-1].depth \in Nat /\ t[i].depth \in Nat
    BY <1>3, <2>1
  <2>5. t[i+k-1].depth - t[i].depth \in Nat
    BY <2>2, <2>3, <2>4
  <2>6. e(k) \in Node
    BY <2>4, <2>5 DEF Node
  <2>. QED  BY <2>1, <2>2, <2>6
<1>5. c = [k \in 1..n |-> e(k)]
  BY DEF SubtreeAt, n
<1>. HIDE DEF c
<1>6. c \in Seq(Node) /\ Len(c) = n /\ \A k \in 1..n : c[k] = e(k)
  <2>. HIDE DEF e
  <2>. QED  BY <1>2, <1>4, <1>5
<1>7. \A k \in 1..n : /\ c[k].id = t[i+k-1].id
                      /\ c[k].depth = t[i+k-1].depth - t[i].depth
  BY <1>6
<1>8. c[1].id = t[i].id /\ c[1].depth = 0
  <2>1. 1 \in 1..n /\ i + 1 - 1 = i /\ t[i].depth - t[i].depth = 0
    BY <1>1, <1>2, <1>3
  <2>2. c[1].id = t[i+1-1].id /\ c[1].depth = t[i+1-1].depth - t[i].depth
    BY <1>7, <2>1
  <2>. QED  BY <2>1, <2>2
<1>9. ASSUME NEW k \in 2..n  PROVE c[k].depth \in 1..(c[k-1].depth + 1)
  <2>1. k \in 1..n /\ k - 1 \in 1..n /\ i + (k-1) - 1 = (i+k-1) - 1 /\ k > 1
    BY <1>2
  <2>2. i + k - 1 \in 2..Len(t)
    BY <1>1, <1>2
  <2>3. t[i+k-1].depth \in 1..(t[(i+k-1)-1].depth + 1)
    BY <1>1, <2>2 DEF IsTree
  <2>4. /\ c[k].depth = t[i+k-1].depth - t[i].depth
        /\ c[k-1].depth = t[i+(k-1)-1].depth - t[i].depth
    BY <1>7, <2>1
  <2>5. t[i+k-1].depth > t[i].depth
    BY <1>4, <2>1
  <2>6. i + (k-1) - 1 \in 1..Len(t)
    BY <1>4, <2>1
  <2>7. /\ t[i].depth \in Nat /\ t[i+k-1].depth \in Nat /\ t[i+(k-1)-1].depth \in Nat
        /\ t[i+k-1].depth <= t[i+(k-1)-1].depth + 1
    BY <1>3, <1>4, <2>1, <2>3, <2>6
  <2>8. t[i+k-1].depth - t[i].depth
          \in 1..((t[i+(k-1)-1].depth - t[i].depth) + 1)
    BY <2>5, <2>7, DepthShift, SMTT(30)
  <2>. QED  BY <2>4, <2>8
<1>10. c \in Tree
  <2>1. c # <<>>
    BY <1>2, <1>6
  <2>. QED  BY <1>6, <1>8, <1>9, <2>1 DEF Tree, IsTree
<1>. QED  BY <1>6, <1>7, <1>8, <1>10 DEF c, n

-----------------------------------------------------------------------------
(* Every rank of a finite set of positions belongs to one of its elements. *)
LEMMA RankExists ==
  ASSUME NEW N \in Nat, NEW E \in SUBSET (1..N), NEW k \in 1..Cardinality(E)
  PROVE  \E e \in E : Cardinality({d \in E : d <= e}) = k
<1>. DEFINE Low(x) == {d \in E : d <= x}
            T == {x \in Nat : Cardinality(Low(x)) >= k}
<1>0. \A d \in E : d \in Nat /\ 1 <= d /\ d <= N
  <2>1. \A d \in E : d \in 1..N
    OBVIOUS
  <2>. QED  BY <2>1
<1>1. IsFiniteSet(E) /\ Cardinality(E) \in Nat
  <2>1. IsFiniteSet(1..N)
    BY FS_Interval
  <2>. QED  BY <2>1, FS_Subset, FS_CardinalityType
<1>2. \A x : IsFiniteSet(Low(x)) /\ Cardinality(Low(x)) \in Nat
  <2>1. \A x : Low(x) \in SUBSET E
    OBVIOUS
  <2>. HIDE DEF Low
  <2>. QED  BY <1>1, <2>1, FS_Subset, FS_CardinalityType
<1>3. N \in T
  <2>1. Low(N) = E
    BY <1>0
  <2>2. Cardinality(Low(N)) >= k
    BY <1>1, <2>1
  <2>. QED  BY <2>2
<1>4. PICK m \in T : \A x \in T : m <= x
  <2>1. T \in SUBSET Nat
    OBVIOUS
  <2>. HIDE DEF T
  <2>. QED  BY <1>3, <2>1, LeastElement
<1>5. m \in Nat /\ Cardinality(Low(m)) >= k
  BY <1>4
<1>6. m # 0
  <2>1. SUFFICES ASSUME m = 0  PROVE FALSE
    OBVIOUS
  <2>0. \A d \in E : ~ (d <= 0)
    BY <1>0
  <2>2. Low(m) = {}
    BY <2>0, <2>1
  <2>3. Cardinality(Low(m)) = 0
    BY <2>2, FS_EmptySet
  <2>. QED  BY <1>1, <1>5, <2>3
<1>7. m - 1 \in Nat /\ ~ (Cardinality(Low(m - 1)) >= k)
  <2>1. m - 1 \in Nat /\ ~ (m <= m - 1)
    BY <1>5, <1>6
  <2>2. m - 1 \notin T
    BY <1>4, <2>1
  <2>. QED  BY <2>1, <2>2
<1>8. m \in E
  <2>1. SUFFICES ASSUME m \notin E  PROVE FALSE
    OBVIOUS
  <2>2. \A d \in E : d <= m <=> d <= m - 1
    BY <1>0, <1>5, <2>1
  <2>3. Low(m) = Low(m - 1)
    BY <2>2
  <2>. QED  BY <1>5, <1>7, <2>3
<1>9. Low(m) = Low(m - 1) \cup {m} /\ m \notin Low(m - 1)
  <2>1. \A d \in E : d <= m <=> (d <= m - 1 \/ d = m)
    BY <1>0, <1>5
  <2>2. ~ (m <= m - 1)
    BY <1>5
  <2>. QED  BY <1>8, <2>1, <2>2
<1>. HIDE DEF Low
<1>10. Cardinality(Low(m)) = Cardinality(Low(m - 1)) + 1
  BY <1>2, <1>9, FS_AddElement
<1>11. Cardinality(Low(m)) = k
  <2>1. Cardinality(Low(m - 1)) \in Nat /\ k \in Int
    BY <1>1, <1>2
  <2>. QED  BY <1>5, <1>7, <1>10, <2>1
<1>. QED  BY <1>8, <1>11 DEF Low

(* The recursion edges of a tree are finitely many.                        *)
LEMMA EdgesFinite ==
  ASSUME NEW t \in Tree
  PROVE  /\ RecursionEdges(t) \in SUBSET (1..Len(t))
         /\ IsFiniteSet(RecursionEdges(t))
         /\ recursion_edge_size(t) \in Nat
<1>1. Len(t) \in Nat
  BY DEF Tree
<1>2. IsFiniteSet(1..Len(t)) /\ RecursionEdges(t) \in SUBSET (1..Len(t))
  BY <1>1, FS_Interval DEF RecursionEdges
<1>. QED  BY <1>2, FS_Subset, FS_CardinalityType DEF recursion_edge_size

(* tree_get_recursion_edges() lists recursion edges, recursion_edge_size   *)
(* of them.                                                                *)
LEMMA EdgeListFacts ==
  ASSUME NEW t \in Tree
  PROVE  /\ EdgeList(t) \in Seq(RecursionEdges(t))
         /\ Len(EdgeList(t)) = recursion_edge_size(t)
<1>. DEFINE E == RecursionEdges(t)
            f(k) == CHOOSE e \in E : Cardinality({d \in E : d <= e}) = k
<1>1. E \in SUBSET (1..Len(t)) /\ Cardinality(E) \in Nat /\ Len(t) \in Nat
  BY EdgesFinite DEF recursion_edge_size, Tree
<1>2. EdgeList(t) = [k \in 1..Cardinality(E) |-> f(k)]
  BY DEF EdgeList, InOrder
<1>. HIDE DEF E
<1>3. ASSUME NEW k \in 1..Cardinality(E)  PROVE f(k) \in E
  <2>1. \E e \in E : Cardinality({d \in E : d <= e}) = k
    BY <1>1, RankExists
  <2>. QED  BY <2>1
<1>. HIDE DEF f
<1>. QED  BY <1>1, <1>2, <1>3 DEF E, recursion_edge_size

-----------------------------------------------------------------------------
(* Where a recursion edge of Replace(t, q, s) comes from: t up to q, the   *)
(* inside of s, or t after q's subtree.                                    *)
LEMMA EdgeOrigin ==
  ASSUME NEW t \in Tree, NEW q \in 1..Len(t), NEW s \in Tree,
         s[1].id = t[q].id,
         NEW j \in RecursionEdges(Replace(t, q, s))
  PROVE  LET n == non_term_size(t, q) IN
         /\ j \in 1..Len(Replace(t, q, s))
         /\ j <= q => j \in RecursionEdges(t)
         /\ (j > q /\ j < q + Len(s)) => j - q + 1 \in RecursionEdges(s)
         /\ j >= q + Len(s) => j - Len(s) + n \in RecursionEdges(t)
<1>. DEFINE n == non_term_size(t, q)
            r == Replace(t, q, s)
            L == Len(s)
<1>1. /\ t \in Seq(Node) /\ s \in Seq(Node) /\ IsTree(t) /\ IsTree(s)
      /\ Len(t) \in Nat /\ L \in Nat /\ L >= 1 /\ q \in Nat /\ q >= 1 /\ q <= Len(t)
  BY DEF Tree, IsTree
<1>2. /\ n \in Nat /\ n >= 1 /\ q + n - 1 <= Len(t)
      /\ \A k \in (q+1)..(q + n - 1) : t[k].depth > t[q].depth
      /\ q + n <= Len(t) => t[q + n].depth <= t[q].depth
  BY <1>1, SubtreeIsRun
<1>3. /\ r \in Seq(Node) /\ Len(r) = Len(t) - n + L
      /\ \A k \in 1..(q-1) : r[k] = t[k]
      /\ \A k \in q..(q + L - 1) :
           r[k].id = s[k-q+1].id /\ r[k].depth = s[k-q+1].depth + t[q].depth
      /\ r[q].id = s[1].id /\ r[q].depth = t[q].depth
      /\ \A k \in (q + L)..Len(r) : r[k] = t[k - L + n]
  BY ReplaceParts
<1>4. j \in 1..Len(r) /\ IsRecursionEdge(r, j)
  BY DEF RecursionEdges
<1>. HIDE DEF n, r, L
<1>5. PICK p \in 1..(j-1) : IsParent(r, p, j) /\ r[p].id = r[j].id
  BY <1>4 DEF IsRecursionEdge
<1>6. /\ p \in Nat /\ j \in Nat /\ p >= 1 /\ p < j /\ j <= Len(r) /\ Len(r) \in Nat
      /\ r[p].depth = r[j].depth - 1
      /\ \A k \in (p+1)..(j-1) : r[k].depth >= r[j].depth
  BY <1>3, <1>4, <1>5 DEF IsParent
<1>7. /\ \A k \in 1..Len(t) : t[k].depth \in Nat
      /\ \A k \in 1..L : s[k].depth \in Nat
      /\ \A k \in 1..Len(r) : r[k].depth \in Nat
  BY <1>1, <1>3, NodeFields DEF L
<1>a. /\ p \in Nat /\ j \in Nat /\ p >= 1 /\ p < j /\ j <= Len(r)
      /\ Len(r) \in Nat /\ Len(r) = Len(t) - n + L
      /\ r[p].depth = r[j].depth - 1
  BY <1>3, <1>6
<1>b. /\ Len(t) \in Nat /\ L \in Nat /\ L >= 1 /\ q \in Nat /\ q >= 1 /\ q <= Len(t)
      /\ n \in Nat /\ n >= 1 /\ q + n - 1 <= Len(t)
  BY <1>1, <1>2
<1>8. ASSUME j <= q  PROVE j \in RecursionEdges(t)
  <2>1. \A k \in 1..j : r[k].depth = t[k].depth /\ r[k].id = t[k].id
    <3>1. ASSUME NEW k \in 1..j  PROVE r[k].depth = t[k].depth /\ r[k].id = t[k].id
      <4>1. CASE k = q
        BY <1>3, <4>1
      <4>2. CASE k < q
        <5>1. k \in 1..(q-1)
          BY <1>1, <4>2
        <5>. QED  BY <1>3, <5>1
      <4>. QED  BY <1>1, <1>6, <1>8, <4>1, <4>2
    <3>. QED  BY <3>1
  <2>2. \A k \in (p+1)..(j-1) : k \in 1..j
    BY <1>6
  <2>3. p \in 1..j /\ j \in 1..j /\ j \in 1..Len(t)
    BY <1>1, <1>6, <1>8
  <2>4. IsParent(t, p, j) /\ t[p].id = t[j].id
    BY <1>5, <1>6, <2>1, <2>2, <2>3 DEF IsParent
  <2>. QED  BY <1>5, <2>3, <2>4 DEF RecursionEdges, IsRecursionEdge
<1>9. ASSUME j > q, j < q + L  PROVE j - q + 1 \in RecursionEdges(s)
  <2>1. p >= q
    <3>1. SUFFICES ASSUME p < q  PROVE FALSE
      BY <1>1, <1>6
    <3>2. q \in (p+1)..(j-1) /\ j - q + 1 \in 2..L /\ j \in q..(q + L - 1)
      BY <1>1, <1>6, <1>9, <3>1
    <3>3. t[q].depth >= r[j].depth
      BY <1>3, <1>6, <3>2
    <3>4. r[j].depth = s[j-q+1].depth + t[q].depth
      BY <1>3, <3>2
    <3>5. s[j-q+1].depth \in 1..(s[(j-q+1)-1].depth + 1)
      BY <1>1, <3>2 DEF IsTree, L
    <3>6. s[j-q+1].depth \in Nat /\ s[j-q+1].depth >= 1 /\ t[q].depth \in Nat
      <4>1. j - q + 1 \in 1..L
        BY <3>2
      <4>. QED  BY <1>7, <3>5, <4>1
    <3>. QED  BY <3>3, <3>4, <3>6
  <2>. DEFINE c == j - q + 1
              b == p - q + 1
  <2>2. /\ c \in 1..L /\ b \in 1..(c-1) /\ b \in 1..L
        /\ p \in q..(q + L - 1) /\ j \in q..(q + L - 1)
    BY <1>a, <1>b, <1>9, <2>1
  <2>3. /\ r[p].id = s[b].id /\ r[p].depth = s[b].depth + t[q].depth
        /\ r[j].id = s[c].id /\ r[j].depth = s[c].depth + t[q].depth
    BY <1>3, <2>2
  <2>4. s[b].depth \in Nat /\ s[c].depth \in Nat /\ t[q].depth \in Nat
    BY <1>1, <1>7, <2>2
  <2>5. s[b].depth = s[c].depth - 1
    <3>. HIDE DEF b, c
    <3>1. r[p].depth = r[j].depth - 1
      BY <1>a
    <3>2. s[b].depth + t[q].depth = (s[c].depth + t[q].depth) - 1
      BY <2>3, <3>1
    <3>. QED  BY <2>4, <3>2, DepthShift
  <2>6. ASSUME NEW k \in (b+1)..(c-1)  PROVE s[k].depth >= s[c].depth
    <3>. DEFINE i == k + q - 1
    <3>1. /\ i \in (p+1)..(j-1) /\ i \in q..(q + L - 1)
          /\ i - q + 1 = k /\ k \in 1..L
      BY <1>a, <1>b, <1>9, <2>1
    <3>. HIDE DEF b, c, i
    <3>2. r[i].depth = s[k].depth + t[q].depth
      BY <1>3, <3>1
    <3>3. r[i].depth >= r[j].depth
      BY <1>6, <3>1
    <3>4. s[k].depth \in Nat
      BY <1>7, <3>1
    <3>5. s[k].depth + t[q].depth >= s[c].depth + t[q].depth
      BY <2>3, <3>2, <3>3
    <3>. QED  BY <2>4, <3>4, <3>5, DepthShift
  <2>. HIDE DEF b, c
  <2>7. IsParent(s, b, c) /\ s[b].id = s[c].id
    BY <1>5, <2>2, <2>3, <2>5, <2>6 DEF IsParent
  <2>8. c \in RecursionEdges(s)
    BY <2>2, <2>7 DEF RecursionEdges, IsRecursionEdge, L
  <2>. QED  BY <2>8 DEF c
<1>10. ASSUME j >= q + L  PROVE j - L + n \in RecursionEdges(t)
  <2>. DEFINE c == j - L + n
  <2>1. /\ c \in (q + n)..Len(t) /\ j \in (q + L)..Len(r) /\ c \in 1..Len(t)
        /\ q + L \in (q + L)..Len(r) /\ (q + L) - L + n = q + n
        /\ q + n \in 1..Len(t) /\ q + n <= Len(t) /\ q \in 1..Len(t)
    BY <1>a, <1>b, <1>10
  <2>2. r[j] = t[c] /\ t[c].depth \in Nat
    BY <1>3, <1>7, <2>1
  <2>3. r[q + L].depth <= t[q].depth /\ r[q + L].depth \in Nat /\ t[q].depth \in Nat
    <3>1. r[q + L] = t[q + n]
      BY <1>3, <2>1
    <3>2. t[q + n].depth <= t[q].depth
      BY <1>2, <2>1
    <3>3. t[q + n].depth \in Nat /\ t[q].depth \in Nat
      BY <1>7, <2>1
    <3>. QED  BY <3>1, <3>2, <3>3
  <2>4. p < q \/ p >= q + L
    <3>1. SUFFICES ASSUME p >= q, p < q + L  PROVE FALSE
      BY <1>1, <1>6
    <3>2. p - q + 1 \in 1..L /\ p \in q..(q + L - 1)
      BY <1>1, <1>6, <3>1
    <3>3. r[p].depth = s[p-q+1].depth + t[q].depth /\ s[p-q+1].depth \in Nat
      BY <1>3, <1>7, <3>2
    <3>4. r[p].depth >= t[q].depth /\ r[p].depth \in Nat
      BY <2>3, <3>3
    <3>5. r[q + L].depth >= r[j].depth
      <4>1. CASE j = q + L
        BY <2>3, <4>1
      <4>2. CASE j > q + L
        <5>1. q + L \in (p+1)..(j-1)
          BY <1>1, <1>6, <3>1, <4>2
        <5>. QED  BY <1>6, <5>1
      <4>. QED  BY <1>1, <1>6, <1>10, <4>1, <4>2
    <3>6. r[j].depth \in Nat
      BY <2>2
    <3>. QED  BY <1>6, <2>3, <3>4, <3>5, <3>6
  <2>5. CASE p >= q + L
    <3>. DEFINE b == p - L + n
    <3>1. p \in (q + L)..Len(r) /\ b \in 1..(c-1)
      BY <1>a, <1>b, <2>5
    <3>2. r[p] = t[b]
      BY <1>3, <3>1
    <3>3. ASSUME NEW k \in (b+1)..(c-1)  PROVE t[k].depth >= t[c].depth
      <4>0. b \in Int /\ c \in Int /\ k \in Int /\ b + 1 <= k /\ k <= c - 1
        BY <1>a, <1>b
      <4>. DEFINE i == k - n + L
      <4>1. i \in (p+1)..(j-1) /\ i \in (q + L)..Len(r) /\ i - L + n = k
        BY <1>a, <1>b, <2>5, <4>0
      <4>. HIDE DEF b, c, i
      <4>2. r[i] = t[k]
        BY <1>3, <4>1
      <4>3. r[i].depth >= r[j].depth
        BY <1>6, <4>1
      <4>. QED  BY <2>2, <4>2, <4>3
    <3>. HIDE DEF b, c
    <3>4. IsParent(t, b, c) /\ t[b].id = t[c].id
      BY <1>5, <1>6, <2>2, <3>1, <3>2, <3>3 DEF IsParent
    <3>5. c \in RecursionEdges(t)
      BY <2>1, <3>1, <3>4 DEF RecursionEdges, IsRecursionEdge
    <3>. QED  BY <3>5 DEF c
  <2>6. CASE p < q
    <3>1. p \in 1..(q-1) /\ p \in 1..(c-1)
      BY <1>a, <1>b, <2>1, <2>6
    <3>2. r[p] = t[p]
      BY <1>3, <3>1
    <3>3. t[q].depth >= t[c].depth
      <4>1. q \in (p+1)..(j-1)
        BY <1>a, <1>b, <1>10, <2>6
      <4>2. r[q].depth >= r[j].depth
        BY <1>6, <4>1
      <4>. HIDE DEF c
      <4>. QED  BY <1>3, <2>2, <4>2
    <3>4. ASSUME NEW k \in (p+1)..(c-1)  PROVE t[k].depth >= t[c].depth
      <4>1. CASE k < q
        <5>1. k \in 1..(q-1) /\ k \in (p+1)..(j-1)
          BY <1>a, <1>b, <1>10, <4>1
        <5>2. r[k] = t[k] /\ r[k].depth >= r[j].depth
          BY <1>3, <1>6, <5>1
        <5>. HIDE DEF c
        <5>. QED  BY <2>2, <5>2
      <4>2. CASE k = q
        BY <3>3, <4>2
      <4>3. CASE k > q /\ k < q + n
        <5>1. k \in (q+1)..(q+n-1) /\ k \in 1..Len(t)
          BY <1>b, <4>3
        <5>2. t[k].depth > t[q].depth /\ t[k].depth \in Nat
          BY <1>2, <1>7, <5>1
        <5>. HIDE DEF c
        <5>. QED  BY <2>2, <2>3, <3>3, <5>2
      <4>4. CASE k >= q + n
        <5>. DEFINE i == k - n + L
        <5>1. i \in (p+1)..(j-1) /\ i \in (q + L)..Len(r) /\ i - L + n = k
          BY <1>a, <1>b, <2>6, <4>4
        <5>. HIDE DEF c, i
        <5>2. r[i] = t[k]
          BY <1>3, <5>1
        <5>3. r[i].depth >= r[j].depth
          BY <1>6, <5>1
        <5>. QED  BY <2>2, <5>2, <5>3
      <4>5. k < q \/ k = q \/ (k > q /\ k < q + n) \/ k >= q + n
        BY <1>a, <1>b
      <4>. HIDE DEF c
      <4>. QED  BY <4>1, <4>2, <4>3, <4>4, <4>5
    <3>. HIDE DEF c
    <3>5. IsParent(t, p, c) /\ t[p].id = t[c].id
      BY <1>5, <1>6, <2>2, <3>1, <3>2, <3>4 DEF IsParent
    <3>6. c \in RecursionEdges(t)
      BY <2>1, <3>1, <3>5 DEF RecursionEdges, IsRecursionEdge
    <3>. QED  BY <3>6 DEF c
  <2>. QED  BY <2>4, <2>5, <2>6
<1>. QED  BY <1>4, <1>8, <1>9, <1>10 DEF n, r, L

(* A recursion edge inside the clone of a subtree is one of the tree.      *)
LEMMA SubtreeEdges ==
  ASSUME NEW t \in Tree, NEW e \in 1..Len(t),
         NEW k \in RecursionEdges(SubtreeAt(t, e))
  PROVE  /\ k \in 2..non_term_size(t, e)
         /\ e + k - 1 \in RecursionEdges(t)
<1>. DEFINE n == non_term_size(t, e)
            c == SubtreeAt(t, e)
<1>1. /\ t \in Seq(Node) /\ Len(t) \in Nat /\ e \in Nat /\ e >= 1
      /\ \A i \in 1..Len(t) : t[i].depth \in Nat
  <2>1. t \in Seq(Node) /\ Len(t) \in Nat /\ e \in Nat /\ e >= 1
    BY DEF Tree
  <2>. QED  BY <2>1, NodeFields
<1>2. n \in Nat /\ n >= 1 /\ e + n - 1 <= Len(t)
  BY <1>1, SubtreeIsRun
<1>3. /\ Len(c) = n
      /\ \A i \in 1..n : c[i].id = t[e+i-1].id /\ c[i].depth = t[e+i-1].depth - t[e].depth
  BY SubtreeAtParts
<1>4. k \in 1..n /\ IsRecursionEdge(c, k)
  BY <1>3 DEF RecursionEdges
<1>. HIDE DEF n, c
<1>5. PICK p \in 1..(k-1) : IsParent(c, p, k) /\ c[p].id = c[k].id
  BY <1>4 DEF IsRecursionEdge
<1>6. /\ p \in Nat /\ k \in Nat /\ 1 <= p /\ p < k /\ k <= n
      /\ e + p - 1 \in 1..Len(t) /\ e + k - 1 \in 1..Len(t)
      /\ e + p - 1 \in 1..((e + k - 1) - 1) /\ p \in 1..n
  BY <1>1, <1>2, <1>4
<1>7. /\ c[p].depth = c[k].depth - 1
      /\ \A i \in (p+1)..(k-1) : c[i].depth >= c[k].depth
  BY <1>5 DEF IsParent
<1>. DEFINE P == e + p - 1
            K == e + k - 1
<1>8. t[P].depth \in Nat /\ t[K].depth \in Nat /\ t[e].depth \in Nat
  BY <1>1, <1>6
<1>9. /\ c[p].id = t[P].id /\ c[p].depth = t[P].depth - t[e].depth
      /\ c[k].id = t[K].id /\ c[k].depth = t[K].depth - t[e].depth
  BY <1>3, <1>4, <1>6
<1>10. t[P].depth = t[K].depth - 1
  <2>. HIDE DEF P, K
  <2>1. t[P].depth - t[e].depth = (t[K].depth - t[e].depth) - 1
    BY <1>7, <1>9
  <2>. QED  BY <1>8, <2>1
<1>11. ASSUME NEW i \in (P+1)..(K-1)  PROVE t[i].depth >= t[K].depth
  <2>1. /\ i - e + 1 \in (p+1)..(k-1) /\ i - e + 1 \in 1..n
        /\ e + (i - e + 1) - 1 = i /\ i \in 1..Len(t)
    BY <1>1, <1>2, <1>6
  <2>2. c[i-e+1].depth = t[e+(i-e+1)-1].depth - t[e].depth
    BY <1>3, <2>1
  <2>3. c[i-e+1].depth >= c[k].depth
    BY <1>7, <2>1
  <2>4. t[i].depth \in Nat
    BY <1>1, <2>1
  <2>. HIDE DEF P, K
  <2>5. t[i].depth - t[e].depth >= t[K].depth - t[e].depth
    BY <1>9, <2>1, <2>2, <2>3
  <2>. QED  BY <1>8, <2>4, <2>5
<1>12. P \in 1..(K-1) /\ K \in 1..Len(t)
  BY <1>6
<1>. HIDE DEF P, K
<1>13. IsParent(t, P, K) /\ t[P].id = t[K].id
  BY <1>5, <1>9, <1>10, <1>11, <1>12 DEF IsParent
<1>14. K \in RecursionEdges(t)
  BY <1>12, <1>13 DEF RecursionEdges, IsRecursionEdge
<1>. QED  BY <1>6, <1>14 DEF K, n

(* The subtree of a subnode ends within the subtree of its parent.         *)
LEMMA SubnodeInside ==
  ASSUME NEW t \in Tree, NEW e \in 1..Len(t), NEW q \in 1..(e-1), IsParent(t, q, e)
  PROVE  /\ q \in 1..Len(t)
         /\ e + non_term_size(t, e) <= q + non_term_size(t, q)
<1>. DEFINE n == non_term_size(t, q)
            l == non_term_size(t, e)
<1>1. /\ t \in Seq(Node) /\ Len(t) \in Nat /\ e \in Nat /\ q \in Nat /\ q >= 1 /\ q < e
      /\ e <= Len(t) /\ q \in 1..Len(t)
      /\ \A i \in 1..Len(t) : t[i].depth \in Nat
  <2>1. t \in Seq(Node) /\ Len(t) \in Nat
    BY DEF Tree
  <2>2. e \in Nat /\ q \in Nat /\ q >= 1 /\ q < e /\ e <= Len(t) /\ q \in 1..Len(t)
    BY <2>1
  <2>3. \A i \in 1..Len(t) : t[i].depth \in Nat
    BY <2>1, NodeFields
  <2>. QED  BY <2>1, <2>2, <2>3
<1>2. /\ l \in Nat /\ l >= 1 /\ e + l - 1 <= Len(t)
      /\ \A k \in (e+1)..(e + l - 1) : t[k].depth > t[e].depth
  BY <1>1, SubtreeIsRun
<1>3. /\ n \in Nat /\ n >= 1 /\ q + n - 1 <= Len(t)
      /\ q + n <= Len(t) => t[q + n].depth <= t[q].depth
  BY <1>1, SubtreeIsRun
<1>4. /\ t[q].depth = t[e].depth - 1
      /\ \A k \in (q+1)..(e-1) : t[k].depth >= t[e].depth
  BY DEF IsParent
<1>. HIDE DEF n, l
<1>5. ASSUME e + l > q + n  PROVE FALSE
  <2>1. q + n \in 1..Len(t) /\ q + n <= Len(t)
    BY <1>1, <1>2, <1>3, <1>5
  <2>2. /\ t[q + n].depth <= t[q].depth
        /\ t[q + n].depth \in Nat /\ t[q].depth \in Nat /\ t[e].depth \in Nat
    BY <1>1, <1>3, <2>1
  <2>3. t[q + n].depth >= t[e].depth
    <3>1. CASE q + n < e
      <4>1. q + n \in (q+1)..(e-1)
        BY <1>1, <1>3, <3>1
      <4>. QED  BY <1>4, <4>1
    <3>2. CASE q + n = e
      BY <2>2, <3>2
    <3>3. CASE q + n > e
      <4>1. q + n \in (e+1)..(e+l-1)
        BY <1>1, <1>2, <1>3, <1>5, <3>3
      <4>2. t[q + n].depth > t[e].depth
        BY <1>2, <4>1
      <4>. QED  BY <2>2, <4>2
    <3>. QED  BY <1>1, <1>3, <3>1, <3>2, <3>3
  <2>4. t[q].depth = t[e].depth - 1
    BY <1>4
  <2>. QED  BY <2>2, <2>3, <2>4
<1>. QED  BY <1>1, <1>2, <1>3, <1>5 DEF n, l

-----------------------------------------------------------------------------
(* subtree_trimming() adds no recursion edge: the minimal subtree has none *)
(* and its root has the id of the node it replaces.                        *)
LEMMA SubtreeTrimEdges ==
  ASSUME NEW t \in Tree, NEW q \in 1..Len(t), NEW m \in Tree,
         m[1].id = t[q].id, RecursionEdges(m) = {}
  PROVE  recursion_edge_size(Replace(t, q, m)) <= recursion_edge_size(t)
<1>. DEFINE n == non_term_size(t, q)
            r == Replace(t, q, m)
            f == [j \in RecursionEdges(r) |->
                    IF j <= q THEN j ELSE j - Len(m) + n]
<1>1. /\ t \in Seq(Node) /\ Len(t) \in Nat /\ Len(m) \in Nat /\ Len(m) >= 1 /\ q \in Nat
  BY DEF Tree, IsTree
<1>2. n \in Nat /\ n >= 1 /\ q + n - 1 <= Len(t)
  BY <1>1, SubtreeIsRun
<1>3. r \in Tree
  BY ReplaceIsTree
<1>4. Len(r) \in Nat /\ RecursionEdges(r) \in SUBSET (1..Len(r))
  BY <1>3, EdgesFinite DEF Tree
<1>5. ASSUME NEW j \in RecursionEdges(r)
      PROVE  /\ j \in Nat
             /\ j <= q \/ j >= q + Len(m)
             /\ f[j] = IF j <= q THEN j ELSE j - Len(m) + n
             /\ f[j] \in RecursionEdges(t)
  <2>1. /\ j \in 1..Len(r)
        /\ j <= q => j \in RecursionEdges(t)
        /\ (j > q /\ j < q + Len(m)) => j - q + 1 \in RecursionEdges(m)
        /\ j >= q + Len(m) => j - Len(m) + n \in RecursionEdges(t)
    BY EdgeOrigin
  <2>2. j \in Nat
    BY <1>4, <2>1
  <2>3. j <= q \/ j >= q + Len(m)
    BY <1>1, <2>1, <2>2
  <2>4. f[j] = IF j <= q THEN j ELSE j - Len(m) + n
    OBVIOUS
  <2>. HIDE DEF f, r
  <2>. QED  BY <2>1, <2>2, <2>3, <2>4
<1>6. f \in Injection(RecursionEdges(r), RecursionEdges(t))
  <2>1. f \in [RecursionEdges(r) -> RecursionEdges(t)]
    <3>. HIDE DEF r
    <3>. QED  BY <1>5
  <2>2. ASSUME NEW a \in RecursionEdges(r), NEW b \in RecursionEdges(r), f[a] = f[b]
        PROVE  a = b
    <3>1. /\ a \in Nat /\ (a <= q \/ a >= q + Len(m))
          /\ f[a] = IF a <= q THEN a ELSE a - Len(m) + n
      BY <1>5
    <3>2. /\ b \in Nat /\ (b <= q \/ b >= q + Len(m))
          /\ f[b] = IF b <= q THEN b ELSE b - Len(m) + n
      BY <1>5
    <3>. HIDE DEF f, r, n
    <3>3. (IF a <= q THEN a ELSE a - Len(m) + n) = (IF b <= q THEN b ELSE b - Len(m) + n)
      BY <2>2, <3>1, <3>2
    <3>4. a \in Nat /\ b \in Nat /\ q \in Nat /\ n \in Nat /\ Len(m) \in Nat
      BY <1>1, <1>2, <3>1, <3>2
    <3>. QED  BY <1>2, <3>1, <3>2, <3>3, <3>4
  <2>. HIDE DEF f, r
  <2>. QED  BY <2>1, <2>2 DEF Injection, IsInjective
<1>7. IsFiniteSet(RecursionEdges(t))
  BY EdgesFinite
<1>. HIDE DEF f
<1>. QED  BY <1>6, <1>7, FS_Injection DEF recursion_edge_size

(* The parent of an edge's subnode e: it has the id of e, it lies before e *)
(* and its subtree holds the whole of e's.                                 *)
LEMMA EdgeParent ==
  ASSUME NEW t \in Tree, NEW e \in RecursionEdges(t)
  PROVE  LET q == parent(t, e) IN
         /\ e \in 1..Len(t) /\ e \in Nat
         /\ q \in 1..(e-1) /\ IsParent(t, q, e) /\ t[q].id = t[e].id
         /\ q \in Nat /\ q >= 1 /\ q < e /\ q \in 1..Len(t)
         /\ e + non_term_size(t, e) <= q + non_term_size(t, q)
<1>. DEFINE q == parent(t, e)
<1>1. /\ t \in Seq(Node) /\ Len(t) \in Nat /\ e \in Nat /\ e \in 1..Len(t)
      /\ IsRecursionEdge(t, e)
  BY DEF Tree, RecursionEdges
<1>2. q \in 1..(e-1) /\ IsParent(t, q, e) /\ t[q].id = t[e].id
  <2>1. PICK p \in 1..(e-1) : IsParent(t, p, e) /\ t[p].id = t[e].id
    BY <1>1 DEF IsRecursionEdge
  <2>2. q \in 1..(e-1) /\ IsParent(t, q, e)
    BY <2>1 DEF parent
  <2>3. q = p
    <3>1. /\ p \in Nat /\ q \in Nat /\ p <= e - 1 /\ q <= e - 1 /\ 1 <= p /\ 1 <= q
          /\ t[p].depth = t[e].depth - 1 /\ t[q].depth = t[e].depth - 1
          /\ \A k \in (p+1)..(e-1) : t[k].depth >= t[e].depth
          /\ \A k \in (q+1)..(e-1) : t[k].depth >= t[e].depth
      <4>. HIDE DEF q
      <4>. QED  BY <1>1, <2>1, <2>2 DEF IsParent
    <3>. HIDE DEF q
    <3>2. t[e].depth \in Nat
      BY <1>1, NodeFields
    <3>3. CASE p < q
      <4>1. q \in (p+1)..(e-1)
        BY <1>1, <3>1, <3>3
      <4>. QED  BY <3>1, <3>2, <4>1
    <3>4. CASE q < p
      <4>1. p \in (q+1)..(e-1)
        BY <1>1, <3>1, <3>4
      <4>. QED  BY <3>1, <3>2, <4>1
    <3>. QED  BY <3>1, <3>3, <3>4
  <2>. QED  BY <2>1, <2>2, <2>3
<1>. HIDE DEF q
<1>3. q \in Nat /\ q >= 1 /\ q < e /\ q \in 1..Len(t)
      /\ e + non_term_size(t, e) <= q + non_term_size(t, q)
  BY <1>1, <1>2, SubnodeInside
<1>. QED  BY <1>1, <1>2, <1>3 DEF q

(* Where edge j of the tree that recursive_trimming() of edge e makes of t *)
(* was in t: above the cut, inside the subtree that moved up, or after it. *)
EdgeSource(t, e, j) ==
  LET q == parent(t, e)
      n == non_term_size(t, q)
      l == non_term_size(t, e) IN
  IF j <= q THEN j ELSE IF j < q + l THEN e + j - q ELSE j - l + n

(* Every edge of the trimmed tree was an edge of t other than the one cut, *)
(* and the edges keep their order.                                         *)
LEMMA EdgesKeepOrder ==
  ASSUME NEW t \in Tree, NEW e \in RecursionEdges(t)
  PROVE  LET E == RecursionEdges(Replace(t, parent(t, e), SubtreeAt(t, e))) IN
         /\ \A j \in E : j \in Nat /\ EdgeSource(t, e, j) \in RecursionEdges(t) \ {e}
         /\ \A i, j \in E : i < j => EdgeSource(t, e, i) < EdgeSource(t, e, j)
<1>. DEFINE q == parent(t, e)
            s == SubtreeAt(t, e)
            n == non_term_size(t, q)
            l == non_term_size(t, e)
            r == Replace(t, q, s)
            f(j) == EdgeSource(t, e, j)
<1>1. t \in Seq(Node) /\ Len(t) \in Nat
  BY DEF Tree
<1>2. /\ e \in 1..Len(t) /\ e \in Nat /\ t[q].id = t[e].id
      /\ q \in Nat /\ q >= 1 /\ q < e /\ q \in 1..Len(t) /\ e + l <= q + n
  BY EdgeParent
<1>0. \A j : f(j) = IF j <= q THEN j ELSE IF j < q + l THEN e + j - q ELSE j - l + n
  BY DEF EdgeSource
<1>. HIDE DEF q, f
<1>4. n \in Nat /\ l \in Nat /\ l >= 1 /\ q + n - 1 <= Len(t)
  BY <1>1, <1>2, SubtreeIsRun
<1>5. s \in Tree /\ Len(s) = l /\ s[1].id = t[q].id
  BY <1>1, <1>2, SubtreeAtParts
<1>6. r \in Tree
  BY <1>2, <1>5, ReplaceIsTree
<1>8. ASSUME NEW j \in RecursionEdges(r)
      PROVE  j \in Nat /\ f(j) \in RecursionEdges(t) \ {e}
  <2>1. /\ j \in 1..Len(r)
        /\ j <= q => j \in RecursionEdges(t)
        /\ (j > q /\ j < q + Len(s)) => j - q + 1 \in RecursionEdges(s)
        /\ j >= q + Len(s) => j - Len(s) + n \in RecursionEdges(t)
    BY <1>2, <1>5, EdgeOrigin
  <2>2. j \in Nat
    <3>1. Len(r) \in Nat
      BY <1>6 DEF Tree
    <3>. QED  BY <2>1, <3>1
  <2>3. f(j) = IF j <= q THEN j
               ELSE IF j < q + l THEN e + j - q ELSE j - l + n
    BY <1>0
  <2>. HIDE DEF r, n, l
  <2>4. CASE j <= q
    BY <1>2, <2>1, <2>2, <2>3, <2>4
  <2>5. CASE j > q /\ j < q + l
    <3>1. j - q + 1 \in RecursionEdges(s)
      BY <1>5, <2>1, <2>5
    <3>2. e + (j - q + 1) - 1 \in RecursionEdges(t)
      BY <1>2, <3>1, SubtreeEdges
    <3>3. e + (j - q + 1) - 1 = e + j - q /\ e + j - q # e /\ ~ (j <= q)
      BY <1>2, <2>2, <2>5
    <3>. QED  BY <2>2, <2>3, <2>5, <3>2, <3>3
  <2>6. CASE j >= q + l
    <3>1. j - l + n \in RecursionEdges(t)
      BY <1>5, <2>1, <2>6
    <3>2. j - l + n # e /\ ~ (j <= q) /\ ~ (j < q + l)
      BY <1>2, <1>4, <2>2, <2>6
    <3>. QED  BY <2>2, <2>3, <3>1, <3>2
  <2>. QED  BY <1>2, <1>4, <2>2, <2>4, <2>5, <2>6
<1>9. ASSUME NEW i \in RecursionEdges(r), NEW j \in RecursionEdges(r), i < j
      PROVE  f(i) < f(j)
  <2>1. i \in Nat /\ j \in Nat
    BY <1>8
  <2>2. /\ f(i) = IF i <= q THEN i ELSE IF i < q + l THEN e + i - q ELSE i - l + n
        /\ f(j) = IF j <= q THEN j ELSE IF j < q + l THEN e + j - q ELSE j - l + n
    BY <1>0
  <2>. HIDE DEF n, l
  <2>. QED  BY <1>2, <1>4, <1>9, <2>1, <2>2
<1>. QED  BY <1>8, <1>9 DEF r, f, q

(* recursive_trimming() removes the edge it cuts, keeps the id below the   *)
(* grandparent and adds no edge; and it removes at least one node.         *)
LEMMA RecursiveTrimEdges ==
  ASSUME NEW t \in Tree, NEW e \in RecursionEdges(t)
  PROVE  LET q == parent(t, e)
             r == Replace(t, q, SubtreeAt(t, e)) IN
         /\ q \in 1..Len(t) /\ e \in 1..Len(t)
         /\ r \in Tree
         /\ Len(r) < Len(t)
         /\ recursion_edge_size(r) < recursion_edge_size(t)
<1>. DEFINE q == parent(t, e)
            s == SubtreeAt(t, e)
            n == non_term_size(t, q)
            l == non_term_size(t, e)
            r == Replace(t, q, s)
            f == [j \in RecursionEdges(r) |-> EdgeSource(t, e, j)]
<1>1. t \in Seq(Node) /\ Len(t) \in Nat
  BY DEF Tree
<1>2. /\ e \in 1..Len(t) /\ e \in Nat /\ t[q].id = t[e].id
      /\ q \in Nat /\ q >= 1 /\ q < e /\ q \in 1..Len(t) /\ e + l <= q + n
  BY EdgeParent
<1>3. /\ \A j \in RecursionEdges(r) : j \in Nat /\ f[j] \in RecursionEdges(t) \ {e}
      /\ \A i, j \in RecursionEdges(r) : i < j => f[i] < f[j]
  <2>. HIDE DEF f
  <2>1. \A j \in RecursionEdges(r) : f[j] = EdgeSource(t, e, j)
    BY DEF f
  <2>. QED  BY <2>1, EdgesKeepOrder
<1>. HIDE DEF q
<1>4. n \in Nat /\ l \in Nat /\ l >= 1 /\ q + n - 1 <= Len(t)
  BY <1>1, <1>2, SubtreeIsRun
<1>5. s \in Tree /\ Len(s) = l
  BY <1>2, SubtreeAtParts
<1>6. r \in Tree /\ Len(r) = Len(t) - n + l
  BY <1>2, <1>5, ReplaceIsTree, ReplaceParts
<1>7. Len(r) < Len(t)
  <2>. HIDE DEF n, l, r
  <2>. QED  BY <1>1, <1>2, <1>4, <1>6
<1>9. f \in Injection(RecursionEdges(r), RecursionEdges(t) \ {e})
  <2>1. f \in [RecursionEdges(r) -> RecursionEdges(t) \ {e}]
    <3>. HIDE DEF r
    <3>. QED  BY <1>3
  <2>. HIDE DEF f, r
  <2>2. ASSUME NEW a \in RecursionEdges(r), NEW b \in RecursionEdges(r), f[a] = f[b]
        PROVE  a = b
    <3>1. f[a] \in Nat /\ f[b] \in Nat
      <4>1. RecursionEdges(t) \subseteq Nat
        BY <1>1 DEF RecursionEdges
      <4>. QED  BY <1>3, <4>1
    <3>. QED  BY <1>3, <2>2, <3>1
  <2>. QED  BY <2>1, <2>2 DEF Injection, IsInjective
<1>10. /\ IsFiniteSet(RecursionEdges(t) \ {e})
       /\ Cardinality(RecursionEdges(t) \ {e}) = Cardinality(RecursionEdges(t)) - 1
  BY EdgesFinite, FS_RemoveElement
<1>11. recursion_edge_size(r) < recursion_edge_size(t)
  <2>1. recursion_edge_size(r) \in Nat /\ recursion_edge_size(t) \in Nat
    BY <1>6, EdgesFinite
  <2>. HIDE DEF f, r
  <2>2. Cardinality(RecursionEdges(r)) <= Cardinality(RecursionEdges(t) \ {e})
    BY <1>9, <1>10, FS_Injection
  <2>. QED  BY <1>10, <2>1, <2>2 DEF recursion_edge_size
<1>. HIDE DEF r
<1>. QED  BY <1>2, <1>6, <1>7, <1>11 DEF r, q
=============================================================================
