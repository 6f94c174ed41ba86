-------------------------- MODULE ChunkStoreProofs --------------------------
(***************************************************************************)
(* The chunk store for all sets of trees and all numbers of additions.     *)
(***************************************************************************)
EXTENDS ChunkStore, TreeShapeProofs, SequenceTheorems

(* What stands at a place of a sequence is an element of it, and           *)
(* conversely.                                                             *)
LEMMA RangeHas ==
  ASSUME NEW S, NEW x \in Seq(S), NEW k \in 1..Len(x)
  PROVE  x[k] \in Range(x)
<1>1. k \in DOMAIN x
  BY PlacesOfSeq
<1>. QED  BY <1>1, Zenon DEF Range

(* An element of a sequence stands at one of its places.                   *)
LEMMA RangeAt ==
  ASSUME NEW S, NEW x \in Seq(S), NEW e \in Range(x)
  PROVE  \E k \in 1..Len(x) : x[k] = e
<1>1. PICK k \in DOMAIN x : x[k] = e
  BY Zenon DEF Range
<1>2. k \in 1..Len(x)
  BY PlacesOfSeq
<1>. QED  BY <1>1, <1>2

(* The elements of a concatenation are those of its parts.                 *)
LEMMA ConcatRange ==
  ASSUME NEW S, NEW x \in Seq(S), NEW y \in Seq(S)
  PROVE  Range(x \o y) = Range(x) \cup Range(y)
<1>. DEFINE z == x \o y
<1>1. /\ z \in Seq(S) /\ Len(z) = Len(x) + Len(y)
      /\ \A p \in 1..Len(x) : z[p] = x[p]
      /\ \A p \in 1..Len(y) : z[Len(x) + p] = y[p]
      /\ \A p \in 1..Len(z) : p \in 1..Len(x) \/ \E k \in 1..Len(y) : p = Len(x) + k
  BY ConcatAt
<1>. HIDE DEF z
<1>2. Len(x) \in Nat /\ Len(y) \in Nat
  BY PlacesOfSeq
<1>3. ASSUME NEW e \in Range(z)  PROVE e \in Range(x) \cup Range(y)
  <2>1. PICK p \in 1..Len(z) : z[p] = e
    BY <1>1, RangeAt
  <2>2. CASE p \in 1..Len(x)
    BY <1>1, <2>1, <2>2, RangeHas
  <2>3. CASE \E k \in 1..Len(y) : p = Len(x) + k
    <3>1. PICK k \in 1..Len(y) : p = Len(x) + k
      BY <2>3
    <3>2. e = y[k]
      BY <1>1, <2>1, <3>1
    <3>. QED  BY <3>2, RangeHas
  <2>. QED  BY <1>1, <2>2, <2>3
<1>4. ASSUME NEW e \in Range(x)  PROVE e \in Range(z)
  <2>1. PICK p \in 1..Len(x) : x[p] = e
    BY RangeAt
  <2>2. p \in 1..Len(z) /\ z[p] = e
    BY <1>1, <1>2, <2>1
  <2>. QED  BY <1>1, <2>2, RangeHas
<1>5. ASSUME NEW e \in Range(y)  PROVE e \in Range(z)
  <2>1. PICK p \in 1..Len(y) : y[p] = e
    BY RangeAt
  <2>2. Len(x) + p \in 1..Len(z)
    BY <1>1, <1>2
  <2>3. z[Len(x) + p] = e
    BY <1>1, <2>1
  <2>. QED  BY <1>1, <2>2, <2>3, RangeHas
<1>6. Range(z) = Range(x) \cup Range(y)
  BY <1>3, <1>4, <1>5
<1>. QED  BY <1>6 DEF z

(* The concatenation of injective sequences without common elements.       *)
LEMMA ConcatInjective ==
  ASSUME NEW S, NEW x \in Seq(S), NEW y \in Seq(S)
  PROVE  /\ IsInjective(x) /\ IsInjective(y) /\ Range(x) \cap Range(y) = {}
              => IsInjective(x \o y)
         /\ IsInjective(x \o y) =>
              IsInjective(x) /\ IsInjective(y) /\ Range(x) \cap Range(y) = {}
<1>. DEFINE z == x \o y
<1>1. /\ z \in Seq(S) /\ Len(z) = Len(x) + Len(y)
      /\ \A p \in 1..Len(x) : z[p] = x[p]
      /\ \A p \in 1..Len(y) : z[Len(x) + p] = y[p]
      /\ \A p \in 1..Len(z) : p \in 1..Len(x) \/ \E k \in 1..Len(y) : p = Len(x) + k
  BY ConcatAt
<1>. HIDE DEF z
<1>2. /\ Len(x) \in Nat /\ Len(y) \in Nat
      /\ DOMAIN x = 1..Len(x) /\ DOMAIN y = 1..Len(y) /\ DOMAIN z = 1..Len(z)
  BY <1>1, PlacesOfSeq
<1>3. ASSUME IsInjective(x), IsInjective(y), Range(x) \cap Range(y) = {}
      PROVE  IsInjective(z)
  <2>. SUFFICES ASSUME NEW a \in 1..Len(z), NEW b \in 1..Len(z), z[a] = z[b]
                PROVE  a = b
    BY <1>2 DEF IsInjective
  <2>1. CASE a \in 1..Len(x) /\ b \in 1..Len(x)
    BY <1>1, <1>2, <1>3, <2>1 DEF IsInjective
  <2>2. ASSUME NEW k \in 1..Len(y), NEW c \in 1..Len(x)
        PROVE  z[Len(x) + k] # z[c]
    <3>1. z[Len(x) + k] \in Range(y) /\ z[c] \in Range(x)
      BY <1>1, RangeHas
    <3>. QED  BY <1>3, <3>1
  <2>3. ASSUME NEW k \in 1..Len(y), NEW m \in 1..Len(y),
               a = Len(x) + k, b = Len(x) + m
        PROVE  a = b
    <3>1. y[k] = y[m]
      BY <1>1, <2>3
    <3>2. k = m
      BY <1>2, <1>3, <3>1 DEF IsInjective
    <3>. QED  BY <2>3, <3>2
  <2>. QED  BY <1>1, <2>1, <2>2, <2>3
<1>4. ASSUME IsInjective(z)
      PROVE  IsInjective(x) /\ IsInjective(y) /\ Range(x) \cap Range(y) = {}
  <2>1. ASSUME NEW a \in 1..Len(x), NEW b \in 1..Len(x), x[a] = x[b]  PROVE a = b
    <3>1. a \in 1..Len(z) /\ b \in 1..Len(z) /\ z[a] = z[b]
      BY <1>1, <1>2, <2>1
    <3>. QED  BY <1>2, <1>4, <3>1 DEF IsInjective
  <2>2. ASSUME NEW a \in 1..Len(y), NEW b \in 1..Len(y), y[a] = y[b]  PROVE a = b
    <3>1. Len(x) + a \in 1..Len(z) /\ Len(x) + b \in 1..Len(z)
      BY <1>1, <1>2
    <3>2. z[Len(x) + a] = z[Len(x) + b]
      BY <1>1, <2>2
    <3>3. Len(x) + a = Len(x) + b
      BY <1>2, <1>4, <3>1, <3>2 DEF IsInjective
    <3>. QED  BY <1>2, <3>3
  <2>3. ASSUME NEW e, e \in Range(x), e \in Range(y)  PROVE FALSE
    <3>1. PICK a \in 1..Len(x) : x[a] = e
      BY <2>3, RangeAt
    <3>2. PICK b \in 1..Len(y) : y[b] = e
      BY <2>3, RangeAt
    <3>3. a \in 1..Len(z) /\ Len(x) + b \in 1..Len(z) /\ a # Len(x) + b
      BY <1>1, <1>2
    <3>4. z[a] = z[Len(x) + b]
      BY <1>1, <3>1, <3>2
    <3>. QED  BY <1>2, <1>4, <3>3, <3>4 DEF IsInjective
  <2>. QED  BY <1>2, <2>1, <2>2, <2>3 DEF IsInjective
<1>. QED  BY <1>3, <1>4 DEF z

-----------------------------------------------------------------------------
(* The sums of the first sequences of ss: their elements are those of the  *)
(* parts, and they are no shorter than any part.                           *)
SumOf(ss, f, i) == /\ \A j \in 1..i : Len(ss[j]) <= Len(f[i])
                   /\ Range(f[i]) = UNION {Range(ss[j]) : j \in 1..i}

(* So it is of every sum.                                                  *)
LEMMA RowFacts ==
  ASSUME NEW S, NEW ss \in Seq(Seq(S)), Len(ss) # 0, NEW f, IsRow(S, ss, f)
  PROVE  \A i \in 1..Len(ss) : f[i] \in Seq(S) /\ SumOf(ss, f, i)
<1>. DEFINE n == Len(ss)
<1>0. n \in Nat /\ n # 0 /\ \A i \in 1..n : ss[i] \in Seq(S)
  OBVIOUS
<1>2. /\ \A i \in 1..n : f[i] \in Seq(S)
      /\ f[1] = ss[1] /\ \A i \in 1..n : i # 1 => f[i] = f[i-1] \o ss[i]
  BY DEF IsRow
<1>. HIDE DEF n
<1>. DEFINE Bad == {i \in 1..n : ~ SumOf(ss, f, i)}
<1>3. Bad = {}
  <2>. SUFFICES ASSUME Bad # {}  PROVE FALSE
    OBVIOUS
  <2>1. PICK k \in Bad : \A i \in Bad : k <= i
    <3>1. Bad \in SUBSET Nat
      BY <1>0
    <3>. HIDE DEF Bad
    <3>. QED  BY <3>1, LeastElement
  <2>2. k \in 1..n /\ ~ SumOf(ss, f, k)
    BY <2>1
  <2>3. k # 1
    <3>. SUFFICES ASSUME k = 1  PROVE SumOf(ss, f, 1)
      BY <2>2
    <3>1. \A j \in 1..1 : j = 1
      OBVIOUS
    <3>2. f[1] = ss[1] /\ Len(ss[1]) \in Nat /\ 1 \in 1..1
      BY <1>0, <1>2
    <3>3. \A j \in 1..1 : Len(ss[j]) <= Len(f[1])
      BY <3>1, <3>2
    <3>4. UNION {Range(ss[j]) : j \in 1..1} = Range(ss[1])
      BY <3>1, <3>2, Zenon
    <3>. QED  BY <3>2, <3>3, <3>4 DEF SumOf
  <2>4. k - 1 \in 1..n /\ ~ (k <= k - 1)
    BY <1>0, <2>2, <2>3
  <2>5. SumOf(ss, f, k - 1)
    BY <2>1, <2>4
  <2>6. f[k] = f[k-1] \o ss[k] /\ f[k-1] \in Seq(S) /\ ss[k] \in Seq(S)
    BY <1>0, <1>2, <2>2, <2>3, <2>4
  <2>. DEFINE a == f[k-1]
              b == ss[k]
  <2>7. f[k] = a \o b /\ a \in Seq(S) /\ b \in Seq(S)
    BY <2>6
  <2>8. /\ \A j \in 1..(k-1) : Len(ss[j]) <= Len(a)
        /\ Range(a) = UNION {Range(ss[j]) : j \in 1..(k-1)}
    BY <2>5 DEF SumOf
  <2>. HIDE DEF a
  <2>9. Len(f[k]) = Len(a) + Len(b) /\ Len(a) \in Nat /\ Len(b) \in Nat
    BY <2>7, ConcatAt, PlacesOfSeq
  <2>10. \A j \in 1..k : j \in 1..(k-1) \/ j = k
    BY <2>2
  <2>11. ASSUME NEW j \in 1..k  PROVE Len(ss[j]) <= Len(f[k])
    <3>1. CASE j = k
      BY <2>9, <3>1
    <3>2. CASE j \in 1..(k-1)
      <4>1. Len(ss[j]) <= Len(a) /\ Len(ss[j]) \in Nat
        BY <1>0, <2>2, <2>8, <3>2
      <4>. QED  BY <2>9, <4>1
    <3>. QED  BY <2>10, <3>1, <3>2
  <2>12. Range(f[k]) = Range(a) \cup Range(b)
    BY <2>7, ConcatRange
  <2>13. \A j \in 1..(k-1) : j \in 1..k
    BY <2>2
  <2>14. k \in 1..k
    BY <2>2
  <2>15. Range(f[k]) = UNION {Range(ss[j]) : j \in 1..k}
    BY <2>8, <2>10, <2>12, <2>13, <2>14, Zenon
  <2>16. SumOf(ss, f, k)
    BY <2>11, <2>15 DEF SumOf
  <2>. QED  BY <2>2, <2>16
<1>. QED  BY <1>2, <1>3 DEF n

(* FlattenSeq(): a sequence with the elements of the parts, no shorter     *)
(* than any of them.                                                       *)
LEMMA FlattenFacts ==
  ASSUME NEW S, NEW ss \in Seq(Seq(S))
  PROVE  /\ FlattenSeq(ss) \in Seq(S)
         /\ \A j \in 1..Len(ss) : Len(ss[j]) <= Len(FlattenSeq(ss))
         /\ Range(FlattenSeq(ss)) = UNION {Range(ss[j]) : j \in 1..Len(ss)}
<1>. DEFINE n == Len(ss)
<1>0. n \in Nat /\ \A i \in 1..n : ss[i] \in Seq(S)
  OBVIOUS
<1>1. CASE n = 0
  <2>1. ss = <<>> /\ \A j \in 1..n : FALSE
    BY <1>0, <1>1
  <2>2. FlattenSeq(ss) = <<>>
    BY <2>1 DEF FlattenSeq
  <2>3. Range(<<>>) = {}
    BY DEF Range
  <2>4. UNION {Range(ss[j]) : j \in 1..n} = {}
    BY <2>1, Zenon
  <2>5. <<>> \in Seq(S)
    OBVIOUS
  <2>. QED  BY <2>1, <2>2, <2>3, <2>4, <2>5, Zenon
<1>2. CASE n # 0
  <2>1. PICK f : IsRow(S, ss, f) /\ FlattenSeq(ss) = f[n]
    BY <1>2, FlattenRow
  <2>2. /\ \A i \in 1..n : f[i] \in Seq(S)
        /\ f[1] = ss[1] /\ \A i \in 1..n : i # 1 => f[i] = f[i-1] \o ss[i]
    BY <2>1 DEF IsRow
  <2>. HIDE DEF n
  <2>4. f[n] \in Seq(S) /\ SumOf(ss, f, n)
    <3>1. n \in 1..n
      BY <1>0, <1>2
    <3>. QED  BY <1>2, <2>1, <3>1, RowFacts DEF n
  <2>. QED  BY <2>1, <2>4 DEF n, SumOf
<1>. QED  BY <1>1, <1>2

(* Injective sequences without common elements, one after the other.       *)
LEMMA FlattenInjective ==
  ASSUME NEW S, NEW ss \in Seq(Seq(S)),
         \A j \in 1..Len(ss) : IsInjective(ss[j]),
         \A i, j \in 1..Len(ss) : i # j => Range(ss[i]) \cap Range(ss[j]) = {}
  PROVE  IsInjective(FlattenSeq(ss))
<1>. DEFINE n == Len(ss)
<1>0. n \in Nat /\ \A i \in 1..n : ss[i] \in Seq(S)
  OBVIOUS
<1>1. CASE n = 0
  <2>1. ss = <<>>
    BY <1>0, <1>1
  <2>2. FlattenSeq(ss) = <<>>
    BY <2>1 DEF FlattenSeq
  <2>. QED  BY <2>2 DEF IsInjective
<1>2. CASE n # 0
  <2>1. PICK f : IsRow(S, ss, f) /\ FlattenSeq(ss) = f[n]
    BY <1>2, FlattenRow
  <2>2. /\ \A i \in 1..n : f[i] \in Seq(S)
        /\ f[1] = ss[1] /\ \A i \in 1..n : i # 1 => f[i] = f[i-1] \o ss[i]
    BY <2>1 DEF IsRow
  <2>3. \A i \in 1..n : SumOf(ss, f, i)
    BY <1>2, <2>1, RowFacts
  <2>. HIDE DEF n
  <2>. DEFINE Bad == {i \in 1..n : ~ IsInjective(f[i])}
  <2>4. Bad = {}
    <3>. SUFFICES ASSUME Bad # {}  PROVE FALSE
      OBVIOUS
    <3>1. PICK k \in Bad : \A i \in Bad : k <= i
      <4>1. Bad \in SUBSET Nat
        BY <1>0
      <4>. HIDE DEF Bad
      <4>. QED  BY <4>1, LeastElement
    <3>2. k \in 1..n /\ ~ IsInjective(f[k])
      BY <3>1
    <3>3. k # 1
      BY <2>2, <3>2 DEF n
    <3>4. k - 1 \in 1..n /\ ~ (k <= k - 1)
      BY <1>0, <3>2, <3>3
    <3>5. IsInjective(f[k-1])
      BY <3>1, <3>4
    <3>6. f[k] = f[k-1] \o ss[k] /\ f[k-1] \in Seq(S) /\ ss[k] \in Seq(S)
      BY <1>0, <2>2, <3>2, <3>3, <3>4
    <3>7. Range(f[k-1]) = UNION {Range(ss[j]) : j \in 1..(k-1)}
      BY <2>3, <3>4 DEF SumOf
    <3>8. \A j \in 1..(k-1) : j \in 1..n /\ j # k
      BY <1>0, <3>2
    <3>9. \A j \in 1..(k-1) : Range(ss[j]) \cap Range(ss[k]) = {}
      BY <3>2, <3>8 DEF n
    <3>10. Range(f[k-1]) \cap Range(ss[k]) = {}
      BY <3>7, <3>9, Zenon
    <3>11. IsInjective(ss[k])
      BY <3>2 DEF n
    <3>. QED  BY <3>2, <3>5, <3>6, <3>10, <3>11, ConcatInjective
  <2>5. n \in 1..n
    BY <1>0, <1>2
  <2>. QED  BY <2>1, <2>4, <2>5
<1>. QED  BY <1>1, <1>2

(* A mapping m applied to the elements of a sequence.                      *)
IsMapping(m, S, U) == m \in [S -> U]

(* m applied to the elements of a sequence.                                *)
MapSeq(m, s) == [k \in DOMAIN s |-> m[s[k]]]

(* It keeps the length and the places.                                     *)
LEMMA MapSeqFacts ==
  ASSUME NEW S, NEW U, NEW m, IsMapping(m, S, U), NEW x \in Seq(S)
  PROVE  /\ MapSeq(m, x) \in Seq(U) /\ Len(MapSeq(m, x)) = Len(x)
         /\ \A k \in 1..Len(x) : MapSeq(m, x)[k] = m[x[k]]
<1>1. DOMAIN x = 1..Len(x) /\ Len(x) \in Nat /\ \A k \in 1..Len(x) : x[k] \in S
  BY PlacesOfSeq
<1>2. MapSeq(m, x) = [k \in 1..Len(x) |-> m[x[k]]]
  BY <1>1 DEF MapSeq
<1>3. \A k \in 1..Len(x) : m[x[k]] \in U
  BY <1>1 DEF IsMapping
<1>. QED  BY <1>1, <1>2, <1>3

(* It may be applied to the parts of a concatenation.                      *)
LEMMA ConcatMap ==
  ASSUME NEW S, NEW U, NEW m, IsMapping(m, S, U), NEW x \in Seq(S), NEW y \in Seq(S)
  PROVE  MapSeq(m, x \o y) = MapSeq(m, x) \o MapSeq(m, y)
<1>. DEFINE z == x \o y
            a == MapSeq(m, x)
            b == MapSeq(m, y)
            c == MapSeq(m, z)
<1>1. /\ z \in Seq(S) /\ Len(z) = Len(x) + Len(y)
      /\ \A p \in 1..Len(x) : z[p] = x[p]
      /\ \A p \in 1..Len(y) : z[Len(x) + p] = y[p]
      /\ \A p \in 1..Len(z) : p \in 1..Len(x) \/ \E k \in 1..Len(y) : p = Len(x) + k
  BY ConcatAt
<1>. HIDE DEF z
<1>2. /\ a \in Seq(U) /\ Len(a) = Len(x) /\ \A k \in 1..Len(x) : a[k] = m[x[k]]
      /\ b \in Seq(U) /\ Len(b) = Len(y) /\ \A k \in 1..Len(y) : b[k] = m[y[k]]
      /\ c \in Seq(U) /\ Len(c) = Len(z) /\ \A k \in 1..Len(z) : c[k] = m[z[k]]
  <2>1. a \in Seq(U) /\ Len(a) = Len(x) /\ \A k \in 1..Len(x) : a[k] = m[x[k]]
    BY MapSeqFacts
  <2>2. b \in Seq(U) /\ Len(b) = Len(y) /\ \A k \in 1..Len(y) : b[k] = m[y[k]]
    BY MapSeqFacts
  <2>3. c \in Seq(U) /\ Len(c) = Len(z) /\ \A k \in 1..Len(z) : c[k] = m[z[k]]
    <3>1. z \in Seq(S)
      BY <1>1
    <3>. QED  BY <3>1, MapSeqFacts
  <2>. QED  BY <2>1, <2>2, <2>3
<1>. HIDE DEF a, b, c
<1>3. /\ a \o b \in Seq(U) /\ Len(a \o b) = Len(a) + Len(b)
      /\ \A p \in 1..Len(a) : (a \o b)[p] = a[p]
      /\ \A p \in 1..Len(b) : (a \o b)[Len(a) + p] = b[p]
  <2>1. a \in Seq(U) /\ b \in Seq(U)
    BY <1>2
  <2>. QED  BY <2>1, ConcatAt
<1>4. Len(a \o b) = Len(c)
  BY <1>1, <1>2, <1>3
<1>5. ASSUME NEW p \in 1..Len(c)  PROVE c[p] = (a \o b)[p]
  <2>0. p \in 1..Len(z)
    BY <1>2
  <2>1. CASE p \in 1..Len(x)
    <3>1. c[p] = m[x[p]]
      BY <1>1, <1>2, <2>0, <2>1
    <3>2. (a \o b)[p] = m[x[p]]
      BY <1>2, <1>3, <2>1
    <3>. QED  BY <3>1, <3>2
  <2>2. ASSUME NEW k \in 1..Len(y), p = Len(x) + k  PROVE c[p] = (a \o b)[p]
    <3>1. c[p] = m[y[k]]
      BY <1>1, <1>2, <2>0, <2>2
    <3>2. (a \o b)[Len(a) + k] = b[k] /\ b[k] = m[y[k]]
      BY <1>2, <1>3
    <3>. QED  BY <1>2, <2>2, <3>1, <3>2
  <2>. QED  BY <1>1, <2>0, <2>1, <2>2
<1>6. c = a \o b
  BY <1>2, <1>3, <1>4, <1>5, SeqEqual
<1>. QED  BY <1>6 DEF a, b, c, z

(* Mapping the elements of the parts maps those of the whole.              *)
LEMMA FlattenMap ==
  ASSUME NEW S, NEW U, NEW m, IsMapping(m, S, U), NEW ss \in Seq(Seq(S)),
         NEW tt \in Seq(Seq(U)), Len(tt) = Len(ss),
         \A j \in 1..Len(ss) : tt[j] = MapSeq(m, ss[j])
  PROVE  FlattenSeq(tt) = MapSeq(m, FlattenSeq(ss))
<1>. DEFINE n == Len(ss)
<1>0. n \in Nat /\ \A i \in 1..n : ss[i] \in Seq(S)
  OBVIOUS
<1>1. CASE n = 0
  <2>1. ss = <<>> /\ tt = <<>>
    BY <1>0, <1>1
  <2>2. FlattenSeq(ss) = <<>> /\ FlattenSeq(tt) = <<>>
    BY <2>1 DEF FlattenSeq
  <2>3. MapSeq(m, <<>>) = <<>>
    BY DEF MapSeq
  <2>. QED  BY <2>2, <2>3
<1>2. CASE n # 0
  <2>1. PICK f : IsRow(S, ss, f) /\ FlattenSeq(ss) = f[n]
    BY <1>2, FlattenRow
  <2>2. PICK g : IsRow(U, tt, g) /\ FlattenSeq(tt) = g[n]
    BY <1>2, FlattenRow
  <2>3. /\ \A i \in 1..n : f[i] \in Seq(S)
        /\ f[1] = ss[1] /\ \A i \in 1..n : i # 1 => f[i] = f[i-1] \o ss[i]
    BY <2>1 DEF IsRow
  <2>4. g[1] = tt[1] /\ \A i \in 1..n : i # 1 => g[i] = g[i-1] \o tt[i]
    BY <2>2 DEF IsRow
  <2>5. \A j \in 1..n : tt[j] = MapSeq(m, ss[j])
    OBVIOUS
  <2>. HIDE DEF n
  <2>. DEFINE Bad == {i \in 1..n : g[i] # MapSeq(m, f[i])}
  <2>6. Bad = {}
    <3>. SUFFICES ASSUME Bad # {}  PROVE FALSE
      OBVIOUS
    <3>1. PICK k \in Bad : \A i \in Bad : k <= i
      <4>1. Bad \in SUBSET Nat
        BY <1>0
      <4>. HIDE DEF Bad
      <4>. QED  BY <4>1, LeastElement
    <3>2. k \in 1..n /\ g[k] # MapSeq(m, f[k])
      BY <3>1
    <3>3. k # 1
      BY <2>3, <2>4, <2>5, <3>2
    <3>4. k - 1 \in 1..n /\ ~ (k <= k - 1)
      BY <1>0, <3>2, <3>3
    <3>5. g[k-1] = MapSeq(m, f[k-1])
      BY <3>1, <3>4
    <3>6. f[k] = f[k-1] \o ss[k] /\ f[k-1] \in Seq(S) /\ ss[k] \in Seq(S)
      BY <1>0, <2>3, <3>2, <3>3, <3>4
    <3>7. g[k] = MapSeq(m, f[k-1]) \o MapSeq(m, ss[k])
      BY <2>4, <2>5, <3>2, <3>3, <3>5
    <3>8. MapSeq(m, f[k-1] \o ss[k]) = MapSeq(m, f[k-1]) \o MapSeq(m, ss[k])
      <4>1. \A a, b \in Seq(S) : MapSeq(m, a \o b) = MapSeq(m, a) \o MapSeq(m, b)
        BY ConcatMap
      <4>. QED  BY <3>6, <4>1, Zenon
    <3>. QED  BY <3>2, <3>6, <3>7, <3>8
  <2>7. n \in 1..n
    BY <1>0, <1>2
  <2>. QED  BY <2>1, <2>2, <2>6, <2>7
<1>. QED  BY <1>1, <1>2

-----------------------------------------------------------------------------
(* A tree walked in preorder: the value of a node is its own label, then   *)
(* the values of its subnodes, with sh applied to their elements.  For     *)
(* node_clone(), sh puts a node one level deeper.                          *)
Parts(subs, sh, g, n) == [i \in DOMAIN subs[n] |-> MapSeq(sh, g[subs[n][i]])]

(* The value of the node n, from those of its subnodes.                    *)
Walk(lab, subs, sh, g, n) == <<lab[n]>> \o FlattenSeq(Parts(subs, sh, g, n))

(* The facts about one step of the walk that the proofs use.               *)
Walkable(D, S, lab, subs, sh, g, n) ==
  /\ Parts(subs, sh, g, n) \in Seq(Seq(S))
  /\ Len(Parts(subs, sh, g, n)) = Len(subs[n])
  /\ \A i \in 1..Len(subs[n]) :
       /\ subs[n][i] \in D /\ g[subs[n][i]] \in Seq(S)
       /\ Parts(subs, sh, g, n)[i] = MapSeq(sh, g[subs[n][i]])
  /\ <<lab[n]>> \in Seq(S) /\ Len(<<lab[n]>>) = 1 /\ <<lab[n]>>[1] = lab[n]
  /\ Walk(lab, subs, sh, g, n) \in Seq(S)

(* They follow from the types.                                             *)
LEMMA WalkFacts ==
  ASSUME NEW D, NEW S, NEW lab, NEW subs, NEW sh, NEW g, NEW n \in D,
         IsMapping(lab, D, S), IsMapping(subs, D, Seq(D)),
         IsMapping(sh, S, S), IsMapping(g, D, Seq(S))
  PROVE  Walkable(D, S, lab, subs, sh, g, n)
<1>. DEFINE s == subs[n]
            P == Parts(subs, sh, g, n)
<1>1. s \in Seq(D)
  BY DEF IsMapping
<1>2. lab[n] \in S
  BY DEF IsMapping
<1>3. \A d \in D : g[d] \in Seq(S)
  BY DEF IsMapping
<1>. HIDE DEF s
<1>4. DOMAIN s = 1..Len(s) /\ Len(s) \in Nat /\ \A i \in 1..Len(s) : s[i] \in D
  BY <1>1, PlacesOfSeq
<1>5. P = [i \in 1..Len(s) |-> MapSeq(sh, g[s[i]])]
  BY <1>4 DEF Parts, s
<1>6. ASSUME NEW i \in 1..Len(s)
      PROVE  s[i] \in D /\ g[s[i]] \in Seq(S) /\ MapSeq(sh, g[s[i]]) \in Seq(S)
  <2>1. s[i] \in D /\ g[s[i]] \in Seq(S)
    BY <1>3, <1>4
  <2>2. \A x \in Seq(S) : MapSeq(sh, x) \in Seq(S)
    BY MapSeqFacts
  <2>. QED  BY <2>1, <2>2
<1>. HIDE DEF P
<1>7. /\ P \in Seq(Seq(S)) /\ Len(P) = Len(s)
      /\ \A i \in 1..Len(s) : P[i] = MapSeq(sh, g[s[i]])
  BY <1>4, <1>5, <1>6
<1>8. <<lab[n]>> \in Seq(S) /\ Len(<<lab[n]>>) = 1 /\ <<lab[n]>>[1] = lab[n]
  BY <1>2
<1>9. FlattenSeq(P) \in Seq(S)
  BY <1>7, FlattenFacts
<1>10. <<lab[n]>> \o FlattenSeq(P) \in Seq(S)
  BY <1>8, <1>9, ConcatAt
<1>. QED  BY <1>6, <1>7, <1>8, <1>10 DEF s, P, Walk, Walkable

(* The value of a node depends on those of its subnodes only.              *)
LEMMA WalkLocal ==
  ASSUME NEW D, NEW lab, NEW subs, NEW sh, NEW g, NEW h, NEW n \in D,
         \A i \in DOMAIN subs[n] : g[subs[n][i]] = h[subs[n][i]]
  PROVE  Walk(lab, subs, sh, g, n) = Walk(lab, subs, sh, h, n)
<1>1. Parts(subs, sh, g, n) = Parts(subs, sh, h, n)
  BY DEF Parts
<1>. QED  BY <1>1 DEF Walk

(* rk decreases from a node to its subnodes, and is bounded.               *)
Ranked(D, subs, rk, b) ==
  /\ b \in Nat
  /\ \A n \in D : rk[n] \in Nat /\ rk[n] <= b
  /\ \A n \in D : \A i \in DOMAIN subs[n] : rk[subs[n][i]] < rk[n]

(* Without cycles, the walk is defined for all nodes.                      *)
LEMMA WalkExists ==
  ASSUME NEW D, NEW S, NEW lab, NEW subs, NEW sh, NEW rk, NEW b,
         IsMapping(lab, D, S), IsMapping(subs, D, Seq(D)),
         IsMapping(sh, S, S), Ranked(D, subs, rk, b)
  PROVE  \E g : /\ IsMapping(g, D, Seq(S))
                /\ \A n \in D : g[n] = Walk(lab, subs, sh, g, n)
<1>. DEFINE Upto(g, m) == /\ IsMapping(g, D, Seq(S))
                          /\ \A n \in D : rk[n] < m => g[n] = Walk(lab, subs, sh, g, n)
            Bad == {m \in Nat : ~ \E g : Upto(g, m)}
<1>0. /\ b \in Nat /\ b + 1 \in Nat
      /\ \A n \in D : rk[n] \in Nat /\ rk[n] < b + 1
  BY DEF Ranked
<1>1. Bad = {}
  <2>. SUFFICES ASSUME Bad # {}  PROVE FALSE
    OBVIOUS
  <2>1. PICK m \in Bad : \A i \in Bad : m <= i
    <3>1. Bad \in SUBSET Nat
      OBVIOUS
    <3>. HIDE DEF Bad
    <3>. QED  BY <3>1, LeastElement
  <2>2. m \in Nat /\ ~ \E g : Upto(g, m)
    BY <2>1
  <2>3. CASE m = 0
    <3>. DEFINE g == [n \in D |-> <<>>]
    <3>1. <<>> \in Seq(S)
      OBVIOUS
    <3>2. IsMapping(g, D, Seq(S))
      BY <3>1 DEF IsMapping
    <3>3. \A n \in D : ~ (rk[n] < 0)
      BY <1>0
    <3>. HIDE DEF g
    <3>. QED  BY <2>2, <2>3, <3>2, <3>3
  <2>4. CASE m # 0
    <3>1. m - 1 \in Nat /\ ~ (m <= m - 1)
      BY <2>2, <2>4
    <3>2. PICK g : Upto(g, m - 1)
      BY <2>1, <3>1
    <3>. DEFINE h == [n \in D |-> Walk(lab, subs, sh, g, n)]
    <3>3. IsMapping(g, D, Seq(S))
      BY <3>2
    <3>4. IsMapping(h, D, Seq(S))
      <4>1. \A n \in D : Walk(lab, subs, sh, g, n) \in Seq(S)
        BY <3>3, WalkFacts DEF Walkable
      <4>. QED  BY <4>1 DEF IsMapping
    <3>5. ASSUME NEW n \in D, rk[n] < m  PROVE h[n] = Walk(lab, subs, sh, h, n)
      <4>1. ASSUME NEW i \in DOMAIN subs[n]  PROVE g[subs[n][i]] = h[subs[n][i]]
        <5>. DEFINE d == subs[n][i]
        <5>1. d \in D
          <6>1. subs[n] \in Seq(D)
            BY DEF IsMapping
          <6>. QED  BY <6>1
        <5>2. rk[d] < rk[n]
          BY DEF Ranked
        <5>. HIDE DEF d
        <5>3. rk[d] < m - 1
          BY <1>0, <2>2, <3>5, <5>1, <5>2
        <5>4. g[d] = Walk(lab, subs, sh, g, d)
          BY <3>2, <5>1, <5>3
        <5>. QED  BY <5>1, <5>4 DEF d
      <4>2. Walk(lab, subs, sh, g, n) = Walk(lab, subs, sh, h, n)
        <5>. HIDE DEF h
        <5>. QED  BY <4>1, WalkLocal
      <4>. QED  BY <4>2
    <3>. HIDE DEF h
    <3>6. Upto(h, m)
      BY <3>4, <3>5
    <3>. QED  BY <2>2, <3>6
  <2>. QED  BY <2>3, <2>4
<1>2. PICK g : Upto(g, b + 1)
  BY <1>0, <1>1
<1>3. IsMapping(g, D, Seq(S)) /\ \A n \in D : g[n] = Walk(lab, subs, sh, g, n)
  BY <1>0, <1>2
<1>. QED  BY <1>3

(* And in one way only.                                                    *)
Walks(D, lab, subs, sh, g) == \A n \in D : g[n] = Walk(lab, subs, sh, g, n)

(* Two solutions of the equation agree on all nodes.                       *)
LEMMA WalkUnique ==
  ASSUME NEW D, NEW lab, NEW subs, NEW sh, NEW rk, NEW b, NEW g, NEW h,
         IsMapping(subs, D, Seq(D)), Ranked(D, subs, rk, b),
         Walks(D, lab, subs, sh, g), Walks(D, lab, subs, sh, h)
  PROVE  \A n \in D : g[n] = h[n]
<1>. DEFINE Bad == {r \in Nat : \E n \in D : rk[n] = r /\ g[n] # h[n]}
<1>1. Bad = {}
  <2>. SUFFICES ASSUME Bad # {}  PROVE FALSE
    OBVIOUS
  <2>1. PICK r \in Bad : \A i \in Bad : r <= i
    <3>1. Bad \in SUBSET Nat
      OBVIOUS
    <3>. HIDE DEF Bad
    <3>. QED  BY <3>1, LeastElement
  <2>2. PICK n \in D : rk[n] = r /\ g[n] # h[n]
    BY <2>1
  <2>3. ASSUME NEW i \in DOMAIN subs[n]  PROVE g[subs[n][i]] = h[subs[n][i]]
    <3>. DEFINE d == subs[n][i]
    <3>1. d \in D
      <4>1. subs[n] \in Seq(D)
        BY DEF IsMapping
      <4>. QED  BY <4>1
    <3>2. rk[d] < rk[n] /\ rk[d] \in Nat /\ rk[n] \in Nat
      BY <3>1 DEF Ranked
    <3>. HIDE DEF d
    <3>3. rk[d] \notin Bad
      BY <2>1, <2>2, <3>2
    <3>. QED  BY <3>1, <3>2, <3>3 DEF d
  <2>4. Walk(lab, subs, sh, g, n) = Walk(lab, subs, sh, h, n)
    BY <2>3, WalkLocal
  <2>. QED  BY <2>2, <2>4 DEF Walks
<1>2. \A n \in D : rk[n] \in Nat
  BY DEF Ranked
<1>. QED  BY <1>1, <1>2

-----------------------------------------------------------------------------
(* A heap: every pointer of a live node leads to a live node or is NULL.   *)
Cell(D) == [label : Labels, subs : Seq(D), parent : D \cup {NULL}]

(* The addresses are not NULL and the nodes are finitely many.             *)
Shape(h) == /\ DOMAIN h \subseteq Nat \ {0} /\ IsFiniteSet(DOMAIN h)
            /\ h \in [DOMAIN h -> Cell(DOMAIN h)]

(* The subnodes of the nodes.                                              *)
SubsOf(h) == [n \in DOMAIN h |-> h[n].subs]

(* The fields of a live node.                                              *)
LEMMA CellFields ==
  ASSUME NEW h, Shape(h), NEW n \in DOMAIN h
  PROVE  /\ h[n].label \in Labels /\ h[n].subs \in Seq(DOMAIN h)
         /\ h[n].parent \in DOMAIN h \cup {NULL}
         /\ h[n] = [label |-> h[n].label, subs |-> h[n].subs, parent |-> h[n].parent]
         /\ SubsOf(h)[n] = h[n].subs
<1>1. h[n] \in Cell(DOMAIN h)
  BY DEF Shape
<1>2. SubsOf(h)[n] = h[n].subs
  BY DEF SubsOf
<1>. QED  BY <1>1, <1>2 DEF Cell

(* The subnodes are live.                                                  *)
LEMMA SubsTyped ==
  ASSUME NEW h, Shape(h)
  PROVE  IsMapping(SubsOf(h), DOMAIN h, Seq(DOMAIN h))
<1>1. \A n \in DOMAIN h : h[n].subs \in Seq(DOMAIN h)
  BY CellFields
<1>. QED  BY <1>1 DEF SubsOf, IsMapping

(* The identity on D.                                                      *)
Same(D) == [d \in D |-> d]

(* FreeOrder(): a node, then what is below its subnodes.                   *)
LEMMA FreeOrderIs ==
  ASSUME NEW h, NEW rk, NEW b, Shape(h), Ranked(DOMAIN h, SubsOf(h), rk, b)
  PROVE  /\ IsMapping(FreeOrder(h), DOMAIN h, Seq(DOMAIN h))
         /\ \A n \in DOMAIN h :
              FreeOrder(h)[n] = Walk(Same(DOMAIN h), SubsOf(h), Same(DOMAIN h), FreeOrder(h), n)
<1>. DEFINE D == DOMAIN h
            subs == SubsOf(h)
            id == Same(D)
            Body(f, n) == <<n>> \o FlattenSeq([i \in DOMAIN h[n].subs |-> f[h[n].subs[i]]])
            Raw(f) == f = [n \in DOMAIN h |->
                             <<n>> \o FlattenSeq([i \in DOMAIN h[n].subs |-> f[h[n].subs[i]]])]
<1>1. IsMapping(id, D, D) /\ IsMapping(subs, D, Seq(D)) /\ Ranked(D, subs, rk, b)
  <2>1. IsMapping(id, D, D)
    BY DEF Same, IsMapping
  <2>. QED  BY <2>1, SubsTyped
<1>2. PICK g : /\ IsMapping(g, D, Seq(D))
               /\ \A n \in D : g[n] = Walk(id, subs, id, g, n)
  <2>. HIDE DEF D, subs, id
  <2>. QED  BY <1>1, WalkExists
<1>3. ASSUME NEW x \in Seq(D)  PROVE MapSeq(id, x) = x
  <2>1. DOMAIN x = 1..Len(x) /\ Len(x) \in Nat /\ \A k \in 1..Len(x) : x[k] \in D
    BY PlacesOfSeq
  <2>2. \A k \in DOMAIN x : id[x[k]] = x[k]
    BY <2>1 DEF Same
  <2>3. x = [k \in DOMAIN x |-> x[k]]
    OBVIOUS
  <2>. HIDE DEF id, D
  <2>. QED  BY <2>2, <2>3 DEF MapSeq
<1>4. ASSUME NEW n \in D  PROVE g[n] = Body(g, n)
  <2>1. h[n].subs \in Seq(D) /\ subs[n] = h[n].subs /\ id[n] = n
    BY CellFields DEF Same
  <2>2. \A i \in DOMAIN h[n].subs : h[n].subs[i] \in D
    BY <2>1, PlacesOfSeq
  <2>3. \A i \in DOMAIN h[n].subs : g[h[n].subs[i]] \in Seq(D)
    BY <1>2, <2>2 DEF IsMapping
  <2>4. \A i \in DOMAIN h[n].subs : MapSeq(id, g[h[n].subs[i]]) = g[h[n].subs[i]]
    BY <1>3, <2>3
  <2>. HIDE DEF D, subs, id
  <2>5. Parts(subs, id, g, n) = [i \in DOMAIN h[n].subs |-> g[h[n].subs[i]]]
    BY <2>1, <2>4 DEF Parts
  <2>. QED  BY <1>2, <2>1, <2>5 DEF Walk
<1>5. Raw(g)
  <2>1. g = [n \in D |-> g[n]]
    BY <1>2 DEF IsMapping
  <2>. QED  BY <1>4, <2>1
<1>. DEFINE f == CHOOSE c : Raw(c)
<1>6. Raw(f)
  BY <1>5
<1>7. FreeOrder(h) = f
  BY DEF FreeOrder
<1>. HIDE DEF f
<1>8. \A n \in D : f[n] = Body(f, n)
  BY <1>6
<1>9. DOMAIN f = D /\ f = [n \in D |-> f[n]]
  BY <1>6
<1>. DEFINE Bad == {r \in Nat : \E n \in D : rk[n] = r /\ f[n] # g[n]}
<1>10. Bad = {}
  <2>. SUFFICES ASSUME Bad # {}  PROVE FALSE
    OBVIOUS
  <2>1. PICK r \in Bad : \A i \in Bad : r <= i
    <3>1. Bad \in SUBSET Nat
      OBVIOUS
    <3>. HIDE DEF Bad
    <3>. QED  BY <3>1, LeastElement
  <2>2. PICK n \in D : rk[n] = r /\ f[n] # g[n]
    BY <2>1
  <2>3. h[n].subs \in Seq(D) /\ subs[n] = h[n].subs
    BY CellFields
  <2>4. ASSUME NEW i \in DOMAIN h[n].subs  PROVE f[h[n].subs[i]] = g[h[n].subs[i]]
    <3>. DEFINE d == h[n].subs[i]
    <3>1. d \in D
      BY <2>3, PlacesOfSeq
    <3>2. rk[d] < rk[n] /\ rk[d] \in Nat /\ rk[n] \in Nat
      BY <2>3, <3>1 DEF Ranked
    <3>. HIDE DEF d
    <3>3. rk[d] \notin Bad
      BY <2>1, <2>2, <3>2
    <3>. QED  BY <3>1, <3>2, <3>3 DEF d
  <2>5. [i \in DOMAIN h[n].subs |-> f[h[n].subs[i]]] = [i \in DOMAIN h[n].subs |-> g[h[n].subs[i]]]
    BY <2>4
  <2>. QED  BY <1>4, <1>8, <2>2, <2>5
<1>11. \A n \in D : f[n] = g[n]
  <2>1. \A n \in D : rk[n] \in Nat
    BY DEF Ranked
  <2>. QED  BY <1>10, <2>1
<1>12. f = g
  <2>1. g = [n \in D |-> g[n]]
    BY <1>2 DEF IsMapping
  <2>. QED  BY <1>9, <1>11, <2>1
<1>. QED  BY <1>2, <1>7, <1>12

(* A node of a tree: its label and its depth.                              *)
Item == [id : Labels, depth : Nat]

(* A node one level deeper, as node_clone() of its parent has it.          *)
Deeper == [e \in Item |-> [e EXCEPT !.depth = @ + 1]]

(* The nodes as roots of their clones.                                     *)
ItemOf(h) == [n \in DOMAIN h |-> [id |-> h[n].label, depth |-> 0]]

(* The label does not depend on the level.                                 *)
LEMMA DeeperItem ==
  ASSUME NEW e \in Item
  PROVE  Deeper[e] \in Item /\ Deeper[e].id = e.id
BY DEF Item, Deeper

(* The types of the two.                                                   *)
LEMMA ItemsTyped ==
  ASSUME NEW h, Shape(h)
  PROVE  IsMapping(ItemOf(h), DOMAIN h, Item) /\ IsMapping(Deeper, Item, Item)
<1>1. \A n \in DOMAIN h : h[n].label \in Labels
  BY CellFields
<1>2. IsMapping(ItemOf(h), DOMAIN h, Item)
  BY <1>1 DEF ItemOf, IsMapping, Item
<1>3. IsMapping(Deeper, Item, Item)
  <2>1. DOMAIN Deeper = Item /\ Deeper = [e \in Item |-> Deeper[e]]
    BY DEF Deeper
  <2>. QED  BY <2>1, DeeperItem DEF IsMapping
<1>. QED  BY <1>2, <1>3

(* CloneOf(): a node, then its subnodes one level deeper.                  *)
LEMMA CloneIs ==
  ASSUME NEW h, NEW rk, NEW b, Shape(h), Ranked(DOMAIN h, SubsOf(h), rk, b)
  PROVE  /\ IsMapping(CloneOf(h), DOMAIN h, Seq(Item))
         /\ \A n \in DOMAIN h :
              CloneOf(h)[n] = Walk(ItemOf(h), SubsOf(h), Deeper, CloneOf(h), n)
<1>. DEFINE D == DOMAIN h
            subs == SubsOf(h)
            lab == ItemOf(h)
            Up(x) == [k \in DOMAIN x |-> [x[k] EXCEPT !.depth = @ + 1]]
            Body(f, n) == <<[id |-> h[n].label, depth |-> 0]>> \o
                          FlattenSeq([i \in DOMAIN h[n].subs |-> Up(f[h[n].subs[i]])])
            Raw(f) == f = [n \in DOMAIN h |-> Body(f, n)]
<1>1. /\ IsMapping(lab, D, Item) /\ IsMapping(Deeper, Item, Item)
      /\ IsMapping(subs, D, Seq(D)) /\ Ranked(D, subs, rk, b)
  BY SubsTyped, ItemsTyped
<1>2. PICK g : /\ IsMapping(g, D, Seq(Item))
               /\ \A n \in D : g[n] = Walk(lab, subs, Deeper, g, n)
  <2>. HIDE DEF D, subs, lab
  <2>. QED  BY <1>1, WalkExists
<1>3. ASSUME NEW x \in Seq(Item)  PROVE MapSeq(Deeper, x) = Up(x)
  <2>1. \A k \in DOMAIN x : x[k] \in Item
    BY PlacesOfSeq
  <2>2. \A k \in DOMAIN x : Deeper[x[k]] = [x[k] EXCEPT !.depth = @ + 1]
    BY <2>1 DEF Deeper
  <2>. QED  BY <2>2 DEF MapSeq
<1>4. ASSUME NEW n \in D  PROVE g[n] = Body(g, n)
  <2>1. h[n].subs \in Seq(D) /\ subs[n] = h[n].subs /\ lab[n] = [id |-> h[n].label, depth |-> 0]
    BY CellFields DEF ItemOf
  <2>2. \A i \in DOMAIN h[n].subs : h[n].subs[i] \in D
    BY <2>1, PlacesOfSeq
  <2>3. \A i \in DOMAIN h[n].subs : g[h[n].subs[i]] \in Seq(Item)
    BY <1>2, <2>2 DEF IsMapping
  <2>4. \A i \in DOMAIN h[n].subs : MapSeq(Deeper, g[h[n].subs[i]]) = Up(g[h[n].subs[i]])
    BY <1>3, <2>3
  <2>. HIDE DEF D, subs, lab
  <2>5. Parts(subs, Deeper, g, n) = [i \in DOMAIN h[n].subs |-> Up(g[h[n].subs[i]])]
    BY <2>1, <2>4 DEF Parts
  <2>. QED  BY <1>2, <2>1, <2>5 DEF Walk
<1>5. Raw(g)
  <2>1. g = [n \in D |-> g[n]]
    BY <1>2 DEF IsMapping
  <2>. QED  BY <1>4, <2>1
<1>. DEFINE f == CHOOSE c : Raw(c)
<1>6. Raw(f)
  BY <1>5
<1>7. CloneOf(h) = f
  BY DEF CloneOf
<1>. HIDE DEF f
<1>8. \A n \in D : f[n] = Body(f, n)
  BY <1>6
<1>9. DOMAIN f = D /\ f = [n \in D |-> f[n]]
  BY <1>6
<1>. DEFINE Bad == {r \in Nat : \E n \in D : rk[n] = r /\ f[n] # g[n]}
<1>10. Bad = {}
  <2>. SUFFICES ASSUME Bad # {}  PROVE FALSE
    OBVIOUS
  <2>1. PICK r \in Bad : \A i \in Bad : r <= i
    <3>1. Bad \in SUBSET Nat
      OBVIOUS
    <3>. HIDE DEF Bad
    <3>. QED  BY <3>1, LeastElement
  <2>2. PICK n \in D : rk[n] = r /\ f[n] # g[n]
    BY <2>1
  <2>3. h[n].subs \in Seq(D) /\ subs[n] = h[n].subs
    BY CellFields
  <2>4. ASSUME NEW i \in DOMAIN h[n].subs  PROVE f[h[n].subs[i]] = g[h[n].subs[i]]
    <3>. DEFINE d == h[n].subs[i]
    <3>1. d \in D
      BY <2>3, PlacesOfSeq
    <3>2. rk[d] < rk[n] /\ rk[d] \in Nat /\ rk[n] \in Nat
      BY <2>3, <3>1 DEF Ranked
    <3>. HIDE DEF d
    <3>3. rk[d] \notin Bad
      BY <2>1, <2>2, <3>2
    <3>. QED  BY <3>1, <3>2, <3>3 DEF d
  <2>5.   [i \in DOMAIN h[n].subs |-> Up(f[h[n].subs[i]])]
        = [i \in DOMAIN h[n].subs |-> Up(g[h[n].subs[i]])]
    BY <2>4
  <2>6. Body(f, n) = Body(g, n)
    <3>. HIDE DEF Up
    <3>. QED  BY <2>5
  <2>. HIDE DEF Body
  <2>. QED  BY <1>4, <1>8, <2>2, <2>6
<1>11. \A n \in D : f[n] = g[n]
  <2>1. \A n \in D : rk[n] \in Nat
    BY DEF Ranked
  <2>. QED  BY <1>10, <2>1
<1>12. f = g
  <2>1. g = [n \in D |-> g[n]]
    BY <1>2 DEF IsMapping
  <2>. QED  BY <1>9, <1>11, <2>1
<1>. QED  BY <1>2, <1>7, <1>12

(* The labels of the nodes.                                                *)
LabelOf(h) == [n \in DOMAIN h |-> h[n].label]

(* H has the hashes of the nodes of h.                                     *)
Hashes(h, H) ==
  /\ IsMapping(H, DOMAIN h, Seq(Labels))
  /\ \A n \in DOMAIN h : H[n] = Walk(LabelOf(h), SubsOf(h), Same(Labels), H, n)

(* The types that the walk of the labels needs.                            *)
LEMMA LabelsTyped ==
  ASSUME NEW h, Shape(h)
  PROVE  IsMapping(LabelOf(h), DOMAIN h, Labels) /\ IsMapping(Same(Labels), Labels, Labels)
<1>1. \A n \in DOMAIN h : h[n].label \in Labels
  BY CellFields
<1>. QED  BY <1>1 DEF LabelOf, IsMapping, Same

(* The identity changes no sequence.                                       *)
LEMMA MapSame ==
  ASSUME NEW S, NEW x \in Seq(S)
  PROVE  MapSeq(Same(S), x) = x
<1>1. \A k \in DOMAIN x : x[k] \in S
  BY PlacesOfSeq
<1>2. \A k \in DOMAIN x : Same(S)[x[k]] = x[k]
  BY <1>1 DEF Same
<1>3. x = [k \in DOMAIN x |-> x[k]]
  OBVIOUS
<1>. QED  BY <1>2, <1>3 DEF MapSeq

(* What hash_node() reads of a node.                                       *)
IdField == [e \in Item |-> e.id]

(* hash_node() of the clones: the label of a node, then the hashes of its  *)
(* subnodes.                                                               *)
LEMMA HashOfClone ==
  ASSUME NEW h, NEW rk, NEW b, Shape(h), Ranked(DOMAIN h, SubsOf(h), rk, b)
  PROVE  Hashes(h, [n \in DOMAIN h |-> hash_node(CloneOf(h)[n])])
<1>. DEFINE D == DOMAIN h
            subs == SubsOf(h)
            c == CloneOf(h)
            G == [n \in D |-> hash_node(c[n])]
            id == Same(Labels)
<1>1. /\ IsMapping(c, D, Seq(Item))
      /\ \A n \in D : c[n] = Walk(ItemOf(h), subs, Deeper, c, n)
  BY CloneIs
<1>2. /\ IsMapping(ItemOf(h), D, Item) /\ IsMapping(Deeper, Item, Item)
      /\ IsMapping(LabelOf(h), D, Labels) /\ IsMapping(id, Labels, Labels)
      /\ IsMapping(subs, D, Seq(D))
  BY ItemsTyped, LabelsTyped, SubsTyped
<1>3. IsMapping(IdField, Item, Labels)
  BY DEF IsMapping, IdField, Item
<1>4. ASSUME NEW x \in Seq(Item)
      PROVE  hash_node(x) = MapSeq(IdField, x) /\ hash_node(x) \in Seq(Labels)
  <2>1. \A k \in DOMAIN x : x[k] \in Item
    BY PlacesOfSeq
  <2>2. \A k \in DOMAIN x : IdField[x[k]] = x[k].id
    BY <2>1 DEF IdField
  <2>3. hash_node(x) = MapSeq(IdField, x)
    BY <2>2 DEF hash_node, MapSeq
  <2>4. MapSeq(IdField, x) \in Seq(Labels)
    BY <1>3, MapSeqFacts
  <2>. QED  BY <2>3, <2>4
<1>5. ASSUME NEW x \in Seq(Item)
      PROVE  MapSeq(IdField, MapSeq(Deeper, x)) = MapSeq(IdField, x)
  <2>. DEFINE y == MapSeq(Deeper, x)
              u == MapSeq(IdField, y)
              v == MapSeq(IdField, x)
  <2>1. y \in Seq(Item) /\ Len(y) = Len(x) /\ \A k \in 1..Len(x) : y[k] = Deeper[x[k]]
    BY <1>2, MapSeqFacts
  <2>. HIDE DEF y
  <2>2. y \in Seq(Item) /\ Len(y) = Len(x)
    BY <2>1
  <2>3. u \in Seq(Labels) /\ Len(u) = Len(y) /\ \A k \in 1..Len(y) : u[k] = IdField[y[k]]
    BY <1>3, <2>2, MapSeqFacts
  <2>4. v \in Seq(Labels) /\ Len(v) = Len(x) /\ \A k \in 1..Len(x) : v[k] = IdField[x[k]]
    BY <1>3, MapSeqFacts
  <2>5. ASSUME NEW k \in 1..Len(x)  PROVE u[k] = v[k]
    <3>1. x[k] \in Item
      BY PlacesOfSeq
    <3>2. Deeper[x[k]] \in Item /\ Deeper[x[k]].id = x[k].id
      BY <3>1, DeeperItem
    <3>3. IdField[Deeper[x[k]]] = IdField[x[k]]
      BY <3>1, <3>2 DEF IdField
    <3>. QED  BY <2>1, <2>3, <2>4, <3>3
  <2>. HIDE DEF u, v
  <2>6. u = v
    BY <2>2, <2>3, <2>4, <2>5, SeqEqual
  <2>. QED  BY <2>6 DEF u, v, y
<1>6. \A n \in D : c[n] \in Seq(Item)
  BY <1>1 DEF IsMapping
<1>. HIDE DEF c
<1>7. \A n \in D : G[n] = MapSeq(IdField, c[n]) /\ G[n] \in Seq(Labels)
  BY <1>4, <1>6
<1>8. IsMapping(G, D, Seq(Labels))
  <2>1. G = [n \in D |-> G[n]]
    OBVIOUS
  <2>. HIDE DEF G
  <2>. QED  BY <1>7, <2>1 DEF IsMapping
<1>. HIDE DEF G
<1>9. ASSUME NEW n \in D  PROVE G[n] = Walk(LabelOf(h), subs, id, G, n)
  <2>. DEFINE P == Parts(subs, Deeper, c, n)
              Q == Parts(subs, id, G, n)
              e == ItemOf(h)[n]
              l == LabelOf(h)[n]
  <2>. HIDE DEF subs, id, D
  <2>1. /\ P \in Seq(Seq(Item)) /\ Len(P) = Len(subs[n])
        /\ \A i \in 1..Len(subs[n]) : /\ subs[n][i] \in D /\ c[subs[n][i]] \in Seq(Item)
                                      /\ P[i] = MapSeq(Deeper, c[subs[n][i]])
        /\ <<e>> \in Seq(Item) /\ Len(<<e>>) = 1 /\ <<e>>[1] = e
    <3>1. /\ IsMapping(ItemOf(h), D, Item) /\ IsMapping(subs, D, Seq(D))
          /\ IsMapping(Deeper, Item, Item) /\ IsMapping(c, D, Seq(Item))
      BY <1>1, <1>2
    <3>2. Walkable(D, Item, ItemOf(h), subs, Deeper, c, n)
      BY <3>1, WalkFacts
    <3>. QED  BY <3>2 DEF Walkable
  <2>2. /\ Q \in Seq(Seq(Labels)) /\ Len(Q) = Len(subs[n])
        /\ \A i \in 1..Len(subs[n]) : /\ G[subs[n][i]] \in Seq(Labels)
                                      /\ Q[i] = MapSeq(id, G[subs[n][i]])
        /\ <<l>> \in Seq(Labels) /\ Len(<<l>>) = 1 /\ <<l>>[1] = l
    <3>1. /\ IsMapping(LabelOf(h), D, Labels) /\ IsMapping(subs, D, Seq(D))
          /\ IsMapping(id, Labels, Labels) /\ IsMapping(G, D, Seq(Labels))
      BY <1>2, <1>8
    <3>2. Walkable(D, Labels, LabelOf(h), subs, id, G, n)
      BY <3>1, WalkFacts
    <3>. QED  BY <3>2 DEF Walkable
  <2>3. IdField[e] = l
    <3>1. e = [id |-> h[n].label, depth |-> 0] /\ l = h[n].label
      BY DEF ItemOf, LabelOf, D
    <3>2. e \in Item
      BY <1>2 DEF IsMapping
    <3>. QED  BY <3>1, <3>2 DEF IdField
  <2>. HIDE DEF P, Q, e, l
  <2>4. ASSUME NEW i \in 1..Len(P)  PROVE Q[i] = MapSeq(IdField, P[i])
    <3>1. i \in 1..Len(subs[n])
      BY <2>1
    <3>2. c[subs[n][i]] \in Seq(Item) /\ subs[n][i] \in D
      BY <2>1, <3>1
    <3>3. MapSeq(IdField, P[i]) = MapSeq(IdField, c[subs[n][i]])
      BY <1>5, <2>1, <3>1, <3>2
    <3>4. Q[i] = G[subs[n][i]]
      <4>1. G[subs[n][i]] \in Seq(Labels) /\ Q[i] = MapSeq(id, G[subs[n][i]])
        BY <2>2, <3>1
      <4>. QED  BY <4>1, MapSame DEF id
    <3>. QED  BY <1>7, <3>2, <3>3, <3>4
  <2>5. FlattenSeq(Q) = MapSeq(IdField, FlattenSeq(P))
    BY <1>3, <2>1, <2>2, <2>4, FlattenMap
  <2>6. FlattenSeq(P) \in Seq(Item)
    BY <2>1, FlattenFacts
  <2>7. MapSeq(IdField, <<e>> \o FlattenSeq(P)) = MapSeq(IdField, <<e>>) \o FlattenSeq(Q)
    <3>1. <<e>> \in Seq(Item)
      BY <2>1
    <3>2. \A x, y \in Seq(Item) : MapSeq(IdField, x \o y) = MapSeq(IdField, x) \o MapSeq(IdField, y)
      BY <1>3, ConcatMap
    <3>. QED  BY <2>5, <2>6, <3>1, <3>2
  <2>8. MapSeq(IdField, <<e>>) = <<l>>
    BY <2>3 DEF MapSeq
  <2>9. c[n] = <<e>> \o FlattenSeq(P)
    BY <1>1 DEF Walk, P, e
  <2>10. G[n] = <<l>> \o FlattenSeq(Q)
    BY <1>7, <2>7, <2>8, <2>9
  <2>. QED  BY <2>10 DEF Walk, Q, l
<1>. QED  BY <1>8, <1>9 DEF Hashes, G, c

-----------------------------------------------------------------------------
(* No node is below itself.                                                *)
Acyclic(h) == \E rk, b : Ranked(DOMAIN h, SubsOf(h), rk, b)

(* The hashes that are computed on h: every function that is the label of  *)
(* a node and then its values at the subnodes.                             *)
LEMMA HashIs ==
  ASSUME NEW h, Shape(h), Acyclic(h), NEW H,
         \A n \in DOMAIN h : H[n] = Walk(LabelOf(h), SubsOf(h), Same(Labels), H, n)
  PROVE  \A n \in DOMAIN h : hash_node(CloneOf(h)[n]) = H[n]
<1>. DEFINE G == [n \in DOMAIN h |-> hash_node(CloneOf(h)[n])]
<1>1. PICK rk, b : Ranked(DOMAIN h, SubsOf(h), rk, b)
  BY DEF Acyclic
<1>2. Hashes(h, G)
  BY <1>1, HashOfClone
<1>3. \A n \in DOMAIN h : G[n] = hash_node(CloneOf(h)[n])
  OBVIOUS
<1>. HIDE DEF G
<1>4. \A n \in DOMAIN h : G[n] = Walk(LabelOf(h), SubsOf(h), Same(Labels), G, n)
  BY <1>2 DEF Hashes
<1>5. \A n \in DOMAIN h : G[n] = H[n]
  <2>1. /\ Walks(DOMAIN h, LabelOf(h), SubsOf(h), Same(Labels), G)
        /\ Walks(DOMAIN h, LabelOf(h), SubsOf(h), Same(Labels), H)
    BY <1>4 DEF Walks
  <2>2. IsMapping(SubsOf(h), DOMAIN h, Seq(DOMAIN h))
    BY SubsTyped
  <2>. QED  BY <1>1, <2>1, <2>2, WalkUnique
<1>. QED  BY <1>3, <1>5

(* A hash begins with the label of the node and is longer than those of    *)
(* the subnodes.                                                           *)
LEMMA HashFacts ==
  ASSUME NEW h, Shape(h), NEW H, Hashes(h, H), NEW n \in DOMAIN h
  PROVE  /\ H[n] \in Seq(Labels) /\ Len(H[n]) \in Nat /\ Len(H[n]) >= 1
         /\ H[n][1] = h[n].label
         /\ \A i \in DOMAIN h[n].subs : Len(H[h[n].subs[i]]) < Len(H[n])
<1>. DEFINE D == DOMAIN h
            subs == SubsOf(h)
            id == Same(Labels)
            lab == LabelOf(h)
            P == Parts(subs, id, H, n)
<1>1. /\ IsMapping(lab, D, Labels) /\ IsMapping(subs, D, Seq(D))
      /\ IsMapping(id, Labels, Labels) /\ IsMapping(H, D, Seq(Labels))
  BY LabelsTyped, SubsTyped DEF Hashes
<1>2. H[n] = <<lab[n]>> \o FlattenSeq(P)
  BY DEF Hashes, Walk
<1>3. lab[n] = h[n].label /\ subs[n] = h[n].subs /\ h[n].subs \in Seq(D)
  BY CellFields DEF LabelOf
<1>. HIDE DEF D, subs, id, lab
<1>4. Walkable(D, Labels, lab, subs, id, H, n)
  <2>1. n \in D
    BY DEF D
  <2>. QED  BY <1>1, <2>1, WalkFacts
<1>5. /\ P \in Seq(Seq(Labels)) /\ Len(P) = Len(subs[n])
      /\ \A i \in 1..Len(subs[n]) : /\ H[subs[n][i]] \in Seq(Labels)
                                    /\ P[i] = MapSeq(id, H[subs[n][i]])
      /\ <<lab[n]>> \in Seq(Labels) /\ Len(<<lab[n]>>) = 1 /\ <<lab[n]>>[1] = lab[n]
  BY <1>4 DEF Walkable
<1>. HIDE DEF P
<1>6. FlattenSeq(P) \in Seq(Labels) /\ \A i \in 1..Len(P) : Len(P[i]) <= Len(FlattenSeq(P))
  BY <1>5, FlattenFacts
<1>. DEFINE e == <<lab[n]>>
            w == FlattenSeq(P)
<1>7. /\ e \in Seq(Labels) /\ Len(e) = 1 /\ e[1] = lab[n]
      /\ w \in Seq(Labels) /\ \A i \in 1..Len(P) : Len(P[i]) <= Len(w)
  BY <1>5, <1>6
<1>8. H[n] = e \o w
  BY <1>2
<1>. HIDE DEF e, w
<1>9. /\ H[n] \in Seq(Labels) /\ Len(H[n]) = Len(e) + Len(w)
      /\ \A p \in 1..Len(e) : H[n][p] = e[p]
  <2>1. e \in Seq(Labels) /\ w \in Seq(Labels)
    BY <1>7
  <2>. QED  BY <1>8, <2>1, ConcatAt
<1>10. Len(w) \in Nat /\ Len(H[n]) = 1 + Len(w)
  BY <1>7, <1>9, PlacesOfSeq
<1>11. H[n][1] = h[n].label
  <2>1. 1 \in 1..Len(e)
    BY <1>7
  <2>. QED  BY <1>3, <1>7, <1>9, <2>1
<1>12. ASSUME NEW i \in DOMAIN h[n].subs  PROVE Len(H[h[n].subs[i]]) < Len(H[n])
  <2>1. i \in 1..Len(subs[n]) /\ i \in 1..Len(P)
    BY <1>3, <1>5, PlacesOfSeq
  <2>2. P[i] = H[subs[n][i]] /\ H[subs[n][i]] \in Seq(Labels)
    <3>1. H[subs[n][i]] \in Seq(Labels) /\ P[i] = MapSeq(id, H[subs[n][i]])
      BY <1>5, <2>1
    <3>. QED  BY <3>1, MapSame DEF id
  <2>3. Len(P[i]) <= Len(w) /\ Len(P[i]) \in Nat
    BY <1>7, <2>1, <2>2
  <2>. QED  BY <1>3, <1>10, <2>2, <2>3
<1>. QED  BY <1>9, <1>10, <1>11, <1>12
-----------------------------------------------------------------------------
(* What node_free() of n frees: n and what it frees of the subnodes.       *)
Freed(h, n) == Range(FreeOrder(h)[n])

(* The order in which it frees them.                                       *)
FreesBelow(h, n) ==
  /\ FreeOrder(h)[n] \in Seq(DOMAIN h)
  /\ Freed(h, n) = {n} \cup UNION {Freed(h, y) : y \in Range(h[n].subs)}
  /\ \E P \in Seq(Seq(DOMAIN h)) :
       /\ FreeOrder(h)[n] = <<n>> \o FlattenSeq(P)
       /\ Len(P) = Len(h[n].subs)
       /\ \A i \in 1..Len(P) : P[i] = FreeOrder(h)[h[n].subs[i]]

(* Without cycles, node_free() ends and frees this.                        *)
LEMMA FreedIs ==
  ASSUME NEW h, Shape(h), Acyclic(h), NEW n \in DOMAIN h
  PROVE  FreesBelow(h, n)
<1>. DEFINE D == DOMAIN h
            f == FreeOrder(h)
            id == Same(D)
            subs == SubsOf(h)
            P == Parts(subs, id, f, n)
<1>1. PICK rk, b : Ranked(DOMAIN h, SubsOf(h), rk, b)
  BY DEF Acyclic
<1>2. IsMapping(f, D, Seq(D)) /\ \A x \in D : f[x] = Walk(id, subs, id, f, x)
  BY <1>1, FreeOrderIs
<1>3. IsMapping(id, D, D) /\ IsMapping(subs, D, Seq(D)) /\ id[n] = n
  <2>1. IsMapping(id, D, D) /\ id[n] = n
    BY DEF Same, IsMapping
  <2>. QED  BY <2>1, SubsTyped
<1>4. subs[n] = h[n].subs /\ h[n].subs \in Seq(D)
  BY CellFields
<1>5. n \in D
  OBVIOUS
<1>. DEFINE s == h[n].subs
<1>. HIDE DEF D, f, id, subs, s
<1>6. Walkable(D, D, id, subs, id, f, n)
  BY <1>2, <1>3, <1>5, WalkFacts
<1>7. /\ P \in Seq(Seq(D)) /\ Len(P) = Len(s)
      /\ \A i \in 1..Len(s) : /\ f[s[i]] \in Seq(D)
                              /\ P[i] = MapSeq(id, f[s[i]])
      /\ f[n] \in Seq(D)
  BY <1>2, <1>4, <1>5, <1>6 DEF Walkable, s
<1>. HIDE DEF P
<1>8. ASSUME NEW i \in 1..Len(s)  PROVE P[i] = f[s[i]]
  <2>1. f[s[i]] \in Seq(D) /\ P[i] = MapSeq(id, f[s[i]])
    BY <1>7
  <2>. QED  BY <2>1, MapSame DEF id
<1>9. f[n] = <<n>> \o FlattenSeq(P)
  BY <1>2, <1>3, <1>5 DEF Walk, P
<1>10. FlattenSeq(P) \in Seq(D) /\ Range(FlattenSeq(P)) = UNION {Range(P[j]) : j \in 1..Len(P)}
  BY <1>7, FlattenFacts
<1>11. <<n>> \in Seq(D) /\ Range(<<n>>) = {n}
  <2>1. <<n>> \in Seq(D) /\ DOMAIN <<n>> = {1} /\ <<n>>[1] = n
    BY <1>5
  <2>. QED  BY <2>1 DEF Range
<1>12. Range(f[n]) = {n} \cup UNION {Range(P[j]) : j \in 1..Len(P)}
  <2>1. Range(<<n>> \o FlattenSeq(P)) = Range(<<n>>) \cup Range(FlattenSeq(P))
    BY <1>10, <1>11, ConcatRange
  <2>. QED  BY <1>9, <1>10, <1>11, <2>1, Zenon
<1>13. s \in Seq(D)
  BY <1>4 DEF s
<1>14. ASSUME NEW e  PROVE e \in UNION {Range(P[j]) : j \in 1..Len(P)}
                          <=> e \in UNION {Range(f[y]) : y \in Range(s)}
  <2>0. 1..Len(P) = 1..Len(s)
    BY <1>7
  <2>1. ASSUME NEW j \in 1..Len(P), e \in Range(P[j])
        PROVE  \E y \in Range(s) : e \in Range(f[y])
    <3>1. s[j] \in Range(s)
      BY <1>13, <2>0, RangeHas
    <3>. QED  BY <1>8, <2>0, <2>1, <3>1
  <2>2. ASSUME NEW y \in Range(s), e \in Range(f[y])
        PROVE  \E j \in 1..Len(P) : e \in Range(P[j])
    <3>1. PICK j \in 1..Len(s) : s[j] = y
      BY <1>13, RangeAt
    <3>. QED  BY <1>8, <2>0, <2>2, <3>1
  <2>. QED  BY <2>1, <2>2, Zenon
<1>15. Range(f[n]) = {n} \cup UNION {Range(f[y]) : y \in Range(s)}
  BY <1>12, <1>14
<1>16. \A i \in 1..Len(P) : P[i] = f[s[i]]
  BY <1>7, <1>8
<1>. QED  BY <1>7, <1>9, <1>15, <1>16 DEF FreesBelow, Freed, s, f, D

(* The nodes F are trees: their subnodes are among them and have them for  *)
(* parents.                                                                *)
TreesIn(h, F) ==
  /\ F \subseteq DOMAIN h
  /\ \A x \in F : \A y \in Range(h[x].subs) : y \in F /\ h[y].parent = x

(* node_free() of such a node stays within F, takes every subnode along,   *)
(* and reaches a node from its parent only.                                *)
FreesTree(h, F, rk, n) ==
  /\ n \in Freed(h, n) /\ Freed(h, n) \subseteq F
  /\ \A x \in Freed(h, n) : /\ Range(h[x].subs) \subseteq Freed(h, n)
                            /\ rk[x] <= rk[n]
  /\ \A x \in Freed(h, n) \ {n} :
       h[x].parent \in Freed(h, n) /\ x \in Range(h[h[x].parent].subs)

(* By induction on the rank of the node.                                   *)
LEMMA FreedTree ==
  ASSUME NEW h, Shape(h), NEW rk, NEW b, Ranked(DOMAIN h, SubsOf(h), rk, b),
         NEW F, TreesIn(h, F)
  PROVE  \A n \in F : FreesTree(h, F, rk, n)
<1>0. Acyclic(h)
  BY DEF Acyclic
<1>1. F \subseteq DOMAIN h /\ \A n \in F : rk[n] \in Nat
  BY DEF Ranked, TreesIn
<1>. DEFINE Bad == {r \in Nat : \E n \in F : rk[n] = r /\ ~ FreesTree(h, F, rk, n)}
<1>2. Bad = {}
  <2>. SUFFICES ASSUME Bad # {}  PROVE FALSE
    OBVIOUS
  <2>1. PICK r \in Bad : \A i \in Bad : r <= i
    <3>1. Bad \in SUBSET Nat
      OBVIOUS
    <3>. HIDE DEF Bad
    <3>. QED  BY <3>1, LeastElement
  <2>2. PICK n \in F : rk[n] = r /\ ~ FreesTree(h, F, rk, n)
    BY <2>1
  <2>. DEFINE K == Range(h[n].subs)
  <2>3. ASSUME NEW y \in K
        PROVE  /\ y \in F /\ h[y].parent = n /\ rk[y] < rk[n] /\ rk[y] \in Nat
               /\ FreesTree(h, F, rk, y)
    <3>1. y \in F /\ h[y].parent = n
      BY DEF TreesIn
    <3>2. h[n].subs \in Seq(DOMAIN h) /\ SubsOf(h)[n] = h[n].subs
      BY <1>1, CellFields
    <3>3. PICK i \in 1..Len(h[n].subs) : h[n].subs[i] = y
      BY <3>2, RangeAt
    <3>4. i \in DOMAIN SubsOf(h)[n]
      BY <3>2, PlacesOfSeq
    <3>5. rk[y] < rk[n]
      BY <1>1, <3>2, <3>3, <3>4 DEF Ranked
    <3>6. rk[y] \in Nat /\ rk[y] \notin Bad
      BY <1>1, <2>1, <2>2, <3>1, <3>5
    <3>. QED  BY <3>1, <3>5, <3>6
  <2>4. Freed(h, n) = {n} \cup UNION {Freed(h, y) : y \in K}
    <3>1. FreesBelow(h, n)
      BY <1>0, <1>1, FreedIs
    <3>. QED  BY <3>1 DEF FreesBelow
  <2>5. rk[n] \in Nat /\ \A x \in F : rk[x] \in Nat
    BY <1>1
  <2>. HIDE DEF K
  <2>6. K \subseteq Freed(h, n)
    BY <2>3, <2>4 DEF FreesTree
  <2>7. n \in Freed(h, n) /\ Freed(h, n) \subseteq F
    BY <2>3, <2>4 DEF FreesTree
  <2>8. ASSUME NEW x \in Freed(h, n)
        PROVE  Range(h[x].subs) \subseteq Freed(h, n) /\ rk[x] <= rk[n]
    <3>1. CASE x = n
      BY <2>5, <2>6, <3>1 DEF K
    <3>2. CASE x # n
      <4>1. PICK y \in K : x \in Freed(h, y)
        BY <2>4, <3>2
      <4>2. Range(h[x].subs) \subseteq Freed(h, y) /\ rk[x] <= rk[y]
        BY <2>3, <4>1 DEF FreesTree
      <4>3. Freed(h, y) \subseteq Freed(h, n)
        BY <2>4
      <4>4. rk[x] <= rk[n]
        BY <2>3, <2>5, <2>7, <4>2
      <4>. QED  BY <4>2, <4>3, <4>4
    <3>. QED  BY <3>1, <3>2
  <2>9. ASSUME NEW x \in Freed(h, n) \ {n}
        PROVE  h[x].parent \in Freed(h, n) /\ x \in Range(h[h[x].parent].subs)
    <3>1. PICK y \in K : x \in Freed(h, y)
      BY <2>4
    <3>2. Freed(h, y) \subseteq Freed(h, n)
      BY <2>4
    <3>3. CASE x = y
      BY <2>3, <2>7, <3>3 DEF K
    <3>4. CASE x # y
      BY <2>3, <3>1, <3>2, <3>4 DEF FreesTree
    <3>. QED  BY <3>3, <3>4
  <2>10. FreesTree(h, F, rk, n)
    BY <2>7, <2>8, <2>9 DEF FreesTree
  <2>. QED  BY <2>2, <2>10
<1>. QED  BY <1>1, <1>2

(* A set of nodes of bounded rank has one of the highest rank.             *)
LEMMA HighestNode ==
  ASSUME NEW F, NEW rk, NEW b \in Nat, F # {}, \A x \in F : rk[x] \in Nat /\ rk[x] <= b
  PROVE  \E x \in F : \A y \in F : rk[y] <= rk[x]
<1>. DEFINE R == {r \in Nat : \E x \in F : r = b - rk[x]}
<1>1. PICK z \in F : TRUE
  OBVIOUS
<1>2. R # {}
  <2>1. b - rk[z] \in Nat
    OBVIOUS
  <2>. QED  BY <2>1
<1>3. PICK r \in R : \A i \in R : r <= i
  <2>1. R \in SUBSET Nat
    OBVIOUS
  <2>. HIDE DEF R
  <2>. QED  BY <1>2, <2>1, LeastElement
<1>4. PICK x \in F : r = b - rk[x]
  BY <1>3
<1>5. ASSUME NEW y \in F  PROVE rk[y] <= rk[x]
  <2>1. b - rk[y] \in R
    OBVIOUS
  <2>2. r <= b - rk[y]
    BY <1>3, <2>1
  <2>. QED  BY <1>4, <2>2
<1>. QED  BY <1>5

(* Two trees of F have no common node, unless one is in the other.         *)
LEMMA FreedDisjoint ==
  ASSUME NEW h, Shape(h), NEW rk, NEW b, Ranked(DOMAIN h, SubsOf(h), rk, b),
         NEW F, TreesIn(h, F), NEW s \in F, NEW t \in F, s # t,
         h[s].parent \notin Freed(h, t), h[t].parent \notin Freed(h, s)
  PROVE  Freed(h, s) \cap Freed(h, t) = {}
<1>. DEFINE B == Freed(h, s) \cap Freed(h, t)
<1>. SUFFICES ASSUME B # {}  PROVE FALSE
  OBVIOUS
<1>1. FreesTree(h, F, rk, s) /\ FreesTree(h, F, rk, t)
  BY FreedTree
<1>2. /\ B \subseteq F /\ F \subseteq DOMAIN h
      /\ \A x \in DOMAIN h : rk[x] \in Nat /\ rk[x] <= b
      /\ b \in Nat
  BY <1>1 DEF FreesTree, TreesIn, Ranked
<1>3. PICK x \in B : \A y \in B : rk[y] <= rk[x]
  <2>1. \A x \in B : rk[x] \in Nat /\ rk[x] <= b
    BY <1>2
  <2>. HIDE DEF B
  <2>. QED  BY <1>2, <2>1, HighestNode
<1>4. x # s /\ x # t
  BY <1>1, <1>3 DEF FreesTree
<1>. DEFINE p == h[x].parent
<1>5. p \in B /\ x \in Range(h[p].subs)
  BY <1>1, <1>3, <1>4 DEF FreesTree
<1>6. rk[x] < rk[p]
  <2>1. p \in DOMAIN h
    BY <1>2, <1>5
  <2>2. h[p].subs \in Seq(DOMAIN h) /\ SubsOf(h)[p] = h[p].subs
    BY <2>1, CellFields
  <2>3. PICK i \in 1..Len(h[p].subs) : h[p].subs[i] = x
    BY <1>5, <2>2, RangeAt
  <2>4. i \in DOMAIN SubsOf(h)[p]
    BY <2>2, PlacesOfSeq
  <2>. QED  BY <2>1, <2>2, <2>3, <2>4 DEF Ranked
<1>7. rk[p] <= rk[x] /\ rk[p] \in Nat /\ rk[x] \in Nat
  BY <1>2, <1>3, <1>5
<1>. QED  BY <1>6, <1>7

(* node_free() visits a node of such a tree once.                          *)
LEMMA FreedOnce ==
  ASSUME NEW h, Shape(h), NEW rk, NEW b, Ranked(DOMAIN h, SubsOf(h), rk, b),
         NEW F, TreesIn(h, F), \A x \in F : IsInjective(h[x].subs)
  PROVE  \A n \in F : IsInjective(FreeOrder(h)[n])
<1>0. Acyclic(h)
  BY DEF Acyclic
<1>1. F \subseteq DOMAIN h /\ \A n \in F : rk[n] \in Nat /\ FreesTree(h, F, rk, n)
  <2>1. F \subseteq DOMAIN h /\ \A n \in F : rk[n] \in Nat
    BY DEF Ranked, TreesIn
  <2>. QED  BY <2>1, FreedTree
<1>. DEFINE Bad == {r \in Nat : \E n \in F : rk[n] = r /\ ~ IsInjective(FreeOrder(h)[n])}
<1>2. Bad = {}
  <2>. SUFFICES ASSUME Bad # {}  PROVE FALSE
    OBVIOUS
  <2>1. PICK r \in Bad : \A i \in Bad : r <= i
    <3>1. Bad \in SUBSET Nat
      OBVIOUS
    <3>. HIDE DEF Bad
    <3>. QED  BY <3>1, LeastElement
  <2>2. PICK n \in F : rk[n] = r /\ ~ IsInjective(FreeOrder(h)[n])
    BY <2>1
  <2>. DEFINE D == DOMAIN h
              s == h[n].subs
  <2>3. s \in Seq(D) /\ SubsOf(h)[n] = s /\ n \in D
    BY <1>1, CellFields
  <2>4. PICK P \in Seq(Seq(D)) : /\ FreeOrder(h)[n] = <<n>> \o FlattenSeq(P)
                                 /\ Len(P) = Len(s)
                                 /\ \A i \in 1..Len(P) : P[i] = FreeOrder(h)[s[i]]
    <3>1. FreesBelow(h, n)
      BY <1>0, <2>3, FreedIs
    <3>. QED  BY <3>1 DEF FreesBelow
  <2>5. ASSUME NEW i \in 1..Len(P)
        PROVE  /\ s[i] \in F /\ h[s[i]].parent = n /\ n \notin Freed(h, s[i])
               /\ Range(P[i]) = Freed(h, s[i]) /\ IsInjective(P[i])
    <3>1. i \in DOMAIN s /\ i \in 1..Len(s)
      BY <2>3, <2>4, PlacesOfSeq
    <3>2. s[i] \in F /\ h[s[i]].parent = n
      <4>1. s[i] \in Range(s)
        BY <2>3, <3>1, RangeHas
      <4>. QED  BY <4>1 DEF TreesIn
    <3>3. rk[s[i]] < rk[n]
      BY <2>3, <3>1 DEF Ranked
    <3>. DEFINE d == s[i]
    <3>4. rk[d] < rk[n] /\ rk[d] \in Nat /\ rk[n] \in Nat /\ d \in F
      BY <1>1, <3>2, <3>3
    <3>5. IsInjective(FreeOrder(h)[d])
      <4>. HIDE DEF d
      <4>1. rk[d] \notin Bad
        BY <2>1, <2>2, <3>4
      <4>. QED  BY <3>4, <4>1
    <3>6. n \notin Freed(h, d)
      <4>. HIDE DEF d
      <4>1. FreesTree(h, F, rk, d)
        BY <1>1, <3>4
      <4>. QED  BY <3>4, <4>1 DEF FreesTree
    <3>. QED  BY <2>4, <3>2, <3>5, <3>6 DEF Freed
  <2>6. ASSUME NEW i \in 1..Len(P), NEW j \in 1..Len(P), i # j
        PROVE  Range(P[i]) \cap Range(P[j]) = {}
    <3>1. s[i] # s[j]
      <4>1. IsInjective(s) /\ i \in DOMAIN s /\ j \in DOMAIN s
        BY <2>3, <2>4, PlacesOfSeq
      <4>. QED  BY <2>6, <4>1 DEF IsInjective
    <3>. HIDE DEF s
    <3>2. Freed(h, s[i]) \cap Freed(h, s[j]) = {}
      BY <2>5, <3>1, FreedDisjoint, ZenonT(40)
    <3>. QED  BY <2>5, <3>2
  <2>. DEFINE w == FlattenSeq(P)
              e == <<n>>
  <2>7. IsInjective(w)
    BY <2>5, <2>6, FlattenInjective
  <2>8. w \in Seq(D) /\ Range(w) = UNION {Range(P[j]) : j \in 1..Len(P)}
    BY <2>4, FlattenFacts
  <2>9. n \notin Range(w)
    BY <2>5, <2>8
  <2>10. e \in Seq(D) /\ Range(e) = {n} /\ IsInjective(e)
    <3>1. e \in Seq(D) /\ DOMAIN e = {1} /\ e[1] = n
      BY <2>3
    <3>. QED  BY <3>1 DEF Range, IsInjective
  <2>11. Range(e) \cap Range(w) = {}
    BY <2>9, <2>10
  <2>. HIDE DEF e, w, D
  <2>12. IsInjective(e \o w)
    <3>1. e \in Seq(D) /\ w \in Seq(D)
      BY <2>8, <2>10
    <3>. QED  BY <2>7, <2>10, <2>11, <3>1, ConcatInjective
  <2>. QED  BY <2>2, <2>4, <2>12 DEF e, w
<1>. QED  BY <1>1, <1>2

-----------------------------------------------------------------------------
(* Who owns the nodes.  st are the stored ones, the others are new; pend   *)
(* are the nodes still to be taken.                                        *)
Own(h, st, pend) ==
  LET fresh == DOMAIN h \ st IN
  /\ st \subseteq DOMAIN h
  /\ \A x \in fresh : /\ IsInjective(h[x].subs)
                      /\ \A y \in Range(h[x].subs) : y \in fresh /\ h[y].parent = x
  /\ pend \in Seq(fresh) /\ IsInjective(pend)
  /\ \A y \in Range(pend) : /\ h[y].parent \notin fresh
                            /\ h[y].parent # NULL => y \in Range(h[h[y].parent].subs)
  /\ \A x \in fresh \ Range(pend) :
       h[x].parent \in fresh /\ x \in Range(h[h[x].parent].subs)
  /\ \A x \in st :
       /\ h[x].parent \in st \cup {NULL}
       /\ \A i \in DOMAIN h[x].subs :
            \/ h[x].subs[i] \in st
            \/ /\ h[x].subs[i] \in Range(pend) /\ h[h[x].subs[i]].parent = x
               /\ \A j \in DOMAIN h[x].subs : h[x].subs[j] = h[x].subs[i] => j = i

(* The lists hold the stored nodes, each once, by their ids.               *)
Lists(h, st, c) ==
  /\ IsFiniteSet(DOMAIN c)
  /\ \A id \in DOMAIN c : /\ c[id] \in Seq(st) /\ IsInjective(c[id])
                          /\ \A n \in Range(c[id]) : IdOf[h[n].label] = id
  /\ \A n \in st : \E id \in DOMAIN c : n \in Range(c[id])

(* The hash map has every stored node under its hash.                      *)
Seen(h, sn) == \A k \in DOMAIN sn : sn[k] \in DOMAIN h /\ hash_node(CloneOf(h)[sn[k]]) = k

(* The inductive invariant of the store.                                   *)
IInv == /\ Shape(heap) /\ Acyclic(heap)
        /\ Own(heap, Range(seen), pending)
        /\ Lists(heap, Range(seen), chunks)
        /\ Seen(heap, seen)

-----------------------------------------------------------------------------
(* The new nodes are trees, whose roots are the nodes still to be taken.   *)
LEMMA NewTrees ==
  ASSUME NEW h, Shape(h), NEW rk, NEW b, Ranked(DOMAIN h, SubsOf(h), rk, b),
         NEW st, NEW pend, Own(h, st, pend)
  PROVE  LET F == DOMAIN h \ st IN
         /\ TreesIn(h, F) /\ \A x \in F : IsInjective(h[x].subs)
         /\ \A i \in 1..Len(pend) : /\ pend[i] \in F
                                    /\ FreesTree(h, F, rk, pend[i])
                                    /\ FreeOrder(h)[pend[i]] \in Seq(DOMAIN h)
                                    /\ IsInjective(FreeOrder(h)[pend[i]])
         /\ \A i, j \in 1..Len(pend) :
              i # j => Freed(h, pend[i]) \cap Freed(h, pend[j]) = {}
         /\ \A x \in F : \E i \in 1..Len(pend) : x \in Freed(h, pend[i])
<1>. DEFINE F == DOMAIN h \ st
<1>0. Acyclic(h)
  BY DEF Acyclic
<1>1. TreesIn(h, F) /\ \A x \in F : IsInjective(h[x].subs)
  BY DEF Own, TreesIn
<1>2. pend \in Seq(F) /\ IsInjective(pend) /\ \A y \in Range(pend) : h[y].parent \notin F
  BY DEF Own
<1>3. \A x \in F \ Range(pend) : h[x].parent \in F /\ x \in Range(h[h[x].parent].subs)
  BY DEF Own
<1>4. F \subseteq DOMAIN h
  OBVIOUS
<1>. HIDE DEF F
<1>5. ASSUME NEW i \in 1..Len(pend)
      PROVE  /\ pend[i] \in F /\ pend[i] \in Range(pend)
             /\ FreesTree(h, F, rk, pend[i])
             /\ FreeOrder(h)[pend[i]] \in Seq(DOMAIN h)
             /\ IsInjective(FreeOrder(h)[pend[i]])
  <2>1. pend[i] \in F /\ pend[i] \in Range(pend)
    BY <1>2, PlacesOfSeq, RangeHas
  <2>2. FreesTree(h, F, rk, pend[i])
    BY <1>1, <2>1, FreedTree
  <2>3. FreeOrder(h)[pend[i]] \in Seq(DOMAIN h)
    <3>1. FreesBelow(h, pend[i])
      BY <1>0, <1>4, <2>1, FreedIs
    <3>. QED  BY <3>1 DEF FreesBelow
  <2>4. IsInjective(FreeOrder(h)[pend[i]])
    BY <1>1, <2>1, FreedOnce
  <2>. QED  BY <2>1, <2>2, <2>3, <2>4
<1>6. ASSUME NEW i \in 1..Len(pend), NEW j \in 1..Len(pend), i # j
      PROVE  Freed(h, pend[i]) \cap Freed(h, pend[j]) = {}
  <2>1. pend[i] # pend[j]
    <3>1. i \in DOMAIN pend /\ j \in DOMAIN pend
      BY <1>2, PlacesOfSeq
    <3>. QED  BY <1>2, <1>6, <3>1 DEF IsInjective
  <2>2. h[pend[i]].parent \notin Freed(h, pend[j]) /\ h[pend[j]].parent \notin Freed(h, pend[i])
    BY <1>2, <1>5 DEF FreesTree
  <2>. DEFINE s == pend[i]
              t == pend[j]
  <2>3. /\ s \in F /\ t \in F /\ s # t
        /\ h[s].parent \notin Freed(h, t) /\ h[t].parent \notin Freed(h, s)
    BY <1>5, <2>1, <2>2
  <2>. HIDE DEF s, t
  <2>4. Freed(h, s) \cap Freed(h, t) = {}
    BY <1>1, <2>3, FreedDisjoint
  <2>. QED  BY <2>4 DEF s, t
<1>. DEFINE Lost == {x \in F : ~ \E i \in 1..Len(pend) : x \in Freed(h, pend[i])}
<1>7. Lost = {}
  <2>. SUFFICES ASSUME Lost # {}  PROVE FALSE
    OBVIOUS
  <2>1. b \in Nat /\ \A x \in DOMAIN h : rk[x] \in Nat /\ rk[x] <= b
    BY DEF Ranked
  <2>2. \A x \in Lost : x \in DOMAIN h /\ rk[x] \in Nat /\ rk[x] <= b
    BY <1>4, <2>1
  <2>3. PICK x \in Lost : \A y \in Lost : rk[y] <= rk[x]
    <3>. HIDE DEF Lost
    <3>. QED  BY <2>1, <2>2, HighestNode
  <2>4. x \notin Range(pend)
    <3>. SUFFICES ASSUME x \in Range(pend)  PROVE FALSE
      OBVIOUS
    <3>1. PICK i \in 1..Len(pend) : pend[i] = x
      BY <1>2, RangeAt
    <3>2. x \in Freed(h, pend[i])
      BY <1>5, <3>1 DEF FreesTree
    <3>. QED  BY <2>3, <3>2
  <2>. DEFINE p == h[x].parent
  <2>5. p \in F /\ x \in Range(h[p].subs)
    BY <1>3, <2>3, <2>4
  <2>6. p \notin Lost
    <3>1. p \in DOMAIN h
      BY <1>4, <2>5
    <3>2. h[p].subs \in Seq(DOMAIN h) /\ SubsOf(h)[p] = h[p].subs
      BY <3>1, CellFields
    <3>3. PICK i \in 1..Len(h[p].subs) : h[p].subs[i] = x
      BY <2>5, <3>2, RangeAt
    <3>4. i \in DOMAIN SubsOf(h)[p]
      BY <3>2, PlacesOfSeq
    <3>5. rk[x] < rk[p]
      BY <3>1, <3>2, <3>3, <3>4 DEF Ranked
    <3>6. rk[x] \in Nat /\ rk[p] \in Nat /\ ~ (rk[p] <= rk[x])
      BY <2>1, <2>2, <2>3, <3>1, <3>5
    <3>. QED  BY <2>3, <3>6
  <2>7. PICK i \in 1..Len(pend) : p \in Freed(h, pend[i])
    BY <2>5, <2>6
  <2>8. x \in Freed(h, pend[i])
    BY <1>5, <2>5, <2>7 DEF FreesTree
  <2>. QED  BY <2>3, <2>8
<1>8. \A x \in F : \E i \in 1..Len(pend) : x \in Freed(h, pend[i])
  BY <1>7
<1>. QED  BY <1>1, <1>5, <1>6, <1>8 DEF F

(* SetToSeq() of a finite set lists it, each element once.                 *)
LEMMA SetListed ==
  ASSUME NEW L, IsFiniteSet(L)
  PROVE  /\ SetToSeq(L) \in Seq(L) /\ IsInjective(SetToSeq(L))
         /\ Range(SetToSeq(L)) = L
<1>. DEFINE n == Cardinality(L)
            q == SetToSeq(L)
<1>1. n \in Nat /\ ExistsBijection(1..n, L)
  BY FS_CardinalityType
<1>2. PICK f : f \in Bijection(1..n, L)
  BY <1>1 DEF ExistsBijection
<1>3. f \in [1..n -> L] /\ IsInjective(f)
  <2>. HIDE DEF n
  <2>. QED  BY <1>2 DEF Bijection, Injection
<1>4. q \in [1..n -> L] /\ IsInjective(q)
  BY <1>3 DEF SetToSeq
<1>. HIDE DEF q
<1>5. q \in Injection(1..n, L)
  BY <1>4 DEF Injection
<1>6. Cardinality(1..n) = Cardinality(L) /\ IsFiniteSet(1..n)
  BY <1>1, FS_Interval
<1>7. q \in Surjection(1..n, L)
  BY <1>5, <1>6, FS_Injection
<1>8. Range(q) = L
  <2>1. q \in [1..n -> L] /\ \A e \in L : \E i \in 1..n : q[i] = e
    BY <1>7 DEF Surjection
  <2>2. DOMAIN q = 1..n /\ \A i \in 1..n : q[i] \in L
    BY <2>1
  <2>. QED  BY <2>1, <2>2, Zenon DEF Range
<1>9. q \in Seq(L)
  BY <1>1, <1>4
<1>. QED  BY <1>4, <1>8, <1>9 DEF q

-----------------------------------------------------------------------------
(* The nodes of all lists, one list after the other.                       *)
LEMMA ListedNodes ==
  ASSUME NEW h, NEW st, NEW c, Lists(h, st, c)
  PROVE  LET A == FlattenSeq(SetToSeq({c[id] : id \in DOMAIN c})) IN
         A \in Seq(st) /\ IsInjective(A) /\ Range(A) = st
<1>. DEFINE L == {c[id] : id \in DOMAIN c}
            f == [id \in DOMAIN c |-> c[id]]
            q == SetToSeq(L)
<1>1. /\ IsFiniteSet(DOMAIN c)
      /\ \A id \in DOMAIN c : /\ c[id] \in Seq(st) /\ IsInjective(c[id])
                              /\ \A n \in Range(c[id]) : IdOf[h[n].label] = id
      /\ \A n \in st : \E id \in DOMAIN c : n \in Range(c[id])
  BY DEF Lists
<1>2. IsFiniteSet(L)
  <2>1. f \in [DOMAIN c -> L] /\ \A l \in L : \E id \in DOMAIN c : f[id] = l
    OBVIOUS
  <2>. HIDE DEF f, L
  <2>2. f \in Surjection(DOMAIN c, L)
    BY <2>1 DEF Surjection
  <2>. QED  BY <1>1, <2>2, FS_Surjection
<1>3. \A l \in L : \E id \in DOMAIN c : l = c[id]
  OBVIOUS
<1>4. \A id \in DOMAIN c : c[id] \in L
  OBVIOUS
<1>. HIDE DEF L
<1>5. q \in Seq(L) /\ IsInjective(q) /\ Range(q) = L
  BY <1>2, SetListed
<1>. HIDE DEF q
<1>6. DOMAIN q = 1..Len(q) /\ Len(q) \in Nat
  BY <1>5, PlacesOfSeq
<1>7. ASSUME NEW i \in 1..Len(q)  PROVE q[i] \in L /\ q[i] \in Seq(st) /\ IsInjective(q[i])
  <2>1. q[i] \in L
    BY <1>5, PlacesOfSeq
  <2>. QED  BY <1>1, <1>3, <2>1
<1>8. q \in Seq(Seq(st))
  <2>1. q = [i \in 1..Len(q) |-> q[i]]
    BY <1>5, <1>6
  <2>2. q \in [1..Len(q) -> Seq(st)]
    BY <1>7, <2>1
  <2>. QED  BY <1>6, <2>2
<1>9. ASSUME NEW i \in 1..Len(q), NEW j \in 1..Len(q), i # j
      PROVE  Range(q[i]) \cap Range(q[j]) = {}
  <2>1. q[i] # q[j]
    BY <1>5, <1>6, <1>9 DEF IsInjective
  <2>2. PICK a \in DOMAIN c : q[i] = c[a]
    BY <1>3, <1>7
  <2>3. PICK d \in DOMAIN c : q[j] = c[d]
    BY <1>3, <1>7
  <2>4. a # d
    BY <2>1, <2>2, <2>3
  <2>. QED  BY <1>1, <2>2, <2>3, <2>4
<1>10. IsInjective(FlattenSeq(q))
  BY <1>7, <1>8, <1>9, FlattenInjective
<1>11. /\ FlattenSeq(q) \in Seq(st)
       /\ Range(FlattenSeq(q)) = UNION {Range(q[j]) : j \in 1..Len(q)}
  BY <1>8, FlattenFacts
<1>12. ASSUME NEW n \in st  PROVE n \in Range(FlattenSeq(q))
  <2>1. PICK id \in DOMAIN c : n \in Range(c[id])
    BY <1>1
  <2>2. c[id] \in Range(q)
    BY <1>4, <1>5
  <2>3. PICK j \in 1..Len(q) : q[j] = c[id]
    BY <1>5, <2>2, RangeAt
  <2>. QED  BY <1>11, <2>1, <2>3
<1>13. ASSUME NEW n \in Range(FlattenSeq(q))  PROVE n \in st
  <2>1. PICK k \in 1..Len(FlattenSeq(q)) : FlattenSeq(q)[k] = n
    BY <1>11, RangeAt
  <2>. QED  BY <1>11, <2>1, PlacesOfSeq
<1>14. Range(FlattenSeq(q)) = st
  BY <1>12, <1>13
<1>. QED  BY <1>10, <1>11, <1>14 DEF q, L

(* Every live node has one owner.                                          *)
LEMMA InvOwnedOnce == IInv => OwnedOnce
<1>. SUFFICES ASSUME IInv  PROVE OwnedOnce
  OBVIOUS
<1>. DEFINE st == Range(seen)
            D == DOMAIN heap
            F == D \ st
            A == FlattenSeq(SetToSeq({chunks[id] : id \in DOMAIN chunks}))
            W == [i \in DOMAIN pending |-> FreeOrder(heap)[pending[i]]]
            B == FlattenSeq(W)
<1>1. /\ Shape(heap) /\ Acyclic(heap) /\ Own(heap, st, pending)
      /\ Lists(heap, st, chunks)
  BY DEF IInv
<1>2. PICK rk, b : Ranked(D, SubsOf(heap), rk, b)
  BY <1>1 DEF Acyclic
<1>3. st \subseteq D /\ pending \in Seq(F)
  BY <1>1 DEF Own
<1>4. A \in Seq(st) /\ IsInjective(A) /\ Range(A) = st
  BY <1>1, ListedNodes
<1>5. /\ \A i \in 1..Len(pending) : /\ FreesTree(heap, F, rk, pending[i])
                                    /\ FreeOrder(heap)[pending[i]] \in Seq(D)
                                    /\ IsInjective(FreeOrder(heap)[pending[i]])
      /\ \A i, j \in 1..Len(pending) :
           i # j => Freed(heap, pending[i]) \cap Freed(heap, pending[j]) = {}
      /\ \A x \in F : \E i \in 1..Len(pending) : x \in Freed(heap, pending[i])
  BY <1>1, <1>2, NewTrees
<1>6. Len(pending) \in Nat /\ DOMAIN pending = 1..Len(pending)
  BY <1>3, PlacesOfSeq
<1>. HIDE DEF F, st, D
<1>7. W = [i \in 1..Len(pending) |-> FreeOrder(heap)[pending[i]]]
  BY <1>6
<1>. HIDE DEF W, A
<1>8. /\ W \in Seq(Seq(D)) /\ Len(W) = Len(pending)
      /\ \A i \in 1..Len(pending) : W[i] = FreeOrder(heap)[pending[i]]
  <2>1. W \in [1..Len(pending) -> Seq(D)]
    BY <1>5, <1>7
  <2>2. W \in Seq(Seq(D)) /\ Len(W) = Len(pending)
    BY <1>6, <2>1
  <2>3. \A i \in 1..Len(pending) : W[i] = FreeOrder(heap)[pending[i]]
    BY <1>7
  <2>. QED  BY <2>2, <2>3
<1>9. ASSUME NEW i \in 1..Len(W)
      PROVE  IsInjective(W[i]) /\ Range(W[i]) = Freed(heap, pending[i])
  BY <1>5, <1>8 DEF Freed
<1>10. ASSUME NEW i \in 1..Len(W), NEW j \in 1..Len(W), i # j
       PROVE  Range(W[i]) \cap Range(W[j]) = {}
  <2>1. i \in 1..Len(pending) /\ j \in 1..Len(pending)
    BY <1>8
  <2>2. Freed(heap, pending[i]) \cap Freed(heap, pending[j]) = {}
    BY <1>5, <1>10, <2>1
  <2>. QED  BY <1>9, <2>2
<1>11. IsInjective(B)
  BY <1>8, <1>9, <1>10, FlattenInjective
<1>12. B \in Seq(D) /\ Range(B) = UNION {Range(W[j]) : j \in 1..Len(W)}
  BY <1>8, FlattenFacts
<1>13. Range(B) = F
  <2>1. \A j \in 1..Len(W) : Range(W[j]) \subseteq F
    BY <1>5, <1>8, <1>9 DEF FreesTree
  <2>2. \A x \in F : \E j \in 1..Len(W) : x \in Range(W[j])
    BY <1>5, <1>8, <1>9
  <2>. QED  BY <1>12, <2>1, <2>2
<1>. HIDE DEF B
<1>14. A \in Seq(D)
  <2>1. \A k \in 1..Len(A) : A[k] \in D
    BY <1>3, <1>4, PlacesOfSeq
  <2>2. A = [k \in 1..Len(A) |-> A[k]] /\ Len(A) \in Nat
    BY <1>4, PlacesOfSeq
  <2>3. A \in [1..Len(A) -> D]
    BY <2>1, <2>2
  <2>. QED  BY <2>2, <2>3
<1>15. Range(A) \cap Range(B) = {}
  BY <1>4, <1>13 DEF F
<1>16. IsInjective(A \o B) /\ Range(A \o B) = Range(A) \cup Range(B)
  BY <1>4, <1>11, <1>12, <1>14, <1>15, ConcatInjective, ConcatRange
<1>17. Range(A \o B) = D
  BY <1>3, <1>4, <1>13, <1>16 DEF F
<1>18. Owned = A \o B
  BY DEF Owned, A, B, W
<1>. QED  BY <1>16, <1>17, <1>18 DEF OwnedOnce, D

(* No pointer of the store leads to a freed node.                          *)
LEMMA InvNoDangling == IInv => NoDangling
<1>. SUFFICES ASSUME IInv  PROVE NoDangling
  OBVIOUS
<1>. DEFINE st == Range(seen)
<1>1. /\ Shape(heap) /\ Own(heap, st, pending) /\ Lists(heap, st, chunks)
  BY DEF IInv
<1>2. st \subseteq DOMAIN heap /\ pending \in Seq(DOMAIN heap \ st)
  BY <1>1 DEF Own
<1>. HIDE DEF st
<1>3. ASSUME NEW n \in DOMAIN heap
      PROVE  /\ Range(heap[n].subs) \subseteq DOMAIN heap
             /\ heap[n].parent \in DOMAIN heap \cup {NULL}
  <2>1. heap[n].subs \in Seq(DOMAIN heap) /\ heap[n].parent \in DOMAIN heap \cup {NULL}
    BY <1>1, CellFields
  <2>2. ASSUME NEW e \in Range(heap[n].subs)  PROVE e \in DOMAIN heap
    BY <2>1, RangeAt, PlacesOfSeq
  <2>. QED  BY <2>1, <2>2
<1>4. ASSUME NEW id \in DOMAIN chunks, NEW e \in Range(chunks[id])  PROVE e \in DOMAIN heap
  <2>1. chunks[id] \in Seq(st)
    BY <1>1 DEF Lists
  <2>. QED  BY <1>2, <2>1, RangeAt, PlacesOfSeq
<1>5. ASSUME NEW e \in Range(pending)  PROVE e \in DOMAIN heap
  BY <1>2, RangeAt, PlacesOfSeq
<1>. QED  BY <1>2, <1>3, <1>4, <1>5 DEF NoDangling, st

-----------------------------------------------------------------------------
(* The first node to be taken, and the others.                             *)
LEMMA FirstPending ==
  ASSUME NEW S, NEW pend \in Seq(S), pend # <<>>, IsInjective(pend)
  PROVE  /\ Head(pend) \in S /\ Head(pend) \in Range(pend)
         /\ Tail(pend) \in Seq(S) /\ IsInjective(Tail(pend))
         /\ Range(Tail(pend)) = Range(pend) \ {Head(pend)}
<1>. DEFINE n == Head(pend)
            t == Tail(pend)
<1>1. n \in S /\ n = pend[1] /\ 1 \in 1..Len(pend) /\ Len(pend) \in Nat
  OBVIOUS
<1>2. /\ t \in Seq(S) /\ Len(t) = Len(pend) - 1
      /\ \A k \in 1..Len(t) : t[k] = pend[k + 1]
  BY HeadTailProperties
<1>. HIDE DEF n, t
<1>3. n \in Range(pend)
  BY <1>1, RangeHas
<1>4. DOMAIN pend = 1..Len(pend) /\ DOMAIN t = 1..Len(t) /\ Len(t) \in Nat
  BY <1>2, PlacesOfSeq
<1>5. \A k \in 1..Len(t) : k + 1 \in 1..Len(pend) /\ k + 1 # 1
  BY <1>1, <1>2, <1>4
<1>6. IsInjective(t)
  <2>. SUFFICES ASSUME NEW a \in 1..Len(t), NEW b \in 1..Len(t), t[a] = t[b]  PROVE a = b
    BY <1>4 DEF IsInjective
  <2>1. pend[a + 1] = pend[b + 1]
    BY <1>2
  <2>2. a + 1 = b + 1
    BY <1>4, <1>5, <2>1 DEF IsInjective
  <2>. QED  BY <1>4, <2>2
<1>7. ASSUME NEW e \in Range(t)  PROVE e \in Range(pend) /\ e # n
  <2>1. PICK k \in 1..Len(t) : t[k] = e
    BY <1>2, RangeAt
  <2>2. e = pend[k + 1] /\ k + 1 \in 1..Len(pend) /\ k + 1 # 1
    BY <1>2, <1>5, <2>1
  <2>3. e \in Range(pend)
    BY <2>2, RangeHas
  <2>4. e # n
    BY <1>1, <1>4, <2>2 DEF IsInjective
  <2>. QED  BY <2>3, <2>4
<1>8. ASSUME NEW e \in Range(pend), e # n  PROVE e \in Range(t)
  <2>1. PICK k \in 1..Len(pend) : pend[k] = e
    BY RangeAt
  <2>2. k # 1
    BY <1>1, <1>8, <2>1
  <2>3. k - 1 \in 1..Len(t) /\ (k - 1) + 1 = k
    BY <1>1, <1>2, <2>2
  <2>4. t[k - 1] = e
    BY <1>2, <2>1, <2>3
  <2>. QED  BY <1>2, <2>3, <2>4, RangeHas
<1>9. Range(t) = Range(pend) \ {n}
  BY <1>7, <1>8
<1>. QED  BY <1>1, <1>2, <1>3, <1>6, <1>9 DEF n, t

(* A new node is kept: its subnodes are to be taken next.                  *)
LEMMA OwnKept ==
  ASSUME NEW h, Shape(h), NEW st, NEW pend, Own(h, st, pend), pend # <<>>
  PROVE  Own(h, st \cup {Head(pend)}, h[Head(pend)].subs \o Tail(pend))
<1>. DEFINE n == Head(pend)
            t == Tail(pend)
            F == DOMAIN h \ st
            G == DOMAIN h \ (st \cup {n})
            s == h[n].subs
            q == s \o t
<1>1. /\ st \subseteq DOMAIN h
      /\ \A x \in F : /\ IsInjective(h[x].subs)
                      /\ \A y \in Range(h[x].subs) : y \in F /\ h[y].parent = x
      /\ pend \in Seq(F) /\ IsInjective(pend)
      /\ \A y \in Range(pend) : /\ h[y].parent \notin F
                                /\ h[y].parent # NULL => y \in Range(h[h[y].parent].subs)
      /\ \A x \in F \ Range(pend) : h[x].parent \in F /\ x \in Range(h[h[x].parent].subs)
      /\ \A x \in st :
           /\ h[x].parent \in st \cup {NULL}
           /\ \A i \in DOMAIN h[x].subs :
                \/ h[x].subs[i] \in st
                \/ /\ h[x].subs[i] \in Range(pend) /\ h[h[x].subs[i]].parent = x
                   /\ \A j \in DOMAIN h[x].subs : h[x].subs[j] = h[x].subs[i] => j = i
  BY DEF Own
<1>2. /\ n \in F /\ n \in Range(pend) /\ t \in Seq(F) /\ IsInjective(t)
      /\ Range(t) = Range(pend) \ {n}
  BY <1>1, FirstPending
<1>. HIDE DEF n, t
<1>3. s \in Seq(DOMAIN h) /\ DOMAIN s = 1..Len(s)
  BY <1>2, CellFields, PlacesOfSeq
<1>4. G = F \ {n}
  OBVIOUS
<1>5. \A y \in Range(s) : y \in G /\ h[y].parent = n /\ y \notin Range(t)
  BY <1>1, <1>2
<1>6. s \in Seq(G)
  <2>1. \A k \in 1..Len(s) : s[k] \in G
    BY <1>3, <1>5, RangeHas
  <2>2. s = [k \in 1..Len(s) |-> s[k]] /\ Len(s) \in Nat
    BY <1>3
  <2>. HIDE DEF s, G
  <2>3. s \in [1..Len(s) -> G]
    BY <2>1, <2>2
  <2>. QED  BY <2>2, <2>3
<1>7. t \in Seq(G)
  <2>1. \A k \in 1..Len(t) : t[k] \in G
    <3>1. \A k \in 1..Len(t) : t[k] \in Range(t) /\ t[k] \in F
      BY <1>2, RangeHas, PlacesOfSeq
    <3>. QED  BY <1>2, <1>4, <3>1
  <2>2. t = [k \in 1..Len(t) |-> t[k]] /\ Len(t) \in Nat
    BY <1>2
  <2>. HIDE DEF G
  <2>3. t \in [1..Len(t) -> G]
    BY <2>1, <2>2
  <2>. QED  BY <2>2, <2>3
<1>8. IsInjective(s)
  BY <1>1, <1>2
<1>9. Range(s) \cap Range(t) = {}
  BY <1>5
<1>10. n \notin Range(s)
  BY <1>5
<1>. HIDE DEF s, G, F
<1>11. q \in Seq(G) /\ IsInjective(q) /\ Range(q) = Range(s) \cup Range(t)
  BY <1>2, <1>6, <1>7, <1>8, <1>9, ConcatAt, ConcatInjective, ConcatRange
<1>. HIDE DEF q
<1>12. ASSUME NEW x \in G
       PROVE  /\ IsInjective(h[x].subs)
              /\ \A y \in Range(h[x].subs) : y \in G /\ h[y].parent = x
  BY <1>1, <1>2, <1>4
<1>13. ASSUME NEW y \in Range(q)
       PROVE  /\ h[y].parent \notin G
              /\ h[y].parent # NULL => y \in Range(h[h[y].parent].subs)
  <2>1. CASE y \in Range(s)
    BY <1>4, <1>5, <2>1 DEF s
  <2>2. CASE y \in Range(t)
    BY <1>1, <1>2, <1>4, <2>2
  <2>. QED  BY <1>11, <2>1, <2>2
<1>14. ASSUME NEW x \in G \ Range(q)
       PROVE  h[x].parent \in G /\ x \in Range(h[h[x].parent].subs)
  <2>1. x \in F /\ x \notin Range(pend) /\ x \notin Range(s)
    BY <1>2, <1>4, <1>11
  <2>2. h[x].parent \in F /\ x \in Range(h[h[x].parent].subs)
    BY <1>1, <2>1
  <2>. QED  BY <1>4, <2>1, <2>2 DEF s
<1>15. ASSUME NEW x \in st \cup {n}
       PROVE  /\ h[x].parent \in (st \cup {n}) \cup {NULL}
              /\ \A i \in DOMAIN h[x].subs :
                   \/ h[x].subs[i] \in st \cup {n}
                   \/ /\ h[x].subs[i] \in Range(q) /\ h[h[x].subs[i]].parent = x
                      /\ \A j \in DOMAIN h[x].subs : h[x].subs[j] = h[x].subs[i] => j = i
  <2>1. CASE x \in st
    BY <1>1, <1>2, <1>11, <2>1
  <2>2. CASE x = n
    <3>1. h[n].parent \in st \cup {NULL}
      <4>1. h[n].parent \in DOMAIN h \cup {NULL}
        BY <1>2, CellFields DEF F
      <4>. QED  BY <1>1, <1>2, <4>1 DEF F
    <3>2. ASSUME NEW i \in DOMAIN s
          PROVE  /\ s[i] \in Range(q) /\ h[s[i]].parent = n
                 /\ \A j \in DOMAIN s : s[j] = s[i] => j = i
      <4>1. s[i] \in Range(s)
        BY <1>3, RangeHas
      <4>. QED  BY <1>5, <1>8, <1>11, <4>1 DEF IsInjective
    <3>. QED  BY <2>2, <3>1, <3>2 DEF s
  <2>. QED  BY <2>1, <2>2
<1>16. st \cup {n} \subseteq DOMAIN h
  BY <1>1, <1>2 DEF F
<1>. QED  BY <1>11, <1>12, <1>13, <1>14, <1>15, <1>16 DEF Own, G, q, s, n, t

-----------------------------------------------------------------------------
(* A store without nodes.                                                  *)
LEMMA EmptyStore ==
  ASSUME NEW h, NEW c, NEW sn, h = [x \in DOMAIN h |-> h[x]],
         DOMAIN h = {}, DOMAIN c = {}, DOMAIN sn = {}
  PROVE  /\ Shape(h) /\ Acyclic(h) /\ Own(h, Range(sn), <<>>)
         /\ Lists(h, Range(sn), c) /\ Seen(h, sn)
<1>1. Range(sn) = {} /\ Range(<<>>) = {}
  BY DEF Range
<1>2. Shape(h)
  <2>1. IsFiniteSet(DOMAIN h)
    BY FS_EmptySet
  <2>. QED  BY <2>1 DEF Shape
<1>3. Acyclic(h)
  <2>1. Ranked(DOMAIN h, SubsOf(h), h, 0)
    BY DEF Ranked
  <2>. QED  BY <2>1 DEF Acyclic
<1>4. Own(h, {}, <<>>)
  <2>1. <<>> \in Seq(DOMAIN h \ {}) /\ IsInjective(<<>>)
    BY DEF IsInjective
  <2>. QED  BY <1>1, <2>1, Zenon DEF Own
<1>5. Lists(h, {}, c)
  BY FS_EmptySet DEF Lists
<1>6. Seen(h, sn)
  BY DEF Seen
<1>. QED  BY <1>1, <1>2, <1>3, <1>4, <1>5, <1>6

(* Before chunk_store_init() there is nothing.                             *)
LEMMA InitStore == Init => IInv
<1>. SUFFICES ASSUME Init  PROVE IInv
  OBVIOUS
<1>1. /\ heap = <<>> /\ chunks = <<>> /\ seen = <<>> /\ pending = <<>>
  BY DEF Init
<1>2. /\ DOMAIN heap = {} /\ DOMAIN chunks = {} /\ DOMAIN seen = {}
      /\ heap = [x \in DOMAIN heap |-> heap[x]]
  BY <1>1
<1>3. /\ Shape(heap) /\ Acyclic(heap) /\ Own(heap, Range(seen), pending)
      /\ Lists(heap, Range(seen), chunks) /\ Seen(heap, seen)
  BY <1>1, <1>2, EmptyStore
<1>. QED  BY <1>3 DEF IInv

(* The hash of a node that is kept leads to it.                            *)
LEMMA SeenMore ==
  ASSUME NEW sn, NEW k, NEW n, k \notin DOMAIN sn
  PROVE  Range(map_set(sn, k, n)) = Range(sn) \cup {n}
<1>. DEFINE g == map_set(sn, k, n)
<1>1. /\ DOMAIN g = {k} \cup DOMAIN sn /\ g[k] = n
      /\ \A x \in DOMAIN sn : x # k => g[x] = sn[x]
  BY DEF map_set
<1>. HIDE DEF g
<1>2. Range(g) = Range(sn) \cup {n}
  BY <1>1 DEF Range
<1>. QED  BY <1>2 DEF g

(* And it is put at the end of the list of its id.                         *)
LEMMA ListsMore ==
  ASSUME NEW h, NEW st, NEW c, Lists(h, st, c), NEW n, n \notin st
  PROVE  LET id == IdOf[h[n].label]
             l  == IF id \in DOMAIN c THEN c[id] ELSE <<>>
         IN  Lists(h, st \cup {n}, map_set(c, id, Append(l, n)))
<1>. DEFINE id == IdOf[h[n].label]
            l == IF id \in DOMAIN c THEN c[id] ELSE <<>>
            s == Append(l, n)
            g == map_set(c, id, s)
            T2 == st \cup {n}
<1>1. /\ IsFiniteSet(DOMAIN c)
      /\ \A i \in DOMAIN c : /\ c[i] \in Seq(st) /\ IsInjective(c[i])
                             /\ \A x \in Range(c[i]) : IdOf[h[x].label] = i
      /\ \A x \in st : \E i \in DOMAIN c : x \in Range(c[i])
  BY DEF Lists
<1>2. /\ DOMAIN g = {id} \cup DOMAIN c /\ g[id] = s
      /\ \A x \in DOMAIN c : x # id => g[x] = c[x]
  BY DEF map_set
<1>. HIDE DEF g
<1>3. /\ l \in Seq(st) /\ IsInjective(l)
      /\ \A x \in Range(l) : IdOf[h[x].label] = id
  <2>1. CASE id \in DOMAIN c
    BY <1>1, <2>1
  <2>2. CASE id \notin DOMAIN c
    <3>1. <<>> \in Seq(st) /\ IsInjective(<<>>) /\ Range(<<>>) = {}
      BY DEF IsInjective, Range
    <3>. QED  BY <2>2, <3>1
  <2>. QED  BY <2>1, <2>2
<1>4. id \in DOMAIN c => l = c[id]
  OBVIOUS
<1>. HIDE DEF l, id
<1>5. \A q \in Seq(st) : q \in Seq(T2)
  OBVIOUS
<1>. DEFINE e == <<n>>
<1>6. n \in T2 /\ e \in Seq(T2) /\ IsInjective(e) /\ Range(e) = {n}
  BY DEF IsInjective, Range
<1>7. \A x \in Range(l) : x \in st
  BY <1>3, RangeAt, PlacesOfSeq
<1>. HIDE DEF T2
<1>8. l \in Seq(T2) /\ Range(l) \cap Range(e) = {}
  BY <1>3, <1>5, <1>6, <1>7
<1>9. s = l \o e
  BY <1>6, <1>8
<1>. HIDE DEF e
<1>10. s \in Seq(T2) /\ IsInjective(s) /\ Range(s) = Range(l) \cup {n}
  BY <1>3, <1>6, <1>8, <1>9, ConcatAt, ConcatInjective, ConcatRange
<1>. HIDE DEF s
<1>11. IsFiniteSet(DOMAIN g)
  <2>1. IsFiniteSet(DOMAIN c \cup {id})
    BY <1>1, FS_AddElement
  <2>2. DOMAIN g = DOMAIN c \cup {id}
    BY <1>2
  <2>. QED  BY <2>1, <2>2
<1>12. ASSUME NEW i \in DOMAIN g
       PROVE  /\ g[i] \in Seq(T2) /\ IsInjective(g[i])
              /\ \A x \in Range(g[i]) : IdOf[h[x].label] = i
  <2>1. CASE i = id
    <3>1. \A x \in Range(s) : IdOf[h[x].label] = id
      BY <1>3, <1>10 DEF id
    <3>. QED  BY <1>2, <1>10, <2>1, <3>1
  <2>2. CASE i # id
    BY <1>1, <1>2, <1>5, <2>2
  <2>. QED  BY <2>1, <2>2
<1>13. ASSUME NEW x \in T2  PROVE \E i \in DOMAIN g : x \in Range(g[i])
  <2>1. CASE x = n
    BY <1>2, <1>10, <2>1
  <2>2. CASE x \in st
    <3>1. PICK i \in DOMAIN c : x \in Range(c[i])
      BY <1>1, <2>2
    <3>2. CASE i = id
      BY <1>2, <1>4, <1>10, <3>1, <3>2
    <3>3. CASE i # id
      BY <1>2, <3>1, <3>3
    <3>. QED  BY <3>2, <3>3
  <2>. QED  BY <2>1, <2>2 DEF T2
<1>14. Lists(h, T2, g)
  BY <1>11, <1>12, <1>13 DEF Lists
<1>. QED  BY <1>14 DEF g, s, l, id, T2

-----------------------------------------------------------------------------
(* chunk_store_take_node() of a new node.                                  *)
LEMMA KeepsStore == IInv /\ TakeNew => IInv'
<1>. SUFFICES ASSUME IInv, TakeNew  PROVE IInv'
  OBVIOUS
<1>. DEFINE n == Head(pending)
            st == Range(seen)
            k == HashOf(n)
            id == IdOf[heap[n].label]
            l == IF id \in DOMAIN chunks THEN chunks[id] ELSE <<>>
<1>1. /\ Shape(heap) /\ Acyclic(heap) /\ Own(heap, st, pending)
      /\ Lists(heap, st, chunks) /\ Seen(heap, seen)
  BY DEF IInv
<1>2. /\ pending # <<>> /\ k \notin DOMAIN seen
      /\ seen' = map_set(seen, k, n)
      /\ chunks' = map_set(chunks, id, Append(l, n))
      /\ pending' = heap[n].subs \o Tail(pending)
      /\ heap' = heap
  BY DEF TakeNew
<1>3. Own(heap, st \cup {n}, pending')
  BY <1>1, <1>2, OwnKept
<1>4. n \in DOMAIN heap \ st
  <2>1. pending \in Seq(DOMAIN heap \ st) /\ IsInjective(pending)
    BY <1>1 DEF Own
  <2>. QED  BY <1>2, <2>1, FirstPending
<1>5. Lists(heap, st \cup {n}, chunks')
  BY <1>1, <1>2, <1>4, ListsMore
<1>6. Range(seen') = st \cup {n}
  BY <1>2, SeenMore
<1>7. Seen(heap, seen')
  <2>1. k = hash_node(CloneOf(heap)[n])
    BY DEF HashOf
  <2>. HIDE DEF k, n
  <2>2. DOMAIN seen' = DOMAIN seen \cup {k}
    BY <1>2 DEF map_set
  <2>3. ASSUME NEW j \in DOMAIN seen'
        PROVE  seen'[j] \in DOMAIN heap /\ hash_node(CloneOf(heap)[seen'[j]]) = j
    <3>1. CASE j = k
      <4>1. seen'[j] = n
        BY <1>2, <3>1 DEF map_set
      <4>. QED  BY <1>4, <2>1, <3>1, <4>1
    <3>2. CASE j # k
      <4>1. j \in DOMAIN seen /\ seen'[j] = seen[j]
        BY <1>2, <2>2, <3>2 DEF map_set
      <4>. QED  BY <1>1, <4>1 DEF Seen
    <3>. QED  BY <3>1, <3>2
  <2>. QED  BY <2>3 DEF Seen
<1>8. Shape(heap') /\ Acyclic(heap') /\ Seen(heap', seen')
  BY <1>1, <1>2, <1>7
<1>9. Own(heap', Range(seen'), pending') /\ Lists(heap', Range(seen'), chunks')
  BY <1>2, <1>3, <1>5, <1>6
<1>. QED  BY <1>8, <1>9 DEF IInv

(* Between the calls there are stored nodes only.                          *)
LEMMA AllStored == IInv /\ pending = <<>> => Range(seen) = DOMAIN heap
<1>. SUFFICES ASSUME IInv, pending = <<>>  PROVE Range(seen) = DOMAIN heap
  OBVIOUS
<1>. DEFINE st == Range(seen)
            D == DOMAIN heap
<1>1. Shape(heap) /\ Acyclic(heap) /\ Own(heap, st, pending)
  BY DEF IInv
<1>2. PICK rk, b : Ranked(D, SubsOf(heap), rk, b)
  BY <1>1 DEF Acyclic
<1>. HIDE DEF st
<1>3. \A x \in D \ st : \E i \in 1..Len(pending) : x \in Freed(heap, pending[i])
  <2>1. ASSUME NEW st2, NEW pend, Own(heap, st2, pend)
        PROVE  \A x \in D \ st2 : \E i \in 1..Len(pend) : x \in Freed(heap, pend[i])
    BY <1>1, <1>2, <2>1, NewTrees
  <2>. QED  BY <1>1, <2>1, Zenon
<1>4. D \subseteq st
  BY <1>3
<1>5. st \subseteq D
  BY <1>1 DEF Own
<1>. QED  BY <1>4, <1>5 DEF st

(* chunk_store_clear() frees all nodes, because all are in the lists.      *)
LEMMA ClearsHeap ==
  IInv /\ Clear => DOMAIN heap' = {} /\ heap' = [x \in DOMAIN heap' |-> heap'[x]]
<1>. SUFFICES ASSUME IInv, Clear
              PROVE  DOMAIN heap' = {} /\ heap' = [x \in DOMAIN heap' |-> heap'[x]]
  OBVIOUS
<1>. DEFINE L == UNION {Range(chunks[id]) : id \in DOMAIN chunks}
<1>1. Lists(heap, Range(seen), chunks)
  BY DEF IInv
<1>2. pending = <<>> /\ heap' = Restrict(heap, DOMAIN heap \ L)
  BY DEF Clear
<1>3. Range(seen) = DOMAIN heap
  BY <1>2, AllStored
<1>4. Range(seen) \subseteq L
  BY <1>1 DEF Lists
<1>. HIDE DEF L
<1>5. DOMAIN heap \ L = {}
  BY <1>3, <1>4
<1>. QED  BY <1>2, <1>5 DEF Restrict

(* chunk_store_clear(): the lists hold all live nodes.                     *)
LEMMA ClearsStore == IInv /\ Clear => IInv'
<1>. SUFFICES ASSUME IInv, Clear  PROVE IInv'
  OBVIOUS
<1>1. pending' = <<>> /\ chunks' = <<>> /\ seen' = <<>>
  BY DEF Clear
<1>2. DOMAIN heap' = {} /\ heap' = [x \in DOMAIN heap' |-> heap'[x]]
  BY ClearsHeap
<1>3. DOMAIN chunks' = {} /\ DOMAIN seen' = {}
  BY <1>1
<1>4. /\ Shape(heap') /\ Acyclic(heap') /\ Own(heap', Range(seen'), <<>>)
      /\ Lists(heap', Range(seen'), chunks') /\ Seen(heap', seen')
  BY <1>2, <1>3, EmptyStore
<1>. QED  BY <1>1, <1>4 DEF IInv

(* Steps that leave the store alone.                                       *)
LEMMA LeavesStore ==
  IInv /\ UNCHANGED <<heap, chunks, seen, pending>> => IInv'
BY DEF IInv

-----------------------------------------------------------------------------
(* A function on a finite set into the naturals is bounded.                *)
LEMMA FiniteBound ==
  ASSUME NEW D, IsFiniteSet(D), NEW f, \A x \in D : f[x] \in Nat
  PROVE  \E b \in Nat : \A x \in D : f[x] <= b
<1>. DEFINE N == Cardinality(D)
<1>1. N \in Nat /\ ExistsBijection(1..N, D)
  BY FS_CardinalityType
<1>. HIDE DEF N
<1>2. PICK g : g \in Bijection(1..N, D)
  BY <1>1 DEF ExistsBijection
<1>3. g \in [1..N -> D] /\ \A x \in D : \E i \in 1..N : g[i] = x
  BY <1>2 DEF Bijection, Surjection
<1>. DEFINE Bounded(m) == \E b \in Nat : \A i \in 1..N : i <= m => f[g[i]] <= b
            Bad == {m \in Nat : m <= N /\ ~ Bounded(m)}
<1>4. Bad = {}
  <2>. SUFFICES ASSUME Bad # {}  PROVE FALSE
    OBVIOUS
  <2>1. PICK m \in Bad : \A i \in Bad : m <= i
    <3>1. Bad \in SUBSET Nat
      OBVIOUS
    <3>. HIDE DEF Bad
    <3>. QED  BY <3>1, LeastElement
  <2>2. m \in Nat /\ m <= N /\ ~ Bounded(m)
    BY <2>1
  <2>3. m # 0
    <3>1. \A i \in 1..N : i <= 0 => f[g[i]] <= 0
      BY <1>1
    <3>2. Bounded(0)
      BY <3>1
    <3>. QED  BY <2>2, <3>2
  <2>4. m - 1 \in Nat /\ m - 1 <= N /\ ~ (m <= m - 1)
    BY <1>1, <2>2, <2>3
  <2>5. PICK b \in Nat : \A i \in 1..N : i <= m - 1 => f[g[i]] <= b
    BY <2>1, <2>4
  <2>6. m \in 1..N /\ f[g[m]] \in Nat
    BY <1>1, <1>3, <2>2, <2>3
  <2>. DEFINE c == b + f[g[m]]
  <2>7. ASSUME NEW i \in 1..N, i <= m  PROVE f[g[i]] <= c
    <3>1. f[g[i]] \in Nat
      BY <1>3
    <3>2. CASE i = m
      BY <2>6, <3>1, <3>2
    <3>3. CASE i # m
      <4>1. i <= m - 1
        BY <1>1, <2>2, <2>7, <3>3
      <4>2. f[g[i]] <= b
        BY <2>5, <4>1
      <4>. QED  BY <2>6, <3>1, <4>2
    <3>. QED  BY <3>2, <3>3
  <2>8. c \in Nat
    BY <2>6
  <2>. HIDE DEF c
  <2>9. Bounded(m)
    BY <2>7, <2>8
  <2>. QED  BY <2>2, <2>9
<1>5. Bounded(N)
  <2>. HIDE DEF Bounded
  <2>1. N <= N
    BY <1>1
  <2>. QED  BY <1>1, <1>4, <2>1
<1>6. PICK b \in Nat : \A i \in 1..N : i <= N => f[g[i]] <= b
  BY <1>5
<1>7. ASSUME NEW x \in D  PROVE f[x] <= b
  <2>1. PICK i \in 1..N : g[i] = x
    BY <1>3
  <2>2. i <= N
    BY <1>1
  <2>. QED  BY <1>6, <2>1, <2>2
<1>. QED  BY <1>7

(* The value of a node depends on its label and on the values of its       *)
(* subnodes only.                                                          *)
LEMMA WalkSame ==
  ASSUME NEW lab, NEW lab2, NEW subs, NEW subs2, NEW sh, NEW g, NEW n,
         lab[n] = lab2[n], DOMAIN subs[n] = DOMAIN subs2[n],
         \A i \in DOMAIN subs[n] : g[subs[n][i]] = g[subs2[n][i]]
  PROVE  Walk(lab, subs, sh, g, n) = Walk(lab2, subs2, sh, g, n)
<1>1. Parts(subs, sh, g, n) = Parts(subs2, sh, g, n)
  BY DEF Parts
<1>. QED  BY <1>1 DEF Walk

(* Hashes are longer than those of the subnodes, so no node is below       *)
(* itself.                                                                 *)
LEMMA HashedAcyclic ==
  ASSUME NEW h, Shape(h), NEW H, Hashes(h, H)
  PROVE  \E b : Ranked(DOMAIN h, SubsOf(h), [x \in DOMAIN h |-> Len(H[x])], b)
<1>. DEFINE D == DOMAIN h
            rk == [x \in D |-> Len(H[x])]
<1>1. \A x \in D : rk[x] \in Nat
  BY HashFacts
<1>2. IsFiniteSet(D)
  BY DEF Shape
<1>3. PICK b \in Nat : \A x \in D : rk[x] <= b
  <2>. HIDE DEF rk, D
  <2>. QED  BY <1>1, <1>2, FiniteBound
<1>4. ASSUME NEW x \in D, NEW i \in DOMAIN SubsOf(h)[x]
      PROVE  rk[SubsOf(h)[x][i]] < rk[x]
  <2>1. SubsOf(h)[x] = h[x].subs /\ h[x].subs \in Seq(D)
    BY CellFields
  <2>2. i \in DOMAIN h[x].subs /\ h[x].subs[i] \in D
    BY <1>4, <2>1, PlacesOfSeq
  <2>3. Len(H[h[x].subs[i]]) < Len(H[x])
    BY <2>2, HashFacts
  <2>. QED  BY <2>1, <2>2, <2>3
<1>. QED  BY <1>1, <1>3, <1>4 DEF Ranked

-----------------------------------------------------------------------------
(* h is h0 with new in the place of n everywhere.                          *)
Patched(h0, h, st, n, new) ==
  /\ DOMAIN h = DOMAIN h0
  /\ h \in [DOMAIN h0 -> Cell(DOMAIN h0)]
  /\ \A x \in DOMAIN h0 :
       /\ h[x].label = h0[x].label
       /\ Len(h[x].subs) = Len(h0[x].subs)
       /\ \A i \in 1..Len(h0[x].subs) :
            h[x].subs[i] = IF h0[x].subs[i] = n THEN new ELSE h0[x].subs[i]
       /\ x \in st => h[x].parent \in st \cup {NULL}
       /\ x \notin st /\ x # n => h[x].parent = h0[x].parent

(* A node still to be taken is in one place at most: in its parent.        *)
LEMMA OnePlace ==
  ASSUME NEW h, Shape(h), NEW st, NEW pend, Own(h, st, pend), NEW n \in Range(pend),
         NEW x \in DOMAIN h, NEW i \in 1..Len(h[x].subs), h[x].subs[i] = n
  PROVE  /\ x = h[n].parent /\ x \in st
         /\ \A j \in 1..Len(h[x].subs) : h[x].subs[j] = n => j = i
<1>. DEFINE F == DOMAIN h \ st
<1>1. /\ \A y \in F : \A z \in Range(h[y].subs) : z \in F /\ h[z].parent = y
      /\ pend \in Seq(F)
      /\ \A y \in Range(pend) : h[y].parent \notin F
      /\ \A y \in st : \A k \in DOMAIN h[y].subs :
                \/ h[y].subs[k] \in st
                \/ /\ h[y].subs[k] \in Range(pend) /\ h[h[y].subs[k]].parent = y
                   /\ \A j \in DOMAIN h[y].subs : h[y].subs[j] = h[y].subs[k] => j = k
  BY DEF Own
<1>2. n \in F
  BY <1>1, RangeAt, PlacesOfSeq
<1>3. h[x].subs \in Seq(DOMAIN h) /\ DOMAIN h[x].subs = 1..Len(h[x].subs)
  BY CellFields, PlacesOfSeq
<1>4. n \in Range(h[x].subs)
  BY <1>3, RangeHas
<1>5. x \in st
  <2>. SUFFICES ASSUME x \in F  PROVE FALSE
    OBVIOUS
  <2>. QED  BY <1>1, <1>4
<1>. QED  BY <1>1, <1>2, <1>3, <1>5

(* node_replace_subnode() of the first node to be taken.                   *)
LEMMA PatchedIs ==
  ASSUME NEW h, Shape(h), NEW st, NEW pend, Own(h, st, pend), NEW n \in Range(pend),
         NEW new \in st, IdOf[h[n].label] = IdOf[h[new].label]
  PROVE  Patched(h, ReplaceSubnode(h, n, new), st, n, new)
<1>. DEFINE D == DOMAIN h
            F == DOMAIN h \ st
            p == h[n].parent
            r == ReplaceSubnode(h, n, new)
<1>1. /\ st \subseteq D /\ pend \in Seq(F)
      /\ \A y \in Range(pend) : /\ h[y].parent \notin F
                                /\ h[y].parent # NULL => y \in Range(h[h[y].parent].subs)
      /\ \A x \in st : h[x].parent \in st \cup {NULL}
  BY DEF Own
<1>2. n \in F
  BY <1>1, RangeAt, PlacesOfSeq
<1>3. D \subseteq Nat \ {0} /\ h \in [D -> Cell(D)]
  BY DEF Shape
<1>4. p \in st \cup {NULL}
  <2>1. p \in D \cup {NULL}
    BY <1>2, CellFields
  <2>. QED  BY <1>1, <2>1
<1>5. \A x \in D : h[x].subs \in Seq(D) /\ DOMAIN h[x].subs = 1..Len(h[x].subs)
  BY CellFields, PlacesOfSeq
<1>6. CASE p = NULL
  <2>1. r = h
    BY <1>6 DEF ReplaceSubnode
  <2>2. \A x \in D : \A i \in 1..Len(h[x].subs) : h[x].subs[i] # n
    BY <1>3, <1>6, OnePlace DEF NULL
  <2>. QED  BY <1>1, <1>3, <2>1, <2>2 DEF Patched
<1>7. CASE p # NULL
  <2>1. p \in st /\ p \in D /\ n \in Range(h[p].subs)
    BY <1>1, <1>4, <1>7
  <2>2. PICK k \in 1..Len(h[p].subs) : h[p].subs[k] = n
    BY <1>5, <2>1, RangeAt
  <2>3. \A j \in 1..Len(h[p].subs) : h[p].subs[j] = n => j = k
    BY <2>1, <2>2, OnePlace
  <2>. DEFINE First(j) == h[p].subs[j] = n /\ \A m \in 1..(j-1) : h[p].subs[m] # n
              i == CHOOSE j \in DOMAIN h[p].subs : First(j)
  <2>4. First(k)
    <3>1. \A m \in 1..(k-1) : m \in 1..Len(h[p].subs) /\ m # k
      BY <1>5, <2>1
    <3>. QED  BY <2>2, <2>3, <3>1
  <2>5. i \in 1..Len(h[p].subs) /\ First(i)
    BY <1>5, <2>1, <2>4
  <2>6. i = k
    BY <2>3, <2>5
  <2>7. r = [h EXCEPT ![p].subs[k] = new, ![new].parent = p, ![n].parent = NULL]
    <3>1. r = [h EXCEPT ![p].subs[i] = new, ![new].parent = p, ![n].parent = NULL]
      BY <1>7 DEF ReplaceSubnode
    <3>. HIDE DEF r, i
    <3>. QED  BY <2>6, <3>1
  <2>. HIDE DEF r, i, p, First
  <2>8. n # p /\ n # new /\ new \in D /\ n \in D
    BY <1>1, <1>2, <2>1
  <2>9. DOMAIN r = D /\ r = [x \in D |-> r[x]]
    BY <1>3, <2>7
  <2>10. ASSUME NEW x \in D
         PROVE  r[x] = [label  |-> h[x].label,
                        subs   |-> IF x = p THEN [h[p].subs EXCEPT ![k] = new] ELSE h[x].subs,
                        parent |-> IF x = n THEN NULL ELSE IF x = new THEN p ELSE h[x].parent]
    <3>1. h[x] = [label |-> h[x].label, subs |-> h[x].subs, parent |-> h[x].parent]
      BY CellFields
    <3>2. h[p] = [label |-> h[p].label, subs |-> h[p].subs, parent |-> h[p].parent]
      BY <2>1, CellFields
    <3>. DEFINE a == [h EXCEPT ![p].subs[k] = new]
                c == [a EXCEPT ![new].parent = p]
    <3>3. r = [c EXCEPT ![n].parent = NULL]
      BY <2>7
    <3>4. DOMAIN a = D /\ \A y \in D : a[y] = IF y = p THEN [h[p] EXCEPT !.subs[k] = new] ELSE h[y]
      BY <1>3
    <3>5. DOMAIN c = D /\ \A y \in D : c[y] = IF y = new THEN [a[new] EXCEPT !.parent = p] ELSE a[y]
      BY <3>4
    <3>6. r[x] = IF x = n THEN [c[n] EXCEPT !.parent = NULL] ELSE c[x]
      BY <3>3, <3>5
    <3>. HIDE DEF a, c
    <3>7. a[x] = [label  |-> h[x].label,
                  subs   |-> IF x = p THEN [h[p].subs EXCEPT ![k] = new] ELSE h[x].subs,
                  parent |-> h[x].parent]
      BY <3>1, <3>2, <3>4
    <3>8. c[x] = [label  |-> h[x].label,
                  subs   |-> IF x = p THEN [h[p].subs EXCEPT ![k] = new] ELSE h[x].subs,
                  parent |-> IF x = new THEN p ELSE h[x].parent]
      BY <3>5, <3>7
    <3>. QED  BY <2>8, <3>6, <3>8
  <2>11. ASSUME NEW x \in D
         PROVE  /\ r[x] \in Cell(D)
                /\ r[x].label = h[x].label
                /\ Len(r[x].subs) = Len(h[x].subs)
                /\ \A m \in 1..Len(h[x].subs) :
                     r[x].subs[m] = IF h[x].subs[m] = n THEN new ELSE h[x].subs[m]
                /\ x \in st => r[x].parent \in st \cup {NULL}
                /\ x \notin st /\ x # n => r[x].parent = h[x].parent
    <3>. DEFINE s == IF x = p THEN [h[p].subs EXCEPT ![k] = new] ELSE h[x].subs
                q == IF x = n THEN NULL ELSE IF x = new THEN p ELSE h[x].parent
    <3>1. /\ s \in Seq(D) /\ Len(s) = Len(h[x].subs)
          /\ \A m \in 1..Len(h[x].subs) :
               s[m] = IF h[x].subs[m] = n THEN new ELSE h[x].subs[m]
      <4>1. CASE x = p
        <5>1. h[p].subs \in Seq(D) /\ new \in D /\ s = [h[p].subs EXCEPT ![k] = new]
          BY <1>5, <2>1, <2>8, <4>1
        <5>2. s \in Seq(D) /\ Len(s) = Len(h[p].subs)
          BY <5>1
        <5>3. ASSUME NEW m \in 1..Len(h[p].subs)
              PROVE  s[m] = IF h[p].subs[m] = n THEN new ELSE h[p].subs[m]
          <6>1. m \in DOMAIN h[p].subs
            BY <1>5, <2>1
          <6>. QED  BY <2>2, <2>3, <5>1, <6>1
        <5>. QED  BY <4>1, <5>2, <5>3
      <4>2. CASE x # p
        <5>1. s = h[x].subs
          BY <4>2
        <5>2. \A m \in 1..Len(h[x].subs) : h[x].subs[m] # n
          BY <4>2, OnePlace DEF p
        <5>. QED  BY <1>5, <5>1, <5>2
      <4>. QED  BY <4>1, <4>2
    <3>2. q \in D \cup {NULL} /\ h[x].label \in Labels
      BY <2>1, CellFields
    <3>3. x \in st => q \in st \cup {NULL}
      BY <1>1, <1>2, <2>1
    <3>4. x \notin st /\ x # n => q = h[x].parent
      OBVIOUS
    <3>5. r[x] = [label |-> h[x].label, subs |-> s, parent |-> q]
      BY <2>10
    <3>. HIDE DEF s, q
    <3>6. r[x].label = h[x].label /\ r[x].subs = s /\ r[x].parent = q /\ r[x] \in Cell(D)
      BY <3>1, <3>2, <3>5 DEF Cell
    <3>. QED  BY <3>1, <3>3, <3>4, <3>6
  <2>12. r \in [D -> Cell(D)]
    BY <2>9, <2>11
  <2>. QED  BY <2>9, <2>11, <2>12 DEF Patched, r
<1>. QED  BY <1>6, <1>7

(* A duplicate has the hash of the stored node, so no hash changes.        *)
LEMMA PatchedHashes ==
  ASSUME NEW h, Shape(h), NEW r, NEW st, NEW n \in DOMAIN h, NEW new \in DOMAIN h,
         Patched(h, r, st, n, new), NEW H, Hashes(h, H), H[n] = H[new]
  PROVE  Shape(r) /\ Hashes(r, H)
<1>. DEFINE D == DOMAIN h
<1>1. /\ DOMAIN r = D /\ r \in [D -> Cell(D)]
      /\ \A x \in D :
           /\ r[x].label = h[x].label
           /\ Len(r[x].subs) = Len(h[x].subs)
           /\ \A i \in 1..Len(h[x].subs) :
                r[x].subs[i] = IF h[x].subs[i] = n THEN new ELSE h[x].subs[i]
  BY DEF Patched
<1>2. Shape(r)
  BY <1>1 DEF Shape
<1>3. ASSUME NEW x \in D
      PROVE  H[x] = Walk(LabelOf(r), SubsOf(r), Same(Labels), H, x)
  <2>1. H[x] = Walk(LabelOf(h), SubsOf(h), Same(Labels), H, x)
    BY DEF Hashes
  <2>2. LabelOf(h)[x] = LabelOf(r)[x]
    BY <1>1 DEF LabelOf
  <2>3. /\ SubsOf(h)[x] = h[x].subs /\ SubsOf(r)[x] = r[x].subs
        /\ h[x].subs \in Seq(D) /\ r[x].subs \in Seq(D)
    BY <1>1, <1>2, CellFields
  <2>4. DOMAIN SubsOf(h)[x] = 1..Len(h[x].subs) /\ DOMAIN SubsOf(r)[x] = 1..Len(h[x].subs)
    BY <1>1, <2>3, PlacesOfSeq
  <2>5. \A i \in DOMAIN SubsOf(h)[x] : H[SubsOf(h)[x][i]] = H[SubsOf(r)[x][i]]
    <3>. SUFFICES ASSUME NEW i \in 1..Len(h[x].subs)
                  PROVE  H[h[x].subs[i]] = H[r[x].subs[i]]
      BY <2>3, <2>4
    <3>1. r[x].subs[i] = IF h[x].subs[i] = n THEN new ELSE h[x].subs[i]
      BY <1>1
    <3>. QED  BY <3>1
  <2>6. Walk(LabelOf(h), SubsOf(h), Same(Labels), H, x) =
        Walk(LabelOf(r), SubsOf(r), Same(Labels), H, x)
    BY <2>2, <2>4, <2>5, WalkSame
  <2>. QED  BY <2>1, <2>6
<1>4. Hashes(r, H)
  BY <1>1, <1>3 DEF Hashes
<1>. QED  BY <1>2, <1>4

(* The nodes that node_free() of the duplicate n frees: new ones, no other *)
(* new tree, and nothing that a live node points to.                       *)
FreedApart(r, st, n, E, pend) ==
  LET F == DOMAIN r \ st IN
  /\ n \in E /\ E \subseteq F
  /\ \A x \in F : /\ Range(r[x].subs) \subseteq F
                  /\ IsInjective(r[x].subs)
                  /\ \A y \in Range(r[x].subs) : r[y].parent = x
  /\ \A x \in DOMAIN r \ E : /\ Range(r[x].subs) \cap E = {}
                             /\ r[x].parent \notin E
  /\ \A x \in Range(pend) : x # n => x \notin E

(* The trees below the nodes to be taken have no common nodes, and no      *)
(* stored node points into that of n once its parent is patched.           *)
LEMMA FreedIsApart ==
  ASSUME NEW h, Shape(h), NEW st, NEW pend, Own(h, st, pend), NEW n \in Range(pend),
         NEW new \in st, NEW r, Shape(r), Patched(h, r, st, n, new),
         NEW rk, NEW b, Ranked(DOMAIN r, SubsOf(r), rk, b)
  PROVE  FreedApart(r, st, n, Freed(r, n), pend)
<1>. DEFINE D == DOMAIN h
            F == D \ st
            E == Freed(r, n)
<1>1. /\ st \subseteq D
      /\ \A x \in F : /\ IsInjective(h[x].subs)
                      /\ \A y \in Range(h[x].subs) : y \in F /\ h[y].parent = x
      /\ pend \in Seq(F)
      /\ \A y \in Range(pend) : h[y].parent \notin F
      /\ \A x \in F \ Range(pend) : h[x].parent \in F /\ x \in Range(h[h[x].parent].subs)
      /\ \A x \in st : \A i \in DOMAIN h[x].subs :
                \/ h[x].subs[i] \in st
                \/ h[x].subs[i] \in Range(pend) /\ h[h[x].subs[i]].parent = x
  BY DEF Own
<1>2. /\ DOMAIN r = D
      /\ \A x \in D :
           /\ Len(r[x].subs) = Len(h[x].subs)
           /\ \A i \in 1..Len(h[x].subs) :
                r[x].subs[i] = IF h[x].subs[i] = n THEN new ELSE h[x].subs[i]
           /\ x \in st => r[x].parent \in st \cup {NULL}
           /\ x \notin st /\ x # n => r[x].parent = h[x].parent
  BY DEF Patched
<1>3. \A y \in Range(pend) : y \in F
  BY <1>1, RangeAt, PlacesOfSeq
<1>4. \A x \in D : /\ h[x].subs \in Seq(D) /\ DOMAIN h[x].subs = 1..Len(h[x].subs)
                   /\ r[x].subs \in Seq(D) /\ DOMAIN r[x].subs = 1..Len(r[x].subs)
  BY <1>2, CellFields, PlacesOfSeq
<1>5. ASSUME NEW x \in F  PROVE r[x].subs = h[x].subs
  <2>1. \A i \in 1..Len(h[x].subs) : h[x].subs[i] # n
    <3>. SUFFICES ASSUME NEW i \in 1..Len(h[x].subs), h[x].subs[i] = n  PROVE FALSE
      OBVIOUS
    <3>1. x \in st
      BY OnePlace
    <3>. QED  BY <3>1
  <2>2. \A i \in 1..Len(h[x].subs) : r[x].subs[i] = h[x].subs[i]
    BY <1>2, <2>1
  <2>3. /\ h[x].subs \in Seq(D) /\ r[x].subs \in Seq(D)
        /\ Len(r[x].subs) = Len(h[x].subs)
    BY <1>2, <1>4
  <2>. QED  BY <2>2, <2>3, SeqSame
<1>6. ASSUME NEW x \in F, NEW y \in Range(r[x].subs)  PROVE y \in F /\ r[y].parent = x
  <2>1. y \in Range(h[x].subs)
    BY <1>5
  <2>2. y \in F /\ h[y].parent = x
    BY <1>1, <2>1
  <2>3. y # n
    BY <1>1, <2>2
  <2>. QED  BY <1>2, <2>2, <2>3
<1>7. TreesIn(r, F)
  BY <1>2, <1>6 DEF TreesIn
<1>8. FreesTree(r, F, rk, n)
  BY <1>3, <1>7, FreedTree
<1>9. /\ n \in E /\ E \subseteq F
      /\ \A x \in E : Range(r[x].subs) \subseteq E
      /\ \A x \in E \ {n} : r[x].parent \in E
  BY <1>8 DEF FreesTree
<1>. HIDE DEF E
<1>10. ASSUME NEW x \in D, NEW y \in Range(r[x].subs), x \notin E  PROVE y \notin E
  <2>. SUFFICES ASSUME y \in E  PROVE FALSE
    OBVIOUS
  <2>1. PICK i \in 1..Len(r[x].subs) : r[x].subs[i] = y
    BY <1>4, RangeAt
  <2>2. y \in F /\ y # new
    BY <1>9
  <2>3. h[x].subs[i] = y /\ y # n /\ i \in DOMAIN h[x].subs
    BY <1>2, <1>4, <2>1, <2>2
  <2>4. r[y].parent \in E /\ r[y].parent = h[y].parent
    BY <1>2, <1>9, <2>2, <2>3
  <2>5. CASE x \in F
    BY <1>6, <1>10, <2>4, <2>5
  <2>6. CASE x \in st
    <3>1. h[y].parent = x
      BY <1>1, <2>2, <2>3, <2>6
    <3>. QED  BY <1>10, <2>4, <3>1
  <2>. QED  BY <2>5, <2>6
<1>11. ASSUME NEW x \in D, x \notin E  PROVE r[x].parent \notin E
  <2>1. CASE x \in st
    <3>1. NULL \notin F
      BY DEF Shape, NULL
    <3>. QED  BY <1>2, <1>9, <2>1, <3>1
  <2>2. CASE x \in F
    <3>1. r[x].parent = h[x].parent
      BY <1>2, <1>9, <1>11, <2>2
    <3>2. CASE x \in Range(pend)
      BY <1>1, <1>9, <3>1, <3>2
    <3>3. CASE x \notin Range(pend)
      <4>1. h[x].parent \in F /\ x \in Range(r[h[x].parent].subs)
        BY <1>1, <1>5, <2>2, <3>3
      <4>. QED  BY <1>9, <1>11, <3>1, <4>1
    <3>. QED  BY <3>2, <3>3
  <2>. QED  BY <2>1, <2>2
<1>12. ASSUME NEW x \in Range(pend), x # n  PROVE x \notin E
  <2>1. x \in F /\ r[x].parent = h[x].parent /\ h[x].parent \notin F
    BY <1>1, <1>2, <1>3, <1>12
  <2>. QED  BY <1>9, <1>12, <2>1
<1>13. ASSUME NEW x \in F  PROVE IsInjective(r[x].subs)
  BY <1>1, <1>5
<1>. QED  BY <1>2, <1>6, <1>9, <1>10, <1>11, <1>12, <1>13 DEF FreedApart, E

(* What is left of the heap.                                               *)
LEMMA FreedShape ==
  ASSUME NEW r, Shape(r), NEW st, NEW n, NEW E, NEW pend, FreedApart(r, st, n, E, pend)
  PROVE  LET h2 == Restrict(r, DOMAIN r \ E) IN
         /\ DOMAIN h2 = DOMAIN r \ E
         /\ \A x \in DOMAIN r \ E : h2[x] = r[x]
         /\ Shape(h2)
<1>. DEFINE D == DOMAIN r
            D2 == D \ E
            h2 == Restrict(r, D2)
<1>1. \A x \in D2 : Range(r[x].subs) \cap E = {} /\ r[x].parent \notin E
  BY DEF FreedApart
<1>2. DOMAIN h2 = D2 /\ h2 = [x \in D2 |-> r[x]]
  BY DEF Restrict
<1>3. \A x \in D2 : h2[x] = r[x]
  BY DEF Restrict
<1>4. ASSUME NEW x \in D2  PROVE r[x] \in Cell(D2)
  <2>1. /\ r[x].label \in Labels /\ r[x].subs \in Seq(D)
        /\ r[x].parent \in D \cup {NULL}
        /\ r[x] = [label |-> r[x].label, subs |-> r[x].subs, parent |-> r[x].parent]
    BY CellFields
  <2>2. r[x].parent \in D2 \cup {NULL}
    BY <1>1, <2>1
  <2>. DEFINE s == r[x].subs
  <2>3. \A k \in 1..Len(s) : s[k] \in D2
    BY <1>1, <2>1, RangeHas, PlacesOfSeq
  <2>. HIDE DEF D2
  <2>4. s \in Seq(D2)
    <3>1. s = [k \in 1..Len(s) |-> s[k]] /\ Len(s) \in Nat
      BY <2>1
    <3>. HIDE DEF s
    <3>2. s \in [1..Len(s) -> D2]
      BY <2>3, <3>1
    <3>. QED  BY <3>1, <3>2
  <2>. QED  BY <2>1, <2>2, <2>4 DEF Cell
<1>5. IsFiniteSet(D2) /\ D2 \subseteq Nat \ {0}
  <2>1. IsFiniteSet(D) /\ D \subseteq Nat \ {0}
    BY DEF Shape
  <2>. QED  BY <2>1, FS_Subset
<1>6. h2 \in [D2 -> Cell(D2)]
  <2>. HIDE DEF D2, h2
  <2>. QED  BY <1>2, <1>4
<1>7. Shape(h2)
  <2>. HIDE DEF D2, h2
  <2>. QED  BY <1>2, <1>5, <1>6 DEF Shape
<1>. QED  BY <1>2, <1>3, <1>7

(* The other nodes keep their owners.                                      *)
LEMMA OwnFreed ==
  ASSUME NEW h, Shape(h), NEW st, NEW pend, Own(h, st, pend), pend # <<>>,
         NEW new \in st, NEW r, Shape(r), Patched(h, r, st, Head(pend), new),
         NEW E, FreedApart(r, st, Head(pend), E, pend), NEW h2,
         DOMAIN h2 = DOMAIN r \ E, \A x \in DOMAIN r \ E : h2[x] = r[x]
  PROVE  Own(h2, st, Tail(pend))
<1>. DEFINE n == Head(pend)
            t == Tail(pend)
            D == DOMAIN h
            F == D \ st
            G == DOMAIN h2 \ st
<1>1. /\ st \subseteq D
      /\ pend \in Seq(F) /\ IsInjective(pend)
      /\ \A y \in Range(pend) : /\ h[y].parent \notin F
                                /\ h[y].parent # NULL => y \in Range(h[h[y].parent].subs)
      /\ \A x \in F \ Range(pend) : h[x].parent \in F /\ x \in Range(h[h[x].parent].subs)
      /\ \A x \in st : \A i \in DOMAIN h[x].subs :
                \/ h[x].subs[i] \in st
                \/ /\ h[x].subs[i] \in Range(pend) /\ h[h[x].subs[i]].parent = x
                   /\ \A j \in DOMAIN h[x].subs : h[x].subs[j] = h[x].subs[i] => j = i
  BY DEF Own
<1>2. /\ n \in F /\ n \in Range(pend) /\ t \in Seq(F) /\ IsInjective(t)
      /\ Range(t) = Range(pend) \ {n}
  BY <1>1, FirstPending
<1>3. /\ DOMAIN r = D
      /\ \A x \in D :
           /\ Len(r[x].subs) = Len(h[x].subs)
           /\ \A i \in 1..Len(h[x].subs) :
                r[x].subs[i] = IF h[x].subs[i] = n THEN new ELSE h[x].subs[i]
           /\ x \in st => r[x].parent \in st \cup {NULL}
           /\ x \notin st /\ x # n => r[x].parent = h[x].parent
  BY DEF Patched
<1>4. /\ n \in E /\ E \subseteq F
      /\ \A x \in F : /\ Range(r[x].subs) \subseteq F /\ IsInjective(r[x].subs)
                      /\ \A y \in Range(r[x].subs) : r[y].parent = x
      /\ \A x \in D \ E : Range(r[x].subs) \cap E = {} /\ r[x].parent \notin E
      /\ \A x \in Range(pend) : x # n => x \notin E
  BY <1>3 DEF FreedApart
<1>5. \A x \in D : /\ h[x].subs \in Seq(D) /\ DOMAIN h[x].subs = 1..Len(h[x].subs)
                   /\ r[x].subs \in Seq(D) /\ DOMAIN r[x].subs = 1..Len(r[x].subs)
                   /\ h[x].parent \in D \cup {NULL}
  BY <1>3, CellFields, PlacesOfSeq
<1>. HIDE DEF n, t
<1>6. G = F \ E /\ st \subseteq DOMAIN h2 /\ DOMAIN h2 = D \ E
  BY <1>1, <1>3, <1>4
<1>7. \A x \in D \ E : h2[x] = r[x]
  BY <1>3
<1>8. ASSUME NEW x \in G
      PROVE  /\ IsInjective(h2[x].subs)
             /\ \A y \in Range(h2[x].subs) : y \in G /\ h2[y].parent = x
  <2>1. x \in F /\ x \in D \ E /\ h2[x] = r[x]
    BY <1>6, <1>7
  <2>2. ASSUME NEW y \in Range(r[x].subs)  PROVE y \in G /\ h2[y].parent = x
    <3>1. y \in F /\ y \notin E /\ r[y].parent = x
      BY <1>4, <2>1
    <3>. QED  BY <1>6, <1>7, <3>1
  <2>. QED  BY <1>4, <2>1, <2>2
<1>9. \A y \in Range(t) : y \in F /\ y \notin E /\ y \in G /\ y # n
  <2>1. \A y \in Range(t) : y \in F
    BY <1>2, RangeAt, PlacesOfSeq
  <2>. QED  BY <1>2, <1>4, <1>6, <2>1
<1>10. t \in Seq(G)
  <2>1. \A k \in 1..Len(t) : t[k] \in G
    BY <1>2, <1>9, RangeHas
  <2>2. t = [k \in 1..Len(t) |-> t[k]] /\ Len(t) \in Nat
    BY <1>2
  <2>. HIDE DEF G
  <2>3. t \in [1..Len(t) -> G]
    BY <2>1, <2>2
  <2>. QED  BY <2>2, <2>3
<1>11. ASSUME NEW x \in D, NEW y \in Range(h[x].subs), y # n  PROVE y \in Range(r[x].subs)
  <2>1. PICK i \in 1..Len(h[x].subs) : h[x].subs[i] = y
    BY <1>5, RangeAt
  <2>2. i \in 1..Len(r[x].subs) /\ r[x].subs[i] = y
    BY <1>3, <1>11, <2>1
  <2>. QED  BY <1>5, <2>2, RangeHas
<1>12. ASSUME NEW y \in Range(t)
       PROVE  /\ h2[y].parent \notin G
              /\ h2[y].parent # NULL => y \in Range(h2[h2[y].parent].subs)
  <2>. DEFINE q == h[y].parent
  <2>1. h2[y].parent = q /\ y # n
    BY <1>3, <1>6, <1>7, <1>9
  <2>2. y \in Range(pend) /\ q \notin F /\ (q # NULL => y \in Range(h[q].subs))
    BY <1>1, <1>2
  <2>3. q # NULL => q \in D /\ q \notin E /\ h2[q] = r[q]
    BY <1>4, <1>5, <1>7, <1>9, <2>2
  <2>4. q # NULL => y \in Range(r[q].subs)
    BY <1>11, <2>1, <2>2, <2>3
  <2>. QED  BY <1>6, <2>1, <2>2, <2>3, <2>4
<1>13. ASSUME NEW x \in G \ Range(t)
       PROVE  h2[x].parent \in G /\ x \in Range(h2[h2[x].parent].subs)
  <2>. DEFINE q == h[x].parent
  <2>1. x \in F /\ x \notin E /\ x # n /\ x \notin Range(pend)
    BY <1>2, <1>4, <1>6
  <2>2. h2[x].parent = q /\ r[x].parent = q
    BY <1>3, <1>6, <1>7, <2>1
  <2>3. q \in F /\ x \in Range(h[q].subs)
    BY <1>1, <2>1
  <2>4. q \notin E
    BY <1>4, <2>1, <2>2
  <2>5. x \in Range(r[q].subs)
    BY <1>11, <2>1, <2>3
  <2>. QED  BY <1>6, <1>7, <2>2, <2>3, <2>4, <2>5
<1>14. ASSUME NEW x \in st
       PROVE  /\ h2[x].parent \in st \cup {NULL}
              /\ \A i \in DOMAIN h2[x].subs :
                   \/ h2[x].subs[i] \in st
                   \/ /\ h2[x].subs[i] \in Range(t) /\ h2[h2[x].subs[i]].parent = x
                      /\ \A j \in DOMAIN h2[x].subs : h2[x].subs[j] = h2[x].subs[i] => j = i
  <2>1. x \in D /\ h2[x] = r[x]
    BY <1>1, <1>4, <1>7
  <2>2. r[x].parent \in st \cup {NULL}
    BY <1>3, <2>1
  <2>3. /\ DOMAIN r[x].subs = DOMAIN h[x].subs
        /\ \A i \in DOMAIN h[x].subs :
             r[x].subs[i] = IF h[x].subs[i] = n THEN new ELSE h[x].subs[i]
    BY <1>3, <1>5, <2>1
  <2>4. ASSUME NEW i \in DOMAIN h[x].subs, r[x].subs[i] \notin st
        PROVE  /\ r[x].subs[i] \in Range(t) /\ h2[r[x].subs[i]].parent = x
               /\ \A j \in DOMAIN h[x].subs : r[x].subs[j] = r[x].subs[i] => j = i
    <3>. DEFINE y == h[x].subs[i]
    <3>1. y # n /\ r[x].subs[i] = y
      BY <2>3, <2>4
    <3>2. /\ y \in Range(pend) /\ h[y].parent = x
          /\ \A j \in DOMAIN h[x].subs : h[x].subs[j] = y => j = i
      BY <1>1, <2>4, <3>1
    <3>3. y \in Range(t)
      BY <1>2, <3>1, <3>2
    <3>4. h2[y].parent = x
      <4>1. y \in D \ E /\ y \notin st
        BY <1>9, <3>3
      <4>. QED  BY <1>3, <1>7, <3>1, <3>2, <4>1
    <3>5. ASSUME NEW j \in DOMAIN h[x].subs, r[x].subs[j] = y  PROVE j = i
      <4>1. y # new
        BY <2>4, <3>1
      <4>2. h[x].subs[j] = y
        BY <2>3, <3>5, <4>1
      <4>. QED  BY <3>2, <4>2
    <3>. QED  BY <3>1, <3>3, <3>4, <3>5
  <2>. QED  BY <2>1, <2>2, <2>3, <2>4
<1>15. IsInjective(t)
  BY <1>2
<1>. QED  BY <1>6, <1>8, <1>10, <1>12, <1>13, <1>14, <1>15 DEF Own, t, n

(* Nodes that stay as they are keep their hashes when others are freed.    *)
LEMMA KeptHashes ==
  ASSUME NEW r, Shape(r), NEW H, Hashes(r, H), NEW h2, Shape(h2),
         DOMAIN h2 \subseteq DOMAIN r, \A x \in DOMAIN h2 : h2[x] = r[x]
  PROVE  /\ \A x \in DOMAIN h2 : H[x] = Walk(LabelOf(h2), SubsOf(h2), Same(Labels), H, x)
         /\ Acyclic(h2)
<1>1. ASSUME NEW x \in DOMAIN h2
      PROVE  /\ SubsOf(h2)[x] = SubsOf(r)[x] /\ SubsOf(r)[x] = r[x].subs
             /\ LabelOf(h2)[x] = LabelOf(r)[x]
  BY DEF SubsOf, LabelOf
<1>2. ASSUME NEW x \in DOMAIN h2
      PROVE  H[x] = Walk(LabelOf(h2), SubsOf(h2), Same(Labels), H, x)
  <2>1. H[x] = Walk(LabelOf(r), SubsOf(r), Same(Labels), H, x)
    BY DEF Hashes
  <2>2. Walk(LabelOf(r), SubsOf(r), Same(Labels), H, x) =
        Walk(LabelOf(h2), SubsOf(h2), Same(Labels), H, x)
    BY <1>1, WalkSame
  <2>. QED  BY <2>1, <2>2
<1>3. PICK b : Ranked(DOMAIN r, SubsOf(r), [x \in DOMAIN r |-> Len(H[x])], b)
  BY HashedAcyclic
<1>. DEFINE rk == [x \in DOMAIN r |-> Len(H[x])]
<1>4. Ranked(DOMAIN h2, SubsOf(h2), rk, b)
  <2>. HIDE DEF rk
  <2>. QED  BY <1>1, <1>3 DEF Ranked, rk
<1>5. Acyclic(h2)
  BY <1>4 DEF Acyclic
<1>. QED  BY <1>2, <1>5

(* chunk_store_take_node() of a duplicate n, on the heap: r has the stored *)
(* node in the place of n, and E is freed.                                 *)
SharedHeap(n, st, new, H, r, E) ==
  /\ st \subseteq DOMAIN heap /\ n \in DOMAIN heap \ st /\ n \in Range(pending)
  /\ new \in st /\ H[n] = H[new]
  /\ Patched(heap, r, st, n, new)
  /\ Shape(r) /\ Hashes(r, H)
  /\ FreedApart(r, st, n, E, pending)
  /\ DOMAIN heap' = DOMAIN r \ E /\ Shape(heap')
  /\ \A x \in DOMAIN r \ E : heap'[x] = r[x]

(* Only what is below the duplicate is freed.                              *)
LEMMA SharesHeap ==
  IInv /\ TakeSeen =>
    LET n == Head(pending)
        new == seen[HashOf(n)]
        r == ReplaceSubnode(heap, n, new)
    IN  SharedHeap(n, Range(seen), new, [x \in DOMAIN heap |-> hash_node(CloneOf(heap)[x])],
                   r, Freed(r, n))
<1>. SUFFICES ASSUME IInv, TakeSeen
              PROVE  LET n == Head(pending)
                         new == seen[HashOf(n)]
                         r == ReplaceSubnode(heap, n, new)
                     IN  SharedHeap(n, Range(seen), new,
                                    [x \in DOMAIN heap |-> hash_node(CloneOf(heap)[x])],
                                    r, Freed(r, n))
  OBVIOUS
<1>. DEFINE n == Head(pending)
            st == Range(seen)
            k == HashOf(n)
            new == seen[k]
            r == ReplaceSubnode(heap, n, new)
            D == DOMAIN heap
            H == [x \in D |-> hash_node(CloneOf(heap)[x])]
            E == Freed(r, n)
<1>1. /\ Shape(heap) /\ Acyclic(heap) /\ Own(heap, st, pending)
      /\ Lists(heap, st, chunks) /\ Seen(heap, seen)
  BY DEF IInv
<1>2. /\ pending # <<>> /\ k \in DOMAIN seen
      /\ heap' = Restrict(r, DOMAIN r \ E)
      /\ pending' = Tail(pending)
      /\ chunks' = chunks /\ seen' = seen
  BY DEF TakeSeen, Freed
<1>3. st \subseteq D /\ n \in D \ st /\ n \in Range(pending)
  <2>1. st \subseteq D /\ pending \in Seq(D \ st) /\ IsInjective(pending)
    BY <1>1 DEF Own
  <2>. QED  BY <1>2, <2>1, FirstPending
<1>4. new \in st /\ new \in D /\ hash_node(CloneOf(heap)[new]) = k
  BY <1>1, <1>2 DEF Seen, Range
<1>5. Hashes(heap, H)
  <2>1. PICK rk, b : Ranked(D, SubsOf(heap), rk, b)
    BY <1>1 DEF Acyclic
  <2>. QED  BY <1>1, <2>1, HashOfClone
<1>6. H[n] = H[new]
  BY <1>3, <1>4 DEF HashOf
<1>. HIDE DEF H, k, new, n, st
<1>8. heap[n].label = heap[new].label
  BY <1>1, <1>3, <1>4, <1>5, <1>6, HashFacts
<1>9. Patched(heap, r, st, n, new)
  BY <1>1, <1>3, <1>4, <1>8, PatchedIs
<1>. HIDE DEF r, D
<1>10. Shape(r) /\ Hashes(r, H)
  BY <1>1, <1>3, <1>4, <1>5, <1>6, <1>9, PatchedHashes DEF D
<1>11. PICK b : Ranked(DOMAIN r, SubsOf(r), [x \in DOMAIN r |-> Len(H[x])], b)
  BY <1>10, HashedAcyclic
<1>12. FreedApart(r, st, n, E, pending)
  BY <1>1, <1>3, <1>4, <1>9, <1>10, <1>11, FreedIsApart
<1>. HIDE DEF E
<1>13. /\ DOMAIN heap' = DOMAIN r \ E
       /\ \A x \in DOMAIN r \ E : heap'[x] = r[x]
       /\ Shape(heap')
  <2>. DEFINE h2 == Restrict(r, DOMAIN r \ E)
  <2>1. /\ DOMAIN h2 = DOMAIN r \ E
        /\ \A x \in DOMAIN r \ E : h2[x] = r[x]
        /\ Shape(h2)
    BY <1>10, <1>12, FreedShape
  <2>2. heap' = h2
    BY <1>2
  <2>. HIDE DEF h2
  <2>. QED  BY <2>1, <2>2
<1>. QED  BY <1>3, <1>4, <1>6, <1>9, <1>10, <1>12, <1>13 DEF SharedHeap, n, st, k, new, r, D, H, E

(* chunk_store_take_node() of a duplicate.                                 *)
LEMMA SharesStore == IInv /\ TakeSeen => IInv'
<1>. SUFFICES ASSUME IInv, TakeSeen  PROVE IInv'
  OBVIOUS
<1>. DEFINE n == Head(pending)
            st == Range(seen)
            new == seen[HashOf(n)]
            r == ReplaceSubnode(heap, n, new)
            D == DOMAIN heap
            H == [x \in D |-> hash_node(CloneOf(heap)[x])]
            E == Freed(r, n)
<1>1. /\ Shape(heap) /\ Acyclic(heap) /\ Own(heap, st, pending)
      /\ Lists(heap, st, chunks) /\ Seen(heap, seen)
  BY DEF IInv
<1>2. /\ pending # <<>> /\ pending' = Tail(pending)
      /\ chunks' = chunks /\ seen' = seen
  BY DEF TakeSeen
<1>3. SharedHeap(n, st, new, H, r, E)
  BY SharesHeap
<1>7. \A j \in DOMAIN seen : seen[j] \in D /\ H[seen[j]] = j
  BY <1>1 DEF Seen
<1>. HIDE DEF n, st, new, r, D, H, E
<1>4. st \subseteq D /\ new \in st
  BY <1>3 DEF SharedHeap, D
<1>9. Patched(heap, r, st, n, new)
  BY <1>3 DEF SharedHeap
<1>10. Shape(r) /\ Hashes(r, H)
  BY <1>3 DEF SharedHeap
<1>12. FreedApart(r, st, n, E, pending)
  BY <1>3 DEF SharedHeap
<1>13. /\ DOMAIN heap' = DOMAIN r \ E
       /\ \A x \in DOMAIN r \ E : heap'[x] = r[x]
       /\ Shape(heap')
  BY <1>3 DEF SharedHeap
<1>14. Own(heap', st, pending')
  BY <1>1, <1>2, <1>4, <1>9, <1>10, <1>12, <1>13, OwnFreed DEF n
<1>15. /\ DOMAIN r = D /\ \A x \in D : r[x].label = heap[x].label
  BY <1>9 DEF Patched, D
<1>16. \A x \in st : x \in DOMAIN heap' /\ heap'[x].label = heap[x].label
  <2>1. st \subseteq DOMAIN heap'
    BY <1>14 DEF Own
  <2>. QED  BY <1>4, <1>13, <1>15, <2>1
<1>17. Lists(heap', st, chunks)
  <2>1. ASSUME NEW id \in DOMAIN chunks, NEW x \in Range(chunks[id])
        PROVE  IdOf[heap'[x].label] = id
    <3>1. x \in st
      BY <1>1, RangeAt, PlacesOfSeq DEF Lists
    <3>. QED  BY <1>1, <1>16, <3>1 DEF Lists
  <2>. QED  BY <1>1, <2>1 DEF Lists
<1>18. /\ \A x \in DOMAIN heap' :
            H[x] = Walk(LabelOf(heap'), SubsOf(heap'), Same(Labels), H, x)
       /\ Acyclic(heap')
  BY <1>10, <1>13, KeptHashes
<1>19. \A x \in DOMAIN heap' : hash_node(CloneOf(heap')[x]) = H[x]
  BY <1>13, <1>18, HashIs
<1>20. Seen(heap', seen)
  <2>1. \A j \in DOMAIN seen : seen[j] \in st
    BY Zenon DEF st, Range
  <2>. QED  BY <1>7, <1>16, <1>19, <2>1 DEF Seen
<1>. QED  BY <1>2, <1>13, <1>14, <1>17, <1>18, <1>20 DEF IInv, st

-----------------------------------------------------------------------------
(* The order of the positions does not depend on what the nodes carry.     *)
LEMMA SameOrder ==
  ASSUME NEW S
  PROVE  T!InOrder(S) = InOrder(S)
BY Zenon DEF T!InOrder, InOrder, T!Cardinality, Cardinality

(* A finite set of positions in ascending order: each of them once.        *)
LEMMA InOrderFacts ==
  ASSUME NEW N \in Nat, NEW S \in SUBSET (1..N)
  PROVE  LET q == T!InOrder(S) IN
         /\ q \in Seq(S) /\ Len(q) = Cardinality(S) /\ Cardinality(S) \in Nat
         /\ IsInjective(q) /\ Range(q) = S
<1>. DEFINE c == Cardinality(S)
            q == T!InOrder(S)
            f(k) == CHOOSE e \in S : Cardinality({d \in S : d <= e}) = k
<1>1. IsFiniteSet(S) /\ c \in Nat
  <2>1. IsFiniteSet(1..N)
    BY FS_Interval
  <2>. QED  BY <2>1, FS_Subset, FS_CardinalityType
<1>2. q = [k \in 1..c |-> f(k)]
  BY SameOrder DEF InOrder
<1>3. ASSUME NEW k \in 1..c  PROVE q[k] \in S /\ Cardinality({d \in S : d <= q[k]}) = k
  <2>1. \E e \in S : Cardinality({d \in S : d <= e}) = k
    BY RankExists
  <2>2. f(k) \in S /\ Cardinality({d \in S : d <= f(k)}) = k
    BY <2>1
  <2>3. q[k] = f(k)
    BY <1>2
  <2>. HIDE DEF q, f
  <2>. QED  BY <2>2, <2>3
<1>. HIDE DEF f
<1>4. DOMAIN q = 1..c
  BY <1>2
<1>. HIDE DEF q, c
<1>5. IsInjective(q)
  <2>. SUFFICES ASSUME NEW i \in 1..c, NEW j \in 1..c, q[i] = q[j]  PROVE i = j
    BY <1>4 DEF IsInjective
  <2>. QED  BY <1>3
<1>6. q \in [1..c -> S]
  BY <1>2, <1>3, <1>4
<1>7. q \in Injection(1..c, S)
  BY <1>4, <1>5, <1>6 DEF Injection, IsInjective
<1>8. Cardinality(1..c) = Cardinality(S)
  BY <1>1, FS_Interval DEF c
<1>9. q \in Surjection(1..c, S)
  BY <1>1, <1>7, <1>8, FS_Injection
<1>10. Range(q) = S
  <2>1. \A e \in S : \E i \in 1..c : q[i] = e
    BY <1>9 DEF Surjection
  <2>. QED  BY <1>3, <1>4, <2>1, Zenon DEF Range
<1>11. q \in Seq(S) /\ Len(q) = c
  BY <1>1, <1>4, <1>6
<1>. QED  BY <1>1, <1>5, <1>10, <1>11 DEF q, c

(* malloc(): as many addresses as asked for, all different, none in use.   *)
LEMMA MallocFacts ==
  ASSUME IsFiniteSet(DOMAIN heap), NEW L \in Nat
  PROVE  LET a == Malloc(L) IN
         /\ a \in Seq(Nat \ {0}) /\ Len(a) = L /\ IsInjective(a)
         /\ IsFiniteSet(Range(a)) /\ Range(a) \subseteq Nat \ {0}
         /\ Range(a) \cap DOMAIN heap = {}
<1>. DEFINE D == DOMAIN heap
            N == Cardinality(D) + L
            S == (1..N) \ D
            q == T!InOrder(S)
            a == SubSeq(q, 1, L)
<1>1. Cardinality(D) \in Nat /\ N \in Nat
  BY FS_CardinalityType
<1>2. /\ q \in Seq(S) /\ Len(q) = Cardinality(S) /\ Cardinality(S) \in Nat
      /\ IsInjective(q) /\ Range(q) = S
  <2>1. S \in SUBSET (1..N)
    OBVIOUS
  <2>. HIDE DEF S, N
  <2>. QED  BY <1>1, <2>1, InOrderFacts
<1>3. Cardinality(S) >= L
  <2>1. IsFiniteSet(1..N) /\ Cardinality(1..N) = N
    <3>. HIDE DEF N
    <3>. QED  BY <1>1, FS_Interval
  <2>2. Cardinality(S) = Cardinality(1..N) - Cardinality((1..N) \cap D)
    BY <2>1, FS_Difference
  <2>3. (1..N) \cap D \in SUBSET D
    OBVIOUS
  <2>4. IsFiniteSet((1..N) \cap D) /\ Cardinality((1..N) \cap D) <= Cardinality(D)
    BY <2>3, FS_Subset
  <2>5. Cardinality((1..N) \cap D) \in Nat
    BY <2>4, FS_CardinalityType
  <2>6. Cardinality(S) = N - Cardinality((1..N) \cap D)
    BY <2>1, <2>2
  <2>. QED  BY <1>1, <2>4, <2>5, <2>6
<1>4. S \subseteq Nat \ {0}
  BY <1>1
<1>5. IsFiniteSet(S)
  <2>1. IsFiniteSet(1..N)
    <3>. HIDE DEF N
    <3>. QED  BY <1>1, FS_Interval
  <2>. QED  BY <2>1, FS_Difference
<1>6. S \cap D = {}
  OBVIOUS
<1>. HIDE DEF q, S, N
<1>7. /\ a \in Seq(S) /\ Len(a) = L /\ \A i \in 1..L : a[i] = q[i] /\ i \in 1..Len(q)
  <2>1. \A i \in 1..L : i \in 1..Len(q) /\ q[i] \in S
    BY <1>2, <1>3, PlacesOfSeq
  <2>2. /\ a \in Seq(S) /\ Len(a) = IF 1 <= L THEN L-1+1 ELSE 0
        /\ \A i \in 1..(L-1+1) : a[i] = q[1+i-1]
    BY <2>1, SubSeqProperties
  <2>3. Len(a) = L
    BY <2>2
  <2>4. ASSUME NEW i \in 1..L  PROVE a[i] = q[i]
    <3>1. i \in 1..(L-1+1) /\ 1+i-1 = i
      OBVIOUS
    <3>. QED  BY <2>2, <3>1
  <2>. QED  BY <2>1, <2>2, <2>3, <2>4
<1>. HIDE DEF a
<1>8. DOMAIN a = 1..L /\ DOMAIN q = 1..Len(q)
  BY <1>2, <1>7, PlacesOfSeq
<1>9. IsInjective(a)
  <2>. SUFFICES ASSUME NEW i \in 1..L, NEW j \in 1..L, a[i] = a[j]  PROVE i = j
    BY <1>8 DEF IsInjective
  <2>. QED  BY <1>2, <1>7, <1>8 DEF IsInjective
<1>10. Range(a) \subseteq S
  BY <1>7, RangeAt, PlacesOfSeq
<1>11. IsFiniteSet(Range(a))
  BY <1>5, <1>10, FS_Subset
<1>12. a \in Seq(Nat \ {0})
  <2>1. \A i \in 1..L : a[i] \in Nat \ {0}
    BY <1>4, <1>7, PlacesOfSeq
  <2>2. a = [i \in 1..L |-> a[i]]
    BY <1>7
  <2>3. a \in [1..L -> Nat \ {0}]
    BY <2>1, <2>2
  <2>. QED  BY <2>3
<1>13. /\ a \in Seq(Nat \ {0}) /\ Len(a) = L /\ IsInjective(a)
       /\ IsFiniteSet(Range(a)) /\ Range(a) \subseteq Nat \ {0}
       /\ Range(a) \cap DOMAIN heap = {}
  BY <1>4, <1>6, <1>7, <1>9, <1>10, <1>11, <1>12
<1>. QED  BY <1>13 DEF Malloc, a, q, S, N

(* Every node of a tree but the root has one parent, before it.            *)
LEMMA OneParent ==
  ASSUME NEW t \in Seq(Item), T!IsTree(t), NEW k \in 2..Len(t)
  PROVE  LET p == T!parent(t, k) IN
         /\ p \in 1..Len(t) /\ p < k /\ T!IsParent(t, p, k)
         /\ \A j \in 1..Len(t) : T!IsParent(t, j, k) => j = p
<1>0. Len(t) \in Nat /\ k \in Nat /\ k >= 2 /\ k <= Len(t)
  OBVIOUS
<1>1. \A i \in 1..Len(t) : t[i].depth \in Nat
  <2>1. \A i \in 1..Len(t) : t[i] \in Item
    BY PlacesOfSeq
  <2>. QED  BY <2>1 DEF Item
<1>2. /\ t[1].depth = 0
      /\ \A i \in 2..Len(t) : t[i].depth \in 1..(t[i-1].depth + 1)
  BY DEF T!IsTree
<1>. DEFINE d == t[k].depth
            B == {i \in 1..(k-1) : t[i].depth < d}
            rk == [i \in Nat |-> i]
<1>3. d \in Nat /\ d >= 1
  <2>1. k - 1 \in 1..Len(t)
    BY <1>0
  <2>2. t[k-1].depth \in Nat /\ d \in 1..(t[k-1].depth + 1)
    BY <1>1, <1>2, <2>1
  <2>. QED  BY <2>2
<1>. HIDE DEF d
<1>4. 1 \in B
  BY <1>0, <1>2, <1>3
<1>5. PICK p \in B : \A i \in B : i <= p
  <2>1. \A i \in B : i \in Nat /\ rk[i] = i /\ rk[i] \in Nat /\ rk[i] <= k
    BY <1>0
  <2>2. B # {}
    BY <1>4
  <2>. HIDE DEF B, rk
  <2>3. PICK p \in B : \A i \in B : rk[i] <= rk[p]
    BY <1>0, <2>1, <2>2, HighestNode
  <2>. QED  BY <2>1, <2>3
<1>6. p \in 1..(k-1) /\ p \in Nat /\ p < k /\ t[p].depth < d /\ t[p].depth \in Nat
  BY <1>0, <1>1, <1>5
<1>7. ASSUME NEW i \in (p+1)..(k-1)  PROVE t[i].depth >= d
  <2>1. i \in 1..(k-1) /\ ~ (i <= p) /\ t[i].depth \in Nat
    BY <1>0, <1>1, <1>6
  <2>2. i \notin B
    BY <1>5, <2>1
  <2>. QED  BY <1>3, <2>1, <2>2
<1>8. t[p].depth = d - 1
  <2>1. p + 1 \in 2..Len(t) /\ (p + 1) - 1 = p
    BY <1>0, <1>6
  <2>2. t[p+1].depth \in 1..(t[p].depth + 1)
    BY <1>2, <2>1
  <2>3. t[p+1].depth >= d
    <3>1. CASE p + 1 = k
      BY <1>3, <3>1 DEF d
    <3>2. CASE p + 1 # k
      BY <1>0, <1>6, <1>7, <3>2
    <3>. QED  BY <3>1, <3>2
  <2>. QED  BY <1>3, <1>6, <2>2, <2>3
<1>9. T!IsParent(t, p, k)
  BY <1>6, <1>7, <1>8 DEF T!IsParent, d
<1>10. ASSUME NEW i, NEW j, T!IsParent(t, i, k), T!IsParent(t, j, k)  PROVE i = j
  <2>1. /\ i \in 1..(k-1) /\ j \in 1..(k-1) /\ t[i].depth = d - 1 /\ t[j].depth = d - 1
        /\ \A m \in (i+1)..(k-1) : t[m].depth >= d
        /\ \A m \in (j+1)..(k-1) : t[m].depth >= d
    BY <1>10 DEF T!IsParent, d
  <2>2. ~ (d - 1 >= d)
    BY <1>3
  <2>3. i \notin (j+1)..(k-1) /\ j \notin (i+1)..(k-1)
    BY <2>1, <2>2
  <2>. QED  BY <1>0, <2>1, <2>3
<1>11. T!parent(t, k) = p
  <2>1. T!parent(t, k) = CHOOSE i \in 1..(k-1) : T!IsParent(t, i, k)
    BY DEF T!parent
  <2>. QED  BY <1>6, <1>9, <1>10, <2>1
<1>12. p \in 1..Len(t)
  BY <1>0, <1>6
<1>. QED  BY <1>6, <1>9, <1>10, <1>11, <1>12

-----------------------------------------------------------------------------
(* The subnodes of the node k of a tree, and the new node for it.          *)
Kids(t, k) == {j \in DOMAIN t : T!IsParent(t, k, j)}

(* The new node for the node k of t.                                       *)
NodeFor(t, a, k) ==
  [label  |-> t[k].id,
   subs   |-> MapSeq(a, T!InOrder(Kids(t, k))),
   parent |-> IF k = 1 THEN NULL ELSE a[T!parent(t, k)]]

(* Its fields.                                                             *)
LEMMA NodeForFields ==
  ASSUME NEW t, NEW a, NEW k
  PROVE  /\ NodeFor(t, a, k).label = t[k].id
         /\ NodeFor(t, a, k).subs = MapSeq(a, T!InOrder(Kids(t, k)))
         /\ NodeFor(t, a, k).parent = IF k = 1 THEN NULL ELSE a[T!parent(t, k)]
         /\ NodeFor(t, a, k) = [label  |-> NodeFor(t, a, k).label,
                                subs   |-> NodeFor(t, a, k).subs,
                                parent |-> NodeFor(t, a, k).parent]
BY DEF NodeFor

(* The new node at the address a[k] is the one for the node k.             *)
LEMMA NewNodeIs ==
  ASSUME NEW t, NEW a \in Seq(Nat \ {0}), Len(a) = Len(t), IsInjective(a)
  PROVE  \A k \in 1..Len(t) : NewNodes(t, a)[a[k]] = NodeFor(t, a, k)
<1>. DEFINE L == Len(t)
            new == NewNodes(t, a)
<1>1. DOMAIN a = 1..L /\ \A k \in 1..L : a[k] \in Range(a)
  BY PlacesOfSeq, RangeHas
<1>2. \A i, j \in 1..L : a[i] = a[j] => i = j
  BY <1>1 DEF IsInjective
<1>3. ASSUME NEW k \in 1..L  PROVE new[a[k]] = NodeFor(t, a, k)
  <2>. DEFINE c == CHOOSE j \in DOMAIN a : a[j] = a[k]
  <2>1. c = k
    <3>1. c \in 1..L /\ a[c] = a[k]
      BY <1>1
    <3>. HIDE DEF c
    <3>. QED  BY <1>2, <3>1
  <2>2. new[a[k]] = NodeFor(t, a, c)
    BY <1>1 DEF NewNodes, NodeFor, Kids, MapSeq
  <2>. HIDE DEF c, new
  <2>. QED  BY <2>1, <2>2
<1>. QED  BY <1>3

(* node_clone() of the tree t makes a tree on the heap at the addresses a, *)
(* the nodes of which know their parents.                                  *)
Planted(new, t, a) ==
  /\ DOMAIN new = Range(a) /\ new \in [Range(a) -> Cell(Range(a))]
  /\ \A k \in 1..Len(t) :
       /\ IsInjective(new[a[k]].subs)
       /\ \A y \in Range(new[a[k]].subs) :
            \E j \in 1..Len(t) : y = a[j] /\ k < j /\ new[y].parent = a[k]
  /\ new[a[1]].parent = NULL
  /\ \A k \in 2..Len(t) :
       \E p \in 1..Len(t) : new[a[k]].parent = a[p] /\ a[k] \in Range(new[a[p]].subs)

(* node_clone() reaches every node of the tree once.                       *)
LEMMA ClonePlants ==
  ASSUME NEW t \in Seq(Item), T!IsTree(t),
         NEW a \in Seq(Nat \ {0}), Len(a) = Len(t), IsInjective(a)
  PROVE  Planted(NewNodes(t, a), t, a)
<1>. DEFINE L == Len(t)
            A == Range(a)
            new == NewNodes(t, a)
<1>1. /\ L \in Nat /\ DOMAIN a = 1..L /\ DOMAIN t = 1..L
      /\ \A k \in 1..L : a[k] \in A /\ a[k] \in Nat \ {0} /\ t[k] \in Item
  BY PlacesOfSeq, RangeHas
<1>2. L >= 1
  BY DEF T!IsTree
<1>3. \A k \in 1..L : t[k].id \in Labels
  BY <1>1 DEF Item
<1>4. \A x \in A : \E k \in 1..L : a[k] = x
  BY RangeAt
<1>5. \A i, j \in 1..L : a[i] = a[j] => i = j
  BY <1>1 DEF IsInjective
<1>6. \A k \in 1..L : new[a[k]] = NodeFor(t, a, k)
  BY NewNodeIs
<1>7. DOMAIN new = A /\ new = [x \in A |-> new[x]]
  BY DEF NewNodes
<1>. HIDE DEF new
<1>8. ASSUME NEW k \in 1..L
      PROVE  LET q == T!InOrder(Kids(t, k)) IN
             /\ q \in Seq(1..L) /\ IsInjective(q) /\ Range(q) = Kids(t, k)
  <2>. DEFINE q == T!InOrder(Kids(t, k))
  <2>1. Kids(t, k) \in SUBSET (1..L)
    BY <1>1 DEF Kids
  <2>2. q \in Seq(Kids(t, k)) /\ IsInjective(q) /\ Range(q) = Kids(t, k)
    BY <1>1, <2>1, InOrderFacts
  <2>. HIDE DEF q
  <2>3. \A i \in 1..Len(q) : q[i] \in 1..L
    BY <2>1, <2>2, PlacesOfSeq
  <2>4. q = [i \in 1..Len(q) |-> q[i]] /\ Len(q) \in Nat
    BY <2>2
  <2>5. q \in [1..Len(q) -> 1..L]
    BY <2>3, <2>4
  <2>6. q \in Seq(1..L)
    BY <2>4, <2>5, SeqOfFun
  <2>. QED  BY <2>2, <2>6 DEF q
<1>9. ASSUME NEW k \in 1..L
      PROVE  /\ new[a[k]].subs \in Seq(A) /\ IsInjective(new[a[k]].subs)
             /\ \A y : y \in Range(new[a[k]].subs) <=> \E j \in Kids(t, k) : y = a[j]
  <2>. DEFINE q == T!InOrder(Kids(t, k))
              s == MapSeq(a, q)
  <2>1. q \in Seq(1..L) /\ IsInjective(q) /\ Range(q) = Kids(t, k)
    BY <1>8
  <2>. HIDE DEF q
  <2>2. /\ DOMAIN q = 1..Len(q) /\ Len(q) \in Nat /\ \A i \in 1..Len(q) : q[i] \in 1..L
    BY <2>1, PlacesOfSeq
  <2>3. s = [i \in 1..Len(q) |-> a[q[i]]]
    BY <2>2 DEF MapSeq
  <2>4. \A i \in 1..Len(q) : s[i] = a[q[i]] /\ a[q[i]] \in A
    BY <1>1, <2>2, <2>3
  <2>5. DOMAIN s = 1..Len(q)
    BY <2>3
  <2>. HIDE DEF s
  <2>6. s \in Seq(A) /\ Len(s) = Len(q)
    <3>1. s \in [1..Len(q) -> A]
      BY <2>3, <2>4
    <3>. QED  BY <2>2, <3>1, SeqOfFun
  <2>7. IsInjective(s)
    <3>. SUFFICES ASSUME NEW i \in 1..Len(q), NEW j \in 1..Len(q), s[i] = s[j]  PROVE i = j
      BY <2>5 DEF IsInjective
    <3>1. q[i] = q[j]
      BY <1>5, <2>2, <2>4
    <3>. QED  BY <2>1, <2>2, <3>1 DEF IsInjective
  <2>8. ASSUME NEW y \in Range(s)  PROVE \E j \in Kids(t, k) : y = a[j]
    <3>1. PICK i \in 1..Len(q) : s[i] = y
      BY <2>6, RangeAt
    <3>2. q[i] \in Range(q)
      BY <2>1, RangeHas
    <3>. QED  BY <2>1, <2>4, <3>1, <3>2
  <2>9. ASSUME NEW j \in Kids(t, k)  PROVE a[j] \in Range(s)
    <3>1. PICK i \in 1..Len(q) : q[i] = j
      BY <2>1, RangeAt
    <3>2. s[i] = a[j] /\ i \in 1..Len(s)
      BY <2>4, <2>6, <3>1
    <3>. QED  BY <2>6, <3>2, RangeHas
  <2>10. new[a[k]].subs = s
    BY <1>6, NodeForFields DEF s, q
  <2>. QED  BY <2>6, <2>7, <2>8, <2>9, <2>10
<1>10. ASSUME NEW k \in 1..L, NEW j \in Kids(t, k)
       PROVE  j \in 1..L /\ k < j /\ new[a[j]].parent = a[k]
  <2>1. j \in 1..L /\ T!IsParent(t, k, j)
    BY <1>1 DEF Kids
  <2>2. k \in 1..(j-1)
    BY <2>1 DEF T!IsParent
  <2>3. j \in 2..L /\ k < j /\ j # 1
    BY <1>1, <2>1, <2>2
  <2>4. T!parent(t, j) = k
    BY <2>1, <2>3, OneParent
  <2>5. new[a[j]].parent = a[k]
    BY <1>6, <2>1, <2>3, <2>4, NodeForFields
  <2>. QED  BY <2>1, <2>3, <2>5
<1>11. ASSUME NEW k \in 2..L
       PROVE  \E p \in 1..L : new[a[k]].parent = a[p] /\ a[k] \in Range(new[a[p]].subs)
  <2>. DEFINE p == T!parent(t, k)
  <2>1. p \in 1..L /\ T!IsParent(t, p, k)
    BY OneParent
  <2>2. k \in 1..L /\ k # 1 /\ k \in Kids(t, p)
    BY <1>1, <2>1 DEF Kids
  <2>. HIDE DEF p
  <2>3. new[a[k]].parent = a[p]
    BY <1>6, <2>2, NodeForFields DEF p
  <2>. QED  BY <1>9, <2>1, <2>2, <2>3
<1>12. new[a[1]].parent = NULL
  BY <1>1, <1>2, <1>6, NodeForFields
<1>13. ASSUME NEW k \in 1..L  PROVE new[a[k]].parent \in A \cup {NULL}
  <2>1. CASE k = 1
    BY <1>12, <2>1
  <2>2. CASE k # 1
    <3>1. k \in 2..L
      BY <1>1, <2>2
    <3>. QED  BY <1>1, <1>11, <3>1
  <2>. QED  BY <2>1, <2>2
<1>14. ASSUME NEW x \in A  PROVE new[x] \in Cell(A)
  <2>1. PICK k \in 1..L : a[k] = x
    BY <1>4
  <2>2. /\ new[x] = [label |-> t[k].id, subs |-> new[x].subs, parent |-> new[x].parent]
    BY <1>6, <2>1, NodeForFields
  <2>. QED  BY <1>3, <1>9, <1>13, <2>1, <2>2 DEF Cell
<1>15. new \in [A -> Cell(A)]
  BY <1>7, <1>14
<1>16. ASSUME NEW k \in 1..L
       PROVE  /\ IsInjective(new[a[k]].subs)
              /\ \A y \in Range(new[a[k]].subs) :
                   \E j \in 1..L : y = a[j] /\ k < j /\ new[y].parent = a[k]
  <2>1. ASSUME NEW y \in Range(new[a[k]].subs)
        PROVE  \E j \in 1..L : y = a[j] /\ k < j /\ new[y].parent = a[k]
    <3>1. PICK j \in Kids(t, k) : y = a[j]
      BY <1>9
    <3>2. j \in 1..L /\ k < j /\ new[a[j]].parent = a[k]
      BY <1>10
    <3>. QED  BY <3>1, <3>2
  <2>. QED  BY <1>9, <2>1
<1>. QED  BY <1>7, <1>11, <1>12, <1>15, <1>16 DEF Planted, new

(* The clone is put on the heap beside the stored nodes.                   *)
Beside(h, new) ==
  [x \in DOMAIN h \cup DOMAIN new |-> IF x \in DOMAIN new THEN new[x] ELSE h[x]]

(* The new addresses were free, so no old node changes, and the clone has  *)
(* no cycles.                                                              *)
LEMMA PlantedShape ==
  ASSUME NEW h, Shape(h), Acyclic(h), NEW t \in Seq(Item), Len(t) >= 1,
         NEW a \in Seq(Nat \ {0}), Len(a) = Len(t), IsInjective(a),
         IsFiniteSet(Range(a)), Range(a) \cap DOMAIN h = {},
         NEW new, Planted(new, t, a)
  PROVE  LET g == Beside(h, new) IN
         /\ DOMAIN g = DOMAIN h \cup Range(a)
         /\ \A x \in DOMAIN h : g[x] = h[x]
         /\ \A x \in Range(a) : g[x] = new[x]
         /\ Shape(g) /\ Acyclic(g)
<1>. DEFINE D == DOMAIN h
            A == Range(a)
            L == Len(t)
            g == Beside(h, new)
<1>1. /\ L \in Nat /\ DOMAIN a = 1..L
      /\ \A k \in 1..L : a[k] \in A
      /\ \A x \in A : \E k \in 1..L : a[k] = x
  BY PlacesOfSeq, RangeHas, RangeAt
<1>2. /\ DOMAIN new = A /\ new \in [A -> Cell(A)]
      /\ \A k \in 1..L : \A y \in Range(new[a[k]].subs) : \E j \in 1..L : y = a[j] /\ k < j
  BY DEF Planted
<1>3. D \subseteq Nat \ {0} /\ IsFiniteSet(D) /\ h \in [D -> Cell(D)]
  BY DEF Shape
<1>4. DOMAIN g = D \cup A /\ g = [x \in D \cup A |-> g[x]]
  BY <1>2 DEF Beside
<1>5. \A x \in D : x \notin A /\ g[x] = h[x]
  BY <1>2 DEF Beside
<1>6. \A x \in A : x \notin D /\ g[x] = new[x]
  BY <1>2 DEF Beside
<1>. HIDE DEF g
<1>7. A \subseteq Nat \ {0}
  <2>1. \A k \in 1..L : a[k] \in Nat \ {0}
    BY PlacesOfSeq
  <2>. QED  BY <1>1, <2>1
<1>. HIDE DEF D, A
<1>8. ASSUME NEW x \in D \cup A  PROVE g[x] \in Cell(D \cup A)
  <2>1. CASE x \in D
    <3>1. g[x] \in Cell(D)
      BY <1>3, <1>5, <2>1
    <3>. QED  BY <3>1 DEF Cell
  <2>2. CASE x \in A
    <3>1. g[x] \in Cell(A)
      BY <1>2, <1>6, <2>2
    <3>. QED  BY <3>1 DEF Cell
  <2>. QED  BY <2>1, <2>2
<1>9. g \in [D \cup A -> Cell(D \cup A)]
  BY <1>4, <1>8
<1>10. Shape(g)
  <2>1. IsFiniteSet(D \cup A)
    BY <1>3, FS_Union DEF A
  <2>. QED  BY <1>3, <1>4, <1>7, <1>9, <2>1 DEF Shape
<1>11. PICK rk, b : Ranked(D, SubsOf(h), rk, b)
  BY DEF Acyclic, D
<1>12. /\ b \in Nat /\ \A x \in D : rk[x] \in Nat /\ rk[x] <= b
       /\ \A x \in D : \A i \in DOMAIN h[x].subs : rk[h[x].subs[i]] < rk[x]
  BY <1>11 DEF Ranked, SubsOf, D
<1>. DEFINE idx(x) == CHOOSE k \in 1..L : a[k] = x
            rk2 == [x \in D \cup A |-> IF x \in A THEN L - idx(x) ELSE rk[x]]
<1>13. \A i, j \in 1..L : a[i] = a[j] => i = j
  BY <1>1 DEF IsInjective
<1>14. ASSUME NEW k \in 1..L  PROVE idx(a[k]) = k
  <2>1. idx(a[k]) \in 1..L /\ a[idx(a[k])] = a[k]
    OBVIOUS
  <2>. HIDE DEF idx
  <2>. QED  BY <1>13, <2>1
<1>. HIDE DEF idx
<1>15. ASSUME NEW k \in 1..L  PROVE rk2[a[k]] = L - k
  BY <1>1, <1>14
<1>16. \A x \in D : rk2[x] = rk[x]
  BY <1>5
<1>. HIDE DEF rk2
<1>17. ASSUME NEW x \in D \cup A  PROVE rk2[x] \in Nat /\ rk2[x] <= b + L
  <2>1. CASE x \in D
    <3>1. rk2[x] = rk[x] /\ rk[x] \in Nat /\ rk[x] <= b
      BY <1>12, <1>16, <2>1
    <3>. QED  BY <1>1, <1>12, <3>1
  <2>2. CASE x \in A
    <3>1. PICK k \in 1..L : a[k] = x
      BY <1>1, <2>2
    <3>2. rk2[x] = L - k
      BY <1>15, <3>1
    <3>. QED  BY <1>1, <1>12, <3>2
  <2>. QED  BY <2>1, <2>2
<1>18. ASSUME NEW x \in D \cup A, NEW i \in DOMAIN g[x].subs
       PROVE  rk2[g[x].subs[i]] < rk2[x]
  <2>1. CASE x \in D
    <3>1. h[x].subs \in Seq(D) /\ g[x].subs = h[x].subs
      BY <1>5, <2>1, CellFields DEF D
    <3>2. h[x].subs[i] \in D /\ rk[h[x].subs[i]] < rk[x]
      BY <1>12, <1>18, <2>1, <3>1, PlacesOfSeq
    <3>. QED  BY <1>16, <2>1, <3>1, <3>2
  <2>2. CASE x \in A
    <3>1. PICK k \in 1..L : a[k] = x
      BY <1>1, <2>2
    <3>2. g[x].subs[i] \in Range(new[a[k]].subs)
      <4>1. g[x].subs = new[a[k]].subs
        BY <1>6, <2>2, <3>1
      <4>2. i \in DOMAIN new[a[k]].subs
        BY <1>18, <4>1
      <4>. QED  BY <4>1, <4>2, Zenon DEF Range
    <3>3. PICK j \in 1..L : g[x].subs[i] = a[j] /\ k < j
      BY <1>2, <3>2
    <3>4. rk2[x] = L - k /\ rk2[g[x].subs[i]] = L - j
      BY <1>15, <3>1, <3>3
    <3>. QED  BY <1>1, <3>3, <3>4
  <2>. QED  BY <2>1, <2>2
<1>19. Acyclic(g)
  <2>1. \A x \in D \cup A : SubsOf(g)[x] = g[x].subs
    BY <1>4 DEF SubsOf
  <2>2. b + L \in Nat
    BY <1>1, <1>12
  <2>3. Ranked(DOMAIN g, SubsOf(g), rk2, b + L)
    BY <1>4, <1>17, <1>18, <2>1, <2>2 DEF Ranked
  <2>. QED  BY <2>3 DEF Acyclic
<1>. QED  BY <1>4, <1>5, <1>6, <1>10, <1>19 DEF g, D, A

(* The clone is the only new tree, to be taken from its root.              *)
LEMMA PlantedOwn ==
  ASSUME NEW h, Shape(h), Own(h, DOMAIN h, <<>>),
         NEW t \in Seq(Item), Len(t) >= 1,
         NEW a \in Seq(Nat \ {0}), Len(a) = Len(t), Range(a) \cap DOMAIN h = {},
         NEW new, Planted(new, t, a)
  PROVE  Own(Beside(h, new), DOMAIN h, <<a[1]>>)
<1>. DEFINE A == Range(a)
            L == Len(t)
            pend == <<a[1]>>
            st == DOMAIN h
            g == Beside(h, new)
<1>0. /\ DOMAIN g = DOMAIN h \cup A
      /\ \A x \in DOMAIN h : g[x] = h[x]
      /\ \A x \in A : g[x] = new[x]
  <2>1. DOMAIN new = A
    BY DEF Planted
  <2>. QED  BY <2>1 DEF Beside
<1>. HIDE DEF g
<1>1. /\ L \in Nat /\ DOMAIN a = 1..L /\ 1 \in 1..L
      /\ \A k \in 1..L : a[k] \in A /\ a[k] \in Nat \ {0}
      /\ \A x \in A : \E k \in 1..L : a[k] = x
  <2>1. L \in Nat /\ 1 \in 1..L
    BY PlacesOfSeq
  <2>2. DOMAIN a = 1..L /\ \A k \in 1..L : a[k] \in Nat \ {0}
    BY PlacesOfSeq
  <2>3. /\ \A k \in 1..L : a[k] \in A
        /\ \A x \in A : \E k \in 1..L : a[k] = x
    BY RangeHas, RangeAt
  <2>. QED  BY <2>1, <2>2, <2>3
<1>2. /\ \A k \in 1..L :
           /\ IsInjective(new[a[k]].subs)
           /\ \A y \in Range(new[a[k]].subs) :
                \E j \in 1..L : y = a[j] /\ new[y].parent = a[k]
      /\ new[a[1]].parent = NULL
      /\ \A k \in 2..L :
           \E p \in 1..L : new[a[k]].parent = a[p] /\ a[k] \in Range(new[a[p]].subs)
  <2>1. \A k \in 1..L :
          /\ IsInjective(new[a[k]].subs)
          /\ \A y \in Range(new[a[k]].subs) :
               \E j \in 1..L : y = a[j] /\ k < j /\ new[y].parent = a[k]
    BY DEF Planted
  <2>2. \A k \in 2..L :
          \E p \in 1..L : new[a[k]].parent = a[p] /\ a[k] \in Range(new[a[p]].subs)
    BY DEF Planted
  <2>3. new[a[1]].parent = NULL
    BY DEF Planted
  <2>4. ASSUME NEW k \in 1..L, NEW y \in Range(new[a[k]].subs)
        PROVE  \E j \in 1..L : y = a[j] /\ new[y].parent = a[k]
    BY <2>1, SMTT(30)
  <2>. QED  BY <2>1, <2>2, <2>3, <2>4
<1>3. DOMAIN g \ st = A /\ st \subseteq DOMAIN g
  BY <1>0
<1>4. \A x \in A : x \in Nat \ {0}
  BY <1>1
<1>5. pend \in Seq(A) /\ IsInjective(pend) /\ Range(pend) = {a[1]}
  BY <1>1 DEF IsInjective, Range
<1>. HIDE DEF pend, A
<1>6. \A k \in 1..L : g[a[k]] = new[a[k]]
  BY <1>0, <1>1
<1>7. ASSUME NEW x \in A
      PROVE  /\ IsInjective(g[x].subs)
             /\ \A y \in Range(g[x].subs) : y \in A /\ g[y].parent = x
  <2>1. PICK k \in 1..L : a[k] = x
    BY <1>1
  <2>2. g[x] = new[a[k]]
    BY <1>6, <2>1
  <2>3. ASSUME NEW y \in Range(g[x].subs)  PROVE y \in A /\ g[y].parent = x
    <3>1. PICK j \in 1..L : y = a[j] /\ new[y].parent = a[k]
      BY <1>2, <2>2
    <3>. QED  BY <1>1, <1>6, <2>1, <3>1
  <2>. QED  BY <1>2, <2>2, <2>3
<1>8. ASSUME NEW y \in Range(pend)  PROVE g[y].parent \notin A /\ g[y].parent = NULL
  <2>1. y = a[1] /\ g[y] = new[a[1]]
    BY <1>1, <1>5, <1>6
  <2>2. NULL \notin A
    BY <1>4 DEF NULL
  <2>. QED  BY <1>2, <2>1, <2>2
<1>9. ASSUME NEW x \in A \ Range(pend)
      PROVE  g[x].parent \in A /\ x \in Range(g[g[x].parent].subs)
  <2>1. PICK k \in 1..L : a[k] = x
    BY <1>1
  <2>2. k \in 2..L
    <3>1. k # 1
      BY <1>5, <2>1
    <3>. QED  BY <1>1, <3>1
  <2>3. PICK p \in 1..L : new[a[k]].parent = a[p] /\ a[k] \in Range(new[a[p]].subs)
    BY <1>2, <2>2
  <2>. QED  BY <1>1, <1>6, <2>1, <2>3
<1>10. ASSUME NEW x \in st
       PROVE  /\ g[x].parent \in st \cup {NULL}
              /\ \A i \in DOMAIN g[x].subs : g[x].subs[i] \in st
  <2>1. Range(<<>>) = {}
    BY DEF Range
  <2>2. /\ h[x].parent \in st \cup {NULL}
        /\ \A i \in DOMAIN h[x].subs :
             h[x].subs[i] \in st \/ h[x].subs[i] \in Range(<<>>)
    BY DEF Own
  <2>. QED  BY <1>0, <2>1, <2>2
<1>. QED  BY <1>3, <1>5, <1>7, <1>8, <1>9, <1>10 DEF Own, pend, g

(* chunk_store_add_tree(t), on the heap: the clone is at the addresses a.  *)
AddedHeap(t, a, new) ==
  /\ t \in Seq(Item) /\ T!IsTree(t) /\ Len(t) \in Nat /\ Len(t) >= 1
  /\ a \in Seq(Nat \ {0}) /\ Len(a) = Len(t) /\ IsInjective(a)
  /\ Range(a) \cap DOMAIN heap = {} /\ Planted(new, t, a)
  /\ heap' = Beside(heap, new) /\ DOMAIN heap' = DOMAIN heap \cup Range(a)
  /\ \A x \in DOMAIN heap : heap'[x] = heap[x]
  /\ \A x \in Range(a) : heap'[x] = new[x]
  /\ Shape(heap') /\ Acyclic(heap')

(* The nodes on the heap stay as they are.                                 *)
LEMMA AddsHeap ==
  ASSUME NEW t \in Trees
  PROVE  IInv /\ AddTree(t) =>
           AddedHeap(t, Malloc(Len(t)), NewNodes(t, Malloc(Len(t))))
<1>. SUFFICES ASSUME IInv, AddTree(t)
              PROVE  AddedHeap(t, Malloc(Len(t)), NewNodes(t, Malloc(Len(t))))
  OBVIOUS
<1>. DEFINE D == DOMAIN heap
            a == Malloc(Len(t))
            new == NewNodes(t, a)
<1>1. Shape(heap) /\ Acyclic(heap)
  BY DEF IInv
<1>2. heap' = Beside(heap, new)
  BY DEF AddTree, Beside
<1>3. t \in Seq(Item) /\ T!IsTree(t) /\ Len(t) \in Nat /\ Len(t) >= 1
  <2>1. t \in Seq(Item) /\ T!IsTree(t)
    BY ChunkTreesAssumption DEF Item
  <2>2. t # <<>>
    BY <2>1 DEF T!IsTree
  <2>. QED  BY <2>1, <2>2
<1>4. IsFiniteSet(D)
  BY <1>1 DEF Shape
<1>5. /\ a \in Seq(Nat \ {0}) /\ Len(a) = Len(t) /\ IsInjective(a)
      /\ IsFiniteSet(Range(a)) /\ Range(a) \cap D = {}
  BY <1>3, <1>4, MallocFacts
<1>. HIDE DEF a
<1>6. Planted(new, t, a)
  BY <1>3, <1>5, ClonePlants
<1>. HIDE DEF new
<1>7. /\ DOMAIN heap' = D \cup Range(a)
      /\ \A x \in D : heap'[x] = heap[x]
      /\ \A x \in Range(a) : heap'[x] = new[x]
      /\ Shape(heap') /\ Acyclic(heap')
  <2>. DEFINE g == Beside(heap, new)
  <2>1. /\ DOMAIN g = D \cup Range(a)
        /\ \A x \in D : g[x] = heap[x]
        /\ \A x \in Range(a) : g[x] = new[x]
        /\ Shape(g) /\ Acyclic(g)
    BY <1>1, <1>3, <1>5, <1>6, PlantedShape
  <2>2. heap' = g
    BY <1>2
  <2>. HIDE DEF g
  <2>. QED  BY <2>1, <2>2
<1>8. AddedHeap(t, a, new)
  BY <1>2, <1>3, <1>5, <1>6, <1>7 DEF AddedHeap
<1>. QED  BY <1>8 DEF a, new

(* chunk_store_add_tree(): the clone, before any of its nodes is taken.    *)
LEMMA AddsStore ==
  ASSUME NEW t \in Trees
  PROVE  IInv /\ AddTree(t) => IInv'
<1>. SUFFICES ASSUME IInv, AddTree(t)  PROVE IInv'
  OBVIOUS
<1>. DEFINE st == Range(seen)
            D == DOMAIN heap
            a == Malloc(Len(t))
            new == NewNodes(t, a)
            H == [x \in DOMAIN heap' |-> hash_node(CloneOf(heap')[x])]
<1>1. /\ Shape(heap) /\ Acyclic(heap) /\ Own(heap, st, pending)
      /\ Lists(heap, st, chunks) /\ Seen(heap, seen)
  BY DEF IInv
<1>2. /\ pending = <<>> /\ pending' = <<a[1]>>
      /\ chunks' = chunks /\ seen' = seen
  BY DEF AddTree
<1>3. AddedHeap(t, a, new)
  BY AddsHeap
<1>. HIDE DEF a, new
<1>7. /\ DOMAIN heap' = D \cup Range(a)
      /\ \A x \in D : heap'[x] = heap[x]
      /\ Shape(heap') /\ Acyclic(heap')
  BY <1>3 DEF AddedHeap
<1>8. st = D
  BY <1>2, AllStored
<1>. HIDE DEF st
<1>9. Own(heap', st, pending')
  <2>1. Own(heap, D, <<>>)
    BY <1>1, <1>2, <1>8
  <2>2. /\ t \in Seq(Item) /\ Len(t) >= 1
        /\ a \in Seq(Nat \ {0}) /\ Len(a) = Len(t) /\ Range(a) \cap D = {}
        /\ Planted(new, t, a) /\ heap' = Beside(heap, new)
    BY <1>3 DEF AddedHeap
  <2>3. Own(Beside(heap, new), D, <<a[1]>>)
    BY <1>1, <2>1, <2>2, PlantedOwn
  <2>. QED  BY <1>2, <1>8, <2>2, <2>3
<1>10. Lists(heap', st, chunks)
  <2>1. ASSUME NEW id \in DOMAIN chunks, NEW x \in Range(chunks[id])
        PROVE  IdOf[heap'[x].label] = id
    <3>1. x \in st
      BY <1>1, RangeAt, PlacesOfSeq DEF Lists
    <3>. QED  BY <1>1, <1>7, <1>8, <3>1 DEF Lists
  <2>. QED  BY <1>1, <2>1 DEF Lists
<1>11. Hashes(heap', H)
  <2>1. PICK rk, b : Ranked(DOMAIN heap', SubsOf(heap'), rk, b)
    BY <1>7 DEF Acyclic
  <2>. QED  BY <1>7, <2>1, HashOfClone
<1>12. \A x \in D : H[x] = hash_node(CloneOf(heap')[x])
  BY <1>7
<1>. HIDE DEF H
<1>13. \A x \in D : H[x] = Walk(LabelOf(heap), SubsOf(heap), Same(Labels), H, x)
  <2>1. D \subseteq DOMAIN heap' /\ \A x \in D : heap[x] = heap'[x]
    BY <1>7
  <2>. QED  BY <1>1, <1>7, <1>11, <2>1, KeptHashes
<1>14. \A x \in D : hash_node(CloneOf(heap)[x]) = H[x]
  BY <1>1, <1>13, HashIs
<1>15. Seen(heap', seen)
  <2>1. \A k \in DOMAIN seen : seen[k] \in D /\ hash_node(CloneOf(heap)[seen[k]]) = k
    BY <1>1 DEF Seen
  <2>2. \A k \in DOMAIN seen : seen[k] \in DOMAIN heap' /\ hash_node(CloneOf(heap')[seen[k]]) = k
    BY <1>7, <1>12, <1>14, <2>1
  <2>. QED  BY <2>2 DEF Seen
<1>. QED  BY <1>2, <1>7, <1>9, <1>10, <1>15 DEF IInv, st

-----------------------------------------------------------------------------
(* Every step of the store keeps the invariant.                            *)
LEMMA StoreStep == IInv /\ [Next]_vars => IInv'
<1>. SUFFICES ASSUME IInv, [Next]_vars  PROVE IInv'
  OBVIOUS
<1>1. CASE ChunkStoreInit
  BY <1>1, LeavesStore DEF ChunkStoreInit
<1>2. ASSUME NEW t \in Trees, AddTree(t)  PROVE IInv'
  BY <1>2, AddsStore
<1>3. CASE TakeSeen
  BY <1>3, SharesStore
<1>4. CASE TakeNew
  BY <1>4, KeepsStore
<1>5. CASE Clear
  BY <1>5, ClearsStore
<1>6. CASE UNCHANGED vars
  BY <1>6, LeavesStore DEF vars
<1>. QED  BY <1>1, <1>2, <1>3, <1>4, <1>5, <1>6 DEF Next

(* For every set of trees, also those that the parser's error recovery     *)
(* damaged, and any number of additions: the pointers of the store lead to *)
(* live nodes, no node is below itself, the new nodes are trees whose      *)
(* roots are the nodes still to be taken, the lists hold the stored nodes  *)
(* once each by their ids, and seen_chunks has each under its hash.        *)
THEOREM ChunkInductive == Spec => []IInv
<1>1. Init => IInv
  BY InitStore
<1>2. IInv /\ [Next]_vars => IInv'
  BY StoreStep
<1>. QED  BY <1>1, <1>2, PTL DEF Spec

(* No subnode, parent, list, hash map entry or node to be taken is ever a  *)
(* freed node, although chunk_store_take_node() frees whole trees that     *)
(* shared nodes stand beside.                                              *)
THEOREM NoDanglingPointers == Spec => []NoDangling
<1>1. IInv => NoDangling
  BY InvNoDangling
<1>. QED  BY <1>1, ChunkInductive, PTL

(* Every live node is in one list once, or below one node to be taken:     *)
(* node_free() frees no node twice, and chunk_store_clear() leaves none.   *)
THEOREM EveryNodeOwnedOnce == Spec => []OwnedOnce
<1>1. IInv => OwnedOnce
  BY InvOwnedOnce
<1>. QED  BY <1>1, ChunkInductive, PTL

(* Until chunk_store_clear(), a stored chunk stands for the same nodes in  *)
(* preorder, however often its subnodes are exchanged for shared ones.     *)
THEOREM ChunksKept == Spec => ChunkKept
<1>. DEFINE Kept == \A k \in DOMAIN seen :
                      /\ k \in DOMAIN seen'
                      /\ hash_node(CloneOf(heap')[seen'[k]]) =
                         hash_node(CloneOf(heap)[seen[k]])
<1>1. ASSUME IInv, IInv', Next, up, up'  PROVE Kept
  <2>1. \A k \in DOMAIN seen : k \in DOMAIN seen'
    <3>1. CASE seen' = seen
      BY <3>1
    <3>2. CASE TakeNew
      BY <3>2 DEF TakeNew, map_set
    <3>3. ~ Clear
      BY <1>1 DEF Clear
    <3>. QED  BY <1>1, <3>1, <3>2, <3>3 DEF Next, ChunkStoreInit, AddTree, TakeSeen
  <2>2. Seen(heap, seen) /\ Seen(heap', seen')
    BY <1>1 DEF IInv
  <2>. QED  BY <2>1, <2>2 DEF Seen
<1>2. IInv /\ IInv' /\ [Next]_vars => [up /\ up' => Kept]_vars
  BY <1>1
<1>. QED  BY <1>2, ChunkInductive, PTL DEF Spec, ChunkKept

-----------------------------------------------------------------------------
(* What the store offers.  The shape of a tree does not depend on what its *)
(* nodes carry.                                                            *)
LEMMA SameShape ==
  ASSUME NEW t, NEW i
  PROVE  /\ T!SubtreeAt(t, i) = SubtreeAt(t, i)
         /\ \A p : T!IsParent(t, p, i) <=> IsParent(t, p, i)
         /\ T!IsTree(t) <=> IsTree(t)
<1>1. T!Subtree(t, i) = Subtree(t, i)
  BY Zenon DEF T!Subtree, Subtree
<1>2. T!non_term_size(t, i) = non_term_size(t, i)
  BY <1>1, Zenon DEF T!non_term_size, non_term_size, T!Cardinality, Cardinality
<1>3. T!SubtreeAt(t, i) = SubtreeAt(t, i)
  BY <1>2, Zenon DEF T!SubtreeAt, SubtreeAt
<1>4. \A p : T!IsParent(t, p, i) <=> IsParent(t, p, i)
  BY Zenon DEF T!IsParent, IsParent
<1>5. T!IsTree(t) <=> IsTree(t)
  BY Zenon DEF T!IsTree, IsTree
<1>. QED  BY <1>3, <1>4, <1>5, Zenon

(* The nodes of a sequence.                                                *)
LEMMA ItemFields ==
  ASSUME NEW t \in Seq(Item)
  PROVE  /\ LevelsTyped(t)
         /\ \A i \in 1..Len(t) : /\ t[i] \in Item /\ t[i].id \in Labels /\ t[i].depth \in Nat
                                 /\ t[i] = [id |-> t[i].id, depth |-> t[i].depth]
<1>1. \A i \in 1..Len(t) : t[i] \in Item
  BY PlacesOfSeq
<1>2. \A e \in Item : /\ e.id \in Labels /\ e.depth \in Nat
                      /\ e = [id |-> e.id, depth |-> e.depth]
  BY DEF Item
<1>. QED  BY <1>1, <1>2 DEF LevelsTyped

(* n positions from i are below i, and what follows is not.                *)
RunOf(t, i, n) ==
  /\ n \in Nat /\ n >= 1 /\ i + n - 1 <= Len(t)
  /\ \A k \in (i+1)..(i + n - 1) : t[k].depth > t[i].depth
  /\ i + n <= Len(t) => t[i + n].depth <= t[i].depth

(* There is one such number, the size of the subtree.                      *)
LEMMA SizeIs ==
  ASSUME NEW t \in Seq(Item), NEW i \in 1..Len(t)
  PROVE  /\ RunOf(t, i, non_term_size(t, i))
         /\ \A n : RunOf(t, i, n) => n = non_term_size(t, i)
<1>. DEFINE m == non_term_size(t, i)
<1>1. RunOf(t, i, m)
  BY ItemFields, SubtreeRun DEF RunOf
<1>. HIDE DEF m
<1>2. Len(t) \in Nat /\ \A k \in 1..Len(t) : t[k].depth \in Nat
  BY ItemFields, PlacesOfSeq
<1>3. ASSUME NEW n, NEW l, RunOf(t, i, n), RunOf(t, i, l), n < l  PROVE FALSE
  <2>1. i + n \in (i+1)..(i + l - 1) /\ i + n <= Len(t) /\ i + n \in 1..Len(t)
    BY <1>2, <1>3 DEF RunOf
  <2>2. t[i + n].depth > t[i].depth /\ t[i + n].depth <= t[i].depth
    BY <1>3, <2>1 DEF RunOf
  <2>. QED  BY <1>2, <2>1, <2>2
<1>4. ASSUME NEW n, RunOf(t, i, n)  PROVE n = m
  <2>1. ~ (n < m) /\ ~ (m < n)
    BY <1>1, <1>3, <1>4
  <2>2. n \in Nat /\ m \in Nat
    BY <1>1, <1>4 DEF RunOf
  <2>. QED  BY <2>1, <2>2
<1>. QED  BY <1>1, <1>4 DEF m

(* The clone of a subtree.                                                 *)
LEMMA SubtreeFields ==
  ASSUME NEW t \in Seq(Item), NEW i \in 1..Len(t)
  PROVE  LET u == SubtreeAt(t, i) IN
         /\ u \in Seq(Item) /\ Len(u) = non_term_size(t, i) /\ Len(u) \in Nat /\ Len(u) >= 1
         /\ i + Len(u) - 1 <= Len(t)
         /\ \A k \in 1..Len(u) : /\ i + k - 1 \in 1..Len(t)
                                 /\ u[k].id = t[i+k-1].id
                                 /\ u[k].depth = t[i+k-1].depth - t[i].depth
                                 /\ u[k].depth \in Nat
<1>. DEFINE n == non_term_size(t, i)
            u == SubtreeAt(t, i)
<1>1. RunOf(t, i, n)
  BY SizeIs
<1>2. u = [k \in 1..n |-> [id |-> t[i+k-1].id, depth |-> t[i+k-1].depth - t[i].depth]]
  BY DEF SubtreeAt
<1>3. Len(t) \in Nat /\ \A k \in 1..Len(t) : t[k].depth \in Nat /\ t[k].id \in Labels
  BY ItemFields, PlacesOfSeq
<1>. HIDE DEF n, u
<1>4. n \in Nat /\ n >= 1 /\ i + n - 1 <= Len(t)
  BY <1>1 DEF RunOf
<1>5. ASSUME NEW k \in 1..n
      PROVE  /\ i + k - 1 \in 1..Len(t)
             /\ t[i+k-1].depth - t[i].depth \in Nat /\ t[i+k-1].id \in Labels
  <2>1. i + k - 1 \in 1..Len(t)
    BY <1>3, <1>4
  <2>2. t[i+k-1].depth >= t[i].depth
    <3>1. CASE k = 1
      BY <1>3, <3>1
    <3>2. CASE k # 1
      <4>1. i + k - 1 \in (i+1)..(i + n - 1)
        BY <1>4, <3>2
      <4>2. t[i+k-1].depth > t[i].depth
        BY <1>1, <4>1 DEF RunOf
      <4>. QED  BY <1>3, <2>1, <4>2
    <3>. QED  BY <3>1, <3>2
  <2>. QED  BY <1>3, <2>1, <2>2
<1>6. ASSUME NEW k \in 1..n
      PROVE  /\ u[k] \in Item /\ u[k].id = t[i+k-1].id
             /\ u[k].depth = t[i+k-1].depth - t[i].depth
  <2>1. u[k] = [id |-> t[i+k-1].id, depth |-> t[i+k-1].depth - t[i].depth]
    BY <1>2
  <2>. QED  BY <1>5, <2>1 DEF Item
<1>7. u \in Seq(Item) /\ Len(u) = n
  <2>1. u = [k \in 1..n |-> u[k]]
    BY <1>2
  <2>2. u \in [1..n -> Item]
    BY <1>6, <2>1
  <2>. QED  BY <1>4, <2>2, SeqOfFun
<1>. QED  BY <1>4, <1>5, <1>6, <1>7 DEF u, n

(* Levels that are counted from another one, d.                            *)
LEMMA LevelsKeepOrder == \A x, y, d \in Nat : x <= y => x + d <= y + d
OBVIOUS

(* And so it is with the strict order.                                     *)
LEMMA LevelsStayBelow == \A x, y, d \in Nat : x > y => x + d > y + d
OBVIOUS

(* A level is not above the one it is counted from.                        *)
LEMMA LevelsBelow == \A x, y, d \in Nat : x <= d => x <= y + d
OBVIOUS

(* The level above.                                                        *)
LEMMA LevelAbove == \A x, y, d \in Nat : x + d = (y + d) - 1 => x = y - 1
OBVIOUS

(* What is not below the level above e is above e.                         *)
LEMMA LevelBefore == \A x, y, d, e \in Nat : x <= y /\ y + d = e - 1 => x + d < e
OBVIOUS

(* The order of the levels is strict.                                      *)
LEMMA LevelsDiffer == \A x, y \in Nat : x < y => ~ (x >= y)
OBVIOUS

(* u stands in s behind the first o nodes, with its root at the depth d.   *)
Placed(s, o, d, u) ==
  /\ o \in Nat /\ d \in Nat /\ o + Len(u) <= Len(s)
  /\ \A k \in 1..Len(u) : s[o + k].id = u[k].id /\ s[o + k].depth = u[k].depth + d
  /\ o + Len(u) + 1 <= Len(s) => s[o + Len(u) + 1].depth <= d

(* Then the subtrees of u are subtrees of s.                               *)
LEMMA PlacedSubtree ==
  ASSUME NEW s \in Seq(Item), NEW u \in Seq(Item), NEW o, NEW d, Placed(s, o, d, u),
         NEW m \in 1..Len(u)
  PROVE  o + m \in 1..Len(s) /\ SubtreeAt(s, o + m) = SubtreeAt(u, m)
<1>. DEFINE n == non_term_size(u, m)
<1>1. /\ Len(s) \in Nat /\ \A k \in 1..Len(s) : s[k].depth \in Nat
      /\ Len(u) \in Nat /\ \A k \in 1..Len(u) : u[k].depth \in Nat
  BY ItemFields, PlacesOfSeq
<1>2. /\ o \in Nat /\ d \in Nat /\ o + Len(u) <= Len(s)
      /\ \A k \in 1..Len(u) : s[o + k].id = u[k].id /\ s[o + k].depth = u[k].depth + d
      /\ o + Len(u) + 1 <= Len(s) => s[o + Len(u) + 1].depth <= d
  BY DEF Placed
<1>3. RunOf(u, m, n)
  BY SizeIs
<1>. HIDE DEF n
<1>4. n \in Nat /\ n >= 1 /\ m + n - 1 <= Len(u)
  BY <1>3 DEF RunOf
<1>5. o + m \in 1..Len(s) /\ s[o + m].depth = u[m].depth + d
  BY <1>1, <1>2
<1>6. ASSUME NEW k \in (o+m+1)..(o + m + n - 1)  PROVE s[k].depth > s[o + m].depth
  <2>1. k - o \in (m+1)..(m + n - 1) /\ k - o \in 1..Len(u) /\ o + (k - o) = k
    BY <1>2, <1>4
  <2>2. u[k - o].depth > u[m].depth /\ s[k].depth = u[k - o].depth + d
    BY <1>2, <1>3, <2>1 DEF RunOf
  <2>3. u[k - o].depth \in Nat /\ u[m].depth \in Nat
    BY <1>1, <2>1
  <2>4. s[o + m].depth = u[m].depth + d /\ d \in Nat
    BY <1>2, <1>5
  <2>5. u[k - o].depth + d > u[m].depth + d
    BY <2>2, <2>3, <2>4, LevelsStayBelow, Zenon
  <2>. QED  BY <2>2, <2>4, <2>5, Zenon
<1>7. ASSUME o + m + n <= Len(s)  PROVE s[o + m + n].depth <= s[o + m].depth
  <2>0. u[m].depth \in Nat
    BY <1>1
  <2>1. CASE m + n <= Len(u)
    <3>1. m + n \in 1..Len(u) /\ o + (m + n) = o + m + n
      BY <1>1, <1>2, <1>4, <2>1
    <3>2. u[m + n].depth <= u[m].depth
      BY <1>3, <2>1 DEF RunOf
    <3>3. s[o + m + n].depth = u[m + n].depth + d /\ u[m + n].depth \in Nat
      BY <1>1, <1>2, <3>1
    <3>4. d \in Nat /\ s[o + m].depth = u[m].depth + d
      BY <1>2, <1>5
    <3>5. u[m + n].depth + d <= u[m].depth + d
      BY <2>0, <3>2, <3>3, <3>4, LevelsKeepOrder, Zenon
    <3>. QED  BY <3>3, <3>4, <3>5, Zenon
  <2>2. CASE ~ (m + n <= Len(u))
    <3>1. o + m + n = o + Len(u) + 1
      <4>1. o \in Nat /\ m \in Nat /\ Len(u) \in Nat
        BY <1>1, <1>2
      <4>. QED  BY <1>4, <2>2, <4>1
    <3>2. s[o + m + n].depth <= d
      BY <1>2, <1>7, <3>1
    <3>3. s[o + m + n].depth \in Nat
      BY <1>1, <1>2, <1>4, <1>7
    <3>4. d \in Nat /\ s[o + m].depth = u[m].depth + d
      BY <1>2, <1>5
    <3>5. s[o + m + n].depth <= u[m].depth + d
      BY <2>0, <3>2, <3>3, <3>4, LevelsBelow, Zenon
    <3>. QED  BY <3>4, <3>5, Zenon
  <2>. QED  BY <2>1, <2>2
<1>8. RunOf(s, o + m, n)
  BY <1>1, <1>2, <1>4, <1>6, <1>7 DEF RunOf
<1>9. non_term_size(s, o + m) = n
  BY <1>5, <1>8, SizeIs
<1>10. ASSUME NEW k \in 1..n
       PROVE  /\ s[o + m + k - 1].id = u[m + k - 1].id
              /\ s[o + m + k - 1].depth - s[o + m].depth = u[m + k - 1].depth - u[m].depth
  <2>1. m + k - 1 \in 1..Len(u) /\ o + (m + k - 1) = o + m + k - 1
    BY <1>1, <1>2, <1>4
  <2>2. s[o + m + k - 1].id = u[m + k - 1].id /\ s[o + m + k - 1].depth = u[m + k - 1].depth + d
    BY <1>2, <2>1
  <2>3. u[m + k - 1].depth \in Nat /\ u[m].depth \in Nat
    BY <1>1, <2>1
  <2>4. s[o + m].depth = u[m].depth + d /\ d \in Nat
    BY <1>2, <1>5
  <2>5. \A x, y, e \in Nat : (x + e) - (y + e) = x - y
    OBVIOUS
  <2>6. (u[m + k - 1].depth + d) - (u[m].depth + d) = u[m + k - 1].depth - u[m].depth
    BY <2>3, <2>4, <2>5
  <2>. QED  BY <2>2, <2>4, <2>6
<1>. DEFINE f(t, i) == [k \in 1..n |-> [id |-> t[i+k-1].id, depth |-> t[i+k-1].depth - t[i].depth]]
<1>11. SubtreeAt(s, o + m) = f(s, o + m) /\ SubtreeAt(u, m) = f(u, m)
  BY <1>9 DEF SubtreeAt, n
<1>12. f(s, o + m) = f(u, m)
  BY <1>10
<1>. QED  BY <1>5, <1>11, <1>12

-----------------------------------------------------------------------------
(* In ascending order.                                                     *)
LEMMA InOrderAscends ==
  ASSUME NEW N \in Nat, NEW S \in SUBSET (1..N)
  PROVE  LET q == T!InOrder(S) IN
         \A i, j \in 1..Len(q) : i < j => q[i] < q[j]
<1>. DEFINE c == Cardinality(S)
            q == T!InOrder(S)
            f(k) == CHOOSE e \in S : Cardinality({d \in S : d <= e}) = k
            Below(e) == {d \in S : d <= e}
<1>1. IsFiniteSet(S) /\ c \in Nat
  <2>1. IsFiniteSet(1..N)
    BY FS_Interval
  <2>. QED  BY <2>1, FS_Subset, FS_CardinalityType
<1>2. q = [k \in 1..c |-> f(k)]
  BY SameOrder DEF InOrder
<1>3. ASSUME NEW k \in 1..c  PROVE q[k] \in S /\ Cardinality(Below(q[k])) = k
  <2>1. \E e \in S : Cardinality({d \in S : d <= e}) = k
    BY RankExists
  <2>2. f(k) \in S /\ Cardinality({d \in S : d <= f(k)}) = k
    BY <2>1
  <2>3. q[k] = f(k)
    BY <1>2
  <2>. HIDE DEF q, f
  <2>. QED  BY <2>2, <2>3
<1>4. Len(q) = c
  BY InOrderFacts
<1>. HIDE DEF f, q, c
<1>5. ASSUME NEW i \in 1..c, NEW j \in 1..c, i < j, ~ (q[i] < q[j])  PROVE FALSE
  <2>1. q[i] \in Nat /\ q[j] \in Nat
    <3>1. q[i] \in S /\ q[j] \in S
      BY <1>3
    <3>2. \A x \in S : x \in Nat
      OBVIOUS
    <3>. QED  BY <3>1, <3>2
  <2>2. \A d \in Nat : d <= q[j] => d <= q[i]
    BY <1>5, <2>1
  <2>3. Below(q[j]) \in SUBSET Below(q[i])
    <3>1. \A d \in S : d \in Nat
      OBVIOUS
    <3>. QED  BY <2>2, <3>1
  <2>4. IsFiniteSet(Below(q[i]))
    <3>1. Below(q[i]) \in SUBSET S
      OBVIOUS
    <3>. HIDE DEF Below
    <3>. QED  BY <1>1, <3>1, FS_Subset
  <2>. HIDE DEF Below
  <2>5. Cardinality(Below(q[j])) <= Cardinality(Below(q[i]))
    BY <2>3, <2>4, FS_Subset
  <2>6. Cardinality(Below(q[j])) = j /\ Cardinality(Below(q[i])) = i
    BY <1>3
  <2>. QED  BY <1>1, <1>5, <2>5, <2>6
<1>6. \A i, j \in 1..c : i < j => q[i] < q[j]
  BY <1>5
<1>. QED  BY <1>4, <1>6 DEF q

(* The subnodes of k are the nodes of its subtree one level below it.      *)
LEMMA KidsAre ==
  ASSUME NEW t \in Seq(Item), NEW k \in 1..Len(t)
  PROVE  Kids(t, k) = {j \in (k+1)..(k + non_term_size(t, k) - 1) :
                         t[j].depth = t[k].depth + 1}
<1>. DEFINE n == non_term_size(t, k)
            K == {j \in (k+1)..(k + n - 1) : t[j].depth = t[k].depth + 1}
<1>1. LevelsTyped(t) /\ Len(t) \in Nat /\ DOMAIN t = 1..Len(t)
  BY ItemFields, PlacesOfSeq
<1>2. /\ n \in Nat /\ n >= 1 /\ k + n - 1 <= Len(t)
      /\ Subtree(t, k) = k..(k + n - 1)
      /\ \A m \in (k+1)..(k + n - 1) : t[m].depth > t[k].depth
  BY <1>1, SubtreeRun
<1>3. \A m \in 1..Len(t) : t[m].depth \in Nat
  BY <1>1 DEF LevelsTyped
<1>. HIDE DEF n
<1>4. ASSUME NEW j \in Kids(t, k)  PROVE j \in K
  <2>1. /\ j \in 1..Len(t) /\ k \in 1..(j-1) /\ t[k].depth = t[j].depth - 1
        /\ \A m \in (k+1)..(j-1) : t[m].depth >= t[j].depth
    BY <1>1 DEF Kids, T!IsParent
  <2>2. t[j].depth \in Nat /\ t[k].depth \in Nat
    BY <1>3, <2>1
  <2>3. t[j].depth = t[k].depth + 1
    BY <2>1, <2>2
  <2>4. ASSUME NEW m \in (k+1)..j  PROVE t[m].depth > t[k].depth
    <3>1. m \in 1..Len(t)
      BY <1>1, <2>1
    <3>2. m = j \/ m \in (k+1)..(j-1)
      BY <2>1
    <3>3. t[m].depth \in Nat
      BY <1>3, <3>1
    <3>4. t[m].depth >= t[j].depth
      BY <2>1, <2>2, <3>2
    <3>. QED  BY <2>2, <2>3, <3>3, <3>4
  <2>5. j \in Subtree(t, k)
    BY <2>1, <2>4 DEF Subtree
  <2>6. j \in k..(k + n - 1) /\ j # k
    BY <1>2, <2>1, <2>5
  <2>7. j \in (k+1)..(k + n - 1)
    BY <1>2, <2>6
  <2>. QED  BY <2>3, <2>7
<1>5. ASSUME NEW j \in K  PROVE j \in Kids(t, k)
  <2>1. j \in (k+1)..(k + n - 1) /\ t[j].depth = t[k].depth + 1
    OBVIOUS
  <2>2. j \in 1..Len(t) /\ k \in 1..(j-1)
    BY <1>1, <1>2, <2>1
  <2>3. t[j].depth \in Nat /\ t[k].depth \in Nat
    BY <1>3, <2>2
  <2>4. ASSUME NEW m \in (k+1)..(j-1)  PROVE t[m].depth >= t[j].depth
    <3>1. m \in (k+1)..(k + n - 1) /\ m \in 1..Len(t)
      BY <1>1, <1>2, <2>1
    <3>2. t[m].depth > t[k].depth /\ t[m].depth \in Nat
      BY <1>2, <1>3, <3>1
    <3>. QED  BY <2>1, <2>3, <3>2
  <2>5. t[k].depth = t[j].depth - 1
    BY <2>1, <2>3
  <2>. QED  BY <1>1, <2>2, <2>4, <2>5 DEF Kids, T!IsParent
<1>. QED  BY <1>4, <1>5 DEF n

(* Their subtrees follow each other without gaps, from behind k to the end *)
(* of its subtree.                                                         *)
LEMMA NextKid ==
  ASSUME NEW t \in Seq(Item), NEW k \in 1..Len(t), NEW j \in Kids(t, k)
  PROVE  LET e == k + non_term_size(t, k)
             z == j + non_term_size(t, j)
         IN  /\ j \in 1..Len(t) /\ z \in Nat /\ j < z /\ z <= e
             /\ z < e => z \in Kids(t, k)
             /\ \A i \in Kids(t, k) : j < i => z <= i
<1>. DEFINE n == non_term_size(t, k)
            e == k + n
            l == non_term_size(t, j)
            z == j + l
<1>1. LevelsTyped(t) /\ Len(t) \in Nat /\ \A m \in 1..Len(t) : t[m].depth \in Nat
  BY ItemFields, PlacesOfSeq DEF LevelsTyped
<1>2. /\ n \in Nat /\ n >= 1 /\ k + n - 1 <= Len(t)
      /\ \A m \in (k+1)..(k + n - 1) : t[m].depth > t[k].depth
      /\ k + n <= Len(t) => t[k + n].depth <= t[k].depth
  BY <1>1, SubtreeRun
<1>3. \A i : i \in Kids(t, k) <=> i \in (k+1)..(k + n - 1) /\ t[i].depth = t[k].depth + 1
  BY KidsAre
<1>. HIDE DEF n
<1>4. j \in (k+1)..(k + n - 1) /\ t[j].depth = t[k].depth + 1 /\ j \in 1..Len(t)
  BY <1>1, <1>2, <1>3
<1>5. /\ l \in Nat /\ l >= 1 /\ j + l - 1 <= Len(t)
      /\ \A m \in (j+1)..(j + l - 1) : t[m].depth > t[j].depth
      /\ j + l <= Len(t) => t[j + l].depth <= t[j].depth
  BY <1>1, <1>4, SubtreeRun
<1>. HIDE DEF l
<1>6. z \in Nat /\ j < z /\ e \in Nat /\ t[k].depth \in Nat /\ t[j].depth \in Nat
  <2>1. z \in Nat /\ j < z /\ e \in Nat
    BY <1>2, <1>4, <1>5
  <2>. QED  BY <1>1, <1>4, <2>1
<1>7. z <= e
  <2>. SUFFICES ASSUME ~ (z <= e)  PROVE FALSE
    OBVIOUS
  <2>1. e \in (j+1)..(j + l - 1) /\ e <= Len(t) /\ e \in 1..Len(t)
    <3>1. /\ k \in Nat /\ j \in Nat /\ n \in Nat /\ l \in Nat /\ Len(t) \in Nat
          /\ j >= 1 /\ j <= k + n - 1
      BY <1>1, <1>2, <1>4, <1>5
    <3>2. j + l - 1 <= Len(t) /\ ~ (j + l <= k + n)
      BY <1>5
    <3>. QED  BY <3>1, <3>2
  <2>2. t[e].depth > t[j].depth /\ t[e].depth <= t[k].depth /\ t[e].depth \in Nat
    BY <1>1, <1>2, <1>5, <2>1
  <2>. HIDE DEF e
  <2>. QED  BY <1>4, <1>6, <2>2
<1>8. ASSUME z < e  PROVE z \in Kids(t, k)
  <2>0. z \in Nat /\ j \in Nat /\ j < z /\ k < j /\ k \in Nat /\ z < k + n
    BY <1>4, <1>6, <1>8
  <2>1. z \in (k+1)..(k + n - 1) /\ z \in 1..Len(t) /\ z <= Len(t)
    <3>. HIDE DEF z
    <3>. QED  BY <1>1, <1>2, <2>0
  <2>2. t[z].depth <= t[j].depth /\ t[z].depth > t[k].depth /\ t[z].depth \in Nat
    BY <1>1, <1>2, <1>5, <2>1
  <2>. HIDE DEF z
  <2>3. t[z].depth = t[k].depth + 1
    BY <1>4, <1>6, <2>2
  <2>. QED  BY <1>3, <2>1, <2>3
<1>9. ASSUME NEW i \in Kids(t, k), j < i, ~ (z <= i)  PROVE FALSE
  <2>1. t[i].depth = t[k].depth + 1 /\ i \in (k+1)..(k + n - 1)
    BY <1>3
  <2>2. i \in (j+1)..(j + l - 1)
    BY <1>4, <1>5, <1>9, <2>1
  <2>3. t[i].depth > t[j].depth
    BY <1>5, <2>2
  <2>. QED  BY <1>4, <1>6, <2>1, <2>3
<1>. QED  BY <1>4, <1>6, <1>7, <1>8, <1>9 DEF e, z, l, n

(* q are the subnodes of k in order, one subtree behind the other.         *)
InRow(t, k, q) ==
  /\ q \in Seq(1..Len(t)) /\ Len(q) \in Nat
  /\ \A i \in 1..Len(q) : q[i] \in 1..Len(t) /\ t[q[i]].depth = t[k].depth + 1
  /\ Len(q) = 0 => non_term_size(t, k) = 1
  /\ Len(q) # 0 => /\ q[1] = k + 1
                   /\ q[Len(q)] + non_term_size(t, q[Len(q)]) = k + non_term_size(t, k)
  /\ \A i \in 1..Len(q) : i # 1 => q[i] = q[i-1] + non_term_size(t, q[i-1])

(* So are the positions that node_clone() goes through.                    *)
LEMMA KidsInRow ==
  ASSUME NEW t \in Seq(Item), IsTree(t), NEW k \in 1..Len(t)
  PROVE  InRow(t, k, T!InOrder(Kids(t, k)))
<1>. DEFINE L == Len(t)
            K == Kids(t, k)
            q == T!InOrder(K)
            n == non_term_size(t, k)
            m == Len(q)
            z(j) == j + non_term_size(t, j)
<1>1. LevelsTyped(t) /\ L \in Nat /\ DOMAIN t = 1..L /\ \A i \in 1..L : t[i].depth \in Nat
  BY ItemFields, PlacesOfSeq DEF LevelsTyped
<1>2. /\ n \in Nat /\ n >= 1 /\ k + n - 1 <= L
      /\ \A i \in (k+1)..(k + n - 1) : t[i].depth > t[k].depth
  BY <1>1, SubtreeRun
<1>3. \A i : i \in K <=> i \in (k+1)..(k + n - 1) /\ t[i].depth = t[k].depth + 1
  BY KidsAre
<1>4. K \in SUBSET (1..L)
  BY <1>1 DEF Kids
<1>5. /\ q \in Seq(K) /\ Range(q) = K
      /\ \A i, j \in 1..m : i < j => q[i] < q[j]
  BY <1>1, <1>4, InOrderFacts, InOrderAscends
<1>6. ASSUME NEW j \in K
      PROVE  /\ z(j) \in Nat /\ j < z(j) /\ z(j) <= k + n
             /\ z(j) < k + n => z(j) \in K
             /\ \A i \in K : j < i => z(j) <= i
  BY NextKid
<1>. HIDE DEF q, n, K
<1>7. m \in Nat /\ \A i \in 1..m : q[i] \in K
  BY <1>5, PlacesOfSeq
<1>8. \A j \in K : \E i \in 1..m : q[i] = j
  BY <1>5, RangeAt
<1>. HIDE DEF m, z
<1>9. \A i \in 1..m : q[i] \in 1..L /\ q[i] \in Nat /\ t[q[i]].depth = t[k].depth + 1
  BY <1>3, <1>4, <1>7
<1>10. q \in Seq(1..L)
  <2>1. q = [i \in 1..m |-> q[i]]
    BY <1>5 DEF m
  <2>2. q \in [1..m -> 1..L]
    BY <1>9, <2>1
  <2>. QED  BY <1>7, <2>2, SeqOfFun
<1>11. ASSUME n # 1  PROVE k + 1 \in K
  <2>1. k + 1 \in (k+1)..(k + n - 1) /\ k + 1 \in 2..L /\ (k + 1) - 1 = k /\ k + 1 \in 1..L
    BY <1>1, <1>2, <1>11
  <2>2. t[k+1].depth > t[k].depth
    BY <1>2, <2>1
  <2>3. t[k+1].depth \in 1..(t[k].depth + 1)
    <3>1. t[k+1].depth \in 1..(t[(k+1)-1].depth + 1)
      BY <2>1 DEF IsTree
    <3>. QED  BY <2>1, <3>1
  <2>4. t[k+1].depth \in Nat /\ t[k].depth \in Nat
    BY <1>1, <2>1
  <2>5. t[k+1].depth = t[k].depth + 1
    BY <2>2, <2>3, <2>4
  <2>. QED  BY <1>3, <2>1, <2>5
<1>12. m = 0 => n = 1
  BY <1>8, <1>11
<1>13. ASSUME m # 0  PROVE q[1] = k + 1
  <2>1. 1 \in 1..m
    BY <1>7, <1>13
  <2>2. q[1] \in (k+1)..(k + n - 1)
    BY <1>3, <1>7, <2>1
  <2>3. n # 1
    BY <2>2
  <2>4. PICK i \in 1..m : q[i] = k + 1
    BY <1>8, <1>11, <2>3
  <2>5. ~ (1 < i)
    <3>. SUFFICES ASSUME 1 < i  PROVE FALSE
      OBVIOUS
    <3>1. q[1] < q[i]
      BY <1>5, <2>1 DEF m
    <3>. QED  BY <2>2, <2>4, <3>1
  <2>6. i = 1
    BY <1>7, <2>5
  <2>. QED  BY <2>4, <2>6
<1>14. ASSUME m # 0  PROVE z(q[m]) = k + n
  <2>1. m \in 1..m
    BY <1>7, <1>14
  <2>2. /\ q[m] \in K /\ q[m] \in Nat /\ z(q[m]) \in Nat /\ q[m] < z(q[m])
        /\ z(q[m]) <= k + n /\ (z(q[m]) < k + n => z(q[m]) \in K)
    BY <1>6, <1>7, <1>9, <2>1
  <2>3. z(q[m]) \notin K
    <3>. SUFFICES ASSUME z(q[m]) \in K  PROVE FALSE
      OBVIOUS
    <3>1. PICK i \in 1..m : q[i] = z(q[m])
      BY <1>8
    <3>2. i = m \/ i < m
      BY <1>7
    <3>3. i < m => q[i] < q[m]
      BY <1>5, <2>1 DEF m
    <3>. QED  BY <2>2, <3>1, <3>2, <3>3
  <2>. QED  BY <1>2, <2>2, <2>3
<1>15. ASSUME NEW i \in 1..m, i # 1  PROVE q[i] = z(q[i-1])
  <2>1. i - 1 \in 1..m /\ i - 1 < i
    BY <1>7, <1>15
  <2>. DEFINE j == i - 1
              y == z(q[j])
  <2>2. /\ q[j] \in K /\ y \in Nat /\ q[j] < y /\ y <= k + n
        /\ (y < k + n => y \in K)
        /\ \A l \in K : q[j] < l => y <= l
    BY <1>6, <1>7, <2>1
  <2>3. q[j] < q[i] /\ q[i] \in K
    BY <1>5, <1>7, <2>1 DEF m
  <2>4. y <= q[i]
    BY <2>2, <2>3
  <2>5. q[i] \in (k+1)..(k + n - 1) /\ q[j] \in Nat /\ q[i] \in Nat
    BY <1>3, <1>9, <2>1, <2>3
  <2>. HIDE DEF y
  <2>6. y \in K
    BY <1>2, <2>2, <2>4, <2>5
  <2>7. PICK l \in 1..m : q[l] = y
    BY <1>8, <2>6
  <2>8. j \in 1..m
    BY <2>1
  <2>9. ~ (l = j) /\ ~ (l < j)
    <3>1. l < j => q[l] < q[j]
      BY <1>5, <2>8 DEF m
    <3>2. q[l] = y /\ q[j] < y /\ q[j] \in Nat /\ y \in Nat
      BY <2>2, <2>5, <2>7
    <3>. HIDE DEF j
    <3>. QED  BY <3>1, <3>2
  <2>10. l = i \/ i < l
    <3>1. l \in Nat /\ i \in Nat
      OBVIOUS
    <3>. QED  BY <2>9, <3>1
  <2>11. i < l => q[i] < q[l]
    BY <1>5 DEF m
  <2>12. q[i] = y
    BY <2>2, <2>4, <2>5, <2>7, <2>10, <2>11
  <2>. QED  BY <2>12 DEF y, j
<1>. QED  BY <1>7, <1>9, <1>10, <1>12, <1>13, <1>14, <1>15 DEF InRow, m, n, q, z, K

(* The node j as node_clone() of k has it.                                 *)
Rel(t, k, j) == [id |-> t[j].id, depth |-> t[j].depth - t[k].depth]

(* g has the nodes behind k up to the position y.                          *)
Behind(t, k, y, g) ==
  /\ g \in Seq(Item) /\ Len(g) = y - k - 1
  /\ \A x \in 1..Len(g) : g[x] = Rel(t, k, k + x)

(* The clone of a subnode j, one level deeper.                             *)
LEMMA PartIs ==
  ASSUME NEW t \in Seq(Item), NEW k \in 1..Len(t), NEW j \in 1..Len(t),
         t[j].depth = t[k].depth + 1
  PROVE  LET P == MapSeq(Deeper, SubtreeAt(t, j)) IN
         /\ P \in Seq(Item) /\ Len(P) = non_term_size(t, j)
         /\ non_term_size(t, j) \in Nat /\ non_term_size(t, j) >= 1
         /\ \A x \in 1..Len(P) : P[x] = Rel(t, k, j + x - 1)
<1>. DEFINE u == SubtreeAt(t, j)
            P == MapSeq(Deeper, u)
<1>1. LevelsTyped(t) /\ Len(t) \in Nat /\ \A i \in 1..Len(t) : t[i].depth \in Nat
  BY ItemFields, PlacesOfSeq DEF LevelsTyped
<1>2. /\ u \in Seq(Item) /\ Len(u) = non_term_size(t, j) /\ Len(u) \in Nat /\ Len(u) >= 1
      /\ \A x \in 1..Len(u) : /\ j + x - 1 \in 1..Len(t)
                              /\ u[x].id = t[j+x-1].id
                              /\ u[x].depth = t[j+x-1].depth - t[j].depth
                              /\ u[x].depth \in Nat
  BY SubtreeFields
<1>. HIDE DEF u
<1>3. IsMapping(Deeper, Item, Item)
  <2>1. DOMAIN Deeper = Item /\ Deeper = [e \in Item |-> Deeper[e]]
    BY DEF Deeper
  <2>. QED  BY <2>1, DeeperItem DEF IsMapping
<1>4. /\ P \in Seq(Item) /\ Len(P) = Len(u)
      /\ \A x \in 1..Len(u) : P[x] = Deeper[u[x]]
  BY <1>2, <1>3, MapSeqFacts
<1>. HIDE DEF P
<1>5. ASSUME NEW x \in 1..Len(u)  PROVE P[x] = Rel(t, k, j + x - 1)
  <2>1. u[x] \in Item /\ u[x] = [id |-> u[x].id, depth |-> u[x].depth]
    BY <1>2, ItemFields
  <2>2. Deeper[u[x]] = [id |-> u[x].id, depth |-> u[x].depth + 1]
    <3>1. Deeper[u[x]] = [u[x] EXCEPT !.depth = @ + 1]
      BY <2>1 DEF Deeper
    <3>. QED  BY <2>1, <3>1
  <2>3. t[j+x-1].depth \in Nat /\ t[j].depth \in Nat /\ t[k].depth \in Nat
    BY <1>1, <1>2
  <2>4. u[x].depth = t[j+x-1].depth - t[j].depth /\ u[x].id = t[j+x-1].id
    BY <1>2
  <2>5. \A a, c \in Nat : (a - (c + 1)) + 1 = a - c
    OBVIOUS
  <2>6. u[x].depth + 1 = t[j+x-1].depth - t[k].depth
    BY <2>3, <2>4, <2>5
  <2>. QED  BY <1>4, <2>2, <2>4, <2>6 DEF Rel
<1>. QED  BY <1>2, <1>4, <1>5 DEF P, u

(* A subtree is its root, and then the subtrees of its subnodes one level  *)
(* deeper, as node_clone() walks it.                                       *)
LEMMA SubtreeWalk ==
  ASSUME NEW t \in Seq(Item), IsTree(t), NEW k \in 1..Len(t)
  PROVE  LET q == T!InOrder(Kids(t, k)) IN
         SubtreeAt(t, k) =
           <<[id |-> t[k].id, depth |-> 0]>> \o
           FlattenSeq([i \in 1..Len(q) |-> MapSeq(Deeper, SubtreeAt(t, q[i]))])
<1>. DEFINE q == T!InOrder(Kids(t, k))
            m == Len(q)
            n == non_term_size(t, k)
            sz(j) == non_term_size(t, j)
            P == [i \in 1..m |-> MapSeq(Deeper, SubtreeAt(t, q[i]))]
            F == FlattenSeq(P)
            r == [id |-> t[k].id, depth |-> 0]
            u == SubtreeAt(t, k)
<1>1. /\ LevelsTyped(t) /\ Len(t) \in Nat
      /\ \A i \in 1..Len(t) : t[i].depth \in Nat /\ t[i].id \in Labels
  BY ItemFields, PlacesOfSeq DEF LevelsTyped
<1>2. /\ m \in Nat
      /\ \A i \in 1..m : q[i] \in 1..Len(t) /\ t[q[i]].depth = t[k].depth + 1
      /\ m = 0 => n = 1
      /\ m # 0 => q[1] = k + 1 /\ q[m] + sz(q[m]) = k + n
      /\ \A i \in 1..m : i # 1 => q[i] = q[i-1] + sz(q[i-1])
  BY KidsInRow DEF InRow
<1>3. \A i \in 1..m : P[i] = MapSeq(Deeper, SubtreeAt(t, q[i]))
  OBVIOUS
<1>4. DOMAIN P = 1..m /\ P = [i \in 1..m |-> P[i]]
  OBVIOUS
<1>. HIDE DEF P, q, m
<1>5. ASSUME NEW i \in 1..m
      PROVE  /\ P[i] \in Seq(Item) /\ Len(P[i]) = sz(q[i]) /\ sz(q[i]) \in Nat /\ sz(q[i]) >= 1
             /\ \A x \in 1..Len(P[i]) : P[i][x] = Rel(t, k, q[i] + x - 1)
  <2>. DEFINE j == q[i]
              p == P[i]
  <2>1. j \in 1..Len(t) /\ t[j].depth = t[k].depth + 1 /\ p = MapSeq(Deeper, SubtreeAt(t, j))
    BY <1>2, <1>3
  <2>. HIDE DEF j, p
  <2>2. /\ p \in Seq(Item) /\ Len(p) = sz(j) /\ sz(j) \in Nat /\ sz(j) >= 1
        /\ \A x \in 1..Len(p) : p[x] = Rel(t, k, j + x - 1)
    BY <2>1, PartIs
  <2>. QED  BY <2>2 DEF j, p
<1>. HIDE DEF sz
<1>6. P \in Seq(Seq(Item)) /\ Len(P) = m
  <2>1. P \in [1..m -> Seq(Item)]
    BY <1>4, <1>5
  <2>. QED  BY <1>2, <2>1, SeqOfFun
<1>7. F \in Seq(Item) /\ Len(F) = n - 1 /\ \A x \in 1..Len(F) : F[x] = Rel(t, k, k + x)
  <2>1. CASE m = 0
    <3>1. P = <<>>
      BY <1>6, <2>1
    <3>2. F = <<>>
      BY <3>1 DEF FlattenSeq
    <3>. HIDE DEF F
    <3>3. F \in Seq(Item) /\ Len(F) = 0 /\ \A x \in 1..0 : FALSE
      BY <3>2
    <3>. QED  BY <1>2, <2>1, <3>3
  <2>2. CASE m # 0
    <3>1. PICK f : IsRow(Item, P, f) /\ F = f[m]
      BY <1>6, <2>2, FlattenRow
    <3>. HIDE DEF F
    <3>2. /\ \A i \in 1..m : f[i] \in Seq(Item)
          /\ f[1] = P[1] /\ \A i \in 1..m : i # 1 => f[i] = f[i-1] \o P[i]
      BY <1>6, <3>1 DEF IsRow
    <3>. DEFINE Bad == {i \in 1..m : ~ Behind(t, k, q[i] + sz(q[i]), f[i])}
    <3>3. Bad = {}
      <4>. SUFFICES ASSUME Bad # {}  PROVE FALSE
        OBVIOUS
      <4>1. PICK b \in Bad : \A i \in Bad : b <= i
        <5>1. Bad \in SUBSET Nat
          BY <1>2
        <5>. HIDE DEF Bad
        <5>. QED  BY <5>1, LeastElement
      <4>2. b \in 1..m /\ ~ Behind(t, k, q[b] + sz(q[b]), f[b])
        BY <4>1
      <4>3. b # 1
        <5>. SUFFICES ASSUME b = 1  PROVE Behind(t, k, q[1] + sz(q[1]), f[1])
          BY <4>2
        <5>1. /\ f[1] \in Seq(Item) /\ Len(f[1]) = sz(q[1]) /\ sz(q[1]) \in Nat
              /\ \A x \in 1..Len(f[1]) : f[1][x] = Rel(t, k, q[1] + x - 1)
          BY <1>5, <3>2, <4>2
        <5>2. q[1] = k + 1
          BY <1>2, <2>2
        <5>3. (k + 1 + sz(q[1])) - k - 1 = sz(q[1])
          BY <5>1
        <5>4. \A x \in 1..Len(f[1]) : k + 1 + x - 1 = k + x
          BY <5>1
        <5>. QED  BY <5>1, <5>2, <5>3, <5>4 DEF Behind
      <4>4. b - 1 \in 1..m /\ ~ (b <= b - 1)
        BY <1>2, <4>2, <4>3
      <4>. DEFINE g == f[b-1]
                  s == q[b]
      <4>5. Behind(t, k, q[b-1] + sz(q[b-1]), g)
        BY <4>1, <4>4
      <4>6. s = q[b-1] + sz(q[b-1]) /\ s \in 1..Len(t)
        BY <1>2, <4>2, <4>3
      <4>7. f[b] = g \o P[b]
        BY <3>2, <4>2, <4>3
      <4>. HIDE DEF g, s
      <4>8. /\ g \in Seq(Item) /\ Len(g) = s - k - 1 /\ Len(g) \in Nat
            /\ \A x \in 1..Len(g) : g[x] = Rel(t, k, k + x)
        BY <4>5, <4>6, PlacesOfSeq DEF Behind
      <4>9. /\ P[b] \in Seq(Item) /\ Len(P[b]) = sz(s) /\ sz(s) \in Nat
            /\ \A x \in 1..Len(P[b]) : P[b][x] = Rel(t, k, s + x - 1)
        BY <1>5, <4>2 DEF s
      <4>. DEFINE h == f[b]
      <4>10. /\ h \in Seq(Item) /\ Len(h) = Len(g) + Len(P[b])
             /\ \A p \in 1..Len(g) : h[p] = g[p]
             /\ \A p \in 1..Len(P[b]) : h[Len(g) + p] = P[b][p]
             /\ \A p \in 1..Len(h) : p \in 1..Len(g) \/ \E x \in 1..Len(P[b]) : p = Len(g) + x
        <5>1. g \in Seq(Item) /\ P[b] \in Seq(Item)
          BY <4>8, <4>9
        <5>. QED  BY <4>7, <5>1, ConcatAt
      <4>. HIDE DEF h
      <4>11. Len(h) = (s + sz(s)) - k - 1
        BY <4>6, <4>8, <4>9, <4>10
      <4>12. ASSUME NEW p \in 1..Len(h)  PROVE h[p] = Rel(t, k, k + p)
        <5>1. CASE p \in 1..Len(g)
          BY <4>8, <4>10, <5>1
        <5>2. ASSUME NEW x \in 1..Len(P[b]), p = Len(g) + x  PROVE h[p] = Rel(t, k, k + p)
          <6>1. h[p] = Rel(t, k, s + x - 1)
            BY <4>9, <4>10, <5>2
          <6>2. s + x - 1 = k + p
            <7>1. \A a, c, y \in Int : a + y - 1 = c + ((a - c - 1) + y)
              OBVIOUS
            <7>2. s \in Int /\ k \in Int /\ x \in Int /\ p = (s - k - 1) + x
              BY <4>6, <4>8, <5>2
            <7>. QED  BY <7>1, <7>2
          <6>. QED  BY <6>1, <6>2
        <5>. QED  BY <4>10, <5>1, <5>2
      <4>. QED  BY <4>2, <4>10, <4>11, <4>12 DEF Behind, h, s
    <3>4. m \in 1..m
      BY <1>2, <2>2
    <3>5. Behind(t, k, k + n, F)
      BY <1>2, <2>2, <3>1, <3>3, <3>4
    <3>6. n \in Nat
      BY <1>1, SubtreeRun
    <3>. HIDE DEF n
    <3>7. (k + n) - k - 1 = n - 1
      BY <3>6
    <3>. QED  BY <3>5, <3>7 DEF Behind
  <2>. QED  BY <2>1, <2>2
<1>8. /\ u \in Seq(Item) /\ Len(u) = n /\ n \in Nat /\ n >= 1
      /\ \A x \in 1..n : u[x] = Rel(t, k, k + x - 1)
  <2>1. u \in Seq(Item) /\ Len(u) = n /\ n \in Nat /\ n >= 1
    BY SubtreeFields
  <2>2. u = [x \in 1..n |-> Rel(t, k, k + x - 1)]
    BY DEF SubtreeAt, Rel
  <2>. HIDE DEF u, n
  <2>. QED  BY <2>1, <2>2
<1>. HIDE DEF F, u, n
<1>9. r \in Item /\ Rel(t, k, k) = r
  BY <1>1 DEF Rel, Item
<1>. HIDE DEF r
<1>10. <<r>> \in Seq(Item) /\ Len(<<r>>) = 1 /\ <<r>>[1] = r
  BY <1>9
<1>. DEFINE v == <<r>> \o F
<1>11. /\ v \in Seq(Item) /\ Len(v) = 1 + Len(F)
       /\ v[1] = r /\ \A p \in 1..Len(F) : v[1 + p] = F[p]
  <2>1. /\ v \in Seq(Item) /\ Len(v) = Len(<<r>>) + Len(F)
        /\ \A p \in 1..Len(<<r>>) : v[p] = <<r>>[p]
        /\ \A p \in 1..Len(F) : v[Len(<<r>>) + p] = F[p]
    <3>1. <<r>> \in Seq(Item) /\ F \in Seq(Item)
      BY <1>7, <1>10
    <3>. QED  BY <3>1, ConcatAt
  <2>. HIDE DEF v
  <2>. QED  BY <1>10, <2>1
<1>. HIDE DEF v
<1>12. Len(v) = n
  BY <1>7, <1>8, <1>11
<1>13. ASSUME NEW x \in 1..n  PROVE u[x] = v[x]
  <2>1. CASE x = 1
    <3>1. k + 1 - 1 = k
      OBVIOUS
    <3>. QED  BY <1>8, <1>9, <1>11, <2>1, <3>1
  <2>2. CASE x # 1
    <3>1. x - 1 \in 1..Len(F) /\ 1 + (x - 1) = x /\ k + (x - 1) = k + x - 1
      BY <1>7, <1>8, <2>2
    <3>2. v[x] = Rel(t, k, k + (x - 1))
      BY <1>7, <1>11, <3>1
    <3>. QED  BY <1>8, <3>1, <3>2
  <2>. QED  BY <2>1, <2>2
<1>14. u = v
  BY <1>8, <1>11, <1>12, <1>13, SeqSame
<1>. QED  BY <1>14 DEF u, v, r, F, P, m, q

-----------------------------------------------------------------------------
(* A clone with its place in the tree.                                     *)
CloneAt(t, i, a) ==
  /\ a \in Seq(Item) /\ Len(a) \in Nat /\ Len(a) >= 1
  /\ a[1].depth = 0
  /\ \A y \in 1..Len(a) : /\ i + y - 1 \in 1..Len(t) /\ a[y].depth \in Nat
                          /\ a[y].id = t[i+y-1].id
                          /\ t[i+y-1].depth = a[y].depth + t[i].depth
  /\ \A y \in 2..Len(a) : a[y].depth > 0

(* Every clone of a subtree.                                               *)
LEMMA CloneAtIs ==
  ASSUME NEW t \in Seq(Item), NEW i \in 1..Len(t)
  PROVE  CloneAt(t, i, SubtreeAt(t, i))
<1>. DEFINE a == SubtreeAt(t, i)
<1>1. /\ Len(t) \in Nat /\ \A k \in 1..Len(t) : t[k].depth \in Nat
  BY ItemFields, PlacesOfSeq
<1>2. /\ a \in Seq(Item) /\ Len(a) = non_term_size(t, i) /\ Len(a) \in Nat /\ Len(a) >= 1
      /\ \A y \in 1..Len(a) : /\ i + y - 1 \in 1..Len(t)
                              /\ a[y].id = t[i+y-1].id
                              /\ a[y].depth = t[i+y-1].depth - t[i].depth
                              /\ a[y].depth \in Nat
  BY SubtreeFields
<1>. HIDE DEF a
<1>3. RunOf(t, i, Len(a))
  BY <1>2, SizeIs
<1>4. ASSUME NEW y \in 1..Len(a)  PROVE t[i+y-1].depth = a[y].depth + t[i].depth
  <2>1. t[i+y-1].depth \in Nat /\ t[i].depth \in Nat
    BY <1>1, <1>2
  <2>2. a[y].depth = t[i+y-1].depth - t[i].depth
    BY <1>2
  <2>. QED  BY <2>1, <2>2
<1>5. a[1].depth = 0
  <2>1. 1 \in 1..Len(a) /\ i + 1 - 1 = i
    BY <1>2
  <2>2. t[i].depth = a[1].depth + t[i].depth /\ a[1].depth \in Nat /\ t[i].depth \in Nat
    BY <1>1, <1>2, <1>4, <2>1
  <2>. QED  BY <2>2
<1>6. ASSUME NEW y \in 2..Len(a)  PROVE a[y].depth > 0
  <2>1. i + y - 1 \in (i+1)..(i + Len(a) - 1) /\ y \in 1..Len(a)
    BY <1>2
  <2>2. t[i+y-1].depth > t[i].depth
    BY <1>3, <2>1 DEF RunOf
  <2>3. t[i+y-1].depth = a[y].depth + t[i].depth /\ a[y].depth \in Nat /\ t[i].depth \in Nat
    BY <1>1, <1>2, <1>4, <2>1
  <2>. QED  BY <2>2, <2>3
<1>. QED  BY <1>2, <1>4, <1>5, <1>6 DEF CloneAt, a

(* Two subtrees with the same labels in preorder, of trees in which a      *)
(* label has one number of subnodes: the first node that is higher in one  *)
(* of them would leave its parent there with a subnode less.               *)
LEMMA NotHigher ==
  ASSUME NEW t \in Seq(Item), NEW u \in Seq(Item), IsTree(u),
         NEW i \in 1..Len(t), NEW j \in 1..Len(u), NEW a, NEW b,
         CloneAt(t, i, a), CloneAt(u, j, b), NEW k \in 1..Len(a), k <= Len(b),
         \A y \in 1..k : a[y].id = b[y].id,
         \A y \in 1..(k-1) : a[y].depth = b[y].depth,
         \A x \in 1..Len(t), y \in 1..Len(u) :
            t[x].id = u[y].id => Cardinality(Kids(t, x)) = Cardinality(Kids(u, y))
  PROVE  ~ (a[k].depth < b[k].depth)
<1>. SUFFICES ASSUME a[k].depth < b[k].depth  PROVE FALSE
  OBVIOUS
<1>. DEFINE da(y) == a[y].depth
            db(y) == b[y].depth
            dt(x) == t[x].depth
            du(x) == u[x].depth
<1>0. da(k) < db(k) /\ \A y \in 1..(k-1) : da(y) = db(y)
  OBVIOUS
<1>1. /\ Len(t) \in Nat /\ Len(u) \in Nat /\ Len(a) \in Nat /\ Len(b) \in Nat
      /\ DOMAIN t = 1..Len(t) /\ DOMAIN u = 1..Len(u) /\ k \in Nat
      /\ i \in Nat /\ j \in Nat /\ i >= 1 /\ j >= 1
  BY PlacesOfSeq DEF CloneAt
<1>2. /\ \A x \in 1..Len(t) : dt(x) \in Nat
      /\ \A x \in 1..Len(u) : du(x) \in Nat
  BY ItemFields
<1>3. ASSUME NEW y \in 1..k
      PROVE  /\ i + y - 1 \in 1..Len(t) /\ j + y - 1 \in 1..Len(u)
             /\ da(y) \in Nat /\ db(y) \in Nat
             /\ a[y].id = t[i+y-1].id /\ b[y].id = u[j+y-1].id
             /\ dt(i+y-1) = da(y) + dt(i)
             /\ du(j+y-1) = db(y) + du(j)
  <2>1. y \in 1..Len(a) /\ y \in 1..Len(b)
    BY <1>1
  <2>. QED  BY <2>1 DEF CloneAt
<1>. HIDE DEF da, db, dt, du
<1>4. dt(i) \in Nat /\ du(j) \in Nat /\ k \in 1..k
  BY <1>1, <1>2
<1>5. k # 1 /\ db(k) > 0
  <2>1. da(1) = 0 /\ db(1) = 0
    BY DEF CloneAt, da, db
  <2>2. da(k) \in Nat /\ db(k) \in Nat
    BY <1>3, <1>4
  <2>3. db(k) > 0
    BY <1>0, <2>2
  <2>. QED  BY <2>1, <2>3
<1>. DEFINE w == j + k - 1
<1>6. w \in 2..Len(u) /\ w \in 1..Len(u) /\ du(w) = db(k) + du(j)
  <2>1. w \in 1..Len(u) /\ du(w) = db(k) + du(j)
    BY <1>3, <1>4
  <2>. QED  BY <1>1, <1>5, <2>1
<1>7. PICK p \in 1..Len(u) : p < w /\ T!IsParent(u, p, w)
  <2>1. T!IsTree(u)
    BY SameShape
  <2>. QED  BY <1>6, <2>1, OneParent
<1>8. /\ du(p) = du(w) - 1 /\ \A x \in (p+1)..(w-1) : du(x) >= du(w)
      /\ du(p) \in Nat /\ du(w) \in Nat
  BY <1>2, <1>6, <1>7 DEF T!IsParent, du
<1>9. p >= j
  <2>. SUFFICES ASSUME ~ (p >= j)  PROVE FALSE
    OBVIOUS
  <2>1. j \in (p+1)..(w-1)
    BY <1>1, <1>5
  <2>2. du(j) >= du(w)
    BY <1>8, <2>1
  <2>3. db(k) \in Nat
    BY <1>3, <1>4
  <2>. HIDE DEF w
  <2>. QED  BY <1>4, <1>5, <1>6, <2>2, <2>3
<1>. DEFINE m == (p - j) + 1
            s == i + m - 1
<1>10. m \in 1..(k-1) /\ m \in 1..k /\ p = j + m - 1
  BY <1>1, <1>7, <1>9
<1>. HIDE DEF m, w
<1>11. db(m) = db(k) - 1 /\ da(m) = db(m) /\ da(k) \in Nat
       /\ db(k) \in Nat /\ db(m) \in Nat
  <2>1. du(p) = db(m) + du(j) /\ db(m) \in Nat
    BY <1>3, <1>10
  <2>2. db(k) \in Nat /\ da(k) \in Nat
    BY <1>3, <1>4
  <2>3. db(m) = db(k) - 1
    <3>1. db(m) + du(j) = (db(k) + du(j)) - 1
      BY <1>6, <1>8, <2>1
    <3>. QED  BY <1>4, <2>1, <2>2, <3>1, LevelAbove, Zenon
  <2>. QED  BY <1>0, <1>10, <2>1, <2>2, <2>3
<1>12. /\ s \in 1..Len(t) /\ dt(s) = da(m) + dt(i) /\ t[s].id = u[p].id
       /\ da(m) \in Nat
  BY <1>3, <1>10
<1>13. s \in Nat /\ i \in Nat /\ m \in Nat /\ s = i + m - 1
  BY <1>1, <1>10
<1>. HIDE DEF s
<1>14. ASSUME NEW x \in Kids(t, s)  PROVE x \in (s+1)..(i + k - 2) /\ x - i + j \in Kids(u, p)
  <2>1. /\ x \in 1..Len(t) /\ s \in 1..(x-1) /\ dt(s) = dt(x) - 1
        /\ \A y \in (s+1)..(x-1) : dt(y) >= dt(x)
    BY <1>1 DEF Kids, T!IsParent, dt
  <2>2. dt(x) \in Nat /\ dt(s) \in Nat
    BY <1>2, <1>12, <2>1
  <2>3. dt(i+k-1) = da(k) + dt(i) /\ i + k - 1 \in 1..Len(t)
    BY <1>3, <1>4
  <2>4. dt(i+k-1) < dt(x)
    <3>2. da(m) = db(k) - 1 /\ da(m) + dt(i) = dt(x) - 1
      BY <1>11, <1>12, <2>1
    <3>3. da(k) \in Nat /\ da(m) \in Nat /\ db(k) \in Nat /\ da(k) < db(k)
      BY <1>0, <1>11, <1>12
    <3>4. da(k) <= da(m)
      BY <3>2, <3>3
    <3>5. da(k) + dt(i) < dt(x)
      BY <1>4, <2>2, <3>2, <3>3, <3>4, LevelBefore, Zenon
    <3>. QED  BY <2>3, <3>5
  <2>5. x < i + k - 1
    <3>. SUFFICES ASSUME ~ (x < i + k - 1)  PROVE FALSE
      OBVIOUS
    <3>1. x = i + k - 1 \/ i + k - 1 \in (s+1)..(x-1)
      BY <1>1, <1>10, <1>13, <2>1
    <3>2. dt(i+k-1) >= dt(x)
      BY <2>1, <2>2, <3>1
    <3>3. dt(i+k-1) \in Nat
      BY <1>2, <2>3
    <3>. QED  BY <2>2, <2>4, <3>2, <3>3, LevelsDiffer, Zenon
  <2>6. x \in (s+1)..(i + k - 2)
    <3>1. x \in Nat /\ s \in Nat /\ i \in Nat /\ k \in Nat /\ s \in 1..(x-1)
      BY <1>1, <1>13, <2>1
    <3>. QED  BY <2>5, <3>1
  <2>. DEFINE y == x - i + 1
              v == x - i + j
  <2>7. y \in (m+1)..(k-1) /\ y \in 1..k /\ y \in 1..(k-1) /\ i + y - 1 = x /\ j + y - 1 = v
    BY <1>1, <1>10, <1>13, <2>6
  <2>. HIDE DEF y, v
  <2>8. /\ dt(x) = da(y) + dt(i) /\ v \in 1..Len(u)
        /\ du(v) = db(y) + du(j) /\ da(y) = db(y)
        /\ da(y) \in Nat
    <3>1. /\ dt(i+y-1) = da(y) + dt(i) /\ j + y - 1 \in 1..Len(u)
          /\ du(j+y-1) = db(y) + du(j) /\ da(y) \in Nat
      BY <1>3, <2>7
    <3>2. da(y) = db(y)
      BY <1>0, <2>7
    <3>. QED  BY <2>7, <3>1, <3>2
  <2>9. p \in 1..(v-1)
    BY <1>1, <1>10, <2>7
  <2>10. da(m) = da(y) - 1
    <3>1. da(m) + dt(i) = (da(y) + dt(i)) - 1
      BY <1>12, <2>1, <2>8
    <3>2. da(m) \in Nat /\ da(y) \in Nat /\ dt(i) \in Nat
      BY <1>4, <1>12, <2>8
    <3>. QED  BY <3>1, <3>2, LevelAbove, Zenon
  <2>11. du(p) = du(v) - 1
    <3>1. du(p) = db(m) + du(j)
      BY <1>3, <1>10
    <3>2. db(m) = db(y) - 1 /\ db(y) \in Nat /\ db(m) \in Nat
      BY <1>11, <2>8, <2>10
    <3>3. db(m) + du(j) = (db(y) + du(j)) - 1
      BY <1>4, <3>2
    <3>. QED  BY <2>8, <3>1, <3>3
  <2>12. ASSUME NEW e \in (p+1)..(v-1)  PROVE du(e) >= du(v)
    <3>. DEFINE f == e - j + 1
                g == i + f - 1
    <3>1. /\ f \in 1..k /\ f \in 1..(k-1) /\ j + f - 1 = e /\ g \in (s+1)..(x-1)
      BY <1>1, <1>10, <1>13, <2>7
    <3>. HIDE DEF f
    <3>2. dt(g) >= dt(x)
      BY <2>1, <3>1
    <3>3. /\ dt(g) = da(f) + dt(i) /\ du(e) = db(f) + du(j)
          /\ da(f) \in Nat
      <4>1. /\ dt(i+f-1) = da(f) + dt(i)
            /\ du(j+f-1) = db(f) + du(j) /\ da(f) \in Nat
        BY <1>3, <3>1
      <4>. QED  BY <3>1, <4>1
    <3>4. da(f) = db(f)
      BY <1>0, <3>1
    <3>. HIDE DEF g
    <3>5. da(f) >= da(y)
      <4>1. da(f) + dt(i) >= da(y) + dt(i)
        BY <2>8, <3>2, <3>3
      <4>. QED  BY <1>4, <2>8, <3>3, <4>1
    <3>6. db(f) >= db(y) /\ db(f) \in Nat /\ db(y) \in Nat
      BY <2>8, <3>3, <3>4, <3>5
    <3>7. db(f) + du(j) >= db(y) + du(j)
      BY <1>4, <3>6
    <3>. QED  BY <2>8, <3>3, <3>7
  <2>13. T!IsParent(u, p, v)
    BY <2>9, <2>11, <2>12 DEF T!IsParent, du
  <2>. QED  BY <1>1, <2>6, <2>8, <2>13 DEF Kids, v
<1>. DEFINE S == Kids(t, s)
            R == Kids(u, p)
            f == [x \in S |-> x - i + j]
<1>15. IsFiniteSet(R)
  <2>1. R \in SUBSET (1..Len(u)) /\ IsFiniteSet(1..Len(u))
    <3>1. R \in SUBSET (1..Len(u))
      BY <1>1 DEF Kids
    <3>2. IsFiniteSet(1..Len(u))
      BY <1>1, FS_Interval
    <3>. QED  BY <3>1, <3>2
  <2>. QED  BY <2>1, FS_Subset
<1>16. f \in Injection(S, R)
  <2>1. \A x \in S : x \in Int
    BY <1>13, <1>14
  <2>2. \A x, y \in S : f[x] = f[y] => x = y
    BY <1>1, <2>1
  <2>3. f \in [S -> R]
    BY <1>14
  <2>. HIDE DEF f, S, R
  <2>. QED  BY <2>2, <2>3 DEF Injection, IsInjective
<1>17. Cardinality(S) = Cardinality(R)
  BY <1>7, <1>12
<1>. HIDE DEF S, R
<1>18. f \in Surjection(S, R)
  <2>. HIDE DEF f
  <2>. QED  BY <1>15, <1>16, <1>17, FS_Injection
<1>19. w \in R
  BY <1>1, <1>6, <1>7 DEF R, Kids
<1>20. PICK x \in S : f[x] = w
  <2>. HIDE DEF f
  <2>. QED  BY <1>18, <1>19 DEF Surjection
<1>21. x - i + j = j + k - 1 /\ x \in (s+1)..(i + k - 2)
  BY <1>14, <1>20 DEF w, S
<1>. QED  BY <1>1, <1>13, <1>21

(* So such subtrees are equal: where a label has one number of subnodes,   *)
(* hash_node() tells trees apart, although it does not hash that number.   *)
LEMMA SameTrees ==
  ASSUME NEW t \in Seq(Item), NEW u \in Seq(Item), IsTree(t), IsTree(u),
         NEW i \in 1..Len(t), NEW j \in 1..Len(u),
         hash_node(SubtreeAt(t, i)) = hash_node(SubtreeAt(u, j)),
         \A x \in 1..Len(t), y \in 1..Len(u) :
            t[x].id = u[y].id => Cardinality(Kids(t, x)) = Cardinality(Kids(u, y))
  PROVE  SubtreeAt(t, i) = SubtreeAt(u, j)
<1>. DEFINE a == SubtreeAt(t, i)
            b == SubtreeAt(u, j)
            n == Len(a)
<1>1. CloneAt(t, i, a) /\ CloneAt(u, j, b)
  BY CloneAtIs
<1>2. hash_node(a) = hash_node(b)
  OBVIOUS
<1>. HIDE DEF a, b
<1>3. a \in Seq(Item) /\ b \in Seq(Item) /\ n \in Nat
  BY <1>1 DEF CloneAt
<1>4. DOMAIN a = 1..n /\ DOMAIN b = 1..Len(b) /\ Len(b) \in Nat
  BY <1>3, PlacesOfSeq
<1>5. DOMAIN a = DOMAIN b /\ \A k \in DOMAIN a : a[k].id = b[k].id
  <2>1. DOMAIN hash_node(a) = DOMAIN a /\ DOMAIN hash_node(b) = DOMAIN b
    BY DEF hash_node
  <2>2. DOMAIN a = DOMAIN b
    BY <1>2, <2>1
  <2>3. ASSUME NEW k \in DOMAIN a  PROVE a[k].id = b[k].id
    <3>1. hash_node(a)[k] = a[k].id /\ hash_node(b)[k] = b[k].id
      BY <2>2 DEF hash_node
    <3>. QED  BY <1>2, <3>1
  <2>. QED  BY <2>2, <2>3
<1>6. Len(b) = n /\ \A k \in 1..n : a[k].id = b[k].id
  <2>1. \A k : k \in 1..n <=> k \in 1..Len(b)
    BY <1>4, <1>5
  <2>. HIDE DEF n
  <2>2. ~ (n < Len(b))
    <3>. SUFFICES ASSUME n < Len(b)  PROVE FALSE
      OBVIOUS
    <3>1. Len(b) \in 1..Len(b) /\ Len(b) \notin 1..n
      BY <1>3, <1>4
    <3>. QED  BY <2>1, <3>1
  <2>3. ~ (Len(b) < n)
    <3>. SUFFICES ASSUME Len(b) < n  PROVE FALSE
      OBVIOUS
    <3>1. n \in 1..n /\ n \notin 1..Len(b)
      BY <1>3, <1>4
    <3>. QED  BY <2>1, <3>1
  <2>4. Len(b) = n
    <3>1. n \in Nat /\ Len(b) \in Nat
      BY <1>3, <1>4
    <3>. QED  BY <2>2, <2>3, <3>1
  <2>. QED  BY <1>4, <1>5, <2>4
<1>. HIDE DEF n
<1>7. \A k \in 1..n : /\ a[k].depth \in Nat /\ b[k].depth \in Nat
                      /\ a[k] = [id |-> a[k].id, depth |-> a[k].depth]
                      /\ b[k] = [id |-> b[k].id, depth |-> b[k].depth]
  BY <1>3, <1>6, ItemFields DEF n
<1>. DEFINE Bad == {k \in 1..n : a[k].depth # b[k].depth}
<1>8. Bad = {}
  <2>. SUFFICES ASSUME Bad # {}  PROVE FALSE
    OBVIOUS
  <2>1. PICK k \in Bad : \A m \in Bad : k <= m
    <3>1. Bad \in SUBSET Nat
      BY <1>3
    <3>. HIDE DEF Bad
    <3>. QED  BY <3>1, LeastElement
  <2>2. k \in 1..n /\ a[k].depth # b[k].depth
    BY <2>1
  <2>3. ASSUME NEW y \in 1..(k-1)  PROVE a[y].depth = b[y].depth
    <3>1. y \in 1..n /\ ~ (k <= y)
      BY <1>3, <2>2
    <3>. QED  BY <2>1, <3>1
  <2>4. \A y \in 1..k : y \in 1..n
    BY <1>3, <2>2
  <2>5. k <= n /\ \A y \in 1..k : a[y].id = b[y].id /\ b[y].id = a[y].id
    BY <1>3, <1>6, <2>2, <2>4
  <2>6. ~ (a[k].depth < b[k].depth)
    BY <1>1, <1>6, <2>2, <2>3, <2>5, NotHigher DEF n
  <2>7. ~ (b[k].depth < a[k].depth)
    <3>1. \A x \in 1..Len(u), y \in 1..Len(t) :
            u[x].id = t[y].id => Cardinality(Kids(u, x)) = Cardinality(Kids(t, y))
      OBVIOUS
    <3>2. \A y \in 1..(k-1) : b[y].depth = a[y].depth
      BY <2>3
    <3>3. k \in 1..Len(b) /\ k <= Len(a) /\ \A y \in 1..k : b[y].id = a[y].id
      BY <1>6, <2>2, <2>5 DEF n
    <3>. QED  BY <1>1, <3>1, <3>2, <3>3, NotHigher
  <2>8. a[k].depth \in Nat /\ b[k].depth \in Nat
    BY <1>7, <2>2
  <2>. QED  BY <2>2, <2>6, <2>7, <2>8
<1>9. ASSUME NEW k \in 1..n  PROVE a[k] = b[k]
  <2>1. a[k].depth = b[k].depth
    BY <1>8
  <2>. QED  BY <1>6, <1>7, <2>1
<1>10. a = b
  BY <1>3, <1>6, <1>9, SeqSame DEF n
<1>. QED  BY <1>10 DEF a, b

-----------------------------------------------------------------------------
(* A position of a sum lies in one of its parts, and what follows the part *)
(* is the first element of a part.                                         *)
LiesIn(ss, n, F, p) ==
  \E i \in 1..n, o \in Nat :
    /\ o + Len(ss[i]) <= Len(F) /\ p \in (o + 1)..(o + Len(ss[i]))
    /\ \A x \in 1..Len(ss[i]) : F[o + x] = ss[i][x]
    /\ o + Len(ss[i]) + 1 <= Len(F) =>
         \E j \in 1..n : F[o + Len(ss[i]) + 1] = ss[j][1]

(* So it is when a part is added.                                          *)
LEMMA LiesInMore ==
  ASSUME NEW S, NEW ss, NEW n \in Nat, NEW F \in Seq(S), ss[n + 1] \in Seq(S),
         \A i \in 1..(n + 1) : Len(ss[i]) \in Nat,
         Len(ss[n + 1]) >= 1, \A p \in 1..Len(F) : LiesIn(ss, n, F, p)
  PROVE  \A p \in 1..Len(F \o ss[n + 1]) : LiesIn(ss, n + 1, F \o ss[n + 1], p)
<1>. DEFINE b == ss[n + 1]
            G == F \o b
<1>1. /\ G \in Seq(S) /\ Len(G) = Len(F) + Len(b)
      /\ \A x \in 1..Len(F) : G[x] = F[x]
      /\ \A x \in 1..Len(b) : G[Len(F) + x] = b[x]
      /\ \A x \in 1..Len(G) : x \in 1..Len(F) \/ \E k \in 1..Len(b) : x = Len(F) + k
  <2>1. b \in Seq(S)
    OBVIOUS
  <2>. HIDE DEF b
  <2>. QED  BY <2>1, ConcatAt
<1>2. Len(F) \in Nat /\ Len(b) \in Nat /\ Len(b) >= 1
  BY PlacesOfSeq
<1>3. n + 1 \in 1..(n + 1) /\ \A i \in 1..n : i \in 1..(n + 1)
  OBVIOUS
<1>. HIDE DEF b, G
<1>4. ASSUME NEW p \in 1..Len(F)  PROVE LiesIn(ss, n + 1, G, p)
  <2>1. PICK i \in 1..n, o \in Nat :
          /\ o + Len(ss[i]) <= Len(F) /\ p \in (o + 1)..(o + Len(ss[i]))
          /\ \A x \in 1..Len(ss[i]) : F[o + x] = ss[i][x]
          /\ o + Len(ss[i]) + 1 <= Len(F) =>
               \E j \in 1..n : F[o + Len(ss[i]) + 1] = ss[j][1]
    BY DEF LiesIn
  <2>. DEFINE l == Len(ss[i])
  <2>2. l \in Nat /\ i \in 1..(n + 1)
    BY <1>3
  <2>. HIDE DEF l
  <2>3. o + l <= Len(F) /\ p \in (o + 1)..(o + l)
    BY <2>1 DEF l
  <2>4. o + l <= Len(G)
    BY <1>1, <1>2, <2>2, <2>3
  <2>5. ASSUME NEW x \in 1..l  PROVE G[o + x] = ss[i][x]
    <3>1. o + x \in 1..Len(F)
      BY <1>2, <2>2, <2>3
    <3>2. F[o + x] = ss[i][x]
      BY <2>1 DEF l
    <3>. QED  BY <1>1, <3>1, <3>2
  <2>6. ASSUME o + l + 1 <= Len(G)
        PROVE  \E j \in 1..(n + 1) : G[o + l + 1] = ss[j][1]
    <3>1. CASE o + l + 1 <= Len(F)
      <4>1. PICK j \in 1..n : F[o + l + 1] = ss[j][1]
        BY <2>1, <3>1 DEF l
      <4>2. o + l + 1 \in 1..Len(F)
        BY <1>2, <2>2, <3>1
      <4>3. G[o + l + 1] = ss[j][1]
        BY <1>1, <4>1, <4>2
      <4>4. j \in 1..(n + 1)
        BY <1>3
      <4>. QED  BY <4>3, <4>4, Zenon
    <3>2. CASE ~ (o + l + 1 <= Len(F))
      <4>1. o + l + 1 = Len(F) + 1 /\ 1 \in 1..Len(b)
        <5>. DEFINE f == Len(F)
        <5>1. f \in Nat /\ l \in Nat /\ o \in Nat /\ o + l <= f /\ ~ (o + l + 1 <= f)
          BY <1>2, <2>2, <2>3, <3>2
        <5>. HIDE DEF f
        <5>2. o + l + 1 = f + 1
          BY <5>1
        <5>3. 1 \in 1..Len(b)
          BY <1>2
        <5>. QED  BY <5>2, <5>3 DEF f
      <4>2. G[Len(F) + 1] = b[1]
        BY <1>1, <4>1
      <4>3. G[o + l + 1] = ss[n + 1][1]
        BY <4>1, <4>2 DEF b
      <4>. QED  BY <1>3, <4>3
    <3>. QED  BY <3>1, <3>2
  <2>. QED  BY <2>2, <2>3, <2>4, <2>5, <2>6 DEF LiesIn, l
<1>5. ASSUME NEW k \in 1..Len(b), NEW p, p = Len(F) + k  PROVE LiesIn(ss, n + 1, G, p)
  <2>. DEFINE o == Len(F)
              i == n + 1
  <2>1. /\ o \in Nat /\ i \in 1..(n + 1) /\ o + Len(b) <= Len(G)
        /\ p \in (o + 1)..(o + Len(b)) /\ ~ (o + Len(b) + 1 <= Len(G))
    BY <1>1, <1>2, <1>3, <1>5
  <2>2. \A x \in 1..Len(b) : G[o + x] = b[x]
    BY <1>1
  <2>3. b = ss[i]
    BY DEF b
  <2>. HIDE DEF o, i
  <2>. QED  BY <2>1, <2>2, <2>3 DEF LiesIn
<1>6. \A p \in 1..Len(G) : LiesIn(ss, n + 1, G, p)
  BY <1>1, <1>4, <1>5
<1>. QED  BY <1>6 DEF G, b

(* Every position of the whole lies in a part.                             *)
LEMMA FlattenParts ==
  ASSUME NEW S, NEW ss \in Seq(Seq(S)), \A i \in 1..Len(ss) : Len(ss[i]) >= 1
  PROVE  \A p \in 1..Len(FlattenSeq(ss)) : LiesIn(ss, Len(ss), FlattenSeq(ss), p)
<1>. DEFINE n == Len(ss)
            F == FlattenSeq(ss)
<1>0. n \in Nat /\ \A i \in 1..n : ss[i] \in Seq(S) /\ Len(ss[i]) \in Nat /\ Len(ss[i]) >= 1
  OBVIOUS
<1>1. CASE n = 0
  <2>1. ss = <<>>
    BY <1>0, <1>1
  <2>2. F = <<>>
    BY <2>1 DEF FlattenSeq
  <2>. HIDE DEF F
  <2>3. \A p \in 1..Len(F) : FALSE
    BY <2>2
  <2>. QED  BY <2>3 DEF F
<1>2. CASE n # 0
  <2>1. PICK f : IsRow(S, ss, f) /\ F = f[n]
    BY <1>2, FlattenRow
  <2>. HIDE DEF F
  <2>2. /\ \A i \in 1..n : f[i] \in Seq(S)
        /\ f[1] = ss[1] /\ \A i \in 1..n : i # 1 => f[i] = f[i-1] \o ss[i]
    BY <2>1 DEF IsRow
  <2>. HIDE DEF n
  <2>. DEFINE All(i) == \A p \in 1..Len(f[i]) : LiesIn(ss, i, f[i], p)
              Bad == {i \in 1..n : ~ All(i)}
  <2>3. Bad = {}
    <3>. SUFFICES ASSUME Bad # {}  PROVE FALSE
      OBVIOUS
    <3>1. PICK k \in Bad : \A i \in Bad : k <= i
      <4>1. Bad \in SUBSET Nat
        BY <1>0
      <4>. HIDE DEF Bad
      <4>. QED  BY <4>1, LeastElement
    <3>2. k \in 1..n /\ ~ All(k)
      BY <3>1
    <3>3. k # 1
      <4>. SUFFICES ASSUME k = 1, NEW p \in 1..Len(f[1])  PROVE LiesIn(ss, 1, f[1], p)
        BY <3>2
      <4>. DEFINE b == ss[1]
      <4>1. f[1] = b /\ Len(b) \in Nat
        BY <1>0, <2>2, <3>2
      <4>. HIDE DEF b
      <4>. DEFINE o == 0
                  i == 1
      <4>2. /\ o \in Nat /\ i \in 1..1 /\ o + Len(b) <= Len(b) /\ p \in (o + 1)..(o + Len(b))
            /\ ~ (o + Len(b) + 1 <= Len(b))
        BY <4>1
      <4>3. \A x \in 1..Len(b) : b[o + x] = b[x]
        BY <4>1
      <4>4. b = ss[i]
        BY DEF b
      <4>. HIDE DEF o, i
      <4>5. /\ o + Len(ss[i]) <= Len(b) /\ p \in (o + 1)..(o + Len(ss[i]))
            /\ \A x \in 1..Len(ss[i]) : b[o + x] = ss[i][x]
            /\ o + Len(ss[i]) + 1 <= Len(b) =>
                 \E j \in 1..1 : b[o + Len(ss[i]) + 1] = ss[j][1]
        BY <4>2, <4>3, <4>4
      <4>6. LiesIn(ss, 1, b, p)
        BY <4>2, <4>5, Zenon DEF LiesIn
      <4>. QED  BY <4>1, <4>6
    <3>. DEFINE m == k - 1
    <3>4. m \in 1..n /\ ~ (k <= m) /\ m + 1 = k /\ m \in Nat
      BY <1>0, <3>2, <3>3
    <3>5. All(m)
      BY <3>1, <3>4
    <3>6. f[k] = f[m] \o ss[k]
      BY <2>2, <3>2, <3>3
    <3>. HIDE DEF m
    <3>7. /\ f[m] \in Seq(S) /\ ss[m + 1] \in Seq(S) /\ Len(ss[m + 1]) >= 1
          /\ \A i \in 1..(m + 1) : Len(ss[i]) \in Nat
      <4>1. \A i \in 1..(m + 1) : i \in 1..n
        BY <1>0, <3>2, <3>4
      <4>. QED  BY <1>0, <2>2, <3>2, <3>4, <4>1
    <3>8. \A p \in 1..Len(f[m] \o ss[m + 1]) : LiesIn(ss, m + 1, f[m] \o ss[m + 1], p)
      BY <3>4, <3>5, <3>7, LiesInMore
    <3>. QED  BY <3>2, <3>4, <3>6, <3>8
  <2>4. n \in 1..n
    BY <1>0, <1>2
  <2>5. All(n)
    BY <2>3, <2>4
  <2>. QED  BY <2>1, <2>5 DEF F, n
<1>. QED  BY <1>1, <1>2

(* A node one level deeper.                                                *)
LEMMA DeeperFields ==
  ASSUME NEW e \in Item
  PROVE  Deeper[e] = [id |-> e.id, depth |-> e.depth + 1] /\ e.depth \in Nat
<1>1. e = [id |-> e.id, depth |-> e.depth] /\ e.depth \in Nat
  BY DEF Item
<1>2. Deeper[e] = [e EXCEPT !.depth = @ + 1]
  BY DEF Deeper
<1>. QED  BY <1>1, <1>2

(* The clone of a node in parts: the root, then the clones of the subnodes *)
(* one level deeper.                                                       *)
ClonePartsOf(h, c, y, P, F) ==
  LET s == h[y].subs IN
  /\ s \in Seq(DOMAIN h) /\ P \in Seq(Seq(Item)) /\ Len(P) = Len(s)
  /\ \A i \in 1..Len(s) : /\ s[i] \in DOMAIN h /\ c[s[i]] \in Seq(Item)
                          /\ P[i] \in Seq(Item) /\ Len(P[i]) = Len(c[s[i]])
                          /\ \A x \in 1..Len(P[i]) : P[i][x] = Deeper[c[s[i]][x]]
  /\ F = FlattenSeq(P) /\ F \in Seq(Item) /\ c[y] \in Seq(Item)
  /\ Len(F) \in Nat /\ Len(c[y]) = 1 + Len(F)
  /\ c[y][1] = [id |-> h[y].label, depth |-> 0]
  /\ \A x \in 1..Len(F) : c[y][1 + x] = F[x]

(* There are such parts.                                                   *)
LEMMA CloneInParts ==
  ASSUME NEW h, Shape(h), Acyclic(h), NEW y \in DOMAIN h
  PROVE  LET c == CloneOf(h)
             P == Parts(SubsOf(h), Deeper, c, y)
         IN  ClonePartsOf(h, c, y, P, FlattenSeq(P))
<1>. DEFINE D == DOMAIN h
            c == CloneOf(h)
            subs == SubsOf(h)
            P == Parts(subs, Deeper, c, y)
            F == FlattenSeq(P)
            r == ItemOf(h)[y]
            s == h[y].subs
<1>1. PICK rk, b : Ranked(D, subs, rk, b)
  BY DEF Acyclic
<1>2. /\ IsMapping(c, D, Seq(Item))
      /\ c[y] = Walk(ItemOf(h), subs, Deeper, c, y)
  BY <1>1, CloneIs
<1>3. /\ IsMapping(ItemOf(h), D, Item) /\ IsMapping(Deeper, Item, Item)
      /\ IsMapping(subs, D, Seq(D))
  BY SubsTyped, ItemsTyped
<1>4. subs[y] = s /\ s \in Seq(D)
  BY CellFields
<1>5. r = [id |-> h[y].label, depth |-> 0]
  BY DEF ItemOf
<1>. HIDE DEF D, subs, c, r
<1>6. Walkable(D, Item, ItemOf(h), subs, Deeper, c, y)
  <2>1. y \in D
    BY DEF D
  <2>. QED  BY <1>2, <1>3, <2>1, WalkFacts
<1>7. /\ P \in Seq(Seq(Item)) /\ Len(P) = Len(s)
      /\ \A i \in 1..Len(s) : /\ s[i] \in D /\ c[s[i]] \in Seq(Item)
                              /\ P[i] = MapSeq(Deeper, c[s[i]])
      /\ <<r>> \in Seq(Item) /\ Len(<<r>>) = 1 /\ <<r>>[1] = r
  BY <1>4, <1>6 DEF Walkable, r
<1>8. c[y] = <<r>> \o F
  BY <1>2 DEF Walk, r
<1>. HIDE DEF P, s
<1>9. F \in Seq(Item)
  BY <1>7, FlattenFacts
<1>. HIDE DEF F
<1>10. Len(F) \in Nat
  BY <1>9, PlacesOfSeq
<1>11. /\ c[y] \in Seq(Item) /\ Len(c[y]) = Len(<<r>>) + Len(F)
       /\ \A p \in 1..Len(<<r>>) : c[y][p] = <<r>>[p]
       /\ \A p \in 1..Len(F) : c[y][Len(<<r>>) + p] = F[p]
  <2>1. <<r>> \in Seq(Item)
    BY <1>7
  <2>. QED  BY <1>8, <1>9, <2>1, ConcatAt
<1>12. c[y][1] = r
  <2>1. 1 \in 1..Len(<<r>>)
    BY <1>7
  <2>. QED  BY <1>7, <1>11, <2>1
<1>13. ASSUME NEW i \in 1..Len(s)
       PROVE  /\ P[i] \in Seq(Item) /\ Len(P[i]) = Len(c[s[i]])
              /\ \A x \in 1..Len(P[i]) : P[i][x] = Deeper[c[s[i]][x]]
  <2>. DEFINE v == c[s[i]]
  <2>1. v \in Seq(Item) /\ P[i] = MapSeq(Deeper, v)
    BY <1>7
  <2>. HIDE DEF v
  <2>2. /\ MapSeq(Deeper, v) \in Seq(Item) /\ Len(MapSeq(Deeper, v)) = Len(v)
        /\ \A x \in 1..Len(v) : MapSeq(Deeper, v)[x] = Deeper[v[x]]
    BY <1>3, <2>1, MapSeqFacts
  <2>. QED  BY <2>1, <2>2 DEF v
<1>14. \A x \in 1..Len(F) : c[y][1 + x] = F[x]
  BY <1>7, <1>11
<1>15. ClonePartsOf(h, c, y, P, F)
  BY <1>4, <1>5, <1>7, <1>9, <1>10, <1>11, <1>12, <1>13, <1>14 DEF ClonePartsOf, s, D, F
<1>. QED  BY <1>15 DEF F, P, c, subs

(* A clone is a root at the level 0, and everything else below it.         *)
LEMMA CloneShape ==
  ASSUME NEW h, Shape(h), Acyclic(h), NEW y \in DOMAIN h
  PROVE  LET v == CloneOf(h)[y] IN
         /\ v \in Seq(Item) /\ Len(v) \in Nat /\ Len(v) >= 1
         /\ v[1].id = h[y].label /\ v[1].depth = 0
         /\ \A m \in 2..Len(v) : v[m].depth > 0
<1>. DEFINE c == CloneOf(h)
            P == Parts(SubsOf(h), Deeper, c, y)
            F == FlattenSeq(P)
            s == h[y].subs
            v == c[y]
<1>1. ClonePartsOf(h, c, y, P, F)
  BY CloneInParts
<1>. HIDE DEF c, P
<1>2. /\ P \in Seq(Seq(Item)) /\ Len(P) = Len(s) /\ Len(s) \in Nat
      /\ \A i \in 1..Len(s) : /\ c[s[i]] \in Seq(Item)
                              /\ P[i] \in Seq(Item) /\ Len(P[i]) = Len(c[s[i]])
                              /\ \A x \in 1..Len(P[i]) : P[i][x] = Deeper[c[s[i]][x]]
  BY <1>1, PlacesOfSeq DEF ClonePartsOf
<1>3. /\ F \in Seq(Item) /\ v \in Seq(Item)
      /\ Len(F) \in Nat /\ Len(v) = 1 + Len(F)
      /\ v[1] = [id |-> h[y].label, depth |-> 0]
      /\ \A x \in 1..Len(F) : v[1 + x] = F[x]
  BY <1>1 DEF ClonePartsOf
<1>4. Range(F) = UNION {Range(P[i]) : i \in 1..Len(P)}
  BY <1>2, FlattenFacts
<1>. HIDE DEF F, v, s
<1>5. ASSUME NEW x \in 1..Len(F)  PROVE F[x].depth > 0
  <2>1. F[x] \in Range(F)
    BY <1>3, RangeHas
  <2>2. PICK i \in 1..Len(P) : F[x] \in Range(P[i])
    BY <1>4, <2>1, Zenon
  <2>3. i \in 1..Len(s) /\ P[i] \in Seq(Item) /\ c[s[i]] \in Seq(Item)
    BY <1>2, <2>2
  <2>4. PICK k \in 1..Len(P[i]) : P[i][k] = F[x]
    BY <2>2, <2>3, RangeAt
  <2>5. P[i][k] = Deeper[c[s[i]][k]] /\ k \in 1..Len(c[s[i]])
    BY <1>2, <2>3, <2>4
  <2>6. c[s[i]][k] \in Item
    BY <2>3, <2>5, PlacesOfSeq
  <2>. DEFINE e == c[s[i]][k]
  <2>7. e \in Item /\ F[x] = Deeper[e]
    BY <2>4, <2>5, <2>6
  <2>. HIDE DEF e
  <2>8. F[x] = [id |-> e.id, depth |-> e.depth + 1] /\ e.depth \in Nat
    BY <2>7, DeeperFields
  <2>. QED  BY <2>8
<1>6. ASSUME NEW m \in 2..Len(v)  PROVE v[m].depth > 0
  <2>1. m - 1 \in 1..Len(F) /\ 1 + (m - 1) = m
    BY <1>3
  <2>2. v[m] = F[m - 1]
    BY <1>3, <2>1
  <2>. QED  BY <1>5, <2>1, <2>2
<1>7. v[1].id = h[y].label /\ v[1].depth = 0 /\ Len(v) \in Nat /\ Len(v) >= 1
  BY <1>3
<1>. QED  BY <1>3, <1>6, <1>7 DEF v, c

(* Such a sequence is the subtree of its root.                             *)
LEMMA WholeSubtree ==
  ASSUME NEW v \in Seq(Item), Len(v) >= 1, v[1].depth = 0,
         \A m \in 2..Len(v) : v[m].depth > 0
  PROVE  SubtreeAt(v, 1) = v
<1>. DEFINE n == Len(v)
<1>1. n \in Nat /\ 1 \in 1..n /\ n >= 1
  BY PlacesOfSeq
<1>2. RunOf(v, 1, n)
  <2>1. 1 + n - 1 = n /\ ~ (1 + n <= n) /\ 1 + 1 = 2
    BY <1>1
  <2>. QED  BY <1>1, <2>1 DEF RunOf
<1>3. non_term_size(v, 1) = n
  BY <1>1, <1>2, SizeIs
<1>. HIDE DEF n
<1>4. SubtreeAt(v, 1) = [k \in 1..n |-> [id |-> v[1+k-1].id, depth |-> v[1+k-1].depth - v[1].depth]]
  BY <1>3 DEF SubtreeAt
<1>5. ASSUME NEW k \in 1..n
      PROVE  [id |-> v[1+k-1].id, depth |-> v[1+k-1].depth - v[1].depth] = v[k]
  <2>1. 1 + k - 1 = k
    OBVIOUS
  <2>2. v[k] = [id |-> v[k].id, depth |-> v[k].depth] /\ v[k].depth \in Nat
    BY ItemFields DEF n
  <2>3. v[k].depth - v[1].depth = v[k].depth
    BY <2>2
  <2>. QED  BY <2>1, <2>2, <2>3
<1>6. SubtreeAt(v, 1) = [k \in 1..n |-> v[k]]
  BY <1>4, <1>5
<1>7. v = [k \in 1..n |-> v[k]]
  BY <1>1 DEF n
<1>. QED  BY <1>6, <1>7

(* Below its root, a clone holds the clones of the subnodes.               *)
LEMMA PlacedBelow ==
  ASSUME NEW h, Shape(h), Acyclic(h), NEW y \in DOMAIN h, NEW m \in 2..Len(CloneOf(h)[y])
  PROVE  \E i \in 1..Len(h[y].subs), o \in Nat :
           /\ Placed(CloneOf(h)[y], o, 1, CloneOf(h)[h[y].subs[i]])
           /\ m - o \in 1..Len(CloneOf(h)[h[y].subs[i]])
<1>. DEFINE c == CloneOf(h)
            P == Parts(SubsOf(h), Deeper, c, y)
            F == FlattenSeq(P)
            s == h[y].subs
            v == c[y]
<1>1. ClonePartsOf(h, c, y, P, F)
  BY CloneInParts
<1>2. \A z \in DOMAIN h : /\ c[z] \in Seq(Item) /\ Len(c[z]) \in Nat /\ Len(c[z]) >= 1
                          /\ c[z][1].depth = 0
  BY CloneShape
<1>3. m \in 2..Len(v)
  OBVIOUS
<1>. HIDE DEF c, P
<1>4. /\ P \in Seq(Seq(Item)) /\ Len(P) = Len(s) /\ Len(s) \in Nat
      /\ \A i \in 1..Len(s) : /\ s[i] \in DOMAIN h /\ c[s[i]] \in Seq(Item)
                              /\ P[i] \in Seq(Item) /\ Len(P[i]) = Len(c[s[i]])
                              /\ \A x \in 1..Len(P[i]) : P[i][x] = Deeper[c[s[i]][x]]
  BY <1>1, PlacesOfSeq DEF ClonePartsOf
<1>5. /\ F \in Seq(Item) /\ v \in Seq(Item)
      /\ Len(F) \in Nat /\ Len(v) = 1 + Len(F)
      /\ \A x \in 1..Len(F) : v[1 + x] = F[x]
  BY <1>1 DEF ClonePartsOf
<1>6. \A i \in 1..Len(P) : Len(P[i]) >= 1 /\ Len(P[i]) \in Nat
  BY <1>2, <1>4
<1>7. m - 1 \in 1..Len(F)
  BY <1>3, <1>5
<1>8. LiesIn(P, Len(P), F, m - 1)
  BY <1>4, <1>6, <1>7, FlattenParts
<1>. HIDE DEF F, v, s
<1>9. PICK i \in 1..Len(s), o \in Nat :
        /\ o + Len(P[i]) <= Len(F) /\ m - 1 \in (o + 1)..(o + Len(P[i]))
        /\ \A x \in 1..Len(P[i]) : F[o + x] = P[i][x]
        /\ o + Len(P[i]) + 1 <= Len(F) =>
             \E j \in 1..Len(s) : F[o + Len(P[i]) + 1] = P[j][1]
  <2>1. LiesIn(P, Len(s), F, m - 1)
    BY <1>4, <1>8
  <2>. QED  BY <2>1, Zenon DEF LiesIn
<1>. DEFINE u == c[s[i]]
            l == Len(u)
            q == 1 + o
<1>10. /\ u \in Seq(Item) /\ l \in Nat /\ l >= 1 /\ Len(P[i]) = l
       /\ \A x \in 1..l : P[i][x] = Deeper[u[x]]
  BY <1>2, <1>4
<1>. HIDE DEF u
<1>11. /\ o + l <= Len(F) /\ m - 1 \in (o + 1)..(o + l)
       /\ \A x \in 1..l : F[o + x] = Deeper[u[x]]
       /\ o + l + 1 <= Len(F) => \E j \in 1..Len(s) : F[o + l + 1] = P[j][1]
  BY <1>9, <1>10
<1>12. \A e \in Item : Deeper[e].id = e.id /\ Deeper[e].depth = e.depth + 1 /\ e.depth \in Nat
  <2>. SUFFICES ASSUME NEW e \in Item
                PROVE  /\ Deeper[e].id = e.id /\ Deeper[e].depth = e.depth + 1
                       /\ e.depth \in Nat
    OBVIOUS
  <2>1. Deeper[e] = [id |-> e.id, depth |-> e.depth + 1] /\ e.depth \in Nat
    BY DeeperFields
  <2>. QED  BY <2>1
<1>. HIDE DEF l
<1>13. q \in Nat /\ q + l <= Len(v) /\ m - q \in 1..l
  BY <1>3, <1>5, <1>10, <1>11
<1>14. ASSUME NEW k \in 1..l  PROVE v[q + k].id = u[k].id /\ v[q + k].depth = u[k].depth + 1
  <2>1. o + k \in 1..Len(F) /\ 1 + (o + k) = q + k
    BY <1>5, <1>10, <1>11
  <2>2. v[q + k] = Deeper[u[k]]
    BY <1>5, <1>11, <2>1
  <2>3. u[k] \in Item
    BY <1>10, PlacesOfSeq DEF l
  <2>. QED  BY <1>12, <2>2, <2>3
<1>15. ASSUME q + l + 1 <= Len(v)  PROVE v[q + l + 1].depth <= 1
  <2>1. o + l + 1 \in 1..Len(F) /\ o + l + 1 <= Len(F) /\ 1 + (o + l + 1) = q + l + 1
    BY <1>5, <1>10, <1>15
  <2>2. PICK j \in 1..Len(s) : F[o + l + 1] = P[j][1]
    BY <1>11, <2>1
  <2>3. v[q + l + 1] = P[j][1]
    BY <1>5, <2>1, <2>2
  <2>. DEFINE w == c[s[j]]
  <2>4. w \in Seq(Item) /\ Len(w) >= 1 /\ Len(w) \in Nat /\ w[1].depth = 0 /\ Len(P[j]) = Len(w)
    BY <1>2, <1>4
  <2>5. 1 \in 1..Len(P[j])
    BY <2>4
  <2>6. P[j][1] = Deeper[w[1]]
    BY <1>4, <2>5
  <2>. HIDE DEF w
  <2>7. w[1] \in Item
    BY <2>4, <2>5, PlacesOfSeq
  <2>8. v[q + l + 1].depth = w[1].depth + 1
    BY <1>12, <2>3, <2>6, <2>7
  <2>. QED  BY <2>4, <2>8
<1>16. Placed(v, q, 1, u)
  BY <1>13, <1>14, <1>15 DEF Placed, l
<1>. HIDE DEF q
<1>17. q \in Nat /\ Placed(v, q, 1, u) /\ m - q \in 1..Len(u)
  BY <1>13, <1>16 DEF l
<1>. QED  BY <1>17 DEF u, v, c, s

(* So every subtree of the clone of a live node is the clone of a live     *)
(* node.                                                                   *)
LEMMA ClonesBelow ==
  ASSUME NEW h, Shape(h), Acyclic(h), NEW y \in DOMAIN h, NEW m \in 1..Len(CloneOf(h)[y])
  PROVE  \E z \in DOMAIN h : CloneOf(h)[z] = SubtreeAt(CloneOf(h)[y], m)
<1>. DEFINE D == DOMAIN h
            c == CloneOf(h)
            Good(x) == \A k \in 1..Len(c[x]) : \E z \in D : c[z] = SubtreeAt(c[x], k)
<1>1. PICK rk, b : Ranked(D, SubsOf(h), rk, b)
  BY DEF Acyclic
<1>2. \A x \in D : /\ c[x] \in Seq(Item) /\ Len(c[x]) \in Nat /\ Len(c[x]) >= 1
                   /\ c[x][1].depth = 0 /\ \A k \in 2..Len(c[x]) : c[x][k].depth > 0
  BY CloneShape
<1>3. \A x \in D : \A k \in 2..Len(c[x]) :
        \E i \in 1..Len(h[x].subs), o \in Nat :
           Placed(c[x], o, 1, c[h[x].subs[i]]) /\ k - o \in 1..Len(c[h[x].subs[i]])
  BY PlacedBelow
<1>. HIDE DEF c
<1>. DEFINE Bad == {r \in Nat : \E x \in D : rk[x] = r /\ ~ Good(x)}
<1>4. Bad = {}
  <2>. SUFFICES ASSUME Bad # {}  PROVE FALSE
    OBVIOUS
  <2>1. PICK r \in Bad : \A i \in Bad : r <= i
    <3>1. Bad \in SUBSET Nat
      OBVIOUS
    <3>. HIDE DEF Bad
    <3>. QED  BY <3>1, LeastElement
  <2>2. PICK x \in D : rk[x] = r /\ ~ Good(x)
    BY <2>1
  <2>3. PICK k \in 1..Len(c[x]) : ~ \E z \in D : c[z] = SubtreeAt(c[x], k)
    BY <2>2
  <2>4. k # 1
    <3>1. SubtreeAt(c[x], 1) = c[x]
      <4>. DEFINE v == c[x]
      <4>1. /\ v \in Seq(Item) /\ Len(v) >= 1 /\ v[1].depth = 0
            /\ \A j \in 2..Len(v) : v[j].depth > 0
        BY <1>2
      <4>. HIDE DEF v
      <4>2. SubtreeAt(v, 1) = v
        BY <4>1, WholeSubtree
      <4>. QED  BY <4>2 DEF v
    <3>. QED  BY <2>3, <3>1
  <2>5. k \in 2..Len(c[x])
    BY <1>2, <2>4
  <2>6. PICK i \in 1..Len(h[x].subs), o \in Nat :
           Placed(c[x], o, 1, c[h[x].subs[i]]) /\ k - o \in 1..Len(c[h[x].subs[i]])
    BY <1>3, <2>5
  <2>. DEFINE d == h[x].subs[i]
  <2>7. d \in D /\ rk[d] < rk[x] /\ rk[d] \in Nat /\ rk[x] \in Nat
    <3>1. SubsOf(h)[x] = h[x].subs /\ h[x].subs \in Seq(D)
      BY CellFields
    <3>2. i \in DOMAIN SubsOf(h)[x] /\ d \in D
      BY <3>1, PlacesOfSeq
    <3>. QED  BY <1>1, <3>1, <3>2 DEF Ranked
  <2>. HIDE DEF d
  <2>8. Good(d)
    <3>1. ~ (r <= rk[d])
      <4>1. rk[d] < r /\ r \in Nat /\ rk[d] \in Nat
        BY <2>2, <2>7
      <4>. QED  BY <4>1
    <3>2. rk[d] \notin Bad
      BY <2>1, <3>1, Zenon
    <3>. HIDE DEF Good
    <3>. QED  BY <2>7, <3>2
  <2>9. Placed(c[x], o, 1, c[d]) /\ k - o \in 1..Len(c[d])
    BY <2>6 DEF d
  <2>10. PICK z \in D : c[z] = SubtreeAt(c[d], k - o)
    BY <2>8, <2>9
  <2>11. SubtreeAt(c[x], o + (k - o)) = SubtreeAt(c[d], k - o)
    <3>. DEFINE v == c[x]
                u == c[d]
                e == k - o
    <3>1. v \in Seq(Item) /\ u \in Seq(Item) /\ Placed(v, o, 1, u) /\ e \in 1..Len(u)
      BY <1>2, <2>7, <2>9
    <3>. HIDE DEF v, u, e
    <3>2. SubtreeAt(v, o + e) = SubtreeAt(u, e)
      BY <3>1, PlacedSubtree
    <3>. QED  BY <3>2 DEF v, u, e
  <2>12. o + (k - o) = k
    OBVIOUS
  <2>. QED  BY <2>3, <2>10, <2>11, <2>12
<1>5. Good(y)
  <2>1. rk[y] \in Nat
    BY <1>1 DEF Ranked
  <2>. HIDE DEF Good
  <2>. QED  BY <1>4, <2>1
<1>. QED  BY <1>5 DEF c

-----------------------------------------------------------------------------
(* The clones that are computed on h: every function that is the label of  *)
(* a node and then its values at the subnodes, one level deeper.           *)
LEMMA CloneOnly ==
  ASSUME NEW h, Shape(h), Acyclic(h)
  PROVE  /\ \A n \in DOMAIN h :
              CloneOf(h)[n] = Walk(ItemOf(h), SubsOf(h), Deeper, CloneOf(h), n)
         /\ \A c : (\A n \in DOMAIN h : c[n] = Walk(ItemOf(h), SubsOf(h), Deeper, c, n)) =>
                     \A n \in DOMAIN h : CloneOf(h)[n] = c[n]
<1>1. PICK rk, b : Ranked(DOMAIN h, SubsOf(h), rk, b)
  BY DEF Acyclic
<1>2. \A n \in DOMAIN h : CloneOf(h)[n] = Walk(ItemOf(h), SubsOf(h), Deeper, CloneOf(h), n)
  BY <1>1, CloneIs
<1>3. ASSUME NEW c, \A n \in DOMAIN h : c[n] = Walk(ItemOf(h), SubsOf(h), Deeper, c, n)
      PROVE  \A n \in DOMAIN h : CloneOf(h)[n] = c[n]
  <2>1. /\ Walks(DOMAIN h, ItemOf(h), SubsOf(h), Deeper, CloneOf(h))
        /\ Walks(DOMAIN h, ItemOf(h), SubsOf(h), Deeper, c)
    BY <1>2, <1>3 DEF Walks
  <2>2. IsMapping(SubsOf(h), DOMAIN h, Seq(DOMAIN h))
    BY SubsTyped
  <2>. QED  BY <1>1, <2>1, <2>2, WalkUnique
<1>. QED  BY <1>2, <1>3, Zenon

(* Nodes of h2 that have the labels of those of h, and subnodes with the   *)
(* same clones, have the same clones.                                      *)
LEMMA ClonesKept ==
  ASSUME NEW h, Shape(h), Acyclic(h), NEW h2, Shape(h2), Acyclic(h2),
         DOMAIN h2 \subseteq DOMAIN h,
         \A x \in DOMAIN h2 :
           /\ h2[x].label = h[x].label /\ Len(h2[x].subs) = Len(h[x].subs)
           /\ \A i \in 1..Len(h[x].subs) :
                CloneOf(h)[h2[x].subs[i]] = CloneOf(h)[h[x].subs[i]]
  PROVE  \A x \in DOMAIN h2 : CloneOf(h2)[x] = CloneOf(h)[x]
<1>. DEFINE c == CloneOf(h)
<1>1. ASSUME NEW x \in DOMAIN h2
      PROVE  c[x] = Walk(ItemOf(h2), SubsOf(h2), Deeper, c, x)
  <2>1. c[x] = Walk(ItemOf(h), SubsOf(h), Deeper, c, x)
    BY CloneOnly
  <2>2. ItemOf(h)[x] = ItemOf(h2)[x]
    BY DEF ItemOf
  <2>3. /\ SubsOf(h)[x] = h[x].subs /\ SubsOf(h2)[x] = h2[x].subs
        /\ DOMAIN h[x].subs = 1..Len(h[x].subs) /\ DOMAIN h2[x].subs = 1..Len(h2[x].subs)
    BY CellFields, PlacesOfSeq
  <2>4. DOMAIN SubsOf(h)[x] = DOMAIN SubsOf(h2)[x]
    BY <2>3
  <2>5. \A i \in DOMAIN SubsOf(h)[x] : c[SubsOf(h)[x][i]] = c[SubsOf(h2)[x][i]]
    BY <2>3
  <2>. HIDE DEF c
  <2>6. Walk(ItemOf(h), SubsOf(h), Deeper, c, x) = Walk(ItemOf(h2), SubsOf(h2), Deeper, c, x)
    BY <2>2, <2>4, <2>5, WalkSame
  <2>. QED  BY <2>1, <2>6
<1>. HIDE DEF c
<1>2. \A x \in DOMAIN h2 : CloneOf(h2)[x] = c[x]
  BY <1>1, CloneOnly
<1>. QED  BY <1>2 DEF c

(* g has the tree t at the addresses a, and no other node of g points      *)
(* there.                                                                  *)
Grafted(g, t, a) ==
  /\ a \in Seq(DOMAIN g) /\ Len(a) = Len(t) /\ IsInjective(a)
  /\ \A k \in 1..Len(t) : g[a[k]] = NodeFor(t, a, k)
  /\ \A x \in DOMAIN g \ Range(a) : Range(g[x].subs) \cap Range(a) = {}

(* The clones of these nodes are the subtrees of t.                        *)
LEMMA GraftedClones ==
  ASSUME NEW g, Shape(g), Acyclic(g), NEW t \in Seq(Item), IsTree(t), NEW a, Grafted(g, t, a)
  PROVE  \A k \in 1..Len(t) : CloneOf(g)[a[k]] = SubtreeAt(t, k)
<1>. DEFINE D == DOMAIN g
            A == Range(a)
            L == Len(t)
            idx(x) == CHOOSE k \in 1..L : a[k] = x
            cc == [x \in D |-> IF x \in A THEN SubtreeAt(t, idx(x)) ELSE CloneOf(g)[x]]
<1>1. /\ a \in Seq(D) /\ Len(a) = L /\ IsInjective(a)
      /\ \A k \in 1..L : g[a[k]] = NodeFor(t, a, k)
      /\ \A x \in D \ A : Range(g[x].subs) \cap A = {}
  BY DEF Grafted
<1>2. /\ L \in Nat /\ DOMAIN a = 1..L /\ DOMAIN t = 1..L
      /\ \A k \in 1..L : a[k] \in A /\ a[k] \in D
      /\ \A x \in A : \E k \in 1..L : a[k] = x
  BY <1>1, PlacesOfSeq, RangeHas, RangeAt
<1>3. ASSUME NEW k \in 1..L  PROVE idx(a[k]) = k
  <2>1. idx(a[k]) \in 1..L /\ a[idx(a[k])] = a[k]
    OBVIOUS
  <2>. HIDE DEF idx
  <2>. QED  BY <1>1, <1>2, <2>1 DEF IsInjective
<1>. HIDE DEF idx
<1>4. \A k \in 1..L : cc[a[k]] = SubtreeAt(t, k)
  BY <1>2, <1>3
<1>5. \A x \in D \ A : cc[x] = CloneOf(g)[x]
  OBVIOUS
<1>. HIDE DEF cc
<1>6. ASSUME NEW x \in D \ A
      PROVE  cc[x] = Walk(ItemOf(g), SubsOf(g), Deeper, cc, x)
  <2>1. CloneOf(g)[x] = Walk(ItemOf(g), SubsOf(g), Deeper, CloneOf(g), x)
    BY CloneOnly
  <2>2. SubsOf(g)[x] = g[x].subs /\ g[x].subs \in Seq(D)
    BY CellFields
  <2>3. ASSUME NEW i \in DOMAIN SubsOf(g)[x]
        PROVE  CloneOf(g)[SubsOf(g)[x][i]] = cc[SubsOf(g)[x][i]]
    <3>1. SubsOf(g)[x][i] \in Range(g[x].subs) /\ SubsOf(g)[x][i] \in D
      BY <2>2, PlacesOfSeq, RangeHas
    <3>2. SubsOf(g)[x][i] \in D \ A
      BY <1>1, <3>1
    <3>. QED  BY <1>5, <3>2
  <2>4. Walk(ItemOf(g), SubsOf(g), Deeper, CloneOf(g), x) =
        Walk(ItemOf(g), SubsOf(g), Deeper, cc, x)
    BY <2>3, WalkLocal
  <2>. QED  BY <1>5, <2>1, <2>4
<1>7. ASSUME NEW k \in 1..L
      PROVE  cc[a[k]] = Walk(ItemOf(g), SubsOf(g), Deeper, cc, a[k])
  <2>. DEFINE q == T!InOrder(Kids(t, k))
              s == g[a[k]].subs
              P == [i \in 1..Len(q) |-> MapSeq(Deeper, SubtreeAt(t, q[i]))]
  <2>1. q \in Seq(1..L) /\ Len(q) \in Nat /\ \A i \in 1..Len(q) : q[i] \in 1..L
    BY KidsInRow DEF InRow
  <2>2. SubtreeAt(t, k) = <<[id |-> t[k].id, depth |-> 0]>> \o FlattenSeq(P)
    BY SubtreeWalk
  <2>3. s = MapSeq(a, q) /\ g[a[k]].label = t[k].id
    BY <1>1, NodeForFields
  <2>4. ItemOf(g)[a[k]] = [id |-> t[k].id, depth |-> 0] /\ SubsOf(g)[a[k]] = s
    BY <1>2, <2>3 DEF ItemOf, SubsOf
  <2>. HIDE DEF q, s
  <2>5. DOMAIN s = 1..Len(q) /\ \A i \in 1..Len(q) : s[i] = a[q[i]]
    BY <2>1, <2>3, PlacesOfSeq DEF MapSeq
  <2>6. \A i \in 1..Len(q) : cc[s[i]] = SubtreeAt(t, q[i])
    BY <1>4, <2>1, <2>5
  <2>7. Parts(SubsOf(g), Deeper, cc, a[k]) = P
    BY <2>4, <2>5, <2>6 DEF Parts
  <2>. HIDE DEF P
  <2>. QED  BY <1>4, <2>2, <2>4, <2>7 DEF Walk
<1>8. \A x \in D : cc[x] = Walk(ItemOf(g), SubsOf(g), Deeper, cc, x)
  BY <1>2, <1>6, <1>7
<1>9. \A x \in D : CloneOf(g)[x] = cc[x]
  BY <1>8, CloneOnly
<1>. QED  BY <1>2, <1>4, <1>9

(* The trees that may be added.                                            *)
LEMMA TreesTyped ==
  ASSUME NEW t \in Trees
  PROVE  /\ t \in Seq(Item) /\ IsTree(t) /\ Len(t) \in Nat /\ Len(t) >= 1
         /\ SubtreeAt(t, 1) = t
<1>1. t \in Seq(Item) /\ T!IsTree(t)
  BY ChunkTreesAssumption DEF Item
<1>2. IsTree(t)
  BY <1>1, SameShape
<1>3. t # <<>>
  BY <1>2 DEF IsTree
<1>4. Len(t) \in Nat /\ Len(t) >= 1
  BY <1>1, <1>3
<1>5. \A i \in 1..Len(t) : t[i].depth \in Nat
  BY <1>1, ItemFields
<1>6. t[1].depth = 0 /\ \A i \in 2..Len(t) : t[i].depth \in 1..(t[i-1].depth + 1)
  BY <1>2 DEF IsTree
<1>7. \A i \in 2..Len(t) : t[i].depth > 0
  <2>. TAKE i \in 2..Len(t)
  <2>1. i - 1 \in 1..Len(t)
    BY <1>4
  <2>. DEFINE d == t[i].depth
              e == t[i-1].depth
  <2>2. e \in Nat /\ d \in 1..(e + 1)
    BY <1>5, <1>6, <2>1
  <2>. HIDE DEF d, e
  <2>3. d > 0
    BY <2>2
  <2>. QED  BY <2>3 DEF d
<1>8. SubtreeAt(t, 1) = t
  BY <1>1, <1>4, <1>6, <1>7, WholeSubtree
<1>. QED  BY <1>1, <1>2, <1>4, <1>8

(* chunk_store_add_tree(): the new nodes stand for the subtrees of the     *)
(* tree, the root for the tree, and the stored nodes for what they did.    *)
LEMMA AddsClones ==
  ASSUME NEW t \in Trees
  PROVE  IInv /\ AddTree(t) =>
           /\ \A x \in DOMAIN heap : x \in DOMAIN heap' /\ CloneOf(heap')[x] = CloneOf(heap)[x]
           /\ \A x \in DOMAIN heap' \ DOMAIN heap :
                \E k \in 1..Len(t) : CloneOf(heap')[x] = SubtreeAt(t, k)
           /\ \E x \in Range(pending') : CloneOf(heap')[x] = t
<1>. SUFFICES ASSUME IInv, AddTree(t)
              PROVE  /\ \A x \in DOMAIN heap :
                          x \in DOMAIN heap' /\ CloneOf(heap')[x] = CloneOf(heap)[x]
                     /\ \A x \in DOMAIN heap' \ DOMAIN heap :
                          \E k \in 1..Len(t) : CloneOf(heap')[x] = SubtreeAt(t, k)
                     /\ \E x \in Range(pending') : CloneOf(heap')[x] = t
  OBVIOUS
<1>. DEFINE D == DOMAIN heap
            a == Malloc(Len(t))
            new == NewNodes(t, a)
            L == Len(t)
            g == heap'
<1>1. Shape(heap) /\ Acyclic(heap)
  BY DEF IInv
<1>2. pending' = <<a[1]>>
  BY DEF AddTree
<1>3. AddedHeap(t, a, new)
  BY AddsHeap
<1>4. t \in Seq(Item) /\ IsTree(t) /\ L \in Nat /\ L >= 1 /\ SubtreeAt(t, 1) = t
  BY TreesTyped
<1>5. /\ a \in Seq(Nat \ {0}) /\ Len(a) = L /\ IsInjective(a) /\ Range(a) \cap D = {}
      /\ DOMAIN g = D \cup Range(a)
      /\ \A x \in D : g[x] = heap[x]
      /\ \A x \in Range(a) : g[x] = new[x]
      /\ Shape(g) /\ Acyclic(g)
  BY <1>3 DEF AddedHeap
<1>6. \A k \in 1..L : new[a[k]] = NodeFor(t, a, k)
  BY <1>5, NewNodeIs
<1>. HIDE DEF a, new, g
<1>7. /\ \A k \in 1..L : a[k] \in Range(a) /\ a[k] \in DOMAIN g
      /\ \A x \in Range(a) : \E k \in 1..L : a[k] = x
  BY <1>5, RangeHas, RangeAt
<1>8. a \in Seq(DOMAIN g)
  <2>1. a \in [1..L -> DOMAIN g]
    <3>1. a = [k \in 1..L |-> a[k]]
      BY <1>5
    <3>. QED  BY <1>7, <3>1
  <2>. QED  BY <1>4, <2>1, SeqOfFun
<1>9. ASSUME NEW x \in DOMAIN g \ Range(a)  PROVE Range(g[x].subs) \cap Range(a) = {}
  <2>1. x \in D /\ g[x] = heap[x]
    BY <1>5
  <2>2. heap[x].subs \in Seq(D)
    BY <1>1, <2>1, CellFields
  <2>3. \A y \in Range(heap[x].subs) : y \in D
    BY <2>2, RangeAt, PlacesOfSeq
  <2>. QED  BY <1>5, <2>1, <2>3
<1>10. Grafted(g, t, a)
  BY <1>5, <1>6, <1>7, <1>8, <1>9 DEF Grafted
<1>11. \A k \in 1..L : CloneOf(g)[a[k]] = SubtreeAt(t, k)
  BY <1>4, <1>5, <1>10, GraftedClones
<1>12. \A x \in D : CloneOf(heap)[x] = CloneOf(g)[x]
  <2>1. D \subseteq DOMAIN g
    BY <1>5
  <2>2. \A x \in D : /\ heap[x].label = g[x].label /\ Len(heap[x].subs) = Len(g[x].subs)
                     /\ \A i \in 1..Len(g[x].subs) :
                          CloneOf(g)[heap[x].subs[i]] = CloneOf(g)[g[x].subs[i]]
    BY <1>5
  <2>. QED  BY <1>1, <1>5, <2>1, <2>2, ClonesKept
<1>13. ASSUME NEW x \in DOMAIN g \ D
       PROVE  \E k \in 1..L : CloneOf(g)[x] = SubtreeAt(t, k)
  BY <1>5, <1>7, <1>11
<1>14. a[1] \in Range(pending') /\ CloneOf(g)[a[1]] = t
  <2>1. a[1] \in Range(<<a[1]>>)
    BY DEF Range
  <2>. QED  BY <1>2, <1>4, <1>11, <2>1
<1>. QED  BY <1>5, <1>12, <1>13, <1>14 DEF g

(* chunk_store_take_node() of a duplicate that equals the stored node: no  *)
(* node that is left stands for another tree.                              *)
LEMMA SharesClones ==
  /\ IInv /\ IInv' /\ TakeSeen
  /\ CloneOf(heap)[Head(pending)] = CloneOf(heap)[seen[HashOf(Head(pending))]]
  => /\ DOMAIN heap' \subseteq DOMAIN heap
     /\ \A x \in DOMAIN heap' : CloneOf(heap')[x] = CloneOf(heap)[x]
<1>. DEFINE n == Head(pending)
            st == Range(seen)
            new == seen[HashOf(n)]
            r == ReplaceSubnode(heap, n, new)
            H == [x \in DOMAIN heap |-> hash_node(CloneOf(heap)[x])]
            E == Freed(r, n)
<1>. SUFFICES ASSUME IInv, IInv', TakeSeen, CloneOf(heap)[n] = CloneOf(heap)[new]
              PROVE  /\ DOMAIN heap' \subseteq DOMAIN heap
                     /\ \A x \in DOMAIN heap' : CloneOf(heap')[x] = CloneOf(heap)[x]
  OBVIOUS
<1>1. Shape(heap) /\ Acyclic(heap) /\ Shape(heap') /\ Acyclic(heap')
  BY DEF IInv
<1>2. SharedHeap(n, st, new, H, r, E)
  BY SharesHeap
<1>. HIDE DEF n, st, new, r, H, E
<1>3. /\ Patched(heap, r, st, n, new) /\ DOMAIN heap' = DOMAIN r \ E
      /\ \A x \in DOMAIN r \ E : heap'[x] = r[x]
  BY <1>2 DEF SharedHeap
<1>4. /\ DOMAIN r = DOMAIN heap
      /\ \A x \in DOMAIN heap :
           /\ r[x].label = heap[x].label /\ Len(r[x].subs) = Len(heap[x].subs)
           /\ \A i \in 1..Len(heap[x].subs) :
                r[x].subs[i] = IF heap[x].subs[i] = n THEN new ELSE heap[x].subs[i]
  BY <1>3 DEF Patched
<1>5. DOMAIN heap' \subseteq DOMAIN heap
  BY <1>3, <1>4
<1>6. ASSUME NEW x \in DOMAIN heap'
      PROVE  /\ heap'[x].label = heap[x].label /\ Len(heap'[x].subs) = Len(heap[x].subs)
             /\ \A i \in 1..Len(heap[x].subs) :
                  CloneOf(heap)[heap'[x].subs[i]] = CloneOf(heap)[heap[x].subs[i]]
  <2>1. x \in DOMAIN heap /\ heap'[x] = r[x]
    BY <1>3, <1>5
  <2>2. ASSUME NEW i \in 1..Len(heap[x].subs)
        PROVE  CloneOf(heap)[r[x].subs[i]] = CloneOf(heap)[heap[x].subs[i]]
    <3>1. r[x].subs[i] = IF heap[x].subs[i] = n THEN new ELSE heap[x].subs[i]
      BY <1>4, <2>1
    <3>. QED  BY <3>1
  <2>. QED  BY <1>4, <2>1, <2>2
<1>. DEFINE h2 == heap'
<1>7. /\ Shape(h2) /\ Acyclic(h2) /\ DOMAIN h2 \subseteq DOMAIN heap
      /\ \A x \in DOMAIN h2 :
           /\ h2[x].label = heap[x].label /\ Len(h2[x].subs) = Len(heap[x].subs)
           /\ \A i \in 1..Len(heap[x].subs) :
                CloneOf(heap)[h2[x].subs[i]] = CloneOf(heap)[heap[x].subs[i]]
  BY <1>1, <1>5, <1>6
<1>. HIDE DEF h2
<1>8. \A x \in DOMAIN h2 : CloneOf(h2)[x] = CloneOf(heap)[x]
  BY <1>1, <1>7, ClonesKept
<1>. QED  BY <1>5, <1>8 DEF h2

-----------------------------------------------------------------------------
(* Every node of the heap h stands for a subtree of a tree of tr.          *)
Drawn(h, tr) ==
  \A x \in DOMAIN h : \E t \in tr : \E i \in 1..Len(t) : CloneOf(h)[x] = SubtreeAt(t, i)

(* Every tree of tr has a node of S that stands for it.                    *)
Rooted(h, S, tr) == \A t \in tr : \E x \in S : CloneOf(h)[x] = t

(* What is added to IInv for the contents of the store.  While a tree is   *)
(* taken its root is stored, to be taken, or replaced by a stored node.    *)
OfferInv ==
  /\ added \subseteq Trees
  /\ OneArity => /\ Drawn(heap, added)
                 /\ Rooted(heap, Range(seen) \cup Range(pending), added)

(* A node that is taken for a duplicate equals the stored node when a      *)
(* label has one number of subnodes.                                       *)
LEMMA DuplicatesEqual ==
  IInv /\ OfferInv /\ OneArity /\ TakeSeen =>
    CloneOf(heap)[Head(pending)] = CloneOf(heap)[seen[HashOf(Head(pending))]]
<1>. DEFINE n == Head(pending)
            new == seen[HashOf(n)]
            H == [x \in DOMAIN heap |-> hash_node(CloneOf(heap)[x])]
            r == ReplaceSubnode(heap, n, new)
<1>. SUFFICES ASSUME IInv, OfferInv, OneArity, TakeSeen
              PROVE  CloneOf(heap)[n] = CloneOf(heap)[new]
  OBVIOUS
<1>1. SharedHeap(n, Range(seen), new, H, r, Freed(r, n))
  BY SharesHeap
<1>2. n \in DOMAIN heap /\ new \in DOMAIN heap /\ H[n] = H[new]
  BY <1>1 DEF SharedHeap
<1>3. hash_node(CloneOf(heap)[n]) = hash_node(CloneOf(heap)[new])
  BY <1>2
<1>4. added \subseteq Trees /\ Drawn(heap, added)
  BY DEF OfferInv
<1>. HIDE DEF n, new
<1>5. PICK t \in added : \E i \in 1..Len(t) : CloneOf(heap)[n] = SubtreeAt(t, i)
  BY <1>2, <1>4 DEF Drawn
<1>6. PICK u \in added : \E i \in 1..Len(u) : CloneOf(heap)[new] = SubtreeAt(u, i)
  BY <1>2, <1>4 DEF Drawn
<1>7. PICK i \in 1..Len(t) : CloneOf(heap)[n] = SubtreeAt(t, i)
  BY <1>5
<1>8. PICK j \in 1..Len(u) : CloneOf(heap)[new] = SubtreeAt(u, j)
  BY <1>6
<1>9. t \in Seq(Item) /\ IsTree(t) /\ u \in Seq(Item) /\ IsTree(u)
  BY <1>4, TreesTyped
<1>10. DOMAIN t = 1..Len(t) /\ DOMAIN u = 1..Len(u)
  BY <1>9, PlacesOfSeq
<1>11. \A x \in 1..Len(t), y \in 1..Len(u) :
         t[x].id = u[y].id => Cardinality(Kids(t, x)) = Cardinality(Kids(u, y))
  <2>1. \A x \in DOMAIN t, y \in DOMAIN u : t[x].id = u[y].id => Arity(t, x) = Arity(u, y)
    BY Zenon DEF OneArity
  <2>2. \A x, y : Arity(t, x) = Cardinality(Kids(t, x)) /\ Arity(u, y) = Cardinality(Kids(u, y))
    BY Zenon DEF Arity, Kids
  <2>. QED  BY <1>10, <2>1, <2>2
<1>12. SubtreeAt(t, i) = SubtreeAt(u, j)
  BY <1>3, <1>7, <1>8, <1>9, <1>11, SameTrees
<1>. QED  BY <1>7, <1>8, <1>12

(* Fewer trees have one number of subnodes for a label if more have.       *)
LEMMA FewerTrees == added \subseteq added' /\ OneArity' => OneArity
BY Zenon DEF OneArity

(* chunk_store_add_tree().                                                 *)
LEMMA AddsOffers ==
  ASSUME NEW t \in Trees
  PROVE  IInv /\ OfferInv /\ AddTree(t) => OfferInv'
<1>. SUFFICES ASSUME IInv, OfferInv, AddTree(t)  PROVE OfferInv'
  OBVIOUS
<1>1. added' = added \cup {t} /\ seen' = seen /\ pending = <<>>
  BY DEF AddTree
<1>2. added' \subseteq Trees
  BY <1>1 DEF OfferInv
<1>3. /\ \A x \in DOMAIN heap : x \in DOMAIN heap' /\ CloneOf(heap')[x] = CloneOf(heap)[x]
      /\ \A x \in DOMAIN heap' \ DOMAIN heap :
           \E k \in 1..Len(t) : CloneOf(heap')[x] = SubtreeAt(t, k)
      /\ \E x \in Range(pending') : CloneOf(heap')[x] = t
  BY AddsClones
<1>4. ASSUME OneArity'
      PROVE  Drawn(heap', added') /\ Rooted(heap', Range(seen') \cup Range(pending'), added')
  <2>1. Drawn(heap, added) /\ Rooted(heap, Range(seen) \cup Range(pending), added)
    <3>1. OneArity
      BY <1>1, <1>4, FewerTrees
    <3>. QED  BY <3>1 DEF OfferInv
  <2>2. Drawn(heap', added')
    <3>. SUFFICES ASSUME NEW x \in DOMAIN heap'
                  PROVE  \E u \in added' : \E i \in 1..Len(u) : CloneOf(heap')[x] = SubtreeAt(u, i)
      BY DEF Drawn
    <3>1. CASE x \in DOMAIN heap
      <4>1. PICK u \in added : \E i \in 1..Len(u) : CloneOf(heap)[x] = SubtreeAt(u, i)
        BY <2>1, <3>1 DEF Drawn
      <4>2. CloneOf(heap')[x] = CloneOf(heap)[x] /\ u \in added'
        BY <1>1, <1>3, <3>1
      <4>. QED  BY <4>1, <4>2
    <3>2. CASE x \notin DOMAIN heap
      <4>1. \E k \in 1..Len(t) : CloneOf(heap')[x] = SubtreeAt(t, k)
        BY <1>3, <3>2
      <4>2. t \in added'
        BY <1>1
      <4>. QED  BY <4>1, <4>2
    <3>. QED  BY <3>1, <3>2
  <2>3. Rooted(heap', Range(seen') \cup Range(pending'), added')
    <3>. SUFFICES ASSUME NEW u \in added'
                  PROVE  \E x \in Range(seen') \cup Range(pending') : CloneOf(heap')[x] = u
      BY DEF Rooted
    <3>1. CASE u = t
      BY <1>3, <3>1
    <3>2. CASE u \in added
      <4>1. PICK x \in Range(seen) \cup Range(pending) : CloneOf(heap)[x] = u
        BY <2>1, <3>2 DEF Rooted
      <4>2. Range(pending) = {}
        BY <1>1 DEF Range
      <4>3. x \in Range(seen) /\ x \in DOMAIN heap
        <5>1. Range(seen) \subseteq DOMAIN heap
          BY DEF IInv, Own
        <5>. QED  BY <4>1, <4>2, <5>1
      <4>4. CloneOf(heap')[x] = u /\ x \in Range(seen') \cup Range(pending')
        BY <1>1, <1>3, <4>1, <4>3
      <4>. QED  BY <4>4
    <3>. QED  BY <1>1, <3>1, <3>2
  <2>. QED  BY <2>2, <2>3
<1>. QED  BY <1>2, <1>4 DEF OfferInv

(* chunk_store_take_node() of a new node.                                  *)
LEMMA KeepsOffers == IInv /\ OfferInv /\ TakeNew => OfferInv'
<1>. SUFFICES ASSUME IInv, OfferInv, TakeNew  PROVE OfferInv'
  OBVIOUS
<1>. DEFINE n == Head(pending)
            k == HashOf(n)
<1>1. /\ heap' = heap /\ added' = added /\ pending # <<>> /\ k \notin DOMAIN seen
      /\ seen' = map_set(seen, k, n) /\ pending' = heap[n].subs \o Tail(pending)
  BY DEF TakeNew
<1>2. added' \subseteq Trees
  BY <1>1 DEF OfferInv
<1>3. OneArity' => OneArity
  BY <1>1, FewerTrees
<1>4. ASSUME NEW x \in Range(seen) \cup Range(pending)
      PROVE  x \in Range(seen') \cup Range(pending')
  <2>. HIDE DEF n, k
  <2>1. n \in Range(seen')
    BY <1>1 DEF map_set, Range
  <2>2. CASE x \in Range(seen)
    BY <1>1, <2>2 DEF map_set, Range
  <2>3. CASE x \in Range(pending)
    <3>1. pending \in Seq(DOMAIN heap) /\ IsInjective(pending)
      <4>1. pending \in Seq(DOMAIN heap \ Range(seen)) /\ IsInjective(pending)
        BY DEF IInv, Own
      <4>2. Len(pending) \in Nat /\ pending \in [1..Len(pending) -> DOMAIN heap]
        BY <4>1
      <4>. QED  BY <4>1, <4>2, SeqOfFun
    <3>2. Tail(pending) \in Seq(DOMAIN heap)
      BY <1>1, <3>1
    <3>3. heap[n].subs \in Seq(DOMAIN heap)
      <4>1. n \in DOMAIN heap /\ Shape(heap)
        <5>1. n \in DOMAIN heap
          BY <1>1, <3>1 DEF n
        <5>. QED  BY <5>1 DEF IInv
      <4>. QED  BY <4>1, CellFields
    <3>4. Range(pending') = Range(heap[n].subs) \cup Range(Tail(pending))
      <4>. DEFINE s == heap[n].subs
                  l == Tail(pending)
      <4>1. s \in Seq(DOMAIN heap) /\ l \in Seq(DOMAIN heap)
        BY <3>2, <3>3
      <4>2. pending' = s \o l
        BY <1>1
      <4>. HIDE DEF s, l
      <4>3. Range(s \o l) = Range(s) \cup Range(l)
        BY <4>1, ConcatRange
      <4>. QED  BY <4>2, <4>3 DEF s, l
    <3>5. PICK i \in 1..Len(pending) : pending[i] = x
      BY <2>3, <3>1, RangeAt
    <3>6. CASE i = 1
      BY <1>1, <2>1, <3>1, <3>5, <3>6 DEF n
    <3>7. CASE i # 1
      <4>1. i - 1 \in 1..Len(Tail(pending)) /\ Tail(pending)[i-1] = x
        BY <1>1, <3>1, <3>5, <3>7
      <4>2. x \in Range(Tail(pending))
        BY <3>2, <4>1, RangeHas
      <4>. QED  BY <3>4, <4>2
    <3>. QED  BY <3>6, <3>7
  <2>. QED  BY <2>2, <2>3
<1>5. ASSUME OneArity'
      PROVE  Drawn(heap', added') /\ Rooted(heap', Range(seen') \cup Range(pending'), added')
  <2>1. Drawn(heap, added) /\ Rooted(heap, Range(seen) \cup Range(pending), added)
    BY <1>3, <1>5 DEF OfferInv
  <2>2. Rooted(heap, Range(seen') \cup Range(pending'), added)
    BY <1>4, <2>1 DEF Rooted
  <2>. QED  BY <1>1, <2>1, <2>2
<1>. QED  BY <1>2, <1>5 DEF OfferInv

(* chunk_store_take_node() of a duplicate.                                 *)
LEMMA SharesOffers == IInv /\ IInv' /\ OfferInv /\ TakeSeen => OfferInv'
<1>. DEFINE n == Head(pending)
            new == seen[HashOf(n)]
            H == [x \in DOMAIN heap |-> hash_node(CloneOf(heap)[x])]
            r == ReplaceSubnode(heap, n, new)
<1>. SUFFICES ASSUME IInv, IInv', OfferInv, TakeSeen  PROVE OfferInv'
  OBVIOUS
<1>1. added' = added /\ seen' = seen /\ pending' = Tail(pending) /\ pending # <<>>
  BY DEF TakeSeen
<1>2. added' \subseteq Trees
  BY <1>1 DEF OfferInv
<1>3. OneArity' => OneArity
  BY <1>1, FewerTrees
<1>4. new \in Range(seen)
  <2>1. SharedHeap(n, Range(seen), new, H, r, Freed(r, n))
    BY SharesHeap
  <2>. QED  BY <2>1 DEF SharedHeap
<1>5. pending \in Seq(DOMAIN heap \ Range(seen)) /\ IsInjective(pending)
  BY DEF IInv, Own
<1>6. Range(seen') \subseteq DOMAIN heap' /\ pending' \in Seq(DOMAIN heap' \ Range(seen'))
  BY DEF IInv, Own
<1>7. ASSUME OneArity'
      PROVE  Drawn(heap', added') /\ Rooted(heap', Range(seen') \cup Range(pending'), added')
  <2>1. Drawn(heap, added) /\ Rooted(heap, Range(seen) \cup Range(pending), added)
    BY <1>3, <1>7 DEF OfferInv
  <2>2. CloneOf(heap)[n] = CloneOf(heap)[new]
    BY <1>3, <1>7, DuplicatesEqual
  <2>3. /\ DOMAIN heap' \subseteq DOMAIN heap
        /\ \A x \in DOMAIN heap' : CloneOf(heap')[x] = CloneOf(heap)[x]
    BY <2>2, SharesClones
  <2>. HIDE DEF new
  <2>4. Drawn(heap', added')
    BY <1>1, <2>1, <2>3 DEF Drawn
  <2>5. ASSUME NEW u \in added
        PROVE  \E x \in Range(seen') \cup Range(pending') : CloneOf(heap')[x] = u
    <3>1. PICK x \in Range(seen) \cup Range(pending) : CloneOf(heap)[x] = u
      BY <2>1 DEF Rooted
    <3>2. ASSUME NEW y \in Range(seen') \cup Range(pending'), CloneOf(heap)[y] = u
          PROVE  \E z \in Range(seen') \cup Range(pending') : CloneOf(heap')[z] = u
      <4>1. \A z \in Range(pending') : z \in DOMAIN heap'
        BY <1>6, RangeAt, PlacesOfSeq
      <4>2. CloneOf(heap')[y] = u
        BY <1>6, <2>3, <3>2, <4>1
      <4>. QED  BY <4>2
    <3>3. CASE x = n
      BY <1>1, <1>4, <2>2, <3>1, <3>2, <3>3
    <3>4. CASE x \in Range(seen)
      BY <1>1, <3>1, <3>2, <3>4
    <3>5. CASE x \in Range(pending) /\ x # n
      <4>1. PICK i \in 1..Len(pending) : pending[i] = x
        BY <1>5, <3>5, RangeAt
      <4>2. i # 1
        BY <1>1, <1>5, <3>5, <4>1
      <4>3. /\ Tail(pending) \in Seq(DOMAIN heap \ Range(seen))
            /\ i - 1 \in 1..Len(Tail(pending)) /\ Tail(pending)[i-1] = x
        BY <1>1, <1>5, <4>1, <4>2
      <4>4. x \in Range(pending')
        BY <1>1, <4>3, RangeHas
      <4>. QED  BY <3>1, <3>2, <4>4
    <3>. QED  BY <3>1, <3>3, <3>4, <3>5
  <2>6. Rooted(heap', Range(seen') \cup Range(pending'), added')
    BY <1>1, <2>5 DEF Rooted
  <2>. QED  BY <2>4, <2>6
<1>. QED  BY <1>2, <1>7 DEF OfferInv

(* chunk_store_clear().                                                    *)
LEMMA ClearsOffers == IInv /\ Clear => OfferInv'
<1>. SUFFICES ASSUME IInv, Clear  PROVE OfferInv'
  OBVIOUS
<1>1. added' = {} /\ DOMAIN heap' = {}
  BY ClearsHeap DEF Clear
<1>2. Drawn(heap', added') /\ Rooted(heap', Range(seen') \cup Range(pending'), added')
  BY <1>1 DEF Drawn, Rooted
<1>. QED  BY <1>1, <1>2 DEF OfferInv

(* Every step of the store keeps what it offers.                           *)
LEMMA OfferStep == IInv /\ IInv' /\ OfferInv /\ [Next]_vars => OfferInv'
<1>. SUFFICES ASSUME IInv, IInv', OfferInv, [Next]_vars  PROVE OfferInv'
  OBVIOUS
<1>1. CASE UNCHANGED <<heap, seen, pending, added>>
  <2>1. added' = added /\ heap' = heap /\ seen' = seen /\ pending' = pending
    BY <1>1
  <2>2. OneArity' => OneArity
    BY <2>1, FewerTrees
  <2>. QED  BY <2>1, <2>2 DEF OfferInv
<1>2. ASSUME NEW t \in Trees, AddTree(t)  PROVE OfferInv'
  BY <1>2, AddsOffers
<1>3. CASE TakeSeen
  BY <1>3, SharesOffers
<1>4. CASE TakeNew
  BY <1>4, KeepsOffers
<1>5. CASE Clear
  BY <1>5, ClearsOffers
<1>. QED  BY <1>1, <1>2, <1>3, <1>4, <1>5 DEF Next, ChunkStoreInit, vars

(* Between calls all nodes are stored, and the trees of the nodes on the   *)
(* heap are those of the added trees.                                      *)
LEMMA OffersAll == IInv /\ OfferInv => OffersSubtrees
<1>. SUFFICES ASSUME IInv, OfferInv, pending = <<>>, OneArity, NEW id \in Range(IdOf)
              PROVE  Alternatives(id) =
                       {s \in UNION {Subtrees(t) : t \in added} : IdOf[s[1].id] = id}
  BY DEF OffersSubtrees
<1>. DEFINE c == CloneOf(heap)
            st == Range(seen)
            S == {s \in UNION {Subtrees(t) : t \in added} : IdOf[s[1].id] = id}
<1>1. /\ Shape(heap) /\ Acyclic(heap) /\ Lists(heap, st, chunks)
  BY DEF IInv
<1>2. st = DOMAIN heap
  BY AllStored
<1>3. /\ added \subseteq Trees /\ Drawn(heap, added)
      /\ Rooted(heap, st \cup Range(pending), added)
  BY DEF OfferInv
<1>4. Range(pending) = {}
  BY DEF Range
<1>5. \A t \in added : /\ t \in Seq(Item) /\ DOMAIN t = 1..Len(t)
                        /\ Subtrees(t) = {SubtreeAt(t, i) : i \in 1..Len(t)}
  <2>. SUFFICES ASSUME NEW t \in added
                PROVE  /\ t \in Seq(Item) /\ DOMAIN t = 1..Len(t)
                       /\ Subtrees(t) = {SubtreeAt(t, i) : i \in 1..Len(t)}
    OBVIOUS
  <2>1. t \in Seq(Item)
    BY <1>3, TreesTyped
  <2>2. DOMAIN t = 1..Len(t)
    BY <2>1, PlacesOfSeq
  <2>3. \A i : T!SubtreeAt(t, i) = SubtreeAt(t, i)
    BY SameShape
  <2>4. Subtrees(t) = {SubtreeAt(t, i) : i \in DOMAIN t}
    BY <2>3, Zenon DEF Subtrees
  <2>. QED  BY <2>1, <2>2, <2>4
<1>6. \A x \in DOMAIN heap : c[x][1].id = heap[x].label
  BY <1>1, CloneShape
<1>. HIDE DEF c, st
<1>7. ASSUME NEW s \in Alternatives(id)  PROVE s \in S
  <2>1. id \in DOMAIN chunks /\ s \in {c[n] : n \in Range(chunks[id])}
    BY DEF Alternatives, c
  <2>2. PICK n \in Range(chunks[id]) : s = c[n]
    BY <2>1
  <2>3. chunks[id] \in Seq(st) /\ IdOf[heap[n].label] = id
    BY <1>1, <2>1, <2>2 DEF Lists
  <2>4. n \in DOMAIN heap
    BY <1>2, <2>2, <2>3, RangeAt, PlacesOfSeq
  <2>5. IdOf[s[1].id] = id
    BY <1>6, <2>2, <2>3, <2>4
  <2>6. PICK t \in added : \E i \in 1..Len(t) : c[n] = SubtreeAt(t, i)
    BY <1>3, <2>4 DEF Drawn, c
  <2>7. s \in Subtrees(t)
    BY <1>5, <2>2, <2>6
  <2>. QED  BY <2>5, <2>6, <2>7
<1>8. ASSUME NEW s \in S  PROVE s \in Alternatives(id)
  <2>1. PICK t \in added : s \in Subtrees(t)
    OBVIOUS
  <2>2. PICK i \in 1..Len(t) : s = SubtreeAt(t, i)
    BY <1>5, <2>1
  <2>3. PICK x \in DOMAIN heap : c[x] = t
    BY <1>2, <1>3, <1>4 DEF Rooted, c
  <2>4. PICK z \in DOMAIN heap : c[z] = SubtreeAt(c[x], i)
    BY <1>1, <2>2, <2>3, ClonesBelow DEF c
  <2>5. c[z] = s
    BY <2>2, <2>3, <2>4
  <2>6. IdOf[heap[z].label] = id
    BY <1>6, <2>5
  <2>7. PICK d \in DOMAIN chunks : z \in Range(chunks[d])
    BY <1>1, <1>2 DEF Lists
  <2>8. d = id
    BY <1>1, <2>6, <2>7 DEF Lists
  <2>. QED  BY <2>5, <2>7, <2>8 DEF Alternatives, c
<1>9. S \subseteq Alternatives(id) /\ Alternatives(id) \subseteq S
  BY <1>7, <1>8
<1>. HIDE DEF S
<1>10. Alternatives(id) = S
  BY <1>9
<1>. QED  BY <1>10 DEF S

(* Whatever trees are added, in any number and order, if a label has one   *)
(* number of subnodes in them: between the calls                           *)
(* chunk_store_get_alternative_node() may return for every id exactly the  *)
(* subtrees of the added trees with that id.  No subtree is lost with a    *)
(* duplicate that is freed, and none is made up by the sharing of nodes.   *)
THEOREM StoreOffersSubtrees == Spec => []OffersSubtrees
<1>1. Init => OfferInv
  BY DEF Init, OfferInv, Drawn, Rooted
<1>2. IInv /\ IInv' /\ OfferInv /\ [Next]_vars => OfferInv'
  BY OfferStep
<1>3. IInv /\ OfferInv => OffersSubtrees
  BY OffersAll
<1>. QED  BY <1>1, <1>2, <1>3, ChunkInductive, PTL DEF Spec
=============================================================================
