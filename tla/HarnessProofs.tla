---------------------------- MODULE HarnessProofs ----------------------------
(***************************************************************************)
(* The leakage harness for all inputs: the base64 codec and the splitting  *)
(* of a test case into its public and secret part; one of the subjects     *)
(* that it runs, the password check; and the script that starts the runs.  *)
(***************************************************************************)
EXTENDS DecodeInputs, PasswordCheck, ExperimentRunner, SequenceTheorems,
        WellFoundedInduction, TLAPS

(* A non-empty set of natural numbers has a least element.                 *)
LEMMA LeastNumber ==
  ASSUME NEW S \in SUBSET Nat, S # {}
  PROVE  \E n \in S : \A m \in S : n <= m
<1>1. \E x \in S : \A y \in S : ~ (<<y, x>> \in OpToRel(<, Nat))
  BY NatLessThanWellFounded, WFMin
<1>2. ASSUME NEW x \in S, NEW y \in S, ~ (<<y, x>> \in OpToRel(<, Nat))
      PROVE  x <= y
  <2>1. x \in Nat /\ y \in Nat
    OBVIOUS
  <2>2. ~ (y < x)
    BY <1>2, <2>1 DEF OpToRel
  <2>. QED  BY <2>1, <2>2
<1>. QED  BY <1>1, <1>2

(* Places in a row of blocks of c elements each.                           *)
LEMMA BlockPlaces ==
  ASSUME NEW c \in Nat, NEW i \in Nat, NEW a \in 1..i, NEW j \in 1..c
  PROVE  /\ c * i \in Nat /\ c * (i + 1) = c * i + c
         /\ c * (a - 1) + j \in 1..(c * i)
<1>1. c * i \in Nat /\ c * (i + 1) = c * i + c
  OBVIOUS
<1>2. a \in Nat /\ a - 1 \in Nat /\ i - a \in Nat /\ j \in Nat /\ j >= 1 /\ j <= c
  OBVIOUS
<1>3. c * (a - 1) \in Nat /\ c * (i - a) \in Nat
  BY <1>2
<1>4. c * i = c * (a - 1) + c + c * (i - a)
  BY <1>2
<1>. QED  BY <1>1, <1>2, <1>3, <1>4

(* A function on 1..n is a sequence of length n.                           *)
LEMMA MappingIsSeq ==
  ASSUME NEW S, NEW n \in Nat, NEW f \in [1..n -> S]
  PROVE  f \in Seq(S) /\ Len(f) = n
OBVIOUS

(* The elements of a concatenation.                                        *)
LEMMA ConcatAt ==
  ASSUME NEW S, NEW x \in Seq(S), NEW y \in Seq(S)
  PROVE  /\ x \o y \in Seq(S)
         /\ Len(x \o y) = Len(x) + Len(y)
         /\ \A p \in 1..Len(x) : (x \o y)[p] = x[p]
         /\ \A p \in 1..Len(y) : (x \o y)[Len(x) + p] = y[p]
<1>1. /\ x \o y \in Seq(S) /\ Len(x \o y) = Len(x) + Len(y)
      /\ \A p \in 1..(Len(x) + Len(y)) :
           (x \o y)[p] = IF p <= Len(x) THEN x[p] ELSE y[p - Len(x)]
      /\ Len(x) \in Nat /\ Len(y) \in Nat
  BY ConcatProperties
<1>2. ASSUME NEW p \in 1..Len(x)  PROVE (x \o y)[p] = x[p]
  <2>1. p \in 1..(Len(x) + Len(y)) /\ p <= Len(x)
    BY <1>1
  <2>. QED  BY <1>1, <2>1
<1>3. ASSUME NEW p \in 1..Len(y)  PROVE (x \o y)[Len(x) + p] = y[p]
  <2>1. /\ Len(x) + p \in 1..(Len(x) + Len(y)) /\ ~ (Len(x) + p <= Len(x))
        /\ (Len(x) + p) - Len(x) = p
    BY <1>1
  <2>. QED  BY <1>1, <2>1
<1>. QED  BY <1>1, <1>2, <1>3

(* The sequence row holds the blocks ss, of c elements of S each, one      *)
(* after the other.                                                        *)
IsRow(S, c, row, ss) ==
  /\ row \in Seq(S) /\ Len(row) = c * Len(ss)
  /\ \A i \in 1..Len(ss) : \A j \in 1..c : row[c * (i - 1) + j] = ss[i][j]

(* FlattenSeq() of sequences of the same length c puts them in a row.      *)
LEMMA FlattenBlocks ==
  ASSUME NEW S, NEW c \in Nat, NEW ss \in Seq(Seq(S)),
         \A i \in 1..Len(ss) : Len(ss[i]) = c
  PROVE  IsRow(S, c, FlattenSeq(ss), ss)
<1>. DEFINE n == Len(ss)
            Row(f, m) == f = [i \in 1..m |-> IF i = 1 THEN ss[i] ELSE f[i-1] \o ss[i]]
<1>0. n \in Nat /\ \A i \in 1..n : ss[i] \in Seq(S) /\ Len(ss[i]) = c
  OBVIOUS
<1>1. CASE n = 0
  <2>1. ss = <<>>
    BY <1>0, <1>1
  <2>2. FlattenSeq(ss) = <<>>
    BY <2>1 DEF FlattenSeq
  <2>. QED  BY <1>1, <2>2 DEF IsRow
<1>2. CASE n # 0
  <2>1. ASSUME NEW m \in Nat, m >= 1  PROVE \E f : Row(f, m)
    <3>. DEFINE Bad == {k \in Nat : k >= 1 /\ ~ \E f : Row(f, k)}
    <3>. SUFFICES ASSUME Bad # {}  PROVE FALSE
      BY <2>1
    <3>1. PICK k \in Bad : \A i \in Bad : k <= i
      <4>1. Bad \in SUBSET Nat
        OBVIOUS
      <4>. HIDE DEF Bad
      <4>. QED  BY <4>1, LeastNumber
    <3>2. CASE k = 1
      <4>. DEFINE f == [i \in 1..1 |-> ss[1]]
      <4>1. Row(f, 1)
        OBVIOUS
      <4>. QED  BY <3>1, <3>2, <4>1
    <3>3. CASE k # 1
      <4>1. k - 1 \in Nat /\ k - 1 >= 1 /\ ~ (k <= k - 1)
        BY <3>1, <3>3
      <4>2. PICK g : Row(g, k - 1)
        BY <3>1, <4>1
      <4>. DEFINE f == [i \in 1..k |-> IF i < k THEN g[i] ELSE g[k-1] \o ss[k]]
      <4>3. ASSUME NEW i \in 1..k
            PROVE  f[i] = IF i = 1 THEN ss[i] ELSE f[i-1] \o ss[i]
        <5>1. CASE i = k
          <6>0. k \in 1..k /\ ~ (k < k) /\ k - 1 \in 1..k /\ k - 1 < k
            BY <4>1
          <6>1. f[k] = g[k-1] \o ss[k] /\ f[k-1] = g[k-1]
            BY <6>0
          <6>. QED  BY <3>3, <5>1, <6>1
        <5>2. CASE i < k
          <6>1. i \in 1..(k-1) /\ f[i] = g[i]
            BY <5>2, <3>1
          <6>2. g[i] = IF i = 1 THEN ss[i] ELSE g[i-1] \o ss[i]
            BY <4>2, <6>1
          <6>3. i # 1 => f[i-1] = g[i-1]
            BY <3>1, <5>2
          <6>. QED  BY <6>1, <6>2, <6>3
        <5>. QED  BY <3>1, <5>1, <5>2
      <4>. HIDE DEF f
      <4>4. f = [i \in 1..k |-> f[i]]
        BY DEF f
      <4>5. Row(f, k)
        BY <4>3, <4>4
      <4>. QED  BY <3>1, <4>5
    <3>. QED  BY <3>2, <3>3
  <2>2. PICK f : Row(f, n) /\ FlattenSeq(ss) = f[n]
    <3>0. n \in Nat /\ n >= 1
      BY <1>0, <1>2
    <3>1. \E f : Row(f, n)
      BY <2>1, <3>0
    <3>. DEFINE h == CHOOSE f : Row(f, n)
    <3>2. Row(h, n)
      BY <3>1
    <3>3. FlattenSeq(ss) = h[n]
      BY <1>2 DEF FlattenSeq
    <3>. HIDE DEF h
    <3>. QED  BY <3>2, <3>3
  <2>3. ASSUME NEW i \in 1..n
        PROVE  f[i] = IF i = 1 THEN ss[i] ELSE f[i-1] \o ss[i]
    BY <2>2
  <2>. DEFINE Good(i) == /\ f[i] \in Seq(S) /\ Len(f[i]) = c * i
                         /\ \A a \in 1..i : \A j \in 1..c :
                              f[i][c * (a - 1) + j] = ss[a][j]
              Bad == {i \in 1..n : ~ Good(i)}
  <2>4. Bad = {}
    <3>. SUFFICES ASSUME Bad # {}  PROVE FALSE
      OBVIOUS
    <3>1. PICK i \in Bad : \A k \in Bad : i <= k
      <4>1. Bad \in SUBSET Nat
        BY <1>0
      <4>. HIDE DEF Bad
      <4>. QED  BY <4>1, LeastNumber
    <3>2. CASE i = 1
      <4>1. f[i] = ss[1] /\ c * 1 = c /\ \A j \in 1..c : c * (1 - 1) + j = j
        <5>1. i \in 1..n
          OBVIOUS
        <5>2. f[i] = ss[1]
          BY <2>3, <3>2, <5>1
        <5>3. ASSUME NEW d \in Nat
              PROVE  d * 1 = d /\ \A j \in 1..d : d * (1 - 1) + j = j
          OBVIOUS
        <5>. QED  BY <5>2, <5>3
      <4>. QED  BY <1>0, <3>1, <3>2, <4>1
    <3>3. CASE i # 1
      <4>. DEFINE k == i - 1
      <4>1. k \in 1..n /\ ~ (i <= k) /\ k \in Nat /\ i = k + 1 /\ i \in 1..n
        BY <1>0, <3>1, <3>3
      <4>2. Good(k)
        BY <3>1, <4>1, SMTT(30)
      <4>3. f[i] = f[k] \o ss[i] /\ ss[i] \in Seq(S) /\ Len(ss[i]) = c
        BY <1>0, <2>3, <3>3, <4>1
      <4>. HIDE DEF k
      <4>. DEFINE w == c * k
      <4>4. w \in Nat /\ c * i = w + c
        BY <4>1
      <4>5. /\ f[i] \in Seq(S) /\ Len(f[i]) = w + c
            /\ \A p \in 1..(w + c) : f[i][p] = IF p <= w THEN f[k][p] ELSE ss[i][p - w]
        <5>1. f[k] \in Seq(S) /\ Len(f[k]) = w
          BY <4>2
        <5>. HIDE DEF w
        <5>2. /\ f[k] \o ss[i] \in Seq(S)
              /\ Len(f[k] \o ss[i]) = Len(f[k]) + Len(ss[i])
              /\ \A p \in 1..(Len(f[k]) + Len(ss[i])) :
                   (f[k] \o ss[i])[p] =
                     IF p <= Len(f[k]) THEN f[k][p] ELSE ss[i][p - Len(f[k])]
          BY <4>3, <5>1, ConcatProperties
        <5>. QED  BY <4>3, <5>1, <5>2
      <4>6. ASSUME NEW a \in 1..i, NEW j \in 1..c
            PROVE  f[i][c * (a - 1) + j] = ss[a][j]
        <5>1. CASE a = i
          <6>1. a - 1 = k
            BY <4>1, <5>1
          <6>2. w + j \in 1..(w + c) /\ ~ (w + j <= w) /\ (w + j) - w = j
            <7>. HIDE DEF w
            <7>. QED  BY <4>4
          <6>3. f[i][w + j] = ss[i][j]
            <7>. HIDE DEF w
            <7>. QED  BY <4>5, <6>2
          <6>. QED  BY <5>1, <6>1, <6>3
        <5>2. CASE a # i
          <6>1. a \in 1..k
            BY <4>1, <5>2
          <6>2. c * (a - 1) + j \in 1..(c * k)
            BY <4>1, <6>1, BlockPlaces
          <6>. DEFINE p == c * (a - 1) + j
          <6>3. p \in 1..(w + c) /\ p <= w
            <7>1. p \in 1..w
              BY <6>2
            <7>. HIDE DEF p, w
            <7>. QED  BY <4>4, <7>1
          <6>. HIDE DEF p, w
          <6>4. f[i][p] = f[k][p]
            BY <4>5, <6>3
          <6>5. f[k][p] = ss[a][j]
            BY <4>2, <6>1 DEF p
          <6>. QED  BY <6>4, <6>5 DEF p
        <5>. QED  BY <5>1, <5>2
      <4>7. Good(i)
        BY <4>4, <4>5, <4>6
      <4>. QED  BY <3>1, <4>7
    <3>. QED  BY <3>2, <3>3
  <2>5. n \in 1..n /\ \A i \in 1..n : Good(i)
    <3>. HIDE DEF n, Good
    <3>. QED  BY <1>0, <1>2, <2>4
  <2>6. Good(n)
    <3>. HIDE DEF n, Good
    <3>. QED  BY <2>5
  <2>7. /\ FlattenSeq(ss) \in Seq(S) /\ Len(FlattenSeq(ss)) = c * n
        /\ \A i \in 1..n : \A j \in 1..c : FlattenSeq(ss)[c * (i - 1) + j] = ss[i][j]
    <3>1. FlattenSeq(ss) = f[n]
      BY <2>2
    <3>. HIDE DEF n
    <3>. QED  BY <2>6, <3>1
  <2>. QED  BY <2>7 DEF IsRow
<1>. QED  BY <1>1, <1>2

-----------------------------------------------------------------------------
(* nprbytes exists: the scan of Base64decode_len() stops.                  *)
LEMMA PrintedFacts ==
  ASSUME NEW code \in Seq(Char)
  PROVE  /\ Printed(code) \in 0..Len(code) /\ Printed(code) \in Nat
         /\ \A i \in 1..Printed(code) : code[i] \in 0..63
<1>. DEFINE L == Len(code)
            Ends == {n \in Nat : n = L \/ (n < L /\ code[n + 1] = Other)}
            Stop(n) == /\ \A i \in 1..n : code[i] # Other
                       /\ n = L \/ code[n + 1] = Other
<1>1. L \in Nat /\ \A i \in 1..L : code[i] \in Char
  OBVIOUS
<1>2. \E n \in 0..L : Stop(n)
  <2>1. L \in Ends /\ Ends \in SUBSET Nat
    BY <1>1
  <2>. HIDE DEF Ends
  <2>2. PICK n \in Ends : \A m \in Ends : n <= m
    BY <2>1, LeastNumber
  <2>3. n \in 0..L /\ n \in Nat
    <3>1. n <= L /\ n \in Nat
      BY <2>1, <2>2
    <3>. QED  BY <1>1, <3>1
  <2>4. ASSUME NEW i \in 1..n, code[i] = Other  PROVE FALSE
    <3>1. i - 1 \in Nat /\ i - 1 < L /\ (i - 1) + 1 = i /\ ~ (n <= i - 1)
      BY <1>1, <2>3
    <3>2. i - 1 \in Ends
      BY <2>4, <3>1 DEF Ends
    <3>. QED  BY <2>2, <3>1, <3>2
  <2>5. n = L \/ code[n + 1] = Other
    BY <2>2 DEF Ends
  <2>. QED  BY <2>3, <2>4, <2>5
<1>3. Printed(code) \in 0..L /\ Stop(Printed(code))
  <2>1. Printed(code) = CHOOSE n \in 0..L : Stop(n)
    BY DEF Printed
  <2>. HIDE DEF Stop, L
  <2>. QED  BY <1>2, <2>1
<1>4. ASSUME NEW i \in 1..Printed(code)  PROVE code[i] \in 0..63
  <2>1. i \in 1..L
    BY <1>1, <1>3
  <2>2. code[i] \in Char /\ code[i] # Other
    BY <1>1, <1>3, <2>1
  <2>. QED  BY <2>2 DEF Char, Other
<1>. QED  BY <1>1, <1>3, <1>4

(* It is the one number of characters before the first other one.          *)
LEMMA PrintedIs ==
  ASSUME NEW code \in Seq(Char), NEW n \in 0..Len(code),
         \A i \in 1..n : code[i] # Other,
         n = Len(code) \/ code[n + 1] = Other
  PROVE  Printed(code) = n
<1>. DEFINE L == Len(code)
            Stop(m) == /\ \A i \in 1..m : code[i] # Other
                       /\ m = L \/ code[m + 1] = Other
<1>1. L \in Nat
  OBVIOUS
<1>2. ASSUME NEW m \in 0..L, Stop(m)  PROVE m = n
  <2>1. CASE m < n
    <3>1. m + 1 \in 1..n /\ m # L
      BY <1>1, <2>1
    <3>. QED  BY <1>2, <3>1
  <2>2. CASE n < m
    <3>1. n + 1 \in 1..m /\ n # L
      BY <1>1, <2>2
    <3>. QED  BY <1>2, <3>1
  <2>. QED  BY <1>1, <2>1, <2>2
<1>3. Printed(code) = CHOOSE m \in 0..L : Stop(m)
  BY DEF Printed
<1>4. n \in 0..L /\ Stop(n)
  OBVIOUS
<1>. HIDE DEF Stop, L
<1>. QED  BY <1>2, <1>3, <1>4

(* The number of bytes of the last group and what Base64decode() returns.  *)
LEMMA DecodedNumbers ==
  ASSUME NEW n \in Nat
  PROVE  /\ Loops(n) \in Nat
         /\ n = 0 => Loops(n) = 0
         /\ n > 0 => n - 4 * Loops(n) \in 1..4
         /\ Bytes(n) - ((4 - (n - 4 * Loops(n))) % 4)
              = 3 * Loops(n) + (IF n = 0 THEN 0 ELSE n - 4 * Loops(n) - 1)
         /\ Bytes(n) >= 3 * Loops(n) + (IF n = 0 THEN 0 ELSE n - 4 * Loops(n) - 1)
<1>1. CASE n = 0
  BY <1>1 DEF Loops, Bytes
<1>2. CASE n > 0
  <2>. DEFINE k == (n - 1) \div 4
  <2>1. Loops(n) = k
    BY <1>2 DEF Loops
  <2>2. k \in Nat /\ n - 4 * k \in 1..4
    BY <1>2
  <2>3. (n + 3) \div 4 = k + 1
    BY <1>2
  <2>4. (4 - (n - 4 * k)) % 4 = 4 - (n - 4 * k)
    <3>. HIDE DEF k
    <3>. QED  BY <2>2
  <2>5. Bytes(n) = 3 * k + 3
    <3>. HIDE DEF k
    <3>. QED  BY <2>2, <2>3 DEF Bytes
  <2>. HIDE DEF k
  <2>. QED  BY <1>2, <2>1, <2>2, <2>4, <2>5
<1>. QED  BY <1>1, <1>2

(* The bytes that one group of characters makes.                           *)
Byte(code, o, j) ==
  CASE j = 1 -> (code[o + 1] * 4 + code[o + 2] \div 16) % 256
    [] j = 2 -> (code[o + 2] * 16 + code[o + 3] \div 4) % 256
    [] j = 3 -> (code[o + 3] * 64 + code[o + 4]) % 256

(* The bytes made of characters of base64 are bytes.                       *)
LEMMA OctetsOfChars ==
  ASSUME NEW a \in 0..63, NEW b \in 0..63
  PROVE  /\ (a * 4 + b \div 16) % 256 \in Octet
         /\ (a * 16 + b \div 4) % 256 \in Octet
         /\ (a * 64 + b) % 256 \in Octet
  BY DEF Octet

(* n characters make n - 1 bytes.                                          *)
LEMMA GroupFacts ==
  ASSUME NEW code \in Seq(Char), NEW o \in Nat, NEW n \in 0..4,
         \A i \in 1..n : code[o + i] \in 0..63
  PROVE  /\ Group(code, o, n) \in Seq(Octet)
         /\ Len(Group(code, o, n)) = IF n = 0 THEN 0 ELSE n - 1
         /\ \A j \in 1..(n - 1) : Group(code, o, n)[j] = Byte(code, o, j)
<1>. DEFINE b1 == (code[o + 1] * 4 + code[o + 2] \div 16) % 256
            b2 == (code[o + 2] * 16 + code[o + 3] \div 4) % 256
            b3 == (code[o + 3] * 64 + code[o + 4]) % 256
<1>0. /\ Group(code, o, n) = (IF n > 1 THEN <<b1>> ELSE <<>>)
                              \o (IF n > 2 THEN <<b2>> ELSE <<>>)
                              \o (IF n > 3 THEN <<b3>> ELSE <<>>)
      /\ Byte(code, o, 1) = b1 /\ Byte(code, o, 2) = b2 /\ Byte(code, o, 3) = b3
  BY DEF Group, Byte
<1>1. \A i \in 1..n : code[o + i] \in 0..63
  OBVIOUS
<1>. HIDE DEF b1, b2, b3
<1>2. n > 1 => b1 \in Octet
  <2>1. n > 1 => code[o + 1] \in 0..63 /\ code[o + 2] \in 0..63
    BY <1>1
  <2>. QED  BY <2>1, OctetsOfChars DEF b1
<1>3. n > 2 => b2 \in Octet
  <2>1. n > 2 => code[o + 2] \in 0..63 /\ code[o + 3] \in 0..63
    BY <1>1
  <2>. QED  BY <2>1, OctetsOfChars, ZenonT(40) DEF b2
<1>4. n > 3 => b3 \in Octet
  <2>1. n > 3 => code[o + 3] \in 0..63 /\ code[o + 4] \in 0..63
    BY <1>1
  <2>. QED  BY <2>1, OctetsOfChars DEF b3
<1>5. CASE n \in {0, 1}
  <2>1. Group(code, o, n) = <<>>
    BY <1>0, <1>5
  <2>. QED  BY <1>5, <2>1
<1>6. CASE n = 2
  <2>1. Group(code, o, n) = <<b1>>
    BY <1>0, <1>6
  <2>. QED  BY <1>0, <1>2, <1>6, <2>1
<1>7. CASE n = 3
  <2>1. Group(code, o, n) = <<b1>> \o <<b2>> \o <<>>
    BY <1>0, <1>7
  <2>2. b1 \in Octet /\ b2 \in Octet
    BY <1>2, <1>3, <1>7
  <2>. DEFINE x == <<b1>> \o <<b2>> \o <<>>
  <2>3. x \in Seq(Octet) /\ Len(x) = 2 /\ x[1] = b1 /\ x[2] = b2
    BY <2>2
  <2>. HIDE DEF x
  <2>4. \A j \in 1..2 : x[j] = Byte(code, o, j)
    <3>1. \A j \in 1..2 : j = 1 \/ j = 2
      OBVIOUS
    <3>. QED  BY <1>0, <2>3, <3>1
  <2>5. Group(code, o, n) = x
    BY <2>1 DEF x
  <2>6. n - 1 = 2 /\ n # 0
    BY <1>7
  <2>. QED  BY <2>3, <2>4, <2>5, <2>6
<1>8. CASE n = 4
  <2>1. Group(code, o, n) = <<b1>> \o <<b2>> \o <<b3>>
    BY <1>0, <1>8
  <2>2. b1 \in Octet /\ b2 \in Octet /\ b3 \in Octet
    BY <1>2, <1>3, <1>4, <1>8
  <2>. DEFINE x == <<b1>> \o <<b2>> \o <<b3>>
  <2>3. x \in Seq(Octet) /\ Len(x) = 3 /\ x[1] = b1 /\ x[2] = b2 /\ x[3] = b3
    BY <2>2
  <2>. HIDE DEF x
  <2>4. \A j \in 1..3 : x[j] = Byte(code, o, j)
    <3>1. \A j \in 1..3 : j = 1 \/ j = 2 \/ j = 3
      OBVIOUS
    <3>. QED  BY <1>0, <2>3, <3>1
  <2>5. Group(code, o, n) = x
    BY <2>1 DEF x
  <2>6. n - 1 = 3 /\ n # 0
    BY <1>8
  <2>. QED  BY <2>3, <2>4, <2>5, <2>6
<1>. QED  BY <1>5, <1>6, <1>7, <1>8

(* Base64decode() writes as many bytes as it returns, and there is room    *)
(* for one more; byte j of group g is made of that group's characters.     *)
LEMMA DecodeFacts ==
  ASSUME NEW code \in Seq(Char)
  PROVE  /\ Base64decode(code) \in Seq(Octet)
         /\ Decoded(code) = Len(Base64decode(code)) /\ Decoded(code) \in Nat
         /\ Base64decode_len(code) \in Nat
         /\ Decoded(code) + 1 <= Base64decode_len(code)
         /\ LET n == Printed(code) IN
            Len(Base64decode(code)) = 3 * Loops(n) + (IF n = 0 THEN 0 ELSE n - 4 * Loops(n) - 1)
         /\ \A g \in Nat : \A j \in 1..3 :
              (g >= 1 /\ 3 * (g - 1) + j <= Len(Base64decode(code))) =>
                Base64decode(code)[3 * (g - 1) + j] = Byte(code, 4 * (g - 1), j)
<1>. DEFINE n == Printed(code)
            k == Loops(n)
            r == n - 4 * k
            full == [g \in 1..k |-> Group(code, 4 * (g - 1), 4)]
            A == FlattenSeq(full)
            B == Group(code, 4 * k, r)
            len == 3 * k + (IF n = 0 THEN 0 ELSE r - 1)
<1>1. n \in Nat /\ \A i \in 1..n : code[i] \in 0..63
  BY PrintedFacts
<1>2. /\ k \in Nat /\ (n = 0 => k = 0) /\ (n > 0 => r \in 1..4)
      /\ Bytes(n) - ((4 - r) % 4) = len /\ Bytes(n) >= len /\ Bytes(n) \in Nat
  <2>1. Bytes(n) \in Nat
    <3>. HIDE DEF n
    <3>. QED  BY <1>1 DEF Bytes
  <2>. HIDE DEF n
  <2>. QED  BY <1>1, <2>1, DecodedNumbers
<1>3. Base64decode(code) = A \o B
  BY DEF Base64decode
<1>4. Decoded(code) = len /\ Base64decode_len(code) = Bytes(n) + 1
  BY <1>2 DEF Decoded, Base64decode_len
<1>. HIDE DEF n, k
<1>5. r \in 0..4 /\ 4 * k + r = n /\ (n = 0 => r = 0)
  BY <1>1, <1>2
<1>6. ASSUME NEW g \in 1..k
      PROVE  /\ full[g] \in Seq(Octet) /\ Len(full[g]) = 3
             /\ \A j \in 1..3 : full[g][j] = Byte(code, 4 * (g - 1), j)
  <2>. DEFINE o == 4 * (g - 1)
  <2>1. o \in Nat /\ 4 \in 0..4 /\ \A i \in 1..4 : o + i \in 1..n
    BY <1>1, <1>2, <1>5
  <2>2. full[g] = Group(code, o, 4)
    OBVIOUS
  <2>. HIDE DEF o
  <2>3. \A i \in 1..4 : code[o + i] \in 0..63
    BY <1>1, <2>1
  <2>4. /\ Group(code, o, 4) \in Seq(Octet)
        /\ Len(Group(code, o, 4)) = IF 4 = 0 THEN 0 ELSE 4 - 1
        /\ \A j \in 1..(4 - 1) : Group(code, o, 4)[j] = Byte(code, o, j)
    BY <2>1, <2>3, GroupFacts
  <2>. QED  BY <2>2, <2>4 DEF o
<1>7. full \in Seq(Seq(Octet)) /\ Len(full) = k
  <2>1. full = [g \in 1..k |-> full[g]]
    OBVIOUS
  <2>. DEFINE S == Seq(Octet)
  <2>2. \A g \in 1..k : full[g] \in S
    BY <1>6
  <2>. HIDE DEF full, S
  <2>3. k \in Nat
    BY <1>2
  <2>4. full \in [1..k -> S]
    BY <2>1, <2>2
  <2>5. full \in Seq(S) /\ Len(full) = k
    BY <2>3, <2>4, MappingIsSeq
  <2>. QED  BY <2>5 DEF S
<1>. HIDE DEF full
<1>8. /\ A \in Seq(Octet) /\ Len(A) = 3 * k
      /\ \A g \in 1..k : \A j \in 1..3 : A[3 * (g - 1) + j] = full[g][j]
  <2>0. PICK c \in Nat : c = 3
    OBVIOUS
  <2>1. \A g \in 1..Len(full) : Len(full[g]) = c
    BY <1>6, <1>7, <2>0
  <2>2. full \in Seq(Seq(Octet))
    BY <1>7
  <2>3. IsRow(Octet, c, A, full)
    BY <2>1, <2>2, FlattenBlocks
  <2>. HIDE DEF A
  <2>. QED  BY <1>7, <2>0, <2>3 DEF IsRow
<1>9. /\ B \in Seq(Octet) /\ Len(B) = (IF r = 0 THEN 0 ELSE r - 1)
      /\ \A j \in 1..(r - 1) : B[j] = Byte(code, 4 * k, j)
  <2>1. 4 * k \in Nat /\ \A i \in 1..r : 4 * k + i \in 1..n
    BY <1>1, <1>2, <1>5
  <2>2. \A i \in 1..r : code[4 * k + i] \in 0..63
    BY <1>1, <2>1
  <2>. HIDE DEF r
  <2>. QED  BY <1>5, <2>1, <2>2, GroupFacts
<1>. HIDE DEF A, B, r
<1>10. /\ A \o B \in Seq(Octet) /\ Len(A \o B) = Len(A) + Len(B)
       /\ \A p \in 1..(Len(A) + Len(B)) :
            (A \o B)[p] = IF p <= Len(A) THEN A[p] ELSE B[p - Len(A)]
  BY <1>8, <1>9, ConcatProperties
<1>11. Len(A \o B) = len /\ len \in Nat
  BY <1>1, <1>2, <1>5, <1>8, <1>9, <1>10
<1>12. ASSUME NEW g \in Nat, NEW j \in 1..3, g >= 1, 3 * (g - 1) + j <= len
       PROVE  (A \o B)[3 * (g - 1) + j] = Byte(code, 4 * (g - 1), j)
  <2>. DEFINE p == 3 * (g - 1) + j
  <2>1. p \in 1..(Len(A) + Len(B))
    BY <1>10, <1>11, <1>12
  <2>2. CASE g <= k
    <3>1. g \in 1..k /\ p <= Len(A)
      BY <1>2, <1>8, <1>12, <2>2
    <3>2. (A \o B)[p] = A[p]
      <4>. HIDE DEF p
      <4>. QED  BY <1>10, <2>1, <3>1
    <3>. QED  BY <1>6, <1>8, <3>1, <3>2
  <2>3. CASE g > k
    <3>0. n # 0
      BY <1>1, <1>2, <1>5, <1>12, <2>3
    <3>1. g = k + 1 /\ j \in 1..(r - 1)
      BY <1>2, <1>5, <1>12, <2>3, <3>0
    <3>2. g - 1 = k /\ ~ (p <= Len(A)) /\ p - Len(A) = j
      BY <1>2, <1>8, <3>1
    <3>3. (A \o B)[p] = B[j]
      <4>. HIDE DEF p
      <4>. QED  BY <1>10, <2>1, <3>2
    <3>. QED  BY <1>9, <3>1, <3>2, <3>3
  <2>4. g <= k \/ g > k
    <3>1. k \in Nat
      BY <1>2
    <3>. QED  BY <3>1
  <2>. QED  BY <2>2, <2>3, <2>4
<1>13. Base64decode_len(code) \in Nat /\ len + 1 <= Base64decode_len(code)
  <2>. HIDE DEF len
  <2>. QED  BY <1>2, <1>4, <1>11
<1>. QED  BY <1>3, <1>4, <1>10, <1>11, <1>12, <1>13 DEF n, k, r

-----------------------------------------------------------------------------
(* The characters made of bytes are characters of base64.                  *)
LEMMA CharsOfOctets ==
  ASSUME NEW a \in Octet, NEW b \in Octet
  PROVE  /\ First(a) \in 0..63 /\ Second(a, b) \in 0..63 /\ Third(a, b) \in 0..63
         /\ a % 64 \in 0..63
         /\ First(a) \in Char /\ Second(a, b) \in Char /\ Third(a, b) \in Char
         /\ a % 64 \in Char /\ Other \in Char /\ 0 \in Octet
  BY DEF Octet, Char, Other, First, Second, Third

(* And bytes made of them again are the bytes they were made of.           *)
LEMMA OctetsComeBack ==
  ASSUME NEW a \in Octet, NEW b \in Octet, NEW c \in Octet
  PROVE  /\ (First(a) * 4 + Second(a, b) \div 16) % 256 = a
         /\ (Second(a, b) * 16 + Third(b, c) \div 4) % 256 = b
         /\ (Third(b, c) * 64 + (c % 64)) % 256 = c
  BY DEF Octet, First, Second, Third

(* The bytes to be encoded, with the zeros that fill up the last group.    *)
At(s, p) == IF p <= Len(s) THEN s[p] ELSE 0

(* How many characters of base64 there are in a code: four for three bytes *)
(* and one more than the bytes that are left.                              *)
CodeLength(l) == 4 * (l \div 3) + (IF l % 3 = 0 THEN 0 ELSE (l % 3) + 1)

(* One group of characters for three bytes.                                *)
LEMMA WholeFacts ==
  ASSUME NEW a \in Octet, NEW b \in Octet, NEW c \in Octet
  PROVE  /\ Whole(a, b, c) \in Seq(Char) /\ Len(Whole(a, b, c)) = 4
         /\ Whole(a, b, c)[1] = First(a) /\ Whole(a, b, c)[2] = Second(a, b)
         /\ Whole(a, b, c)[3] = Third(b, c) /\ Whole(a, b, c)[4] = c % 64
<1>. DEFINE w1 == First(a)  w2 == Second(a, b)  w3 == Third(b, c)  w4 == c % 64
<1>1. w1 \in Char /\ w2 \in Char /\ w3 \in Char /\ w4 \in Char
  BY CharsOfOctets
<1>2. Whole(a, b, c) = <<w1, w2, w3, w4>>
  BY DEF Whole
<1>. HIDE DEF w1, w2, w3, w4
<1>3. /\ <<w1, w2, w3, w4>> \in Seq(Char) /\ Len(<<w1, w2, w3, w4>>) = 4
      /\ <<w1, w2, w3, w4>>[1] = w1 /\ <<w1, w2, w3, w4>>[2] = w2
      /\ <<w1, w2, w3, w4>>[3] = w3 /\ <<w1, w2, w3, w4>>[4] = w4
  BY <1>1
<1>. QED  BY <1>2, <1>3 DEF w1, w2, w3, w4

(* The characters for the bytes behind the last three.                     *)
LEMMA PaddedFacts ==
  ASSUME NEW t \in Seq(Octet), NEW w \in 0..2, Len(t) = w
  PROVE  /\ Padded(t) \in Seq(Char)
         /\ Len(Padded(t)) = IF w = 0 THEN 0 ELSE 4
         /\ w = 1 => /\ Padded(t)[1] = First(t[1]) /\ Padded(t)[2] = Second(t[1], 0)
                     /\ Padded(t)[3] = Other
         /\ w = 2 => /\ Padded(t)[1] = First(t[1]) /\ Padded(t)[2] = Second(t[1], t[2])
                     /\ Padded(t)[3] = Third(t[2], 0) /\ Padded(t)[4] = Other
<1>1. CASE w = 0
  <2>1. Padded(t) = <<>>
    BY <1>1 DEF Padded
  <2>. QED  BY <1>1, <2>1
<1>2. CASE w = 1
  <2>. DEFINE w1 == First(t[1])  w2 == Second(t[1], 0)  z == Other
  <2>1. t[1] \in Octet
    BY <1>2
  <2>2. w1 \in Char /\ w2 \in Char /\ z \in Char
    BY <2>1, CharsOfOctets
  <2>3. Padded(t) = <<w1, w2, z, z>>
    BY <1>2 DEF Padded
  <2>. HIDE DEF w1, w2, z
  <2>4. /\ <<w1, w2, z, z>> \in Seq(Char) /\ Len(<<w1, w2, z, z>>) = 4
        /\ <<w1, w2, z, z>>[1] = w1 /\ <<w1, w2, z, z>>[2] = w2 /\ <<w1, w2, z, z>>[3] = z
    BY <2>2
  <2>. QED  BY <1>2, <2>3, <2>4 DEF w1, w2, z
<1>3. CASE w = 2
  <2>. DEFINE w1 == First(t[1])  w2 == Second(t[1], t[2])  w3 == Third(t[2], 0)  z == Other
  <2>1. t[1] \in Octet /\ t[2] \in Octet
    BY <1>3
  <2>2. w1 \in Char /\ w2 \in Char /\ w3 \in Char /\ z \in Char
    BY <2>1, CharsOfOctets
  <2>3. Padded(t) = <<w1, w2, w3, z>>
    BY <1>3 DEF Padded
  <2>. HIDE DEF w1, w2, w3, z
  <2>4. /\ <<w1, w2, w3, z>> \in Seq(Char) /\ Len(<<w1, w2, w3, z>>) = 4
        /\ <<w1, w2, w3, z>>[1] = w1 /\ <<w1, w2, w3, z>>[2] = w2
        /\ <<w1, w2, w3, z>>[3] = w3 /\ <<w1, w2, w3, z>>[4] = z
    BY <2>2
  <2>. QED  BY <1>3, <2>3, <2>4 DEF w1, w2, w3, z
<1>. QED  BY <1>1, <1>2, <1>3

(* Base64encode(): the characters of group g, as far as there are bytes    *)
(* for them, and then one that is not of base64.                           *)
LEMMA EncodeFacts ==
  ASSUME NEW s \in Seq(Octet)
  PROVE  LET code == Base64encode(s)
             l    == Len(s)
             n    == CodeLength(l) IN
         /\ code \in Seq(Char) /\ n \in Nat /\ n + 1 <= Len(code)
         /\ code[n + 1] = Other
         /\ \A g \in Nat \ {0} :
              /\ 3 * g - 2 <= l =>
                   /\ code[4 * (g - 1) + 1] = First(At(s, 3 * g - 2))
                   /\ code[4 * (g - 1) + 2] = Second(At(s, 3 * g - 2), At(s, 3 * g - 1))
              /\ 3 * g - 1 <= l =>
                   code[4 * (g - 1) + 3] = Third(At(s, 3 * g - 1), At(s, 3 * g))
              /\ 3 * g <= l => code[4 * (g - 1) + 4] = At(s, 3 * g) % 64
<1>. DEFINE code == Base64encode(s)
            l == Len(s)
            m == l \div 3
            w == l % 3
            n == CodeLength(l)
            W == [g \in 1..m |-> Whole(s[3 * g - 2], s[3 * g - 1], s[3 * g])]
            A == FlattenSeq(W)
            t == SubSeq(s, 3 * m + 1, l)
            P == Padded(t)
<1>1. l \in Nat /\ m \in Nat /\ w \in 0..2 /\ l = 3 * m + w
  <2>1. l \in Nat
    OBVIOUS
  <2>. HIDE DEF l
  <2>. QED  BY <2>1
<1>2. n = 4 * m + (IF w = 0 THEN 0 ELSE w + 1)
  BY DEF CodeLength
<1>3. code = (A \o P) \o <<Other>>
  BY DEF Base64encode
<1>. HIDE DEF l, m, w, n, code
<1>4. ASSUME NEW g \in 1..m
      PROVE  /\ W[g] \in Seq(Char) /\ Len(W[g]) = 4
             /\ W[g][1] = First(At(s, 3 * g - 2))
             /\ W[g][2] = Second(At(s, 3 * g - 2), At(s, 3 * g - 1))
             /\ W[g][3] = Third(At(s, 3 * g - 1), At(s, 3 * g))
             /\ W[g][4] = At(s, 3 * g) % 64
  <2>. DEFINE a == s[3 * g - 2]  b == s[3 * g - 1]  c == s[3 * g]
  <2>1. 3 * g - 2 \in 1..l /\ 3 * g - 1 \in 1..l /\ 3 * g \in 1..l
    BY <1>1
  <2>2. a \in Octet /\ b \in Octet /\ c \in Octet
    <3>1. \A p \in 1..l : s[p] \in Octet
      BY DEF l
    <3>. QED  BY <2>1, <3>1
  <2>3. At(s, 3 * g - 2) = a /\ At(s, 3 * g - 1) = b /\ At(s, 3 * g) = c
    BY <1>1, <2>1 DEF At, l
  <2>4. W[g] = Whole(a, b, c)
    OBVIOUS
  <2>. HIDE DEF a, b, c, W
  <2>. QED  BY <2>2, <2>3, <2>4, WholeFacts
<1>5. W \in Seq(Seq(Char)) /\ Len(W) = m
  <2>. DEFINE S == Seq(Char)
  <2>1. \A g \in 1..m : W[g] \in S
    BY <1>4
  <2>2. W = [g \in 1..m |-> W[g]]
    OBVIOUS
  <2>. HIDE DEF W, S
  <2>3. W \in [1..m -> S]
    BY <2>1, <2>2
  <2>4. W \in Seq(S) /\ Len(W) = m
    BY <1>1, <2>3, MappingIsSeq
  <2>. QED  BY <2>4 DEF S
<1>. HIDE DEF W
<1>6. /\ A \in Seq(Char) /\ Len(A) = 4 * m
      /\ \A g \in 1..m : \A j \in 1..4 : A[4 * (g - 1) + j] = W[g][j]
  <2>0. PICK c \in Nat : c = 4
    OBVIOUS
  <2>1. \A g \in 1..Len(W) : Len(W[g]) = c
    BY <1>4, <1>5, <2>0
  <2>2. W \in Seq(Seq(Char))
    BY <1>5
  <2>3. IsRow(Char, c, A, W)
    BY <2>1, <2>2, FlattenBlocks
  <2>. HIDE DEF A
  <2>. QED  BY <1>5, <2>0, <2>3 DEF IsRow
<1>7. t \in Seq(Octet) /\ Len(t) = w /\ \A i \in 1..w : t[i] = s[3 * m + i]
  <2>1. /\ 3 * m + 1 \in 1..(l + 1) /\ l = Len(s)
    BY <1>1 DEF l
  <2>2. /\ t \in Seq(Octet)
        /\ Len(t) = IF 3 * m + 1 <= l THEN l - (3 * m + 1) + 1 ELSE 0
        /\ \A i \in 1..(l - (3 * m + 1) + 1) : t[i] = s[(3 * m + 1) + i - 1]
    BY <2>1, SubSeqProperties
  <2>. HIDE DEF t
  <2>3. \A i \in 1..w : (3 * m + 1) + i - 1 = 3 * m + i
    BY <1>1
  <2>. QED  BY <1>1, <2>2, <2>3
<1>8. /\ P \in Seq(Char) /\ Len(P) = (IF w = 0 THEN 0 ELSE 4)
      /\ w = 1 => P[1] = First(t[1]) /\ P[2] = Second(t[1], 0) /\ P[3] = Other
      /\ w = 2 => /\ P[1] = First(t[1]) /\ P[2] = Second(t[1], t[2])
                  /\ P[3] = Third(t[2], 0) /\ P[4] = Other
  <2>. HIDE DEF t
  <2>. QED  BY <1>1, <1>7, PaddedFacts
<1>. HIDE DEF A, P, t
<1>9. /\ code \in Seq(Char) /\ Len(code) = 4 * m + Len(P) + 1
      /\ \A p \in 1..(4 * m) : code[p] = A[p]
      /\ \A p \in 1..Len(P) : code[4 * m + p] = P[p]
      /\ code[4 * m + Len(P) + 1] = Other
  <2>. DEFINE x == A \o P
              z == <<Other>>
  <2>0. A \in Seq(Char) /\ P \in Seq(Char)
    BY <1>6, <1>8
  <2>1. /\ x \in Seq(Char) /\ Len(x) = Len(A) + Len(P)
        /\ \A p \in 1..Len(A) : x[p] = A[p]
        /\ \A p \in 1..Len(P) : x[Len(A) + p] = P[p]
    BY <2>0, ConcatAt
  <2>2. z \in Seq(Char) /\ Len(z) = 1 /\ z[1] = Other
    BY DEF Char, Other
  <2>3. code = x \o z
    BY <1>3
  <2>. HIDE DEF x, z
  <2>4. /\ code \in Seq(Char) /\ Len(code) = Len(x) + Len(z)
        /\ \A p \in 1..Len(x) : code[p] = x[p]
        /\ \A p \in 1..Len(z) : code[Len(x) + p] = z[p]
    <3>1. x \in Seq(Char) /\ z \in Seq(Char)
      BY <2>1, <2>2
    <3>. QED  BY <2>3, <3>1, ConcatAt
  <2>5. Len(P) \in Nat /\ 4 * m \in Nat /\ Len(A) = 4 * m /\ Len(x) = 4 * m + Len(P)
    BY <1>1, <1>6, <1>8, <2>1
  <2>6. ASSUME NEW p \in 1..(4 * m)  PROVE code[p] = A[p]
    <3>1. p \in 1..Len(A) /\ p \in 1..Len(x)
      BY <2>5
    <3>. QED  BY <2>1, <2>4, <3>1
  <2>7. ASSUME NEW p \in 1..Len(P)  PROVE code[4 * m + p] = P[p]
    <3>1. 4 * m + p \in 1..Len(x)
      BY <2>5
    <3>2. x[4 * m + p] = P[p]
      BY <2>1, <2>5
    <3>. QED  BY <2>4, <3>1, <3>2
  <2>8. code[Len(x) + 1] = Other
    <3>1. 1 \in 1..Len(z)
      BY <2>2
    <3>. QED  BY <2>2, <2>4, <3>1
  <2>9. Len(code) = 4 * m + Len(P) + 1 /\ Len(x) + 1 = 4 * m + Len(P) + 1
    BY <2>2, <2>4, <2>5
  <2>. QED  BY <2>4, <2>6, <2>7, <2>8, <2>9
<1>10. n \in Nat /\ n + 1 <= Len(code) /\ code[n + 1] = Other
  <2>1. CASE w = 0
    <3>1. n = 4 * m /\ Len(P) = 0 /\ 4 * m + Len(P) + 1 = n + 1
      BY <1>1, <1>2, <1>8, <2>1
    <3>. QED  BY <1>1, <1>9, <3>1
  <2>2. CASE w = 1
    <3>1. n + 1 = 4 * m + 3 /\ n \in Nat /\ Len(P) = 4 /\ 3 \in 1..4
      BY <1>1, <1>2, <1>8, <2>2
    <3>2. code[4 * m + 3] = Other
      BY <1>8, <1>9, <2>2, <3>1
    <3>3. n + 1 <= Len(code)
      BY <1>1, <1>9, <3>1
    <3>. QED  BY <3>1, <3>2, <3>3
  <2>3. CASE w = 2
    <3>1. n + 1 = 4 * m + 4 /\ n \in Nat /\ Len(P) = 4 /\ 4 \in 1..4
      BY <1>1, <1>2, <1>8, <2>3
    <3>2. code[4 * m + 4] = Other
      BY <1>8, <1>9, <2>3, <3>1
    <3>3. n + 1 <= Len(code)
      BY <1>1, <1>9, <3>1
    <3>. QED  BY <3>1, <3>2, <3>3
  <2>. QED  BY <1>1, <2>1, <2>2, <2>3
<1>11. ASSUME NEW g \in Nat \ {0}
       PROVE  /\ 3 * g - 2 <= l =>
                   /\ code[4 * (g - 1) + 1] = First(At(s, 3 * g - 2))
                   /\ code[4 * (g - 1) + 2] = Second(At(s, 3 * g - 2), At(s, 3 * g - 1))
              /\ 3 * g - 1 <= l =>
                   code[4 * (g - 1) + 3] = Third(At(s, 3 * g - 1), At(s, 3 * g))
              /\ 3 * g <= l => code[4 * (g - 1) + 4] = At(s, 3 * g) % 64
  <2>1. CASE g <= m
    <3>1. g \in 1..m /\ \A j \in 1..4 : 4 * (g - 1) + j \in 1..(4 * m)
      BY <1>1, <2>1
    <3>2. \A j \in 1..4 : code[4 * (g - 1) + j] = W[g][j]
      BY <1>6, <1>9, <3>1
    <3>3. 1 \in 1..4 /\ 2 \in 1..4 /\ 3 \in 1..4 /\ 4 \in 1..4
      OBVIOUS
    <3>4. /\ code[4 * (g - 1) + 1] = W[g][1] /\ code[4 * (g - 1) + 2] = W[g][2]
          /\ code[4 * (g - 1) + 3] = W[g][3] /\ code[4 * (g - 1) + 4] = W[g][4]
      BY <3>2, <3>3
    <3>. QED  BY <1>4, <3>1, <3>4
  <2>2. CASE g = m + 1 /\ w = 1
    <3>1. /\ 4 * (g - 1) = 4 * m /\ 3 * g - 2 = l /\ l = 3 * m + 1
          /\ ~ (3 * g - 1 <= l) /\ ~ (3 * g <= l)
      BY <1>1, <2>2
    <3>2. At(s, 3 * g - 2) = t[1] /\ At(s, 3 * g - 1) = 0
      BY <1>1, <1>7, <2>2, <3>1 DEF At, l
    <3>3. Len(P) = 4 /\ 1 \in 1..4 /\ 2 \in 1..4
      BY <1>8, <2>2
    <3>4. code[4 * m + 1] = P[1] /\ code[4 * m + 2] = P[2]
      BY <1>9, <3>3
    <3>. QED  BY <1>8, <2>2, <3>1, <3>2, <3>4
  <2>3. CASE g = m + 1 /\ w = 2
    <3>1. /\ 4 * (g - 1) = 4 * m /\ 3 * g - 1 = l /\ 3 * g - 2 = 3 * m + 1
          /\ 3 * g - 1 = 3 * m + 2 /\ ~ (3 * g <= l)
          /\ 3 * m + 1 <= l /\ 3 * m + 2 <= l /\ 1 \in 1..w /\ 2 \in 1..w
      BY <1>1, <2>3
    <3>2. At(s, 3 * g - 2) = t[1] /\ At(s, 3 * g - 1) = t[2] /\ At(s, 3 * g) = 0
      BY <1>7, <3>1 DEF At, l
    <3>3. Len(P) = 4 /\ 1 \in 1..4 /\ 2 \in 1..4 /\ 3 \in 1..4
      BY <1>8, <2>3
    <3>4. code[4 * m + 1] = P[1] /\ code[4 * m + 2] = P[2] /\ code[4 * m + 3] = P[3]
      BY <1>9, <3>3
    <3>. QED  BY <1>8, <2>3, <3>1, <3>2, <3>4
  <2>4. CASE g > m /\ ~ (g = m + 1 /\ w \in {1, 2})
    <3>1. ~ (3 * g - 2 <= l) /\ ~ (3 * g - 1 <= l) /\ ~ (3 * g <= l)
      BY <1>1, <2>4
    <3>. QED  BY <3>1
  <2>5. g <= m \/ g > m
    BY <1>1
  <2>. QED  BY <2>1, <2>2, <2>3, <2>4, <2>5
<1>. QED  BY <1>9, <1>10, <1>11 DEF code, l, n

(* What was encoded is decoded again, to the last byte, for every sequence *)
(* of bytes.                                                               *)
THEOREM RoundTrip ==
  ASSUME NEW s \in Seq(Octet)
  PROVE  Base64decode(Base64encode(s)) = s
<1>. DEFINE code == Base64encode(s)
            l == Len(s)
            n == CodeLength(l)
            d == Base64decode(code)
<1>1. l \in Nat /\ \A p \in 1..l : s[p] \in Octet
  OBVIOUS
<1>2. /\ code \in Seq(Char) /\ n \in Nat /\ n + 1 <= Len(code)
      /\ code[n + 1] = Other
  BY EncodeFacts
<1>3. ASSUME NEW g \in Nat \ {0}
      PROVE  /\ 3 * g - 2 <= l =>
                  /\ code[4 * (g - 1) + 1] = First(At(s, 3 * g - 2))
                  /\ code[4 * (g - 1) + 2] = Second(At(s, 3 * g - 2), At(s, 3 * g - 1))
             /\ 3 * g - 1 <= l =>
                  code[4 * (g - 1) + 3] = Third(At(s, 3 * g - 1), At(s, 3 * g))
             /\ 3 * g <= l => code[4 * (g - 1) + 4] = At(s, 3 * g) % 64
  BY EncodeFacts
<1>4. \A p \in Nat \ {0} : At(s, p) \in Octet
  <2>1. 0 \in Octet
    BY DEF Octet
  <2>. QED  BY <1>1, <2>1 DEF At
<1>. HIDE DEF code, l
<1>5. Printed(code) = n
  <2>1. ASSUME NEW i \in 1..n  PROVE code[i] # Other
    <3>. DEFINE g == (i - 1) \div 4 + 1
                j == ((i - 1) % 4) + 1
    <3>1. g \in Nat \ {0} /\ j \in 1..4 /\ i = 4 * (g - 1) + j
      BY <1>2
    <3>2. /\ j \in {1, 2} => 3 * g - 2 <= l
          /\ j = 3 => 3 * g - 1 <= l
          /\ j = 4 => 3 * g <= l
      <4>. HIDE DEF g, j
      <4>. QED  BY <1>1, <1>2, <3>1 DEF n, CodeLength
    <3>. HIDE DEF g, j, n
    <3>. DEFINE a == At(s, 3 * g - 2)  b == At(s, 3 * g - 1)  c == At(s, 3 * g)
    <3>3. a \in Octet /\ b \in Octet /\ c \in Octet
      <4>1. 3 * g - 2 \in Nat \ {0} /\ 3 * g - 1 \in Nat \ {0} /\ 3 * g \in Nat \ {0}
        BY <3>1
      <4>. QED  BY <1>4, <4>1
    <3>4. code[i] \in {First(a), Second(a, b), Third(b, c), c % 64}
      <4>1. j = 1 \/ j = 2 \/ j = 3 \/ j = 4
        BY <3>1
      <4>. QED  BY <1>3, <3>1, <3>2, <4>1
    <3>. HIDE DEF a, b, c
    <3>5. First(a) \in 0..63 /\ Second(a, b) \in 0..63 /\ Third(b, c) \in 0..63 /\ c % 64 \in 0..63
      BY <3>3, CharsOfOctets
    <3>. DEFINE v == code[i]
    <3>6. v \in {First(a), Second(a, b), Third(b, c), c % 64}
      BY <3>4
    <3>. HIDE DEF v
    <3>7. v \in 0..63
      BY <3>5, <3>6
    <3>8. v # Other
      BY <3>7 DEF Other
    <3>. QED  BY <3>8 DEF v
  <2>2. n \in 0..Len(code)
    <3>1. Len(code) \in Nat
      BY <1>2
    <3>. HIDE DEF n
    <3>. QED  BY <1>2, <3>1
  <2>. HIDE DEF n
  <2>. QED  BY <1>2, <2>1, <2>2, PrintedIs
<1>6. /\ d \in Seq(Octet)
      /\ Len(d) = 3 * Loops(n) + (IF n = 0 THEN 0 ELSE n - 4 * Loops(n) - 1)
      /\ \A g \in Nat : \A j \in 1..3 :
           (g >= 1 /\ 3 * (g - 1) + j <= Len(d)) =>
             d[3 * (g - 1) + j] = Byte(code, 4 * (g - 1), j)
  <2>. HIDE DEF n
  <2>. QED  BY <1>2, <1>5, DecodeFacts
<1>7. Len(d) = l
  <2>1. 3 * Loops(n) + (IF n = 0 THEN 0 ELSE n - 4 * Loops(n) - 1) = l
    BY <1>1 DEF n, CodeLength, Loops
  <2>. HIDE DEF d, n
  <2>. QED  BY <1>6, <2>1
<1>. HIDE DEF d, n
<1>8. ASSUME NEW p \in 1..l  PROVE d[p] = s[p]
  <2>. DEFINE g == (p - 1) \div 3 + 1
              j == ((p - 1) % 3) + 1
  <2>1. g \in Nat \ {0} /\ g >= 1 /\ j \in 1..3 /\ p = 3 * (g - 1) + j /\ p <= l
    BY <1>1
  <2>. HIDE DEF g, j
  <2>. DEFINE a == At(s, 3 * g - 2)  b == At(s, 3 * g - 1)  c == At(s, 3 * g)
  <2>2. a \in Octet /\ b \in Octet /\ c \in Octet
    <3>1. 3 * g - 2 \in Nat \ {0} /\ 3 * g - 1 \in Nat \ {0} /\ 3 * g \in Nat \ {0}
      BY <2>1
    <3>. QED  BY <1>4, <3>1
  <2>3. d[p] = Byte(code, 4 * (g - 1), j)
    BY <1>6, <1>7, <2>1
  <2>4. At(s, p) = s[p]
    BY <2>1 DEF At, l
  <2>5. CASE j = 1
    <3>1. p = 3 * g - 2 /\ 3 * g - 2 <= l
      BY <2>1, <2>5
    <3>2. code[4 * (g - 1) + 1] = First(a) /\ code[4 * (g - 1) + 2] = Second(a, b)
      BY <1>3, <2>1, <3>1
    <3>. HIDE DEF a, b, c
    <3>3. d[p] = (First(a) * 4 + Second(a, b) \div 16) % 256
      BY <2>3, <2>5, <3>2 DEF Byte
    <3>4. d[p] = a
      BY <2>2, <3>3, OctetsComeBack
    <3>. QED  BY <2>4, <3>1, <3>4 DEF a
  <2>6. CASE j = 2
    <3>1. p = 3 * g - 1 /\ 3 * g - 1 <= l /\ 3 * g - 2 <= l
      BY <1>1, <2>1, <2>6
    <3>2. code[4 * (g - 1) + 2] = Second(a, b) /\ code[4 * (g - 1) + 3] = Third(b, c)
      BY <1>3, <2>1, <3>1
    <3>. HIDE DEF a, b, c
    <3>3. d[p] = (Second(a, b) * 16 + Third(b, c) \div 4) % 256
      BY <2>3, <2>6, <3>2 DEF Byte
    <3>4. d[p] = b
      BY <2>2, <3>3, OctetsComeBack
    <3>. QED  BY <2>4, <3>1, <3>4 DEF b
  <2>7. CASE j = 3
    <3>1. p = 3 * g /\ 3 * g <= l /\ 3 * g - 1 <= l
      BY <1>1, <2>1, <2>7
    <3>2. code[4 * (g - 1) + 3] = Third(b, c) /\ code[4 * (g - 1) + 4] = c % 64
      BY <1>3, <2>1, <3>1
    <3>. HIDE DEF a, b, c
    <3>3. d[p] = (Third(b, c) * 64 + (c % 64)) % 256
      BY <2>3, <2>7, <3>2 DEF Byte
    <3>4. d[p] = c
      BY <2>2, <3>3, OctetsComeBack
    <3>. QED  BY <2>4, <3>1, <3>4 DEF c
  <2>8. j = 1 \/ j = 2 \/ j = 3
    BY <2>1
  <2>. QED  BY <2>5, <2>6, <2>7, <2>8
<1>9. d = s
  BY <1>1, <1>6, <1>7, <1>8, SeqEqual DEF l
<1>. QED  BY <1>9 DEF d, code

-----------------------------------------------------------------------------
(* Field i is the last of the first n that has this name.                  *)
IsLast(name, i, n) ==
  /\ i \in 1..n /\ value.fields[i].name = name
  /\ \A j \in (i + 1)..n : value.fields[j].name # name

(* What the scan of the fields has found after n of them.                  *)
RawIs(name, raw, n) ==
  \/ raw = NULL
  \/ \E i \in 1..n : IsLast(name, i, n) /\ raw = value.fields[i].code

(* A buffer that was returned holds what the last field of its name says.  *)
Holds(name, b) ==
  LET n == Len(value.fields) IN
  \E i \in 1..n : IsLast(name, i, n) /\ b = Buffer(value.fields[i].code)

(* The inductive invariant: the two raw pointers follow the scan, buffers  *)
(* exist only after the return, and then both do.                          *)
DInv ==
  /\ value \in TestCases
  /\ pc \in {"parsed", "fields", "exited", "returned"}
  /\ next \in Nat \ {0}
  /\ pc = "parsed" => /\ raw_public = NULL /\ raw_secret = NULL
                      /\ next = 1
                      /\ live = (value.type # "error")
  /\ pc = "fields" => /\ next - 1 <= Len(value.fields)
                      /\ RawIs("PUBLIC", raw_public, next - 1)
                      /\ RawIs("SECRET", raw_secret, next - 1)
  /\ pc # "returned" => public = NULL /\ secret = NULL
  /\ pc = "returned" => /\ live = FALSE
                        /\ \/ public = NULL /\ secret = NULL
                           \/ Holds("PUBLIC", public) /\ Holds("SECRET", secret)

(* The fields of a test case.                                              *)
LEMMA FieldFacts ==
  ASSUME value \in TestCases
  PROVE  /\ Len(value.fields) \in Nat
         /\ \A i \in 1..Len(value.fields) :
              /\ value.fields[i].code \in Seq(Char) /\ value.fields[i].code # NULL
              /\ value.fields[i].plain # NULL =>
                   /\ value.fields[i].plain \in Seq(Octet)
                   /\ value.fields[i].code = Base64encode(value.fields[i].plain)
<1>. DEFINE f == value.fields
<1>1. /\ f \in Seq(TypedField)
      /\ \A i \in DOMAIN f : f[i].plain # NULL => f[i].code = Base64encode(f[i].plain)
  BY TestCasesAssumption
<1>2. \A s \in Seq(Char) : s # NULL
  <2>1. Char \subseteq Octet
    BY DEF Char, Octet, Other
  <2>2. \A s \in Seq(Char) : s \in Seq(Octet)
    BY <2>1
  <2>. QED  BY <2>2, NULLAssumption
<1>. HIDE DEF f
<1>3. Len(f) \in Nat /\ DOMAIN f = 1..Len(f) /\ \A i \in 1..Len(f) : f[i] \in TypedField
  BY <1>1
<1>4. \A i \in 1..Len(f) : f[i].code \in Seq(Char) /\ f[i].plain \in {NULL} \cup Seq(Octet)
  <2>. DEFINE C == Seq(Char)  O == {NULL} \cup Seq(Octet)
  <2>1. TypedField = [name : STRING, string : BOOLEAN, code : C, plain : O]
    BY DEF TypedField
  <2>. HIDE DEF C, O
  <2>2. \A i \in 1..Len(f) : f[i].code \in C /\ f[i].plain \in O
    BY <1>3, <2>1
  <2>. QED  BY <2>2 DEF C, O
<1>. QED  BY <1>1, <1>2, <1>3, <1>4 DEF f

(* A code makes a buffer, and a buffer is not NULL.                        *)
LEMMA BufferFacts ==
  ASSUME NEW code \in Seq(Char), code # NULL
  PROVE  /\ Buffer(code) # NULL
         /\ Buffer(code).bytes = Base64decode(code)
         /\ Buffer(code).bytes \in Seq(Octet)
         /\ Buffer(code).len = Len(Buffer(code).bytes)
         /\ Buffer(code).len + 1 <= Buffer(code).room
<1>. DEFINE b == [bytes |-> Base64decode(code), len |-> Decoded(code),
                  room |-> Base64decode_len(code)]
<1>1. Buffer(code) = b
  BY DEF Buffer
<1>2. /\ Base64decode(code) \in Seq(Octet)
      /\ Decoded(code) = Len(Base64decode(code)) /\ Decoded(code) \in Nat
      /\ Base64decode_len(code) \in Nat /\ Decoded(code) + 1 <= Base64decode_len(code)
  BY DecodeFacts
<1>3. b \in TypedBuffer
  BY <1>2 DEF TypedBuffer
<1>4. b # NULL
  <2>. HIDE DEF b
  <2>. QED  BY <1>3, NULLAssumption
<1>. QED  BY <1>1, <1>2, <1>4

(* One more field, of either name.                                         *)
LEMMA ScanStep ==
  ASSUME NEW name, NEW raw, NEW n \in Nat, RawIs(name, raw, n), value \in TestCases,
         n + 1 <= Len(value.fields)
  PROVE  RawIs(name, Field(name, raw, value.fields[n + 1]), n + 1)
<1>. DEFINE f == value.fields
<1>1. CASE f[n + 1].name = name
  <2>1. IsLast(name, n + 1, n + 1) /\ n + 1 \in 1..(n + 1)
    BY <1>1 DEF IsLast
  <2>. QED  BY <1>1, <2>1 DEF RawIs, Field
<1>2. CASE f[n + 1].name # name
  <2>1. Field(name, raw, f[n + 1]) = raw
    BY <1>2 DEF Field
  <2>2. CASE raw = NULL
    BY <2>1, <2>2 DEF RawIs
  <2>3. CASE raw # NULL
    <3>1. PICK i \in 1..n : IsLast(name, i, n) /\ raw = f[i].code
      BY <2>3 DEF RawIs
    <3>2. i \in 1..(n + 1) /\ \A j \in (i + 1)..(n + 1) : j \in (i + 1)..n \/ j = n + 1
      OBVIOUS
    <3>3. IsLast(name, i, n + 1)
      BY <1>2, <3>1, <3>2 DEF IsLast
    <3>. QED  BY <2>1, <3>1, <3>2, <3>3 DEF RawIs
  <2>. QED  BY <2>2, <2>3
<1>. QED  BY <1>1, <1>2

(* Every step of find_public_and_secret_inputs() keeps the invariant.      *)
LEMMA DecodeStep ==
  ASSUME DInv, [Next]_vars
  PROVE  DInv'
<1>. DEFINE n == Len(value.fields)
<1>0. value \in TestCases /\ n \in Nat /\ next \in Nat \ {0}
  BY FieldFacts DEF DInv
<1>1. CASE Parsed
  <2>1. /\ pc = "parsed" /\ value' = value /\ live' = live /\ next' = next
        /\ raw_public' = raw_public /\ raw_secret' = raw_secret
        /\ public' = public /\ secret' = secret
        /\ pc' \in {"returned", "fields", "exited"}
        /\ pc' = "returned" => value.type = "error"
    BY <1>1 DEF Parsed, outputs
  <2>2. /\ raw_public = NULL /\ raw_secret = NULL /\ public = NULL /\ secret = NULL
        /\ next = 1 /\ live = (value.type # "error")
    BY <2>1 DEF DInv
  <2>3. next - 1 <= n
    BY <1>0, <2>2
  <2>4. value.type = "error" => live = FALSE
    BY <2>2
  <2>. QED  BY <1>0, <2>1, <2>2, <2>3, <2>4 DEF DInv, RawIs
<1>2. CASE OneField
  <2>. DEFINE f == value.fields[next]
  <2>1. /\ pc = "fields" /\ next <= n /\ next' = next + 1 /\ value' = value
        /\ public' = public /\ secret' = secret
        /\ \/ /\ pc' = "fields"
              /\ raw_public' = Field("PUBLIC", raw_public, f)
              /\ raw_secret' = Field("SECRET", raw_secret, f)
           \/ pc' = "exited"
    BY <1>2 DEF OneField
  <2>2. /\ RawIs("PUBLIC", raw_public, next - 1) /\ RawIs("SECRET", raw_secret, next - 1)
        /\ public = NULL /\ secret = NULL
    BY <2>1 DEF DInv
  <2>3. next - 1 \in Nat /\ (next - 1) + 1 = next /\ next' \in Nat \ {0} /\ next' - 1 = next
    BY <1>0, <2>1
  <2>4. /\ RawIs("PUBLIC", Field("PUBLIC", raw_public, f), next)
        /\ RawIs("SECRET", Field("SECRET", raw_secret, f), next)
    BY <1>0, <2>1, <2>2, <2>3, ScanStep
  <2>5. CASE pc' = "exited"
    BY <1>0, <2>1, <2>2, <2>3, <2>5 DEF DInv
  <2>6. CASE pc' = "fields"
    BY <1>0, <2>1, <2>2, <2>3, <2>4, <2>6 DEF DInv, RawIs, IsLast
  <2>. QED  BY <2>1, <2>5, <2>6
<1>3. CASE Decode
  <2>1. /\ pc = "fields" /\ next > n /\ next' = next /\ value' = value
        /\ \/ pc' = "exited" /\ public' = public /\ secret' = secret
           \/ /\ raw_public # NULL /\ raw_secret # NULL
              /\ public' = Buffer(raw_public) /\ secret' = Buffer(raw_secret)
              /\ live' = FALSE /\ pc' = "returned"
    BY <1>3 DEF Decode, Missing
  <2>2. /\ RawIs("PUBLIC", raw_public, next - 1) /\ RawIs("SECRET", raw_secret, next - 1)
        /\ public = NULL /\ secret = NULL /\ next - 1 <= n
    BY <2>1 DEF DInv
  <2>3. next - 1 = n
    BY <1>0, <2>1, <2>2
  <2>4. CASE pc' = "exited"
    BY <1>0, <2>1, <2>2, <2>4 DEF DInv
  <2>5. CASE pc' = "returned"
    <3>1. Holds("PUBLIC", Buffer(raw_public)) /\ Holds("SECRET", Buffer(raw_secret))
      BY <2>1, <2>2, <2>3, <2>5 DEF RawIs, Holds
    <3>2. Holds("PUBLIC", public)' /\ Holds("SECRET", secret)'
      BY <2>1, <2>5, <3>1 DEF Holds, IsLast, Buffer
    <3>. QED  BY <1>0, <2>1, <2>5, <3>2 DEF DInv
  <2>. QED  BY <2>1, <2>4, <2>5
<1>4. CASE UNCHANGED vars
  BY <1>4 DEF DInv, vars, RawIs, Holds, IsLast, Buffer
<1>. QED  BY <1>1, <1>2, <1>3, <1>4 DEF Next

(* The invariant holds in every state of every behaviour.                  *)
THEOREM HarnessInductive == Spec => []DInv
<1>1. Init => DInv
  BY DEF Init, DInv
<1>2. DInv /\ [Next]_vars => DInv'
  BY DecodeStep
<1>. QED  BY <1>1, <1>2, PTL DEF Spec

(* What a returned buffer is, given the invariant.                         *)
LEMMA Returned ==
  ASSUME DInv, NEW name, NEW b, Holds(name, b)
  PROVE  \E i \in 1..Len(value.fields) :
           LET f == value.fields[i] IN
           /\ IsLast(name, i, Len(value.fields))
           /\ b = Buffer(f.code) /\ b # NULL
           /\ b.bytes = Base64decode(f.code) /\ b.bytes \in Seq(Octet)
           /\ b.len = Len(b.bytes) /\ b.len + 1 <= b.room
           /\ f.plain # NULL =>
                f.plain \in Seq(Octet) /\ f.code = Base64encode(f.plain)
<1>1. PICK i \in 1..Len(value.fields) :
        IsLast(name, i, Len(value.fields)) /\ b = Buffer(value.fields[i].code)
  BY DEF Holds
<1>2. /\ value.fields[i].code \in Seq(Char) /\ value.fields[i].code # NULL
      /\ value.fields[i].plain # NULL =>
           /\ value.fields[i].plain \in Seq(Octet)
           /\ value.fields[i].code = Base64encode(value.fields[i].plain)
  BY FieldFacts DEF DInv
<1>. DEFINE c == value.fields[i].code
<1>3. /\ Buffer(c) # NULL
      /\ Buffer(c).bytes = Base64decode(c) /\ Buffer(c).bytes \in Seq(Octet)
      /\ Buffer(c).len = Len(Buffer(c).bytes)
      /\ Buffer(c).len + 1 <= Buffer(c).room
  BY <1>2, BufferFacts
<1>. QED  BY <1>1, <1>2, <1>3

(* A caller gets both buffers or none, and nothing of the JSON is left.    *)
THEOREM BothBuffersOrNone == Spec => []BothOrNone
<1>1. DInv => BothOrNone
  <2>. SUFFICES ASSUME DInv, pc = "returned"
                PROVE  (public = NULL <=> secret = NULL) /\ ~live
    BY DEF BothOrNone
  <2>1. ~live
    BY DEF DInv
  <2>2. \/ public = NULL /\ secret = NULL
        \/ Holds("PUBLIC", public) /\ Holds("SECRET", secret)
    BY DEF DInv
  <2>3. Holds("PUBLIC", public) /\ Holds("SECRET", secret) => public # NULL /\ secret # NULL
    BY Returned
  <2>. QED  BY <2>1, <2>2, <2>3
<1>. QED  BY <1>1, HarnessInductive, PTL

(* Every returned buffer holds what was written and one byte more, for     *)
(* every code of any length.                                               *)
THEOREM BuffersLargeEnough == Spec => []BufferHolds
<1>1. DInv => BufferHolds
  <2>. SUFFICES ASSUME DInv, NEW b \in {public, secret} \ {NULL}
                PROVE  b.len = Len(b.bytes) /\ b.len + 1 <= b.room /\ b.bytes \in Seq(Octet)
    BY DEF BufferHolds
  <2>1. Holds("PUBLIC", b) \/ Holds("SECRET", b)
    BY DEF DInv
  <2>. QED  BY <2>1, Returned
<1>. QED  BY <1>1, HarnessInductive, PTL

(* The bytes that were encoded into the last field of each name come back. *)
THEOREM BytesComeBack == Spec => []InputsComeBack
<1>1. ASSUME DInv, NEW name, NEW b, b # NULL, Holds(name, b), LastNamed(name).plain # NULL
      PROVE  b.bytes = LastNamed(name).plain /\ b.len = Len(LastNamed(name).plain)
  <2>. DEFINE n == Len(value.fields)
              Is(i) == /\ value.fields[i].name = name
                       /\ \A j \in (i + 1)..n : value.fields[j].name # name
  <2>0. n \in Nat /\ DOMAIN value.fields = 1..n
    BY <1>1, FieldFacts, TestCasesAssumption DEF DInv
  <2>1. PICK i \in 1..n :
          LET f == value.fields[i] IN
          /\ IsLast(name, i, n)
          /\ b.bytes = Base64decode(f.code) /\ b.len = Len(b.bytes)
          /\ f.plain # NULL =>
               f.plain \in Seq(Octet) /\ f.code = Base64encode(f.plain)
    BY <1>1, Returned
  <2>2. i \in 1..n /\ Is(i)
    BY <2>1 DEF IsLast
  <2>3. ASSUME NEW k \in 1..n, Is(k)  PROVE k = i
    <3>1. CASE k < i
      <4>1. i \in (k + 1)..n
        BY <2>0, <3>1
      <4>. QED  BY <2>2, <2>3, <4>1
    <3>2. CASE i < k
      <4>1. k \in (i + 1)..n
        BY <2>0, <3>2
      <4>. QED  BY <2>2, <2>3, <4>1
    <3>. QED  BY <2>0, <3>1, <3>2
  <2>4. LastNamed(name) = value.fields[CHOOSE k \in 1..n : Is(k)]
    BY <2>0 DEF LastNamed
  <2>. HIDE DEF Is, n
  <2>5. LastNamed(name) = value.fields[i]
    BY <2>2, <2>3, <2>4
  <2>. DEFINE p == value.fields[i].plain
  <2>6. p \in Seq(Octet) /\ b.bytes = Base64decode(Base64encode(p)) /\ b.len = Len(b.bytes)
    BY <1>1, <2>1, <2>5
  <2>7. b.bytes = p
    BY <2>6, RoundTrip
  <2>. QED  BY <2>5, <2>6, <2>7
<1>2. DInv => InputsComeBack
  <2>. SUFFICES ASSUME DInv
                PROVE  /\ public # NULL => Holds("PUBLIC", public)
                       /\ secret # NULL => Holds("SECRET", secret)
    BY <1>1 DEF InputsComeBack
  <2>. QED  BY DEF DInv
<1>. QED  BY <1>2, HarnessInductive, PTL

-----------------------------------------------------------------------------
(* The lines the password subject prints.                                  *)
Text == {"To exit", "Enter password", "Login Attempt Completed", "Run completed"}

(* What password_secure.cpp prints in its n-th line of output, given len   *)
(* lines of input: it depends on their number only.                        *)
Printout(len, n) ==
  CASE n = 1            -> "To exit"
    [] n = 2 * len + 2  -> "Run completed"
    [] OTHER            -> IF n % 2 = 0 THEN "Enter password"
                           ELSE "Login Attempt Completed"

(* o is the first k lines of the output.                                   *)
OutputIs(o, len, k) ==
  /\ o \in Seq(Text) /\ Len(o) = k
  /\ \A n \in 1..k : o[n] = Printout(len, n)

(* The number of lines printed when p lines are read; the end counts as    *)
(* one more.                                                               *)
PrintedLines(len, p) == IF p <= len THEN 2 * p + 1 ELSE 2 * len + 2

(* One more line of output.                                                *)
LEMMA PrintOne ==
  ASSUME NEW len \in Nat, NEW k \in Nat, NEW o, NEW e \in Text,
         OutputIs(o, len, k), e = Printout(len, k + 1)
  PROVE  OutputIs(Append(o, e), len, k + 1) /\ o \o <<e>> = Append(o, e)
<1>. DEFINE q == Append(o, e)
<1>1. o \in Seq(Text) /\ Len(o) = k /\ \A n \in 1..k : o[n] = Printout(len, n)
  BY DEF OutputIs
<1>2. /\ q \in Seq(Text) /\ Len(q) = k + 1 /\ q[k + 1] = e
      /\ \A n \in 1..k : q[n] = o[n]
  BY <1>1, AppendProperties
<1>3. o \o <<e>> = q
  BY <1>1, AppendIsConcat
<1>. HIDE DEF q
<1>4. ASSUME NEW n \in 1..(k + 1)  PROVE q[n] = Printout(len, n)
  <2>1. n \in 1..k \/ n = k + 1
    OBVIOUS
  <2>. QED  BY <1>1, <1>2, <2>1
<1>5. OutputIs(q, len, k + 1)
  BY <1>2, <1>4 DEF OutputIs
<1>. QED  BY <1>3, <1>5 DEF q

(* The inductive invariant: the output of each execution is a function of  *)
(* its position, and of nothing that depends on the secret.                *)
PasswordInv ==
  /\ Len(input) \in Nat
  /\ DOMAIN pos = {1, 2} /\ DOMAIN output = {1, 2}
  /\ \A r \in {1, 2} :
       /\ pos[r] \in Nat /\ pos[r] <= Len(input) + 1
       /\ OutputIs(output[r], Len(input), PrintedLines(Len(input), pos[r]))

(* Reading a line, or coming to the end, prints what the position says.    *)
LEMMA PrintStep ==
  ASSUME NEW len \in Nat, NEW p \in Nat, NEW o,
         OutputIs(o, len, PrintedLines(len, p))
  PROVE  /\ p < len =>
              OutputIs(o \o <<"Enter password">> \o <<"Login Attempt Completed">>,
                      len, PrintedLines(len, p + 1))
         /\ p = len => OutputIs(Append(o, "Run completed"), len, PrintedLines(len, p + 1))
<1>1. CASE p < len
  <2>1. PrintedLines(len, p) = 2 * p + 1 /\ PrintedLines(len, p + 1) = 2 * p + 3
    BY <1>1 DEF PrintedLines
  <2>. DEFINE k == 2 * p + 1
              e == "Enter password"
              f == "Login Attempt Completed"
              z == Append(o, e)
  <2>2. k \in Nat /\ k + 1 \in Nat /\ (k + 1) + 1 = 2 * p + 3
    OBVIOUS
  <2>3. /\ k + 1 # 1 /\ k + 1 # 2 * len + 2 /\ (k + 1) % 2 = 0
        /\ k + 2 # 1 /\ k + 2 # 2 * len + 2 /\ (k + 2) % 2 # 0
        /\ k + 2 = (k + 1) + 1
    BY <1>1
  <2>4. e \in Text /\ f \in Text
    BY DEF Text
  <2>5. e = Printout(len, k + 1) /\ f = Printout(len, (k + 1) + 1)
    BY <2>3 DEF Printout
  <2>. HIDE DEF k, e, f
  <2>6. OutputIs(o, len, k)
    BY <2>1 DEF k
  <2>7. OutputIs(z, len, k + 1) /\ o \o <<e>> = z
    BY <2>2, <2>4, <2>5, <2>6, PrintOne
  <2>. HIDE DEF z
  <2>8. OutputIs(Append(z, f), len, (k + 1) + 1) /\ z \o <<f>> = Append(z, f)
    BY <2>2, <2>4, <2>5, <2>7, PrintOne
  <2>9. OutputIs((o \o <<e>>) \o <<f>>, len, PrintedLines(len, p + 1))
    BY <2>1, <2>2, <2>7, <2>8
  <2>10. ~(p = len)
    BY <1>1
  <2>. QED  BY <2>9, <2>10, Zenon DEF e, f
<1>2. CASE p = len
  <2>1. PrintedLines(len, p) = 2 * len + 1 /\ PrintedLines(len, p + 1) = 2 * len + 2
    BY <1>2 DEF PrintedLines
  <2>. DEFINE k == 2 * len + 1
              e == "Run completed"
  <2>2. k \in Nat /\ k + 1 = 2 * len + 2 /\ k + 1 # 1
    OBVIOUS
  <2>3. e \in Text
    BY DEF Text
  <2>4. e = Printout(len, k + 1)
    BY <2>2 DEF Printout
  <2>. HIDE DEF k, e
  <2>5. OutputIs(o, len, k)
    BY <2>1 DEF k
  <2>6. OutputIs(Append(o, e), len, k + 1)
    BY <2>2, <2>3, <2>4, <2>5, PrintOne
  <2>7. ~(p < len)
    BY <1>2
  <2>8. OutputIs(Append(o, e), len, PrintedLines(len, p + 1))
    BY <2>1, <2>2, <2>6
  <2>. QED  BY <2>7, <2>8, Zenon DEF e
<1>. QED  BY <1>1, <1>2

(* Every step of either execution prints what its position says.           *)
LEMMA PasswordStep ==
  ASSUME PasswordInv, [PasswordNext]_password_vars
  PROVE  PasswordInv'
<1>. DEFINE len == Len(input)
<1>0. /\ len \in Nat /\ DOMAIN pos = {1, 2} /\ DOMAIN output = {1, 2}
      /\ \A r \in {1, 2} : /\ pos[r] \in Nat /\ pos[r] <= len + 1
                           /\ OutputIs(output[r], len, PrintedLines(len, pos[r]))
  BY DEF PasswordInv
<1>1. ASSUME NEW r \in {1, 2}, NEW q, input' = input, pos[r] + 1 <= len + 1,
             pos' = [pos EXCEPT ![r] = pos[r] + 1], output' = [output EXCEPT ![r] = q],
             OutputIs(q, len, PrintedLines(len, pos[r] + 1))
      PROVE  PasswordInv'
  <2>. HIDE DEF len
  <2>1. DOMAIN pos' = {1, 2} /\ DOMAIN output' = {1, 2}
    BY <1>0, <1>1
  <2>2. /\ pos'[r] = pos[r] + 1 /\ output'[r] = q
        /\ \A s \in {1, 2} : s # r => pos'[s] = pos[s] /\ output'[s] = output[s]
    BY <1>0, <1>1
  <2>3. pos'[r] \in Nat
    BY <1>0, <2>2
  <2>4. \A s \in {1, 2} : /\ pos'[s] \in Nat /\ pos'[s] <= len + 1
                          /\ OutputIs(output'[s], len, PrintedLines(len, pos'[s]))
    BY <1>0, <1>1, <2>2, <2>3
  <2>5. Len(input') = len
    BY <1>1 DEF len
  <2>. QED  BY <1>0, <2>1, <2>4, <2>5 DEF PasswordInv
<1>2. ASSUME NEW r \in {1, 2}, tryLogin(r)  PROVE PasswordInv'
  <2>. DEFINE q == output[r] \o <<"Enter password">> \o <<"Login Attempt Completed">>
  <2>1. /\ pos[r] < len /\ input' = input
        /\ output' = [output EXCEPT ![r] = q]
        /\ pos' = [pos EXCEPT ![r] = pos[r] + 1]
    BY <1>2 DEF tryLogin, Message
  <2>2. OutputIs(q, len, PrintedLines(len, pos[r] + 1)) /\ pos[r] + 1 <= len + 1
    <3>. HIDE DEF len
    <3>1. pos[r] \in Nat /\ OutputIs(output[r], len, PrintedLines(len, pos[r]))
      BY <1>0
    <3>2. OutputIs(q, len, PrintedLines(len, pos[r] + 1))
      BY <1>0, <2>1, <3>1, PrintStep, Zenon
    <3>3. pos[r] + 1 <= len + 1
      <4>1. \A p, n \in Nat : p < n \/ p = n => p + 1 <= n + 1
        OBVIOUS
      <4>. QED  BY <1>0, <2>1, <3>1, <4>1, Zenon
    <3>. QED  BY <3>2, <3>3
  <2>. HIDE DEF len, q
  <2>. QED  BY <1>1, <2>1, <2>2
<1>3. ASSUME NEW r \in {1, 2}, EndRun(r)  PROVE PasswordInv'
  <2>. DEFINE q == Append(output[r], "Run completed")
  <2>1. /\ pos[r] = len /\ input' = input
        /\ output' = [output EXCEPT ![r] = q]
        /\ pos' = [pos EXCEPT ![r] = pos[r] + 1]
    BY <1>3 DEF EndRun
  <2>2. OutputIs(q, len, PrintedLines(len, pos[r] + 1)) /\ pos[r] + 1 <= len + 1
    <3>. HIDE DEF len
    <3>1. pos[r] \in Nat /\ OutputIs(output[r], len, PrintedLines(len, pos[r]))
      BY <1>0
    <3>2. OutputIs(q, len, PrintedLines(len, pos[r] + 1))
      BY <1>0, <2>1, <3>1, PrintStep, Zenon
    <3>3. pos[r] + 1 <= len + 1
      <4>1. \A p, n \in Nat : p < n \/ p = n => p + 1 <= n + 1
        OBVIOUS
      <4>. QED  BY <1>0, <2>1, <3>1, <4>1, Zenon
    <3>. QED  BY <3>2, <3>3
  <2>. HIDE DEF len, q
  <2>. QED  BY <1>1, <2>1, <2>2
<1>4. CASE UNCHANGED password_vars
  <2>1. input' = input /\ pos' = pos /\ output' = output
    BY <1>4 DEF password_vars
  <2>. QED  BY <2>1 DEF PasswordInv
<1>. QED  BY <1>2, <1>3, <1>4 DEF PasswordNext, Runs

(* Noninterference of password_secure.cpp: with equal public input, the    *)
(* outputs of two executions agree as far as both have come, whatever the  *)
(* secrets are.                                                            *)
THEOREM SecretNotPrinted == PasswordSpec => []OutputsAgree
<1>1. PasswordInit => PasswordInv
  <2>. SUFFICES ASSUME PasswordInit  PROVE PasswordInv
    OBVIOUS
  <2>1. PICK m \in 0..MaxLines : input \in [1..m -> Lines]
    BY DEF PasswordInit, BoundedSeq, SeqOf
  <2>2. Len(input) \in Nat
    BY <2>1, MaxLinesAssumption
  <2>. DEFINE len == Len(input)
              e == "To exit"
              x == <<e>>
  <2>3. e \in Text
    BY DEF Text
  <2>4. e = Printout(len, 1)
    BY DEF Printout
  <2>5. pos = [r \in {1, 2} |-> 0] /\ output = [r \in {1, 2} |-> x]
    BY DEF PasswordInit, Runs
  <2>. HIDE DEF e
  <2>6. x \in Seq(Text) /\ Len(x) = 1 /\ x[1] = e
    BY <2>3
  <2>. HIDE DEF x, len
  <2>7. OutputIs(x, len, 1)
    <3>1. ASSUME NEW n \in 1..1  PROVE x[n] = Printout(len, n)
      <4>1. n = 1
        OBVIOUS
      <4>. QED  BY <2>4, <2>6, <4>1
    <3>. QED  BY <2>6, <3>1 DEF OutputIs
  <2>8. len \in Nat /\ PrintedLines(len, 0) = 1 /\ 0 <= len + 1
    BY <2>2 DEF len, PrintedLines
  <2>9. \A r \in {1, 2} : pos[r] = 0 /\ output[r] = x
    BY <2>5
  <2>10. DOMAIN pos = {1, 2} /\ DOMAIN output = {1, 2}
    BY <2>5
  <2>11. \A r \in {1, 2} : /\ pos[r] \in Nat /\ pos[r] <= len + 1
                           /\ OutputIs(output[r], len, PrintedLines(len, pos[r]))
    BY <2>7, <2>8, <2>9
  <2>. QED  BY <2>8, <2>10, <2>11 DEF PasswordInv, len
<1>2. PasswordInv /\ [PasswordNext]_password_vars => PasswordInv'
  BY PasswordStep
<1>3. ASSUME NEW len, NEW a, NEW b, NEW k, NEW m, k <= m, k \in Nat, m \in Nat,
             OutputIs(a, len, k), OutputIs(b, len, m)
      PROVE  IsPrefix(a, b)
  <2>1. /\ a \in Seq(Text) /\ Len(a) = k /\ \A n \in 1..k : a[n] = Printout(len, n)
        /\ b \in Seq(Text) /\ Len(b) = m /\ \A n \in 1..m : b[n] = Printout(len, n)
    BY <1>3 DEF OutputIs
  <2>2. \A n \in 1..k : a[n] = b[n]
    BY <1>3, <2>1
  <2>. QED  BY <1>3, <2>1, <2>2 DEF IsPrefix
<1>4. PasswordInv => OutputsAgree
  <2>. SUFFICES ASSUME PasswordInv  PROVE OutputsAgree
    OBVIOUS
  <2>. DEFINE len == Len(input)
              k == PrintedLines(len, pos[1])
              m == PrintedLines(len, pos[2])
  <2>1. /\ len \in Nat /\ pos[1] \in Nat /\ pos[2] \in Nat
        /\ OutputIs(output[1], len, k) /\ OutputIs(output[2], len, m)
    BY DEF PasswordInv
  <2>2. k \in Nat /\ m \in Nat
    <3>. HIDE DEF len
    <3>. QED  BY <2>1 DEF PrintedLines
  <2>. HIDE DEF k, m, len
  <2>3. k <= m \/ m <= k
    BY <2>2
  <2>. QED  BY <1>3, <2>1, <2>2, <2>3 DEF OutputsAgree
<1>. QED  BY <1>1, <1>2, <1>4, PTL DEF PasswordSpec

-----------------------------------------------------------------------------
(* run_experiment.sh, which starts the experiments, for any number of runs *)

(* The inductive invariant: randomisation is off from the command before   *)
(* docker container run on, and from there to docker cp the container with *)
(* the name is this run's own.                                             *)
RunnerInv ==
    /\ command \in {"run", "running"} => aslr = 0
    /\ command \in {"running", "reenable", "copy"} => container = run
    /\ results \in {0, run}

(* Every step of the scripts keeps the invariant.                          *)
LEMMA StepKeepsRunnerInv == RunnerInv /\ [RunnerNext]_runner_vars => RunnerInv'
<1> SUFFICES ASSUME RunnerInv, [RunnerNext]_runner_vars PROVE RunnerInv'
  OBVIOUS
<1> USE DEF RunnerInv, ErrExit
<1>1. CASE UNCHANGED runner_vars
  BY <1>1 DEF runner_vars
<1>2. CASE Start
  BY <1>2 DEF Start
<1>3. CASE RunContainer
  BY <1>3 DEF RunContainer
<1>4. CASE ContainerEnds
  BY <1>4 DEF ContainerEnds
<1>5. CASE CopyOut
  BY <1>5 DEF CopyOut
<1>6. CASE Report \/ Killed \/ RemoveContainer
  BY <1>6 DEF Report, Killed, RemoveContainer
<1>7. CASE Plain("build", "disable") \/ Plain("chown", "report")
  BY <1>7 DEF Plain
<1>8. CASE SetAslr("disable", 0, "run") \/ SetAslr("reenable", 2, "copy")
  BY <1>8 DEF SetAslr
<1> QED
  BY <1>1, <1>2, <1>3, <1>4, <1>5, <1>6, <1>7, <1>8 DEF RunnerNext

(* So it holds in every state.                                             *)
LEMMA RunnerInvHolds == RunnerSpec => []RunnerInv
<1>1. RunnerInit => RunnerInv
  BY DEF RunnerInit, RunnerInv
<1> QED
  BY <1>1, StepKeepsRunnerInv, PTL DEF RunnerSpec

(* No experiment runs with address randomisation on, whatever failed in    *)
(* this and earlier runs.                                                  *)
THEOREM ExperimentsWithoutAslr == RunnerSpec => []AslrOffWhileRunning
<1>1. RunnerInv => AslrOffWhileRunning
  BY DEF RunnerInv, AslrOffWhileRunning
<1> QED
  BY <1>1, RunnerInvHolds, PTL

(* A run copies only the results of its own container, even if docker rm   *)
(* was skipped and the name is still taken by an earlier one.              *)
THEOREM ResultsAreOwn == RunnerSpec => []ResultsOfThisRun
<1>1. RunnerInv => ResultsOfThisRun
  BY DEF RunnerInv, ResultsOfThisRun
<1> QED
  BY <1>1, RunnerInvHolds, PTL
=============================================================================
