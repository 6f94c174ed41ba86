-------------------------- MODULE ListAndFileProofs --------------------------
(***************************************************************************)
(* The tree file for all trees: what was written completely is read back,  *)
(* and a file torn at any cell is refused.  The linked list for all data   *)
(* and any number of addresses: list.c implements the sequence that list.h *)
(* promises.                                                               *)
(***************************************************************************)
EXTENDS TreeFile, LinkedList, TreeShapeProofs, SequenceTheorems

(* The cells of a node.                                                    *)
LEMMA NodeCells ==
  ASSUME NEW n \in TreeNode
  PROVE  LET c == SerializeNode(n) IN
         /\ n.id \in Nat /\ n.rule \in Nat /\ n.subs \in Nat /\ n.val \in Seq(Nat)
         /\ Len(n.val) \in Nat
         /\ n = [id |-> n.id, rule |-> n.rule, subs |-> n.subs, val |-> n.val]
         /\ c \in Seq(Nat) /\ Len(c) = 4 + Len(n.val)
         /\ c[1] = n.id /\ c[2] = n.rule /\ c[3] = n.subs /\ c[4] = Len(n.val)
         /\ \A i \in 1..Len(n.val) : c[4 + i] = n.val[i]
<1>. DEFINE v == n.val
            h == <<n.id, n.rule, n.subs, Len(v)>>
<1>1. /\ n.id \in Nat /\ n.rule \in Nat /\ n.subs \in Nat /\ v \in Seq(Nat)
      /\ n = [id |-> n.id, rule |-> n.rule, subs |-> n.subs, val |-> n.val]
  BY DEF TreeNode
<1>2. Len(v) \in Nat
  BY <1>1
<1>. HIDE DEF v
<1>3. /\ h \in Seq(Nat) /\ Len(h) = 4
      /\ h[1] = n.id /\ h[2] = n.rule /\ h[3] = n.subs /\ h[4] = Len(v)
  BY <1>1, <1>2
<1>. HIDE DEF h
<1>4. SerializeNode(n) = h \o v
  BY DEF SerializeNode, h, v
<1>5. /\ h \o v \in Seq(Nat) /\ Len(h \o v) = Len(h) + Len(v)
      /\ \A p \in 1..Len(h) : (h \o v)[p] = h[p]
      /\ \A p \in 1..Len(v) : (h \o v)[Len(h) + p] = v[p]
  <2>1. h \in Seq(Nat) /\ v \in Seq(Nat)
    BY <1>1, <1>3
  <2>. QED  BY <2>1, ConcatAt
<1>6. (h \o v)[1] = h[1] /\ (h \o v)[2] = h[2] /\ (h \o v)[3] = h[3] /\ (h \o v)[4] = h[4]
  BY <1>3, <1>5
<1>. QED  BY <1>1, <1>2, <1>3, <1>4, <1>5, <1>6 DEF v

(* off[k] is where the cells of the nodes of t after the first k begin in  *)
(* its serialisation z.                                                    *)
Places(t, z, off) ==
  /\ z \in Seq(Nat) /\ off \in [0..Len(t) -> Nat] /\ off[0] = 0 /\ off[Len(t)] = Len(z)
  /\ \A k \in 1..Len(t) :
       /\ off[k] = off[k - 1] + 4 + Len(t[k].val)
       /\ \A j \in 1..(4 + Len(t[k].val)) : z[off[k - 1] + j] = SerializeNode(t[k])[j]

(* A tree with at least one node is serialised node by node.               *)
LEMMA SerializePlaces ==
  ASSUME NEW t \in Seq(TreeNode), Len(t) # 0
  PROVE  \E off : Places(t, Serialize(t), off)
<1>. DEFINE m == Len(t)
            ss == [k \in DOMAIN t |-> SerializeNode(t[k])]
            z == Serialize(t)
<1>1. m \in Nat /\ m # 0 /\ DOMAIN t = 1..m /\ \A k \in 1..m : t[k] \in TreeNode
  OBVIOUS
<1>2. /\ ss \in Seq(Seq(Nat)) /\ Len(ss) = m
      /\ \A k \in 1..m : ss[k] = SerializeNode(t[k]) /\ ss[k] \in Seq(Nat)
                          /\ Len(ss[k]) = 4 + Len(t[k].val) /\ Len(t[k].val) \in Nat
  <2>1. \A k \in 1..m : /\ SerializeNode(t[k]) \in Seq(Nat) /\ Len(t[k].val) \in Nat
                         /\ Len(SerializeNode(t[k])) = 4 + Len(t[k].val)
    BY <1>1, NodeCells
  <2>2. ss \in [1..m -> Seq(Nat)]
    BY <1>1, <2>1
  <2>3. \A k \in 1..m : ss[k] = SerializeNode(t[k])
    BY <1>1
  <2>. HIDE DEF ss, m
  <2>4. ss \in Seq(Seq(Nat)) /\ Len(ss) = m
    BY <1>1, <2>2, SeqOfFun
  <2>. QED  BY <2>1, <2>3, <2>4
<1>3. z = FlattenSeq(ss)
  BY DEF Serialize
<1>. HIDE DEF z, ss, m
<1>4. PICK row : IsRow(Nat, ss, row) /\ z = row[m]
  BY <1>1, <1>2, <1>3, FlattenRow
<1>5. /\ \A k \in 1..m : row[k] \in Seq(Nat)
      /\ row[1] = ss[1]
      /\ \A k \in 1..m : k # 1 => row[k] = row[k - 1] \o ss[k]
  BY <1>2, <1>4 DEF IsRow
<1>. DEFINE off == [k \in 0..m |-> IF k = 0 THEN 0 ELSE Len(row[k])]
<1>6. off \in [0..m -> Nat] /\ off[0] = 0 /\ off[m] = Len(z) /\ z \in Seq(Nat)
  <2>1. \A k \in 1..m : Len(row[k]) \in Nat
    BY <1>5
  <2>. QED  BY <1>1, <1>4, <1>5, <2>1
<1>7. ASSUME NEW k \in 1..m
      PROVE  /\ off[k] = off[k - 1] + Len(ss[k])
             /\ \A j \in 1..Len(ss[k]) : row[k][off[k - 1] + j] = ss[k][j]
             /\ k # 1 => \A j \in 1..off[k - 1] : row[k][j] = row[k - 1][j]
  <2>1. CASE k = 1
    <3>1. /\ off[1] = Len(row[1]) /\ off[k - 1] = 0 /\ Len(ss[1]) \in Nat
          /\ row[1] = ss[1]
      BY <1>1, <1>2, <1>5, <2>1
    <3>. HIDE DEF off
    <3>2. \A j \in 1..Len(ss[1]) : off[k - 1] + j = j
      BY <3>1
    <3>3. off[k] = off[k - 1] + Len(ss[k])
      BY <2>1, <3>1
    <3>4. \A j \in 1..Len(ss[k]) : row[k][off[k - 1] + j] = ss[k][j]
      BY <2>1, <3>1, <3>2
    <3>. QED  BY <2>1, <3>3, <3>4
  <2>2. CASE k # 1
    <3>1. k - 1 \in 1..m /\ k - 1 \in 0..m /\ k - 1 # 0 /\ k \in 0..m /\ k # 0
      BY <1>1, <2>2
    <3>2. off[k] = Len(row[k]) /\ off[k - 1] = Len(row[k - 1])
      BY <3>1
    <3>. HIDE DEF off
    <3>3. row[k] = row[k - 1] \o ss[k] /\ row[k - 1] \in Seq(Nat) /\ ss[k] \in Seq(Nat)
      BY <1>2, <1>5, <2>2, <3>1
    <3>. DEFINE x == row[k - 1]
                y == ss[k]
                w == row[k]
    <3>4. w = x \o y /\ x \in Seq(Nat) /\ y \in Seq(Nat)
      BY <3>3
    <3>. HIDE DEF x, y, w
    <3>5. /\ Len(w) = Len(x) + Len(y)
          /\ \A p \in 1..Len(x) : w[p] = x[p]
          /\ \A p \in 1..Len(y) : w[Len(x) + p] = y[p]
      <4>1. x \in Seq(Nat) /\ y \in Seq(Nat)
        BY <3>4
      <4>2. /\ Len(x \o y) = Len(x) + Len(y)
            /\ \A p \in 1..Len(x) : (x \o y)[p] = x[p]
            /\ \A p \in 1..Len(y) : (x \o y)[Len(x) + p] = y[p]
        BY <4>1, ConcatAt
      <4>. QED  BY <3>4, <4>2
    <3>. QED  BY <3>2, <3>5 DEF x, y, w
  <2>. QED  BY <2>1, <2>2
<1>. HIDE DEF off
(* what stands in a part of the row stays there up to the end *)
<1>8. ASSUME NEW k \in 1..m, NEW p \in 1..off[k]  PROVE z[p] = row[k][p]
  <2>. DEFINE P == {d \in Nat : k + d <= m => p \in 1..off[k + d] /\ row[k + d][p] = row[k][p]}
  <2>1. 0 \in P
    <3>1. k + 0 = k
      OBVIOUS
    <3>. QED  BY <3>1
  <2>2. ASSUME NEW d \in 0..((m - k) - 1), d \in P  PROVE d + 1 \in P
    <3>. DEFINE e == k + d
    <3>1. /\ e \in 1..m /\ e + 1 \in 1..m /\ (e + 1) - 1 = e /\ e + 1 # 1
          /\ k + (d + 1) = e + 1 /\ d + 1 \in Nat /\ e <= m /\ d \in Nat
      BY <1>1
    <3>2. p \in 1..off[e] /\ row[e][p] = row[k][p]
      BY <2>2, <3>1
    <3>. HIDE DEF e
    <3>3. /\ off[e + 1] = off[e] + Len(ss[e + 1])
          /\ \A j \in 1..off[e] : row[e + 1][j] = row[e][j]
      BY <1>7, <3>1
    <3>4. off[e] \in Nat /\ Len(ss[e + 1]) \in Nat
      BY <1>1, <1>2, <1>6, <3>1
    <3>5. p \in 1..off[e + 1]
      BY <3>2, <3>3, <3>4
    <3>6. row[e + 1][p] = row[k][p]
      BY <3>2, <3>3
    <3>. QED  BY <3>1, <3>5, <3>6
  <2>3. m - k \in Nat /\ k + (m - k) = m
    BY <1>1
  <2>4. m - k \in P
    <3>1. m - k \in 0..(m - k)
      BY <2>3
    <3>. HIDE DEF P
    <3>. QED  BY <2>1, <2>2, <2>3, <3>1, UpTo
  <2>5. row[m][p] = row[k][p]
    BY <1>1, <2>3, <2>4
  <2>. QED  BY <1>4, <2>5
<1>9. ASSUME NEW k \in 1..m
      PROVE  /\ off[k] = off[k - 1] + 4 + Len(t[k].val)
             /\ \A j \in 1..(4 + Len(t[k].val)) : z[off[k - 1] + j] = SerializeNode(t[k])[j]
  <2>1. /\ Len(ss[k]) = 4 + Len(t[k].val) /\ ss[k] = SerializeNode(t[k])
        /\ Len(t[k].val) \in Nat /\ off[k - 1] \in Nat /\ off[k] \in Nat
    BY <1>1, <1>2, <1>6
  <2>2. off[k] = off[k - 1] + 4 + Len(t[k].val)
    <3>1. off[k] = off[k - 1] + Len(ss[k])
      BY <1>7
    <3>2. ASSUME NEW a \in Nat, NEW b \in Nat  PROVE a + (4 + b) = a + 4 + b
      OBVIOUS
    <3>. QED  BY <2>1, <3>1, <3>2
  <2>3. ASSUME NEW j \in 1..(4 + Len(t[k].val))
        PROVE  z[off[k - 1] + j] = SerializeNode(t[k])[j]
    <3>1. off[k - 1] + j \in 1..off[k]
      <4>1. \A a, b \in Nat : \A i \in 1..(4 + b) : a + i \in 1..(a + 4 + b)
        OBVIOUS
      <4>. QED  BY <2>1, <2>2, <4>1
    <3>2. z[off[k - 1] + j] = row[k][off[k - 1] + j]
      BY <1>8, <3>1
    <3>. QED  BY <1>7, <2>1, <3>2
  <2>. QED  BY <2>2, <2>3
<1>10. Places(t, z, off)
  BY <1>6, <1>9 DEF Places, m
<1>. QED  BY <1>10 DEF z

-----------------------------------------------------------------------------
(* The equations of the nodes that are still missing.                      *)
LEMMA OpenSteps ==
  ASSUME NEW t \in Seq(TreeNode)
  PROVE  /\ Open(t)[0] = 1
         /\ \A k \in 1..Len(t) : Open(t)[k] = Open(t)[k - 1] - 1 + t[k].subs
<1>. DEFINE n == Len(t)
            Fn(g, m) == g = [k \in 0..m |-> IF k = 0 THEN 1 ELSE g[k - 1] - 1 + t[k].subs]
            P == {m \in Nat : \E g : Fn(g, m)}
<1>1. n \in Nat
  OBVIOUS
<1>2. 0 \in P
  <2>. DEFINE g == [k \in 0..0 |-> 1]
  <2>1. Fn(g, 0)
    OBVIOUS
  <2>. QED  BY <2>1
<1>3. ASSUME NEW m \in 0..(n - 1), m \in P  PROVE m + 1 \in P
  <2>1. m \in Nat /\ m + 1 \in Nat /\ (m + 1) - 1 = m
    BY <1>1
  <2>2. PICK g : Fn(g, m)
    BY <1>3
  <2>. DEFINE h == [k \in 0..(m + 1) |-> IF k <= m THEN g[k] ELSE g[m] - 1 + t[m + 1].subs]
  <2>3. ASSUME NEW k \in 0..(m + 1)
        PROVE  h[k] = IF k = 0 THEN 1 ELSE h[k - 1] - 1 + t[k].subs
    <3>1. CASE k = m + 1
      <4>1. h[k] = g[m] - 1 + t[m + 1].subs /\ h[k - 1] = g[m] /\ k # 0
        BY <2>1, <3>1
      <4>. QED  BY <3>1, <4>1
    <3>2. CASE k # m + 1
      <4>1. k \in 0..m /\ k <= m /\ (k # 0 => k - 1 \in 0..(m + 1) /\ k - 1 <= m)
        BY <2>1, <3>2
      <4>2. h[k] = g[k] /\ (k # 0 => h[k - 1] = g[k - 1])
        BY <4>1
      <4>3. g[k] = IF k = 0 THEN 1 ELSE g[k - 1] - 1 + t[k].subs
        BY <2>2, <4>1
      <4>. QED  BY <4>2, <4>3
    <3>. QED  BY <3>1, <3>2
  <2>. HIDE DEF h
  <2>4. h = [k \in 0..(m + 1) |-> h[k]]
    BY DEF h
  <2>5. Fn(h, m + 1)
    BY <2>3, <2>4
  <2>. QED  BY <2>1, <2>5
<1>4. n \in P
  <2>1. n \in 0..n
    BY <1>1
  <2>. HIDE DEF P, n
  <2>. QED  BY <1>1, <1>2, <1>3, <2>1, UpTo
<1>5. Fn(Open(t), n)
  <2>1. \E g : Fn(g, n)
    BY <1>4
  <2>. DEFINE h == CHOOSE g : Fn(g, n)
  <2>2. Fn(h, n)
    BY <2>1
  <2>3. Open(t) = h
    BY DEF Open
  <2>. QED  BY <2>2, <2>3
<1>. QED  BY <1>1, <1>5

(* A state of the reading.                                                 *)
State(a, c, o, b) == [nodes |-> a, consumed |-> c, open |-> o, ok |-> b]

(* The reading of a file, node by node.                                    *)
Reads(f, s) ==
  /\ s[0] = State(<<>>, 0, 1, TRUE)
  /\ \A k \in 1..(Len(f) + 1) : s[k] = DeserializeNode(f, s[k - 1])

(* DeserializeNodes() is the last state of the reading.                    *)
LEMMA ReadSteps ==
  ASSUME NEW f \in Seq(Nat)
  PROVE  \E s : Reads(f, s) /\ DeserializeNodes(f) = s[Len(f) + 1]
<1>. DEFINE n == Len(f) + 1
            z == State(<<>>, 0, 1, TRUE)
            Fn(g, m) == g = [k \in 0..m |-> IF k = 0 THEN z ELSE DeserializeNode(f, g[k - 1])]
            P == {m \in Nat : \E g : Fn(g, m)}
<1>1. n \in Nat
  OBVIOUS
<1>2. 0 \in P
  <2>. DEFINE g == [k \in 0..0 |-> z]
  <2>1. Fn(g, 0)
    OBVIOUS
  <2>. QED  BY <2>1
<1>3. ASSUME NEW m \in 0..(n - 1), m \in P  PROVE m + 1 \in P
  <2>1. m \in Nat /\ m + 1 \in Nat /\ (m + 1) - 1 = m
    BY <1>1
  <2>2. PICK g : Fn(g, m)
    BY <1>3
  <2>. DEFINE h == [k \in 0..(m + 1) |-> IF k <= m THEN g[k] ELSE DeserializeNode(f, g[m])]
  <2>3. ASSUME NEW k \in 0..(m + 1)
        PROVE  h[k] = IF k = 0 THEN z ELSE DeserializeNode(f, h[k - 1])
    <3>1. CASE k = m + 1
      <4>1. h[k] = DeserializeNode(f, g[m]) /\ h[k - 1] = g[m] /\ k # 0
        BY <2>1, <3>1
      <4>. QED  BY <3>1, <4>1
    <3>2. CASE k # m + 1
      <4>1. k \in 0..m /\ k <= m /\ (k # 0 => k - 1 \in 0..(m + 1) /\ k - 1 <= m)
        BY <2>1, <3>2
      <4>2. h[k] = g[k] /\ (k # 0 => h[k - 1] = g[k - 1])
        BY <4>1
      <4>3. g[k] = IF k = 0 THEN z ELSE DeserializeNode(f, g[k - 1])
        BY <2>2, <4>1
      <4>. QED  BY <4>2, <4>3
    <3>. QED  BY <3>1, <3>2
  <2>. HIDE DEF h
  <2>4. h = [k \in 0..(m + 1) |-> h[k]]
    BY DEF h
  <2>5. Fn(h, m + 1)
    BY <2>3, <2>4
  <2>. QED  BY <2>1, <2>5
<1>4. n \in P
  <2>1. n \in 0..n
    BY <1>1
  <2>. HIDE DEF P, n
  <2>. QED  BY <1>1, <1>2, <1>3, <2>1, UpTo
<1>5. PICK s : Fn(s, n) /\ DeserializeNodes(f) = s[n]
  <2>1. \E g : Fn(g, n)
    BY <1>4
  <2>. DEFINE h == CHOOSE g : Fn(g, n)
  <2>2. Fn(h, n)
    BY <2>1
  <2>3. DeserializeNodes(f) = h[n]
    BY DEF DeserializeNodes, State
  <2>. HIDE DEF h
  <2>. QED  BY <2>2, <2>3
<1>. HIDE DEF z
<1>6. s[0] = z /\ \A k \in 1..n : s[k] = DeserializeNode(f, s[k - 1])
  BY <1>1, <1>5
<1>. QED  BY <1>5, <1>6 DEF Reads, z

(* One step of the reading: nothing is missing.                            *)
LEMMA StepDone ==
  ASSUME NEW f, NEW a, NEW c, NEW b
  PROVE  DeserializeNode(f, State(a, c, 0, b)) = State(a, c, 0, b)
<1>1. State(a, c, 0, b).open = 0
  BY DEF State
<1>. QED  BY <1>1 DEF DeserializeNode

(* The header of the next node is not in the file.                         *)
LEMMA StepRefused ==
  ASSUME NEW f, NEW a, NEW c, NEW o, NEW b, o # 0, c <= Len(f), Len(f) - c < 4
  PROVE  DeserializeNode(f, State(a, c, o, b)) = State(a, c, 0, FALSE)
<1>. DEFINE r == State(a, c, o, b)
<1>1. r.nodes = a /\ r.consumed = c /\ r.open = o
  BY DEF State
<1>2. TooShort(f, c)
  BY DEF TooShort, HeaderLen
<1>. HIDE DEF r
<1>3. DeserializeNode(f, r) = State(a, c, 0, FALSE)
  BY <1>1, <1>2, Zenon DEF DeserializeNode, State
<1>. QED  BY <1>3 DEF r

(* A value ran over the end of the file: the missing nodes are made up.    *)
LEMMA StepBehind ==
  ASSUME NEW f \in Seq(Nat), NEW a, NEW c \in Nat, NEW o, NEW b, o # 0, c > Len(f)
  PROVE  \E e : DeserializeNode(f, State(a, c, o, b)) = State(e, c + o * 4, 0, b)
<1>. DEFINE r == State(a, c, o, b)
            e == a \o [i \in 1..o |-> [id |-> 0, rule |-> 0, subs |-> 0, val |-> <<>>]]
<1>1. r.nodes = a /\ r.consumed = c /\ r.open = o /\ r.ok = b
  BY DEF State
<1>2. ~ TooShort(f, c)
  BY DEF TooShort
<1>. HIDE DEF r
<1>3. DeserializeNode(f, r) = State(e, c + o * 4, 0, b)
  BY <1>1, <1>2, Zenon DEF DeserializeNode, State, HeaderLen
<1>. QED  BY <1>3 DEF r

(* The node whose cells are those behind the first c.                      *)
NodeAt(f, c) ==
  [id |-> Cell(f, c + 1), rule |-> Cell(f, c + 2), subs |-> Cell(f, c + 3),
   val |-> [i \in 1..Cell(f, c + 4) |-> Cell(f, c + 4 + i)]]

(* The next node is read, its value possibly over the end of the file.     *)
LEMMA StepReads ==
  ASSUME NEW f \in Seq(Nat), NEW a, NEW c \in Nat, NEW o \in Nat, NEW b,
         o # 0, c + 4 <= Len(f), NEW v, v = Cell(f, c + 4), NEW u, u = Cell(f, c + 3)
  PROVE  /\ v \in Nat /\ u \in Nat
         /\ DeserializeNode(f, State(a, c, o, b))
              = State(Append(a, NodeAt(f, c)), c + 4 + v, o - 1 + u, b)
<1>. DEFINE r == State(a, c, o, b)
            node == NodeAt(f, c)
<1>0. v \in Nat /\ u \in Nat
  <2>1. c + 3 \in 1..Len(f) /\ c + 4 \in 1..Len(f)
    OBVIOUS
  <2>. QED  BY <2>1 DEF Cell
<1>1. r.nodes = a /\ r.consumed = c /\ r.open = o /\ r.ok = b
  BY DEF State
<1>2. ~ TooShort(f, c) /\ ~ (c > Len(f))
  BY DEF TooShort, HeaderLen
<1>3. node.subs = Cell(f, c + 3)
  BY DEF NodeAt
<1>. HIDE DEF r
<1>4. DeserializeNode(f, r) = State(Append(a, node), c + 4 + v, o - 1 + node.subs, b)
  BY <1>1, <1>2, Zenon DEF DeserializeNode, State, HeaderLen, NodeAt
<1>. QED  BY <1>0, <1>3, <1>4 DEF r

(* Where the k-th node of a tree stands.                                   *)
LEMMA PlacesAt ==
  ASSUME NEW t \in Seq(TreeNode), NEW z, NEW off, Places(t, z, off), NEW k \in 1..Len(t)
  PROVE  /\ off[k] \in Nat /\ off[k - 1] \in Nat
         /\ off[k] = off[k - 1] + 4 + Len(t[k].val)
         /\ \A j \in 1..(4 + Len(t[k].val)) : z[off[k - 1] + j] = SerializeNode(t[k])[j]
<1>1. k \in 0..Len(t) /\ k - 1 \in 0..Len(t)
  OBVIOUS
<1>2. off[k] \in Nat /\ off[k - 1] \in Nat
  BY <1>1 DEF Places
<1>. QED  BY <1>2, Zenon DEF Places

(* A file with the first cells of z.                                       *)
PartOf(f, z) ==
  f \in Seq(Nat) /\ Len(f) <= Len(z) /\ \A i \in 1..Len(f) : f[i] = z[i]

LEMMA PartLen ==
  ASSUME NEW f, NEW z, PartOf(f, z)
  PROVE  f \in Seq(Nat) /\ Len(f) \in Nat
BY DEF PartOf

(* The cells of the k-th node of a tree, as far as the file has them.      *)
LEMMA CellsOfNode ==
  ASSUME NEW t \in Seq(TreeNode), NEW z, NEW off, Places(t, z, off),
         NEW f, PartOf(f, z),
         NEW k \in 1..Len(t), NEW j \in 1..(4 + Len(t[k].val)), off[k - 1] + j <= Len(f)
  PROVE  Cell(f, off[k - 1] + j) = SerializeNode(t[k])[j]
<1>1. off[k - 1] \in Nat /\ Len(f) \in Nat
  BY PlacesAt, PartLen
<1>2. t[k] \in TreeNode
  OBVIOUS
<1>3. Len(t[k].val) \in Nat
  BY <1>2, NodeCells
<1>4. z[off[k - 1] + j] = SerializeNode(t[k])[j]
  BY PlacesAt
<1>5. off[k - 1] + j \in 1..Len(f)
  BY <1>1, <1>3
<1>6. f[off[k - 1] + j] = z[off[k - 1] + j]
  BY <1>5 DEF PartOf
<1>. QED  BY <1>1, <1>4, <1>5, <1>6 DEF Cell

(* The state of the reading after the first k nodes of a tree.             *)
At(t, off, k) == State(SubSeq(t, 1, k), off[k], Open(t)[k], TRUE)

(* A state from which no tree is read any more.                            *)
Doomed(f, r) ==
  \E a : \E c, o \in Nat : \E b \in BOOLEAN :
    r = State(a, c, o, b) /\ (c > Len(f) \/ (o = 0 /\ b = FALSE))

(* Nodes whose cells are all there are read one after the other.           *)
LEMMA ReadsNode ==
  ASSUME NEW t \in Seq(TreeNode), NEW z, NEW off, Places(t, z, off),
         NEW f, PartOf(f, z),
         NEW k \in 1..Len(t), Open(t)[k - 1] \in Nat, Open(t)[k - 1] # 0
  PROVE  /\ off[k] <= Len(f) => DeserializeNode(f, At(t, off, k - 1)) = At(t, off, k)
         /\ off[k - 1] <= Len(f) /\ off[k] > Len(f) => Doomed(f, DeserializeNode(f, At(t, off, k - 1)))
<1>. DEFINE c == off[k - 1]
            o == Open(t)[k - 1]
            x == t[k]
            l == Len(x.val)
            a == SubSeq(t, 1, k - 1)
            v == Cell(f, c + 4)
            node == NodeAt(f, c)
            d == DeserializeNode(f, At(t, off, k - 1))
            n == Len(f)
<1>1. /\ x \in TreeNode /\ k - 1 \in 0..Len(t) /\ k \in 0..Len(t)
      /\ n \in Nat /\ c \in Nat /\ off[k] \in Nat /\ o \in Nat /\ o # 0 /\ f \in Seq(Nat)
  BY PlacesAt, PartLen
<1>2. /\ x.id \in Nat /\ x.rule \in Nat /\ x.subs \in Nat /\ x.val \in Seq(Nat) /\ l \in Nat
      /\ x = [id |-> x.id, rule |-> x.rule, subs |-> x.subs, val |-> x.val]
      /\ SerializeNode(x)[1] = x.id /\ SerializeNode(x)[2] = x.rule
      /\ SerializeNode(x)[3] = x.subs /\ SerializeNode(x)[4] = l
      /\ \A i \in 1..l : SerializeNode(x)[4 + i] = x.val[i]
  BY <1>1, NodeCells
<1>3. off[k] = c + 4 + l
  BY PlacesAt
<1>4. \A j \in 1..(4 + l) : c + j <= n => Cell(f, c + j) = SerializeNode(x)[j]
  BY CellsOfNode
<1>5. d = DeserializeNode(f, State(a, c, o, TRUE))
  BY DEF At
<1>6. Open(t)[k] = o - 1 + x.subs
  BY OpenSteps
<1>. HIDE DEF c, o, x, l, a, d
<1>7. /\ c <= n /\ n - c < 4 => d = State(a, c, 0, FALSE)
      /\ c + 4 <= n => d = State(Append(a, node), c + 4 + v, o - 1 + Cell(f, c + 3), TRUE)
  <2>1. ASSUME c <= n, n - c < 4  PROVE d = State(a, c, 0, FALSE)
    BY <1>1, <1>5, <2>1, StepRefused
  <2>2. ASSUME c + 4 <= n
        PROVE  d = State(Append(a, node), c + 4 + v, o - 1 + Cell(f, c + 3), TRUE)
    <3>1. f \in Seq(Nat) /\ c \in Nat /\ o \in Nat /\ o # 0 /\ c + 4 <= Len(f)
      BY <1>1, <2>2
    <3>. DEFINE u == Cell(f, c + 3)
                yes == TRUE
    <3>. HIDE DEF u, v, yes
    <3>2. v = Cell(f, c + 4) /\ u = Cell(f, c + 3)
      BY DEF u, v
    <3>3. DeserializeNode(f, State(a, c, o, yes))
            = State(Append(a, node), c + 4 + v, o - 1 + u, yes)
      BY <3>1, <3>2, StepReads
    <3>. QED  BY <1>5, <3>3 DEF u, yes
  <2>. QED  BY <2>1, <2>2
<1>. HIDE DEF n
<1>8. ASSUME c + 4 <= n
      PROVE  /\ v = l /\ Cell(f, c + 1) = x.id /\ Cell(f, c + 2) = x.rule
             /\ Cell(f, c + 3) = x.subs
  <2>0. c \in Nat /\ n \in Nat /\ l \in Nat
    BY <1>1, <1>2
  <2>1. \A j \in 1..4 : j \in 1..(4 + l) /\ c + j <= n
    BY <1>8, <2>0
  <2>2. \A j \in 1..4 : Cell(f, c + j) = SerializeNode(x)[j]
    BY <1>4, <2>1
  <2>. QED  BY <1>2, <2>2
<1>9. ASSUME off[k] <= n  PROVE d = At(t, off, k)
  <2>0. c \in Nat /\ n \in Nat /\ l \in Nat /\ c + 4 + l <= n
    <3>1. c \in Nat /\ n \in Nat /\ l \in Nat
      BY <1>1, <1>2
    <3>. QED  BY <1>3, <1>9, <3>1
  <2>1. c + 4 <= n
    BY <2>0
  <2>2. \A i \in 1..l : Cell(f, c + 4 + i) = x.val[i]
    <3>. SUFFICES ASSUME NEW i \in 1..l  PROVE Cell(f, c + 4 + i) = x.val[i]
      OBVIOUS
    <3>1. 4 + i \in 1..(4 + l) /\ c + (4 + i) <= n /\ c + (4 + i) = c + 4 + i
      <4>1. c \in Nat /\ n \in Nat /\ l \in Nat /\ c + 4 + l <= n
        BY <1>1, <1>2, <1>3, <1>9
      <4>. QED  BY <4>1
    <3>. QED  BY <1>2, <1>4, <3>1
  <2>3. node = x
    <3>1. [i \in 1..v |-> Cell(f, c + 4 + i)] = x.val
      <4>1. [i \in 1..v |-> Cell(f, c + 4 + i)] = [i \in 1..l |-> x.val[i]]
        BY <1>8, <2>1, <2>2
      <4>2. x.val = [i \in 1..l |-> x.val[i]]
        BY <1>2 DEF l
      <4>. QED  BY <4>1, <4>2
    <3>2. node = [id |-> x.id, rule |-> x.rule, subs |-> x.subs, val |-> x.val]
      BY <1>8, <2>1, <3>1 DEF NodeAt
    <3>. QED  BY <1>2, <3>2
  <2>4. Append(a, x) = SubSeq(t, 1, k)
    BY <1>1 DEF a, x
  <2>. HIDE DEF node, v
  <2>5. d = State(Append(a, x), c + 4 + l, o - 1 + x.subs, TRUE)
    BY <1>7, <1>8, <2>1, <2>3
  <2>. QED  BY <1>3, <1>6, <2>4, <2>5 DEF At
<1>10. ASSUME c <= n, off[k] > n  PROVE Doomed(f, d)
  <2>1. CASE n - c < 4
    BY <1>1, <1>7, <1>10, <2>1 DEF Doomed, n
  <2>2. CASE ~ (n - c < 4)
    <3>1. c + 4 <= n
      BY <1>1, <1>10, <2>2
    <3>. HIDE DEF node, v
    <3>2. d = State(Append(a, node), c + 4 + l, o - 1 + x.subs, TRUE)
      BY <1>7, <1>8, <3>1
    <3>3. c + 4 + l \in Nat /\ o - 1 + x.subs \in Nat /\ c + 4 + l > Len(f)
      <4>1. /\ c \in Nat /\ n \in Nat /\ l \in Nat /\ c + 4 + l > n /\ n = Len(f)
            /\ o \in Nat /\ o # 0 /\ x.subs \in Nat
        BY <1>1, <1>2, <1>3, <1>10 DEF n
      <4>. QED  BY <4>1
    <3>. QED  BY <3>2, <3>3 DEF Doomed
  <2>. QED  BY <2>1, <2>2
<1>. QED  BY <1>9, <1>10 DEF c, n, d

(* Nothing helps a reading that is lost.                                   *)
LEMMA DoomedStays ==
  ASSUME NEW f \in Seq(Nat), NEW r, Doomed(f, r)
  PROVE  Doomed(f, DeserializeNode(f, r))
<1>1. PICK a : \E c, o \in Nat : \E b \in BOOLEAN :
        r = State(a, c, o, b) /\ (c > Len(f) \/ (o = 0 /\ b = FALSE))
  BY DEF Doomed
<1>2. PICK c \in Nat, o \in Nat, b \in BOOLEAN :
        r = State(a, c, o, b) /\ (c > Len(f) \/ (o = 0 /\ b = FALSE))
  BY <1>1
<1>3. CASE o = 0
  <2>1. DeserializeNode(f, r) = r
    BY <1>2, <1>3, StepDone
  <2>. QED  BY <2>1
<1>4. CASE o # 0
  <2>1. c > Len(f) /\ Len(f) \in Nat
    BY <1>2, <1>4
  <2>2. PICK e : DeserializeNode(f, r) = State(e, c + o * 4, 0, b)
    BY <1>2, <1>4, <2>1, StepBehind
  <2>3. c + o * 4 \in Nat /\ c + o * 4 > Len(f) /\ 0 \in Nat
    BY <2>1
  <2>. QED  BY <2>2, <2>3 DEF Doomed
<1>. QED  BY <1>3, <1>4

(* Trees have nodes, and none is missing before the last.                  *)
LEMMA TreeFacts ==
  ASSUME NEW t \in Trees
  PROVE  /\ t \in Seq(TreeNode) /\ Len(t) \in Nat /\ Len(t) # 0
         /\ \A k \in 0..Len(t) : Open(t)[k] \in Nat /\ (Open(t)[k] = 0 <=> k = Len(t))
<1>1. /\ t \in Seq(TreeNode)
      /\ \A k \in 0..Len(t) : Open(t)[k] >= 0 /\ (Open(t)[k] = 0 <=> k = Len(t))
  BY TreesAssumption
<1>2. Len(t) \in Nat
  BY <1>1
<1>3. Open(t)[0] = 1 /\ \A k \in 1..Len(t) : Open(t)[k] = Open(t)[k - 1] - 1 + t[k].subs
  BY <1>1, OpenSteps
<1>4. Len(t) # 0
  <2>1. 0 \in 0..Len(t)
    BY <1>2
  <2>. QED  BY <1>1, <1>3, <2>1
<1>5. \A k \in 1..Len(t) : t[k].subs \in Nat
  <2>1. \A k \in 1..Len(t) : t[k] \in TreeNode
    BY <1>1
  <2>. QED  BY <2>1, NodeCells
<1>. DEFINE P == {k \in Nat : Open(t)[k] \in Int}
<1>6. 0 \in P
  BY <1>3
<1>7. ASSUME NEW k \in 0..(Len(t) - 1), k \in P  PROVE k + 1 \in P
  <2>1. k + 1 \in 1..Len(t) /\ (k + 1) - 1 = k /\ k + 1 \in Nat /\ Open(t)[k] \in Int
    BY <1>2, <1>7
  <2>2. Open(t)[k + 1] = Open(t)[k] - 1 + t[k + 1].subs /\ t[k + 1].subs \in Nat
    BY <1>3, <1>5, <2>1
  <2>3. ASSUME NEW i \in Int, NEW j \in Nat  PROVE i - 1 + j \in Int
    OBVIOUS
  <2>. QED  BY <2>1, <2>2, <2>3
<1>8. \A k \in 0..Len(t) : k \in P
  <2>. HIDE DEF P
  <2>. QED  BY <1>2, <1>6, <1>7, UpTo
<1>9. ASSUME NEW k \in 0..Len(t)  PROVE Open(t)[k] \in Nat
  <2>1. Open(t)[k] \in Int /\ Open(t)[k] >= 0
    BY <1>1, <1>8
  <2>. QED  BY <2>1
<1>. QED  BY <1>1, <1>2, <1>4, <1>9

(* k nodes take at least 4 * k cells.                                      *)
LEMMA PlacesGrow ==
  ASSUME NEW t \in Seq(TreeNode), NEW z, NEW off, Places(t, z, off)
  PROVE  \A k \in 0..Len(t) : off[k] >= 4 * k
<1>. DEFINE P == {k \in Nat : off[k] >= 4 * k}
<1>1. 0 \in P /\ Len(t) \in Nat
  BY DEF Places
<1>2. ASSUME NEW k \in 0..(Len(t) - 1), k \in P  PROVE k + 1 \in P
  <2>1. k + 1 \in 1..Len(t) /\ (k + 1) - 1 = k /\ k \in Nat /\ off[k] >= 4 * k
    BY <1>1, <1>2
  <2>2. /\ off[k + 1] \in Nat /\ off[k] \in Nat
        /\ off[k + 1] = off[k] + 4 + Len(t[k + 1].val)
    BY <2>1, PlacesAt
  <2>3. Len(t[k + 1].val) \in Nat
    <3>1. t[k + 1] \in TreeNode
      BY <2>1
    <3>. QED  BY <3>1, NodeCells
  <2>. QED  BY <2>1, <2>2, <2>3
<1>3. \A k \in 0..Len(t) : k \in P
  <2>. HIDE DEF P
  <2>. QED  BY <1>1, <1>2, UpTo
<1>. QED  BY <1>3

(* The reading of the first cells of a serialised tree goes through its    *)
(* nodes as long as these are complete.                                    *)
LEMMA ReadsNodes ==
  ASSUME NEW t \in Trees, NEW z, NEW off, Places(t, z, off),
         NEW f, PartOf(f, z), NEW s, Reads(f, s)
  PROVE  \A k \in 0..Len(t) : off[k] <= Len(f) => s[k] = At(t, off, k)
<1>. DEFINE m == Len(t)
            n == Len(f)
            P == {k \in Nat : off[k] <= n => s[k] = At(t, off, k)}
<1>1. /\ t \in Seq(TreeNode) /\ m \in Nat
      /\ \A k \in 0..m : Open(t)[k] \in Nat /\ (Open(t)[k] = 0 <=> k = m)
  BY TreeFacts
<1>2. f \in Seq(Nat) /\ n \in Nat
  BY PartLen
<1>3. 0 \in P
  <2>1. off[0] = 0 /\ Open(t)[0] = 1 /\ SubSeq(t, 1, 0) = <<>>
    BY <1>1, OpenSteps DEF Places
  <2>. QED  BY <2>1 DEF At, Reads
<1>4. ASSUME NEW k \in 0..(m - 1), k \in P  PROVE k + 1 \in P
  <2>. SUFFICES ASSUME off[k + 1] <= n  PROVE s[k + 1] = At(t, off, k + 1)
    OBVIOUS
  <2>1. k + 1 \in 1..m /\ (k + 1) - 1 = k /\ k \in Nat /\ k \in 0..m /\ k # m
    BY <1>1
  <2>2. off[k + 1] \in Nat /\ off[k] \in Nat /\ off[k] <= n /\ 4 * (k + 1) <= n
    <3>1. /\ off[k + 1] \in Nat /\ off[k] \in Nat
          /\ off[k + 1] = off[k] + 4 + Len(t[k + 1].val)
      BY <1>1, <2>1, PlacesAt
    <3>2. Len(t[k + 1].val) \in Nat
      <4>1. t[k + 1] \in TreeNode
        BY <1>1, <2>1
      <4>. QED  BY <4>1, NodeCells
    <3>3. off[k + 1] >= 4 * (k + 1)
      <4>1. k + 1 \in 0..m
        BY <2>1
      <4>. QED  BY <1>1, <4>1, PlacesGrow
    <3>4. 4 * (k + 1) \in Nat
      BY <2>1
    <3>. HIDE DEF n
    <3>5. off[k] <= n
      BY <1>2, <3>1, <3>2
    <3>6. 4 * (k + 1) <= n
      BY <1>2, <3>1, <3>3, <3>4
    <3>. QED  BY <3>1, <3>5, <3>6
  <2>3. s[k] = At(t, off, k)
    BY <1>4, <2>2
  <2>4. s[k + 1] = DeserializeNode(f, s[k])
    <3>1. k + 1 \in 1..(n + 1)
      BY <1>2, <2>1, <2>2
    <3>. QED  BY <2>1, <3>1 DEF Reads
  <2>5. Open(t)[k] \in Nat /\ Open(t)[k] # 0
    BY <1>1, <2>1
  <2>6. DeserializeNode(f, At(t, off, k)) = At(t, off, k + 1)
    BY <1>1, <2>1, <2>5, ReadsNode
  <2>. QED  BY <2>3, <2>4, <2>6
<1>5. \A k \in 0..m : k \in P
  <2>. HIDE DEF P
  <2>. QED  BY <1>1, <1>3, <1>4, UpTo
<1>. QED  BY <1>5

(* What tree_serialize() made of a tree, tree_deserialize() turns into     *)
(* that tree again.                                                        *)
LEMMA ReadWhole ==
  ASSUME NEW t \in Trees
  PROVE  Serialize(t) \in Seq(Nat) /\ Serialize(t) # <<>> /\ Deserialize(Serialize(t)) = t
<1>. DEFINE m == Len(t)
            f == Serialize(t)
            n == Len(f)
<1>1. t \in Seq(TreeNode) /\ m \in Nat /\ m # 0 /\ Open(t)[m] = 0
  BY TreeFacts
<1>2. PICK off : Places(t, f, off)
  BY <1>1, SerializePlaces
<1>3. f \in Seq(Nat) /\ off[m] = n /\ n \in Nat
  BY <1>2 DEF Places
<1>4. PartOf(f, f)
  BY <1>3 DEF PartOf
<1>5. PICK s : Reads(f, s) /\ DeserializeNodes(f) = s[n + 1]
  BY <1>3, ReadSteps
<1>. HIDE DEF f
<1>6. n >= 4 * m
  <2>1. m \in 0..m
    BY <1>1
  <2>. QED  BY <1>1, <1>2, <1>3, <2>1, PlacesGrow
<1>7. s[m] = At(t, off, m)
  <2>1. m \in 0..m /\ off[m] <= n
    BY <1>1, <1>3
  <2>. QED  BY <1>2, <1>4, <1>5, <2>1, ReadsNodes
<1>8. SubSeq(t, 1, m) = t
  BY <1>1
<1>9. s[m] = State(t, n, 0, TRUE)
  BY <1>1, <1>3, <1>7, <1>8 DEF At
<1>. HIDE DEF m, n
<1>. DEFINE P == {d \in Nat : s[m + d] = s[m]}
            e == (n + 1) - m
<1>10. e \in Nat /\ m + e = n + 1
  BY <1>1, <1>3, <1>6
<1>11. 0 \in P
  BY <1>1
<1>12. ASSUME NEW d \in 0..(e - 1), d \in P  PROVE d + 1 \in P
  <2>0. d \in Nat /\ s[m + d] = s[m]
    BY <1>12
  <2>. HIDE DEF P
  <2>1. m + (d + 1) \in 1..(n + 1) /\ (m + (d + 1)) - 1 = m + d /\ d + 1 \in Nat
    <3>1. d + 1 <= e
      BY <1>10
    <3>. HIDE DEF e
    <3>. QED  BY <1>1, <1>3, <1>10, <2>0, <3>1
  <2>2. s[m + (d + 1)] = DeserializeNode(f, s[m + d])
    BY <1>5, <2>1 DEF Reads, n
  <2>3. DeserializeNode(f, s[m]) = s[m]
    <3>1. DeserializeNode(f, State(t, n, 0, TRUE)) = State(t, n, 0, TRUE)
      BY StepDone
    <3>. QED  BY <1>9, <3>1, Zenon
  <2>. QED  BY <2>0, <2>1, <2>2, <2>3 DEF P
<1>13. e \in P
  <2>1. e \in 0..e
    BY <1>10
  <2>. HIDE DEF P, e
  <2>. QED  BY <1>10, <1>11, <1>12, <2>1, UpTo
<1>14. DeserializeNodes(f) = State(t, n, 0, TRUE)
  BY <1>5, <1>9, <1>10, <1>13
<1>15. Deserialize(f) = t
  <2>. DEFINE d == DeserializeNodes(f)
  <2>1. d.ok = TRUE /\ d.consumed = n /\ d.nodes = t
    BY <1>14 DEF State
  <2>. HIDE DEF d
  <2>2. Deserialize(f) = IF d.ok /\ d.consumed <= Len(f) THEN d.nodes ELSE NoTree
    BY DEF Deserialize, d
  <2>. QED  BY <1>3, <2>1, <2>2 DEF n
<1>16. f # <<>>
  BY <1>1, <1>3, <1>6 DEF n
<1>. QED  BY <1>3, <1>15, <1>16 DEF f

(* Of a part of it tree_deserialize() makes nothing.                       *)
LEMMA ReadTorn ==
  ASSUME NEW t \in Trees, NEW f, PartOf(f, Serialize(t)), Len(f) # Len(Serialize(t))
  PROVE  Deserialize(f) = NoTree
<1>. DEFINE m == Len(t)
            z == Serialize(t)
            n == Len(f)
<1>1. /\ t \in Seq(TreeNode) /\ m \in Nat /\ m # 0
      /\ \A k \in 0..m : Open(t)[k] \in Nat /\ (Open(t)[k] = 0 <=> k = m)
  BY TreeFacts
<1>2. PICK off : Places(t, z, off)
  BY <1>1, SerializePlaces
<1>3. f \in Seq(Nat) /\ n \in Nat
  BY PartLen
<1>4. off[0] = 0 /\ off[m] > n
  <2>1. off[0] = 0 /\ off[m] = Len(z) /\ z \in Seq(Nat)
    BY <1>2 DEF Places
  <2>2. Len(z) \in Nat
    BY <2>1
  <2>3. n <= Len(z) /\ n # Len(z)
    BY DEF PartOf
  <2>. HIDE DEF z, n, m
  <2>. QED  BY <1>3, <2>1, <2>2, <2>3
<1>5. PICK s : Reads(f, s) /\ DeserializeNodes(f) = s[n + 1]
  BY <1>3, ReadSteps
<1>. DEFINE Torn == {k \in 0..m : off[k] > n}
<1>6. PICK k \in Torn : \A i \in Torn : k <= i
  <2>1. Torn \in SUBSET Nat /\ m \in Torn
    BY <1>1, <1>4
  <2>. HIDE DEF Torn
  <2>. QED  BY <2>1, LeastElement
<1>7. /\ k \in 1..m /\ k - 1 \in 0..m /\ k - 1 # m /\ off[k] > n
      /\ off[k - 1] \in Nat /\ off[k - 1] <= n
  <2>1. k \in 0..m /\ off[k] > n /\ k # 0
    BY <1>3, <1>4, <1>6
  <2>2. k \in 1..m /\ k - 1 \in 0..m /\ k - 1 # m /\ ~ (k <= k - 1)
    BY <1>1, <2>1
  <2>3. off[k - 1] \in Nat
    BY <1>1, <1>2, <2>2, PlacesAt
  <2>4. ~ (off[k - 1] > n)
    BY <1>6, <2>2
  <2>. QED  BY <1>3, <2>1, <2>2, <2>3, <2>4
<1>8. s[k - 1] = At(t, off, k - 1)
  BY <1>2, <1>5, <1>7, ReadsNodes
<1>9. 4 * (k - 1) <= n
  <2>1. off[k - 1] >= 4 * (k - 1)
    BY <1>1, <1>2, <1>7, PlacesGrow
  <2>. QED  BY <1>1, <1>3, <1>7, <2>1
<1>10. k \in 1..(n + 1)
  BY <1>1, <1>3, <1>7, <1>9
<1>11. Doomed(f, s[k])
  <2>1. s[k] = DeserializeNode(f, s[k - 1])
    BY <1>5, <1>10 DEF Reads
  <2>2. Open(t)[k - 1] \in Nat /\ Open(t)[k - 1] # 0
    BY <1>1, <1>7
  <2>. QED  BY <1>1, <1>2, <1>7, <1>8, <2>1, <2>2, ReadsNode
<1>. HIDE DEF m, n
<1>. DEFINE P == {d \in Nat : Doomed(f, s[k + d])}
            e == (n + 1) - k
<1>12. e \in Nat /\ k + e = n + 1
  BY <1>3, <1>10
<1>13. 0 \in P
  <2>1. k + 0 = k
    BY <1>10
  <2>. QED  BY <1>11, <2>1
<1>14. ASSUME NEW d \in 0..(e - 1), d \in P  PROVE d + 1 \in P
  <2>1. /\ k + (d + 1) \in 1..(n + 1) /\ (k + (d + 1)) - 1 = k + d /\ d + 1 \in Nat
        /\ Doomed(f, s[k + d])
    BY <1>3, <1>10, <1>12, <1>14
  <2>2. s[k + (d + 1)] = DeserializeNode(f, s[k + d])
    BY <1>5, <2>1 DEF Reads, n
  <2>. QED  BY <1>3, <2>1, <2>2, DoomedStays
<1>15. e \in P
  <2>1. e \in 0..e
    BY <1>12
  <2>. HIDE DEF P, e
  <2>. QED  BY <1>12, <1>13, <1>14, <2>1, UpTo
<1>. DEFINE d == DeserializeNodes(f)
<1>16. Doomed(f, d)
  BY <1>5, <1>12, <1>15
<1>. HIDE DEF d
<1>17. ~ (d.ok /\ d.consumed <= Len(f))
  <2>1. PICK a : \E c, o \in Nat : \E b \in BOOLEAN :
          d = State(a, c, o, b) /\ (c > Len(f) \/ (o = 0 /\ b = FALSE))
    BY <1>16 DEF Doomed
  <2>2. PICK c \in Nat, o \in Nat, b \in BOOLEAN :
          d = State(a, c, o, b) /\ (c > Len(f) \/ (o = 0 /\ b = FALSE))
    BY <2>1
  <2>3. d.consumed = c /\ d.ok = b
    BY <2>2 DEF State
  <2>. QED  BY <1>3, <2>2, <2>3 DEF n
<1>. QED  BY <1>17 DEF Deserialize, d

-----------------------------------------------------------------------------
(* write() to the emptied file leaves what it wrote.                       *)
LEMMA OverwriteEmpty ==
  ASSUME NEW x \in Seq(Nat)
  PROVE  Overwrite(<<>>, x) = x
<1>1. SubSeq(<<>>, Len(x) + 1, Len(<<>>)) = <<>>
  OBVIOUS
<1>2. x \o <<>> = x
  OBVIOUS
<1>. QED  BY <1>1, <1>2 DEF Overwrite

(* What a write that does not end leaves in the file is refused.           *)
LEMMA TornWrite ==
  ASSUME NEW t \in Trees, NEW n \in 0..(Len(Serialize(t)) - 1)
  PROVE  LET f == Overwrite(<<>>, SubSeq(Serialize(t), 1, n)) IN
         f \in Seq(Nat) /\ f # NoTree /\ Deserialize(f) = NoTree
<1>. DEFINE z == Serialize(t)
            x == SubSeq(z, 1, n)
<1>1. z \in Seq(Nat)
  BY ReadWhole
<1>2. Len(z) \in Nat
  BY <1>1
<1>3. n \in Nat /\ n <= Len(z) /\ n # Len(z)
  BY <1>2
<1>. HIDE DEF z
<1>4. x \in Seq(Nat) /\ Len(x) = n /\ \A i \in 1..n : x[i] = z[i]
  BY <1>1, <1>2, <1>3
<1>. HIDE DEF x
<1>5. PartOf(x, z)
  BY <1>3, <1>4 DEF PartOf
<1>6. Deserialize(x) = NoTree
  BY <1>3, <1>4, <1>5, ReadTorn DEF z
<1>7. x # NoTree
  BY <1>4, TreesAssumption
<1>. QED  BY <1>4, <1>6, <1>7, OverwriteEmpty DEF x, z

(* The inductive invariant: the file is empty while it is written, and     *)
(* what it holds otherwise is a complete tree or refused.                  *)
FileInv ==
  /\ pc \in {"idle", "write"}
  /\ pc = "write" => tree \in Trees /\ file = <<>> /\ written = NoTree
  /\ written \in Trees \cup {NoTree}
  /\ file = NoTree \/ file \in Seq(Nat)
  /\ TornFileRefused

DescriptorInv ==
  /\ pc \in {"idle", "write"} /\ fds \in Nat /\ failed \in Nat
  /\ DescriptorsLostByErrors

LEMMA FileInvInit == Init => FileInv
BY DEF Init, FileInv, TornFileRefused

(* A write that ends early, for an error or with the process.              *)
LEMMA FileInvTorn ==
  ASSUME FileInv, pc = "write", pc' = "idle", written' = written,
         \E n \in 0..(Len(Serialize(tree)) - 1) :
           file' = Overwrite(file, SubSeq(Serialize(tree), 1, n))
  PROVE  FileInv'
<1>1. tree \in Trees /\ file = <<>> /\ written = NoTree
  BY DEF FileInv
<1>2. PICK n \in 0..(Len(Serialize(tree)) - 1) :
        file' = Overwrite(<<>>, SubSeq(Serialize(tree), 1, n))
  BY <1>1
<1>3. file' \in Seq(Nat) /\ file' # NoTree /\ Deserialize(file') = NoTree
  BY <1>1, <1>2, TornWrite
<1>4. TornFileRefused'
  BY <1>1, <1>3 DEF TornFileRefused
<1>. QED  BY <1>1, <1>3, <1>4 DEF FileInv

LEMMA FileInvNext ==
  ASSUME FileInv, [Next]_vars
  PROVE  FileInv'
<1>1. CASE WriteOpen
  <2>1. /\ tree' \in Trees /\ file' = <<>> /\ written' = NoTree /\ pc' = "write"
    BY <1>1 DEF WriteOpen, OpenTrunc
  <2>2. <<>> # NoTree /\ Deserialize(<<>>) = NoTree
    <3>. DEFINE z == Serialize(tree')
    <3>1. z \in Seq(Nat) /\ z # <<>>
      BY <2>1, ReadWhole
    <3>2. PartOf(<<>>, z)
      <4>. HIDE DEF z
      <4>1. Len(z) \in Nat
        BY <3>1
      <4>. QED  BY <4>1 DEF PartOf
    <3>3. Len(<<>>) # Len(z)
      <4>. HIDE DEF z
      <4>. QED  BY <3>1
    <3>4. <<>> \in Seq(Nat)
      OBVIOUS
    <3>. QED  BY <2>1, <3>2, <3>3, <3>4, ReadTorn, TreesAssumption
  <2>3. TornFileRefused'
    BY <2>1, <2>2 DEF TornFileRefused
  <2>. QED  BY <2>1, <2>3 DEF FileInv
<1>2. CASE WriteAll
  <2>1. /\ pc = "write" /\ pc' = "idle" /\ written' = tree
        /\ file' = Overwrite(file, Serialize(tree))
    BY <1>2 DEF WriteAll
  <2>2. tree \in Trees /\ file = <<>>
    BY <2>1 DEF FileInv
  <2>3. Serialize(tree) \in Seq(Nat) /\ Deserialize(Serialize(tree)) = tree
    BY <2>2, ReadWhole
  <2>4. file' = Serialize(tree)
    BY <2>1, <2>2, <2>3, OverwriteEmpty
  <2>5. file' # NoTree /\ file' \in Seq(Nat)
    BY <2>3, <2>4, TreesAssumption
  <2>6. TornFileRefused'
    BY <2>1, <2>3, <2>4, <2>5 DEF TornFileRefused
  <2>. QED  BY <2>1, <2>2, <2>5, <2>6 DEF FileInv
<1>3. CASE WriteShort
  BY <1>3, FileInvTorn DEF WriteShort
<1>4. CASE Crash
  <2>1. CASE pc = "write"
    BY <1>4, <2>1, FileInvTorn DEF Crash
  <2>2. CASE pc # "write"
    <3>1. UNCHANGED <<file, written>> /\ pc' = "idle"
      BY <1>4, <2>2 DEF Crash
    <3>. QED  BY <3>1 DEF FileInv, TornFileRefused
  <2>. QED  BY <2>1, <2>2
<1>5. CASE WriteOpenFails \/ ReadOpenFails \/ ReadMapFails \/ Read \/ UNCHANGED vars
  <2>1. UNCHANGED <<file, pc, tree, written>>
    BY <1>5 DEF WriteOpenFails, ReadOpenFails, ReadMapFails, Read, vars
  <2>. QED  BY <2>1 DEF FileInv, TornFileRefused
<1>. QED  BY <1>1, <1>2, <1>3, <1>4, <1>5 DEF Next

LEMMA DescriptorInvInit == Init => DescriptorInv
BY DEF Init, DescriptorInv, DescriptorsLostByErrors

LEMMA DescriptorInvNext ==
  ASSUME DescriptorInv, [Next]_vars
  PROVE  DescriptorInv'
<1>. USE DEF DescriptorInv, DescriptorsLostByErrors
<1>1. CASE WriteOpen
  BY <1>1 DEF WriteOpen
<1>2. CASE WriteAll
  BY <1>2 DEF WriteAll
<1>3. CASE WriteShort
  BY <1>3 DEF WriteShort
<1>4. CASE ReadMapFails
  BY <1>4 DEF ReadMapFails
<1>5. CASE Crash
  BY <1>5 DEF Crash
<1>6. CASE WriteOpenFails \/ ReadOpenFails \/ Read \/ UNCHANGED vars
  BY <1>6 DEF WriteOpenFails, ReadOpenFails, Read, vars
<1>. QED  BY <1>1, <1>2, <1>3, <1>4, <1>5, <1>6 DEF Next

(* For all trees and any number of crashes, what read_tree_from_file()     *)
(* would make of the file is the tree of the last complete                 *)
(* write_tree_to_file() or nothing, wherever a write was cut off.          *)
THEOREM TornFilesAreRefused == Spec => []TornFileRefused
<1>1. FileInv => TornFileRefused
  BY DEF FileInv
<1>. QED  BY <1>1, FileInvInit, FileInvNext, PTL DEF Spec

(* Only error returns of read_tree_from_file() and write_tree_to_file()    *)
(* leave a descriptor open.                                                *)
THEOREM OnlyErrorsLoseDescriptors == Spec => []DescriptorsLostByErrors
<1>1. DescriptorInv => DescriptorsLostByErrors
  BY DEF DescriptorInv
<1>. QED  BY <1>1, DescriptorInvInit, DescriptorInvNext, PTL DEF Spec

(* A step of the file is a step of the register.                           *)
LEMMA RegisterStep ==
  ASSUME FileInv, [Next]_vars
  PROVE  [Register!Next]_(Register!vars)
<1>. USE DEF Register!Next, Register!vars
<1>1. CASE WriteOpen
  BY <1>1 DEF WriteOpen, Register!Lose
<1>2. CASE WriteAll
  <2>1. tree \in Trees
    BY <1>2 DEF WriteAll, FileInv
  <2>. QED  BY <1>2, <2>1 DEF WriteAll, Register!Put
<1>3. CASE ReadOpenFails \/ ReadMapFails
  BY <1>3 DEF ReadOpenFails, ReadMapFails, Register!Get
<1>4. CASE Read
  <2>1. result' = written
    BY <1>4 DEF Read, FileInv, TornFileRefused
  <2>. QED  BY <1>4, <2>1 DEF Read, Register!Get
<1>5. CASE WriteShort \/ Crash \/ WriteOpenFails \/ UNCHANGED vars
  BY <1>5 DEF WriteShort, Crash, WriteOpenFails, vars
<1>. QED  BY <1>1, <1>2, <1>3, <1>4, <1>5 DEF Next

(* The tree file implements the register that the rest of the mutator      *)
(* relies on: a read gives back the tree of the last complete write, or    *)
(* nothing.                                                                *)
THEOREM FileIsRegister == Spec => ImplementsRegister
<1>1. Init => Register!Init
  BY DEF Init, Register!Init
<1>. QED
  BY <1>1, FileInvInit, FileInvNext, RegisterStep, PTL DEF Spec, ImplementsRegister, Register!Spec

-----------------------------------------------------------------------------
(* The linked list: the inductive invariant *)

(* An address or NULL.                                                     *)
Pointer == Addr \cup {NULL}

(* A list_node_t.                                                          *)
ListNode == [data : Data, next : Pointer, prev : Pointer]

(* w lists the nodes of heap h, each once, from hd to tl; next leads along *)
(* w and prev back                                                         *)
IsChain(w, h, hd, tl, n) ==
    /\ w \in [1..n -> DOMAIN h]
    /\ \A i, j \in 1..n : w[i] = w[j] => i = j
    /\ \A p \in DOMAIN h : \E i \in 1..n : w[i] = p
    /\ hd = IF n = 0 THEN NULL ELSE w[1]
    /\ tl = IF n = 0 THEN NULL ELSE w[n]
    /\ \A i \in 1..n :
        /\ h[w[i]].next = IF i = n THEN NULL ELSE w[i + 1]
        /\ h[w[i]].prev = IF i = 1 THEN NULL ELSE w[i - 1]

(* The live nodes are a chain from head to tail of size nodes.             *)
ListInv ==
    /\ size \in Nat
    /\ DOMAIN heap \subseteq Addr
    /\ heap \in [DOMAIN heap -> ListNode]
    /\ \E w : IsChain(w, heap, head, tail, size)

(* Walk, as a function of the list *)
WalkOf(h, hd, n) ==
    LET at[i \in 1..n] ==
            IF i = 1 THEN hd
            ELSE IF at[i - 1] \in DOMAIN h THEN h[at[i - 1]].next ELSE NULL
    IN  at

(* A walk along next meets the nodes of the chain in their order. *)
LEMMA WalkIsChain ==
    ASSUME NEW h, NEW hd, NEW tl, NEW n \in Nat, NEW w,
           IsChain(w, h, hd, tl, n)
    PROVE  WalkOf(h, hd, n) = w
<1> DEFINE Eq(f) == f = [i \in 1..n |->
                          IF i = 1 THEN hd
                          ELSE IF f[i - 1] \in DOMAIN h THEN h[f[i - 1]].next ELSE NULL]
<1>1. Eq(w)
  <2>1. w = [i \in 1..n |-> w[i]]
    BY DEF IsChain
  <2>2. ASSUME NEW i \in 1..n
        PROVE  w[i] = IF i = 1 THEN hd
                      ELSE IF w[i - 1] \in DOMAIN h THEN h[w[i - 1]].next ELSE NULL
    <3>1. CASE i = 1
      BY <3>1 DEF IsChain
    <3>2. CASE i # 1
      <4>1. i - 1 \in 1..n /\ i - 1 # n /\ (i - 1) + 1 = i
        BY <3>2
      <4>2. w[i - 1] \in DOMAIN h /\ h[w[i - 1]].next = w[i]
        BY <4>1 DEF IsChain
      <4> QED
        BY <3>2, <4>2
    <3> QED
      BY <3>1, <3>2
  <2> QED
    BY <2>1, <2>2
<1>2. ASSUME NEW f, Eq(f)
      PROVE  f = w
  <2> DEFINE Diff == {i \in 1..n : f[i] # w[i]}
  <2>1. Diff \in SUBSET Nat
    OBVIOUS
  <2>2. CASE Diff # {}
    <3>1. PICK i \in Diff : \A j \in Diff : i <= j
      <4> HIDE DEF Diff
      <4> QED
        BY <2>1, <2>2, LeastElement
    <3>2. i = 1 \/ (i - 1 \in 1..n /\ f[i - 1] = w[i - 1])
      BY <3>1
    <3>3. f[i] = IF i = 1 THEN hd
                 ELSE IF f[i - 1] \in DOMAIN h THEN h[f[i - 1]].next ELSE NULL
      BY <1>2
    <3>4. w[i] = IF i = 1 THEN hd
                 ELSE IF w[i - 1] \in DOMAIN h THEN h[w[i - 1]].next ELSE NULL
      BY <1>1
    <3> QED
      BY <3>1, <3>2, <3>3, <3>4
  <2>3. CASE Diff = {}
    <3>1. \A i \in 1..n : f[i] = w[i]
      BY <2>3
    <3>2. f = [i \in 1..n |-> f[i]] /\ w = [i \in 1..n |-> w[i]]
      BY <1>2, <1>1
    <3> QED
      BY <3>1, <3>2
  <2> QED
    BY <2>2, <2>3
<1> HIDE DEF Eq
<1>3. (CHOOSE f : Eq(f)) = w
  BY <1>1, <1>2
<1> QED
  BY <1>3 DEF WalkOf, Eq

(* Walk in a state that the invariant describes, and in the next one. *)
LEMMA WalkHere ==
    ASSUME size \in Nat, NEW w, IsChain(w, heap, head, tail, size)
    PROVE  Walk = w
<1>1. Walk = WalkOf(heap, head, size)
  BY Zenon DEF Walk, WalkOf, NextOf
<1> QED
  BY <1>1, WalkIsChain

(* And after a step.                                                       *)
LEMMA WalkNext ==
    ASSUME size' \in Nat, NEW w, IsChain(w, heap', head', tail', size')
    PROVE  Walk' = w
<1>1. Walk' = WalkOf(heap', head', size')
  BY Zenon DEF Walk, WalkOf, NextOf
<1>2. WalkOf(heap', head', size') = w
  BY WalkIsChain
<1> QED
  BY <1>1, <1>2

-----------------------------------------------------------------------------
(* The contents of the list *)

(* The data of the nodes, from head to tail.                               *)
Contents == [i \in 1..size |-> heap[Walk[i]].data]

(* A function on 1..n is a sequence of length n. *)
LEMMA FunctionIsSeq ==
    ASSUME NEW S, NEW n \in Nat, NEW f \in [1..n -> S]
    PROVE  f \in Seq(S) /\ Len(f) = n
OBVIOUS

(* A sequence is a function on its places.                                 *)
LEMMA SeqIsFunction ==
    ASSUME NEW S, NEW s \in Seq(S)
    PROVE  s = [i \in 1..Len(s) |-> s[i]]
BY LenProperties

(* The contents, along the chain of the nodes.                             *)
LEMMA ContentsHere ==
    ASSUME ListInv, NEW w, IsChain(w, heap, head, tail, size)
    PROVE  /\ Contents = [i \in 1..size |-> heap[w[i]].data]
           /\ Contents \in Seq(Data) /\ Len(Contents) = size
<1>1. Walk = w /\ size \in Nat
  BY WalkHere DEF ListInv
<1>2. Contents = [i \in 1..size |-> heap[w[i]].data]
  BY <1>1 DEF Contents
<1>3. ASSUME NEW i \in 1..size
      PROVE  heap[w[i]].data \in Data
  BY DEF ListInv, IsChain, ListNode
<1>4. Contents \in [1..size -> Data]
  BY <1>2, <1>3
<1> QED
  BY <1>1, <1>2, <1>4, FunctionIsSeq

(* The chain v of the next state and its data d give the next contents. *)
LEMMA ContentsNext ==
    ASSUME size' \in Nat, NEW v, IsChain(v, heap', head', tail', size')
    PROVE  Contents' = [i \in 1..size' |-> heap'[v[i]].data]
<1>1. Walk' = v
  BY WalkNext
<1> QED
  BY <1>1 DEF Contents

(* What the invariant says of the ends and the nodes of the list. *)
LEMMA ChainFacts ==
    ASSUME ListInv, NEW w, IsChain(w, heap, head, tail, size)
    PROVE  /\ size \in Nat
           /\ size # 0 => /\ head = w[1] /\ head \in DOMAIN heap
                          /\ tail = w[size] /\ tail \in DOMAIN heap
           /\ size = 0 => head = NULL /\ tail = NULL /\ DOMAIN heap = {}
           /\ NULL \notin DOMAIN heap
           /\ head \in Pointer /\ tail \in Pointer
           /\ \A q \in DOMAIN heap : q \in Addr /\ heap[q] \in ListNode
           /\ \A i \in 1..size : /\ w[i] \in DOMAIN heap
                                 /\ Contents[i] = heap[w[i]].data
<1>1. size \in Nat /\ DOMAIN heap \subseteq Addr /\ heap \in [DOMAIN heap -> ListNode]
  BY DEF ListInv
<1>2. \A i \in 1..size : w[i] \in DOMAIN heap
  BY DEF IsChain
<1>3. size # 0 => 1 \in 1..size /\ size \in 1..size
  BY <1>1
<1>4. size # 0 => head = w[1] /\ tail = w[size]
  BY DEF IsChain
<1>5. size = 0 => head = NULL /\ tail = NULL /\ DOMAIN heap = {}
  <2>1. size = 0 => 1..size = {}
    OBVIOUS
  <2>2. \A p \in DOMAIN heap : \E i \in 1..size : w[i] = p
    BY DEF IsChain
  <2>3. size = 0 => head = NULL /\ tail = NULL
    BY DEF IsChain
  <2> QED
    BY <2>1, <2>2, <2>3
<1>6. \A i \in 1..size : Contents[i] = heap[w[i]].data
  BY ContentsHere
<1>7. head \in Pointer /\ tail \in Pointer
  BY <1>1, <1>2, <1>3, <1>4, <1>5 DEF Pointer
<1> QED
  BY <1>1, <1>2, <1>3, <1>4, <1>5, <1>6, <1>7, AddrAssumption

-----------------------------------------------------------------------------
(* The operations *)

(* list_insert() puts a node before the first.                             *)
LEMMA InsertStep ==
    ASSUME ListInv, NEW d \in Data, list_insert(d)
    PROVE  ListInv' /\ Contents' = <<d>> \o Contents
<1>1. PICK w : IsChain(w, heap, head, tail, size)
  BY DEF ListInv
<1>2. PICK p \in Free :
        /\ heap' = BackLinked(With(p, [data |-> d, next |-> head, prev |-> NULL]), p)
        /\ head' = p
        /\ tail' = IF tail = NULL THEN p ELSE tail
        /\ size' = size + 1
  BY DEF list_insert
<1> DEFINE v == [i \in 1..(size + 1) |-> IF i = 1 THEN p ELSE w[i - 1]]
<1>3. size \in Nat /\ p \in Addr /\ p \notin DOMAIN heap /\ p # NULL
  BY <1>2, AddrAssumption DEF ListInv, Free
<1>4. tail = NULL <=> size = 0
  BY <1>1, AddrAssumption DEF IsChain, ListInv
<1>5. /\ DOMAIN heap' = DOMAIN heap \cup {p}
      /\ heap'[p] = [data |-> d, next |-> head, prev |-> NULL]
      /\ \A q \in DOMAIN heap :
            heap'[q] = IF size # 0 /\ q = head THEN [heap[q] EXCEPT !.prev = p] ELSE heap[q]
  <2>1. size # 0 => head \in DOMAIN heap
    BY <1>1, <1>3 DEF IsChain
  <2> QED
    BY <1>2, <1>3, <1>4, <2>1 DEF BackLinked, With
<1>6. \A q \in DOMAIN heap : heap[q] \in ListNode
  BY DEF ListInv
<1>7. head \in Pointer
  BY <1>1, ChainFacts
<1>8. DOMAIN heap' \subseteq Addr /\ heap' \in [DOMAIN heap' -> ListNode]
  <2>1. \A q \in DOMAIN heap' : heap'[q] \in ListNode
    BY <1>3, <1>5, <1>6, <1>7 DEF ListNode, Pointer
  <2>2. heap' = [q \in DOMAIN heap' |-> heap'[q]]
    BY <1>2, <1>3 DEF BackLinked, With
  <2> QED
    BY <1>3, <1>5, <2>1, <2>2 DEF ListInv
<1>9. IsChain(v, heap', head', tail', size')
  <2>1. v \in [1..(size + 1) -> DOMAIN heap']
    BY <1>1, <1>3, <1>5 DEF IsChain
  <2>2. ASSUME NEW i \in 1..(size + 1), NEW j \in 1..(size + 1), v[i] = v[j]
        PROVE  i = j
    BY <1>1, <1>3, <2>2 DEF IsChain
  <2>3. ASSUME NEW q \in DOMAIN heap'
        PROVE  \E i \in 1..(size + 1) : v[i] = q
    <3>1. CASE q = p
      BY <1>3, <3>1
    <3>2. CASE q \in DOMAIN heap
      <4>1. PICK i \in 1..size : w[i] = q
        BY <1>1, <3>2 DEF IsChain
      <4>2. i + 1 \in 1..(size + 1) /\ v[i + 1] = q
        BY <1>3, <4>1
      <4> QED
        BY <4>2
    <3> QED
      BY <1>5, <3>1, <3>2
  <2>4. head' = v[1] /\ tail' = v[size + 1]
    BY <1>1, <1>2, <1>3, <1>4 DEF IsChain
  <2>5. ASSUME NEW i \in 1..(size + 1)
        PROVE  /\ heap'[v[i]].next = IF i = size + 1 THEN NULL ELSE v[i + 1]
               /\ heap'[v[i]].prev = IF i = 1 THEN NULL ELSE v[i - 1]
    <3>1. CASE i = 1
      BY <1>1, <1>3, <1>5, <3>1 DEF IsChain
    <3>2. CASE i # 1
      <4> DEFINE k == i - 1
      <4>1. k \in 1..size /\ v[i] = w[k] /\ k # 0 /\ size # 0
        BY <1>3, <3>2
      <4>2. w[k] \in DOMAIN heap /\ heap[w[k]] \in ListNode
        BY <1>1, <1>6, <4>1 DEF IsChain
      <4>3. /\ heap[w[k]].next = IF k = size THEN NULL ELSE w[k + 1]
            /\ heap[w[k]].prev = IF k = 1 THEN NULL ELSE w[k - 1]
            /\ head = w[1] /\ (w[k] = head <=> k = 1)
        BY <1>1, <1>3, <4>1 DEF IsChain
      <4>4. /\ heap'[w[k]].next = heap[w[k]].next
            /\ heap'[w[k]].prev = IF k = 1 THEN p ELSE heap[w[k]].prev
        BY <1>5, <4>1, <4>2, <4>3 DEF ListNode
      <4>5. /\ i = size + 1 <=> k = size
            /\ k # size => v[i + 1] = w[k + 1]
            /\ v[i - 1] = IF k = 1 THEN p ELSE w[k - 1]
        BY <1>3, <4>1
      <4> QED
        BY <3>2, <4>1, <4>3, <4>4, <4>5
    <3> QED
      BY <3>1, <3>2
  <2> HIDE DEF v
  <2> QED
    BY <1>2, <1>3, <2>1, <2>2, <2>3, <2>4, <2>5 DEF IsChain
<1>10. ListInv'
  BY <1>2, <1>3, <1>8, <1>9 DEF ListInv
<1>11. Contents' = [i \in 1..(size + 1) |-> heap'[v[i]].data]
  <2> HIDE DEF v
  <2> QED
    BY <1>2, <1>3, <1>9, ContentsNext
<1>12. ASSUME NEW i \in 1..(size + 1)
       PROVE  heap'[v[i]].data = (<<d>> \o Contents)[i]
  <2>1. Contents \in Seq(Data) /\ Len(Contents) = size
    BY <1>1, ContentsHere
  <2>2. CASE i = 1
    BY <1>5, <2>1, <2>2
  <2>3. CASE i # 1
    <3>1. i - 1 \in 1..size /\ v[i] = w[i - 1]
      BY <1>3, <2>3
    <3>2. w[i - 1] \in DOMAIN heap /\ Contents[i - 1] = heap[w[i - 1]].data
      BY <1>1, <3>1, ChainFacts
    <3>3. heap'[w[i - 1]].data = heap[w[i - 1]].data
      BY <1>5, <1>6, <3>2 DEF ListNode
    <3>4. (<<d>> \o Contents)[i] = Contents[i - 1]
      BY <1>3, <2>1, <2>3, <3>1
    <3> QED
      BY <3>1, <3>2, <3>3, <3>4
  <2> QED
    BY <2>2, <2>3
<1>13. <<d>> \o Contents \in Seq(Data) /\ Len(<<d>> \o Contents) = size + 1
  BY <1>1, <1>3, ContentsHere
<1> QED
  BY <1>10, <1>11, <1>12, <1>13

(* list_append() puts a node after the last.                               *)
LEMMA AppendStep ==
    ASSUME ListInv, NEW d \in Data, list_append(d)
    PROVE  ListInv' /\ Contents' = Append(Contents, d)
<1>1. PICK w : IsChain(w, heap, head, tail, size)
  BY DEF ListInv
<1>2. PICK p \in Free :
        /\ heap' = LET h == With(p, [data |-> d, next |-> NULL, prev |-> tail])
                   IN  IF head = NULL THEN h ELSE [h EXCEPT ![tail].next = p]
        /\ head' = IF head = NULL THEN p ELSE head
        /\ tail' = p
        /\ size' = size + 1
  BY DEF list_append
<1> DEFINE v == [i \in 1..(size + 1) |-> IF i = size + 1 THEN p ELSE w[i]]
<1>3. size \in Nat /\ p \in Addr /\ p \notin DOMAIN heap /\ p # NULL
  BY <1>2, AddrAssumption DEF ListInv, Free
<1>4. head = NULL <=> size = 0
  BY <1>1, ChainFacts
<1>5. /\ DOMAIN heap' = DOMAIN heap \cup {p}
      /\ heap'[p] = [data |-> d, next |-> NULL, prev |-> tail]
      /\ \A q \in DOMAIN heap :
            heap'[q] = IF size # 0 /\ q = tail THEN [heap[q] EXCEPT !.next = p] ELSE heap[q]
  <2>1. size # 0 => tail \in DOMAIN heap
    BY <1>1, ChainFacts
  <2> QED
    BY <1>2, <1>3, <1>4, <2>1 DEF With
<1>6. /\ \A q \in DOMAIN heap : heap[q] \in ListNode
      /\ tail \in Pointer
  BY <1>1, ChainFacts
<1>7. DOMAIN heap' \subseteq Addr /\ heap' \in [DOMAIN heap' -> ListNode]
  <2>1. \A q \in DOMAIN heap' : heap'[q] \in ListNode
    BY <1>3, <1>5, <1>6 DEF ListNode, Pointer
  <2>2. heap' = [q \in DOMAIN heap' |-> heap'[q]]
    BY <1>2, <1>3 DEF With
  <2> QED
    BY <1>3, <1>5, <2>1, <2>2 DEF ListInv
<1>8. IsChain(v, heap', head', tail', size')
  <2>1. v \in [1..(size + 1) -> DOMAIN heap']
    BY <1>1, <1>3, <1>5 DEF IsChain
  <2>2. ASSUME NEW i \in 1..(size + 1), NEW j \in 1..(size + 1), v[i] = v[j]
        PROVE  i = j
    BY <1>1, <1>3, <2>2 DEF IsChain
  <2>3. ASSUME NEW q \in DOMAIN heap'
        PROVE  \E i \in 1..(size + 1) : v[i] = q
    <3>1. CASE q = p
      BY <1>3, <3>1
    <3>2. CASE q \in DOMAIN heap
      <4>1. PICK i \in 1..size : w[i] = q
        BY <1>1, <3>2 DEF IsChain
      <4>2. i \in 1..(size + 1) /\ v[i] = q
        BY <1>3, <4>1
      <4> QED
        BY <4>2
    <3> QED
      BY <1>5, <3>1, <3>2
  <2>4. head' = v[1] /\ tail' = v[size + 1]
    BY <1>1, <1>2, <1>3, <1>4, ChainFacts
  <2>5. ASSUME NEW i \in 1..(size + 1)
        PROVE  /\ heap'[v[i]].next = IF i = size + 1 THEN NULL ELSE v[i + 1]
               /\ heap'[v[i]].prev = IF i = 1 THEN NULL ELSE v[i - 1]
    <3>1. CASE i = size + 1
      <4>1. v[i] = p /\ i - 1 = size /\ (i = 1 <=> size = 0)
        BY <1>3, <3>1
      <4>2. size # 0 => v[i - 1] = w[size]
        BY <1>3, <4>1
      <4>3. tail = IF size = 0 THEN NULL ELSE w[size]
        BY <1>1, ChainFacts
      <4> QED
        BY <1>5, <3>1, <4>1, <4>2, <4>3
    <3>2. CASE i # size + 1
      <4>1. i \in 1..size /\ v[i] = w[i] /\ size # 0
        BY <1>3, <3>2
      <4>2. w[i] \in DOMAIN heap /\ heap[w[i]] \in ListNode
        BY <1>1, <1>6, <4>1 DEF IsChain
      <4>3. /\ heap[w[i]].next = IF i = size THEN NULL ELSE w[i + 1]
            /\ heap[w[i]].prev = IF i = 1 THEN NULL ELSE w[i - 1]
            /\ tail = w[size] /\ (w[i] = tail <=> i = size)
        BY <1>1, <1>3, <4>1 DEF IsChain
      <4>4. /\ heap'[w[i]].next = IF i = size THEN p ELSE heap[w[i]].next
            /\ heap'[w[i]].prev = heap[w[i]].prev
        BY <1>5, <4>1, <4>2, <4>3 DEF ListNode
      <4>5. /\ v[i + 1] = IF i = size THEN p ELSE w[i + 1]
            /\ i # 1 => v[i - 1] = w[i - 1]
        BY <1>3, <4>1
      <4> QED
        BY <3>2, <4>1, <4>3, <4>4, <4>5
    <3> QED
      BY <3>1, <3>2
  <2> HIDE DEF v
  <2> QED
    BY <1>2, <1>3, <2>1, <2>2, <2>3, <2>4, <2>5 DEF IsChain
<1>9. ListInv'
  BY <1>2, <1>3, <1>7, <1>8 DEF ListInv
<1>10. Contents' = [i \in 1..(size + 1) |-> heap'[v[i]].data]
  <2> HIDE DEF v
  <2> QED
    BY <1>2, <1>3, <1>8, ContentsNext
<1>11. Contents \in Seq(Data) /\ Len(Contents) = size
  BY <1>1, ContentsHere
<1>12. ASSUME NEW i \in 1..(size + 1)
       PROVE  heap'[v[i]].data = Append(Contents, d)[i]
  <2>1. CASE i = size + 1
    BY <1>3, <1>5, <1>11, <2>1
  <2>2. CASE i # size + 1
    <3>1. i \in 1..size /\ v[i] = w[i]
      BY <1>3, <2>2
    <3>2. w[i] \in DOMAIN heap /\ Contents[i] = heap[w[i]].data
      BY <1>1, <3>1, ChainFacts
    <3>3. heap'[w[i]].data = heap[w[i]].data
      BY <1>5, <1>6, <3>2 DEF ListNode
    <3>4. Append(Contents, d)[i] = Contents[i]
      BY <1>3, <1>11, <3>1
    <3> QED
      BY <3>1, <3>2, <3>3, <3>4
  <2> QED
    BY <2>1, <2>2
<1>13. Append(Contents, d) \in Seq(Data) /\ Len(Append(Contents, d)) = size + 1
  BY <1>3, <1>11
<1> DEFINE s == Append(Contents, d)
<1>14. s = [i \in 1..(size + 1) |-> s[i]]
  <2> HIDE DEF s
  <2>1. s \in Seq(Data) /\ Len(s) = size + 1
    BY <1>13 DEF s
  <2> QED
    BY <2>1, SeqIsFunction
<1> QED
  BY <1>9, <1>10, <1>12, <1>14

(* The k-th node is taken out, as list_remove() and list_pop_front() do. *)
LEMMA UnlinkStep ==
    ASSUME ListInv, NEW w, IsChain(w, heap, head, tail, size), NEW k \in 1..size,
           heap' = Unlinked(w[k]),
           head' = IF w[k] = head THEN heap[w[k]].next ELSE head,
           tail' = IF w[k] = tail THEN heap[w[k]].prev ELSE tail,
           size' = size - 1
    PROVE  /\ ListInv'
           /\ Contents' = [i \in 1..(size - 1) |->
                               IF i < k THEN Contents[i] ELSE Contents[i + 1]]
<1> DEFINE n == size - 1
           v == [i \in 1..n |-> IF i < k THEN w[i] ELSE w[i + 1]]
           p == w[k]
           D == DOMAIN heap \ {p}
<1>1. size \in Nat /\ size # 0 /\ n \in Nat /\ size = n + 1
  BY ChainFacts
<1>2. /\ \A q \in DOMAIN heap : q \in Addr /\ heap[q] \in ListNode
      /\ p \in DOMAIN heap /\ NULL \notin DOMAIN heap
  BY ChainFacts
<1>3. /\ p = head <=> k = 1
      /\ p = tail <=> k = size
      /\ head = w[1] /\ tail = w[size]
      /\ heap[p].next = IF k = size THEN NULL ELSE w[k + 1]
      /\ heap[p].prev = IF k = 1 THEN NULL ELSE w[k - 1]
  BY <1>1 DEF IsChain
<1>4. /\ DOMAIN heap' = D
      /\ heap' = [q \in D |-> heap'[q]]
      /\ \A q \in D :
            heap'[q] = [heap[q] EXCEPT !.next = IF q = heap[p].prev THEN heap[p].next ELSE @,
                                       !.prev = IF q = heap[p].next THEN heap[p].prev ELSE @]
  BY DEF Unlinked
<1>5. ASSUME NEW q \in D
      PROVE  /\ heap'[q] \in ListNode
             /\ heap'[q].data = heap[q].data
             /\ heap'[q].next = IF q = heap[p].prev THEN heap[p].next ELSE heap[q].next
             /\ heap'[q].prev = IF q = heap[p].next THEN heap[p].prev ELSE heap[q].prev
  <2> DEFINE a == IF q = heap[p].prev THEN heap[p].next ELSE heap[q].next
             b == IF q = heap[p].next THEN heap[p].prev ELSE heap[q].prev
  <2>1. heap[q] \in ListNode /\ heap[p] \in ListNode
    BY <1>2
  <2>2. a \in Pointer /\ b \in Pointer
    BY <2>1 DEF ListNode
  <2>3. heap'[q] = [heap[q] EXCEPT !.next = a, !.prev = b]
    BY <1>4
  <2> HIDE DEF a, b, p, D
  <2>4. heap'[q] \in ListNode /\ heap'[q].data = heap[q].data
        /\ heap'[q].next = a /\ heap'[q].prev = b
    BY <2>1, <2>2, <2>3 DEF ListNode
  <2> QED
    BY <2>4 DEF a, b
<1>6. DOMAIN heap' \subseteq Addr /\ heap' \in [DOMAIN heap' -> ListNode]
  BY <1>2, <1>4, <1>5
<1>7. ASSUME NEW i \in 1..n
      PROVE  /\ i < k => i \in 1..size /\ v[i] = w[i]
             /\ ~(i < k) => i + 1 \in 1..size /\ v[i] = w[i + 1]
             /\ v[i] \in D
  <2>1. /\ i < k => i \in 1..size /\ v[i] = w[i]
        /\ ~(i < k) => i + 1 \in 1..size /\ v[i] = w[i + 1]
    BY <1>1
  <2>2. \A j \in 1..size : j # k => w[j] \in D
    BY DEF IsChain
  <2> QED
    BY <1>1, <2>1, <2>2
<1>8. IsChain(v, heap', head', tail', n)
  <2>1. v \in [1..n -> DOMAIN heap']
    BY <1>4, <1>7
  <2>2. ASSUME NEW i \in 1..n, NEW j \in 1..n, v[i] = v[j]
        PROVE  i = j
    <3>1. \A a, b \in 1..size : w[a] = w[b] => a = b
      BY DEF IsChain
    <3> HIDE DEF v, n
    <3>2. CASE i < k /\ j < k
      BY <1>7, <2>2, <3>1, <3>2
    <3>3. CASE i < k /\ ~(j < k)
      <4>1. i = j + 1
        BY <1>7, <2>2, <3>1, <3>3
      <4> QED
        BY <1>1, <3>3, <4>1
    <3>4. CASE ~(i < k) /\ j < k
      <4>1. i + 1 = j
        BY <1>7, <2>2, <3>1, <3>4
      <4> QED
        BY <1>1, <3>4, <4>1
    <3>5. CASE ~(i < k) /\ ~(j < k)
      <4>1. i + 1 = j + 1
        BY <1>7, <2>2, <3>1, <3>5
      <4> QED
        BY <1>1, <4>1
    <3> QED
      BY <3>2, <3>3, <3>4, <3>5
  <2>3. ASSUME NEW q \in DOMAIN heap'
        PROVE  \E i \in 1..n : v[i] = q
    <3>1. q \in DOMAIN heap /\ q # p
      BY <1>4
    <3>2. PICK j \in 1..size : w[j] = q
      BY <3>1 DEF IsChain
    <3>3. CASE j < k
      <4>1. j \in 1..n /\ v[j] = q
        BY <1>1, <3>2, <3>3
      <4> QED
        BY <4>1
    <3>4. CASE j > k
      <4>1. j - 1 \in 1..n /\ v[j - 1] = q
        BY <1>1, <3>2, <3>4
      <4> QED
        BY <4>1
    <3> QED
      BY <1>1, <3>1, <3>2, <3>3, <3>4
  <2>4. head' = IF n = 0 THEN NULL ELSE v[1]
    <3>1. CASE n = 0
      <4>1. k = 1 /\ k = size
        BY <1>1, <3>1
      <4> QED
        BY <1>3, <3>1, <4>1
    <3>2. CASE n # 0
      <4>1. 1 \in 1..n
        BY <1>1, <3>2
      <4>2. CASE k = 1
        <5>1. v[1] = w[k + 1] /\ k # size
          BY <1>1, <3>2, <4>1, <4>2
        <5> QED
          BY <1>3, <3>2, <4>2, <5>1
      <4>3. CASE k # 1
        <5>1. v[1] = w[1]
          BY <1>1, <4>1, <4>3
        <5> QED
          BY <1>3, <3>2, <4>3, <5>1
      <4> QED
        BY <4>2, <4>3
    <3> QED
      BY <3>1, <3>2
  <2>5. tail' = IF n = 0 THEN NULL ELSE v[n]
    <3>1. CASE n = 0
      <4>1. k = 1 /\ k = size
        BY <1>1, <3>1
      <4> QED
        BY <1>3, <3>1, <4>1
    <3>2. CASE n # 0
      <4>1. n \in 1..n /\ size - 1 = n /\ n + 1 = size
        BY <1>1, <3>2
      <4>2. CASE k = size
        <5>1. v[n] = w[n] /\ k # 1 /\ k - 1 = n
          BY <1>1, <3>2, <4>1, <4>2
        <5> QED
          BY <1>3, <3>2, <4>2, <5>1
      <4>3. CASE k # size
        <5>1. v[n] = w[size]
          BY <1>1, <4>1, <4>3
        <5> QED
          BY <1>3, <3>2, <4>3, <5>1
      <4> QED
        BY <4>2, <4>3
    <3> QED
      BY <3>1, <3>2
  <2>6. ASSUME NEW i \in 1..n
        PROVE  /\ heap'[v[i]].next = IF i = n THEN NULL ELSE v[i + 1]
               /\ heap'[v[i]].prev = IF i = 1 THEN NULL ELSE v[i - 1]
    <3>1. \A a, b \in 1..size : w[a] = w[b] <=> a = b
      BY DEF IsChain
    <3>2. \A a \in 1..size : w[a] # NULL
      BY <1>2 DEF IsChain
    <3>3. \A a \in 1..size :
            /\ heap[w[a]].next = IF a = size THEN NULL ELSE w[a + 1]
            /\ heap[w[a]].prev = IF a = 1 THEN NULL ELSE w[a - 1]
      BY DEF IsChain
    <3>4. CASE i < k
      <4>1. i \in 1..size /\ v[i] = w[i] /\ v[i] \in D
        BY <1>7, <3>4
      <4>2. /\ w[i] = heap[p].prev <=> i = k - 1
            /\ w[i] # heap[p].next
        <5>1. k # 1 => k - 1 \in 1..size
          BY <1>1
        <5>2. k # size => k + 1 \in 1..size /\ i # k + 1
          BY <1>1, <3>4
        <5>3. k = 1 => i # k - 1
          BY <1>1
        <5> QED
          BY <1>3, <3>1, <3>2, <4>1, <5>1, <5>2, <5>3
      <4>3. heap'[v[i]].prev = IF i = 1 THEN NULL ELSE v[i - 1]
        <5>1. i # 1 => v[i - 1] = w[i - 1]
          BY <1>1, <3>4
        <5> QED
          BY <1>5, <3>3, <4>1, <4>2, <5>1
      <4>4. CASE i = k - 1
        <5>1. i = n <=> k = size
          BY <1>1, <4>4
        <5>2. i # n => v[i + 1] = w[k + 1]
          BY <1>1, <4>4
        <5> QED
          BY <1>3, <1>5, <4>1, <4>2, <4>3, <4>4, <5>1, <5>2
      <4>5. CASE i # k - 1
        <5>1. i # n /\ i # size /\ v[i + 1] = w[i + 1]
          BY <1>1, <3>4, <4>5
        <5> QED
          BY <1>5, <3>3, <4>1, <4>2, <4>3, <4>5, <5>1
      <4> QED
        BY <4>4, <4>5
    <3>5. CASE ~(i < k)
      <4> DEFINE j == i + 1
      <4>1. j \in 1..size /\ v[i] = w[j] /\ v[i] \in D /\ j # 1 /\ j - 1 = i
        BY <1>1, <1>7, <3>5
      <4>2. /\ w[j] = heap[p].next <=> i = k
            /\ w[j] # heap[p].prev
        <5>1. k # 1 => k - 1 \in 1..size /\ j # k - 1
          BY <1>1, <3>5
        <5>2. k # size => k + 1 \in 1..size /\ (j = k + 1 <=> i = k)
          BY <1>1
        <5>3. k = size => i # k
          BY <1>1
        <5> QED
          BY <1>3, <3>1, <3>2, <4>1, <5>1, <5>2, <5>3
      <4>3. heap'[v[i]].next = IF i = n THEN NULL ELSE v[i + 1]
        <5>1. j = size <=> i = n
          BY <1>1
        <5>2. i # n => v[i + 1] = w[j + 1]
          BY <1>1, <3>5
        <5> QED
          BY <1>5, <3>3, <4>1, <4>2, <5>1, <5>2
      <4>4. CASE i = k
        <5>1. i # 1 => v[i - 1] = w[k - 1]
          BY <1>1, <4>4
        <5> QED
          BY <1>3, <1>5, <4>1, <4>2, <4>3, <4>4, <5>1
      <4>5. CASE i # k
        <5>1. i # 1 /\ v[i - 1] = w[i]
          BY <1>1, <3>5, <4>5
        <5> QED
          BY <1>5, <3>3, <4>1, <4>2, <4>3, <4>5, <5>1
      <4> QED
        BY <4>4, <4>5
    <3> QED
      BY <3>4, <3>5
  <2> HIDE DEF v
  <2> QED
    BY <2>1, <2>2, <2>3, <2>4, <2>5, <2>6 DEF IsChain
<1>9. ListInv'
  BY <1>1, <1>6, <1>8 DEF ListInv
<1>10. Contents' = [i \in 1..n |-> heap'[v[i]].data]
  <2> HIDE DEF v
  <2> QED
    BY <1>1, <1>8, ContentsNext
<1>11. ASSUME NEW i \in 1..n
       PROVE  heap'[v[i]].data = IF i < k THEN Contents[i] ELSE Contents[i + 1]
  <2>1. heap'[v[i]].data = heap[v[i]].data
    BY <1>5, <1>7
  <2>2. \A j \in 1..size : Contents[j] = heap[w[j]].data
    BY ChainFacts
  <2> QED
    BY <1>7, <2>1, <2>2
<1> QED
  BY <1>9, <1>10, <1>11

(* list_remove() takes out the first node with the data.                   *)
LEMMA RemoveStep ==
    ASSUME ListInv, NEW d \in Data, list_remove(d)
    PROVE  /\ ListInv'
           /\ returned' = (\E i \in 1..size : Contents[i] = d)
           /\ returned' = FALSE => Contents' = Contents
           /\ returned' = TRUE =>
                \E k \in 1..size :
                    /\ Contents[k] = d
                    /\ \A i \in 1..size : Contents[i] = d => k <= i
                    /\ Contents' = [i \in 1..(size - 1) |->
                                        IF i < k THEN Contents[i] ELSE Contents[i + 1]]
<1>1. PICK w : IsChain(w, heap, head, tail, size)
  BY DEF ListInv
<1>2. /\ size \in Nat
      /\ \A i \in 1..size : Contents[i] = heap[w[i]].data
  BY <1>1, ChainFacts
<1>3. Walk = w
  BY <1>1, <1>2, WalkHere
<1>4. Found(d) = {i \in 1..size : Contents[i] = d}
  BY <1>2, <1>3 DEF Found
<1>5. CASE Found(d) = {}
  <2>1. returned' = FALSE /\ UNCHANGED <<heap, head, tail, size>>
    BY <1>5 DEF list_remove
  <2>2. ListInv' /\ Contents' = Contents
    BY <2>1 DEF ListInv, Contents, Walk, NextOf
  <2> QED
    BY <1>4, <1>5, <2>1, <2>2
<1>6. CASE Found(d) # {}
  <2> DEFINE k == FirstOf(Found(d))
  <2>1. k \in Found(d) /\ \A j \in Found(d) : k <= j
    <3>1. Found(d) \in SUBSET Nat
      BY <1>2, <1>4
    <3>2. \E i \in Found(d) : \A j \in Found(d) : i <= j
      BY <1>6, <3>1, LeastElement
    <3> QED
      BY <3>2 DEF FirstOf
  <2>2. k \in 1..size /\ Contents[k] = d
    BY <1>4, <2>1
  <2> HIDE DEF k
  <2>3. /\ heap' = Unlinked(w[k])
        /\ head' = IF w[k] = head THEN heap[w[k]].next ELSE head
        /\ tail' = IF w[k] = tail THEN heap[w[k]].prev ELSE tail
        /\ size' = size - 1
        /\ returned' = TRUE
    BY <1>3, <1>6 DEF list_remove, k
  <2>4. /\ ListInv'
        /\ Contents' = [i \in 1..(size - 1) |->
                            IF i < k THEN Contents[i] ELSE Contents[i + 1]]
    BY <1>1, <2>2, <2>3, UnlinkStep
  <2>5. \A i \in 1..size : Contents[i] = d => k <= i
    BY <1>4, <2>1
  <2> QED
    BY <2>2, <2>3, <2>4, <2>5
<1> QED
  BY <1>5, <1>6

(* list_pop_front() takes out the first node.                              *)
LEMMA PopFrontStep ==
    ASSUME ListInv, list_pop_front
    PROVE  /\ ListInv'
           /\ size = 0 => returned' = NULL /\ Contents' = Contents
           /\ size # 0 => /\ returned' = Contents[1]
                          /\ Contents' = [i \in 1..(size - 1) |-> Contents[i + 1]]
<1>1. PICK w : IsChain(w, heap, head, tail, size)
  BY DEF ListInv
<1>2. size \in Nat /\ (head = NULL <=> size = 0)
  BY <1>1, ChainFacts
<1>3. CASE size = 0
  <2>1. returned' = NULL /\ UNCHANGED <<heap, head, tail, size>>
    BY <1>3 DEF list_pop_front
  <2> QED
    BY <1>3, <2>1 DEF ListInv, Contents, Walk, NextOf
<1>4. CASE size # 0
  <2>1. 1 \in 1..size
    BY <1>2, <1>4
  <2>2. /\ returned' = heap[head].data
        /\ heap' = [q \in DOMAIN heap \ {head} |->
                        IF head # tail /\ q = heap[head].next
                        THEN [heap[q] EXCEPT !.prev = NULL] ELSE heap[q]]
        /\ head' = heap[head].next
        /\ tail' = IF head = tail THEN NULL ELSE tail
        /\ size' = size - 1
    BY <1>2, <1>4 DEF list_pop_front, PopTail, PopData
  <2>3. /\ head = w[1] /\ head \in DOMAIN heap /\ NULL \notin DOMAIN heap
        /\ \A q \in DOMAIN heap : heap[q] \in ListNode
        /\ Contents[1] = heap[w[1]].data
    BY <1>1, <1>4, <2>1, ChainFacts
  <2>4. heap[head].prev = NULL
    BY <1>1, <2>1, <2>3 DEF IsChain
  <2>5. head = tail => heap[head].next = NULL
    BY <1>1, <1>2, <1>4, <2>1, <2>3 DEF IsChain
  <2>6. heap' = Unlinked(w[1])
    <3> DEFINE new(q) == [heap[q] EXCEPT
                            !.next = IF q = heap[head].prev THEN heap[head].next ELSE @,
                            !.prev = IF q = heap[head].next THEN heap[head].prev ELSE @]
    <3>1. ASSUME NEW q \in DOMAIN heap \ {head}
          PROVE  new(q) = IF head # tail /\ q = heap[head].next
                          THEN [heap[q] EXCEPT !.prev = NULL] ELSE heap[q]
      <4>1. q # NULL /\ heap[q] \in ListNode
        BY <2>3
      <4>2. heap[q] = [heap[q] EXCEPT !.next = heap[q].next, !.prev = heap[q].prev]
        BY <4>1 DEF ListNode
      <4>3. CASE q = heap[head].next
        BY <2>4, <2>5, <4>1, <4>3 DEF ListNode
      <4>4. CASE q # heap[head].next
        BY <2>4, <2>5, <4>1, <4>2, <4>4
      <4> QED
        BY <4>3, <4>4
    <3>2. Unlinked(w[1]) = [q \in DOMAIN heap \ {head} |-> new(q)]
      BY <2>3 DEF Unlinked
    <3> HIDE DEF new
    <3> QED
      BY <2>2, <3>1, <3>2
  <2>7. /\ head' = IF w[1] = head THEN heap[w[1]].next ELSE head
        /\ tail' = IF w[1] = tail THEN heap[w[1]].prev ELSE tail
    BY <2>2, <2>3, <2>4
  <2>8. /\ ListInv'
        /\ Contents' = [i \in 1..(size - 1) |->
                            IF i < 1 THEN Contents[i] ELSE Contents[i + 1]]
    <3>1. size' = size - 1
      BY <2>2
    <3> QED
      BY ONLY ListInv, <1>1, <2>1, <2>6, <2>7, <3>1, UnlinkStep
  <2>9. Contents' = [i \in 1..(size - 1) |-> Contents[i + 1]]
    <3>1. \A i \in 1..(size - 1) : ~ (i < 1)
      BY <1>2
    <3> QED
      BY <2>8, <3>1
  <2> QED
    BY <1>4, <2>2, <2>3, <2>8, <2>9
<1> QED
  BY <1>3, <1>4

(* list_free() leaves no node.                                             *)
LEMMA FreeStep ==
    ASSUME ListInv, list_free
    PROVE  ListInv' /\ Contents' = <<>>
<1>1. PICK w : IsChain(w, heap, head, tail, size)
  BY DEF ListInv
<1>2. Walk = w
  BY <1>1, WalkHere DEF ListInv
<1>3. DOMAIN heap \ {w[i] : i \in 1..size} = {}
  BY <1>1 DEF IsChain
<1>4. /\ heap' = [q \in {} |-> heap[q]] /\ DOMAIN heap' = {}
      /\ head' = NULL /\ tail' = NULL /\ size' = 0
  BY <1>2, <1>3 DEF list_free
<1>5. IsChain(<<>>, heap', head', tail', size')
  BY <1>4 DEF IsChain
<1>6. ListInv'
  BY <1>4, <1>5 DEF ListInv
<1>7. Contents' = [i \in 1..0 |-> heap'[<<>>[i]].data]
  BY <1>4, <1>5, ContentsNext
<1> QED
  BY <1>6, <1>7

-----------------------------------------------------------------------------
(* The invariant and the refinement *)

(* list_create() makes an empty chain.                                     *)
LEMMA ListInitHolds == ListInit => ListInv /\ Contents = <<>>
<1> SUFFICES ASSUME ListInit PROVE ListInv /\ Contents = <<>>
  OBVIOUS
<1>1. DOMAIN heap = {} /\ size = 0 /\ head = NULL /\ tail = NULL
      /\ heap = [p \in {} |-> NULL]
  BY DEF ListInit
<1>2. IsChain(<<>>, heap, head, tail, size)
  BY <1>1 DEF IsChain
<1> QED
  BY <1>1, <1>2 DEF ListInv, Contents

(* Every operation keeps the chain and changes its contents as the         *)
(* sequence promises.                                                      *)
LEMMA ListStep ==
    ASSUME ListInv, [ListNext]_list_vars
    PROVE  ListInv' /\ [List!Next]_(List!vars)
<1>0. PICK w : IsChain(w, heap, head, tail, size)
  BY DEF ListInv
<1>1. size \in Nat /\ Contents \in Seq(Data) /\ Len(Contents) = size
  BY <1>0, ContentsHere DEF ListInv
<1>2. ASSUME NEW d \in Data, list_insert(d)
      PROVE  ListInv' /\ [List!Next]_(List!vars)
  <2>1. ListInv' /\ Contents' = <<d>> \o Contents /\ UNCHANGED returned
    BY <1>2, InsertStep DEF list_insert
  <2>2. List!Insert(d)
    BY <2>1 DEF List!Insert, Contents
  <2> QED
    BY <2>1, <2>2 DEF List!Next
<1>3. ASSUME NEW d \in Data, list_append(d)
      PROVE  ListInv' /\ [List!Next]_(List!vars)
  <2>1. ListInv' /\ Contents' = Append(Contents, d) /\ UNCHANGED returned
    BY <1>3, AppendStep DEF list_append
  <2>2. List!Add(d)
    BY <2>1 DEF List!Add, Contents
  <2> QED
    BY <2>1, <2>2 DEF List!Next
<1>4. ASSUME NEW d \in Data, list_remove(d)
      PROVE  ListInv' /\ [List!Next]_(List!vars)
  <2>1. /\ ListInv'
        /\ returned' = (\E i \in 1..size : Contents[i] = d)
        /\ returned' = FALSE => Contents' = Contents
    BY <1>4, RemoveStep
  <2>2. d \in List!Range(Contents) <=> \E i \in 1..size : Contents[i] = d
    <3>1. DOMAIN Contents = 1..size
      BY <1>1
    <3>2. List!Range(Contents) = {Contents[i] : i \in 1..size}
      BY <3>1 DEF List!Range
    <3> QED
      BY <3>2
  <2>3. returned' = TRUE =>
          Contents' = List!RemoveAt(Contents, List!SelectInSeq(Contents, LAMBDA x : x = d))
    <3> SUFFICES ASSUME returned' = TRUE
                 PROVE  Contents' = List!RemoveAt(Contents,
                                        List!SelectInSeq(Contents, LAMBDA x : x = d))
      OBVIOUS
    <3>1. PICK k \in 1..size :
            /\ Contents[k] = d
            /\ \A i \in 1..size : Contents[i] = d => k <= i
            /\ Contents' = [i \in 1..(size - 1) |->
                                IF i < k THEN Contents[i] ELSE Contents[i + 1]]
      BY <1>4, RemoveStep
    <3>2. List!SelectInSeq(Contents, LAMBDA x : x = d) = k
      <4> DEFINE I == {i \in 1..Len(Contents) : Contents[i] = d}
      <4>1. k \in I /\ \A i \in I : k <= i
        BY <1>1, <3>1
      <4>2. List!Min(I) = k
        BY <1>1, <4>1 DEF List!Min
      <4>3. List!SelectInSeq(Contents, LAMBDA x : x = d) = IF I # {} THEN List!Min(I) ELSE 0
        BY DEF List!SelectInSeq
      <4> QED
        BY <4>1, <4>2, <4>3
    <3> DEFINE l == SubSeq(Contents, 1, k - 1)
               r == SubSeq(Contents, k + 1, size)
    <3>3. /\ l \in Seq(Data) /\ Len(l) = k - 1
          /\ \A i \in 1..(k - 1) : l[i] = Contents[i]
      BY <1>1
    <3>4. /\ r \in Seq(Data) /\ Len(r) = size - k
          /\ \A i \in 1..(size - k) : r[i] = Contents[k + i]
      BY <1>1
    <3> HIDE DEF l, r
    <3>5. l \o r = [i \in 1..(size - 1) |-> IF i < k THEN Contents[i] ELSE Contents[i + 1]]
      <4>0. /\ l \o r \in Seq(Data) /\ Len(l \o r) = Len(l) + Len(r)
            /\ \A i \in 1..(Len(l) + Len(r)) :
                  (l \o r)[i] = IF i <= Len(l) THEN l[i] ELSE r[i - Len(l)]
        BY <3>3, <3>4, ConcatProperties
      <4>1. l \o r \in Seq(Data) /\ Len(l \o r) = size - 1
        BY <1>1, <3>3, <3>4, <4>0
      <4>2. ASSUME NEW i \in 1..(size - 1)
            PROVE  (l \o r)[i] = IF i < k THEN Contents[i] ELSE Contents[i + 1]
        <5>1. CASE i < k
          BY <1>1, <3>3, <3>4, <4>0, <5>1
        <5>2. CASE ~(i < k)
          <6>1. (l \o r)[i] = r[i - (k - 1)]
            BY <1>1, <3>3, <3>4, <4>0, <5>2
          <6>2. i - (k - 1) \in 1..(size - k) /\ k + (i - (k - 1)) = i + 1
            BY <1>1, <5>2
          <6> QED
            BY <3>4, <5>2, <6>1, <6>2
        <5> QED
          BY <5>1, <5>2
      <4> DEFINE lr == l \o r
      <4>3. lr = [i \in 1..(size - 1) |-> lr[i]]
        <5> HIDE DEF lr
        <5>1. lr \in Seq(Data) /\ Len(lr) = size - 1
          BY <4>1 DEF lr
        <5> QED
          BY <5>1, SeqIsFunction
      <4> QED
        BY <4>2, <4>3
    <3>6. List!RemoveAt(Contents, k) = l \o r
      BY <1>1 DEF List!RemoveAt, l, r
    <3> QED
      BY <3>1, <3>2, <3>5, <3>6
  <2>4. List!Delete(d)
    <3>1. CASE \E i \in 1..size : Contents[i] = d
      <4>1. returned' = TRUE /\ d \in List!Range(Contents)
        BY <2>1, <2>2, <3>1
      <4>2. Contents' = List!RemoveAt(Contents, List!SelectInSeq(Contents, LAMBDA x : x = d))
        BY <2>3, <4>1
      <4> QED
        BY <4>1, <4>2 DEF List!Delete, Contents
    <3>2. CASE ~ \E i \in 1..size : Contents[i] = d
      <4>1. returned' = FALSE /\ d \notin List!Range(Contents)
        BY <2>1, <2>2, <3>2
      <4>2. Contents' = Contents
        BY <2>1, <4>1
      <4>3. returned' = (d \in List!Range(Contents))
        <5>1. (d \in List!Range(Contents)) = FALSE
          BY <4>1
        <5> QED
          BY <4>1, <5>1
      <4>4. Contents' = IF d \in List!Range(Contents)
                        THEN List!RemoveAt(Contents, List!SelectInSeq(Contents, LAMBDA x : x = d))
                        ELSE Contents
        BY <4>1, <4>2
      <4> QED
        BY <4>3, <4>4, Zenon DEF List!Delete, Contents
    <3> QED
      BY <3>1, <3>2
  <2> QED
    BY <2>1, <2>4 DEF List!Next
<1>5. CASE list_pop_front
  <2>1. /\ ListInv'
        /\ size = 0 => returned' = NULL /\ Contents' = Contents
        /\ size # 0 => /\ returned' = Contents[1]
                       /\ Contents' = [i \in 1..(size - 1) |-> Contents[i + 1]]
    BY <1>5, PopFrontStep
  <2>2. Contents = <<>> <=> size = 0
    BY <1>1
  <2>3. size # 0 => Head(Contents) = Contents[1]
                    /\ Tail(Contents) = [i \in 1..(size - 1) |-> Contents[i + 1]]
    <3> SUFFICES ASSUME size # 0
                 PROVE  /\ Head(Contents) = Contents[1]
                        /\ Tail(Contents) = [i \in 1..(size - 1) |-> Contents[i + 1]]
      OBVIOUS
    <3>1. /\ Tail(Contents) \in Seq(Data) /\ Len(Tail(Contents)) = size - 1
          /\ \A i \in 1..(size - 1) : Tail(Contents)[i] = Contents[i + 1]
      BY <1>1, <2>2, HeadTailProperties
    <3>2. Head(Contents) = Contents[1]
      BY <1>1, <2>2
    <3> QED
      BY <3>1, <3>2, SeqIsFunction
  <2>4. List!PopFront
    BY <2>1, <2>2, <2>3 DEF List!PopFront, Contents
  <2> QED
    BY <2>1, <2>4 DEF List!Next
<1>6. ASSUME NEW i \in 0..Cardinality(Addr), list_get(i)
      PROVE  ListInv' /\ [List!Next]_(List!vars)
  <2>1. UNCHANGED <<heap, head, tail, size>>
    BY <1>6 DEF list_get
  <2>2. ListInv' /\ Contents' = Contents
    BY <2>1 DEF ListInv, Contents, Walk, NextOf
  <2>3. i \in Nat
    BY AddrAssumption, FS_CardinalityType
  <2> DEFINE j == IF i < size THEN i ELSE size
  <2>4. j \in 0..Len(Contents)
    BY <1>1, <2>3
  <2>5. returned' = IF j < Len(Contents) THEN Contents[j + 1] ELSE NULL
    <3>1. Walk = w
      BY <1>0, <1>1, WalkHere
    <3>2. i < size => i + 1 \in 1..size /\ Contents[i + 1] = heap[w[i + 1]].data
      BY <1>0, <1>1, <2>3, ChainFacts
    <3>3. head = NULL <=> size = 0
      BY <1>0, ChainFacts
    <3> QED
      BY <1>1, <1>6, <2>3, <3>1, <3>2, <3>3 DEF list_get
  <2>6. List!Get(j)
    BY <2>2, <2>5 DEF List!Get, Contents
  <2> QED
    BY <2>2, <2>4, <2>6 DEF List!Next, Contents
<1>7. CASE list_empty
  <2>1. UNCHANGED <<heap, head, tail, size>> /\ returned' = (size = 0 \/ head = NULL)
    BY <1>7 DEF list_empty
  <2>2. ListInv' /\ Contents' = Contents
    BY <2>1 DEF ListInv, Contents, Walk, NextOf
  <2>3. (size = 0 \/ head = NULL) = (Contents = <<>>)
    BY <1>0, <1>1, ChainFacts
  <2>4. List!Empty
    BY <2>1, <2>2, <2>3 DEF List!Empty, Contents
  <2> QED
    BY <2>2, <2>4 DEF List!Next
<1>8. CASE list_free
  <2>1. ListInv' /\ Contents' = <<>> /\ UNCHANGED returned
    BY <1>8, FreeStep DEF list_free
  <2>2. List!Destroy
    BY <2>1 DEF List!Destroy, Contents
  <2> QED
    BY <2>1, <2>2 DEF List!Next
<1>9. CASE UNCHANGED list_vars
  <2>1. ListInv' /\ Contents' = Contents /\ UNCHANGED returned
    BY <1>9 DEF list_vars, ListInv, Contents, Walk, NextOf
  <2> QED
    BY <2>1 DEF List!vars, Contents
<1> QED
  BY <1>2, <1>3, <1>4, <1>5, <1>6, <1>7, <1>8, <1>9 DEF ListNext

(* The list stays a chain: along next from head and along prev from tail   *)
(* every live node is met once, size counts them, and none is lost.        *)
THEOREM ListStaysChained == ListSpec => []ListInv
<1>1. ListInv /\ [ListNext]_list_vars => ListInv'
  BY ListStep
<1> QED
  BY <1>1, ListInitHolds, PTL DEF ListSpec

(* list.c implements the sequence of list.h: whatever operations came      *)
(* before, each does to the contents what its comment promises.            *)
THEOREM ListIsSequence == ListSpec => ImplementsSeqList
<1>1. ListInit => List!Init
  BY ListInitHolds DEF ListInit, List!Init, Contents
<1>2. ListInv /\ [ListNext]_list_vars => [List!Next]_(List!vars)
  BY ListStep
<1> QED
  BY <1>1, <1>2, ListStaysChained, PTL DEF ListSpec, ImplementsSeqList, List!Spec
=============================================================================
