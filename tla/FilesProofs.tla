---------------------------- MODULE FilesProofs ----------------------------
(***************************************************************************)
(* Theorems about the device file of a card and the IOMMU mappings made    *)
(* through it, for every device tree and every size: what is mapped under  *)
(* the name of a region is that region, a read stays in the text, and a    *)
(* device address reaches the pages it was asked for.                      *)
(***************************************************************************)
EXTENDS Iommu, TLAPS, SequenceTheorems, FiniteSetTheorems, WellFoundedInduction

(* A set that has 0, and the next number with each, has all of them.        *)
LEMMA Counting == ASSUME NEW S, 0 \in S, \A k \in Nat : k \in S => k + 1 \in S PROVE Nat \subseteq S
<1> SUFFICES ASSUME Nat \ S # {} PROVE FALSE
  OBVIOUS
<1> DEFINE Less == OpToRel(<, Nat)
           T == Nat \ S
<1>1. IsWellFoundedOn(Less, Nat)
  BY Zenon, NatLessThanWellFounded
<1>2. \A x, y \in Nat : x < y => <<x, y>> \in Less
  BY Zenon DEF OpToRel
<1>3. T \subseteq Nat /\ T # {} /\ \A k \in T : k \in Nat /\ k - 1 \in T
  <2>1. ASSUME NEW k \in T PROVE k \in Nat /\ k - 1 \in T
    <3>1. k \in Nat /\ k # 0
      OBVIOUS
    <3>2. k - 1 \in Nat /\ (k - 1) + 1 = k /\ k \notin S
      BY <3>1
    <3> QED BY <3>1, <3>2
  <2> QED BY <2>1
<1> HIDE DEF Less, T
<1>4. PICK x \in T : \A y \in T : ~(<<y, x>> \in Less)
  BY <1>1, <1>3, WFMin
<1>5. x \in Nat /\ x - 1 \in Nat /\ x - 1 \in T /\ x - 1 < x
  BY <1>3, <1>4
<1> QED BY <1>2, <1>4, <1>5

LEMMA CountingTo ==
  ASSUME NEW n \in Nat, NEW S, 0 \in S, \A k \in 0 .. n - 1 : k \in S => k + 1 \in S
  PROVE  0 .. n \subseteq S
<1> DEFINE T == S \cup {k \in Nat : k > n}
<1>1. 0 \in T /\ \A k \in Nat : k \in T => k + 1 \in T
  OBVIOUS
<1> HIDE DEF T
<1>2. Nat \subseteq T
  BY <1>1, Counting
<1> QED BY <1>2 DEF T

(* A function that starts at x0 and gives each number, up to n, what g makes *)
(* of the one before exists: a recursion of the modules is one.             *)
Steps(f, x0, n, g) == f[0] = x0 /\ \A k \in 1 .. n : f[k] = g[<<f[k - 1], k>>]

LEMMA Stepwise ==
  ASSUME NEW X, NEW x0 \in X, NEW n \in Nat, NEW g \in [X \X (1 .. n) -> X]
  PROVE  \E f \in [0 .. n -> X] : Steps(f, x0, n, g)
<1> DEFINE S == {m \in 0 .. n : \E f \in [0 .. m -> X] : Steps(f, x0, m, g)}
<1>1. 0 \in S
  <2> DEFINE f == [k \in 0 .. 0 |-> x0]
  <2>1. f \in [0 .. 0 -> X] /\ Steps(f, x0, 0, g)
    BY DEF Steps
  <2> HIDE DEF f
  <2> QED BY <2>1
<1>2. ASSUME NEW m \in 0 .. n - 1, m \in S PROVE m + 1 \in S
  <2>1. PICK f \in [0 .. m -> X] : Steps(f, x0, m, g)
    BY <1>2
  <2> DEFINE h == [k \in 0 .. m + 1 |-> IF k <= m THEN f[k] ELSE g[<<f[m], m + 1>>]]
  <2>2. g[<<f[m], m + 1>>] \in X
    BY <1>2
  <2>3. h \in [0 .. m + 1 -> X] /\ (\A k \in 0 .. m : h[k] = f[k]) /\ h[m + 1] = g[<<f[m], m + 1>>]
    BY <2>2
  <2> HIDE DEF h
  <2>4. h[0] = x0
    BY <2>1, <2>3 DEF Steps
  <2>5. ASSUME NEW k \in 1 .. m + 1 PROVE h[k] = g[<<h[k - 1], k>>]
    <3>1. CASE k = m + 1
      <4>1. k - 1 = m /\ h[m] = f[m]
        BY <2>3, <3>1
      <4> QED BY <2>3, <3>1, <4>1
    <3>2. CASE k # m + 1
      <4>1. k \in 1 .. m /\ k \in 0 .. m /\ k - 1 \in 0 .. m
        BY <3>2
      <4>2. h[k] = f[k] /\ h[k - 1] = f[k - 1] /\ f[k] = g[<<f[k - 1], k>>]
        BY <2>1, <2>3, <4>1 DEF Steps
      <4> QED BY <4>2
    <3> QED BY <3>1, <3>2
  <2>6. Steps(h, x0, m + 1, g)
    BY <2>4, <2>5 DEF Steps
  <2> QED BY <1>2, <2>3, <2>6
<1> HIDE DEF S
<1>3. n \in S
  <2>1. 0 .. n \subseteq S
    BY <1>1, <1>2, CountingTo
  <2> QED BY <2>1
<1> QED BY <1>3 DEF S

-----------------------------------------------------------------------------
(* The probe.  What can stand in the driver's table.                        *)
Region == Nodes \cup {n.reserved : n \in {Tree[x] : x \in Nodes}} \cup {Zero}
Table == [Fields -> Region]
Looks == Len(Names)

LEMMA Looked ==
  ASSUME setup \in Setups
  PROVE  /\ Names \in Seq(Nodes) /\ Looks \in Nat /\ DOMAIN Names = 1 .. Looks
         /\ \A i \in 1 .. Looks : Names[i] \in Nodes
         /\ \A x \in Nodes : \E i \in 1 .. Looks : Names[i] = x
         /\ \A i \in 1 .. Looks : Names[i] = L3 => i = Looks
         /\ \A x \in Nodes : x # Zero /\ Tree[x].status \in Status
<1>1. /\ Names \in Seq(Nodes) /\ \A x \in Nodes : \E i \in DOMAIN Names : Names[i] = x
      /\ \A i \in DOMAIN Names : Names[i] = L3 => i = Len(Names)
      /\ \A x \in Nodes : x # Zero /\ Tree[x].status \in Status
  BY SetupsAssumption DEF Names, Nodes, Tree
<1>2. Looks \in Nat /\ DOMAIN Names = 1 .. Looks /\ \A i \in 1 .. Looks : Names[i] \in Nodes
  BY <1>1 DEF Looks
<1> QED BY <1>1, <1>2 DEF Looks

LEMMA ProbeNodeType ==
  ASSUME setup \in Setups, NEW m \in Table, NEW x \in Nodes
  PROVE  ProbeNode(m, x) \in Table
<1>1. x \in Fields /\ L3 \in Fields /\ x \in Region /\ Zero \in Region /\ Tree[x].reserved \in Region
  BY DEF Fields, Region
<1>2. \A t \in Table, f \in Fields, r \in Region : [t EXCEPT ![f] = r] \in Table
  BY DEF Table
<1>3. WithReserved(m, Tree[x]) \in Table
  BY <1>1, <1>2 DEF WithReserved
<1>4. \A t \in Table : OwnRegion(t, x) \in Table
  BY <1>1, <1>2 DEF OwnRegion
<1> QED BY <1>1, <1>2, <1>3, <1>4 DEF ProbeNode

LEMMA ProbedSteps ==
  ASSUME setup \in Setups
  PROVE  /\ Probed \in [0 .. Looks -> Table]
         /\ Probed[0] = [f \in Fields |-> Zero]
         /\ \A k \in 1 .. Looks : Probed[k] = ProbeNode(Probed[k - 1], Names[k])
<1>1. Looks \in Nat /\ \A k \in 1 .. Looks : Names[k] \in Nodes
  BY Looked
<1> DEFINE z == [f \in Fields |-> Zero]
           g == [p \in Table \X (1 .. Looks) |-> ProbeNode(p[1], Names[p[2]])]
<1>2. z \in Table
  BY DEF Table, Region
<1>3. g \in [Table \X (1 .. Looks) -> Table]
  BY <1>1, ProbeNodeType
<1>4. \A t \in Table, k \in 1 .. Looks : g[<<t, k>>] = ProbeNode(t, Names[k])
  OBVIOUS
<1> HIDE DEF z, g
<1>5. PICK f \in [0 .. Looks -> Table] : Steps(f, z, Looks, g)
  BY <1>1, <1>2, <1>3, Stepwise
<1>6. \A k \in 0 .. Looks : f[k] = IF k = 0 THEN z ELSE ProbeNode(f[k - 1], Names[k])
  <2> SUFFICES ASSUME NEW k \in 0 .. Looks
               PROVE  f[k] = IF k = 0 THEN z ELSE ProbeNode(f[k - 1], Names[k])
    OBVIOUS
  <2>1. k # 0 => k \in 1 .. Looks /\ f[k - 1] \in Table
    BY <1>1
  <2> QED BY <1>4, <1>5, <2>1 DEF Steps
<1>7. f = [k \in 0 .. Len(Names) |-> IF k = 0 THEN [x \in Fields |-> Zero]
                                     ELSE ProbeNode(f[k - 1], Names[k])]
  BY <1>5, <1>6 DEF Looks, z
<1>8. Probed = [k \in 0 .. Len(Names) |-> IF k = 0 THEN [x \in Fields |-> Zero]
                                          ELSE ProbeNode(Probed[k - 1], Names[k])]
  BY <1>7, Zenon DEF Probed
<1>9. ASSUME NEW k \in 0 .. Looks
      PROVE  Probed[k] = IF k = 0 THEN z ELSE ProbeNode(Probed[k - 1], Names[k])
  BY <1>8 DEF Looks, z
<1> DEFINE S == {k \in 0 .. Looks : Probed[k] \in Table}
<1>10. 0 .. Looks \subseteq S
  <2>1. 0 \in S
    BY <1>1, <1>2, <1>9
  <2>2. ASSUME NEW k \in 0 .. Looks - 1, k \in S PROVE k + 1 \in S
    <3>1. k + 1 \in 1 .. Looks /\ k + 1 # 0 /\ (k + 1) - 1 = k
      BY <1>1
    <3>2. Probed[k + 1] = ProbeNode(Probed[k], Names[k + 1])
      BY <1>1, <1>9, <3>1
    <3>3. Probed[k + 1] \in Table
      BY <1>1, <2>2, <3>1, <3>2, ProbeNodeType
    <3> QED BY <1>1, <3>1, <3>3
  <2> HIDE DEF S
  <2> QED BY <1>1, <2>1, <2>2, CountingTo
<1>11. Probed \in [0 .. Looks -> Table]
  <2>1. Probed = [k \in 0 .. Looks |-> Probed[k]]
    BY <1>8 DEF Looks
  <2> QED BY <1>10, <2>1
<1>12. Probed[0] = z /\ \A k \in 1 .. Looks : Probed[k] = ProbeNode(Probed[k - 1], Names[k])
  BY <1>1, <1>9
<1> QED BY <1>11, <1>12 DEF z

(* What the table holds after the first k nodes: for a node, its region if  *)
(* it is there; for the L3 memory, the first region reserved so far.        *)
Seen(k, x) == \E i \in 1 .. k : Names[i] = x
FirstAt(i) == /\ Reserves(Tree[Names[i]])
              /\ \A j \in 1 .. i - 1 : ~Reserves(Tree[Names[j]])
Own(m, k) == \A x \in Nodes \ {L3} : m[x] = IF Seen(k, x) /\ There(x) THEN x ELSE Zero
SharedL3(m, k) == \/ m[L3] = Zero /\ \A j \in 1 .. k : ~Reserves(Tree[Names[j]])
                  \/ \E i \in 1 .. k : FirstAt(i) /\ m[L3] = Tree[Names[i]].reserved
OwnL3(m) == IF There(L3) THEN m[L3] = L3 ELSE m[L3] = Zero \/ m[L3] \in FirstReserved

LEMMA ProbeNodeSets ==
  ASSUME setup \in Setups, NEW m \in Table, NEW x \in Nodes
  PROVE  LET n == Tree[x]
             p == ProbeNode(m, x)
             l3 == IF NewL3(m, n) THEN n.reserved ELSE m[L3]
         IN  /\ \A y \in Nodes \ {x, L3} : p[y] = m[y]
             /\ x # L3 => /\ There(x) => p[x] = x
                          /\ ~There(x) => p[x] = Zero \/ p[x] = m[x]
                          /\ p[L3] = l3
             /\ x = L3 => /\ There(x) => p[x] = x
                          /\ ~There(x) => p[x] = Zero \/ p[x] = l3
<1> DEFINE n == Tree[x]
           w == WithReserved(m, n)
           l3 == IF NewL3(m, n) THEN n.reserved ELSE m[L3]
<1>1. /\ m \in [Fields -> Region] /\ x \in Fields /\ L3 \in Fields /\ Nodes \subseteq Fields
      /\ n.status \in {"ok", "missing", "unmappable", "absent"}
  BY Looked DEF Table, Fields, Status
<1>2. w \in [Fields -> Region] /\ w[L3] = l3 /\ \A y \in Fields \ {L3} : w[y] = m[y]
  <2>1. n.reserved \in Region
    BY DEF Region
  <2> QED BY <1>1, <2>1 DEF WithReserved
<1>3. CASE ~Usable(n)
  <2>1. ProbeNode(m, x) = [m EXCEPT ![x] = Zero] /\ ~There(x) /\ ~NewL3(m, n)
    BY <1>3 DEF ProbeNode, There, NewL3, Reserves
  <2> QED BY <1>1, <2>1
<1>4. CASE Usable(n)
  <2>1. ProbeNode(m, x) = OwnRegion(w, x) /\ n.status # "missing"
    BY <1>4 DEF ProbeNode, Usable
  <2>2. There(x) <=> n.status = "ok"
    BY <1>4 DEF There
  <2> HIDE DEF w, l3
  <2>3. CASE n.status = "unmappable"
    <3>1. OwnRegion(w, x) = w
      BY <2>3 DEF OwnRegion
    <3> QED BY <1>1, <1>2, <2>1, <2>2, <2>3, <3>1 DEF l3
  <2>4. CASE n.status = "absent"
    <3>1. OwnRegion(w, x) = [w EXCEPT ![x] = Zero]
      BY <2>4 DEF OwnRegion
    <3> QED BY <1>1, <1>2, <2>1, <2>2, <2>4, <3>1 DEF l3
  <2>5. CASE n.status = "ok"
    <3>1. OwnRegion(w, x) = [w EXCEPT ![x] = x]
      BY <2>5 DEF OwnRegion
    <3> QED BY <1>1, <1>2, <2>1, <2>2, <2>5, <3>1 DEF l3
  <2> QED BY <1>1, <2>1, <2>3, <2>4, <2>5
<1> QED BY <1>3, <1>4

LEMMA TableAfter ==
  ASSUME setup \in Setups, NEW k \in 0 .. Looks
  PROVE  /\ Own(Probed[k], k)
         /\ IF k > 0 /\ Names[k] = L3 THEN OwnL3(Probed[k]) ELSE SharedL3(Probed[k], k)
<1> DEFINE P(i) == /\ Own(Probed[i], i)
                   /\ IF i > 0 /\ Names[i] = L3 THEN OwnL3(Probed[i]) ELSE SharedL3(Probed[i], i)
           S == {i \in 0 .. Looks : P(i)}
<1>1. /\ Looks \in Nat /\ DOMAIN Names = 1 .. Looks /\ \A i \in 1 .. Looks : Names[i] \in Nodes
      /\ \A i \in 1 .. Looks : Names[i] = L3 => i = Looks
  BY Looked
<1>2. 0 \in S
  <2>1. Probed[0] = [f \in Fields |-> Zero] /\ Nodes \subseteq Fields /\ L3 \in Fields
    BY ProbedSteps DEF Fields
  <2>2. P(0)
    BY <2>1 DEF Own, SharedL3, Seen
  <2> QED BY <1>1, <2>2
<1>3. ASSUME NEW i \in 0 .. Looks - 1, i \in S PROVE i + 1 \in S
  <2> DEFINE m == Probed[i]
             p == Probed[i + 1]
             x == Names[i + 1]
             n == Tree[x]
             l3 == IF NewL3(m, n) THEN n.reserved ELSE m[L3]
  <2>1. i \in Nat /\ i + 1 \in 1 .. Looks /\ x \in Nodes /\ m \in Table /\ p = ProbeNode(m, x)
    BY <1>1, ProbedSteps
  <2>2. Own(m, i) /\ SharedL3(m, i)
    <3>1. ~(i > 0 /\ Names[i] = L3)
      BY <1>1
    <3> QED BY <1>3, <3>1
  <2>3. /\ \A y \in Nodes \ {x, L3} : p[y] = m[y]
        /\ x # L3 => /\ There(x) => p[x] = x
                     /\ ~There(x) => p[x] = Zero \/ p[x] = m[x]
                     /\ p[L3] = l3
        /\ x = L3 => /\ There(x) => p[x] = x
                     /\ ~There(x) => p[x] = Zero \/ p[x] = l3
    BY <2>1, ProbeNodeSets
  <2>4. \A j \in 1 .. i + 1 : j \in 1 .. i \/ j = i + 1
    BY <2>1
  <2>5. \A y : Seen(i + 1, y) <=> Seen(i, y) \/ y = x
    BY <2>1, <2>4 DEF Seen
  <2> HIDE DEF m, p, x
  <2>6. Own(p, i + 1)
    BY <2>2, <2>3, <2>5 DEF Own
  <2>7. \/ l3 = Zero /\ \A j \in 1 .. i + 1 : ~Reserves(Tree[Names[j]])
        \/ \E j \in 1 .. i + 1 : FirstAt(j) /\ l3 = Tree[Names[j]].reserved
    <3>1. CASE m[L3] = Zero /\ \A j \in 1 .. i : ~Reserves(Tree[Names[j]])
      <4>1. CASE Reserves(n)
        <5>1. l3 = n.reserved /\ FirstAt(i + 1)
          BY <2>1, <3>1, <4>1 DEF NewL3, FirstAt, x
        <5> QED BY <2>1, <5>1 DEF x
      <4>2. CASE ~Reserves(n)
        BY <2>4, <3>1, <4>2 DEF NewL3, x
      <4> QED BY <4>1, <4>2
    <3>2. ASSUME NEW j \in 1 .. i, FirstAt(j), m[L3] = Tree[Names[j]].reserved
          PROVE  \E q \in 1 .. i + 1 : FirstAt(q) /\ l3 = Tree[Names[q]].reserved
      <4>1. m[L3] # Zero
        BY <3>2 DEF FirstAt, Reserves
      <4>2. l3 = m[L3] /\ j \in 1 .. i + 1
        BY <2>1, <4>1 DEF NewL3
      <4> QED BY <3>2, <4>2
    <3> QED BY <2>2, <3>1, <3>2 DEF SharedL3
  <2>8. CASE x # L3
    <3>1. SharedL3(p, i + 1)
      BY <2>3, <2>7, <2>8 DEF SharedL3
    <3> QED BY <1>1, <2>1, <2>6, <2>8, <3>1 DEF p, x
  <2>9. CASE x = L3
    <3>1. \A j \in 1 .. i + 1 : FirstAt(j) => Tree[Names[j]].reserved \in FirstReserved
      BY <1>1, <2>1 DEF FirstAt, FirstReserved
    <3>2. OwnL3(p)
      BY <2>3, <2>7, <2>9, <3>1 DEF OwnL3
    <3> QED BY <1>1, <2>1, <2>6, <2>9, <3>2 DEF p, x
  <2> QED BY <2>8, <2>9
<1> HIDE DEF S
<1>4. 0 .. Looks \subseteq S
  BY <1>1, <1>2, <1>3, CountingTo
<1> QED BY <1>4 DEF S

(* The table that the probe leaves.                                         *)
Filled == /\ mem \in Table
          /\ \A x \in Nodes : There(x) => mem[x] = x
          /\ \A x \in Nodes \ {L3} : mem[x] = IF There(x) THEN x ELSE Zero
          /\ ~There(L3) => mem[L3] = Zero \/ mem[L3] \in FirstReserved

LEMMA ProbeFills == ASSUME setup \in Setups, mem = Probed[Looks] PROVE Filled
<1>1. /\ Looks \in Nat /\ DOMAIN Names = 1 .. Looks
      /\ \A x \in Nodes : Seen(Looks, x)
  BY Looked DEF Seen
<1>2. /\ Own(mem, Looks) /\ mem \in Table
      /\ IF Looks > 0 /\ Names[Looks] = L3 THEN OwnL3(mem) ELSE SharedL3(mem, Looks)
  BY <1>1, ProbedSteps, TableAfter
<1>3. \A x \in Nodes \ {L3} : mem[x] = IF There(x) THEN x ELSE Zero
  BY <1>1, <1>2 DEF Own
<1>4. OwnL3(mem)
  <2>1. CASE Looks > 0 /\ Names[Looks] = L3
    BY <1>2, <2>1
  <2>2. CASE ~(Looks > 0 /\ Names[Looks] = L3)
    <3>1. L3 \notin Nodes
      BY <1>1, <2>2, Looked DEF Seen
    <3>2. \A j \in 1 .. Looks : FirstAt(j) => Tree[Names[j]].reserved \in FirstReserved
      BY <1>1 DEF FirstAt, FirstReserved
    <3> QED BY <1>2, <2>2, <3>1, <3>2 DEF SharedL3, OwnL3, There
  <2> QED BY <2>1, <2>2
<1> QED BY <1>2, <1>3, <1>4 DEF Filled, OwnL3

(* The text has two lines for a node at most, before the one that the Occamy *)
(* driver adds.                                                             *)
LEMMA LinesType == ASSUME NEW m, NEW n PROVE Lines(m, n) \in 0 .. 2
  BY DEF Lines

LEMMA TextSize == ASSUME setup \in Setups PROVE Written[Looks] \in 0 .. 2 * Looks
<1>1. Looks \in Nat
  BY Looked
<1> DEFINE g == [p \in Nat \X (1 .. Looks) |-> p[1] + Lines(Probed[p[2] - 1], Tree[Names[p[2]]])]
<1>2. g \in [Nat \X (1 .. Looks) -> Nat] /\ 0 \in Nat
  <2>1. \A p \in Nat \X (1 .. Looks) : p[1] + Lines(Probed[p[2] - 1], Tree[Names[p[2]]]) \in Nat
    BY LinesType
  <2> QED BY <2>1
<1>3. \A w \in Nat, k \in 1 .. Looks : g[<<w, k>>] = w + Lines(Probed[k - 1], Tree[Names[k]])
  OBVIOUS
<1> HIDE DEF g
<1>4. PICK f \in [0 .. Looks -> Nat] : Steps(f, 0, Looks, g)
  BY <1>1, <1>2, Stepwise
<1>5. \A k \in 0 .. Looks : f[k] = IF k = 0 THEN 0 ELSE f[k - 1] + Lines(Probed[k - 1], Tree[Names[k]])
  <2> SUFFICES ASSUME NEW k \in 0 .. Looks
               PROVE  f[k] = IF k = 0 THEN 0 ELSE f[k - 1] + Lines(Probed[k - 1], Tree[Names[k]])
    OBVIOUS
  <2>1. k # 0 => k \in 1 .. Looks /\ f[k - 1] \in Nat
    BY <1>1
  <2> QED BY <1>3, <1>4, <2>1 DEF Steps
<1>6. f = [k \in 0 .. Len(Names) |-> IF k = 0 THEN 0
                                     ELSE f[k - 1] + Lines(Probed[k - 1], Tree[Names[k]])]
  BY <1>4, <1>5 DEF Looks
<1>7. Written = [k \in 0 .. Len(Names) |-> IF k = 0 THEN 0
                                           ELSE Written[k - 1] + Lines(Probed[k - 1], Tree[Names[k]])]
  BY <1>6, Zenon DEF Written
<1>8. ASSUME NEW k \in 0 .. Looks
      PROVE  Written[k] = IF k = 0 THEN 0 ELSE Written[k - 1] + Lines(Probed[k - 1], Tree[Names[k]])
  BY <1>7 DEF Looks
<1> DEFINE S == {k \in 0 .. Looks : Written[k] \in 0 .. 2 * k}
<1>9. 0 \in S
  <2>1. 0 \in 0 .. Looks /\ Written[0] = 0
    BY <1>1, <1>8
  <2>2. Written[0] \in 0 .. 2 * 0
    BY <2>1
  <2> QED BY <2>1, <2>2
<1>10. ASSUME NEW k \in 0 .. Looks - 1, k \in S PROVE k + 1 \in S
  <2>1. k + 1 \in 0 .. Looks /\ k + 1 # 0 /\ (k + 1) - 1 = k
    BY <1>1
  <2>2. Written[k + 1] = Written[k] + Lines(Probed[k], Tree[Names[k + 1]])
    BY <1>8, <2>1
  <2>3. Lines(Probed[k], Tree[Names[k + 1]]) \in 0 .. 2
    BY LinesType
  <2> QED BY <1>1, <1>10, <2>1, <2>2, <2>3, SMTT(30)
<1> HIDE DEF S
<1>11. 0 .. Looks \subseteq S
  BY <1>1, <1>9, <1>10, CountingTo
<1> QED BY <1>1, <1>11 DEF S

-----------------------------------------------------------------------------
(* card_read's count: it ends with the text, or is too long to copy.        *)
LEMMA Remainder ==
  ASSUME NEW w \in Nat \ {0}, NEW a \in - w .. w - 1
  PROVE  a % w = IF a < 0 THEN a + w ELSE a
  OBVIOUS

LEMMA ReadCount ==
  ASSUME text \in Nat, NEW at \in 0 .. MaxAsk, NEW count \in 0 .. MaxAsk
  PROVE  LET n == Count(at, count)
         IN  /\ n \in Nat
             /\ at <= text => at + n <= text
             /\ at > text => (n = count /\ count = 0) \/ n > CopyMax
<1>1. MaxAsk \in Nat /\ Word \in Nat /\ CopyMax \in Nat /\ 2 * MaxAsk < Word /\ CopyMax + MaxAsk < Word
  BY FilesAssumption
<1>2. CASE at + count <= text
  BY <1>1, <1>2 DEF Count
<1>3. CASE at + count > text
  <2> DEFINE a == text - at
  <2>1. a \in Int /\ - MaxAsk <= a /\ a < MaxAsk /\ (a < 0 <=> at > text)
    BY <1>1, <1>3
  <2>2. Word \in Nat \ {0} /\ a \in - Word .. Word - 1
    BY <1>1, <2>1
  <2> HIDE DEF a
  <2>3. a % Word = IF a < 0 THEN a + Word ELSE a
    BY <2>2, Remainder
  <2>4. Count(at, count) = a % Word
    BY <1>1, <1>3 DEF Count, a
  <2>5. a = text - at
    BY DEF a
  <2> QED BY <1>1, <1>3, <2>1, <2>3, <2>4, <2>5
<1> QED BY <1>1, <1>2, <1>3

-----------------------------------------------------------------------------
(* A call between pinning and mapping: its pages are the whole ones of its  *)
(* size, and the process's, or null pages all.                              *)
RequestOf(n) == [n : {n}, size : {s \in Sizes : NPages(s) = n}, iova : 0 .. Wrap - 1, aligned : BOOLEAN,
                 frames : [0 .. n - 1 -> Frame] \cup {[i \in 0 .. n - 1 |-> Garbage]}]
Request == UNION {RequestOf(n) : n \in 1 .. MaxPages}

Pages(c) == {c.iova + i : i \in 0 .. c.n - 1}
Tried(c, a) == c.aligned /\ a \in Pages(c)

LEMMA RequestFacts ==
  ASSUME NEW c \in Request
  PROVE  /\ c.n \in 1 .. MaxPages /\ c.iova \in 0 .. Wrap - 1 /\ c.aligned \in BOOLEAN
         /\ \A i \in 0 .. c.n - 1 : c.frames[i] \in Frame \cup {Garbage}
         /\ c.frames[0] # Garbage => \A i \in 0 .. c.n - 1 : c.frames[i] \in Frame
         /\ Pages(c) \subseteq IoPage /\ c.iova + c.n - 1 \in IoPage
         /\ c.n = NPages(c.size) /\ c \notin {Idle, Dead}
<1>1. MaxPages \in Nat /\ Wrap \in Nat \ {0}
  BY IommuAssumption
<1>2. PICK n \in 1 .. MaxPages : c \in RequestOf(n)
  BY DEF Request
<1>3. /\ c.n = n /\ NPages(c.size) = n /\ c.iova \in 0 .. Wrap - 1 /\ c.aligned \in BOOLEAN
      /\ c.frames \in [0 .. n - 1 -> Frame] \/ c.frames = [i \in 0 .. n - 1 |-> Garbage]
  BY <1>2 DEF RequestOf
<1>4. /\ \A i \in 0 .. n - 1 : c.frames[i] \in Frame \cup {Garbage}
      /\ c.frames[0] # Garbage => \A i \in 0 .. n - 1 : c.frames[i] \in Frame
  <2>1. 0 \in 0 .. n - 1
    BY <1>1
  <2> QED BY <1>3, <2>1
<1>5. \A i \in 0 .. n - 1 : c.iova + i \in IoPage
  BY <1>1, <1>3 DEF IoPage
<1>6. c.iova + n - 1 \in IoPage
  BY <1>1, <1>3 DEF IoPage
<1>7. c \notin {Idle, Dead}
  BY <1>1, <1>3 DEF Idle, Dead
<1> QED BY <1>3, <1>4, <1>5, <1>6, <1>7 DEF Pages

(* A set of numbers up to n that is not empty has a greatest one.           *)
LEMMA Greatest ==
  ASSUME NEW n \in Nat, NEW T, T \subseteq 0 .. n, T # {}
  PROVE  \E k \in T : \A j \in T : j <= k
<1> DEFINE S == {m \in 0 .. n : (\E j \in T : j <= m) =>
                                 \E k \in T : k <= m /\ \A j \in T : j <= m => j <= k}
<1>1. 0 \in S
  <2>1. \A j \in T : j <= 0 => j = 0
    OBVIOUS
  <2> QED BY <2>1
<1>2. ASSUME NEW m \in 0 .. n - 1, m \in S PROVE m + 1 \in S
  <2>1. \A j \in T : j <= m + 1 => j <= m \/ j = m + 1
    OBVIOUS
  <2>2. CASE m + 1 \in T
    BY <2>2
  <2>3. CASE m + 1 \notin T
    BY <1>2, <2>1, <2>3
  <2> QED BY <2>2, <2>3
<1> HIDE DEF S
<1>3. n \in S
  <2>1. 0 .. n \subseteq S
    BY <1>1, <1>2, CountingTo
  <2> QED BY <2>1
<1>4. (\E j \in T : j <= n) => \E k \in T : k <= n /\ \A j \in T : j <= n => j <= k
  BY <1>3 DEF S
<1>5. \A j \in T : j <= n
  OBVIOUS
<1> QED BY <1>4, <1>5

(* The pages that get_user_pages_fast counts as pinned are there.           *)
LEMMA PinsThere ==
  ASSUME NEW p \in Nat, NEW n \in Nat
  PROVE  /\ Pins(p, n) \in 0 .. n
         /\ \A i \in p .. p + Pins(p, n) - 1 : frames[i] # NoFrame
<1> DEFINE there == {k \in 0 .. n : \A i \in p .. p + k - 1 : frames[i] # NoFrame}
<1>1. there \subseteq 0 .. n /\ there # {}
  <2>1. 0 \in there
    OBVIOUS
  <2> QED BY <2>1
<1> HIDE DEF there
<1>2. \E k \in there : \A j \in there : j <= k
  BY <1>1, Greatest
<1>3. Pins(p, n) = CHOOSE k \in there : \A j \in there : j <= k
  BY DEF Pins, there
<1>4. Pins(p, n) \in there
  BY <1>2, <1>3
<1> QED BY <1>4 DEF there

(* The whole pages of a size are at most the pages it touches.              *)
LEMMA WholePages == ASSUME NEW s \in Sizes PROVE NPages(s) \in 0 .. MaxPages
<1>1. s \in Nat /\ MaxPages \in Nat /\ PageSize \in Nat \ {0} /\ s <= MaxPages * PageSize
  BY IommuAssumption
<1> DEFINE q == s \div PageSize
<1>2. q \in Nat /\ q * PageSize <= s
  BY <1>1
<1> HIDE DEF q
<1>3. ASSUME q > MaxPages PROVE FALSE
  <2>1. q >= MaxPages + 1
    BY <1>1, <1>2, <1>3
  <2>2. \A x, y \in Nat : x >= y => x * PageSize >= y * PageSize
    BY <1>1
  <2>3. q * PageSize >= (MaxPages + 1) * PageSize
    BY <1>1, <1>2, <2>1, <2>2
  <2>4. (MaxPages + 1) * PageSize = MaxPages * PageSize + PageSize
    BY <1>1
  <2>5. q * PageSize \in Nat /\ MaxPages * PageSize \in Nat
    BY <1>1, <1>2
  <2> QED BY <1>1, <1>2, <2>3, <2>4, <2>5
<1> QED BY <1>1, <1>2, <1>3 DEF NPages, q

(* What a call pins is a request.                                           *)
LEMMA PinsRequest ==
  ASSUME NEW t \in Thread, NEW p \in DOMAIN frames, NEW size_b \in Sizes, NEW aligned \in BOOLEAN,
         frames \in [0 .. UserPages - 1 -> Frame \cup {NoFrame}],
         pinned \in [Thread -> Request \cup {Idle, Dead}],
         p + NPages(size_b) <= UserPages, Pin(t, p, size_b, aligned)
  PROVE  \E c \in Request : pinned' = [pinned EXCEPT ![t] = c]
<1> DEFINE n == NPages(size_b)
<1>0. n \in 0 .. MaxPages /\ p + n <= UserPages /\ Enough(p, n)
  BY WholePages DEF Pin
<1>1. MaxPages \in Nat /\ Wrap \in Nat \ {0} /\ UserPages \in Nat /\ p \in Nat
  BY IommuAssumption
<1>2. n \in 1 .. MaxPages /\ (Pins(p, n) = 0 \/ Pins(p, n) = n)
  BY <1>0, <1>1 DEF Enough
<1> DEFINE fs == [i \in 0 .. n - 1 |-> IF Pins(p, n) = 0 THEN Garbage ELSE frames[p + i]]
           c == [n |-> n, size |-> size_b, iova |-> Iova(p), aligned |-> aligned, frames |-> fs]
<1>3. pinned' = [pinned EXCEPT ![t] = c]
  BY DEF Pin
<1>a. n = NPages(size_b)
  OBVIOUS
<1> HIDE DEF n
<1>4. Iova(p) \in 0 .. Wrap - 1
  BY <1>1 DEF Iova
<1>5. fs \in [0 .. n - 1 -> Frame] \cup {[i \in 0 .. n - 1 |-> Garbage]}
  <2>1. CASE Pins(p, n) = 0
    BY <2>1
  <2>2. CASE Pins(p, n) = n /\ n # 0
    <3>1. ASSUME NEW i \in 0 .. n - 1 PROVE frames[p + i] \in Frame
      <4>1. p + i \in p .. p + n - 1 /\ p + i \in 0 .. UserPages - 1
        BY <1>0, <1>1, <1>2
      <4>2. \A j \in p .. p + Pins(p, n) - 1 : frames[j] # NoFrame
        BY <1>1, <1>2, PinsThere
      <4>3. frames[p + i] # NoFrame
        BY <2>2, <4>1, <4>2
      <4> QED BY <4>1, <4>3
    <3> QED BY <2>2, <3>1
  <2> QED BY <1>2, <2>1, <2>2
<1> HIDE DEF fs
<1>6. c \in RequestOf(n)
  BY <1>a, <1>4, <1>5 DEF RequestOf
<1> HIDE DEF c
<1>7. c \in Request
  BY <1>2, <1>6 DEF Request
<1> QED BY <1>3, <1>7

-----------------------------------------------------------------------------
(* What the file gave out is in the table and in the text.                  *)
GivenOut == last.call = "map" =>
              last.id \in Fields /\ last.region = mem[last.id] /\ mem[last.id] # Zero

FilesInv == /\ setup \in Setups /\ Filled
            /\ text \in 0 .. 2 * Looks + 1 /\ pos \in -1 .. text
            /\ GivenOut /\ ReadStaysInText

(* A device page that nothing was mapped to is free; one that a call got is *)
(* counted; the calls that are under way are counted as if they had ended.  *)
Pending == {u \in Thread : pinned[u] \notin {Idle, Dead}}
Reaches(g) == g.aligned /\ g.frames[0] # Garbage =>
                \A i \in 0 .. g.n - 1 : claims[g.iova + i] = 1 =>
                   g.frames[i] \in Frame /\ iotlb[g.iova + i] = g.frames[i]
Claimed(g) == \A a \in IoPage : Tried(g, a) => claims[a] # 0

MapTypes == /\ frames \in [0 .. UserPages - 1 -> Frame \cup {NoFrame}]
            /\ iotlb \in [IoPage -> Frame \cup {NoFrame, Garbage}]
            /\ claims \in [IoPage -> Nat]
            /\ pinned \in [Thread -> Request \cup {Idle, Dead}]
            /\ granted \in Seq(Request)

MapInv == /\ MapTypes
          /\ Len(granted) + Cardinality(Pending) <= MaxCalls
          /\ \A a \in IoPage : claims[a] <= Len(granted)
          /\ \A a \in IoPage : claims[a] = 0 => iotlb[a] = NoFrame
          /\ \A k \in DOMAIN granted : Claimed(granted[k]) /\ Reaches(granted[k])

IInv == FilesInv /\ MapInv

LEMMA InitIInv == Init => IInv
<1> SUFFICES ASSUME Init PROVE IInv
  OBVIOUS
<1>1. setup \in Setups /\ mem = Probed[Looks] /\ text = Written[Looks] + HardwareLines /\ pos = -1 /\ last = Nothing
  BY DEF Init, FilesInit, Looks
<1>2. FilesInv
  <2>1. Filled /\ Written[Looks] \in 0 .. 2 * Looks /\ Looks \in Nat
    BY <1>1, ProbeFills, TextSize, Looked
  <2>2. HardwareLines \in {0, 1}
    BY DEF HardwareLines
  <2>3. text \in 0 .. 2 * Looks + 1
    BY <1>1, <2>1, <2>2
  <2>4. pos \in -1 .. text
    BY <1>1, <2>1, <2>3
  <2>5. GivenOut /\ ReadStaysInText
    BY <1>1 DEF GivenOut, ReadStaysInText, Nothing
  <2> QED BY <1>1, <2>1, <2>3, <2>4, <2>5 DEF FilesInv
<1>3. MapTypes /\ granted = <<>> /\ Pending = {} /\ \A a \in IoPage : claims[a] = 0 /\ iotlb[a] = NoFrame
  BY DEF Init, MapTypes, Pending
<1>4. Len(granted) = 0 /\ DOMAIN granted = {} /\ Cardinality(Pending) = 0
  BY <1>3, FS_EmptySet
<1>5. MapInv
  BY <1>3, <1>4, IommuAssumption DEF MapInv
<1> QED BY <1>2, <1>5 DEF IInv

(* The calls on the device file.                                            *)
LEMMA FilesKept ==
  ASSUME FilesInv,
         \/ FilesNext \/ Open("RDWR") \/ Release \/ UNCHANGED filesVars
  PROVE  FilesInv'
<1>1. /\ setup \in Setups /\ Filled /\ text \in 0 .. 2 * Looks + 1 /\ pos \in -1 .. text
      /\ GivenOut /\ ReadStaysInText
  BY DEF FilesInv
<1>2. Looks \in Nat /\ text \in Nat
  BY <1>1, Looked
<1>3. UNCHANGED <<setup, mem, text>>
  BY DEF FilesNext, Open, Release, Read, LookupMmap, filesVars
<1>4. setup' \in Setups /\ Filled' /\ text' \in 0 .. 2 * Looks' + 1
  BY <1>1, <1>3 DEF Filled, Table, Region, Fields, Nodes, Tree, Names, Looks, There, FirstReserved
<1> SUFFICES pos' \in -1 .. text /\ GivenOut' /\ ReadStaysInText'
  BY <1>3, <1>4 DEF FilesInv
<1>5. ASSUME last'.call \notin {"map", "read"} PROVE GivenOut' /\ ReadStaysInText'
  BY <1>5 DEF GivenOut, ReadStaysInText
<1>6. ASSUME NEW mode, Open(mode) PROVE pos' \in -1 .. text /\ GivenOut' /\ ReadStaysInText'
  <2>1. pos' \in {0, -1} /\ last'.call = "none"
    BY <1>6 DEF Open, Nothing
  <2> QED BY <1>2, <1>5, <2>1
<1>7. CASE Release
  <2>1. pos' = -1 /\ last'.call = "none"
    BY <1>7 DEF Release, Nothing
  <2> QED BY <1>2, <1>5, <2>1
<1>8. ASSUME NEW at \in 0 .. MaxAsk, NEW count \in 0 .. MaxAsk, Read(at, count)
      PROVE  pos' \in -1 .. text /\ GivenOut' /\ ReadStaysInText'
  <2> DEFINE n == Count(at, count)
  <2>1. /\ n \in Nat /\ (at <= text => at + n <= text)
        /\ at > text => n = 0 \/ n > CopyMax
    BY <1>2, ReadCount
  <2>2. /\ last' = IF n > CopyMax THEN [call |-> "fault"]
                   ELSE [call |-> "read", lines |-> {at + i : i \in 0 .. n - 1}]
        /\ pos' = IF at = pos /\ n <= CopyMax THEN pos + n ELSE pos
    BY <1>8 DEF Read
  <2> HIDE DEF n
  <2>3. MaxAsk \in Nat /\ CopyMax \in Nat
    BY FilesAssumption
  <2>4. pos' \in -1 .. text
    BY <1>1, <1>2, <2>1, <2>2, <2>3
  <2>5. CASE n > CopyMax
    <3>1. last'.call = "fault"
      BY <2>2, <2>5
    <3> QED BY <1>5, <2>4, <3>1
  <2>6. CASE ~(n > CopyMax)
    <3>1. last'.call = "read" /\ last'.lines = {at + i : i \in 0 .. n - 1}
      BY <2>2, <2>6
    <3>2. \A i \in 0 .. n - 1 : at + i \in 0 .. text - 1
      BY <1>2, <2>1, <2>3, <2>6
    <3> QED BY <1>3, <2>4, <3>1, <3>2 DEF GivenOut, ReadStaysInText
  <2> QED BY <2>4, <2>5, <2>6
<1>9. ASSUME NEW id \in Ids, LookupMmap(id)
      PROVE  pos' \in -1 .. text /\ GivenOut' /\ ReadStaysInText'
  <2>1. /\ pos' = pos
        /\ last' = IF LookupMem(id) = Zero THEN [call |-> "einval"]
                   ELSE [call |-> "map", id |-> id, region |-> DeviceRegion(id)]
    BY <1>9 DEF LookupMmap
  <2>2. CASE LookupMem(id) = Zero
    BY <1>1, <1>5, <2>1, <2>2
  <2>3. CASE LookupMem(id) # Zero
    <3>1. id \in Fields /\ mem[id] # Zero
      BY <2>3 DEF LookupMem
    <3>2. last'.call = "map" /\ last'.id = id /\ last'.region = mem[id]
      BY <2>1, <2>3 DEF DeviceRegion
    <3>3. Fields' = Fields
      BY <1>3 DEF Fields, Nodes, Tree
    <3> QED BY <1>1, <1>3, <2>1, <3>1, <3>2, <3>3 DEF GivenOut, ReadStaysInText
  <2> QED BY <2>2, <2>3
<1>10. CASE UNCHANGED filesVars
  BY <1>1, <1>3, <1>10 DEF filesVars, GivenOut, ReadStaysInText, Fields, Nodes, Tree
<1> QED BY <1>6, <1>7, <1>8, <1>9, <1>10 DEF FilesNext

-----------------------------------------------------------------------------
LEMMA PendingFinite == IsFiniteSet(Pending) /\ Cardinality(Pending) \in Nat
<1>1. Pending \subseteq Thread
  BY DEF Pending
<1> QED BY <1>1, FS_Subset, FS_CardinalityType, IommuAssumption

(* A mapping call in two steps.                                             *)
LEMMA PinKept ==
  ASSUME MapInv, NEW t \in Thread, NEW p \in DOMAIN frames, NEW size_b \in Sizes,
         NEW aligned \in BOOLEAN, p + NPages(size_b) <= UserPages, Pin(t, p, size_b, aligned)
  PROVE  MapInv'
<1>1. /\ MapTypes /\ (\A a \in IoPage : claims[a] <= Len(granted))
      /\ \A a \in IoPage : claims[a] = 0 => iotlb[a] = NoFrame
      /\ \A k \in DOMAIN granted : Claimed(granted[k]) /\ Reaches(granted[k])
  BY DEF MapInv
<1>2. /\ UNCHANGED <<frames, iotlb, granted, claims>> /\ pinned[t] = Idle
      /\ Len(granted) + Cardinality(Pending) < MaxCalls
  BY DEF Pin, Pending
<1>3. PICK c \in Request : pinned' = [pinned EXCEPT ![t] = c]
  BY <1>1, PinsRequest DEF MapTypes
<1>4. MapTypes'
  BY <1>1, <1>2, <1>3 DEF MapTypes
<1>5. Pending' = Pending \cup {t} /\ t \notin Pending
  BY <1>1, <1>2, <1>3, RequestFacts DEF Pending, MapTypes
<1>6. (Len(granted) + Cardinality(Pending) <= MaxCalls)'
  <2>1. Cardinality(Pending') = Cardinality(Pending) + 1 /\ Cardinality(Pending) \in Nat
    BY <1>5, PendingFinite, FS_AddElement
  <2>2. Len(granted) \in Nat /\ MaxCalls \in Nat
    BY <1>1, LenProperties, IommuAssumption DEF MapTypes
  <2> QED BY <1>2, <2>1, <2>2
<1> QED BY <1>1, <1>2, <1>4, <1>6 DEF MapInv, Claimed, Reaches

(* A call that cannot even begin, or not to its end, is no longer pending.  *)
LEMMA NoArrayKept == ASSUME MapInv, NEW t \in Thread, NEW size_b \in Sizes, NoArray(t, size_b) PROVE MapInv'
<1>1. /\ UNCHANGED <<frames, iotlb, granted, claims>> /\ pinned[t] = Idle
      /\ pinned' = [pinned EXCEPT ![t] = Dead] /\ MapTypes
  BY DEF NoArray, MapInv
<1>2. MapTypes'
  BY <1>1 DEF MapTypes
<1>3. Pending' = Pending
  BY <1>1 DEF Pending, MapTypes
<1> QED BY <1>1, <1>2, <1>3 DEF MapInv, Claimed, Reaches

LEMMA MapKept ==
  ASSUME MapInv, NEW t \in Thread, MapPages(t)
  PROVE  MapInv'
<1> DEFINE c == pinned[t]
<1>1. /\ MapTypes /\ (\A a \in IoPage : claims[a] <= Len(granted))
      /\ \A a \in IoPage : claims[a] = 0 => iotlb[a] = NoFrame
      /\ \A k \in DOMAIN granted : Claimed(granted[k]) /\ Reaches(granted[k])
      /\ Len(granted) + Cardinality(Pending) <= MaxCalls
  BY DEF MapInv
<1>2. c \in Request
  BY <1>1 DEF MapPages, MapTypes
<1>3. /\ claims' = [a \in IoPage |-> claims[a] + (IF Tried(c, a) THEN 1 ELSE 0)]
      /\ \E replaced \in SUBSET {a \in Pages(c) : iotlb[a] # NoFrame} :
           iotlb' = [a \in IoPage |-> IF Tried(c, a) /\ (iotlb[a] = NoFrame \/ a \in replaced)
                                      THEN c.frames[a - c.iova] ELSE iotlb[a]]
      /\ granted' = Append(granted, c)
      /\ \E after \in {Idle, Dead} : pinned' = [pinned EXCEPT ![t] = after]
      /\ frames' = frames
  BY DEF MapPages, Pages, Tried
<1> HIDE DEF c
<1>4. \A a \in Pages(c) : a \in IoPage /\ a - c.iova \in 0 .. c.n - 1 /\ c.frames[a - c.iova] \in Frame \cup {Garbage}
  <2>1. /\ c.n \in 1 .. MaxPages /\ c.iova \in 0 .. Wrap - 1
        /\ \A i \in 0 .. c.n - 1 : c.frames[i] \in Frame \cup {Garbage}
        /\ Pages(c) \subseteq IoPage
    BY <1>2, RequestFacts
  <2> SUFFICES ASSUME NEW a \in Pages(c)
               PROVE  a - c.iova \in 0 .. c.n - 1
    BY <2>1
  <2>2. PICK i \in 0 .. c.n - 1 : a = c.iova + i
    BY DEF Pages
  <2> QED BY <2>1, <2>2, IommuAssumption
<1>5. /\ iotlb' \in [IoPage -> Frame \cup {NoFrame, Garbage}]
      /\ \A a \in IoPage : ~Tried(c, a) => iotlb'[a] = iotlb[a]
      /\ \A a \in IoPage : Tried(c, a) /\ iotlb[a] = NoFrame => iotlb'[a] = c.frames[a - c.iova]
  BY <1>1, <1>3, <1>4 DEF MapTypes, Tried
<1>6. /\ claims' \in [IoPage -> Nat]
      /\ \A a \in IoPage : claims'[a] = IF Tried(c, a) THEN claims[a] + 1 ELSE claims[a]
  BY <1>1, <1>3 DEF MapTypes
<1>7. /\ Len(granted) \in Nat /\ granted' \in Seq(Request) /\ Len(granted') = Len(granted) + 1
      /\ DOMAIN granted = 1 .. Len(granted) /\ DOMAIN granted' = 1 .. Len(granted) + 1
      /\ \A k \in 1 .. Len(granted) : granted'[k] = granted[k] /\ granted[k] \in Request
      /\ granted'[Len(granted) + 1] = c
  BY <1>1, <1>2, <1>3, LenProperties, AppendProperties, ElementOfSeq DEF MapTypes
<1>8. MapTypes'
  BY <1>1, <1>3, <1>5, <1>6, <1>7 DEF MapTypes
<1>9. (Len(granted) + Cardinality(Pending) <= MaxCalls)'
  <2>1. Pending' = Pending \ {t} /\ t \in Pending
    BY <1>1, <1>2, <1>3, RequestFacts DEF Pending, MapTypes, c
  <2>2. Cardinality(Pending') = Cardinality(Pending) - 1 /\ Cardinality(Pending) \in Nat
    BY <2>1, PendingFinite, FS_RemoveElement
  <2> QED BY <1>1, <1>7, <2>2, IommuAssumption
<1>10. (\A a \in IoPage : claims[a] <= Len(granted))'
  <2> SUFFICES ASSUME NEW a \in IoPage PROVE claims'[a] <= Len(granted')
    BY DEF IoPage
  <2>1. claims[a] \in Nat /\ claims[a] <= Len(granted) /\ claims'[a] <= claims[a] + 1
    BY <1>1, <1>6 DEF MapTypes
  <2>2. claims'[a] \in Nat
    BY <1>6
  <2> QED BY <1>7, <2>1, <2>2
<1>11. (\A a \in IoPage : claims[a] = 0 => iotlb[a] = NoFrame)'
  <2> SUFFICES ASSUME NEW a \in IoPage, claims'[a] = 0 PROVE iotlb'[a] = NoFrame
    BY DEF IoPage
  <2>1. ~Tried(c, a) /\ claims[a] = 0
    BY <1>1, <1>6 DEF MapTypes
  <2> QED BY <1>1, <1>5, <2>1
<1>12. ASSUME NEW g \in Request, Claimed(g) PROVE Claimed(g)' /\ (Reaches(g) => Reaches(g)')
  <2>1. \A a \in IoPage : claims'[a] # 0 \/ claims'[a] = claims[a]
    BY <1>1, <1>6 DEF MapTypes
  <2>2. Claimed(g)'
    BY <1>12, <2>1 DEF Claimed, Tried, Pages, IoPage
  <2>3. ASSUME Reaches(g), g.aligned, g.frames[0] # Garbage, NEW i \in 0 .. g.n - 1,
               claims'[g.iova + i] = 1
        PROVE  g.frames[i] \in Frame /\ iotlb'[g.iova + i] = g.frames[i]
    <3> DEFINE a == g.iova + i
    <3>1. a \in IoPage /\ Tried(g, a)
      BY <2>3, RequestFacts DEF Tried, Pages
    <3>2. claims[a] # 0
      BY <1>12, <3>1 DEF Claimed
    <3>3. claims[a] = 1 /\ ~Tried(c, a)
      BY <1>1, <1>6, <2>3, <3>1, <3>2 DEF MapTypes
    <3>4. g.frames[i] \in Frame /\ iotlb[a] = g.frames[i]
      BY <2>3, <3>3 DEF Reaches
    <3> QED BY <1>5, <3>1, <3>3, <3>4
  <2> QED BY <2>2, <2>3 DEF Reaches
<1>13. ASSUME NEW g, g = c PROVE Claimed(g)' /\ Reaches(g)'
  <2>1. \A a \in IoPage : Tried(c, a) => claims'[a] # 0
    BY <1>1, <1>6 DEF MapTypes
  <2>2. ASSUME c.aligned, c.frames[0] # Garbage, NEW i \in 0 .. c.n - 1, claims'[c.iova + i] = 1
        PROVE  c.frames[i] \in Frame /\ iotlb'[c.iova + i] = c.frames[i]
    <3> DEFINE a == c.iova + i
    <3>1. a \in IoPage /\ Tried(c, a) /\ a - c.iova = i /\ c.frames[i] \in Frame
      BY <1>2, <2>2, RequestFacts, IommuAssumption DEF Tried, Pages
    <3> HIDE DEF a
    <3>2. claims[a] = 0
      BY <1>1, <1>6, <2>2, <3>1 DEF MapTypes, a
    <3>3. iotlb'[a] = c.frames[i]
      BY <1>1, <1>5, <3>1, <3>2
    <3> QED BY <3>1, <3>3 DEF a
  <2> QED BY <1>13, <2>1, <2>2 DEF Claimed, Reaches, Tried, Pages, IoPage
<1>14. (\A k \in DOMAIN granted : Claimed(granted[k]) /\ Reaches(granted[k]))'
  <2>1. ASSUME NEW k \in 1 .. Len(granted) + 1, NEW g, g = granted'[k]
        PROVE  Claimed(g)' /\ Reaches(g)'
    <3>1. CASE k \in 1 .. Len(granted)
      <4>1. g = granted[k] /\ g \in Request
        BY <1>7, <2>1, <3>1
      <4>2. Claimed(g) /\ Reaches(g)
        BY <1>1, <1>7, <3>1, <4>1
      <4> QED BY <1>12, <4>1, <4>2
    <3>2. CASE k = Len(granted) + 1
      <4>1. g = c
        BY <1>7, <2>1, <3>2
      <4> QED BY <1>13, <4>1
    <3> QED BY <1>7, <3>1, <3>2
  <2> QED BY <1>7, <2>1 DEF Claimed, Reaches, Tried, Pages, IoPage
<1> QED BY <1>8, <1>9, <1>10, <1>11, <1>14 DEF MapInv

-----------------------------------------------------------------------------
LEMMA RemapKept == ASSUME MapInv, NEW p \in DOMAIN frames, Remap(p) PROVE MapInv'
<1>1. /\ UNCHANGED <<iotlb, pinned, granted, claims>>
      /\ \E f \in Frame \cup {NoFrame} : frames' = [frames EXCEPT ![p] = f]
  BY DEF Remap
<1>2. MapTypes'
  BY <1>1 DEF MapInv, MapTypes
<1> QED BY <1>1, <1>2 DEF MapInv, Pending, Claimed, Reaches

LEMMA NextIInv == IInv /\ [Next]_allVars => IInv'
<1> SUFFICES ASSUME IInv, [Next]_allVars PROVE IInv'
  OBVIOUS
<1>1. FilesInv /\ MapInv
  BY DEF IInv
<1>2. ASSUME UNCHANGED iommuVars PROVE MapInv'
  BY <1>1, <1>2 DEF iommuVars, MapInv, MapTypes, Pending, Claimed, Reaches
<1>3. ASSUME UNCHANGED filesVars PROVE FilesInv'
  BY <1>1, <1>3, FilesKept
<1>4. CASE setup.iommu = "old" /\ FilesNext /\ UNCHANGED iommuVars
  BY <1>1, <1>2, <1>4, FilesKept DEF IInv
<1>5. CASE (Open("RDWR") \/ (Quiet /\ Release)) /\ UNCHANGED iommuVars
  BY <1>1, <1>2, <1>5, FilesKept DEF IInv
<1>6. ASSUME NEW p \in DOMAIN frames, Remap(p) PROVE IInv'
  <2>1. UNCHANGED filesVars
    BY <1>6 DEF Remap
  <2> QED BY <1>1, <1>3, <1>6, <2>1, RemapKept DEF IInv
<1>7. ASSUME NEW t \in Thread, NEW p \in DOMAIN frames, NEW size_b \in Sizes,
             NEW aligned \in BOOLEAN, p + NPages(size_b) <= UserPages, Pin(t, p, size_b, aligned)
      PROVE  IInv'
  <2>1. UNCHANGED filesVars
    BY <1>7 DEF Pin
  <2> QED BY <1>1, <1>3, <1>7, <2>1, PinKept DEF IInv
<1>8. ASSUME NEW t \in Thread, MapPages(t) PROVE IInv'
  <2>1. UNCHANGED filesVars
    BY <1>8 DEF MapPages
  <2> QED BY <1>1, <1>3, <1>8, <2>1, MapKept DEF IInv
<1>9. ASSUME NEW t \in Thread, NEW size_b \in Sizes, NoArray(t, size_b) PROVE IInv'
  <2>1. UNCHANGED filesVars
    BY <1>9 DEF NoArray
  <2> QED BY <1>1, <1>3, <1>9, <2>1, NoArrayKept DEF IInv
<1>10. CASE UNCHANGED allVars
  <2>1. UNCHANGED filesVars /\ UNCHANGED iommuVars
    BY <1>10 DEF allVars
  <2> QED BY <1>2, <1>3, <2>1 DEF IInv
<1> QED BY <1>4, <1>5, <1>6, <1>7, <1>8, <1>9, <1>10 DEF Next

THEOREM Invariance == Spec => []IInv
  BY InitIInv, NextIInv, PTL DEF Spec

(* The table, the position of the open file, the page tables and the calls  *)
(* keep their types and bounds: the position does not pass the text, and a   *)
(* mapping does not leave the device pages (card_read, hero_iommu_region_add). *)
THEOREM TypeCorrect == Spec => []TypeOK
<1>1. IInv => TypeOK
  <2> SUFFICES ASSUME IInv PROVE TypeOK
    OBVIOUS
  <2>1. FilesInv /\ MapInv /\ MapTypes
    BY DEF IInv, MapInv
  <2>2. /\ mem \in [Fields -> Region]
        /\ text \in 0 .. 2 * Len(Names) + 1 /\ pos \in -1 .. text
    BY <2>1 DEF FilesInv, Filled, Table, Looks
  <2>3. Len(granted) \in Nat /\ MaxCalls \in Nat /\ Cardinality(Pending) \in Nat
    BY <2>1, LenProperties, PendingFinite, IommuAssumption DEF MapTypes
  <2>4. Len(granted) <= MaxCalls
    BY <2>1, <2>3 DEF MapInv
  <2>5. claims \in [IoPage -> 0 .. MaxCalls]
    <3>1. \A a \in IoPage : claims[a] \in 0 .. MaxCalls
      BY <2>1, <2>3, <2>4 DEF MapInv, MapTypes
    <3> QED BY <2>1, <3>1 DEF MapTypes
  <2>6. \A t \in Thread : pinned[t] \in {Idle, Dead} \/ pinned[t].iova + pinned[t].n - 1 \in IoPage
    BY <2>1, RequestFacts DEF MapTypes
  <2> QED BY <2>1, <2>2, <2>4, <2>5, <2>6 DEF TypeOK, MapTypes, Region
<1> QED BY <1>1, Invariance, PTL

(* On every device tree, what driver_lookup_mmap maps under a name is the   *)
(* region of that node, or for the L3 memory the first one reserved, and a   *)
(* node that is there is found.                                             *)
THEOREM MapsRight == Spec => []MapsNamed
<1>1. IInv => MapsNamed
  <2> SUFFICES ASSUME IInv PROVE MapsNamed
    OBVIOUS
  <2>1. Filled /\ GivenOut
    BY DEF IInv, FilesInv
  <2>2. ASSUME last.call = "map"
        PROVE  \/ There(last.id) /\ last.region = last.id
               \/ last.id = L3 /\ ~There(L3) /\ last.region \in FirstReserved
    <3>1. last.id \in Fields /\ last.region = mem[last.id] /\ mem[last.id] # Zero
      BY <2>1, <2>2 DEF GivenOut
    <3>2. CASE There(last.id)
      BY <2>1, <3>1, <3>2 DEF Filled, There
    <3>3. CASE ~There(last.id)
      BY <2>1, <3>1, <3>3 DEF Filled, Fields
    <3> QED BY <3>2, <3>3
  <2>3. \A id \in Nodes : There(id) => LookupMem(id) = id
    BY <2>1 DEF Filled, LookupMem, Fields
  <2> QED BY <2>2, <2>3 DEF MapsNamed
<1> QED BY <1>1, Invariance, PTL

(* A card_read at any position and for any count gives lines of the text.   *)
THEOREM ReadsText == Spec => []ReadStaysInText
<1>1. IInv => ReadStaysInText
  BY DEF IInv, FilesInv
<1> QED BY <1>1, Invariance, PTL

(* For any number of threads, sizes and calls, a device address that         *)
(* IOCTL_IOMMU_MAP mapped reaches each whole page of the size that was asked *)
(* for, as the process had it then, if the address was aligned, the pages    *)
(* were there and no other call got the same device page.                   *)
THEOREM AddressesReach == Spec => []IovaReaches
<1>1. IInv => IovaReaches
  <2> SUFFICES ASSUME IInv PROVE IovaReaches
    OBVIOUS
  <2>1. ASSUME NEW k \in DOMAIN granted
        PROVE  Reaches(granted[k]) /\ granted[k].n = NPages(granted[k].size)
    <3>1. MapInv /\ granted \in Seq(Request)
      BY DEF IInv, MapInv, MapTypes
    <3>2. granted[k] \in Request
      BY <2>1, <3>1
    <3> QED BY <2>1, <3>1, <3>2, RequestFacts DEF MapInv
  <2> QED BY <2>1 DEF Reaches, IovaReaches
<1> QED BY <1>1, Invariance, PTL
=============================================================================
