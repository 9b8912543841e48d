---------------------------- MODULE MatvecProofs ----------------------------
(***************************************************************************)
(* The matrix-vector kernel is right on two cores, the number Spatz has and *)
(* its two buffers are made for: for every shape and every vector length.   *)
(***************************************************************************)
EXTENDS Matvec, FiniteSetTheorems, TLAPS

(* The transfers whose elements are still on their way, as they began: those *)
(* of Enter, or the rows the next round will need.                           *)
Rows(r) == IF d - r < 2 THEN d - r ELSE 2
Fetch(r, k) == Transfer(Buffer(k), "w", r, n * Rows(r))
First == {Transfer(XBuffer, "x", 0, n), Transfer(Buffer(0), "w", 0, 2 * n)}

Expected == IF pc = "loop" /\ I = 0 THEN First
            ELSE IF pc = "loop" /\ I < d THEN {Fetch(I, it)}
            ELSE IF pc = "parallel" /\ I + 2 < d THEN {Fetch(I + 2, it + 1)}
            ELSE {}

Of(t, w) == /\ t.to = w.to /\ t.from = w.from /\ t.row = w.row /\ t.len = w.len
            /\ t.done \in 0 .. w.len - 1

\* What is under way is part of what is expected, each transfer once; and what
\* is not under way any more has arrived.
InFlight == /\ \A t \in dma : t = [to |-> t.to, from |-> t.from, row |-> t.row,
                                   len |-> t.len, done |-> t.done]
            /\ \A t \in dma : \E w \in Expected : Of(t, w)
            /\ \A s, t \in dma : s.from = t.from => s = t
Arriving == \A w \in Expected : \A k \in 0 .. w.len - 1 :
              l1[w.to + k] = Source(w, k) \/ \E t \in dma : t.from = w.from /\ t.done <= k

\* In the parallel region the vector and the rows of the round are there, and
\* the vector stays.
There == /\ pc = "parallel" \/ (pc = "loop" /\ I > 0) =>
              \A j \in 0 .. n - 1 : l1[XBuffer + j] = X(j)
         /\ pc = "parallel" =>
              \A c \in {0, 1} : I + c < d =>
                \A j \in 0 .. n - 1 : l1[Buffer(it) + c * n + j] = W(I + c, j)

\* A core has summed up what it has seen of its row, lane by lane.
Product(c, j) == <<X(j), W(I + c, j)>>
Lane(c, i, q) == {Product(c, VlMax * a + i) : a \in 0 .. q - 1}
Summed(c) ==
  LET f == core[c]
  IN  f.state = "next" =>
        /\ n <= VlMax => f.avl = 0 /\ f.vl = n /\ \A i \in 0 .. n - 1 : f.acc[i] = {Product(c, i)}
        /\ n > VlMax /\ WholeChunks =>
             /\ f.vl = VlMax
             /\ \E q \in 0 .. n : /\ n - f.avl = VlMax * q
                                  /\ \A i \in 0 .. VlMax - 1 : f.acc[i] = Lane(c, i, q)

Right(r) == out[r] = {<<X(j), W(r, j)>> : j \in 0 .. n - 1}
Computing == \A c \in {0, 1} :
  /\ core[c].state # "off" => pc = "parallel" /\ I + c < d
  /\ core[c].state = "first" => core[c].avl = n
  /\ pc = "parallel" => Summed(c)
  /\ pc = "parallel" /\ core[c].state = "off" /\ I + c < d /\ WholeChunks => Right(I + c)

Places == /\ <<n, d>> \in Shapes /\ given \in BOOLEAN /\ n \in Nat /\ d \in Nat /\ ret \in {0, -1}
          /\ pc \in {"start", "loop", "parallel", "exit"}
          /\ I \in 0 .. d + 1 /\ it \in 0 .. d /\ I = 2 * it
          /\ l1 = [a \in 0 .. L1Size - 1 |-> l1[a]]
          /\ core = [c \in {0, 1} |-> core[c]]
          /\ \A c \in {0, 1} : /\ core[c].avl \in 0 .. n /\ core[c].vl \in 0 .. VlMax
                               /\ core[c].state \in {"off", "first", "next"}
          /\ out = [r \in 0 .. d - 1 |-> out[r]]
          /\ pc = "start" => I = 0 /\ ret = 0 /\ \A r \in 0 .. d - 1 : out[r] = {}
          /\ pc \in {"loop", "parallel"} => n > 0 /\ d > 0 /\ ret = 0
          /\ pc = "parallel" => I < d

Computed == WholeChunks => \A r \in 0 .. d - 1 : r < I => Right(r)

IInv == Places /\ InFlight /\ Arriving /\ There /\ Computing /\ Computed /\ ResultRight

LEMMA InitIInv == ASSUME Cores = 2 PROVE Init => IInv
<1> SUFFICES ASSUME Init PROVE IInv
  OBVIOUS
<1>1. PICK s \in Shapes : n = s[1] /\ d = s[2]
  BY DEF Init
<1>2. s = <<n, d>> /\ n \in Nat /\ d \in Nat
  BY <1>1, MatvecAssumption
<1>3. /\ given \in BOOLEAN /\ pc = "start" /\ ret = 0 /\ I = 0 /\ it = 0 /\ dma = {} /\ Core = {0, 1}
      /\ l1 = [a \in 0 .. L1Size - 1 |-> <<"init">>] /\ out = [r \in 0 .. d - 1 |-> {}]
      /\ core = [c \in Core |-> NoCall]
  BY DEF Init, Core
<1>4. \A c \in {0, 1} : core[c].avl = 0 /\ core[c].vl = 0 /\ core[c].state = "off"
  BY <1>3 DEF NoCall
<1>5. Places
  BY <1>1, <1>2, <1>3, <1>4, MatvecAssumption DEF Places
<1>6. Expected = {}
  BY <1>3 DEF Expected
<1> QED BY <1>2, <1>3, <1>4, <1>5, <1>6
        DEF IInv, InFlight, Arriving, There, Computing, Computed, ResultRight

-----------------------------------------------------------------------------
(* The two buffers change places.                                           *)
LEMMA Buffers ==
  ASSUME n \in Nat, NEW k \in Nat
  PROVE  \/ Buffer(k) = n /\ Buffer(k + 1) = 3 * n
         \/ Buffer(k) = 3 * n /\ Buffer(k + 1) = n
<1>1. k % 2 \in {0, 1} /\ (k + 1) % 2 = 1 - (k % 2)
  OBVIOUS
<1>2. CASE k % 2 = 0
  BY <1>1, <1>2 DEF Buffer
<1>3. CASE k % 2 = 1
  BY <1>1, <1>3 DEF Buffer
<1> QED BY <1>1, <1>2, <1>3

\* The rows that are fetched together lie one after the other.
LEMMA SourceRow ==
  ASSUME n \in Nat, NEW w, w.from = "w", NEW c \in {0, 1}, NEW j \in 0 .. n - 1
  PROVE  Source(w, c * n + j) = W(w.row + c, j)
<1>1. (c * n + j) \div n = c /\ (c * n + j) % n = j
  <2>1. CASE c = 0
    BY <2>1
  <2>2. CASE c = 1
    BY <2>2
  <2> QED BY <2>1, <2>2
<1> QED BY <1>1 DEF Source

LEMMA FetchFacts ==
  ASSUME Places, NEW r \in Nat, r < d, NEW k \in Nat
  PROVE  /\ Fetch(r, k).len \in Nat /\ Fetch(r, k).len <= 2 * n
         /\ n > 0 => Fetch(r, k).len > 0
         /\ \A c \in {0, 1} : r + c < d => c * n + n <= Fetch(r, k).len
         /\ Fetch(r, k).to = Buffer(k) /\ Fetch(r, k).from = "w" /\ Fetch(r, k).row = r
         /\ Fetch(r, k).done = 0
<1>1. Rows(r) \in {1, 2} /\ n \in Nat /\ d \in Nat
  BY DEF Rows, Places
<1>2. Fetch(r, k).len = n * Rows(r)
  BY DEF Fetch, Transfer
<1>3. CASE Rows(r) = 1
  <2>1. Fetch(r, k).len = n /\ r + 1 >= d
    BY <1>1, <1>2, <1>3 DEF Rows
  <2> QED BY <1>1, <2>1 DEF Fetch, Transfer
<1>4. CASE Rows(r) = 2
  <2>1. Fetch(r, k).len = 2 * n
    BY <1>1, <1>2, <1>4
  <2> QED BY <1>1, <2>1 DEF Fetch, Transfer
<1> QED BY <1>1, <1>3, <1>4

\* A transfer fits, and leaves alone what the cores read.
LEMMA ExpectedFacts ==
  ASSUME Places, NEW w \in Expected
  PROVE  /\ w.len \in Nat \ {0} /\ w.to \in Nat /\ w.to + w.len <= 5 * n /\ w.done = 0
         /\ w.from \in {"x", "w"} /\ \A v \in Expected : v.from = w.from => v = w
         /\ \A v \in Expected : v.from # w.from => v.to + v.len <= w.to \/ w.to + w.len <= v.to
         /\ pc \in {"loop", "parallel"} /\ (pc = "loop" /\ I > 0 => w.to >= n)
         /\ pc = "parallel" => /\ w.to >= n
                               /\ w.to + w.len <= Buffer(it) \/ w.to >= Buffer(it) + 2 * n
<1>1. /\ n \in Nat /\ d \in Nat /\ it \in Nat /\ I = 2 * it /\ I \in Nat
      /\ pc \in {"loop", "parallel"} => n > 0
  BY DEF Places
<1>2. CASE pc = "loop" /\ I = 0
  <2>1. /\ w = Transfer(XBuffer, "x", 0, n) \/ w = Transfer(Buffer(0), "w", 0, 2 * n)
        /\ Buffer(0) = n
    BY <1>1, <1>2 DEF Expected, First, Buffer
  <2> QED BY <1>1, <1>2, <2>1 DEF Expected, First, Transfer, XBuffer
<1>3. CASE pc = "loop" /\ I > 0 /\ I < d
  <2>1. Expected = {Fetch(I, it)}
    BY <1>1, <1>3 DEF Expected
  <2> QED BY <1>1, <1>3, <2>1, FetchFacts, Buffers
<1>4. CASE pc = "parallel" /\ I + 2 < d
  <2>1. Expected = {Fetch(I + 2, it + 1)}
    BY <1>1, <1>4 DEF Expected
  <2>2. I + 2 \in Nat /\ it + 1 \in Nat
    BY <1>1
  <2> QED BY <1>1, <1>4, <2>1, <2>2, FetchFacts, Buffers
<1> QED BY <1>1, <1>2, <1>3, <1>4 DEF Expected

-----------------------------------------------------------------------------
(* Every step keeps the invariant.                                          *)
LEMMA Resting ==
  ASSUME IInv, Expected = {} PROVE dma = {}
  BY DEF IInv, InFlight

LEMMA UnchangedKept ==
  ASSUME IInv, UNCHANGED vars PROVE IInv'
<1>1. /\ n' = n /\ d' = d /\ given' = given /\ pc' = pc /\ ret' = ret /\ I' = I /\ it' = it
      /\ l1' = l1 /\ dma' = dma /\ core' = core /\ out' = out
  BY DEF vars
<1>2. Expected' = Expected
  BY <1>1 DEF Expected, First, Fetch, Rows, Buffer
<1>3. Places' /\ InFlight'
  BY <1>1, <1>2 DEF IInv, Places, InFlight, L1Size
<1>4. Arriving' /\ There'
  BY <1>1, <1>2 DEF IInv, Arriving, There, Source, Buffer
<1>5. Computing'
  <2>1. ASSUME NEW c \in {0, 1} PROVE Summed(c)' = Summed(c) /\ Right(I + c)' = Right(I + c)
    BY <1>1 DEF Summed, Lane, Product, Right, WholeChunks
  <2> QED BY <1>1, <2>1 DEF IInv, Computing, WholeChunks
<1>6. Computed' /\ ResultRight'
  BY <1>1 DEF IInv, Computed, ResultRight, Right, WholeChunks
<1> QED BY <1>3, <1>4, <1>5, <1>6 DEF IInv

LEMMA ExitKept ==
  ASSUME Cores = 2, IInv, Refuse \/ Nothing \/ Leave PROVE IInv'
<1>1. /\ pc' = "exit" /\ n' = n /\ d' = d /\ given' = given /\ I' = I /\ it' = it
      /\ l1' = l1 /\ dma' = dma /\ core' = core /\ out' = out
      /\ pc = "start" \/ (pc = "loop" /\ I >= d)
  BY DEF Refuse, Nothing, Leave
<1>2. n \in Nat /\ d \in Nat /\ I \in Nat /\ (pc = "loop" => d > 0)
  BY DEF IInv, Places
<1>3. Expected = {} /\ Expected' = {}
  BY <1>1, <1>2 DEF Expected
<1>4. dma = {}
  BY <1>3, Resting
<1>5. \A c \in {0, 1} : core[c].state = "off"
  BY <1>1 DEF IInv, Computing
<1>6. Places'
  <2>1. ret' \in {0, -1}
    BY DEF IInv, Places, Refuse, Nothing, Leave
  <2> QED BY <1>1, <2>1 DEF IInv, Places, L1Size
<1>7. InFlight' /\ Arriving' /\ There' /\ Computing'
  BY <1>1, <1>3, <1>4, <1>5 DEF InFlight, Arriving, There, Computing
<1>8. Computed'
  BY <1>1 DEF IInv, Computed, Right, WholeChunks
<1>9. ResultRight'
  <2>1. CASE Refuse
    BY <2>1 DEF Refuse, ResultRight
  <2>2. CASE Nothing
    <3>1. n = 0 \/ d = 0 \/ ~given'
      BY <2>2 DEF Nothing
    <3>2. \A r \in 0 .. d - 1 : out[r] = {}
      BY <2>2 DEF Nothing, IInv, Places
    <3> QED BY <1>1, <1>2, <1>4, <3>1, <3>2 DEF ResultRight
  <2>3. CASE Leave
    <3>1. I >= d
      BY <2>3 DEF Leave
    <3>2. WholeChunks => \A r \in 0 .. d - 1 : Right(r)
      BY <1>2, <3>1 DEF IInv, Computed
    <3> QED BY <1>1, <1>4, <3>2 DEF ResultRight, Right, WholeChunks
  <2> QED BY <2>1, <2>2, <2>3
<1> QED BY <1>6, <1>7, <1>8, <1>9 DEF IInv

LEMMA EnterKept ==
  ASSUME Cores = 2, IInv, Enter PROVE IInv'
<1>1. /\ pc = "start" /\ pc' = "loop" /\ n > 0 /\ d > 0 /\ dma' = First
      /\ n' = n /\ d' = d /\ given' = given /\ ret' = ret /\ I' = I /\ it' = it
      /\ l1' = l1 /\ core' = core /\ out' = out
  BY DEF Enter, First
<1>2. n \in Nat /\ d \in Nat /\ I = 0 /\ ret = 0
  BY <1>1 DEF IInv, Places
<1>3. Expected' = First
  BY <1>1, <1>2 DEF Expected, First, Buffer
<1>4. Places'
  BY <1>1, <1>2 DEF IInv, Places, L1Size
<1>5. First = {Transfer(XBuffer, "x", 0, n), Transfer(Buffer(0), "w", 0, 2 * n)}
  BY DEF First
<1>6. InFlight'
  <2>1. \A t \in First : Of(t, t) /\ t = [to |-> t.to, from |-> t.from, row |-> t.row,
                                        len |-> t.len, done |-> t.done]
    BY <1>1, <1>2, <1>5 DEF Transfer, Of
  <2>2. \A s, t \in First : s.from = t.from => s = t
    BY <1>5 DEF Transfer
  <2> QED BY <1>1, <1>3, <2>1, <2>2 DEF InFlight
<1>7. Arriving'
  BY <1>1, <1>3, <1>5 DEF Arriving, Transfer
<1>8. There' /\ Computing' /\ ResultRight'
  BY <1>1, <1>2 DEF IInv, There, Computing, ResultRight
<1>9. Computed'
  BY <1>1 DEF IInv, Computed, Right, WholeChunks
<1> QED BY <1>4, <1>6, <1>7, <1>8, <1>9 DEF IInv

\* When nothing is under way what was expected is there.
LEMMA Arrived ==
  ASSUME IInv, pc = "loop", I < d, dma = {}
  PROVE  /\ \A j \in 0 .. n - 1 : l1[XBuffer + j] = X(j)
         /\ \A c \in {0, 1} : I + c < d =>
              \A j \in 0 .. n - 1 : l1[Buffer(it) + c * n + j] = W(I + c, j)
<1>1. /\ n \in Nat \ {0} /\ d \in Nat /\ I \in Nat /\ it \in Nat /\ I = 2 * it
      /\ Places /\ Arriving /\ There
  BY DEF IInv, Places
<1>2. \A w \in Expected : \A k \in 0 .. w.len - 1 : l1[w.to + k] = Source(w, k)
  BY <1>1 DEF Arriving
<1>3. CASE I = 0
  <2> DEFINE x == Transfer(XBuffer, "x", 0, n)
             w == Transfer(Buffer(0), "w", 0, 2 * n)
  <2>1. x \in Expected /\ w \in Expected
    BY <1>3 DEF Expected, First
  <2>2. x.to = XBuffer /\ x.from = "x" /\ x.len = n
    BY DEF Transfer
  <2>3. w.to = Buffer(0) /\ w.from = "w" /\ w.row = 0 /\ w.len = 2 * n
    BY DEF Transfer
  <2> HIDE DEF x, w
  <2>4. \A j \in 0 .. n - 1 : l1[XBuffer + j] = X(j)
    BY <1>2, <2>1, <2>2 DEF Source
  <2>5. ASSUME NEW c \in {0, 1}, NEW j \in 0 .. n - 1
        PROVE  l1[Buffer(it) + c * n + j] = W(I + c, j)
    <3>1. c * n + j \in 0 .. w.len - 1
      BY <1>1, <2>3
    <3>2. l1[w.to + (c * n + j)] = Source(w, c * n + j)
      BY <1>2, <2>1, <3>1
    <3>3. Source(w, c * n + j) = W(0 + c, j)
      BY <1>1, <2>3, SourceRow
    <3>4. w.to + (c * n + j) = Buffer(it) + c * n + j
      <4>1. it = 0 /\ Buffer(0) \in Nat /\ c * n \in Nat
        BY <1>1, <1>3 DEF Buffer
      <4> QED BY <2>3, <4>1
    <3> QED BY <1>3, <3>2, <3>3, <3>4
  <2> QED BY <2>4, <2>5
<1>4. CASE I > 0
  <2> DEFINE w == Fetch(I, it)
  <2>1. w \in Expected
    BY <1>1, <1>4 DEF Expected
  <2>2. /\ w.to = Buffer(it) /\ w.from = "w" /\ w.row = I
        /\ \A c \in {0, 1} : I + c < d => c * n + n <= w.len
        /\ w.len \in Nat
    BY <1>1, FetchFacts
  <2> HIDE DEF w
  <2>3. ASSUME NEW c \in {0, 1}, I + c < d, NEW j \in 0 .. n - 1
        PROVE  l1[Buffer(it) + c * n + j] = W(I + c, j)
    <3>1. c * n + j \in 0 .. w.len - 1
      BY <1>1, <2>2, <2>3
    <3>2. l1[w.to + (c * n + j)] = Source(w, c * n + j)
      BY <1>2, <2>1, <3>1
    <3>3. Source(w, c * n + j) = W(I + c, j)
      BY <1>1, <2>2, SourceRow
    <3>4. w.to + (c * n + j) = Buffer(it) + c * n + j
      <4>1. Buffer(it) \in Nat /\ c * n \in Nat
        BY <1>1, Buffers
      <4> QED BY <2>2, <4>1
    <3> QED BY <3>2, <3>3, <3>4
  <2> QED BY <1>1, <1>4, <2>3 DEF There
<1> QED BY <1>1, <1>3, <1>4

LEMMA RoundKept ==
  ASSUME Cores = 2, IInv, Round PROVE IInv'
<1>1. /\ pc = "loop" /\ pc' = "parallel" /\ I < d /\ dma = {} /\ dma' = Prefetch
      /\ n' = n /\ d' = d /\ given' = given /\ ret' = ret /\ I' = I /\ it' = it
      /\ l1' = l1 /\ out' = out
      /\ core' = [c \in {0, 1} |-> IF I + c < d THEN [NoCall EXCEPT !.avl = n, !.state = "first"]
                                   ELSE NoCall]
  BY DEF Round, Waited, Core
<1>2. n \in Nat \ {0} /\ d \in Nat /\ I \in Nat /\ it \in Nat /\ ret = 0 /\ Places
  BY <1>1 DEF IInv, Places
<1>3. /\ Expected' = IF I + 2 < d THEN {Fetch(I + 2, it + 1)} ELSE {}
      /\ Prefetch = Expected'
  <2>1. Expected' = IF I + 2 < d THEN {Fetch(I + 2, it + 1)} ELSE {}
    BY <1>1 DEF Expected, Fetch, Rows, Buffer
  <2>2. RowsLeft > 2 <=> I + 2 < d
    BY <1>2 DEF RowsLeft
  <2>3. Ahead = Buffer(it + 1) /\ RowsAhead = Rows(I + 2)
    BY <1>2 DEF Ahead, RowsAhead, RowsLeft, Rows
  <2> QED BY <2>1, <2>2, <2>3 DEF Prefetch, Fetch
<1>4. \A c \in {0, 1} : /\ core'[c].state = IF I + c < d THEN "first" ELSE "off"
                        /\ core'[c].avl = IF I + c < d THEN n ELSE 0
                        /\ core'[c].vl = 0
  BY <1>1 DEF NoCall
<1>5. Places'
  <2>1. core' = [c \in {0, 1} |-> core'[c]]
    BY <1>1
  <2>2. \A c \in {0, 1} : /\ core'[c].avl \in 0 .. n /\ core'[c].vl \in 0 .. VlMax
                           /\ core'[c].state \in {"off", "first", "next"}
    BY <1>2, <1>4, MatvecAssumption
  <2> QED BY <1>1, <1>2, <2>1, <2>2 DEF Places, L1Size
<1>6. InFlight'
  <2>1. ASSUME NEW t \in Expected'
        PROVE  Of(t, t) /\ t = [to |-> t.to, from |-> t.from, row |-> t.row,
                                len |-> t.len, done |-> t.done]
    <3>1. I + 2 < d /\ t = Fetch(I + 2, it + 1)
      BY <1>3, <2>1
    <3>2. t.len \in Nat \ {0} /\ t.done = 0
      BY <1>2, <3>1, FetchFacts
    <3> QED BY <3>1, <3>2 DEF Of, Fetch, Transfer
  <2> QED BY <1>1, <1>3, <2>1 DEF InFlight
<1>7. Arriving'
  <2>1. \A t \in Expected' : t.done = 0
    BY <1>3 DEF Fetch, Transfer
  <2> QED BY <1>1, <1>3, <2>1 DEF Arriving
<1>8. There'
  BY <1>1, Arrived DEF There, Buffer
<1>9. Computing'
  BY <1>1, <1>2, <1>4 DEF Computing, Summed
<1>10. Computed' /\ ResultRight'
  BY <1>1 DEF IInv, Computed, ResultRight, Right, WholeChunks
<1> QED BY <1>5, <1>6, <1>7, <1>8, <1>9, <1>10 DEF IInv

LEMMA JoinKept ==
  ASSUME Cores = 2, IInv, Join PROVE IInv'
<1>1. /\ pc = "parallel" /\ pc' = "loop" /\ I' = I + 2 /\ it' = it + 1
      /\ \A c \in {0, 1} : core[c].state = "off"
      /\ n' = n /\ d' = d /\ given' = given /\ ret' = ret /\ l1' = l1 /\ dma' = dma /\ core' = core /\ out' = out
  BY DEF Join, Core
<1>2. /\ n \in Nat \ {0} /\ d \in Nat /\ I \in Nat /\ I < d /\ it \in Nat /\ I = 2 * it /\ ret = 0
      /\ Places
  BY <1>1 DEF IInv, Places
<1>3. Expected' = Expected
  <2>1. Expected' = IF I + 2 < d THEN {Fetch(I + 2, it + 1)} ELSE {}
    BY <1>1, <1>2 DEF Expected, Fetch, Rows, Buffer
  <2> QED BY <1>1, <2>1 DEF Expected
<1>4. Places'
  <2>1. I + 2 \in 0 .. d + 1 /\ it + 1 \in 0 .. d /\ I + 2 = 2 * (it + 1)
    BY <1>2
  <2> QED BY <1>1, <1>2, <2>1 DEF Places, L1Size
<1>5. InFlight' /\ Arriving'
  BY <1>1, <1>3 DEF IInv, InFlight, Arriving, Source
<1>6. There' /\ Computing' /\ ResultRight'
  BY <1>1 DEF IInv, There, Computing, ResultRight
<1>7. Computed'
  <2> SUFFICES ASSUME WholeChunks, NEW r \in 0 .. d - 1, r < I + 2 PROVE Right(r)
    BY <1>1 DEF Computed, Right, WholeChunks
  <2>1. CASE r < I
    BY <2>1 DEF IInv, Computed
  <2>2. CASE r >= I
    <3>1. PICK c \in {0, 1} : r = I + c
      BY <1>2, <2>2
    <3> QED BY <1>1, <1>2, <3>1 DEF IInv, Computing
  <2> QED BY <1>2, <2>1, <2>2
<1> QED BY <1>4, <1>5, <1>6, <1>7 DEF IInv

(* The sums of the lanes are those of the row.                              *)
LEMMA Lanes ==
  ASSUME NEW c, NEW q \in Nat
  PROVE  UNION {Lane(c, i, q) : i \in 0 .. VlMax - 1} = {Product(c, j) : j \in 0 .. VlMax * q - 1}
<1>1. VlMax \in Nat \ {0}
  BY MatvecAssumption
<1>2. ASSUME NEW i \in 0 .. VlMax - 1, NEW a \in 0 .. q - 1 PROVE VlMax * a + i \in 0 .. VlMax * q - 1
  <2>1. q - 1 - a \in Nat /\ a \in Nat
    OBVIOUS
  <2>2. VlMax * (q - 1 - a) \in Nat /\ VlMax * a \in Nat
    BY <1>1, <2>1
  <2>3. VlMax * q = VlMax * a + VlMax * (q - 1 - a) + VlMax
    BY <1>1, <2>1
  <2> QED BY <1>1, <2>1, <2>2, <2>3
<1>3. ASSUME NEW j \in 0 .. VlMax * q - 1
      PROVE  \E i \in 0 .. VlMax - 1, a \in 0 .. q - 1 : j = VlMax * a + i
  <2> DEFINE a == j \div VlMax
             i == j % VlMax
  <2>1. VlMax * q \in Nat
    BY <1>1
  <2>2. a \in Nat /\ i \in 0 .. VlMax - 1 /\ j = VlMax * a + i
    BY <1>1, <2>1
  <2> HIDE DEF a, i
  <2>3. a < q
    <3> SUFFICES ASSUME a >= q PROVE FALSE
      BY <2>2
    <3>1. a - q \in Nat
      BY <2>2
    <3>2. VlMax * (a - q) \in Nat /\ VlMax * a = VlMax * q + VlMax * (a - q)
      BY <1>1, <2>2, <3>1
    <3> QED BY <1>1, <2>1, <2>2, <3>2
  <2> QED BY <2>2, <2>3
<1>4. ASSUME NEW p \in UNION {Lane(c, i, q) : i \in 0 .. VlMax - 1}
      PROVE  p \in {Product(c, j) : j \in 0 .. VlMax * q - 1}
  <2>1. PICK i \in 0 .. VlMax - 1 : p \in Lane(c, i, q)
    BY <1>4
  <2>2. PICK a \in 0 .. q - 1 : p = Product(c, VlMax * a + i)
    BY <2>1 DEF Lane
  <2> QED BY <1>2, <2>2
<1>5. ASSUME NEW p \in {Product(c, j) : j \in 0 .. VlMax * q - 1}
      PROVE  p \in UNION {Lane(c, i, q) : i \in 0 .. VlMax - 1}
  <2>1. PICK j \in 0 .. VlMax * q - 1 : p = Product(c, j)
    BY <1>5
  <2>2. PICK i \in 0 .. VlMax - 1, a \in 0 .. q - 1 : j = VlMax * a + i
    BY <1>3
  <2>3. p \in Lane(c, i, q)
    BY <2>1, <2>2 DEF Lane
  <2> QED BY <2>3
<1> QED BY <1>4, <1>5

\* A lane grows by one product per chunk.
LEMMA LaneGrows ==
  ASSUME NEW c, NEW i, NEW q \in Nat
  PROVE  /\ Lane(c, i, q + 1) = Lane(c, i, q) \cup {Product(c, VlMax * q + i)}
         /\ Lane(c, i, 0) = {}
<1>1. 0 .. q = (0 .. q - 1) \cup {q} /\ 0 .. 0 - 1 = {} /\ q + 1 - 1 = q
  OBVIOUS
<1> QED BY <1>1 DEF Lane

\* One chunk: a vector length of elements is seen, and each lane has its own.
LEMMA ChunkAdds ==
  ASSUME Cores = 2, IInv, NEW c \in {0, 1}, Chunk(c)
  PROVE  LET f == core[c]
             g == core'[c]
             vl == IF f.avl < VlMax THEN f.avl ELSE VlMax
         IN  /\ f.state = "first" \/ (f.state = "next" /\ f.avl > 0)
             /\ g.avl = f.avl - vl /\ g.vl = vl /\ g.state = "next"
             /\ \A i \in 0 .. VlMax - 1 : i < vl =>
                  g.acc[i] = (IF f.state = "first" THEN {} ELSE f.acc[i])
                               \cup {Product(c, n - f.avl + i)}
             /\ \A e \in {0, 1} : e # c => core'[e] = core[e]
             /\ core' = [e \in {0, 1} |-> core'[e]]
<1> DEFINE f == core[c]
           vl == IF f.avl < VlMax THEN f.avl ELSE VlMax
           at == n - f.avl
           old(i) == IF f.state = "first" THEN {} ELSE f.acc[i]
           product(i) == <<l1[XBuffer + at + i], l1[Buffer(it) + c * n + at + i]>>
           acc == [i \in 0 .. VlMax - 1 |-> IF i < vl THEN old(i) \cup {product(i)} ELSE f.acc[i]]
           g == [avl |-> f.avl - vl, vl |-> vl, state |-> "next", acc |-> acc]
<1>1. /\ f.state = "first" \/ (f.state = "next" /\ f.avl > 0)
      /\ core' = [core EXCEPT ![c] = g]
  BY DEF Chunk, CoreIdx
<1>2. /\ core = [e \in {0, 1} |-> core[e]] /\ Places /\ n \in Nat /\ it \in Nat
      /\ f.avl \in 0 .. n
  BY DEF IInv, Places
<1>3. core'[c] = g /\ core' = [e \in {0, 1} |-> core'[e]]
      /\ \A e \in {0, 1} : e # c => core'[e] = core[e]
  <2> HIDE DEF g
  <2> QED BY <1>1, <1>2
<1>4. pc = "parallel" /\ I + c < d
  BY <1>1 DEF IInv, Computing
<1>5. ASSUME NEW i \in 0 .. VlMax - 1, i < vl PROVE product(i) = Product(c, at + i)
  <2>1. at + i \in 0 .. n - 1 /\ at \in Nat
    BY <1>2, <1>5, MatvecAssumption
  <2>2. l1[XBuffer + (at + i)] = X(at + i) /\ l1[Buffer(it) + c * n + (at + i)] = W(I + c, at + i)
    BY <1>4, <2>1 DEF IInv, There
  <2>3. /\ XBuffer + (at + i) = XBuffer + at + i
        /\ Buffer(it) + c * n + (at + i) = Buffer(it) + c * n + at + i
    <3>1. Buffer(it) \in Nat /\ c * n \in Nat /\ XBuffer \in Nat
      BY <1>2, Buffers DEF XBuffer
    <3> HIDE DEF at
    <3> QED BY <2>1, <3>1
  <2> QED BY <2>2, <2>3 DEF Product
<1>6. ASSUME NEW i \in 0 .. VlMax - 1, i < vl PROVE g.acc[i] = old(i) \cup {Product(c, at + i)}
  <2> HIDE DEF vl, old, product, at
  <2>1. product(i) = Product(c, at + i)
    BY <1>5, <1>6
  <2> QED BY <1>6, <2>1
<1>7. g.avl = f.avl - vl /\ g.vl = vl /\ g.state = "next"
  OBVIOUS
<1> HIDE DEF g
<1> QED BY <1>1, <1>3, <1>6, <1>7

LEMMA ChunkSums ==
  ASSUME Cores = 2, IInv, NEW c \in {0, 1}, Chunk(c) PROVE Summed(c)'
<1> DEFINE f == core[c]
           g == core'[c]
           vl == IF f.avl < VlMax THEN f.avl ELSE VlMax
<1>1. /\ n' = n /\ d' = d /\ I' = I /\ pc = "parallel" /\ I + c < d
      /\ n \in Nat \ {0} /\ f.avl \in 0 .. n /\ VlMax \in Nat \ {0}
      /\ f.state = "first" => f.avl = n
      /\ Summed(c)
  <2>1. n' = n /\ d' = d /\ I' = I /\ f.state \in {"first", "next"}
    BY DEF Chunk, CoreIdx
  <2>2. Places /\ Computing
    BY DEF IInv
  <2>3. pc = "parallel" /\ I + c < d /\ (f.state = "first" => f.avl = n) /\ Summed(c)
    BY <2>1, <2>2 DEF Computing
  <2>4. n \in Nat /\ (pc = "parallel" => n > 0) /\ f.avl \in 0 .. n
    BY <2>2 DEF Places
  <2> HIDE DEF f
  <2> QED BY <2>1, <2>3, <2>4, MatvecAssumption
<1>2. /\ f.state = "first" \/ (f.state = "next" /\ f.avl > 0)
      /\ g.avl = f.avl - vl /\ g.vl = vl
      /\ \A i \in 0 .. VlMax - 1 : i < vl =>
           g.acc[i] = (IF f.state = "first" THEN {} ELSE f.acc[i]) \cup {Product(c, n - f.avl + i)}
  BY ChunkAdds
<1>3. \A i, q : Lane(c, i, q)' = Lane(c, i, q) /\ Product(c, i)' = Product(c, i)
  BY <1>1 DEF Lane, Product
<1>4. ASSUME n <= VlMax
      PROVE  g.avl = 0 /\ g.vl = n /\ \A i \in 0 .. n - 1 : g.acc[i] = {Product(c, i)}
  <2>1. f.state = "first" /\ f.avl = n /\ vl = n
    BY <1>1, <1>2, <1>4 DEF Summed
  <2>2. \A i \in 0 .. n - 1 : i \in 0 .. VlMax - 1 /\ i < vl /\ n - f.avl + i = i
    BY <1>1, <1>4, <2>1
  <2> HIDE DEF g, f, vl
  <2> QED BY <1>1, <1>2, <2>1, <2>2
<1>5. ASSUME n > VlMax, WholeChunks
      PROVE  /\ g.vl = VlMax
             /\ \E q \in 0 .. n : /\ n - g.avl = VlMax * q
                                  /\ \A i \in 0 .. VlMax - 1 : g.acc[i] = Lane(c, i, q)
  <2>1. PICK q \in 0 .. n :
            /\ n - f.avl = VlMax * q
            /\ \A i \in 0 .. VlMax - 1 :
                 (IF f.state = "first" THEN {} ELSE f.acc[i]) = Lane(c, i, q)
    <3>1. CASE f.state = "first"
      <4>1. 0 \in 0 .. n /\ n - f.avl = VlMax * 0
        BY <1>1, <3>1
      <4>2. 0 \in Nat /\ \A i : Lane(c, i, 0) = {}
        BY LaneGrows
      <4> QED BY <3>1, <4>1, <4>2
    <3>2. CASE f.state = "next"
      <4>1. \E q \in 0 .. n : /\ n - f.avl = VlMax * q
                              /\ \A i \in 0 .. VlMax - 1 : f.acc[i] = Lane(c, i, q)
        BY <1>1, <1>5, <3>2 DEF Summed
      <4> QED BY <3>2, <4>1
    <3> QED BY <1>2, <3>1, <3>2
  <2>2. f.avl > 0
    BY <1>1, <1>2
  <2>3. vl = VlMax /\ q + 1 \in 0 .. n /\ n - (f.avl - VlMax) = VlMax * (q + 1)
    <3>1. PICK m \in Nat : n = VlMax * m
      <4>1. n % VlMax = 0
        BY <1>1, <1>5 DEF WholeChunks
      <4>2. n \div VlMax \in Nat /\ n = VlMax * (n \div VlMax)
        BY <1>1, <4>1
      <4> QED BY <4>2
    <3>2. f.avl = VlMax * (m - q) /\ m - q \in Int
      BY <1>1, <2>1, <3>1
    <3>3. m - q >= 1
      <4> SUFFICES ASSUME m - q <= 0 PROVE FALSE
        BY <3>2
      <4>1. VlMax * (m - q) <= 0
        BY <1>1, <3>2
      <4> QED BY <1>1, <2>2, <3>2, <4>1
    <3>4. f.avl >= VlMax /\ VlMax * (q + 1) = VlMax * q + VlMax
      <4>1. VlMax * (m - q) = VlMax * (m - q - 1) + VlMax /\ VlMax * (m - q - 1) \in Nat
        BY <1>1, <3>2, <3>3
      <4> QED BY <1>1, <3>2, <4>1
    <3>5. m <= n
      <4>1. m \in Nat \ {0}
        BY <3>2, <3>3
      <4>2. VlMax * m = m + (VlMax - 1) * m /\ (VlMax - 1) * m \in Nat
        BY <1>1, <4>1
      <4> QED BY <3>1, <4>1, <4>2
    <3> QED BY <1>1, <2>1, <3>2, <3>3, <3>4, <3>5
  <2>4. \A i \in 0 .. VlMax - 1 : g.acc[i] = Lane(c, i, q + 1)
    <3> SUFFICES ASSUME NEW i \in 0 .. VlMax - 1 PROVE g.acc[i] = Lane(c, i, q + 1)
      OBVIOUS
    <3>1. g.acc[i] = Lane(c, i, q) \cup {Product(c, VlMax * q + i)}
      <4>1. i < vl
        BY <1>1, <2>3
      <4> DEFINE old == IF f.state = "first" THEN {} ELSE f.acc[i]
                 at == n - f.avl
                 m == VlMax * q
      <4>2. g.acc[i] = old \cup {Product(c, at + i)}
        BY <1>2, <4>1
      <4>3. old = Lane(c, i, q) /\ at = m
        BY <2>1
      <4> HIDE DEF f, g, vl, old, at, m
      <4>4. g.acc[i] = Lane(c, i, q) \cup {Product(c, m + i)}
        BY <4>2, <4>3
      <4> QED BY <4>4 DEF m
    <3>2. q \in Nat
      BY <1>1
    <3>3. Lane(c, i, q + 1) = Lane(c, i, q) \cup {Product(c, VlMax * q + i)}
      BY <3>2, LaneGrows
    <3> HIDE DEF f, g, vl
    <3> QED BY <3>1, <3>3
  <2> QED BY <1>2, <2>3, <2>4
<1> HIDE DEF f, g, vl
<1>6. WholeChunks' = WholeChunks
  BY <1>1 DEF WholeChunks
<1> QED BY <1>1, <1>3, <1>4, <1>5, <1>6 DEF Summed, f, g

LEMMA ChunkKept ==
  ASSUME Cores = 2, IInv, NEW c \in {0, 1}, Chunk(c) PROVE IInv'
<1>1. /\ n' = n /\ d' = d /\ given' = given /\ pc' = pc /\ ret' = ret /\ I' = I /\ it' = it
      /\ l1' = l1 /\ dma' = dma /\ out' = out
  BY DEF Chunk, CoreIdx
<1>2. /\ core[c].state # "off" /\ core'[c].state = "next"
      /\ \A e \in {0, 1} : e # c => core'[e] = core[e]
      /\ core' = [e \in {0, 1} |-> core'[e]]
  BY ChunkAdds
<1>3. pc = "parallel" /\ I + c < d
  BY <1>2 DEF IInv, Computing
<1>4. core'[c].avl \in 0 .. n /\ core'[c].vl \in 0 .. VlMax
  <2>1. core[c].avl \in 0 .. n /\ n \in Nat
    BY DEF IInv, Places
  <2> QED BY <2>1, ChunkAdds, MatvecAssumption
<1>5. Expected' = Expected
  BY <1>1 DEF Expected, First, Fetch, Rows, Buffer
<1>6. Places'
  BY <1>1, <1>2, <1>4 DEF IInv, Places, L1Size
<1>7. InFlight' /\ Arriving'
  BY <1>1, <1>5 DEF IInv, InFlight, Arriving, Source
<1>8. There'
  BY <1>1 DEF IInv, There, Buffer
<1>9. Computing'
  <2> SUFFICES ASSUME NEW e \in {0, 1}
               PROVE  /\ core'[e].state # "off" => pc = "parallel" /\ I + e < d
                      /\ core'[e].state = "first" => core'[e].avl = n
                      /\ Summed(e)'
                      /\ core'[e].state = "off" /\ I + e < d /\ WholeChunks => Right(I + e)
    BY <1>1, <1>3 DEF Computing, Right, WholeChunks
  <2>1. CASE e = c
    BY <1>2, <1>3, <2>1, ChunkSums
  <2>2. CASE e # c
    <3>1. Summed(e)' = Summed(e)
      BY <1>1, <1>2, <2>2 DEF Summed, Lane, Product, WholeChunks
    <3> QED BY <1>2, <1>3, <2>2, <3>1 DEF IInv, Computing
  <2> QED BY <2>1, <2>2
<1>10. Computed' /\ ResultRight'
  BY <1>1, <1>3 DEF IInv, Computed, ResultRight, Right, WholeChunks
<1> QED BY <1>6, <1>7, <1>8, <1>9, <1>10 DEF IInv

\* The reduction: when all elements of the row were seen its sum is right.
LEMMA ReduceSums ==
  ASSUME IInv, NEW c \in {0, 1}, core[c].state = "next", core[c].avl = 0, WholeChunks
  PROVE  UNION {core[c].acc[i] : i \in 0 .. core[c].vl - 1} = {Product(c, j) : j \in 0 .. n - 1}
<1> DEFINE f == core[c]
           goal == UNION {f.acc[i] : i \in 0 .. f.vl - 1} = {Product(c, j) : j \in 0 .. n - 1}
<1> SUFFICES goal
  OBVIOUS
<1>1. n \in Nat \ {0} /\ VlMax \in Nat \ {0} /\ Summed(c) /\ f.state = "next" /\ f.avl = 0
  BY MatvecAssumption DEF IInv, Places, Computing
<1>2. CASE n <= VlMax
  <2>1. f.vl = n /\ \A i \in 0 .. n - 1 : f.acc[i] = {Product(c, i)}
    BY <1>1, <1>2 DEF Summed
  <2> QED BY <2>1
<1>3. CASE n > VlMax
  <2>1. PICK q \in 0 .. n :
            /\ f.vl = VlMax /\ n - f.avl = VlMax * q
            /\ \A i \in 0 .. VlMax - 1 : f.acc[i] = Lane(c, i, q)
    BY <1>1, <1>3 DEF Summed
  <2>2. n = VlMax * q /\ q \in Nat
    BY <1>1, <2>1
  <2>3. UNION {f.acc[i] : i \in 0 .. f.vl - 1} = UNION {Lane(c, i, q) : i \in 0 .. VlMax - 1}
    BY <2>1
  <2>4. UNION {Lane(c, i, q) : i \in 0 .. VlMax - 1} = {Product(c, j) : j \in 0 .. n - 1}
    BY <2>2, Lanes
  <2> QED BY <2>3, <2>4
<1> HIDE DEF goal
<1> QED BY <1>1, <1>2, <1>3

LEMMA ReduceKept ==
  ASSUME Cores = 2, IInv, NEW c \in {0, 1}, Reduce(c) PROVE IInv'
<1> DEFINE sum == UNION {core[c].acc[i] : i \in 0 .. core[c].vl - 1}
<1>1. /\ n' = n /\ d' = d /\ given' = given /\ pc' = pc /\ ret' = ret /\ I' = I /\ it' = it
      /\ l1' = l1 /\ dma' = dma
      /\ core[c].state = "next" /\ core[c].avl = 0
      /\ core' = [core EXCEPT ![c] = NoCall]
      /\ out' = [out EXCEPT ![I + c] = sum]
  BY DEF Reduce
<1> HIDE DEF sum
<1>2. /\ core = [e \in {0, 1} |-> core[e]] /\ out = [r \in 0 .. d - 1 |-> out[r]]
      /\ n \in Nat /\ d \in Nat /\ I \in Nat
  BY DEF IInv, Places
<1>3. pc = "parallel" /\ I + c < d
  BY <1>1 DEF IInv, Computing
<1>4. /\ core'[c] = NoCall /\ \A e \in {0, 1} : e # c => core'[e] = core[e]
      /\ core' = [e \in {0, 1} |-> core'[e]]
  BY <1>1, <1>2
<1>5. /\ out'[I + c] = sum /\ \A r \in 0 .. d - 1 : r # I + c => out'[r] = out[r]
      /\ out' = [r \in 0 .. d - 1 |-> out'[r]]
  <2>1. I + c \in 0 .. d - 1
    BY <1>2, <1>3
  <2> QED BY <1>1, <1>2, <2>1
<1>6. NoCall.state = "off" /\ NoCall.avl = 0 /\ NoCall.vl = 0
  BY DEF NoCall
<1>7. WholeChunks => Right(I + c)'
  <2> SUFFICES ASSUME WholeChunks PROVE out'[I + c] = {Product(c, j) : j \in 0 .. n - 1}
    BY <1>1 DEF Right, Product
  <2> QED BY <1>1, <1>5, ReduceSums DEF sum
<1>8. \A r \in 0 .. d - 1 : r # I + c => Right(r)' = Right(r)
  BY <1>1, <1>5 DEF Right
<1>9. Expected' = Expected
  BY <1>1 DEF Expected, First, Fetch, Rows, Buffer
<1>10. Places'
  <2>1. core'[c].avl \in 0 .. n /\ core'[c].vl \in 0 .. VlMax
    BY <1>2, <1>4, <1>6, MatvecAssumption
  <2> QED BY <1>1, <1>3, <1>4, <1>5, <1>6, <2>1 DEF IInv, Places, L1Size
<1>11. InFlight' /\ Arriving'
  BY <1>1, <1>9 DEF IInv, InFlight, Arriving, Source
<1>12. There'
  BY <1>1 DEF IInv, There, Buffer
<1>13. Computing'
  <2> SUFFICES ASSUME NEW e \in {0, 1}
               PROVE  /\ core'[e].state # "off" => pc = "parallel" /\ I + e < d
                      /\ core'[e].state = "first" => core'[e].avl = n
                      /\ Summed(e)'
                      /\ core'[e].state = "off" /\ I + e < d /\ WholeChunks => Right(I + e)'
    BY <1>1, <1>3 DEF Computing, WholeChunks, Right
  <2>1. CASE e = c
    BY <1>4, <1>6, <1>7, <2>1 DEF Summed
  <2>2. CASE e # c
    <3>1. Summed(e)' = Summed(e)
      BY <1>1, <1>4, <2>2 DEF Summed, Lane, Product, WholeChunks
    <3>2. I + e < d => Right(I + e)' = Right(I + e)
      <4>1. I + e < d => I + e \in 0 .. d - 1 /\ I + e # I + c
        BY <1>2, <2>2
      <4> QED BY <1>1, <1>8, <4>1 DEF Right
    <3> QED BY <1>3, <1>4, <2>2, <3>1, <3>2 DEF IInv, Computing
  <2> QED BY <2>1, <2>2
<1>14. Computed' /\ ResultRight'
  <2>1. \A r \in 0 .. d - 1 : r < I => r # I + c
    BY <1>2
  <2> QED BY <1>1, <1>3, <1>8, <2>1 DEF IInv, Computed, ResultRight, WholeChunks
<1> QED BY <1>10, <1>11, <1>12, <1>13, <1>14 DEF IInv

\* An element arrives where nobody looks yet.
LEMMA MoveKept ==
  ASSUME IInv, NEW t \in dma, Move(t) PROVE IInv'
<1> DEFINE u == [t EXCEPT !.done = @ + 1]
           a == t.to + t.done
<1>1. /\ n' = n /\ d' = d /\ given' = given /\ pc' = pc /\ ret' = ret /\ I' = I /\ it' = it
      /\ core' = core /\ out' = out
      /\ l1' = [l1 EXCEPT ![a] = Source(t, t.done)]
      /\ dma' = (dma \ {t}) \cup (IF t.done + 1 < t.len THEN {u} ELSE {})
  BY DEF Move
<1>2. /\ Places /\ n \in Nat /\ it \in Nat /\ InFlight /\ Arriving /\ There
      /\ l1 = [b \in 0 .. L1Size - 1 |-> l1[b]]
      /\ t = [to |-> t.to, from |-> t.from, row |-> t.row, len |-> t.len, done |-> t.done]
  BY DEF IInv, Places, InFlight
<1>3. PICK w \in Expected : Of(t, w)
  BY <1>2 DEF InFlight
<1>4. /\ t.to = w.to /\ t.from = w.from /\ t.row = w.row /\ t.len = w.len
      /\ t.done \in 0 .. w.len - 1
  BY <1>3 DEF Of
<1>5. /\ w.len \in Nat \ {0} /\ w.to \in Nat /\ w.to + w.len <= 5 * n
      /\ \A v \in Expected : v.from = w.from => v = w
      /\ \A v \in Expected : v.from # w.from => v.to + v.len <= w.to \/ w.to + w.len <= v.to
      /\ pc \in {"loop", "parallel"} /\ (pc = "loop" /\ I > 0 => w.to >= n)
      /\ pc = "parallel" => /\ w.to >= n
                            /\ w.to + w.len <= Buffer(it) \/ w.to >= Buffer(it) + 2 * n
  BY <1>2, ExpectedFacts
<1>6. u = [to |-> t.to, from |-> t.from, row |-> t.row, len |-> t.len, done |-> t.done + 1]
  BY <1>2
<1> HIDE DEF u
<1>7. /\ a \in Nat /\ a >= w.to /\ a < w.to + w.len
      /\ l1'[a] = Source(w, t.done)
      /\ \A b \in 0 .. 5 * n - 1 : b # a => l1'[b] = l1[b]
      /\ l1' = [b \in 0 .. L1Size - 1 |-> l1'[b]]
  <2>1. a \in Nat /\ a >= w.to /\ a < w.to + w.len /\ a \in 0 .. 5 * n - 1
    <3> DEFINE e == w.to
               l == w.len
               k == t.done
    <3>1. a = e + k /\ e \in Nat /\ l \in Nat /\ k \in 0 .. l - 1 /\ e + l <= 5 * n
      BY <1>4, <1>5
    <3> HIDE DEF e, l, k, a
    <3>2. a \in Nat /\ a >= e /\ a < e + l /\ a \in 0 .. 5 * n - 1
      BY <1>2, <3>1
    <3> QED BY <3>2 DEF e, l
  <2>2. Source(t, t.done) = Source(w, t.done)
    BY <1>4 DEF Source
  <2>3. L1Size = 5 * n
    BY DEF L1Size
  <2> HIDE DEF a
  <2> QED BY <1>1, <1>2, <2>1, <2>2, <2>3
<1> HIDE DEF a
<1>8. Expected' = Expected
  BY <1>1 DEF Expected, First, Fetch, Rows, Buffer
<1>9. Places'
  BY <1>1, <1>2, <1>7 DEF Places, L1Size
<1>10. InFlight'
  <2>1. \A s \in dma' : s \in dma \ {t} \/ (s = u /\ t.done + 1 < t.len)
    BY <1>1
  <2>2. t.done + 1 < t.len => Of(u, w)
    BY <1>4, <1>5, <1>6 DEF Of
  <2>3. u = [to |-> u.to, from |-> u.from, row |-> u.row, len |-> u.len, done |-> u.done] /\ u.from = t.from
    BY <1>6
  <2>4. \A s \in dma' : s = [to |-> s.to, from |-> s.from, row |-> s.row,
                              len |-> s.len, done |-> s.done]
    BY <1>2, <2>1, <2>3 DEF InFlight
  <2>5. \A s \in dma' : \E v \in Expected : Of(s, v)
    BY <1>2, <1>3, <2>1, <2>2 DEF InFlight
  <2>6. \A r, s \in dma' : r.from = s.from => r = s
    BY <1>2, <2>1, <2>3 DEF InFlight
  <2> QED BY <1>8, <2>4, <2>5, <2>6 DEF InFlight
<1>11. Arriving'
  <2> SUFFICES ASSUME NEW v \in Expected, NEW k \in 0 .. v.len - 1
               PROVE  l1'[v.to + k] = Source(v, k) \/ \E s \in dma' : s.from = v.from /\ s.done <= k
    BY <1>1, <1>8 DEF Arriving, Source
  <2>1. l1[v.to + k] = Source(v, k) \/ \E s \in dma : s.from = v.from /\ s.done <= k
    BY <1>2 DEF Arriving
  <2>2. v.to \in Nat /\ v.len \in Nat /\ v.to + k \in 0 .. 5 * n - 1
    BY <1>2, ExpectedFacts
  <2>3. CASE v = w
    <3>1. CASE k = t.done
      BY <1>4, <1>7, <2>3, <3>1 DEF a
    <3>2. CASE k # t.done
      <4>1. v.to + k # a
        BY <1>4, <1>5, <2>3, <3>2 DEF a
      <4>2. l1'[v.to + k] = l1[v.to + k]
        BY <1>7, <2>2, <4>1
      <4>3. ASSUME NEW s \in dma, s.from = v.from, s.done <= k
            PROVE  \E r \in dma' : r.from = v.from /\ r.done <= k
        <5>1. s = t
          BY <1>2, <1>4, <2>3, <4>3 DEF InFlight
        <5>2. t.done + 1 < t.len /\ t.done + 1 <= k
          BY <1>4, <1>5, <2>3, <3>2, <4>3, <5>1
        <5> QED BY <1>1, <1>4, <1>6, <2>3, <5>2
      <4> QED BY <2>1, <4>2, <4>3
    <3> QED BY <3>1, <3>2
  <2>4. CASE v # w
    <3>1. v.from # w.from /\ (v.to + v.len <= w.to \/ w.to + w.len <= v.to)
      BY <1>5, <2>4
    <3>2. l1'[v.to + k] = l1[v.to + k]
      BY <1>5, <1>7, <2>2, <3>1
    <3>3. \A s \in dma : s.from = v.from => s \in dma'
      BY <1>1, <1>4, <3>1
    <3> QED BY <2>1, <3>2, <3>3
  <2> QED BY <2>3, <2>4
<1>12. There'
  <2>1. ASSUME pc = "parallel" \/ (pc = "loop" /\ I > 0), NEW j \in 0 .. n - 1
        PROVE  l1'[XBuffer + j] = X(j)
    <3>1. XBuffer + j \in 0 .. 5 * n - 1 /\ XBuffer + j # a
      BY <1>2, <1>5, <1>7, <2>1 DEF XBuffer
    <3> QED BY <1>2, <1>7, <2>1, <3>1 DEF There
  <2>2. ASSUME pc = "parallel", NEW c \in {0, 1}, I + c < d, NEW j \in 0 .. n - 1
        PROVE  l1'[Buffer(it) + c * n + j] = W(I + c, j)
    <3>1. /\ Buffer(it) + c * n + j \in 0 .. 5 * n - 1
          /\ Buffer(it) <= Buffer(it) + c * n + j /\ Buffer(it) + c * n + j < Buffer(it) + 2 * n
      <4>1. Buffer(it) \in {n, 3 * n} /\ c * n \in {0, n}
        BY <1>2, Buffers
      <4> QED BY <1>2, <4>1
    <3>2. Buffer(it) + c * n + j # a
      <4> DEFINE b == Buffer(it)
                 m == b + c * n + j
      <4>1. b \in Nat /\ m \in Nat /\ b <= m /\ m < b + 2 * n
        BY <1>2, <3>1, Buffers
      <4>2. /\ a \in Nat /\ w.to <= a /\ a < w.to + w.len /\ w.to \in Nat /\ w.len \in Nat
            /\ w.to + w.len <= b \/ w.to >= b + 2 * n
        BY <1>5, <1>7, <2>2
      <4> HIDE DEF b, m
      <4>3. m # a
        BY <1>2, <4>1, <4>2
      <4> QED BY <4>3 DEF m, b
    <3> QED BY <1>2, <1>7, <2>2, <3>1, <3>2 DEF There
  <2> QED BY <1>1, <2>1, <2>2 DEF There, Buffer
<1>13. Computing'
  <2>1. ASSUME NEW c \in {0, 1} PROVE Summed(c)' = Summed(c) /\ Right(I + c)' = Right(I + c)
    BY <1>1 DEF Summed, Lane, Product, Right, WholeChunks
  <2> QED BY <1>1, <2>1 DEF IInv, Computing, WholeChunks
<1>14. Computed' /\ ResultRight'
  BY <1>1, <1>5 DEF IInv, Computed, ResultRight, Right, WholeChunks
<1> QED BY <1>9, <1>10, <1>11, <1>12, <1>13, <1>14 DEF IInv

LEMMA NextIInv == ASSUME Cores = 2 PROVE IInv /\ [Next]_vars => IInv'
<1> SUFFICES ASSUME IInv, [Next]_vars PROVE IInv'
  OBVIOUS
<1>1. CASE Refuse \/ Nothing \/ Leave
  BY <1>1, ExitKept
<1>2. CASE Enter \/ Round \/ Join
  BY <1>2, EnterKept, RoundKept, JoinKept
<1>3. ASSUME NEW c \in Core, Chunk(c) \/ Reduce(c) PROVE IInv'
  <2>1. c \in {0, 1}
    BY DEF Core
  <2> QED BY <1>3, <2>1, ChunkKept, ReduceKept
<1>4. ASSUME NEW t \in dma, Move(t) PROVE IInv'
  BY <1>4, MoveKept
<1>5. CASE Done \/ UNCHANGED vars
  BY <1>5, UnchangedKept DEF Done
<1> QED BY <1>1, <1>2, <1>3, <1>4, <1>5 DEF Next

LEMMA Invariance == ASSUME Cores = 2 PROVE Spec => []IInv
  BY InitIInv, NextIInv, PTL DEF Spec

-----------------------------------------------------------------------------
(* No DMA transfer that matvec starts leaves the L1 memory it allocated, and *)
(* at most two are under way, for every shape of the matrix.                 *)
THEOREM TypeCorrect == ASSUME Cores = 2 PROVE Spec => []TypeOK
<1>1. IInv => TypeOK
  <2> SUFFICES ASSUME IInv PROVE TypeOK
    OBVIOUS
  <2>1. Places /\ InFlight
    BY DEF IInv
  <2>2. ASSUME NEW t \in dma PROVE t.done < t.len /\ t.to + t.len <= L1Size /\ t.from \in {"x", "w"}
    <3>1. PICK w \in Expected : Of(t, w)
      BY <2>1 DEF InFlight
    <3>2. w.len \in Nat /\ w.to + w.len <= 5 * n /\ w.from \in {"x", "w"}
      BY <2>1, ExpectedFacts
    <3> QED BY <3>1, <3>2 DEF Of, L1Size
  <2>3. Cardinality(dma) <= 2
    <3>1. \E x, w \in dma \cup {0} : dma \subseteq {x, w}
      <4>1. PICK x \in dma \cup {0} : \A t \in dma : t.from = "x" => t = x
        BY <2>1 DEF InFlight
      <4>2. PICK w \in dma \cup {0} : \A t \in dma : t.from = "w" => t = w
        BY <2>1 DEF InFlight
      <4> QED BY <2>2, <4>1, <4>2
    <3>2. PICK x, w : dma \subseteq {x, w}
      BY <3>1
    <3>3. IsFiniteSet({x, w}) /\ Cardinality({x, w}) \in {1, 2}
      <4>1. IsFiniteSet({x}) /\ Cardinality({x}) = 1
        BY FS_Singleton
      <4>2. {x, w} = {x} \cup {w}
        OBVIOUS
      <4> QED BY <4>1, <4>2, FS_AddElement
    <3>4. Cardinality(dma) \in Nat /\ Cardinality(dma) <= Cardinality({x, w})
      BY <3>2, <3>3, FS_Subset, FS_CardinalityType
    <3> QED BY <3>3, <3>4
  <2> QED BY <2>1, <2>2, <2>3 DEF TypeOK, Places, Core
<1> QED BY <1>1, Invariance, PTL

(* What matvec returns is the product of the matrix with the vector, for     *)
(* every width with whole chunks, every height and every vector length, in   *)
(* whichever order the DMA moves elements and the cores compute.             *)
THEOREM ResultCorrect == ASSUME Cores = 2 PROVE Spec => []ResultRight
<1>1. IInv => ResultRight
  BY DEF IInv
<1> QED BY <1>1, Invariance, PTL

=============================================================================
