------------------------------- MODULE Matvec -------------------------------
(***************************************************************************)
(* The matrix-vector product offloaded to a Spatz cluster,                 *)
(* apps/omp/basic/matvec with fdotp_rvv_32b of apps/omp/kernels/fdotp.h:   *)
(* the rows of the matrix are fetched by DMA into one of two buffers while *)
(* the cores compute on the other, each core one row in chunks of the      *)
(* vector length.                                                          *)
(*                                                                         *)
(* A memory cell holds one element, named after its place in the vector or *)
(* the matrix, and a sum is the set of the products added up.              *)
(***************************************************************************)
EXTENDS Integers, FiniteSets

CONSTANTS Cores,    \* CORES
          VlMax,    \* elements of a vector register group
          MaxElem,  \* MAX_ELEM: room in the L1 memory
          Shapes    \* pairs of a width n and a height d to look at

ASSUME MatvecAssumption == /\ Cores \in Nat \ {0} /\ VlMax \in Nat \ {0} /\ MaxElem \in Nat
                           /\ Shapes \subseteq Nat \X Nat

VARIABLES n, d,
          given, \* none of the three addresses is 0
          pc,    \* where the core that runs the target region is
          ret,   \* what matvec returns
          I, it, \* its loop
          l1,    \* the L1 memory
          dma,   \* transfers under way
          core,  \* the call of fdotp_rvv_32b of each iteration of the parallel loop
          out    \* xout

vars == <<n, d, given, pc, ret, I, it, l1, dma, core, out>>

Core == 0..Cores - 1

(* The buffers, in the order they are allocated.                            *)
XBuffer == 0
Buffer(k) == n + 2 * n * (k % 2)
L1Size == 5 * n

X(j) == <<"x", j>>
W(row, j) == <<"w", row, j>>
Source(t, k) == IF t.from = "x" THEN X(k) ELSE W(t.row + k \div n, k % n)
Transfer(to, from, row, len) == [to |-> to, from |-> from, row |-> row, len |-> len, done |-> 0]

NoCall == [avl |-> 0, vl |-> 0, acc |-> [i \in 0..VlMax - 1 |-> {}], state |-> "off"]

Init == /\ \E s \in Shapes : n = s[1] /\ d = s[2]
        /\ given \in BOOLEAN
        /\ pc = "start" /\ ret = 0 /\ I = 0 /\ it = 0
        /\ l1 = [a \in 0..L1Size - 1 |-> <<"init">>]
        /\ dma = {}
        /\ core = [c \in Core |-> NoCall]
        /\ out = [r \in 0..d - 1 |-> {}]

-----------------------------------------------------------------------------
(* matvec.  It refuses what does not fit and does nothing without elements *)
(* or with an address that is 0.                                            *)
\* The first transfer is of two rows whatever d is.
Refuse == /\ pc = "start" /\ n * 9 > MaxElem
          /\ pc' = "exit" /\ ret' = -1
          /\ UNCHANGED <<n, d, given, I, it, l1, dma, core, out>>

Nothing == /\ pc = "start" /\ n * 9 <= MaxElem /\ (n = 0 \/ d = 0 \/ ~given)
           /\ pc' = "exit"
           /\ UNCHANGED <<n, d, given, ret, I, it, l1, dma, core, out>>

Enter == /\ pc = "start" /\ n * 9 <= MaxElem /\ n > 0 /\ d > 0 /\ given
         /\ pc' = "loop"
         /\ dma' = {Transfer(XBuffer, "x", 0, n), Transfer(Buffer(0), "w", 0, 2 * n)}
         /\ UNCHANGED <<n, d, given, ret, I, it, l1, core, out>>

(* One round.  Mutants: it does not wait; the rows to come are fetched into *)
(* the buffer of the round, or all at once.                                  *)
WaitedNot == TRUE
Waited == dma = {}

AheadSame == Buffer(it)
Ahead == Buffer(it + 1)

RowsLeft == d - I
RowsAheadAll == RowsLeft - Cores
RowsAhead == IF RowsLeft - Cores < Cores THEN RowsLeft - Cores ELSE Cores

Prefetch == IF RowsLeft > 2 THEN {Transfer(Ahead, "w", I + Cores, n * RowsAhead)} ELSE {}

\* The prefetch, and the parallel region begins: as many iterations as cores,
\* those past the last row skipped.
Round == /\ pc = "loop" /\ I < d /\ Waited
         /\ dma' = dma \cup Prefetch
         /\ core' = [c \in Core |-> IF I + c < d THEN [NoCall EXCEPT !.avl = n, !.state = "first"]
                                    ELSE NoCall]
         /\ pc' = "parallel"
         /\ UNCHANGED <<n, d, given, ret, I, it, l1, out>>

\* It ends with all its iterations.
Join == /\ pc = "parallel" /\ \A c \in Core : core[c].state = "off"
        /\ pc' = "loop" /\ I' = I + Cores /\ it' = it + 1
        /\ UNCHANGED <<n, d, given, ret, l1, dma, core, out>>

Leave == /\ pc = "loop" /\ I >= d
         /\ pc' = "exit"
         /\ UNCHANGED <<n, d, given, ret, I, it, l1, dma, core, out>>

\* snrt_cluster_core_idx() in the i-th iteration.  The loop takes its row of the
\* matrix by the one and its row of the result by the other, and so relies on the
\* OpenMP runtime to give the i-th iteration to core i.  Mutant: it gives the
\* iterations out from the last core on.
CoreIdxReversed(i) == Cores - 1 - i
CoreIdx(i) == i

(* fdotp_rvv_32b: vsetvli, the loads and the multiplication of a chunk; the  *)
(* first one starts the sums.  The reduction is over the last chunk's        *)
(* vector length.                                                            *)
Chunk(c) ==
    LET f == core[c]
        vl == IF f.avl < VlMax THEN f.avl ELSE VlMax
        at == n - f.avl
        product(i) == <<l1[XBuffer + at + i], l1[Buffer(it) + CoreIdx(c) * n + at + i]>>
        old(i) == IF f.state = "first" THEN {} ELSE f.acc[i]
    IN  /\ f.state = "first" \/ (f.state = "next" /\ f.avl > 0)
        /\ core' = [core EXCEPT ![c] =
             [avl |-> f.avl - vl, vl |-> vl, state |-> "next",
              acc |-> [i \in 0..VlMax - 1 |-> IF i < vl THEN old(i) \cup {product(i)} ELSE f.acc[i]]]]
        /\ UNCHANGED <<n, d, given, pc, ret, I, it, l1, dma, out>>

Reduce(c) ==
    LET f == core[c]
    IN  /\ f.state = "next" /\ f.avl = 0
        /\ out' = [out EXCEPT ![I + c] = UNION {f.acc[i] : i \in 0..f.vl - 1}]
        /\ core' = [core EXCEPT ![c] = NoCall]
        /\ UNCHANGED <<n, d, given, pc, ret, I, it, l1, dma>>

(* The DMA engine moves one element of any transfer.                         *)
Move(t) == /\ t \in dma
           /\ l1' = [l1 EXCEPT ![t.to + t.done] = Source(t, t.done)]
           /\ dma' = (dma \ {t}) \cup (IF t.done + 1 < t.len THEN {[t EXCEPT !.done = @ + 1]} ELSE {})
           /\ UNCHANGED <<n, d, given, pc, ret, I, it, core, out>>

Done == pc = "exit" /\ dma = {} /\ UNCHANGED vars

Next == \/ Refuse \/ Nothing \/ Enter \/ Round \/ Join \/ Leave \/ Done
        \/ \E c \in Core : Chunk(c) \/ Reduce(c)
        \/ \E t \in dma : Move(t)

Spec == Init /\ [][Next]_vars

-----------------------------------------------------------------------------
(* The types, and every transfer stays within the L1 memory that matvec      *)
(* allocated, at most two at a time.                                         *)
TypeOK == /\ <<n, d>> \in Shapes /\ given \in BOOLEAN /\ ret \in {0, -1}
          /\ pc \in {"start", "loop", "parallel", "exit"}
          /\ I \in 0..d + Cores - 1 /\ it \in 0..d
          /\ Cardinality(dma) <= 2
          /\ \A t \in dma : t.done < t.len /\ t.to + t.len <= L1Size
          /\ \A c \in Core : /\ core[c].avl \in 0..n /\ core[c].vl \in 0..VlMax
                             /\ core[c].state \in {"off", "first", "next"}
          /\ DOMAIN out = 0..d - 1

(* main.c:106-121: when matvec has returned 0 each element of the result is  *)
(* the product of its row with the vector, although the buffers change       *)
(* places under the DMA, and nothing is being moved any more.  Stated for    *)
(* widths whose last chunk is as long as the first, as of a shorter one the  *)
(* reduction loses the sums beyond its length, and for addresses that are    *)
(* not 0, with which nothing is computed and 0 returned all the same.        *)
WholeChunks == n <= VlMax \/ n % VlMax = 0

ResultRight == pc = "exit" /\ ret = 0 /\ given /\ WholeChunks =>
                 /\ dma = {}
                 /\ \A r \in 0..d - 1 : out[r] = {<<X(j), W(r, j)>> : j \in 0..n - 1}

=============================================================================
