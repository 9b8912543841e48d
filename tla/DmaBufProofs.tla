---------------------------- MODULE DmaBufProofs ----------------------------
(***************************************************************************)
(* Theorems about DmaBuf for any number of callers, buffers and sizes,      *)
(* however their steps interleave.                                         *)
(***************************************************************************)
EXTENDS DmaBuf, TLAPS, WellFoundedInduction

LEMMA Remainder ==
  ASSUME NEW w \in Nat \ {0}, NEW x \in Nat
  PROVE  x - (x % w) \in Nat /\ x % w \in Nat /\ (x < w => x % w = x)
  OBVIOUS

LEMMA RequestNat == ASSUME NEW b \in Requests \cup {0} PROVE b \in Nat
<1>1. Requests \subseteq 0 .. Word - 1
  BY DmaAssumption
<1> QED BY <1>1

USE DmaAssumption

(* Rounding a size to pages.                                               *)
LEMMA Rounding ==
  ASSUME NEW b \in Nat
  PROVE  /\ AlignUp(b) \in Nat
         /\ b + PageSize <= Word => AlignUp(b) = PageUp(b)
<1>3. b + PageSize - 1 \in Nat /\ PageSize \in Nat \ {0} /\ Word \in Nat \ {0}
  BY DmaAssumption
<1>4. (b + PageSize - 1) % Word \in Nat
  BY <1>3, Remainder
<1>5. AlignUp(b) \in Nat
  BY <1>3, <1>4, Remainder DEF AlignUp, PageDown
<1>6. ASSUME b + PageSize <= Word PROVE AlignUp(b) = PageUp(b)
  <2>1. b + PageSize - 1 < Word
    BY <1>3, <1>6
  <2>2. (b + PageSize - 1) % Word = b + PageSize - 1
    BY <1>3, <2>1, Remainder
  <2> QED BY <2>2 DEF AlignUp, PageUp
<1> QED BY <1>5, <1>6

-----------------------------------------------------------------------------
(* The invariant.  A call holds a buffer from the allocation on; it has    *)
(* made it the last of the list from its first store on.                   *)
Holding == {"add", "linkBack", "linkNew", "linkNewBack", "linkOn", "mmap"}
Linked == {"linkNew", "linkNewBack", "linkOn", "mmap"}

Owns == {h.own : h \in handed}

(* Each call holds a buffer of its own, that has not been returned yet.    *)
Ownership ==
  \A t \in Thread :
    /\ pc[t] # "idle" => want[t] \in Requests
    /\ pc[t] \in Holding => /\ mine[t] \in 1 .. nbufs
                            /\ mine[t] \notin Owns
                            /\ buf[mine[t]].size = AlignUp(want[t])
                            /\ \A u \in Thread : u # t /\ pc[u] \in Holding =>
                                                   mine[u] # mine[t]

Fits(h) == h.size + PageSize <= Word => PageUp(h.size) <= h.psize

Returned ==
  \A h \in handed : /\ h.own \in 1 .. nbufs
                    /\ h.alone => h.mapped = h.own /\ Fits(h)

(* Whoever stored the list's last pointer, it is a buffer in the making    *)
(* when this call is between its own store and its mapping.                *)
Freshness ==
  \A t \in Thread :
    /\ before[t] \subseteq Owns
    /\ pc[t] \in Linked => prev[Head] \in (1 .. nbufs) \ before[t]

Solitude ==
  \A t \in Thread :
    alone[t] /\ t \in Calling =>
      /\ \A u \in Calling : u = t
      /\ pc[t] \in Linked => prev[Head] = mine[t]

IInv == TypeOK /\ Ownership /\ Returned /\ Freshness /\ Solitude

LEMMA InitIInv == Init => IInv
  BY DEF Init, IInv, TypeOK, Ownership, Returned, Freshness, Solitude,
         Calling, Owns, Holding, Linked, PC, Node, Buffer, Head, NoNode

-----------------------------------------------------------------------------
LEMMA CallIInv ==
  ASSUME IInv, NEW t \in Thread, NEW size_b \in Requests, Call(t, size_b)
  PROVE  IInv'
<1> USE DEF IInv, Call, history
<1>1. TypeOK'
  <2>1. {h.own : h \in handed} \subseteq Buffer
    BY DEF TypeOK
  <2>2. before' \in [Thread -> SUBSET Buffer]
    BY <2>1 DEF TypeOK
  <2>3. alone' \in [Thread -> BOOLEAN]
    BY DEF TypeOK
  <2>4. calm' \in BOOLEAN
    BY Zenon
  <2> HIDE DEF Call
  <2>5. /\ pc' = [pc EXCEPT ![t] = "alloc"] /\ want' = [want EXCEPT ![t] = size_b]
        /\ UNCHANGED <<nbufs, buf, next, prev, mine, last, handed>>
    BY DEF Call
  <2> QED BY <2>2, <2>3, <2>4, <2>5 DEF TypeOK, PC
<1>2. Ownership'
  BY DEF TypeOK, Ownership, Owns, Holding
<1>3. Returned'
  BY DEF Returned
<1>4. Freshness'
  BY DEF TypeOK, Freshness, Owns, Linked
<1>5. Solitude'
  BY DEF TypeOK, Solitude, Calling, Linked
<1> QED BY <1>1, <1>2, <1>3, <1>4, <1>5

LEMMA AllocPagesIInv ==
  ASSUME IInv, NEW t \in Thread, AllocPages(t)
  PROVE  IInv'
<1> USE DEF IInv, AllocPages, HasPages, SharedMem, history
<1>1. nbufs' \in 1 .. MaxBufs /\ nbufs' \in Node
  BY DEF TypeOK, Node, Buffer
<1>2. /\ SharedMem(t, nbufs') \in [pbase : Nat, size : Nat]
      /\ SharedMem(t, nbufs').size = AlignUp(want[t])
  <2>1. want[t] \in Nat
    BY RequestNat DEF TypeOK
  <2> QED BY <1>1, <2>1, Rounding, DmaAssumption DEF SharedMem, Frame
<1> HIDE DEF SharedMem
<1>3. TypeOK'
  BY <1>1, <1>2 DEF TypeOK, PC, Buffer
<1>4. Ownership'
  <2>1. ASSUME NEW u \in Thread, pc'[u] \in Holding, u # t
        PROVE  /\ mine'[u] \in 1 .. nbufs /\ mine'[u] \notin Owns' /\ mine'[u] # nbufs'
               /\ buf'[mine'[u]].size = AlignUp(want'[u])
    BY <1>1, <2>1 DEF TypeOK, Ownership, Owns, Holding, Node, Buffer
  <2>2. nbufs' \notin Owns'
    BY <1>1 DEF TypeOK, Returned, Owns
  <2>3. mine'[t] = nbufs' /\ buf'[nbufs'].size = AlignUp(want'[t])
    BY <1>1, <1>2 DEF TypeOK
  <2>4. \A u \in Thread : pc'[u] # "idle" => want'[u] \in Requests
    BY DEF TypeOK, Ownership
  <2>5. ASSUME NEW u \in Thread, NEW v \in Thread, u # v, pc'[u] \in Holding, pc'[v] \in Holding
        PROVE  mine'[u] # mine'[v]
    <3>1. ASSUME u # t, v # t PROVE mine'[u] # mine'[v]
      BY <2>5, <3>1 DEF TypeOK, Ownership, Holding
    <3>2. ASSUME u = t \/ v = t PROVE mine'[u] # mine'[v]
      BY <1>1, <2>1, <2>3, <2>5, <3>2
    <3> QED BY <3>1, <3>2
  <2>6. nbufs' = nbufs + 1 /\ nbufs \in Nat /\ nbufs' \in 1 .. nbufs' /\ 1 .. nbufs \subseteq 1 .. nbufs'
    BY DEF TypeOK
  <2> HIDE DEF AllocPages, IInv
  <2>7. ASSUME NEW u \in Thread, pc'[u] \in Holding
        PROVE  mine'[u] \in 1 .. nbufs' /\ mine'[u] \notin Owns' /\ buf'[mine'[u]].size = AlignUp(want'[u])
    BY <2>1, <2>2, <2>3, <2>6, <2>7
  <2> QED BY <2>4, <2>5, <2>7 DEF Ownership
<1>5. Returned'
  BY DEF TypeOK, Returned
<1>6. Freshness'
  BY DEF TypeOK, Freshness, Owns, Linked
<1>7. Solitude'
  BY DEF TypeOK, Solitude, Calling, Linked
<1> QED BY <1>3, <1>4, <1>5, <1>6, <1>7

(* The stores of list_add_tail: only the first moves the end of the list.  *)
LEMMA LinkIInv ==
  ASSUME IInv, NEW t \in Thread,
         AddTail(t) \/ LinkBack(t) \/ LinkNew(t) \/ LinkNewBack(t) \/ LinkOn(t)
  PROVE  IInv'
<1> USE DEF IInv, history
<1>0. Head \in Node /\ Head \notin Buffer /\ (1 .. nbufs) \subseteq Buffer /\ Buffer \subseteq Node
  BY DEF TypeOK, Node, Buffer, Head
<1>1. CASE AddTail(t)
  <2> USE <1>1 DEF AddTail
  <2>1. TypeOK'
    BY <1>0 DEF TypeOK, PC
  <2>2. Ownership' /\ Freshness' /\ Solitude'
    BY DEF TypeOK, Ownership, Freshness, Solitude, Calling, Owns, Holding, Linked
  <2>3. Returned'
    BY DEF Returned
  <2> QED BY <2>1, <2>2, <2>3
<1>2. CASE LinkBack(t)
  <2> USE <1>2 DEF LinkBack
  <2>1. mine[t] \in (1 .. nbufs) \ Owns
    BY DEF Ownership, Holding
  <2>2. prev'[Head] = mine[t]
    BY <1>0 DEF TypeOK
  <2>3. TypeOK'
    BY <1>0, <2>1 DEF TypeOK, PC
  <2>4. Ownership'
    BY DEF TypeOK, Ownership, Owns, Holding
  <2>5. Freshness'
    BY <2>1, <2>2 DEF TypeOK, Freshness, Owns, Linked
  <2>6. Solitude'
    BY <2>2 DEF TypeOK, Solitude, Calling, Linked
  <2>7. Returned'
    BY DEF Returned
  <2> QED BY <2>3, <2>4, <2>5, <2>6, <2>7
<1>3. CASE LinkNew(t)
  <2> USE <1>3 DEF LinkNew
  <2>1. TypeOK'
    BY <1>0 DEF TypeOK, PC
  <2>2. Ownership' /\ Freshness' /\ Solitude'
    BY DEF TypeOK, Ownership, Freshness, Solitude, Calling, Owns, Holding, Linked
  <2>3. Returned'
    BY DEF Returned
  <2> QED BY <2>1, <2>2, <2>3
<1>4. CASE LinkNewBack(t)
  <2> USE <1>4 DEF LinkNewBack
  <2>1. mine[t] # Head
    BY <1>0 DEF Ownership, Holding
  <2>2. prev'[Head] = prev[Head]
    BY <1>0, <2>1 DEF TypeOK
  <2>3. TypeOK'
    BY <1>0 DEF TypeOK, PC
  <2>4. Ownership' /\ Freshness' /\ Solitude'
    BY <2>2 DEF TypeOK, Ownership, Freshness, Solitude, Calling, Owns, Holding, Linked
  <2>5. Returned'
    BY DEF Returned
  <2> QED BY <2>3, <2>4, <2>5
<1>5. CASE LinkOn(t)
  <2> USE <1>5 DEF LinkOn
  <2>1. mine[t] \in Node
    BY <1>0 DEF Ownership, Holding
  <2>2. TypeOK'
    BY <1>0, <2>1 DEF TypeOK, PC
  <2>3. Ownership' /\ Freshness' /\ Solitude'
    BY DEF TypeOK, Ownership, Freshness, Solitude, Calling, Owns, Holding, Linked
  <2>4. Returned'
    BY DEF Returned
  <2> QED BY <2>2, <2>3, <2>4
<1> QED BY <1>1, <1>2, <1>3, <1>4, <1>5

(* A call that fails, in the ioctl or in mmap, returns nothing.            *)
LEMMA FailsIInv ==
  ASSUME IInv, NEW t \in Thread, AllocFails(t) \/ NodeFails(t) \/ MapFails(t)
  PROVE  IInv'
<1> USE DEF IInv, AllocFails, NodeFails, MapFails, history
<1>1. TypeOK'
  BY DEF TypeOK, PC
<1>2. Ownership' /\ Freshness' /\ Solitude'
  BY DEF TypeOK, Ownership, Freshness, Solitude, Calling, Owns, Holding, Linked
<1>3. Returned'
  BY DEF Returned
<1> QED BY <1>1, <1>2, <1>3

LEMMA MapLatestIInv ==
  ASSUME IInv, NEW t \in Thread, MapLatest(t)
  PROVE  IInv'
<1> USE DEF IInv, history
<1> DEFINE new == [own |-> mine[t], mapped |-> Latest, frame |-> buf[Latest].pbase,
                   size |-> want[t], psize |-> buf[Latest].size, alone |-> alone[t]]
<1>1. /\ pc[t] = "mmap" /\ pc' = [pc EXCEPT ![t] = "idle"]
      /\ handed' = handed \cup {new}
      /\ UNCHANGED <<nbufs, buf, next, prev, want, mine, last, before, alone, calm>>
  BY DEF MapLatest
<1>2. /\ mine[t] \in 1 .. nbufs /\ mine[t] \notin Owns
      /\ buf[mine[t]].size = AlignUp(want[t]) /\ want[t] \in Requests
  BY <1>1 DEF Ownership, Holding
<1>3. /\ Latest \in 1 .. nbufs
      /\ alone[t] => Latest = mine[t]
  BY <1>1 DEF Freshness, Solitude, Calling, Linked, Latest
<1>4. /\ (1 .. nbufs) \subseteq Buffer /\ Buffer \subseteq Node
      /\ buf[Latest] \in [pbase : Nat, size : Nat]
  BY <1>3 DEF TypeOK, Node, Buffer
<1>5. new \in [own : Buffer, mapped : Node, frame : Nat,
               size : Requests, psize : Nat, alone : BOOLEAN]
  BY <1>2, <1>3, <1>4 DEF TypeOK
<1>6. new.own = mine[t] /\ (new.alone => new.mapped = new.own /\ Fits(new))
  <2>1. want[t] \in Nat
    BY <1>2, RequestNat
  <2>2. want[t] + PageSize <= Word => AlignUp(want[t]) = PageUp(want[t]) /\ AlignUp(want[t]) \in Nat
    BY <2>1, Rounding
  <2>3. ASSUME alone[t] PROVE Latest = mine[t] /\ Fits(new)
    <3>1. new.size = want[t] /\ new.psize = AlignUp(want[t])
      BY <1>2, <1>3, <2>3
    <3> HIDE DEF new
    <3> QED BY <1>3, <2>2, <2>3, <3>1 DEF Fits
  <2>4. new.own = mine[t] /\ new.mapped = Latest /\ new.alone = alone[t]
    OBVIOUS
  <2> HIDE DEF new
  <2> QED BY <2>3, <2>4
<1> HIDE DEF new
<1>7. TypeOK'
  BY <1>1, <1>5 DEF TypeOK, PC
<1>8. Owns' = Owns \cup {mine[t]}
  <2>1. \A b : b \in Owns' <=> b \in Owns \/ b = new.own
    BY <1>1 DEF Owns
  <2> QED BY <1>6, <2>1, Zenon
<1>9. Ownership'
  BY <1>1, <1>8 DEF TypeOK, Ownership, Holding
<1>10. Returned'
  BY <1>1, <1>2, <1>6 DEF Returned, Fits
<1>11. Freshness'
  BY <1>1, <1>8 DEF TypeOK, Freshness, Linked
<1>12. Solitude'
  BY <1>1 DEF TypeOK, Solitude, Calling, Linked
<1> QED BY <1>7, <1>9, <1>10, <1>11, <1>12

LEMMA NextIInv == IInv /\ [Next]_vars => IInv'
<1> SUFFICES ASSUME IInv, [Next]_vars PROVE IInv'
  OBVIOUS
<1>1. ASSUME NEW t \in Thread, Step(t) PROVE IInv'
  BY <1>1, AllocPagesIInv, LinkIInv, FailsIInv, MapLatestIInv DEF Step
<1>2. ASSUME NEW t \in Thread, NEW size_b \in Requests, Call(t, size_b) PROVE IInv'
  BY <1>2, CallIInv
<1>3. CASE UNCHANGED vars
  BY <1>3 DEF vars, IInv, TypeOK, Ownership, Returned, Freshness, Solitude, Calling, Owns
<1> QED BY <1>1, <1>2, <1>3 DEF Next

LEMMA Invariance == Spec => []IInv
  BY InitIInv, NextIInv, PTL DEF Spec

-----------------------------------------------------------------------------
(***************************************************************************)
(* The list while calls do not overlap.  Adding is the only thing that     *)
(* goes on then: all but the newest buffer are chained, and the four       *)
(* stores have been done as far as the program counter says.               *)
(***************************************************************************)
Resting == {"idle", "dead", "alloc", "mmap"}
Adding == {"add", "linkBack", "linkNew", "linkNewBack", "linkOn"}

Onward(n) == \A b \in 0 .. n : next[b] = IF b = n THEN Head ELSE b + 1
Back(n) == \A b \in 1 .. n : prev[b] = b - 1

Stores(t) ==
  /\ mine[t] = nbufs /\ nbufs # 0
  /\ Onward(nbufs - 1) /\ Back(nbufs - 1)
  /\ prev[Head] = IF pc[t] \in {"add", "linkBack"} THEN nbufs - 1 ELSE nbufs
  /\ pc[t] # "add" => last[t] = nbufs - 1
  /\ pc[t] \in {"linkNewBack", "linkOn"} => next[nbufs] = Head
  /\ pc[t] = "linkOn" => prev[nbufs] = nbufs - 1

Listed ==
  calm => /\ \A t, u \in Calling : t = u
          /\ \A t \in Thread : pc[t] \in Adding => Stores(t)
          /\ (\A t \in Thread : pc[t] \in Resting) =>
               Onward(nbufs) /\ Back(nbufs) /\ prev[Head] = nbufs

LEMMA InitListed == Init => Listed
  BY DEF Init, Listed, Onward, Back, Node, Buffer, Head, Adding, Calling

LEMMA NextListed == TypeOK /\ Listed /\ [Next]_vars => Listed'
<1> SUFFICES ASSUME TypeOK, Listed, [Next]_vars, calm' PROVE Listed'
  BY DEF Listed
<1> USE DEF Listed, Resting, Adding, history
<1>0. calm /\ nbufs \in Nat /\ Head = 0 /\ (0 .. nbufs) \subseteq Node /\ nbufs <= MaxBufs
  <2>1. calm
    BY DEF Next, Step, Call, AllocFails, NodeFails, AllocPages, AddTail, LinkBack, LinkNew, LinkNewBack,
           LinkOn, MapLatest, MapFails, vars
  <2> QED BY <2>1 DEF TypeOK, Node, Buffer, Head
<1>1. ASSUME NEW t \in Thread, NEW size_b \in Requests, Call(t, size_b) PROVE Listed'
  <2>1. \A u \in Thread : pc[u] \in {"idle", "dead"}
    BY <1>1 DEF Call, Calling
  <2> QED BY <1>0, <1>1, <2>1 DEF Call, Calling, TypeOK, Onward, Back
<1>2. ASSUME NEW t \in Thread, Step(t) PROVE Listed'
  <2>0. \A u \in Thread : u # t => pc[u] \in {"idle", "dead"} /\ pc'[u] = pc[u]
    <3>1. t \in Calling /\ \E p \in PC : pc' = [pc EXCEPT ![t] = p]
      BY <1>2 DEF Step, AllocFails, NodeFails, AllocPages, AddTail, LinkBack, LinkNew,
                  LinkNewBack, LinkOn, MapLatest, MapFails, Calling, PC
    <3>2. pc \in [Thread -> PC]
      BY DEF TypeOK
    <3>3. \A u \in Calling : u = t
      BY <1>0, <3>1
    <3> QED BY <3>1, <3>2, <3>3 DEF Calling
  <2>1. CASE AllocFails(t) \/ NodeFails(t) \/ MapFails(t) \/ MapLatest(t)
    <3>1. CASE AllocFails(t)
      BY <1>0, <2>0, <3>1 DEF Calling, AllocFails, TypeOK, Onward, Back
    <3>2. CASE NodeFails(t)
      BY <1>0, <2>0, <3>2 DEF Calling, NodeFails, TypeOK, Onward, Back
    <3>3. CASE MapFails(t)
      BY <1>0, <2>0, <3>3 DEF Calling, MapFails, TypeOK, Onward, Back
    <3>4. CASE MapLatest(t)
      BY <1>0, <2>0, <3>4 DEF Calling, MapLatest, TypeOK, Onward, Back
    <3> QED BY <2>1, <3>1, <3>2, <3>3, <3>4
  <2>2. CASE AllocPages(t)
    BY <1>0, <2>0, <2>2 DEF AllocPages, HasPages, Calling, TypeOK, Onward, Back, Stores
  <2>3. CASE AddTail(t)
    BY <1>0, <2>0, <2>3 DEF AddTail, Calling, TypeOK, Onward, Back, Stores
  <2>4. CASE LinkBack(t)
    BY <1>0, <2>0, <2>4 DEF LinkBack, Calling, TypeOK, Onward, Back, Stores
  <2>5. CASE LinkNew(t)
    BY <1>0, <2>0, <2>5 DEF LinkNew, Calling, TypeOK, Onward, Back, Stores
  <2>6. CASE LinkNewBack(t)
    BY <1>0, <2>0, <2>6 DEF LinkNewBack, Calling, TypeOK, Onward, Back, Stores
  <2>7. CASE LinkOn(t)
    <3>1. /\ Stores(t) /\ pc[t] = "linkOn" /\ pc' = [pc EXCEPT ![t] = "mmap"]
          /\ next' = [next EXCEPT ![nbufs - 1] = nbufs]
          /\ UNCHANGED <<nbufs, prev>>
      BY <1>0, <2>7 DEF LinkOn, Stores
    <3>2. Onward(nbufs)'
      <4>1. /\ next[nbufs] = Head /\ nbufs - 1 \in Node /\ next \in [Node -> Node \cup {NoNode}]
            /\ \A b \in 0 .. nbufs - 2 : next[b] = b + 1
        BY <1>0, <3>1 DEF TypeOK, Onward, Stores
      <4>2. \A b \in 0 .. nbufs : next'[b] = IF b = nbufs THEN Head ELSE b + 1
        BY <1>0, <3>1, <4>1
      <4> QED BY <1>0, <3>1, <4>2 DEF Onward
    <3>3. Back(nbufs)'
      <4>1. Back(nbufs - 1) /\ prev[nbufs] = nbufs - 1
        BY <3>1 DEF Stores
      <4> QED BY <1>0, <3>1, <4>1 DEF Back
    <3>4. (prev[Head] = nbufs)'
      BY <3>1 DEF Stores
    <3>5. \A u \in Thread : pc'[u] \notin Adding
      BY <2>0, <3>1 DEF TypeOK
    <3>6. (\A u, v \in Calling : u = v)'
      BY <2>0 DEF Calling
    <3> QED BY <3>2, <3>3, <3>4, <3>5, <3>6, Zenon
  <2> QED BY <1>2, <2>1, <2>2, <2>3, <2>4, <2>5, <2>6, <2>7 DEF Step
<1>3. CASE UNCHANGED vars
  BY <1>3 DEF vars, Calling, Onward, Back, Stores
<1> QED BY <1>1, <1>2, <1>3 DEF Next

-----------------------------------------------------------------------------
(***************************************************************************)
(* The links of the list, however the calls interleave.  A node is hidden  *)
(* until its call has read the end of the list, which has been another     *)
(* node's place before: ranked in the order they read it, the nodes are    *)
(* only ever linked to later ones.                                         *)
(***************************************************************************)
Placed == {"linkBack", "linkNew", "linkNewBack", "linkOn"}

Hidden(b) == /\ prev[Head] # b /\ next[b] = NoNode
             /\ \A n \in Node : next[n] # b
             /\ \A u \in Thread : last[u] # b

Ranked(r, m) ==
  /\ \A n \in Node : r[n] <= m
  /\ \A n \in Node : next[n] \in Buffer => r[n] < r[next[n]]
  /\ \A t \in Thread : pc[t] \in Placed => r[last[t]] < r[mine[t]]

Ends == /\ prev[Head] \in Node
        /\ \A t \in Thread : pc[t] \in Placed => last[t] \in Node
        /\ \A b \in Buffer : b > nbufs => Hidden(b)
        /\ \A t \in Thread : pc[t] = "add" => Hidden(mine[t])

Links == /\ next[Head] # NoNode
         /\ \A n \in Node : next[n] # NoNode => next[next[n]] # NoNode
         /\ \A t \in Thread : pc[t] \in {"linkNewBack", "linkOn"} => next[mine[t]] # NoNode

Order == \E r \in [Node -> Nat], m \in Nat : Ranked(r, m)

Chain == Ends /\ Links /\ Order

LEMMA InitChain == Init => Chain
<1> SUFFICES ASSUME Init PROVE Chain
  OBVIOUS
<1>1. Ends /\ Links
  BY DEF Init, Ends, Links, Hidden, Placed, Node, Buffer, Head, NoNode
<1>2. Ranked([n \in Node |-> 0], 0)
  BY DEF Init, Ranked, Placed, Node, Buffer, Head, NoNode
<1> QED BY <1>1, <1>2 DEF Chain, Order

LEMMA ChainFacts ==
  ASSUME IInv, NEW t \in Thread, pc[t] \in Holding
  PROVE  /\ mine[t] \in 1 .. nbufs /\ mine[t] \in Buffer /\ mine[t] \in Node /\ mine[t] # Head
         /\ mine[t] # NoNode /\ Head \in Node /\ Head # NoNode
         /\ \A u \in Thread : u # t /\ pc[u] \in Holding => mine[u] # mine[t]
  BY DEF IInv, TypeOK, Ownership, Node, Buffer, Head, NoNode

(* The end of the list is read: the node is given its rank, the highest.    *)
LEMMA AddTailChain ==
  ASSUME IInv, Chain, NEW t \in Thread, AddTail(t)
  PROVE  Chain'
<1>1. /\ pc[t] = "add" /\ pc' = [pc EXCEPT ![t] = "linkBack"] /\ last' = [last EXCEPT ![t] = prev[Head]]
      /\ pc \in [Thread -> PC] /\ last \in [Thread -> Node \cup {NoNode}]
      /\ UNCHANGED <<nbufs, buf, next, prev, want, mine, handed>>
  BY DEF AddTail, IInv, TypeOK
<1>2. /\ mine[t] \in Buffer /\ mine[t] \in Node
      /\ \A u \in Thread : u # t /\ pc[u] \in Holding => mine[u] # mine[t]
  BY <1>1, ChainFacts DEF Holding
<1>3. Hidden(mine[t]) /\ prev[Head] \in Node
  BY <1>1 DEF Chain, Ends
<1>4. ASSUME NEW b, Hidden(b) PROVE Hidden(b)'
  BY <1>1, <1>4 DEF Hidden
<1>5. Ends'
  BY <1>1, <1>3, <1>4 DEF Chain, Ends, Placed
<1>6. Links'
  BY <1>1 DEF Chain, Links
<1>7. Order'
  <2>1. PICK r \in [Node -> Nat], m \in Nat : Ranked(r, m)
    BY DEF Chain, Order
  <2>2. PICK q \in [Node -> Nat] : /\ q[mine[t]] = m + 1
                                  /\ \A n \in Node : n # mine[t] => q[n] = r[n]
    <3> DEFINE f == [r EXCEPT ![mine[t]] = m + 1]
    <3>1. /\ f \in [Node -> Nat] /\ f[mine[t]] = m + 1
          /\ \A n \in Node : n # mine[t] => f[n] = r[n]
      BY <1>2
    <3> HIDE DEF f
    <3> QED BY <3>1
  <2>3. \A n \in Node : q[n] <= m + 1
    BY <2>1, <2>2 DEF Ranked
  <2>4. ASSUME NEW n \in Node, next[n] \in Buffer PROVE q[n] < q[next[n]]
    <3>1. n # mine[t] /\ next[n] # mine[t]
      BY <1>3, <2>4 DEF Hidden, Buffer, NoNode
    <3>2. next[n] \in Node
      BY <2>4 DEF Node
    <3> QED BY <2>1, <2>2, <2>4, <3>1, <3>2 DEF Ranked
  <2>5. ASSUME NEW u \in Thread, pc'[u] \in Placed PROVE q[last'[u]] < q[mine[u]]
    <3>1. CASE u = t
      <4>1. last'[t] = prev[Head] /\ prev[Head] # mine[t]
        BY <1>1, <1>3 DEF Hidden
      <4>2. q[prev[Head]] <= m /\ q[prev[Head]] \in Nat
        BY <1>3, <2>1, <2>2, <4>1 DEF Ranked
      <4> QED BY <2>2, <3>1, <4>1, <4>2
    <3>2. CASE u # t
      <4>1. pc[u] \in Placed /\ last'[u] = last[u]
        BY <1>1, <2>5, <3>2
      <4>2. last[u] \in Node /\ last[u] # mine[t] /\ mine[u] # mine[t]
        BY <1>2, <1>3, <3>2, <4>1 DEF Chain, Ends, Hidden, Holding, Placed
      <4>3. mine[u] \in Node /\ r[last[u]] < r[mine[u]]
        BY <2>1, <4>1, ChainFacts DEF Ranked, Holding, Placed
      <4> QED BY <2>2, <4>1, <4>2, <4>3
    <3> QED BY <3>1, <3>2
  <2>6. Ranked(q, m + 1)'
    BY <1>1, <2>3, <2>4, <2>5 DEF Ranked
  <2> QED BY <2>1, <2>2, <2>6 DEF Order
<1> QED BY <1>5, <1>6, <1>7 DEF Chain

(* The four stores.                                                        *)
LEMMA StoresChain ==
  ASSUME IInv, Chain, NEW t \in Thread,
         LinkBack(t) \/ LinkNew(t) \/ LinkNewBack(t) \/ LinkOn(t)
  PROVE  Chain'
<1>1. /\ pc[t] \in Placed /\ pc[t] \in Holding
      /\ UNCHANGED <<nbufs, buf, want, mine, last, handed>>
      /\ pc \in [Thread -> PC] /\ next \in [Node -> Node \cup {NoNode}] /\ prev \in [Node -> Node \cup {NoNode}]
      /\ \A u \in Thread : pc'[u] \in Placed => pc[u] \in Placed
      /\ \A u \in Thread : pc'[u] = "add" => pc[u] = "add" /\ u # t
  BY DEF LinkBack, LinkNew, LinkNewBack, LinkOn, IInv, TypeOK, Placed, Holding
<1>2. /\ mine[t] \in 1 .. nbufs /\ mine[t] \in Buffer /\ mine[t] \in Node /\ mine[t] # Head
      /\ mine[t] # NoNode /\ Head \in Node /\ Head # NoNode
      /\ \A u \in Thread : u # t /\ pc[u] \in Holding => mine[u] # mine[t]
  BY <1>1, ChainFacts
<1>3. last[t] \in Node
  BY <1>1 DEF Chain, Ends
<1>4. PICK r \in [Node -> Nat], m \in Nat : Ranked(r, m)
  BY DEF Chain, Order
<1>5. ASSUME NEW b, \A n \in Node : next'[n] # b \/ next'[n] = next[n], prev'[Head] # b \/ prev'[Head] = prev[Head],
             next'[b] = next[b], Hidden(b)
      PROVE  Hidden(b)'
  BY <1>1, <1>5 DEF Hidden
<1>6. ASSUME NEW b \in Buffer, b > nbufs \/ (\E u \in Thread \ {t} : pc[u] = "add" /\ mine[u] = b)
      PROVE  b # mine[t] /\ b # Head /\ Hidden(b) /\ b # last[t]
  <2>0. b # Head
    BY DEF Buffer, Head
  <2>1. b # mine[t]
    <3>1. CASE b > nbufs
      <4>1. nbufs \in 0 .. MaxBufs
        BY DEF IInv, TypeOK
      <4>2. mine[t] <= nbufs
        BY <1>2, <4>1
      <4> QED BY <3>1, <4>1, <4>2 DEF Buffer
    <3>2. CASE \E u \in Thread \ {t} : pc[u] = "add" /\ mine[u] = b
      BY <1>2, <3>2 DEF Holding
    <3> QED BY <1>6, <3>1, <3>2
  <2>2. Hidden(b)
    BY <1>6 DEF Chain, Ends
  <2> QED BY <2>0, <2>1, <2>2 DEF Hidden
<1>7. ASSUME NEW u \in Thread, pc[u] = "add" PROVE mine[u] \in Buffer
  BY <1>7, ChainFacts DEF Holding
<1>8. CASE LinkBack(t)
  <2>1. pc[t] = "linkBack" /\ pc' = [pc EXCEPT ![t] = "linkNew"]
        /\ next' = next /\ prev'[Head] = mine[t]
    BY <1>1, <1>2, <1>8 DEF LinkBack
  <2>2. \A b \in Buffer : b > nbufs => Hidden(b)'
    BY <1>5, <1>6, <2>1
  <2>3. ASSUME NEW u \in Thread, pc'[u] = "add" PROVE Hidden(mine[u])'
    BY <1>1, <1>5, <1>6, <1>7, <2>1, <2>3
  <2>4. Ends'
    BY <1>1, <1>2, <2>1, <2>2, <2>3 DEF Chain, Ends
  <2>5. Links'
    BY <1>1, <2>1 DEF Chain, Links
  <2>6. Ranked(r, m)'
    BY <1>1, <1>4, <2>1 DEF Ranked
  <2> QED BY <1>4, <2>4, <2>5, <2>6 DEF Chain, Order
<1>9. CASE LinkNew(t)
  <2>1. pc[t] = "linkNew" /\ pc' = [pc EXCEPT ![t] = "linkNewBack"]
        /\ next' = [next EXCEPT ![mine[t]] = Head] /\ prev' = prev
    BY <1>9 DEF LinkNew
  <2>2. next'[mine[t]] = Head /\ \A n \in Node : n # mine[t] => next'[n] = next[n]
    BY <1>1, <1>2, <2>1
  <2>3. ASSUME NEW b \in Buffer, b > nbufs \/ (\E u \in Thread \ {t} : pc[u] = "add" /\ mine[u] = b)
        PROVE  Hidden(b)'
    <3>1. b # mine[t] /\ b # Head /\ Hidden(b) /\ b \in Node
      BY <1>6, <2>3 DEF Node
    <3> QED BY <1>5, <2>1, <2>2, <3>1
  <2>4. Ends'
    BY <1>1, <1>7, <2>1, <2>3 DEF Chain, Ends
  <2>5. Links'
    <3>1. next'[Head] # NoNode
      BY <1>2, <2>2 DEF Chain, Links
    <3>2. ASSUME NEW n \in Node, next'[n] # NoNode PROVE next'[next'[n]] # NoNode
      <4>1. CASE n = mine[t]
        BY <2>2, <3>1, <4>1
      <4>2. CASE n # mine[t]
        <5>1. next'[n] = next[n] /\ next[n] \in Node /\ next[next[n]] # NoNode
          BY <1>1, <2>2, <3>2, <4>2 DEF Chain, Links
        <5> QED BY <1>2, <2>2, <5>1
      <4> QED BY <4>1, <4>2
    <3>3. ASSUME NEW u \in Thread, pc'[u] \in {"linkNewBack", "linkOn"} PROVE next'[mine[u]] # NoNode
      <4>1. CASE u = t
        BY <1>2, <2>2, <4>1
      <4>2. CASE u # t
        <5>1. pc[u] \in {"linkNewBack", "linkOn"} /\ mine[u] \in Node /\ mine[u] # mine[t]
          BY <1>1, <1>2, <2>1, <3>3, <4>2, ChainFacts DEF Holding
        <5> QED BY <2>2, <5>1 DEF Chain, Links
      <4> QED BY <4>1, <4>2
    <3> QED BY <1>1, <3>1, <3>2, <3>3 DEF Links
  <2>6. Ranked(r, m)'
    <3>1. ASSUME NEW n \in Node, next'[n] \in Buffer PROVE r[n] < r[next'[n]]
      <4>1. n # mine[t]
        BY <2>2, <3>1 DEF Buffer, Head
      <4> QED BY <1>4, <2>2, <3>1, <4>1 DEF Ranked
    <3> QED BY <1>1, <1>4, <3>1 DEF Ranked
  <2> QED BY <1>4, <2>4, <2>5, <2>6 DEF Chain, Order
<1>10. CASE LinkNewBack(t)
  <2>1. pc[t] = "linkNewBack" /\ pc' = [pc EXCEPT ![t] = "linkOn"]
        /\ next' = next /\ prev'[Head] = prev[Head]
    BY <1>1, <1>2, <1>10 DEF LinkNewBack
  <2>2. ASSUME NEW b, Hidden(b) PROVE Hidden(b)'
    BY <1>5, <2>1, <2>2
  <2>3. Ends'
    BY <1>1, <2>1, <2>2 DEF Chain, Ends
  <2>4. Links'
    BY <1>1, <2>1 DEF Chain, Links
  <2>5. Ranked(r, m)'
    BY <1>1, <1>4, <2>1 DEF Ranked
  <2> QED BY <1>4, <2>3, <2>4, <2>5 DEF Chain, Order
<1>11. CASE LinkOn(t)
  <2>1. pc[t] = "linkOn" /\ pc' = [pc EXCEPT ![t] = "mmap"]
        /\ next' = [next EXCEPT ![last[t]] = mine[t]] /\ prev' = prev
    BY <1>11 DEF LinkOn
  <2>2. next'[last[t]] = mine[t] /\ \A n \in Node : n # last[t] => next'[n] = next[n]
    BY <1>1, <1>3, <2>1
  <2>3. ASSUME NEW b \in Buffer, b > nbufs \/ (\E u \in Thread \ {t} : pc[u] = "add" /\ mine[u] = b)
        PROVE  Hidden(b)'
    <3>1. b # mine[t] /\ Hidden(b) /\ b # last[t] /\ b \in Node
      BY <1>6, <2>3 DEF Node
    <3> QED BY <1>5, <2>1, <2>2, <3>1
  <2>4. Ends'
    BY <1>1, <1>7, <2>1, <2>3 DEF Chain, Ends
  <2>5. next[mine[t]] # NoNode /\ next'[mine[t]] # NoNode
    BY <1>2, <2>1, <2>2 DEF Chain, Links
  <2>6. Links'
    <3>1. \A n \in Node : next[n] # NoNode => next'[n] # NoNode
      BY <1>2, <2>2
    <3>2. ASSUME NEW n \in Node, next'[n] # NoNode PROVE next'[next'[n]] # NoNode
      <4>1. CASE n = last[t]
        BY <2>2, <2>5, <4>1
      <4>2. CASE n # last[t]
        <5>1. next'[n] = next[n] /\ next[n] \in Node /\ next[next[n]] # NoNode
          BY <1>1, <2>2, <3>2, <4>2 DEF Chain, Links
        <5> QED BY <3>1, <5>1
      <4> QED BY <4>1, <4>2
    <3>3. ASSUME NEW u \in Thread, pc'[u] \in {"linkNewBack", "linkOn"} PROVE next'[mine[u]] # NoNode
      <4>1. pc[u] \in {"linkNewBack", "linkOn"} /\ mine[u] \in Node
        BY <1>1, <2>1, <3>3, ChainFacts DEF Holding
      <4> QED BY <3>1, <4>1 DEF Chain, Links
    <3> QED BY <1>1, <1>2, <3>1, <3>2, <3>3 DEF Chain, Links
  <2>7. Ranked(r, m)'
    <3>1. ASSUME NEW n \in Node, next'[n] \in Buffer PROVE r[n] < r[next'[n]]
      <4>1. CASE n = last[t]
        BY <1>1, <1>4, <2>2, <4>1 DEF Ranked
      <4>2. CASE n # last[t]
        BY <1>4, <2>2, <3>1, <4>2 DEF Ranked
      <4> QED BY <4>1, <4>2
    <3> QED BY <1>1, <1>4, <3>1 DEF Ranked
  <2> QED BY <1>4, <2>4, <2>6, <2>7 DEF Chain, Order
<1> QED BY <1>8, <1>9, <1>10, <1>11

LEMMA NextChain == IInv /\ Chain /\ [Next]_vars => Chain'
<1> SUFFICES ASSUME IInv, Chain, [Next]_vars PROVE Chain'
  OBVIOUS
<1>0. nbufs \in Nat /\ pc \in [Thread -> PC] /\ mine \in [Thread -> Buffer \cup {NoNode}]
  BY DEF IInv, TypeOK
<1>1. ASSUME UNCHANGED <<next, prev, last, mine, nbufs>>,
             \A t \in Thread : pc'[t] = pc[t] \/ pc'[t] \in {"idle", "alloc", "dead"}
      PROVE  Chain'
  <2>1. Ends' /\ Links'
    BY <1>1 DEF Chain, Ends, Links, Hidden, Placed
  <2>2. PICK r \in [Node -> Nat], m \in Nat : Ranked(r, m)
    BY DEF Chain, Order
  <2>3. Ranked(r, m)'
    BY <1>1, <2>2 DEF Ranked, Placed
  <2> QED BY <2>1, <2>2, <2>3 DEF Chain, Order
<1>2. ASSUME NEW t \in Thread, AllocPages(t) PROVE Chain'
  <2>1. /\ UNCHANGED <<next, prev, last>> /\ nbufs' = nbufs + 1
        /\ mine' = [mine EXCEPT ![t] = nbufs'] /\ pc' = [pc EXCEPT ![t] = "add"]
        /\ nbufs' \in Buffer
    BY <1>0, <1>2 DEF AllocPages, HasPages, Buffer
  <2>2. Hidden(nbufs')
    BY <1>0, <2>1 DEF Chain, Ends, Buffer
  <2>3. \A u \in Thread : u # t => mine'[u] = mine[u] /\ pc'[u] = pc[u]
    BY <1>0, <2>1
  <2>4. mine'[t] = nbufs' /\ pc'[t] = "add"
    BY <1>0, <2>1
  <2>5. ASSUME NEW b, Hidden(b) PROVE Hidden(b)'
    BY <2>1, <2>5 DEF Hidden
  <2>6. Ends'
    <3>1. \A b \in Buffer : b > nbufs' => Hidden(b)'
      BY <1>0, <2>1, <2>5 DEF Chain, Ends, Buffer
    <3>2. ASSUME NEW u \in Thread, pc'[u] = "add" PROVE (Hidden(mine[u]))'
      <4>1. Hidden(mine'[u])
        BY <2>2, <2>3, <2>4, <3>2 DEF Chain, Ends
      <4> QED BY <2>1, <4>1 DEF Hidden
    <3> QED BY <2>1, <2>3, <2>4, <3>1, <3>2 DEF Chain, Ends, Placed
  <2>7. Links'
    BY <2>1, <2>3, <2>4 DEF Chain, Links
  <2>8. PICK r \in [Node -> Nat], m \in Nat : Ranked(r, m)
    BY DEF Chain, Order
  <2>9. Ranked(r, m)'
    BY <2>1, <2>3, <2>4, <2>8 DEF Ranked, Placed
  <2> QED BY <2>6, <2>7, <2>8, <2>9 DEF Chain, Order
<1>3. ASSUME NEW t \in Thread, NEW size_b \in Requests, Call(t, size_b) PROVE Chain'
  BY <1>0, <1>1, <1>3 DEF Call
<1>4. ASSUME NEW t \in Thread,
             AllocFails(t) \/ NodeFails(t) \/ MapLatest(t) \/ MapFails(t)
      PROVE  Chain'
  BY <1>0, <1>1, <1>4 DEF AllocFails, NodeFails, MapLatest, MapFails
<1>5. ASSUME NEW t \in Thread, Step(t) PROVE Chain'
  BY <1>2, <1>4, <1>5, AddTailChain, StoresChain DEF Step
<1>6. CASE UNCHANGED vars
  BY <1>1, <1>6 DEF vars
<1> QED BY <1>3, <1>5, <1>6 DEF Next

(* Of the nodes of a set, the one ranked last is linked out of it.          *)
LEMMA LastOfSet ==
  ASSUME NEW S \in SUBSET Node, S # {}, NEW r \in [Node -> Nat], NEW m \in Nat,
         \A n \in Node : r[n] <= m
  PROVE  \E x \in S : \A y \in S : r[y] <= r[x]
<1> DEFINE Less == OpToRel(<, Nat)
           T == {m - r[n] : n \in S}
<1>1. IsWellFoundedOn(Less, Nat)
  BY Zenon, NatLessThanWellFounded
<1>2. \A x, y \in Nat : x < y => <<x, y>> \in Less
  BY Zenon DEF OpToRel
<1>3. \A n \in S : m - r[n] \in Nat /\ r[n] \in Nat
  OBVIOUS
<1>4. T \subseteq Nat /\ T # {}
  BY <1>3
<1> HIDE DEF Less
<1>5. PICK k \in T : \A j \in T : ~(<<j, k>> \in Less)
  <2> HIDE DEF T
  <2> QED BY <1>1, <1>4, WFMin
<1>6. PICK x \in S : k = m - r[x]
  BY <1>5
<1>7. ASSUME NEW y \in S PROVE r[y] <= r[x]
  <2>1. m - r[y] \in T
    OBVIOUS
  <2>2. ~(m - r[y] < k)
    BY <1>2, <1>3, <1>4, <1>5, <2>1
  <2> QED BY <1>3, <1>6, <2>2
<1> QED BY <1>7

-----------------------------------------------------------------------------
(* Every variable of the library and of the driver keeps its type.         *)
THEOREM TypeCorrect == Spec => []TypeOK
<1>1. IInv => TypeOK
  BY DEF IInv
<1> QED BY <1>1, Invariance, PTL

(* As long as no two calls of hero_host_l3_malloc have overlapped, the     *)
(* driver's list holds every buffer once, in order, in both directions.    *)
THEOREM ListStaysIntact == Spec => []ListIntact
<1>1. TypeOK /\ Listed => ListIntact
  BY DEF TypeOK, Listed, ListIntact, Resting, Onward, Back, Head
<1>2. Spec => []Listed
  BY InitListed, NextListed, TypeCorrect, PTL DEF Spec
<1> QED BY <1>1, <1>2, TypeCorrect, PTL

(* However calls overlap, the walk of the list that every IOCTL_DMA_ALLOC   *)
(* does meets no link that is not set, and no cycle that avoids the head.   *)
THEOREM WalkReturns == Spec => []WalkEnds
<1>1. ASSUME IInv, Chain PROVE WalkEnds
  <2>1. \A n \in Node : next[n] # NoNode => next[next[n]] # NoNode
    BY <1>1 DEF Chain, Links
  <2>2. ASSUME NEW S \in SUBSET Buffer, S # {} PROVE \E n \in S : next[n] \notin S
    <3>1. PICK r \in [Node -> Nat], m \in Nat : Ranked(r, m)
      BY <1>1 DEF Chain, Order
    <3>2. S \in SUBSET Node
      BY DEF Node
    <3>3. \A n \in Node : r[n] <= m
      BY <3>1 DEF Ranked
    <3>4. PICK x \in S : \A y \in S : r[y] <= r[x]
      BY <2>2, <3>2, <3>3, LastOfSet
    <3>5. ASSUME next[x] \in S PROVE FALSE
      <4>1. r[x] < r[next[x]] /\ r[next[x]] <= r[x]
        BY <3>1, <3>2, <3>4, <3>5 DEF Ranked
      <4>2. r[x] \in Nat /\ r[next[x]] \in Nat
        BY <3>2, <3>4, <3>5
      <4> QED BY <4>1, <4>2
    <3> QED BY <3>5
  <2> QED BY <2>1, <2>2 DEF WalkEnds
<1>2. IInv /\ Chain /\ IInv' /\ [Next]_vars => Chain'
  BY NextChain
<1>3. Spec => []Chain
  BY <1>2, InitChain, Invariance, PTL DEF Spec
<1> QED BY <1>1, <1>3, Invariance, PTL

(* A call of hero_host_l3_malloc that no other overlaps maps its own       *)
(* buffer, and no more than it unless rounding the size up overflows.      *)
THEOREM AloneCorrect == Spec => []AloneMapsOwn
<1>1. IInv => AloneMapsOwn
  BY DEF IInv, Returned, Fits, AloneMapsOwn
<1> QED BY <1>1, Invariance, PTL

(* card_mmap never reads the head of an empty list, and never maps a       *)
(* buffer that a call which had returned before this one began holds.      *)
THEOREM FreshMapped == Spec => MapsFreshBuffer
<1>1. ASSUME IInv, [Next]_vars
      PROVE  [\A t \in Thread : MapLatest(t) =>
                \A h \in handed' \ handed : /\ h.mapped \in 1 .. nbufs
                                            /\ h.mapped \notin before[t]]_vars
  <2> SUFFICES ASSUME NEW t \in Thread, MapLatest(t), NEW h \in handed' \ handed
               PROVE  h.mapped \in (1 .. nbufs) \ before[t]
    OBVIOUS
  <2>1. pc[t] = "mmap" /\ h.mapped = Latest
    BY DEF MapLatest
  <2> QED BY <1>1, <2>1 DEF IInv, Freshness, Linked, Latest
<1> QED BY <1>1, Invariance, PTL DEF Spec, MapsFreshBuffer
=============================================================================
