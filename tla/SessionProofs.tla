--------------------------- MODULE SessionProofs ---------------------------
(***************************************************************************)
(* Theorems about Session for every size of the regions and of the blocks, *)
(* every number of calls of hero_dev_mmap and all three platforms.         *)
(***************************************************************************)
EXTENDS Session, TLAPS

USE SessionAssumption

(* Rounding up to a multiple of p.                                         *)
LEMMA RoundsUp ==
  ASSUME NEW x \in Nat, NEW p \in Nat \ {0}
  PROVE  /\ AlignUp(x, p) \in Nat /\ AlignUp(x, p) >= x
         /\ x % p = 0 => AlignUp(x, p) = x
<1> DEFINE y == x + p - 1
           d == y \div p
<1>1. y \in Nat /\ d \in Nat /\ y = p * d + (y % p) /\ y % p \in 0 .. p - 1
  OBVIOUS
<1>2. d * p = p * d /\ p * d \in Nat
  BY <1>1
<1>3. AlignUp(x, p) = p * d
  BY <1>2 DEF AlignUp
<1>4. ASSUME x % p = 0 PROVE p * d = x
  <2> DEFINE e == x \div p
  <2>1. e \in Nat /\ x = p * e
    BY <1>4
  <2> HIDE DEF d, e, y
  <2>2. d = e
    <3>1. CASE d >= e + 1
      <4>1. p * d >= p * (e + 1) /\ p * (e + 1) = p * e + p
        BY <1>1, <2>1, <3>1
      <4> QED BY <1>1, <1>2, <2>1, <4>1 DEF y
    <3>2. CASE d <= e - 1
      <4>1. p * d <= p * (e - 1) /\ p * (e - 1) = p * e - p
        BY <1>1, <2>1, <3>2
      <4> QED BY <1>1, <1>2, <2>1, <4>1 DEF y
    <3> QED BY <1>1, <2>1, <3>1, <3>2
  <2> QED BY <2>1, <2>2
<1> HIDE DEF d
<1> QED BY <1>1, <1>2, <1>3, <1>4

(* The offset of a heap is half the region: the two halves are multiples   *)
(* of the block size.                                                      *)
LEMMA Halves ==
  ASSUME NEW l \in Level
  PROVE  /\ HeapSize(Size[l]) \in Nat /\ Size[l] = 2 * HeapSize(Size[l])
         /\ HeapOffset(Size[l], Align) = HeapSize(Size[l])
<1> DEFINE s == Size[l]
           h == s \div 2
           m == s \div (2 * Align)
<1>1. s \in Nat \ {0} /\ Align \in Nat \ {0} /\ s % (2 * Align) = 0
  OBVIOUS
<1>2. h \in Nat /\ m \in Nat /\ s = (2 * Align) * m
  BY <1>1
<1>3. (2 * Align) * m = 2 * (Align * m) /\ Align * m \in Nat
  BY <1>1, <1>2
<1>4. h = Align * m
  BY <1>2, <1>3
<1>5. (Align * m) % Align = 0
  <2> HIDE DEF m
  <2> QED BY <1>2
<1>6. AlignUp(h, Align) = h
  BY <1>1, <1>2, <1>4, <1>5, RoundsUp
<1> QED BY <1>2, <1>3, <1>4, <1>6 DEF HeapSize, HeapOffset

LEMMA BaseType ==
  ASSUME NEW l \in Level, NEW k \in 1 .. MaxMaps
  PROVE  /\ VirtBase(l, k) \in Nat \ {0} /\ PhysBase(l) \in Nat
         /\ PhysBase(l) >= VirtBase(l, k)
<1>1. Size["l2"] \in Nat \ {0} /\ Size["l3"] \in Nat \ {0} /\ Sum2 \in Nat \ {0}
  BY DEF Level, Sum2
<1> HIDE DEF Sum2
<1>2. /\ k * Sum2 \in Nat /\ k * Sum2 >= Sum2
      /\ (MaxMaps + 1) * Sum2 \in Nat /\ (MaxMaps + 1) * Sum2 >= k * Sum2
  BY <1>1
<1> QED BY <1>1, <1>2 DEF VirtBase, PhysBase

LEMMA StartType ==
  ASSUME NEW l \in Level, NEW k \in 1 .. MaxMaps
  PROVE  /\ StartAt(l, k) \in [virt : Nat, phy : Nat]
         /\ StartAt(l, k).virt # NULL
         /\ StartAt(l, k).phy >= StartAt(l, k).virt
  BY BaseType, Halves DEF StartAt, NULL

(* o1heap returns a block of the heap that is not in use, or NULL.         *)
LEMMA Allocated ==
  ASSUME NEW l \in Level, NEW n \in Nat, NEW i \in 1 .. n, Alloc(l, n)[i] # NULL
  PROVE  Alloc(l, n)[i] \in Blocks(l) \ heap[l].used
  BY DEF Alloc, FreeBlocks, NULL

-----------------------------------------------------------------------------
(* Where blocks may be, and what is allocated while nothing is mapped.     *)
Placed == /\ \A l \in Level : /\ heap[l].used \subseteq Blocks(l) \ {NULL}
                              /\ heap[l].base = NULL => heap[l].used = {}
                              /\ start[l].phy >= start[l].virt
          /\ phase \in {"mapped", "ready"} => \A l \in Level : heap[l].base # NULL

(* In a second session hero_dev_munmap can free what it no longer has; the  *)
(* mailboxes' addresses are not yet recorded in a first.                    *)
Clean == platform = "spatz" \/ maps <= 1
Unrecorded == /\ maps = 0 => phase = "closed"
              /\ maps = 0 \/ (maps = 1 /\ phase \in {"failed", "mapped"}) => mbox[1] = NoBlock

(* What the application holds is in use, and held once.                    *)
Held == Clean => /\ \A b \in user : b.v \in heap[b.level].used
                 /\ \A b, c \in user : b.level = c.level /\ b.v = c.v => b = c

(* What the library holds is in use, and not held by the application.      *)
LayoutHeld == Clean /\ layout # NULL =>
                /\ layout \in heap["l3"].used
                /\ \A b \in user : b.level = "l3" => b.v # layout
MboxesHeld == Clean /\ phase = "ready" =>
                \A i \in 1 .. 6 :
                  mbox[i].v # NULL =>
                    /\ mbox[i].v \in heap["l2"].used
                    /\ \A b \in user : b.level = "l2" => b.v # mbox[i].v

ToldRight == phase = "ready" => /\ told.h2a = mbox[1].p /\ mbox[1].v # NULL
                                /\ told.a2h = mbox[3].p /\ mbox[3].v # NULL

SpatzStops == platform = "spatz" /\ running => phase = "ready"

(* No block of L2 is lost: each in use has an owner.                       *)
AppHolds(v) == \E b \in user : b.level = "l2" /\ b.v = v
NoneLost == platform # "spatz" =>
              /\ phase \in {"closed", "failed", "mapped"} =>
                   \A v \in heap["l2"].used : AppHolds(v)
              /\ phase = "ready" =>
                   \A v \in heap["l2"].used :
                     AppHolds(v) \/ \E i \in 1 .. 6 : v = mbox[i].v

IInv == /\ TypeOK /\ Placed /\ Held /\ LayoutHeld /\ MboxesHeld /\ ToldRight
        /\ SpatzStops /\ NoneLost /\ Unrecorded

LEMMA InitIInv == Init => IInv
<1> SUFFICES ASSUME Init PROVE IInv
  OBVIOUS
<1>1. TypeOK
  <2>1. /\ NoBlock \in [v : Nat, p : Nat]
        /\ [virt |-> NULL, phy |-> NULL] \in [virt : Nat, phy : Nat]
        /\ [base |-> NULL, used |-> {}] \in [base : Nat, used : SUBSET Nat]
        /\ 0 \in 0 .. MaxMaps
    BY DEF NoBlock, NULL
  <2> QED BY <2>1 DEF Init, TypeOK, NULL
<1>2. Placed
  BY DEF Init, Placed, NULL
<1>3. Held /\ LayoutHeld /\ MboxesHeld /\ ToldRight /\ SpatzStops /\ NoneLost /\ Unrecorded
  <2>1. /\ user = {} /\ layout = NULL /\ phase = "closed" /\ ~running /\ heap["l2"].used = {}
        /\ mbox[1] = NoBlock
    BY DEF Init, Level
  <2> QED BY <2>1 DEF Held, LayoutHeld, MboxesHeld, ToldRight, SpatzStops, NoneLost, Unrecorded
<1> QED BY <1>1, <1>2, <1>3 DEF IInv

-----------------------------------------------------------------------------
(* What every call of hero_dev_mmap does, whether it fails or not: a heap   *)
(* stays as it is or is set up where the call has mapped its region.        *)
Remaps ==
  /\ CanMap /\ maps' = maps + 1
  /\ phase' \in {"failed", "mapped"}
  /\ start' \in [Level -> [virt : Nat, phy : Nat]] /\ DOMAIN heap' = Level
  /\ \A l \in Level : /\ start'[l] = start[l] \/ start'[l] = StartAt(l, maps')
                      /\ \/ heap'[l] = heap[l] /\ phase' = "failed"
                         \/ /\ heap'[l] = InitHeap(l, start'[l].virt)
                            /\ start'[l] = StartAt(l, maps')
  /\ heap' = [l \in Level |-> heap'[l]]
  /\ UNCHANGED <<platform, mbox, told, layout, user, running>>

LEMMA MmapRemaps ==
  ASSUME TypeOK, MmapFails \/ MmapFailsL2 \/ MmapFailsL3 \/ MmapFailsLate \/ Mmap
  PROVE  Remaps
<1> USE DEF TypeOK
<1>0. maps' = maps + 1 /\ CanMap /\ maps' \in 1 .. MaxMaps
  BY DEF MmapFails, MmapFailsL2, MmapFailsL3, MmapFailsLate, Mmap, CanMap
<1>1. \A l \in Level : StartAt(l, maps') \in [virt : Nat, phy : Nat]
  BY <1>0, StartType
<1>2. CASE MmapFails
  BY <1>0, <1>2 DEF MmapFails, Remaps
<1>3. CASE MmapFailsL2
  BY <1>0, <1>1, <1>3 DEF MmapFailsL2, Remaps, Level
<1>4. CASE MmapFailsL3
  BY <1>0, <1>1, <1>4 DEF MmapFailsL3, Remaps, Level
<1>5. CASE MmapFailsLate
  BY <1>0, <1>1, <1>5 DEF MmapFailsLate, Remaps
<1>6. CASE Mmap
  BY <1>0, <1>1, <1>6 DEF Mmap, Remaps
<1> QED BY <1>2, <1>3, <1>4, <1>5, <1>6

LEMMA RemapsIInv ==
  ASSUME IInv, Remaps PROVE IInv'
<1> USE DEF IInv
<1>0. /\ maps' \in 1 .. MaxMaps /\ phase \in {"closed", "failed"}
      /\ phase' \in {"failed", "mapped"}
      /\ UNCHANGED <<platform, mbox, told, layout, user, running>>
  BY DEF Remaps, CanMap, TypeOK
<1>1. \A l \in Level : /\ heap'[l].used = heap[l].used
                       /\ heap'[l].base \in Nat
                       /\ heap[l].base # NULL => heap'[l].base = heap[l].base
                       /\ phase' = "mapped" => heap'[l].base # NULL
  <2> SUFFICES ASSUME NEW l \in Level
               PROVE  /\ heap'[l].used = heap[l].used
                      /\ heap'[l].base \in Nat
                      /\ heap[l].base # NULL => heap'[l].base = heap[l].base
                      /\ phase' = "mapped" => heap'[l].base # NULL
    OBVIOUS
  <2>1. /\ heap[l].base \in Nat /\ StartAt(l, maps').virt \in Nat /\ StartAt(l, maps').virt # NULL
    BY <1>0, StartType DEF TypeOK, NULL
  <2>2. heap[l].base = NULL => heap[l].used = {}
    BY DEF Placed
  <2>3. CASE heap'[l] = heap[l] /\ phase' = "failed"
    BY <2>1, <2>3
  <2>4. CASE heap'[l] = InitHeap(l, start'[l].virt) /\ start'[l] = StartAt(l, maps')
    <3>1. CASE heap[l].base # NULL
      BY <2>1, <2>4, <3>1 DEF InitHeap
    <3>2. CASE heap[l].base = NULL
      <4>1. heap'[l] = [base |-> start'[l].virt, used |-> {}]
        BY <2>4, <3>2 DEF InitHeap
      <4>2. start'[l].virt \in Nat /\ start'[l].virt # NULL
        BY <2>1, <2>4
      <4>3. heap'[l].base = start'[l].virt /\ heap'[l].used = {}
        BY <4>1
      <4> QED BY <2>2, <3>2, <4>2, <4>3
    <3> QED BY <3>1, <3>2
  <2> QED BY <2>3, <2>4 DEF Remaps
<1>2. TypeOK'
  <2>1. heap' \in [Level -> [base : Nat, used : SUBSET Nat]]
    <3>1. ASSUME NEW l \in Level PROVE heap'[l] \in [base : Nat, used : SUBSET Nat]
      <4>1. heap[l] \in [base : Nat, used : SUBSET Nat]
        BY DEF TypeOK
      <4>2. heap'[l] = heap[l] \/ heap'[l] = [base |-> heap'[l].base, used |-> heap'[l].used]
        BY DEF Remaps, InitHeap
      <4> QED BY <1>1, <4>1, <4>2
    <3> QED BY <3>1 DEF Remaps
  <2> QED BY <1>0, <2>1 DEF TypeOK, Remaps
<1>3. Placed'
  <2>1. \A l \in Level : Blocks(l)' = Blocks(l) \/ heap[l].used = {}
    BY <1>1 DEF Placed, Blocks
  <2>2. \A l \in Level : start'[l].phy >= start'[l].virt
    BY <1>0, StartType DEF Placed, Remaps
  <2> QED BY <1>0, <1>1, <2>1, <2>2 DEF Placed
<1>4. Held' /\ LayoutHeld' /\ SpatzStops'
  <2>1. Clean' => Clean
    BY DEF Clean, Remaps, TypeOK
  <2> QED BY <1>0, <1>1, <2>1 DEF Held, LayoutHeld, SpatzStops, TypeOK, Level
<1>5. MboxesHeld' /\ ToldRight'
  BY <1>0 DEF MboxesHeld, ToldRight
<1>6. NoneLost'
  BY <1>0, <1>1 DEF NoneLost, AppHolds, Level
<1>7. Unrecorded'
  <2>1. maps \in Nat /\ maps' = maps + 1
    BY DEF TypeOK, Remaps
  <2> QED BY <1>0, <2>1 DEF Unrecorded
<1> QED BY <1>2, <1>3, <1>4, <1>5, <1>6, <1>7

-----------------------------------------------------------------------------
LEMMA BlocksType ==
  ASSUME TypeOK, NEW l \in Level PROVE Blocks(l) \subseteq Nat
<1>1. heap[l].base \in Nat /\ Align \in Nat
  BY DEF TypeOK
<1>2. \A i \in 1 .. HeapSize(Size[l]) \div Align : Align * (i - 1) \in Nat
  BY <1>1
<1> QED BY <1>1, <1>2 DEF Blocks

LEMMA PhysType ==
  ASSUME TypeOK, Placed, NEW l \in Level, NEW v \in Nat PROVE ToPhys(l, v) \in Nat
  BY DEF TypeOK, Placed, ToPhys

LEMMA InitDeviceIInv ==
  ASSUME IInv, InitDevice PROVE IInv'
<1> USE DEF IInv
<1> DEFINE a == Alloc("l2", 6)
           new == {a[i] : i \in 1 .. 6} \ {NULL}
<1>1. /\ phase = "mapped" /\ phase' = "ready" /\ UNCHANGED <<platform, maps, start, user, running>>
      /\ a[1] # NULL /\ a[3] # NULL
      /\ layout' = NULL \/ layout' = LayoutBlock
      /\ mbox' = [i \in 1 .. 6 |-> Block("l2", a[i])]
      /\ told' = [h2a |-> mbox'[1].p, a2h |-> mbox'[3].p]
  BY DEF InitDevice, AllocMboxes, Structs
<1>2. \A i \in 1 .. 6 : a[i] \in Nat /\ (a[i] # NULL => a[i] \in Blocks("l2") \ heap["l2"].used)
  BY Allocated, BlocksType DEF Level, NULL
<1>3. layout' \in Nat /\ (layout' # NULL => layout' \in Blocks("l3") \ heap["l3"].used)
  BY <1>1, Allocated, BlocksType DEF LayoutBlock, Level, NULL
<1>4. /\ DOMAIN heap' = Level
      /\ \A l \in Level : heap'[l] = [base |-> heap[l].base, used |-> heap'[l].used]
      /\ heap'["l2"].used = heap["l2"].used \cup new
      /\ heap'["l3"].used = heap["l3"].used \cup ({layout'} \ {NULL})
  <2>1. heap \in [Level -> [base : Nat, used : SUBSET Nat]]
    BY DEF TypeOK
  <2>2. heap' = [l \in Level |->
                  [heap[l] EXCEPT !.used = @ \cup
                       CASE l = "l2" -> {a[i] : i \in 1 .. 6} \ {NULL}
                         [] l = "l3" -> {layout'} \ {NULL}]]
    BY DEF InitDevice
  <2> HIDE DEF a
  <2>3. /\ heap'["l2"] = [heap["l2"] EXCEPT !.used = heap["l2"].used \cup new]
        /\ heap'["l3"] = [heap["l3"] EXCEPT !.used = heap["l3"].used \cup ({layout'} \ {NULL})]
    BY <2>2 DEF Level
  <2> QED BY <2>1, <2>2, <2>3 DEF Level
<1>5. \A i \in 1 .. 6 : mbox'[i].v = a[i] /\ mbox'[i].p = ToPhys("l2", a[i])
  BY <1>1 DEF Block
<1> HIDE DEF a
<1>6. TypeOK'
  <2>1. new \subseteq Nat /\ {layout'} \ {NULL} \subseteq Nat
    BY <1>2, <1>3
  <2>2. \A i \in 1 .. 6 : Block("l2", a[i]) \in [v : Nat, p : Nat]
    BY <1>2, PhysType DEF Block, Level
  <2>3. heap' \in [Level -> [base : Nat, used : SUBSET Nat]]
    <3>1. ASSUME NEW l \in Level PROVE heap'[l] \in [base : Nat, used : SUBSET Nat]
      <4>1. heap[l].base \in Nat /\ heap[l].used \subseteq Nat
        BY DEF TypeOK
      <4>2. heap'[l].used \subseteq Nat
        BY <1>4, <2>1, <4>1 DEF Level
      <4> QED BY <1>4, <4>1, <4>2
    <3>2. heap' = [l \in Level |-> heap'[l]]
      BY DEF InitDevice
    <3> QED BY <3>1, <3>2
  <2>4. told' \in [h2a : Nat, a2h : Nat]
    BY <1>1, <2>2
  <2> QED BY <1>1, <1>3, <2>2, <2>3, <2>4 DEF TypeOK
<1>7. Placed'
  <2>1. \A l \in Level : Blocks(l)' = Blocks(l)
    BY <1>4 DEF Blocks
  <2>2. /\ new \subseteq Blocks("l2") \ {NULL}
        /\ {layout'} \ {NULL} \subseteq Blocks("l3") \ {NULL}
    BY <1>2, <1>3
  <2>3. \A l \in Level : heap'[l].used \subseteq Blocks(l) \ {NULL}
    BY <1>4, <2>2 DEF Placed, Level
  <2>4. \A l \in Level : heap'[l].base = heap[l].base /\ heap[l].base # NULL
    BY <1>1, <1>4 DEF Placed
  <2> QED BY <1>1, <2>1, <2>3, <2>4 DEF Placed
<1>a. Clean' <=> Clean
  BY <1>1 DEF Clean
<1>8. Held'
  <2>1. \A l \in Level : heap[l].used \subseteq heap'[l].used
    BY <1>4 DEF Level
  <2> QED BY <1>1, <1>a, <2>1 DEF Held, TypeOK
<1>9. LayoutHeld'
  BY <1>1, <1>3, <1>4, <1>a DEF LayoutHeld, Held
<1>10. MboxesHeld'
  BY <1>1, <1>2, <1>4, <1>5, <1>a DEF MboxesHeld, Held
<1>11. ToldRight' /\ SpatzStops'
  BY <1>1, <1>5 DEF ToldRight, SpatzStops
<1>12. NoneLost'
  BY <1>1, <1>4, <1>5 DEF NoneLost, AppHolds
<1>13. Unrecorded'
  BY <1>1 DEF Unrecorded
<1> QED BY <1>6, <1>7, <1>8, <1>9, <1>10, <1>11, <1>12, <1>13

LEMMA MallocIInv ==
  ASSUME IInv, NEW l \in Level, Malloc(l) PROVE IInv'
<1> USE DEF IInv
<1> DEFINE w == Alloc(l, 1)[1]
           new == [level |-> l, v |-> w, p |-> ToPhys(l, w)]
<1>1. /\ phase \in {"mapped", "ready"} /\ w # NULL /\ user' = user \cup {new}
      /\ heap' = [heap EXCEPT ![l].used = @ \cup {w}]
      /\ UNCHANGED <<platform, phase, maps, start, mbox, told, layout, running>>
  BY DEF Malloc
<1>2. w \in Blocks(l) \ heap[l].used /\ w \in Nat
  BY <1>1, Allocated, BlocksType
<1>3. new \in [level : Level, v : Nat, p : Nat]
  BY <1>2, PhysType
<1> HIDE DEF w
<1>4. /\ heap' \in [Level -> [base : Nat, used : SUBSET Nat]]
      /\ \A m \in Level : /\ heap'[m].base = heap[m].base
                          /\ heap[m].used \subseteq heap'[m].used
      /\ heap'[l].used = heap[l].used \cup {w}
      /\ \A m \in Level : m # l => heap'[m] = heap[m]
  <2>1. heap \in [Level -> [base : Nat, used : SUBSET Nat]]
    BY DEF TypeOK
  <2>2. heap' = [heap EXCEPT ![l].used = @ \cup {w}] /\ w \in Nat
    BY <1>1, <1>2
  <2>3. heap'[l] = [heap[l] EXCEPT !.used = @ \cup {w}] /\ \A m \in Level : m # l => heap'[m] = heap[m]
    BY <2>1, <2>2
  <2>4. heap'[l].base = heap[l].base /\ heap'[l].used = heap[l].used \cup {w}
    BY <2>1, <2>3
  <2>5. \A m \in Level : heap'[m].base = heap[m].base /\ heap[m].used \subseteq heap'[m].used
    BY <2>3, <2>4
  <2> QED BY <2>1, <2>2, <2>3, <2>4, <2>5
<1>5. TypeOK'
  BY <1>1, <1>3, <1>4 DEF TypeOK
<1>6. Placed'
  <2>1. \A m \in Level : Blocks(m)' = Blocks(m)
    BY <1>4 DEF Blocks
  <2>2. \A m \in Level : heap'[m].used \subseteq Blocks(m) \ {NULL}
    BY <1>1, <1>2, <1>4 DEF Placed
  <2> QED BY <1>1, <1>4, <2>1, <2>2 DEF Placed
<1>a. Clean' <=> Clean
  BY <1>1 DEF Clean
<1>7. Clean => \A b \in user : b.level = l => b.v # w
  BY <1>2 DEF Held
<1>8. Held'
  <2>1. new.level = l /\ new.v = w
    OBVIOUS
  <2>2. \A b \in user : b.level \in Level
    BY DEF TypeOK
  <2> HIDE DEF new
  <2> QED BY <1>1, <1>4, <1>7, <1>a, <2>1, <2>2 DEF Held
<1>9. LayoutHeld'
  BY <1>1, <1>2, <1>4, <1>a DEF LayoutHeld, Level
<1>10. MboxesHeld'
  BY <1>1, <1>2, <1>4, <1>a DEF MboxesHeld, Level
<1>11. ToldRight' /\ SpatzStops'
  BY <1>1 DEF ToldRight, SpatzStops
<1>12. NoneLost'
  <2>1. \A v : AppHolds(v) => AppHolds(v)'
    BY <1>1 DEF AppHolds
  <2>2. l = "l2" => \E b \in user' : b.level = "l2" /\ b.v = w
    <3>1. new \in user' /\ new.level = l /\ new.v = w
      BY <1>1
    <3> QED BY <3>1
  <2>3. \A v \in heap'["l2"].used : v \in heap["l2"].used \/ (l = "l2" /\ v = w)
    BY <1>4 DEF Level
  <2> QED BY <1>1, <2>1, <2>2, <2>3 DEF NoneLost, AppHolds
<1>13. Unrecorded'
  BY <1>1 DEF Unrecorded
<1> QED BY <1>5, <1>6, <1>8, <1>9, <1>10, <1>11, <1>12, <1>13

LEMMA FreeIInv ==
  ASSUME IInv, NEW b \in user, Free(b) PROVE IInv'
<1> USE DEF IInv
<1>1. /\ phase \in {"mapped", "ready"} /\ user' = user \ {b}
      /\ heap' = [heap EXCEPT ![b.level].used = @ \ {b.v}]
      /\ UNCHANGED <<platform, phase, maps, start, mbox, told, layout, running>>
      /\ b.level \in Level /\ b.v \in Nat
  BY DEF Free, TypeOK
<1>2. /\ heap' \in [Level -> [base : Nat, used : SUBSET Nat]]
      /\ \A m \in Level : heap'[m].base = heap[m].base
      /\ heap'[b.level].used = heap[b.level].used \ {b.v}
      /\ \A m \in Level : m # b.level => heap'[m] = heap[m]
  BY <1>1 DEF TypeOK
<1>3. TypeOK'
  BY <1>1, <1>2 DEF TypeOK
<1>4. Placed'
  <2>1. \A m \in Level : Blocks(m)' = Blocks(m)
    BY <1>2 DEF Blocks
  <2>2. \A m \in Level : heap'[m].used \subseteq heap[m].used
    BY <1>1, <1>2
  <2> QED BY <1>1, <1>2, <2>1, <2>2 DEF Placed
<1>a. Clean' <=> Clean
  BY <1>1 DEF Clean
<1>5. Held'
  <2>1. \A c \in user : c.level \in Level
    BY DEF TypeOK
  <2>2. Clean => \A c \in user' : c.v \in heap'[c.level].used
    BY <1>1, <1>2, <2>1 DEF Held
  <2> QED BY <1>1, <1>a, <2>2 DEF Held
<1>6. LayoutHeld'
  BY <1>1, <1>2, <1>a DEF LayoutHeld, Level
<1>7. MboxesHeld'
  BY <1>1, <1>2, <1>a DEF MboxesHeld, Level
<1>8. ToldRight' /\ SpatzStops'
  BY <1>1 DEF ToldRight, SpatzStops
<1>9. NoneLost'
  <2>1. \A v \in heap'["l2"].used : v \in heap["l2"].used /\ (AppHolds(v) => AppHolds(v)')
    BY <1>1, <1>2 DEF AppHolds, Level
  <2> QED BY <1>1, <2>1 DEF NoneLost
<1>10. Unrecorded'
  BY <1>1 DEF Unrecorded
<1> QED BY <1>3, <1>4, <1>5, <1>6, <1>7, <1>8, <1>9, <1>10

(* hero_dev_munmap, of this session's mailboxes or once more of another's.  *)
LEMMA MunmapIInv ==
  ASSUME IInv, Munmap \/ (MunmapAgain /\ phase' = "closed") PROVE IInv'
<1> USE DEF IInv
<1> DEFINE mine == {mbox[i].v : i \in 1 .. 6}
<1>1. /\ platform # "spatz" /\ phase' = "closed"
      /\ heap' = [heap EXCEPT !["l2"].used = @ \ mine]
      /\ UNCHANGED <<platform, maps, start, mbox, told, layout, user, running>>
  BY DEF Munmap, MunmapAgain, FreeMboxes
<1>a. (Clean => phase = "ready") /\ (Clean' <=> Clean) /\ phase \in {"ready", "mapped"}
  <2>1. phase = "ready" \/ (phase = "mapped" /\ mbox[1] # NoBlock)
    BY DEF Munmap, MunmapAgain
  <2>2. maps <= 1 => maps = 0 \/ maps = 1
    BY DEF TypeOK
  <2>3. maps <= 1 => phase = "ready"
    BY <2>1, <2>2 DEF Unrecorded
  <2> QED BY <1>1, <2>1, <2>3 DEF Clean
<1> HIDE DEF mine
<1>2. /\ heap' \in [Level -> [base : Nat, used : SUBSET Nat]]
      /\ \A m \in Level : heap'[m].base = heap[m].base /\ heap'[m].used \subseteq heap[m].used
      /\ heap'["l2"].used = heap["l2"].used \ mine
      /\ heap'["l3"] = heap["l3"]
  BY <1>1 DEF TypeOK, Level
<1>3. TypeOK'
  BY <1>1, <1>2 DEF TypeOK
<1>4. Placed'
  <2>1. \A m \in Level : Blocks(m)' = Blocks(m)
    BY <1>2 DEF Blocks
  <2> QED BY <1>1, <1>2, <2>1 DEF Placed
<1>5. Clean => \A b \in user : b.level = "l2" => b.v \notin mine
  <2>1. Clean => \A b \in user : b.level = "l2" => b.v # NULL /\ b.v \in heap["l2"].used
    BY DEF Held, Placed, Level
  <2> QED BY <1>a, <2>1 DEF MboxesHeld, mine
<1>6. Held'
  BY <1>1, <1>2, <1>5, <1>a DEF Held, TypeOK, Level
<1>7. LayoutHeld' /\ MboxesHeld' /\ ToldRight' /\ SpatzStops'
  BY <1>1, <1>2, <1>a DEF LayoutHeld, MboxesHeld, ToldRight, SpatzStops
<1>8. NoneLost'
  BY <1>1, <1>2, <1>a DEF NoneLost, AppHolds, mine
<1>9. Unrecorded'
  BY <1>1, <1>a DEF Unrecorded, TypeOK
<1> QED BY <1>3, <1>4, <1>6, <1>7, <1>8, <1>9

(* The steps that allocate nothing and free nothing.                        *)
LEMMA OtherIInv ==
  ASSUME IInv,
         \/ InitCrashes \/ ExeStart \/ Reset \/ MunmapCrashes \/ MunmapSpatz
         \/ MunmapAgain /\ phase' # "closed"
         \/ UNCHANGED vars
  PROVE  IInv'
<1> USE DEF IInv
<1>1. /\ UNCHANGED <<platform, maps, start, heap, mbox, told, layout, user>>
      /\ phase' \in {"crashed", "closed", phase} /\ running' \in BOOLEAN
      /\ phase' = "closed" /\ phase # "closed" => platform = "spatz"
      /\ platform = "spatz" /\ running' => phase' = "ready"
      /\ phase = "closed" => phase' = "closed"
  <2>1. CASE InitCrashes
    BY <2>1 DEF InitCrashes
  <2>2. CASE ExeStart \/ Reset
    BY <2>2 DEF ExeStart, Reset
  <2>4. CASE UNCHANGED vars
    BY <2>4 DEF vars, TypeOK, SpatzStops
  <2>3. CASE MunmapCrashes \/ MunmapSpatz
    BY <2>3 DEF MunmapCrashes, MunmapSpatz
  <2>5. CASE MunmapAgain /\ phase' # "closed"
    BY <2>5 DEF MunmapAgain
  <2> QED BY <2>1, <2>2, <2>3, <2>4, <2>5
<1>2. TypeOK'
  BY <1>1 DEF TypeOK
<1>3. Placed' /\ Held' /\ LayoutHeld' /\ SpatzStops'
  BY <1>1 DEF Placed, Held, LayoutHeld, SpatzStops, Blocks, Clean
<1>4. MboxesHeld' /\ ToldRight' /\ NoneLost'
  BY <1>1 DEF MboxesHeld, ToldRight, NoneLost, AppHolds, Clean
<1>5. Unrecorded'
  BY <1>1 DEF Unrecorded, TypeOK
<1> QED BY <1>2, <1>3, <1>4, <1>5

LEMMA NextIInv == IInv /\ [Next]_vars => IInv'
<1> SUFFICES ASSUME IInv, [Next]_vars PROVE IInv'
  OBVIOUS
<1>1. CASE MmapFails \/ MmapFailsL2 \/ MmapFailsL3 \/ MmapFailsLate \/ Mmap
  BY <1>1, MmapRemaps, RemapsIInv DEF IInv
<1>2. CASE InitDevice
  BY <1>2, InitDeviceIInv
<1>3. CASE \E l \in Level : Malloc(l)
  BY <1>3, MallocIInv
<1>4. CASE \E b \in user : Free(b)
  BY <1>4, FreeIInv
<1>5. CASE Munmap \/ MunmapAgain
  BY <1>5, MunmapIInv, OtherIInv
<1>6. CASE InitCrashes \/ ExeStart \/ Reset \/ MunmapCrashes \/ MunmapSpatz \/ UNCHANGED vars
  BY <1>6, OtherIInv
<1> QED BY <1>1, <1>2, <1>3, <1>4, <1>5, <1>6 DEF Next

LEMMA Invariance == Spec => []IInv
  BY InitIInv, NextIInv, PTL DEF Spec

-----------------------------------------------------------------------------
(* The types of Session's state, for any number of calls of hero_dev_mmap   *)
(* and whichever of them fail.                                              *)
THEOREM TypeCorrect == Spec => []TypeOK
<1>1. IInv => TypeOK
  BY DEF IInv
<1> QED BY <1>1, Invariance, PTL

(* A running Spatz cluster has been told where its mailboxes are, and they  *)
(* are still allocated, in every session of the process.                    *)
THEOREM ToldStays == Spec => []ToldIsAllocated
<1>1. IInv => ToldIsAllocated
  BY DEF IInv, ToldIsAllocated, MboxFields, ToldRight, MboxesHeld, SpatzStops, Clean
<1> QED BY <1>1, Invariance, PTL

(* On the safety island and Occamy, what a closed session leaves allocated  *)
(* in L2 is held by the application, in every session of the process.       *)
THEOREM NothingLeaks == Spec => []MailboxesReturned
<1>1. IInv => MailboxesReturned
  BY DEF IInv, NoneLost, AppHolds, MailboxesReturned
<1> QED BY <1>1, Invariance, PTL

-----------------------------------------------------------------------------
(* While the process has mapped the regions once, the globals are those the *)
(* heaps were set up with.                                                  *)
OneMap ==
  maps <= 1 =>
    /\ \A l \in Level : heap[l].base # NULL =>
                          /\ maps = 1
                          /\ start[l] = StartAt(l, 1)
                          /\ heap[l].base = start[l].virt
    /\ \A b \in user : b.p = ToPhys(b.level, b.v)
    /\ phase = "ready" => \A i \in 1 .. 6 : mbox[i].p = ToPhys("l2", mbox[i].v)

LEMMA NoneHeld ==
  ASSUME IInv, OneMap, maps = 0 PROVE user = {} /\ phase # "ready"
<1>1. \A l \in Level : heap[l].base = NULL
  BY DEF OneMap
<1>2. \A b \in user : b.level \in Level /\ b.v \in heap[b.level].used
  BY DEF IInv, Held, TypeOK, Clean
<1>3. \A l \in Level : heap[l].used = {}
  BY <1>1 DEF IInv, Placed
<1>4. phase # "ready"
  BY <1>1 DEF IInv, Placed, Level
<1> QED BY <1>2, <1>3, <1>4

LEMMA NextOneMap == IInv /\ OneMap /\ [Next]_vars => OneMap'
<1> SUFFICES ASSUME IInv, OneMap, [Next]_vars PROVE OneMap'
  OBVIOUS
<1>0. TypeOK
  BY DEF IInv
<1>1. CASE MmapFails \/ MmapFailsL2 \/ MmapFailsL3 \/ MmapFailsLate \/ Mmap
  <2>1. Remaps
    BY <1>0, <1>1, MmapRemaps
  <2>2. maps \in Nat /\ maps' = maps + 1 /\ phase' # "ready" /\ user' = user
    BY <1>0, <2>1 DEF Remaps, TypeOK
  <2> SUFFICES ASSUME maps' <= 1 PROVE OneMap'
    BY DEF OneMap
  <2>3. maps = 0 /\ maps' = 1 /\ user = {}
    BY <2>2, NoneHeld
  <2>4. \A l \in Level : heap[l].base = NULL
    BY <2>3 DEF OneMap
  <2>5. \A l \in Level : heap'[l].base # NULL =>
                           start'[l] = StartAt(l, 1) /\ heap'[l].base = start'[l].virt
    BY <2>1, <2>3, <2>4 DEF Remaps, InitHeap
  <2> QED BY <2>2, <2>3, <2>5 DEF OneMap
<1>2. CASE InitDevice
  <2> DEFINE a == Alloc("l2", 6)
  <2>1. /\ UNCHANGED <<maps, start, user>>
        /\ mbox' = [i \in 1 .. 6 |-> Block("l2", a[i])]
        /\ \A l \in Level : heap'[l].base = heap[l].base
    BY <1>0, <1>2 DEF InitDevice, AllocMboxes, TypeOK
  <2> HIDE DEF a
  <2> QED BY <2>1 DEF OneMap, Block, ToPhys
<1>3. ASSUME NEW l \in Level, Malloc(l) PROVE OneMap'
  <2> DEFINE w == Alloc(l, 1)[1]
  <2>1. /\ UNCHANGED <<phase, maps, start, mbox>>
        /\ user' = user \cup {[level |-> l, v |-> w, p |-> ToPhys(l, w)]}
        /\ \A m \in Level : heap'[m].base = heap[m].base
    BY <1>0, <1>3 DEF Malloc, TypeOK
  <2> HIDE DEF w
  <2> QED BY <2>1 DEF OneMap, ToPhys
<1>4. ASSUME NEW b \in user, Free(b) PROVE OneMap'
  <2>1. /\ UNCHANGED <<phase, maps, start, mbox>> /\ user' \subseteq user
        /\ \A m \in Level : heap'[m].base = heap[m].base
    BY <1>0, <1>4 DEF Free, TypeOK
  <2> QED BY <2>1 DEF OneMap, ToPhys
<1>5. CASE Munmap \/ MunmapAgain
  <2>1. /\ UNCHANGED <<maps, start, mbox, user>> /\ phase' # "ready"
        /\ \A m \in Level : heap'[m].base = heap[m].base
    BY <1>0, <1>5 DEF Munmap, MunmapAgain, FreeMboxes, TypeOK
  <2> QED BY <2>1 DEF OneMap, ToPhys
<1>6. CASE InitCrashes \/ ExeStart \/ Reset \/ MunmapCrashes \/ MunmapSpatz \/ UNCHANGED vars
  <2>1. UNCHANGED <<maps, start, heap, mbox, user>> /\ (phase' = "ready" => phase = "ready")
    BY <1>6 DEF InitCrashes, ExeStart, Reset, MunmapCrashes, MunmapSpatz, vars
  <2> QED BY <2>1 DEF OneMap, ToPhys
<1> QED BY <1>1, <1>2, <1>3, <1>4, <1>5, <1>6 DEF Next

LEMMA OneMapInvariance == Spec => [](IInv /\ OneMap)
<1>1. Init => OneMap
  BY DEF Init, OneMap, NULL
<1> QED BY <1>1, NextOneMap, InitIInv, NextIInv, PTL DEF Spec

(* A block of a heap lies in the upper half of its region.                  *)
LEMMA UpperHalf ==
  ASSUME TypeOK, NEW l \in Level, NEW v \in Blocks(l),
         heap[l].base = VirtBase(l, 1) + HeapSize(Size[l]), MaxMaps >= 1
  PROVE  v - VirtBase(l, 1) \in HeapSize(Size[l]) .. Size[l] - Align
<1> DEFINE h == HeapSize(Size[l])
           q == h \div Align
<1>1. h \in Nat /\ Size[l] = 2 * h /\ Align \in Nat \ {0} /\ VirtBase(l, 1) \in Nat
  BY Halves, BaseType
<1>2. PICK i \in 1 .. q : v = heap[l].base + Align * (i - 1)
  BY DEF Blocks
<1> HIDE DEF h
<1>3. q \in Nat /\ Align * q <= h
  BY <1>1
<1> HIDE DEF q
<1>4. Align * (i - 1) \in Nat /\ Align * (i - 1) <= Align * (q - 1) /\ Align * (q - 1) = Align * q - Align
  BY <1>1, <1>3
<1> QED BY <1>1, <1>2, <1>3, <1>4 DEF h

LEMMA Mapped ==
  ASSUME IInv, OneMap, maps <= 1, NEW l \in Level, NEW v \in heap[l].used
  PROVE  LET off == v - VirtBase(l, 1)
         IN  /\ maps = 1 /\ off \in HeapSize(Size[l]) .. Size[l] - Align
             /\ ToPhys(l, v) = PhysBase(l) + off
<1>1. /\ v \in Blocks(l) /\ heap[l].base # NULL /\ TypeOK
      /\ maps = 1 /\ MaxMaps >= 1
      /\ start[l] = StartAt(l, 1) /\ heap[l].base = start[l].virt
  BY DEF IInv, Placed, OneMap, TypeOK
<1>2. /\ VirtBase(l, 1) \in Nat /\ PhysBase(l) \in Nat /\ HeapSize(Size[l]) \in Nat
      /\ HeapOffset(Size[l], Align) = HeapSize(Size[l]) /\ v \in Nat
  BY <1>1, BaseType, Halves, BlocksType
<1>3. heap[l].base = VirtBase(l, 1) + HeapSize(Size[l])
  BY <1>1, <1>2 DEF StartAt
<1>4. v - VirtBase(l, 1) \in HeapSize(Size[l]) .. Size[l] - Align
  BY <1>1, <1>3, UpperHalf
<1>5. ToPhys(l, v) = PhysBase(l) + (v - VirtBase(l, 1))
  BY <1>1, <1>2 DEF ToPhys, StartAt
<1> QED BY <1>1, <1>4, <1>5

(* While the process has called hero_dev_mmap once, the two addresses of    *)
(* every block and mailbox name the same byte (a second call breaks it,     *)
(* see the run session_reopen).                                             *)
THEOREM AddressesRight == Spec => []FirstAgree
<1>1. IInv /\ OneMap => FirstAgree
  <2> SUFFICES ASSUME IInv, OneMap, maps <= 1 PROVE AddressesAgree
    BY DEF FirstAgree
  <2>1. ASSUME NEW l \in Level, NEW v \in heap[l].used PROVE Translates(l, v, ToPhys(l, v))
    <3>1. /\ maps = 1 /\ v - VirtBase(l, 1) \in HeapSize(Size[l]) .. Size[l] - Align
          /\ ToPhys(l, v) = PhysBase(l) + (v - VirtBase(l, 1))
      BY <2>1, Mapped
    <3>2. HeapSize(Size[l]) \in Nat
      BY Halves
    <3>3. 1 \in 1 .. maps /\ v - VirtBase(l, 1) \in 0 .. Size[l] - Align
      BY <3>1, <3>2
    <3> QED BY <3>1, <3>3 DEF Translates
  <2>2. ASSUME NEW b \in user PROVE Translates(b.level, b.v, b.p)
    <3>1. b.level \in Level /\ b.v \in heap[b.level].used /\ b.p = ToPhys(b.level, b.v)
      BY DEF IInv, TypeOK, Held, OneMap, Clean
    <3> QED BY <3>1, <2>1
  <2>3. ASSUME NEW m \in Mailboxes, m.v # NULL PROVE Translates("l2", m.v, m.p)
    <3>1. PICK i \in 1 .. 6 : phase = "ready" /\ m = mbox[i]
      BY DEF Mailboxes
    <3>2. m.v \in heap["l2"].used /\ m.p = ToPhys("l2", m.v)
      BY <2>3, <3>1 DEF IInv, MboxesHeld, OneMap, Clean
    <3> QED BY <2>1, <3>2 DEF Level
  <2> QED BY <2>2, <2>3 DEF AddressesAgree
<1> QED BY <1>1, OneMapInvariance, PTL

(* On Spatz, and in a first session, no block has two owners and what is    *)
(* held is allocated.                                                       *)
OneOwner == \A l \in Level : /\ Owned(l).app \cap Owned(l).lib = {}
                             /\ Owned(l).app \cup Owned(l).lib \subseteq heap[l].used

LEMMA OwnersApart == IInv /\ Clean => OneOwner
<1> SUFFICES ASSUME IInv, Clean, NEW l \in Level
             PROVE  /\ Owned(l).app \cap Owned(l).lib = {}
                    /\ Owned(l).app \cup Owned(l).lib \subseteq heap[l].used
  BY DEF OneOwner
<1> DEFINE app == {b.v : b \in {c \in user : c.level = l}}
           lib == IF l = "l3" THEN {layout} \ {NULL} ELSE {m.v : m \in Mailboxes} \ {NULL}
<1>1. app \subseteq heap[l].used
  BY DEF IInv, Held
<1>2. CASE l = "l3"
  BY <1>1, <1>2 DEF IInv, LayoutHeld, Owned
<1>3. CASE l = "l2"
  <2>1. \A x \in lib : x \in heap["l2"].used /\ x \notin app
    BY <1>3 DEF IInv, MboxesHeld, Mailboxes
  <2> QED BY <1>1, <1>3, <2>1 DEF Owned
<1> QED BY <1>2, <1>3 DEF Level

(* Blocks have one owner, and those of the application lie in the heap's    *)
(* half of the region, outside OpenMP's.                                    *)
THEOREM BlocksApart == Spec => []FirstDisjoint
<1>1. IInv /\ OneMap => FirstDisjoint
  <2> SUFFICES ASSUME IInv, OneMap, maps <= 1, NEW l \in Level, NEW b \in user, b.level = l
               PROVE  b.p - PhysBase(l) .. b.p - PhysBase(l) + Align - 1
                        \subseteq HeapBytes(Size[l], Align) \ OmpBytes(Size[l])
    BY OwnersApart DEF FirstDisjoint, BlocksDisjoint, OneOwner, Clean
  <2>1. b.v \in heap[l].used /\ b.p = ToPhys(l, b.v)
    BY DEF IInv, Held, OneMap, Clean
  <2> DEFINE off == b.v - VirtBase(l, 1)
             h == HeapSize(Size[l])
  <2>2. off \in h .. Size[l] - Align /\ b.p = PhysBase(l) + off
    BY <2>1, Mapped
  <2>3. /\ h \in Nat /\ Size[l] = 2 * h /\ HeapOffset(Size[l], Align) = h
        /\ h = Size[l] \div 2 /\ PhysBase(l) \in Nat /\ Align \in Nat
    <3>1. 1 \in 1 .. MaxMaps
      BY <2>1, Mapped DEF IInv, TypeOK
    <3> QED BY <3>1, Halves, BaseType DEF HeapSize
  <2> HIDE DEF off, h
  <2>4. b.p - PhysBase(l) = off
    BY <2>2, <2>3
  <2>5. off .. off + Align - 1 \subseteq h .. h + h - 1
    BY <2>2, <2>3
  <2>6. HeapBytes(Size[l], Align) = h .. h + h - 1 /\ OmpBytes(Size[l]) = 0 .. h - 1
    BY <2>3 DEF HeapBytes, OmpBytes, h
  <2> QED BY <2>3, <2>4, <2>5, <2>6
<1> QED BY <1>1, OneMapInvariance, PTL
=============================================================================
