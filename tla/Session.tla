------------------------------ MODULE Session ------------------------------
(***************************************************************************)
(* A process that uses libhero: it maps the device (hero_dev_mmap), sets   *)
(* up the mailboxes (hero_dev_init), allocates and frees device memory,    *)
(* starts and resets the accelerator and gives the device up               *)
(* (hero_dev_munmap).  libhero is not thread safe and is modelled with one *)
(* thread, so an API call is one step, except where it can fail half way.  *)
(*                                                                         *)
(* Every allocation has two addresses, the one the host uses and the one   *)
(* the accelerator uses.  The library computes the second from the first   *)
(* with global variables that hero_dev_mmap sets.                          *)
(***************************************************************************)
EXTENDS HeapLayout, FiniteSets

CONSTANTS Platforms,  \* among "safety_island", "spatz" and "occamy"
          Size,       \* the size of each region: a function on Level
          Align,      \* O1HEAP_ALIGNMENT; every block has this size here
          MaxMaps,    \* bound: how many calls of hero_dev_mmap
          MaxBlocks   \* bound: how many blocks the application holds

Level == {"l2", "l3"}

ASSUME SessionAssumption ==
         /\ Platforms \subseteq {"safety_island", "spatz", "occamy"}
         /\ Size \in [Level -> Nat \ {0}]
         /\ Align \in Nat \ {0}
         /\ \A l \in Level : Size[l] % (2 * Align) = 0   \* regions are whole pages
         /\ MaxMaps \in Nat

NULL == 0
Sum2 == Size["l2"] + Size["l3"]

\* Where the k-th mmap() of a region puts it, and where the device has it:
\* mappings are never undone, so no two of these places have an address in
\* common.  The device's are the highest, so that no address is negative.
VirtBase(l, k) == IF l = "l2" THEN k * Sum2 ELSE k * Sum2 + Size["l2"]
PhysBase(l) == VirtBase(l, MaxMaps + 1)

VARIABLES platform,   \* the platform the library is built for
          phase,      \* "closed", "failed", "mapped", "ready" or "crashed"
          maps,       \* the mappings of the regions this process has
          start,      \* the globals <level>_heap_start_virt and _phy
          heap,       \* the o1heap instance of each level: where and what is used
          mbox,       \* dev->mboxes: the two addresses of each allocation
          told,       \* the mailbox addresses the accelerator has been told
          layout,     \* Occamy: the struct l3_layout that tells them
          user,       \* the blocks the application holds
          running     \* the accelerator executes

vars == <<platform, phase, maps, start, heap, mbox, told, layout, user, running>>

\* The order in which hero_dev_alloc_mboxes allocates.
MboxFields == <<"h2a", "h2aData", "a2h", "a2hData", "rb", "rbData">>
NoBlock == [v |-> NULL, p |-> NULL]

Carfield == platform \in {"safety_island", "spatz"}

Init == /\ platform \in Platforms
        /\ phase = "closed"
        /\ maps = 0
        /\ start = [l \in Level |-> [virt |-> NULL, phy |-> NULL]]
        /\ heap = [l \in Level |-> [base |-> NULL, used |-> {}]]
        /\ mbox = [i \in 1 .. 6 |-> NoBlock]
        /\ told = [h2a |-> NULL, a2h |-> NULL]
        /\ layout = NULL
        /\ user = {}
        /\ running = FALSE

-----------------------------------------------------------------------------
(* o1heap *)

Blocks(l) == {heap[l].base + Align * (i - 1) : i \in 1 .. HeapSize(Size[l]) \div Align}
FreeBlocks(l) == Blocks(l) \ heap[l].used

\* First fit: the free block with n free blocks below it.
IsFree(l, v, n) == /\ v \in FreeBlocks(l)
                   /\ Cardinality({u \in FreeBlocks(l) : u < v}) = n

\* What its next n allocations return: addresses, then NULL.
Alloc(l, n) == [i \in 1 .. n |-> IF \E v \in FreeBlocks(l) : IsFree(l, v, i - 1)
                                 THEN CHOOSE v \in FreeBlocks(l) : IsFree(l, v, i - 1)
                                 ELSE NULL]

\* Mutant of ToPhys: the two globals are swapped.
ToPhysSwapped(l, v) == v + start[l].virt - start[l].phy

ToPhys(l, v) == v - start[l].virt + start[l].phy
Block(l, v) == [v |-> v, p |-> ToPhys(l, v)]

-----------------------------------------------------------------------------
(***************************************************************************)
(* hero_dev_mmap.  The driver or a malloc may fail before any global is    *)
(* set; then the L2 heap is set up, then the L3 heap.  hero_dev_l2_init    *)
(* and hero_dev_l3_init leave a heap that exists as it is.                 *)
(***************************************************************************)
\* Mutants of StartAt: the device address lacks the offset of the heap; the
\* heap takes the lower half.
StartAtNoOffset(l, k) == [virt |-> VirtBase(l, k) + HeapOffset(Size[l], Align),
                          phy  |-> PhysBase(l)]
StartAtLower(l, k) == [virt |-> VirtBase(l, k), phy |-> PhysBase(l)]

StartAt(l, k) == [virt |-> VirtBase(l, k) + HeapOffset(Size[l], Align),
                  phy  |-> PhysBase(l) + HeapOffset(Size[l], Align)]

InitHeap(l, virt) == IF heap[l].base # NULL THEN heap[l]
                     ELSE [base |-> virt, used |-> {}]

CanMap == /\ phase \in {"closed", "failed"}
          /\ maps < MaxMaps

MmapFails == /\ CanMap
             /\ maps' = maps + 1
             /\ phase' = "failed"
             /\ UNCHANGED <<platform, start, heap, mbox, told, layout, user, running>>

\* o1heapInit fails for L2: L3 is not touched.
MmapFailsL2 == /\ CanMap
               /\ heap["l2"].base = NULL
               /\ maps' = maps + 1
               /\ start' = [start EXCEPT !["l2"] = StartAt("l2", maps')]
               /\ phase' = "failed"
               /\ UNCHANGED <<platform, heap, mbox, told, layout, user, running>>

\* o1heapInit fails for L3: the L2 heap stays.
MmapFailsL3 == /\ CanMap
               /\ heap["l3"].base = NULL
               /\ maps' = maps + 1
               /\ start' = [l \in Level |-> StartAt(l, maps')]
               /\ heap' = [heap EXCEPT !["l2"] = InitHeap("l2", start'["l2"].virt)]
               /\ phase' = "failed"
               /\ UNCHANGED <<platform, mbox, told, layout, user, running>>

\* Occamy: no memory to record OpenMP's part of L3, with both heaps set up.
MmapFailsLate == /\ CanMap
                 /\ ~Carfield
                 /\ maps' = maps + 1
                 /\ start' = [l \in Level |-> StartAt(l, maps')]
                 /\ heap' = [l \in Level |-> InitHeap(l, start'[l].virt)]
                 /\ phase' = "failed"
                 /\ UNCHANGED <<platform, mbox, told, layout, user, running>>

Mmap == /\ CanMap
        /\ maps' = maps + 1
        /\ start' = [l \in Level |-> StartAt(l, maps')]
        /\ heap' = [l \in Level |-> InitHeap(l, start'[l].virt)]
        /\ phase' = "mapped"
        /\ UNCHANGED <<platform, mbox, told, layout, user, running>>

-----------------------------------------------------------------------------
(***************************************************************************)
(* hero_dev_init: hero_dev_alloc_mboxes, then the accelerator is told the  *)
(* addresses.  A struct ring_buf that could not be allocated is written to *)
(* at NULL; a data array that could not be is recorded as it is.  On       *)
(* Occamy the addresses are handed over in a struct in L3.                 *)
(***************************************************************************)
AllocMboxes(a) == mbox' = [i \in 1 .. 6 |-> Block("l2", a[i])]

Structs(a) == {a[1], a[3], a[5]}
LayoutBlock == Alloc("l3", 1)[1]

InitCrashes == /\ phase = "mapped"
               /\ \/ NULL \in Structs(Alloc("l2", 6))
                  \/ ~Carfield /\ LayoutBlock = NULL
               /\ phase' = "crashed"
               /\ running' = FALSE
               /\ UNCHANGED <<platform, maps, start, heap, mbox, told, layout, user>>

InitDevice ==
  LET a == Alloc("l2", 6)
  IN  /\ phase = "mapped"
      /\ NULL \notin Structs(a)
      /\ layout' = (IF Carfield THEN NULL ELSE LayoutBlock)
      /\ Carfield \/ layout' # NULL
      /\ AllocMboxes(a)
      /\ heap' = [l \in Level |->
                    [heap[l] EXCEPT !.used = @ \cup
                       CASE l = "l2" -> {a[i] : i \in 1 .. 6} \ {NULL}
                         [] l = "l3" -> {layout'} \ {NULL}]]
      /\ told' = [h2a |-> mbox'[1].p, a2h |-> mbox'[3].p]
      /\ phase' = "ready"
      /\ UNCHANGED <<platform, maps, start, user, running>>

-----------------------------------------------------------------------------
(* hero_dev_l2_malloc, hero_dev_l3_malloc and the free of each. *)

Malloc(l) == LET v == Alloc(l, 1)[1]
             IN  /\ phase \in {"mapped", "ready"}
                 /\ Cardinality(user) < MaxBlocks
                 /\ v # NULL
                 /\ user' = user \cup {[level |-> l, v |-> v, p |-> ToPhys(l, v)]}
                 /\ heap' = [heap EXCEPT ![l].used = @ \cup {v}]
                 /\ UNCHANGED <<platform, phase, maps, start, mbox, told, layout, running>>

Free(b) == /\ phase \in {"mapped", "ready"}
           /\ user' = user \ {b}
           /\ heap' = [heap EXCEPT ![b.level].used = @ \ {b.v}]
           /\ UNCHANGED <<platform, phase, maps, start, mbox, told, layout, running>>

-----------------------------------------------------------------------------
ExeStart == /\ phase = "ready"
            /\ running' = TRUE
            /\ UNCHANGED <<platform, phase, maps, start, heap, mbox, told, layout, user>>

Reset == /\ phase \in {"mapped", "ready"}
         /\ running' = FALSE
         /\ UNCHANGED <<platform, phase, maps, start, heap, mbox, told, layout, user>>

(***************************************************************************)
(* hero_dev_munmap frees the mailboxes (hero_dev_free_mboxes) and closes   *)
(* the driver.  For Spatz it resets the cluster instead of freeing.        *)
(***************************************************************************)
\* Mutant of FreeMboxes: the data arrays are not freed.
FreeStructs == heap' = [heap EXCEPT !["l2"].used = @ \ {mbox[i].v : i \in {1, 3, 5}}]

FreeMboxes == heap' = [heap EXCEPT !["l2"].used = @ \ {mbox[i].v : i \in 1 .. 6}]

Munmap == /\ phase = "ready"
          /\ platform # "spatz"
          /\ FreeMboxes
          /\ phase' = "closed"
          /\ UNCHANGED <<platform, maps, start, mbox, told, layout, user, running>>

\* Without mailboxes, hero_dev_free_mboxes reads data_v through a null pointer.
MunmapCrashes == /\ phase = "mapped"
                 /\ platform # "spatz"
                 /\ mbox[1] = NoBlock
                 /\ phase' = "crashed"
                 /\ running' = FALSE
                 /\ UNCHANGED <<platform, maps, start, heap, mbox, told, layout, user>>

\* In a later session without hero_dev_init the pointers of an earlier one are
\* still there: what they point to is freed again, whoever has it by now.  o1heap
\* may see that it is free already and abort; what becomes of a free list with a
\* block in it twice is not modelled.
MunmapAgain == /\ phase = "mapped"
               /\ platform # "spatz"
               /\ mbox[1] # NoBlock
               /\ \/ FreeMboxes /\ phase' = "closed" /\ UNCHANGED running
                  \/ /\ \E i \in 1 .. 6 : mbox[i].v \notin heap["l2"].used \cup {NULL}
                     /\ phase' = "crashed" /\ running' = FALSE /\ UNCHANGED heap
               /\ UNCHANGED <<platform, maps, start, mbox, told, layout, user>>

\* Mutant of MunmapSpatz: the mailboxes are freed, the cluster is not reset.
MunmapNoReset == /\ phase \in {"mapped", "ready"}
                 /\ platform = "spatz"
                 /\ FreeMboxes
                 /\ phase' = "closed"
                 /\ UNCHANGED <<platform, maps, start, mbox, told, layout, user, running>>

MunmapSpatz == /\ phase \in {"mapped", "ready"}
               /\ platform = "spatz"
               /\ running' = FALSE
               /\ phase' = "closed"
               /\ UNCHANGED <<platform, maps, start, heap, mbox, told, layout, user>>

Next == \/ MmapFails \/ MmapFailsL2 \/ MmapFailsL3 \/ MmapFailsLate \/ Mmap
        \/ InitCrashes \/ InitDevice
        \/ (\E l \in Level : Malloc(l))
        \/ (\E b \in user : Free(b))
        \/ ExeStart \/ Reset
        \/ Munmap \/ MunmapCrashes \/ MunmapAgain \/ MunmapSpatz

Spec == Init /\ [][Next]_vars

-----------------------------------------------------------------------------
\* The mapping an address lies in, and the device address it stands for.
Translates(l, v, p) ==
  \E k \in 1 .. maps : /\ v - VirtBase(l, k) \in 0 .. Size[l] - Align
                       /\ p = PhysBase(l) + (v - VirtBase(l, k))

Mailboxes == IF phase = "ready" THEN {mbox[i] : i \in 1 .. 6} ELSE {}

TypeOK == /\ platform \in Platforms
          /\ phase \in {"closed", "failed", "mapped", "ready", "crashed"}
          /\ maps \in 0 .. MaxMaps
          /\ start \in [Level -> [virt : Nat, phy : Nat]]
          /\ heap \in [Level -> [base : Nat, used : SUBSET Nat]]
          /\ mbox \in [1 .. 6 -> [v : Nat, p : Nat]]
          /\ told \in [h2a : Nat, a2h : Nat]
          /\ layout \in Nat
          /\ user \subseteq [level : Level, v : Nat, p : Nat]
          /\ running \in BOOLEAN

(* The two addresses of every block the application holds and of every     *)
(* mailbox name the same byte of the device's memory.                      *)
AddressesAgree == /\ \A b \in user : Translates(b.level, b.v, b.p)
                  /\ \A m \in Mailboxes : m.v # NULL => Translates("l2", m.v, m.p)

(* Every block of a heap has one owner: a mailbox, the struct that tells   *)
(* the accelerator of them, or the application; and the application's are  *)
(* within the heap's part of the region, outside OpenMP's.                 *)
Owned(l) == [app |-> {b.v : b \in {c \in user : c.level = l}},
             lib |-> IF l = "l3" THEN {layout} \ {NULL}
                     ELSE {m.v : m \in Mailboxes} \ {NULL}]
BlocksDisjoint ==
  \A l \in Level :
    /\ Owned(l).app \cap Owned(l).lib = {}
    /\ Owned(l).app \cup Owned(l).lib \subseteq heap[l].used
    /\ \A b \in {c \in user : c.level = l} :
         b.p - PhysBase(l) .. b.p - PhysBase(l) + Align - 1
           \subseteq HeapBytes(Size[l], Align) \ OmpBytes(Size[l])

(* Both hold in the first session of a process: addresses agree, blocks are *)
(* apart.  In a later one the globals are replaced and the heap is not.     *)
FirstAgree == maps <= 1 => AddressesAgree
FirstDisjoint == maps <= 1 => BlocksDisjoint

(* A running Spatz cluster has been told where the mailboxes are, and they *)
(* are still allocated.  (The other platforms' hero_dev_munmap frees them  *)
(* without stopping the accelerator.)                                      *)
ToldIsAllocated ==
  running /\ platform = "spatz" =>
             \A i \in {1, 3} :
               /\ told[MboxFields[i]] = mbox[i].p
               /\ mbox[i].v \in heap["l2"].used

(* On the safety island and Occamy, whatever a closed session leaves         *)
(* allocated in L2 is a block the application has not freed.  (On Spatz      *)
(* hero_dev_munmap keeps the mailboxes.)                                    *)
MailboxesReturned ==
  phase = "closed" /\ platform # "spatz" =>
    heap["l2"].used \subseteq {b.v : b \in {c \in user : c.level = "l2"}}

(* hero_api.h:223: hero_dev_init returns 0 on success, so all the memory   *)
(* of the mailboxes is there when it has returned 0.                       *)
InitSucceeded == phase = "ready" => \A m \in Mailboxes : m.v # NULL
=============================================================================
