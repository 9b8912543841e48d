------------------------------- MODULE Iommu -------------------------------
(***************************************************************************)
(* Memory of a process made accessible to a Carfield accelerator:          *)
(* hero_iommu_map_virt and hero_iommu_map_virt_to_phys of libhero,         *)
(* IOCTL_IOMMU_MAP and hero_iommu_region_add of the driver, called by      *)
(* threads of a process that changes its memory in between.                *)
(*                                                                         *)
(* Addresses are in pages, those of the device counted from 0x80000000;    *)
(* Wrap pages are 1 GiB.  Sizes are in bytes.  The region list, which       *)
(* nothing reads, and what was pinned and is never released, are left out. *)
(***************************************************************************)
EXTENDS CardFiles, FiniteSets

CONSTANTS Thread, UserPages, Wrap, Frame,
          NoFrame,   \* no page
          Garbage,   \* the address made of a null page
          PageSize,  \* PAGE_SIZE
          Sizes,     \* bound: the sizes a call asks for
          MaxPages,  \* bound: the pages they take, the last one perhaps in part
          MaxCalls   \* bound: mappings made

ASSUME IommuAssumption == /\ UserPages \in Nat /\ Wrap \in Nat \ {0} /\ MaxPages \in Nat
                          /\ MaxCalls \in Nat /\ {NoFrame, Garbage} \cap Frame = {}
                          /\ IsFiniteSet(Thread) /\ PageSize \in Nat \ {0}
                          /\ \A s \in Sizes : s \in Nat /\ s <= MaxPages * PageSize

VARIABLES frames,   \* the process's page table
          iotlb,    \* the IOMMU's
          pinned,   \* for each thread, its call between pinning and mapping
          granted,  \* the calls that have mapped their pages
          claims    \* how many mappings were tried for each device page

iommuVars == <<frames, iotlb, pinned, granted, claims>>
allVars == <<filesVars, iommuVars>>

IoPage == 0..Wrap + MaxPages - 2
Idle == [n |-> 0]
Dead == [n |-> -1]  \* killed in the kernel

Init == /\ FilesInit
        /\ frames = [p \in 0..UserPages - 1 |-> NoFrame]
        /\ iotlb = [a \in IoPage |-> NoFrame]
        /\ pinned = [t \in Thread |-> Idle]
        /\ granted = <<>>
        /\ claims = [a \in IoPage |-> 0]

\* The process maps, unmaps or replaces a page of its own, which is of interest
\* where it can be mapped for the device.
Remap(p) == /\ setup.iommu # "old"
            /\ \E f \in (Frame \cup {NoFrame}) \ {frames[p]} :
                 /\ \A q \in DOMAIN frames : f # NoFrame => frames[q] # f
                 /\ frames' = [frames EXCEPT ![p] = f]
            /\ UNCHANGED <<filesVars, iotlb, pinned, granted, claims>>

(* get_user_pages_fast pins the pages up to the first that is not there.    *)
(* Some of them are too few; none of them is an error, whose code passes    *)
(* the test as a large number and leaves an array of null pages.            *)
(* Mutant: too few are enough.                                              *)
Pins(p, n) == LET there == {k \in 0..n : \A i \in p..p + k - 1 : frames[i] # NoFrame}
              IN  CHOOSE k \in there : \A j \in there : j <= k
EnoughAny(p, n) == n > 0
Enough(p, n) == n > 0 /\ Pins(p, n) \in {0, n}

Iova(p) == p % Wrap

\* length >> PAGE_SHIFT, of a size nobody has rounded up.
NPages(size_b) == size_b \div PageSize

Pin(t, p, size_b, aligned) ==
    LET n == NPages(size_b)
    IN  /\ setup.iommu # "old" /\ pos >= 0 /\ pinned[t] = Idle
        /\ Len(granted) + Cardinality({u \in Thread : pinned[u] \notin {Idle, Dead}}) < MaxCalls
        /\ Enough(p, n)
        /\ pinned' = [pinned EXCEPT ![t] =
             [n |-> n, size |-> size_b, iova |-> Iova(p), aligned |-> aligned,
              frames |-> [i \in 0..n - 1 |-> IF Pins(p, n) = 0 THEN Garbage ELSE frames[p + i]]]]
        /\ UNCHANGED <<filesVars, frames, iotlb, granted, claims>>

\* kcalloc fails: pinning is refused, which passes the test for too few pages as
\* above, and the first page is read through NULL.
NoArray(t, size_b) == /\ setup.iommu # "old" /\ pos >= 0 /\ pinned[t] = Idle
                      /\ NPages(size_b) > 0
                      /\ pinned' = [pinned EXCEPT ![t] = Dead]
                      /\ UNCHANGED <<filesVars, frames, iotlb, granted, claims>>

\* A page that is mapped already is kept or replaced, as the IOMMU's driver
\* has it, and an address that is not aligned is refused; nobody looks.  The
\* thread dies if there is no memory for the region's node.
MapPages(t) ==
    LET c == pinned[t]
        pages == {c.iova + i : i \in 0..c.n - 1}
    IN  /\ c \notin {Idle, Dead}
        /\ \E replaced \in SUBSET {a \in pages : iotlb[a] # NoFrame} :
             iotlb' = [a \in IoPage |->
                IF c.aligned /\ a \in pages /\ (iotlb[a] = NoFrame \/ a \in replaced)
                THEN c.frames[a - c.iova] ELSE iotlb[a]]
        /\ claims' = [a \in IoPage |-> claims[a] + (IF c.aligned /\ a \in pages THEN 1 ELSE 0)]
        /\ granted' = Append(granted, c)
        /\ \E after \in {Idle, Dead} : pinned' = [pinned EXCEPT ![t] = after]
        /\ UNCHANGED <<filesVars, frames>>

\* Without an IOMMU there is no domain to map into: the thread dies.
NoDomain == setup.iommu = "absent"

\* What a process reads and maps of the card is looked at where there is nothing
\* else to see.  A file is released when no call on it is under way; that of a
\* thread that died never ends.
Quiet == \A t \in Thread : pinned[t] = Idle

Next == \/ setup.iommu = "old" /\ FilesNext /\ UNCHANGED iommuVars
        \/ (Open("RDWR") \/ (Quiet /\ Release)) /\ UNCHANGED iommuVars
        \/ \E p \in DOMAIN frames : Remap(p)
        \/ \E t \in Thread, p \in DOMAIN frames, size_b \in Sizes, aligned \in BOOLEAN :
             p + NPages(size_b) <= UserPages /\ Pin(t, p, size_b, aligned)
        \/ \E t \in Thread, size_b \in Sizes : NoArray(t, size_b)
        \/ \E t \in Thread : ~NoDomain /\ MapPages(t)

Spec == Init /\ [][Next]_allVars

-----------------------------------------------------------------------------
(* The types of the state of the device file and of the IOMMU.              *)
TypeOK == /\ mem \in [Fields -> Nodes \cup {n.reserved : n \in {Tree[x] : x \in Nodes}} \cup {Zero}]
          /\ text \in 0..2 * Len(Names) + 1
          /\ pos \in -1..text
          /\ frames \in [0..UserPages - 1 -> Frame \cup {NoFrame}]
          /\ iotlb \in [IoPage -> Frame \cup {NoFrame, Garbage}]
          /\ claims \in [IoPage -> 0..MaxCalls]
          /\ \A t \in Thread : pinned[t] \in {Idle, Dead} \/ pinned[t].iova + pinned[t].n - 1 \in IoPage
          /\ Len(granted) <= MaxCalls

(* Each page mapped behind a device address is the page the process had     *)
(* there when it asked, whatever its threads map and unmap in the meantime,  *)
(* if the address was aligned, the pages were not missing altogether, and    *)
(* no other call got the same device page: a second one may replace it or    *)
(* reach the first one's memory.  These are the whole pages of the size: the *)
(* call succeeds without the last one where the size takes a part of it.      *)
IovaReaches == \A k \in DOMAIN granted :
    LET g == granted[k]
    IN  g.aligned /\ g.frames[0] # Garbage =>
          \A i \in 0..NPages(g.size) - 1 :
             claims[g.iova + i] = 1 => /\ g.frames[i] \in Frame
                                       /\ iotlb[g.iova + i] = g.frames[i]

=============================================================================
