----------------------------- MODULE CardFiles -----------------------------
(***************************************************************************)
(* The memory regions of a card, from its device tree to a process:        *)
(* probe_node of the drivers (sw/hero-driver) finds them, read, ioctl and  *)
(* mmap of the device file give them out, and the calls of                 *)
(* sw/libhero/src/common/driver.h ask for them.  The DMA buffers, which    *)
(* the same calls serve, are in DmaBuf.                                    *)
(*                                                                         *)
(* A region is named after the node that has it; Zero is a struct          *)
(* shared_mem of zeroes.  Regions are whole pages, the text of card_read   *)
(* is counted in lines.                                                    *)
(***************************************************************************)
EXTENDS Integers, Sequences

CONSTANTS Setups,   \* platform, tree (node names to nodes) and iommu of the cards to look at
          Order,    \* for each platform, the nodes its probe looks for, in order
          Zero,     \* no region
          DevPerm,  \* PDATA_PERM: "RDWR", "RDONLY" or "WRONLY"
          Word,     \* how many values a size_t has
          CopyMax,  \* the longest copy_to_user there is
          MaxAsk    \* bound: positions and counts of a read

ASSUME FilesAssumption == /\ DevPerm \in {"RDWR", "RDONLY", "WRONLY"}
                          /\ Word \in Nat /\ CopyMax \in Nat /\ MaxAsk \in Nat /\ 2 * MaxAsk < Word
                          /\ CopyMax + MaxAsk < Word

VARIABLES setup,  \* platform, device tree and kernel: constant
          mem,    \* the driver's table: the region of each node and of the L3 memory
          text,   \* buffer_size: lines of text for card_read
          pos,    \* the position of the process's open file, -1 while it has none
          last    \* what the last call gave it

filesVars == <<setup, mem, text, pos, last>>

L3 == "l3-buffer"
Tree == setup.tree
Nodes == DOMAIN Tree
Fields == Nodes \cup {L3}
Ids == Fields \cup {"dma-bufs", "unknown"}
Nothing == [call |-> "none"]

\* The probes look for every node of a tree, for the L3 memory's own node last.
Status == {"ok", "missing", "unmappable", "absent"}
ASSUME SetupsAssumption ==
    \A s \in Setups :
      LET names == Order[s.platform]
          nodes == DOMAIN s.tree
      IN  /\ names \in Seq(nodes) /\ \A x \in nodes : \E i \in DOMAIN names : names[i] = x
          /\ \A i \in DOMAIN names : names[i] = L3 => i = Len(names)
          /\ \A x \in nodes : x # Zero /\ s.tree[x].status \in Status

(* probe_node.  A node may be missing, its registers may not be mappable,   *)
(* or be missing in hardware.  Its memory-region, if it has one, is the L3  *)
(* memory unless that is known already; a failure to map it is not noticed. *)
(* Mutant: what is not there in hardware is kept.                           *)
Usable(n) == n.status # "missing" /\ n.reserved # "broken"
Reserves(n) == Usable(n) /\ n.reserved # Zero
NewL3(m, n) == Reserves(n) /\ m[L3] = Zero

WithReserved(m, n) == IF NewL3(m, n) THEN [m EXCEPT ![L3] = n.reserved] ELSE m

OwnRegionKept(m, name) == IF Tree[name].status = "unmappable" THEN m ELSE [m EXCEPT ![name] = name]
OwnRegion(m, name) ==
    CASE Tree[name].status = "unmappable" -> m
      [] Tree[name].status = "absent" -> [m EXCEPT ![name] = Zero]
      [] OTHER -> [m EXCEPT ![name] = name]

ProbeNode(m, name) == IF Usable(Tree[name]) THEN OwnRegion(WithReserved(m, Tree[name]), name)
                      ELSE [m EXCEPT ![name] = Zero]
Lines(m, n) == (IF NewL3(m, n) THEN 1 ELSE 0)
               + (IF Usable(n) /\ n.status # "unmappable" THEN 1 ELSE 0)

\* The table, and the lines of text, after the first k nodes.
Names == Order[setup.platform]
Probed[k \in 0..Len(Names)] ==
    IF k = 0 THEN [f \in Fields |-> Zero] ELSE ProbeNode(Probed[k - 1], Names[k])
Written[k \in 0..Len(Names)] ==
    IF k = 0 THEN 0 ELSE Written[k - 1] + Lines(Probed[k - 1], Tree[Names[k]])

\* The Occamy driver adds the numbers of cores, clusters and quadrants.
HardwareLines == IF setup.platform = "occamy" THEN 1 ELSE 0

\* The Carfield driver writes to these without a look at how they were probed.
Survives == setup.platform = "carfield" =>
                \A name \in {"gpio", "soc-ctrl"} \cap Nodes : mem[name] # Zero

FilesInit == /\ setup \in Setups
             /\ mem = Probed[Len(Names)] /\ text = Written[Len(Names)] + HardwareLines
             /\ Survives
             /\ pos = -1 /\ last = Nothing

-----------------------------------------------------------------------------
(* card_open, check_permission, card_release.                               *)
Permitted(mode) == DevPerm \in {"RDWR", mode}

Open(mode) == /\ pos = -1
              /\ pos' = IF Permitted(mode) THEN 0 ELSE -1
              /\ last' = Nothing
              /\ UNCHANGED <<setup, mem, text>>

Release == pos >= 0 /\ pos' = -1 /\ last' = Nothing /\ UNCHANGED <<setup, mem, text>>

(* card_read, at the file's position or, with pread, at any.  The count is  *)
(* unsigned, and a copy that is too long is refused.  Mutant: it is not     *)
(* adjusted to the text.                                                    *)
CountAsked(at, count) == count
Count(at, count) == IF at + count > text THEN (text - at) % Word ELSE count

Read(at, count) ==
    LET n == Count(at, count)
    IN  /\ pos >= 0
        /\ last' = IF n > CopyMax THEN [call |-> "fault"]
                   ELSE [call |-> "read", lines |-> {at + i : i \in 0..n - 1}]
        /\ pos' = IF at = pos /\ n <= CopyMax THEN pos + n ELSE pos
        /\ UNCHANGED <<setup, mem, text>>

(* IOCTL_MEM_INFOS and driver_lookup_mem; then driver_mmap and card_mmap,   *)
(* which do not check the length.  driver_lookup_mmap ignores whether the   *)
(* lookup failed: the length is 0 then, and mmap() refuses it.              *)
LookupMem(id) == IF id \in Fields THEN mem[id] ELSE Zero
DeviceRegion(id) == mem[id]
LookupMmap(id) == /\ pos >= 0
                  /\ last' = IF LookupMem(id) = Zero THEN [call |-> "einval"]
                             ELSE [call |-> "map", id |-> id, region |-> DeviceRegion(id)]
                  /\ UNCHANGED <<setup, mem, text, pos>>

FilesNext == \/ \E mode \in {"RDONLY", "WRONLY", "RDWR"} : Open(mode)
             \/ Release
             \/ \E at \in 0..MaxAsk, count \in 0..MaxAsk : Read(at, count)
             \/ \E id \in Ids : LookupMmap(id)

-----------------------------------------------------------------------------
(* The region that driver_lookup_mmap maps is the one the device tree gives *)
(* that name and the hardware has, and one that is there is mapped: nothing *)
(* is mapped for a node that is missing, broken or absent, although the     *)
(* library does not look at the errors.  The L3 memory may also be the      *)
(* first region reserved for a node.                                        *)
There(id) == id \in Nodes /\ Tree[id].status = "ok" /\ Usable(Tree[id])
FirstReserved == {Tree[Names[i]].reserved : i \in
    {i \in DOMAIN Names : /\ Reserves(Tree[Names[i]])
                          /\ \A j \in 1..i - 1 : ~Reserves(Tree[Names[j]])}}

MapsNamed ==
    /\ last.call = "map" =>
         \/ There(last.id) /\ last.region = last.id
         \/ last.id = L3 /\ ~There(L3) /\ last.region \in FirstReserved
    /\ \A id \in Nodes : There(id) => LookupMem(id) = id

(* Whatever position and count a process asks for, a read copies lines of   *)
(* the text and no others; beyond it the count wraps, which must fail.      *)
ReadStaysInText == last.call = "read" => last.lines \subseteq 0..text - 1

=============================================================================
