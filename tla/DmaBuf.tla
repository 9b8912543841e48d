------------------------------- MODULE DmaBuf -------------------------------
(***************************************************************************)
(* DMA buffers for the accelerator: hero_host_l3_malloc of                 *)
(* sw/libhero/src/common/driver.h, which asks the Carfield driver for      *)
(* pages (IOCTL_DMA_ALLOC) and then maps "the latest buffer" of the        *)
(* driver's list.  Several threads or processes use one driver; neither    *)
(* the library nor the driver takes a lock.                                *)
(*                                                                         *)
(* The buffers are numbered in the order they are allocated.  The driver's *)
(* list is the kernel's circular list; Head is its head.  Stores to it     *)
(* take effect in the order of the program.                                *)
(***************************************************************************)
EXTENDS Integers, FiniteSets

CONSTANTS Thread,     \* the callers of hero_host_l3_malloc
          MaxBufs,    \* bound: how many buffers there is memory for
          Requests,   \* bound: the sizes asked for, in bytes
          PageSize,   \* 0x1000
          Word,       \* 2^32: size_b is an unsigned int
          PcieOffset  \* what the driver adds to an address on a PCIe host, else 0

ASSUME DmaAssumption == /\ MaxBufs \in Nat /\ PcieOffset \in Nat
                        /\ PageSize \in Nat \ {0} /\ Word \in Nat \ {0}
                        /\ Requests \subseteq 0 .. Word - 1

Buffer == 1 .. MaxBufs
Head == 0
Node == Buffer \cup {Head}
NoNode == -1

VARIABLES nbufs,      \* how many buffers are allocated
          buf,        \* struct shared_mem of each: pbase and size; for Head, what
                      \* list_last_entry of an empty list would read
          next, prev, \* the links of the list
          pc,         \* where each thread is in hero_host_l3_malloc
          want,       \* its size_b
          mine,       \* its new buffer
          last,       \* the node it found at the end of the list
          handed,     \* what the finished calls returned
          before,     \* history: the buffers whose call had returned when its call began
          alone,      \* history: no other call has overlapped this one
          calm        \* history: no two calls have ever overlapped

vars == <<nbufs, buf, next, prev, pc, want, mine, last, handed, before, alone, calm>>
history == <<before, alone, calm>>

PC == {"idle", "alloc", "add", "linkBack", "linkNew", "linkNewBack", "linkOn", "mmap", "dead"}

\* ALIGN_UP(size_b, 0x1000), in the 32 bits of size_b; and what mmap makes of
\* the size, in 64 bits.  Mutant: the size is rounded down.
PageDown(b) == b - (b % PageSize)
AlignDown(b) == PageDown(b)
AlignUp(b) == PageDown((b + PageSize - 1) % Word)
PageUp(b) == PageDown(b + PageSize - 1)

\* The host's frame number of a buffer, for every address one frame apart.
Frame(b) == 10 * b

Init == /\ nbufs = 0
        /\ buf = [b \in Node |-> [pbase |-> 0, size |-> 0]]
        /\ next = [n \in Node |-> IF n = Head THEN Head ELSE NoNode]
        /\ prev = next
        /\ pc = [t \in Thread |-> "idle"]
        /\ want = [t \in Thread |-> 0]
        /\ mine = [t \in Thread |-> NoNode]
        /\ last = [t \in Thread |-> NoNode]
        /\ handed = {}
        /\ before = [t \in Thread |-> {}]
        /\ alone = [t \in Thread |-> TRUE]
        /\ calm = TRUE

-----------------------------------------------------------------------------
(* hero_host_l3_malloc, up to the ioctl. *)
Calling == {t \in Thread : pc[t] \notin {"idle", "dead"}}

Call(t, size_b) == /\ pc[t] = "idle"
                   /\ pc' = [pc EXCEPT ![t] = "alloc"]
                   /\ want' = [want EXCEPT ![t] = size_b]
                   /\ before' = [before EXCEPT ![t] = {h.own : h \in handed}]
                   /\ alone' = [u \in Thread |-> IF u \in Calling \cup {t}
                                                 THEN Calling = {} ELSE alone[u]]
                   /\ calm' = (calm /\ Calling = {})
                   /\ UNCHANGED <<nbufs, buf, next, prev, mine, last, handed>>

-----------------------------------------------------------------------------
(* card_ioctl, IOCTL_DMA_ALLOC. *)

\* No pages: -ENOMEM, and hero_host_l3_malloc returns NULL.
AllocFails(t) == /\ pc[t] = "alloc"
                 /\ pc' = [pc EXCEPT ![t] = "idle"]
                 /\ UNCHANGED <<nbufs, buf, next, prev, want, mine, last, handed, history>>

\* No memory for the node: the driver writes through NULL, which kills the
\* caller.  The pages it had are lost.
NodeFails(t) == /\ pc[t] = "alloc"
                /\ pc' = [pc EXCEPT ![t] = "dead"]
                /\ UNCHANGED <<nbufs, buf, next, prev, want, mine, last, handed, history>>

\* What the driver records of its n-th buffer, for thread t.  A size rounded to
\* 0 is allocated a page, as order_base_2(0) is 0.
SharedMem(t, n) == [pbase |-> Frame(n) + PcieOffset, size |-> AlignUp(want[t])]

\* Mutant of HasPages: one buffer more than there is memory for.
HasPagesMore == nbufs <= MaxBufs
HasPages == nbufs < MaxBufs

\* The node is private to the thread until it is linked.
AllocPages(t) == /\ pc[t] = "alloc"
                 /\ HasPages
                 /\ nbufs' = nbufs + 1
                 /\ mine' = [mine EXCEPT ![t] = nbufs']
                 /\ buf' = [buf EXCEPT ![nbufs'] = SharedMem(t, nbufs')]
                 /\ pc' = [pc EXCEPT ![t] = "add"]
                 /\ UNCHANGED <<next, prev, want, last, handed, history>>

(* list_add_tail(new, head): the end of the list is read once, then four   *)
(* stores link the new node between it and the head.                       *)
AddTail(t) == /\ pc[t] = "add"
              /\ last' = [last EXCEPT ![t] = prev[Head]]
              /\ pc' = [pc EXCEPT ![t] = "linkBack"]
              /\ UNCHANGED <<nbufs, buf, next, prev, want, mine, handed, history>>

LinkBack(t) == /\ pc[t] = "linkBack"
               /\ prev' = [prev EXCEPT ![Head] = mine[t]]
               /\ pc' = [pc EXCEPT ![t] = "linkNew"]
               /\ UNCHANGED <<nbufs, buf, next, want, mine, last, handed, history>>

\* Mutant of LinkNew: the store is forgotten.
LinkNewForgotten(t) == /\ pc[t] = "linkNew"
                       /\ pc' = [pc EXCEPT ![t] = "linkNewBack"]
                       /\ UNCHANGED <<nbufs, buf, next, prev, want, mine, last, handed, history>>

LinkNew(t) == /\ pc[t] = "linkNew"
              /\ next' = [next EXCEPT ![mine[t]] = Head]
              /\ pc' = [pc EXCEPT ![t] = "linkNewBack"]
              /\ UNCHANGED <<nbufs, buf, prev, want, mine, last, handed, history>>

LinkNewBack(t) == /\ pc[t] = "linkNewBack"
                  /\ prev' = [prev EXCEPT ![mine[t]] = last[t]]
                  /\ pc' = [pc EXCEPT ![t] = "linkOn"]
                  /\ UNCHANGED <<nbufs, buf, next, want, mine, last, handed, history>>

\* Mutant of LinkOn: the store is forgotten.
LinkOnForgotten(t) == /\ pc[t] = "linkOn"
                      /\ pc' = [pc EXCEPT ![t] = "mmap"]
                      /\ UNCHANGED <<nbufs, buf, next, prev, want, mine, last, handed, history>>

\* The last store; the ioctl returns the address and the caller goes on to mmap.
LinkOn(t) == /\ pc[t] = "linkOn"
             /\ next' = [next EXCEPT ![last[t]] = mine[t]]
             /\ pc' = [pc EXCEPT ![t] = "mmap"]
             /\ UNCHANGED <<nbufs, buf, prev, want, mine, last, handed, history>>

-----------------------------------------------------------------------------
(* card_mmap, DMA_BUFS_MMAP_ID: maps size_b bytes, in whole pages, from    *)
(* the last buffer on.  More than psize is logged and mapped all the same.  *)
\* Mutant of Latest: the first entry of the list.
Earliest == next[Head]
Latest == prev[Head]

MapLatest(t) ==
  LET b == Latest
  IN  /\ pc[t] = "mmap" /\ want[t] # 0
      /\ handed' = handed \cup {[own |-> mine[t], mapped |-> b, frame |-> buf[b].pbase,
                                 size |-> want[t], psize |-> buf[b].size,
                                 alone |-> alone[t]]}
      /\ pc' = [pc EXCEPT ![t] = "idle"]
      /\ UNCHANGED <<nbufs, buf, next, prev, want, mine, last, history>>

\* The mapping, always if it is of no bytes, or copying the ioctl's result to
\* the caller fails: NULL is returned and the buffer stays in the list.
MapFails(t) == /\ pc[t] = "mmap"
               /\ pc' = [pc EXCEPT ![t] = "idle"]
               /\ UNCHANGED <<nbufs, buf, next, prev, want, mine, last, handed, history>>

-----------------------------------------------------------------------------
Step(t) == \/ AllocFails(t) \/ NodeFails(t) \/ AllocPages(t)
           \/ AddTail(t) \/ LinkBack(t) \/ LinkNew(t) \/ LinkNewBack(t) \/ LinkOn(t)
           \/ MapLatest(t) \/ MapFails(t)

Next == \E t \in Thread : Step(t) \/ \E size_b \in Requests : Call(t, size_b)

Spec == Init /\ [][Next]_vars

-----------------------------------------------------------------------------
TypeOK == /\ nbufs \in 0 .. MaxBufs
          /\ buf \in [Node -> [pbase : Nat, size : Nat]]
          /\ next \in [Node -> Node \cup {NoNode}]
          /\ prev \in [Node -> Node \cup {NoNode}]
          /\ pc \in [Thread -> PC]
          /\ want \in [Thread -> Requests \cup {0}]
          /\ mine \in [Thread -> Buffer \cup {NoNode}]
          /\ last \in [Thread -> Node \cup {NoNode}]
          /\ handed \subseteq [own : Buffer, mapped : Node, frame : Nat,
                               size : Requests, psize : Nat, alone : BOOLEAN]
          /\ before \in [Thread -> SUBSET Buffer]
          /\ alone \in [Thread -> BOOLEAN]
          /\ calm \in BOOLEAN

(* A call maps memory of a buffer that was being handed out while it ran:  *)
(* never the head of an empty list, never one a finished call returned.    *)
MapsFreshBuffer ==
  [][\A t \in Thread : MapLatest(t) =>
       \A h \in handed' \ handed : /\ h.mapped \in 1 .. nbufs
                                   /\ h.mapped \notin before[t]]_vars

(* As long as calls never overlap, whenever nobody adds a buffer the list  *)
(* holds the allocated buffers, each once, in order, in both directions.   *)
ListIntact ==
  calm /\ (\A t \in Thread : pc[t] \in {"idle", "dead", "alloc", "mmap"}) =>
    \A b \in 0 .. nbufs : /\ next[b] = IF b = nbufs THEN Head ELSE b + 1
                          /\ prev[b] = IF b = Head THEN nbufs ELSE b - 1

(* However the calls overlap, walking the list from its head, as every     *)
(* IOCTL_DMA_ALLOC does to print it, comes back to the head: no node on the *)
(* way has a link that is not set yet, and there is no cycle without Head.  *)
WalkEnds ==
  /\ \A n \in Node : next[n] # NoNode => next[next[n]] # NoNode
  /\ \A S \in SUBSET Buffer : S # {} => \E n \in S : next[n] \notin S

(* hero_api.h:302-303: the two addresses hero_host_l3_malloc returns are   *)
(* the physical and the virtual address of the same buffer.                *)
MapsOwnBuffer == \A h \in handed : h.mapped = h.own

(* That holds of a call no other call overlaps, also when calls before it  *)
(* overlapped and left the list damaged; and its mapping does not reach    *)
(* beyond the buffer, if rounding its size up does not overflow.  (If it   *)
(* does, one page is allocated and all of the size mapped.)                *)
AloneMapsOwn ==
  \A h \in handed :
    h.alone => /\ h.mapped = h.own
               /\ h.size + PageSize <= Word => PageUp(h.size) <= h.psize

(* The memory mapped is the host's memory of the buffer.                   *)
MapsHostFrame == \A h \in handed : h.frame = Frame(h.mapped)
=============================================================================
