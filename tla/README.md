# A TLA+ model of the HERO host tools

This directory holds a formal model of the HERO host software: `libhero`, the
user-space library an OpenMP program uses to drive an accelerator, the Linux
kernel drivers it talks to, and the code shared with the accelerator. The
modules are checked with TLC on small instances; nearly all safety properties
are also theorems, proved with TLAPS for every size.

Paths below are relative to the repository. `A.c:n` is line n of A.c.

## The system

| Component | Code | State | Operations |
|---|---|---|---|
| Ring buffer of the mailboxes | `sw/libhero/include/libhero/ringbuf.h` | `struct ring_buf`: head, tail, element size and count, data array, in memory shared by host and accelerator | `rb_init`, `rb_host_put`, `rb_host_get`, `rb_device_put`, `rb_device_get` |
| Mailbox API | `sw/libhero/src/common/hero_api.c:138-182` | three ring buffers, one per direction and one for remote calls | `hero_dev_mbox_write`, `hero_dev_mbox_read` |
| Device memory | `hero_api.c:85-136, 235-304` | one o1heap per level (L2, L3); its host and device base address in globals | `hero_dev_l2/l3_init`, `malloc`, `free`, `hero_dev_alloc_mboxes`, `hero_dev_free_mboxes` |
| Platform back ends | `sw/libhero/src/carfield/*.c`, `sw/libhero/src/occamy/*.c` | mapped register files, the driver's file descriptor | `hero_dev_mmap`, `init`, `exe_start`, `reset`, `munmap` |
| Library side of the driver | `sw/libhero/src/common/driver.h` | none of its own | `driver_lookup_mem`, `driver_mmap`, `hero_host_l3_malloc`, `hero_iommu_map_*` |
| Carfield driver, file operations | `sw/hero-driver/carfield/carfield_fops.c` | the DMA buffer list, the table of regions | `ioctl` (three commands), `mmap`, `read`, `open` |
| Carfield driver, life cycle | `sw/hero-driver/carfield/carfield_driver.c` | device data, IOMMU domain, character device, interrupt toggles | module init and cleanup, probe, remove, interrupt handler |
| IOMMU regions | `sw/hero-driver/common/hero_iommu.c` | the IOMMU's page table, the region list | `hero_iommu_region_add` |
| Occamy driver | `sw/hero-driver/occamy/` | as Carfield, without interrupts and IOMMU | as Carfield |
| PCIe device tree driver | `sw/hero-pcie-dts-driver/hero_pcie_dts.c` | the blob, the overlay, the populated devices | probe, remove |
| Timestamps | `hero_api.c:25-79` | an array and a counter | add, print |
| 64-bit access | `apps/omp/common/hero_64.h` | none | load and store of 8 to 64 bits, blocking or not |
| Matrix-vector kernel | `apps/omp/basic/matvec/` | two row buffers in L1, DMA transfers | `matvec` |
| Compiler passes | `toolchain/llvm-support/` | LLVM IR | two rewritings |

### How the components interact

- **Shared memory.** Host and accelerator share the mailboxes and nothing
  else orders their accesses: no lock, no atomic instruction. Each side spins.
- **Calls.** The OpenMP plugin calls `libhero` from one thread; `libhero` calls
  the driver with `ioctl` and `mmap`. `hero_dev_mmap` sets global variables that
  all later allocations use.
- **Handing over addresses.** `hero_dev_init` writes the device addresses of the
  mailboxes to registers (Carfield) or to a structure in L3 (Occamy) from which
  the accelerator reads them when it starts.
- **Many users, one driver.** Every process that opened `/dev/cardev-*`, and
  every thread of it, shares the driver's one list of DMA buffers.

### What is hard in it

| Behaviour | Where | What makes the component correct |
|---|---|---|
| Unlocked single producer, single consumer | ring buffer | it is a bounded FIFO; no element is torn; it refuses only when it must |
| Two blocking queues in a cycle | mailbox API | no wait cycle with a bounded backlog; no word lost; calls return |
| Two addresses for each byte | device memory | both name the same byte, also after failures and a second `hero_dev_mmap` |
| Partial failure and call order | back ends, mailboxes | what the accelerator was told of is allocated; `munmap` gives it back |
| Allocation and mapping are two system calls | DMA buffers | a caller maps its own buffer; the list stays whole |
| Error paths of kernel code | drivers | what a failed probe acquired is released; nothing is used after release |
| Registers written in a required order | back ends | the island is isolated while it is reset, and boots once |
| Halves of a 64-bit access | `hero_64.h` | which values a load can return |
| Transfers in flight | matvec | no buffer is computed on while it is being written |

`PROJECT.json` lists every hazard at its line, with the properties that cover it
or the reason none does yet.

## The modules

```
BoundedFifo          what a mailbox promises
  ^ implemented by
RingBuf              the ring buffer, one step per access to shared memory
  RingBufProofs      theorems
Mailbox              two BoundedFifo: host calls and the accelerator's runtime
  MailboxProofs      theorems
HeapLayout           how a region is divided
  ^ extended by
Session              a process from hero_dev_mmap to hero_dev_munmap
  SessionProofs      theorems
Island               the registers of isolation, clock, reset and boot
  IslandProofs       theorems
DmaBuf               hero_host_l3_malloc in the library and in the driver
  DmaBufProofs       theorems
CardDriver           the card drivers: module, probe, remove, files, interrupts
  ^ composed with the PCIe driver in
PcieDts              a card that is plugged in and out under its driver
  PcieDtsProofs      theorems
CardFiles            the regions of a card and what a process gets of them
  ^ extended by
Iommu                a process's memory made accessible to the accelerator
  FilesProofs        theorems about both
Matvec               the matrix-vector kernel on the accelerator
  MatvecProofs       theorems
```

Each `...MC` module gives the definitions a `.cfg` needs: symmetry sets, values
of constants.

### RingBuf

One producer and one consumer, as the header says. The host's and the device's
functions differ in the pointer they use (`data_v`, `data_p`) and in nothing
else, so one `put` and one `get` stand for all four. A call reads the other
side's index once (`PutBegin`/`PutFull`, `GetBegin`/`GetEmpty`), copies the
element byte by byte (`PutByte`, `GetByte`: one step per byte) and stores its
own index (`PutPublish`, `GetRelease`). Each step makes at most one access to a
variable the other side writes, so the interleavings are those of the
program on a sequentially consistent memory. `ppc`, `pel`, `pi`, `pnext`, `pret`
are the producer's program counter, element, loop counter, computed index and
return value; `g...` the consumer's. `got` is the element the last `get`
delivered.

The refinement to `BoundedFifo` reads the queue off the shared memory: the
slots from `tail` up to `head`. A `put` offers its element when its test
succeeded and commits it when the index is stored; a `get` takes when it
releases the slot.

- `NoSlotShared`: the producer never writes the slot the consumer copies from.
- `NoTornRead`: what a `get` has copied so far is what its slot holds.
- `RejectsHonestly`: `put` returns -1 only when `element_num - 1` elements were
  unread at its test, `get` only when none was. (The other side may have moved
  on by the time the caller sees it.)
- `ImplementsFifo`: the bounded FIFO, as a temporal property.
- `CallsReturn`: a `put` or `get` that passed its test returns.

### Mailbox

`hero_dev_mbox_write` tries until the put succeeds and `hero_dev_mbox_read` gets
`n_words` words, last place of the buffer first. Their fruitless tries change
nothing and are not steps. The accelerator's runtime is not in this repository;
it is modelled from the protocol the host uses: take a request, answer it with
a fixed number of words, in order. The host may keep several requests
outstanding; `due` is the words it may still read.

- `Conserved`: the words due are, in order, those fetched, in the mailbox, being
  written, still to be answered, or requested and not yet taken.
- `NoWaitCycle`: host and accelerator never both wait for the other to empty a
  mailbox. This holds up to a backlog of exactly `Capacity * (Reply + 1)` words
  due when a write begins; with one more TLC finds the deadlock. The code does
  not limit the backlog; its caller does.
- `ReadReverses`: a read of several words returns them in reverse order.
- `CallsReturn`: with that backlog every blocking call returns.

### Session

`libhero` is not thread safe and keeps its state in globals, so a call is one
step, except `hero_dev_mmap`, which has one step per way to end. Addresses are
numbers: `start` holds the globals that translate a host address to a device
address. o1heap is not in `src/`; it is a first-fit allocator of blocks of one
size, enough to tell which blocks are allocated and when they run out. `told` is
what the accelerator was given. The platform is chosen in the initial state.

- `AddressesAgree`: host and device address of each block name the same byte.
- `BlocksDisjoint`: each block has one owner and lies in the heap's part of its
  region.
- `FirstAgree`, `FirstDisjoint`: both hold until a process calls `hero_dev_mmap` a
  second time.
- `ToldIsAllocated`: a running Spatz cluster was told of mailboxes that are
  allocated. On the other two platforms `hero_dev_munmap` frees them without
  stopping the accelerator, and the property does not hold.
- `MailboxesReturned`: after `hero_dev_munmap` on the safety island and Occamy,
  whatever is still allocated in L2 is a block the application holds. (On Spatz
  the call that frees the mailboxes is commented out.)

The pointers to the mailboxes are never cleared. In a process that has not called
`hero_dev_init` in any session, `hero_dev_munmap` reads through a null pointer
(`MunmapCrashes`; the caller's `HeroDev` is assumed to be zero at the start). In a
later session without `hero_dev_init` it frees the blocks of an earlier one again
(`MunmapAgain`), whoever has them by now; o1heap may see that one is free already
and abort. What becomes of a free list with a block in it twice is not modelled:
the allocator is not in `src/`.

### Island

Where Session has a call of the back ends as one step, Island has one step per
register access. A call is the sequence of its accesses (`Accesses`), translated
from the code of each platform; the host makes them one after the other (`Post`,
`PassFence`, `PassPoll`, `PollAgain`). A `writew` is posted: it reaches the
hardware later (`Land`), in any order but for writes to the same register, and
only a `fence` waits. That is what RISC-V allows between two plain stores, and
what the fences in the code are there for. Values are those the code writes, but
for addresses, which are 1 when they have been written; Occamy's isolation
register has a bit for each of four ports, which the code sets and clears together
(15 or 0). The TLB entries, 14 writes each, are one write: they stand next to each
other in the code, and an accelerator that finds one of them missing finds the
table not set up.

The hardware is modelled from the way the code uses it: isolation is reported
when no transaction is in flight (`Isolate`, `Issue`, `Drain`), a reset clears
the accelerator's own boot register, and a core boots when it is clocked, not in
reset and asked to (`Boot`): by FETCH_ENABLE on the safety island, by an enabled
mailbox interrupt on Spatz, by the CLINT on Occamy. The clint functions read
before they write; only the bits they change are modelled. The clear registers of
the mailboxes' other direction (`rcvClr`) act on a flag that nothing uses.

`due` is the cores a start has asked for; `clean` is whether each start found no
request of an earlier one left over.

- `NothingCut`: on Carfield, no transaction is in flight in reset or without a
  clock. On Occamy nothing waits for the isolation and this does not hold.
- `OwnBootReached`: the boot register inside the accelerator is written only when
  the write can reach it.
- `BootsOnce`, `BootsReady`: a core boots once per start, and then finds the entry
  point and what `hero_dev_init` tells it. Both are stated with `clean`: on
  Carfield, `hero_dev_exe_start` resets the island and does not withdraw
  FETCH_ENABLE or the interrupts, so after two starts without `hero_dev_reset`
  the core boots during the second, before its boot address is written.
- `CallReturns`: every call returns, its waits for the isolation included.
- `StartRuns`: the cores a start asked for run in the end.

### DmaBuf

`hero_host_l3_malloc` asks the driver for pages with an ioctl and then maps "the
latest buffer" with `mmap`. The model has one step per store of
`list_add_tail`, which the driver calls without a lock, and one for `card_mmap`.
The stores take effect in the order of the program. Buffers are numbered in the
order of allocation.

Sizes are in bytes. The library rounds the size up to pages in the 32 bits of
`size_b` (`AlignUp`), the driver records that, and `mmap` maps the pages of the
size as it was asked for, rounded in 64 bits (`PageUp`). A size that rounds to 0 is
still given a page, because `order_base_2(0)` is 0. A size of 0 is allocated a page
too and cannot be mapped. Where there is no memory for the list's node the driver
writes through a null pointer and its caller dies (`NodeFails`).

Three history variables record which buffers finished calls had returned when a
call began (`before`), whether a call has been alone (`alone`) and whether no two
ever overlapped (`calm`).

- `MapsFreshBuffer`: a call maps a buffer that exists and that no call finished
  before it began had returned.
- `WalkEnds`: however the calls overlap, a walk of the list from its head comes
  back to it. Every ioctl walks the list to print it, without a lock, while others
  are adding to it.
- `AloneMapsOwn`: a call no other overlaps maps its own buffer, even when earlier
  overlapping calls damaged the list, and no more than it unless rounding its size
  overflows.
- `ListIntact`: as long as no two calls overlap, the list holds every buffer once,
  in both directions.
- `MapsOwnBuffer`, `MapsHostFrame`: what the header says of every call; with
  overlapping calls and on a PCIe host neither holds.

### CardDriver and PcieDts

CardDriver is the life cycle of the Carfield and the Occamy driver
(`platform`). The module's init and cleanup go through their steps (`mod`); each
card has its own place in `card_platform_driver_probe` or `_remove` (`card`), so
that cards are probed and removed in any interleaving. Each step of probe that
can fail does, on its own way out. One step of the model is one call that
acquires or releases something. The Linux functions are modelled from how the
drivers use them: a failed probe is not repeated by itself, memory of the device
is freed when its probe fails or its driver lets it go, `try_module_get` keeps a
module whose files are open, and the result of a registration is ignored because
the code ignores it.

What is particular to this code:

- The devices come from the device tree and have no id, so every card computes
  the same device number and the same node, `/dev/cardev--1`, the one libhero
  opens. `cdev_del` removes the first entry of that number (`CdevDel`), whichever
  card made it.
- The result of `device_create` is kept in one variable for all cards
  (`result`).
- Interrupt handlers are requested by every probe and never freed. They are
  counted (`handlers`), and those of a module that was unloaded are `stale`: the
  next interrupt runs code that is gone (`panic`). One line stands for the four
  of a card.
- The handler ignores every other call (`entered`), whichever device raised the
  shared line.
- A `request_irq` that fails is logged and ignored: probe goes on without the
  handler.
- An oops in probe or remove kills the thread and leaves the card where it was
  (`"dead"`). It happens where an interrupt is missing from the device tree, and
  in a removal under a kernel from 6.5 on without an IOMMU.
- Cleanup registers the Spatz driver a second time instead of unregistering it.

PcieDts adds `hero_pci_probe` and `hero_pci_remove`: the blob, the overlay, the
devices and, with `Unplug`, the end of the device under its driver, which the
driver core lets go first (`RemoveStart` may be taken whenever a card is bound,
because the module is unloaded, the device goes, or sysfs unbinds it). Reading
the device tree from the card is one step; its failures leave nothing but a
mapping of the BAR.

- `OpenReachesReady`: a registered character device, which an open of the node
  reaches, is of a card whose data are complete, and a node has a character
  device. It holds as long as no two probes or removals overlap (`calm`); without
  that condition TLC finds a character device whose data are freed.
- `UnloadsClean`: what init and probe acquired is given back when the module is
  unloaded, whatever failed in between. The property says what is not: the IOMMU
  domain of a probe that failed after attaching it (`lost`) and, on Carfield, the
  Spatz driver and the interrupt handlers.
- `PciGivesBack`: nothing is left of a card whose PCIe device is gone, and devices
  do not outlive the overlay they came from.
- `RaisedIsCleared`: an interrupt of the GPIO is cleared in the end, in spite of
  the toggle and of other devices' interrupts.

### CardFiles and Iommu

CardFiles has the regions of a card on their way from the device tree to a
process. A tree gives each node a status (ok, missing, registers that cannot be
mapped, absent in hardware) and a reserved memory (none, one, or broken).
`ProbeNode` is `probe_node`, `Probed[k]` the driver's table after k nodes; it is
a function of the tree and so part of the initial state; the Occamy driver adds
a line of its own to the text (`HardwareLines`). The actions are the
calls of the device file: `Open` and `Release` with the permission check, `Read`
with its unsigned count, and `LookupMmap`, libhero's lookup by ioctl and the
`mmap` that follows.

- `MapsNamed`: libhero maps the region the device tree gives that name, and maps
  every one that is there and none that is not, although it ignores the errors of
  the lookup. The L3 memory may be the first memory reserved for another node.
- `ReadStaysInText`: whatever position and count, a read copies lines of the text
  only. Past its end the count wraps around to a huge one and must be refused.

Iommu has threads of a process that map memory for the accelerator (`Pin`,
`MapPages`) while the process maps, unmaps and replaces its pages (`Remap`). The
pages are pinned in one step and mapped at a device address in another. The
device address is the user address modulo 1 GiB (`Wrap`), the number of pages the
size shifted down (`NPages`): nobody rounds it up. A failed `kcalloc` passes the
test for too few pages (`NoArray`), and a failed `kmalloc` is used (`MapPages`);
either kills the calling thread in the kernel, whose call then never ends and
keeps the file open. `p_addr` of
`hero_iommu_map_virt_to_phys` is not in the model because the driver overwrites
it. Nothing looks at the result of `iommu_map`: an address that is not aligned
maps nothing, and of two mappings of one device page either may win. An error of
`get_user_pages_fast` passes the test of its result as a huge unsigned number and
makes the driver map what it computes from null pages (`Garbage`).

- `IovaReaches`: each page behind a returned device address is the page the
  process had there when it asked. It is stated for aligned addresses, pages that
  were not all missing, and device pages that no other call got (`claims`);
  without the last condition TLC finds one call's mapping replaced by another's.
  It speaks of the whole pages of the size: of a size that is not a whole number of
  pages the last part is not mapped, and the call succeeds.

### Matvec

The kernel as it is built for Spatz: the target region on one core (`Enter`,
`Round`, `Join`, `Leave`), one iteration of the parallel loop per core (`Chunk`,
`Reduce`: `fdotp_rvv_32b` a vector register group at a time), and a DMA engine
that moves one element of any transfer under way (`Move`). `given` says whether
all three addresses are there: without, `matvec` returns 0 and computes nothing.
The loop names its row of the result by its index and its row of the matrix by
`snrt_cluster_core_idx()`; that they are one row is the OpenMP schedule's doing,
which gives iteration i to core i (`CoreIdx`). It is an assumption: another
schedule makes `ResultRight` false. An element is named
after its place in the vector or the matrix and a sum is the set of its
products, so that a result is right only if it came from the right elements.

- `TypeOK`: among the types, that no transfer leaves the buffers.
- `ResultRight`: when `matvec` has returned 0 every element is the product of its
  row with the vector and no transfer is under way. It is the comparison of
  `main.c:106-121`, stated for widths with whole chunks (`WholeChunks`).

## The runs

| Run | Instance | Shows |
|---|---|---|
| `ringbuf` | 3 slots, 2 bytes per element, 2 byte values | all properties of RingBuf |
| `mailbox` | capacity 2, 2 words per answer, reads of up to 3 words, 2 requests, backlog at the exact limit | all properties of Mailbox |
| `session` | L2 heap of 8 blocks (the mailboxes need 6), L3 heap of 3, up to 4 blocks of the application, the three platforms, two `hero_dev_mmap` | `TypeOK`, `FirstAgree`, `FirstDisjoint`, `ToldIsAllocated`, `MailboxesReturned` |
| `session_reopen` | the safety island, two `hero_dev_mmap` | **violated**: `AddressesAgree` |
| `session_enomem` | the safety island | **violated**: `InitSucceeded` |
| `island` | the three platforms, 2 cores (1 on the safety island), up to 4 posted writes | all properties of Island |
| `dmabuf` | 2 callers, 3 buffers, pages of 2 bytes, requests of 0, 3 and 7 bytes, counted modulo 8, not a PCIe host | `TypeOK`, `ListIntact`, `AloneMapsOwn`, `WalkEnds`, `MapsFreshBuffer` |
| `dmabuf_wrong` | 2 callers | **violated**: `MapsOwnBuffer` |
| `dmabuf_pcie` | 1 caller on a PCIe host | **violated**: `MapsHostFrame` |
| `driver` | Carfield, on its own SoC or with one card in a slot, with a kernel before 6.5, without and with an IOMMU; Occamy, on its own SoC or with two cards in slots; 1 open file, 2 handlers per card | all properties of CardDriver and PcieDts |
| `files` | every tree of three nodes for Carfield and of two for Occamy, with every fault; complete trees with and without an IOMMU, 2 threads, 3 pages of user memory of 2 bytes each on 2 frames, requests of 1, 2 and 5 bytes | `TypeOK`, `MapsNamed`, `ReadStaysInText`, `IovaReaches` |
| `matvec` | 2 cores, vectors of 2 elements, widths up to 5, heights up to 6 | all properties of Matvec |

Deadlock is checked in every run but those of Session, where a process may
crash or be out of the calls it is bounded to, those of DmaBuf, where all callers
may have been killed in the driver, and `driver`, where a kernel that panicked
stops.

### Why the bounds are enough

- Ring buffer: three slots are the fewest with which the queue can hold two
  elements, wrap in the middle and be neither full nor empty; two bytes are the
  fewest a torn element needs, and two byte values tell the halves apart. The
  indices wrap again and again: the state space has no bound on the number of
  messages.
- Mailbox: capacity 2, answers of 2 words and reads of 3 words make reads span
  answers and answers span a full mailbox. `SafeBacklog` is tight, so that both
  mailboxes do fill.
- Session: the application can exhaust the L3 heap, and leave the L2 heap up to
  two blocks short of what the mailboxes need, so that a data array or a structure
  of one is missing after `hero_dev_init`. `MaxMaps` bounds the calls of `hero_dev_mmap`: with two, the second session finds what the first
  left, blocks of the application and stale pointers to mailboxes included.
- Island: calls are not bounded. At most `MaxPosted` writes are on their way at
  once, after which the host stalls, as with a full store buffer; 4 are enough
  for any two of the writes between two fences to change places, but for the
  first and the last of Spatz' reset, which act on different things. Of Occamy's
  nine cores, which are always addressed together, two are modelled.
- DmaBuf: two callers reach every order of the stores of two `list_add_tail`;
  three buffers leave one for a call after the two that collided. `MaxBufs` is
  the memory there is: once it is used up every allocation fails. Of the sizes, 3
  is rounded up, 7 is rounded up to 8, which is 0 in the three bits there are, and
  0 is the request for nothing.
- Driver: the two Occamy cards are probed and removed in every interleaving, so
  that they compete for the node and the character device; what is particular to
  Carfield (domain, interrupts, Spatz driver) belongs to one card. A card's second
  probe is the one that finds what the first left behind; `MaxHandlers` bounds
  the probes of Carfield by the handlers they leave, and the parity of one and of
  two handlers is all the toggle depends on. Loading and unloading are not
  bounded.
- Files: a reserved memory matters relative to the first one and to the L3 node,
  which three nodes cover. `Word`, `CopyMax` and `MaxAsk` are chosen so that a
  count that wraps is above what `copy_to_user` takes, as on a 64-bit host, and
  positions and counts pass the end of the longest text, of four lines, or fall
  short of it.
- Iommu: two threads with calls of up to two pages overlap in every way on three
  user pages, of which two are the same device page (`Wrap` is 2). Fewer frames
  than pages make pages missing and replaced. The sizes are part of a page, which
  is refused, a whole page, and two and a half.
- Matvec: heights up to 6 are three rounds, both buffers and the first again,
  complete or cut short; widths are nothing, part of a chunk, one, one and a half
  and two chunks, and one that `matvec` refuses (`MaxElem`).

### Fairness

- Ring buffer: a `put` or `get` past its test is a loop over `element_size` bytes
  without a wait: weak fairness of the producer's steps within a call and of the
  consumer's. Nothing is assumed about whether calls are made.
- Mailbox: a blocked call spins in the calling thread and the runtime polls its
  mailbox, each forever: weak fairness of the host within a call (`HostRun`) and
  of the runtime (`Device`). Whether the application makes another call is not
  assumed.
- Island: the calls run, posted writes arrive, transactions end, the isolation
  answers and a core that may boot does, each weakly fair. The last three are
  assumptions about the hardware that `car_set_isolate`, which waits without a
  limit, makes too.
- Driver: an interrupt line that is asserted keeps interrupting: weak fairness of
  serving a card (`ServeCard`). Probe, remove and the module need none.

## What the runs found

1. **Overlapping DMA allocations map the wrong buffer** (`dmabuf_wrong`,
   `driver.h:81`). Between the ioctl and the `mmap` of one caller another may
   add a buffer, and the first maps that one: it holds the physical address of
   its own memory and the virtual address of the other's.
2. **PCIe hosts map a device address** (`dmabuf_pcie`, `carfield_fops.c:232`).
   The buffer list records the address with the PCIe offset, and `card_mmap`
   uses it as a host frame.
3. **A second `hero_dev_mmap` breaks address translation** (`session_reopen`,
   `hero_api.c:238`). The heap is kept, the globals are replaced: addresses from
   the old mapping are translated with the start of the new one.
4. **`hero_dev_init` succeeds without memory** (`session_enomem`,
   `hero_api.c:112`). The test for failed allocations comes after their use, is
   never true and its result is ignored.

Also seen while modelling, without a run: `hero_dev_munmap` never calls
`munmap()`, although `hero_api.h:174` says it does, and has no `return`
statement; `list_add_tail` of two callers at once can leave a buffer out of the
forward list (`ListIntact` without its first conjunct fails); two starts without
a reset between them boot too early (`BootsReady` without `clean` fails). The
documentation of `hero_dev_init` (`hero_api.h:213`) says that it disables fetch
enable; no platform's does.

In the sizes of memory for the accelerator: `hero_host_l3_malloc` of a size near 2^32
rounds it up to 0 (`driver.h:70`), is given one page and maps the whole size from
there on, which `card_mmap` logs as an error and does (`AloneMapsOwn` without its
last condition fails); and an IOMMU mapping of a size that is not a whole number
of pages succeeds without its last part (`hero_iommu.c:17`), which the library
does not round up although its comment says that pages are needed
(`driver.h:94-95`).

In the drivers: what the sections above list as particular to the code; and the
first memory reserved for another node becomes the L3 memory, but is lost when
the L3 node itself is missing from the tree, as `probe_node` then clears the
entry.

In matvec: `fdotp_rvv_32b` reduces with the vector length of the last chunk, so
that for a width above the vector length and not a multiple of it the sums in
the other lanes are lost (`ResultRight` without `WholeChunks` fails); the test
vector of `main.c`, one in the first place and zero elsewhere, does not show it.
A matrix of one row has a second one fetched. With three or more cores, as
Occamy has, the prefetch is longer than a buffer of two rows. `main` does not look
at the -1 of a matrix that is too large.

## What is proved

### RingBuf

`RingBufProofs` proves of `Spec`, for every size of at least 2, every element size
and every set of byte values:

| Theorem | States |
|---|---|
| `TypeCorrect` | `[]TypeOK` |
| `SlotsExclusive` | `[]NoSlotShared` |
| `ReadsFaithful` | `[]NoTornRead` |
| `FifoRefined` | `Spec` implements `BoundedFifo` |
| `ResultsHonest` | `RejectsHonestly` |

The inductive invariant `IInv` adds to `TypeOK` what the unlocked protocol rests
on: while a `put` copies, its next index is the successor of `head` and is not
`tail` (the slot it fills is not the last free one); while a `get` copies,
`head` is not `tail`; the bytes copied so far by either side are in place. That
each side's test stays true while the other moves is the heart of it: the
producer only ever makes the queue longer and the consumer shorter, and each
moves its own index only. `SuccInjective` says that the wrap-around keeps slots
apart. For the refinement, `PublishAppends`, `ReleaseRemoves` and
`ByteKeepsContents` say what each kind of step does to the queue read off the
memory.

Assumed: `Size`, `ElemSize` and `Byte` as the module's assumptions say, and a
sequentially consistent memory.

### Mailbox

`MailboxProofs` proves for every capacity, answer length and set of requests:

| Theorem | States |
|---|---|
| `TypeCorrect` | `[]TypeOK` |
| `NoDeadlock` | `[]NoWaitCycle`, if `MaxDue <= Capacity * (Reply + 1)` |
| `NothingLost` | `[]Conserved` |
| `ReadsReversed` | `ReadReverses` |

The invariant counts: the number of words due is the sum of those fetched by the
read in progress, in the mailbox, being written, still to be answered, and
`Reply` for each request not yet taken (`Count`). In a wait cycle both mailboxes
are full and a word is being written, which makes more than
`Capacity * (Reply + 1)` words; but a write began with at most `MaxDue` due and
that number does not grow during it (`HostState`). `Mailbox.cfg` takes `MaxDue`
at the limit.

`Conserved` says the same of the words themselves and needs no count: `CInv` adds
to it that the buffer of a read in progress holds what was fetched (`Filled`).
The answers to a sequence of requests are those to its parts, one after the other
(`AnswersConcat`), so a word that moves from one place to the next leaves the
whole as it was.

### Session

`SessionProofs` proves for every size of the regions and every number of blocks
and of calls of `hero_dev_mmap`:

| Theorem | States |
|---|---|
| `TypeCorrect` | `[]TypeOK` |
| `ToldStays` | `[]ToldIsAllocated` |
| `NothingLeaks` | `[]MailboxesReturned` |
| `AddressesRight` | `[]FirstAgree` |
| `BlocksApart` | `[]FirstDisjoint` |

The invariant says who holds which block: what is used lies in the heap
(`Placed`), the application's blocks (`Held`), Occamy's layout (`LayoutHeld`) and,
while the device is set up, the mailboxes (`MboxesHeld`) are used and have
different owners, the accelerator knows the first and the third (`ToldRight`),
Spatz does not run without them (`SpatzStops`), and on the other platforms every
used block of L2 has an owner (`NoneLost`). It holds across every failed
`hero_dev_mmap` and `hero_dev_init`. The last two theorems need `OneMap` besides:
with one mapping the globals and the heap start at the same address. Their
condition `maps <= 1` is the code's limit, as `session_reopen` shows.

Assumed: each region is a whole number of pairs of blocks, as the regions of the
device tree, which are whole pages, are.

### Island

`IslandProofs` proves for the three platforms and any number of writes on their
way (`MaxPosted`):

| Theorem | States |
|---|---|
| `TypeCorrect` | `[]TypeOK` |
| `NeverCut` | `[]NothingCut` |
| `OwnBootArrives` | `OwnBootReached` |

`TypeCorrect` says that each register keeps the values it has, the isolation of
Occamy all four bits or none, because every write that is on its way or still to
be made carries such a value; the accesses of each call are gone through for it.

For Carfield the invariant follows the island through the stages of an isolation: `still` and
`free`, in which a call begins and ends, and between them `asked`, `closing`,
`shut`, `lifting`, `lifted`, `waking`, `awake`, `opening`, `opened` and `telling`.
`Goes` says which access leads from one to the next and `Run` that the accesses a
call has still to make lead from the present stage to the end; that each call of
Carfield is such a run is checked access by access (`AccessesRun`). `Holds` says
what a stage means with writes on their way that may arrive in any order: which
registers are settled, for which there are only writes of one value, and that
the reset or a stopped clock finds the island isolated (`Guarded`). Only the fences
and the polls make registers settled: without any of them a stage does not
imply the next. On Occamy no write to the own boot register is ever made
(`Quiet`).

### CardFiles and Iommu

`FilesProofs` proves of both together, for every device tree, any number of
nodes, threads, pages and calls, any sizes and any position and count of a read:

| Theorem | States |
|---|---|
| `TypeCorrect` | `[]TypeOK` |
| `MapsRight` | `[]MapsNamed` |
| `ReadsText` | `[]ReadStaysInText` |
| `AddressesReach` | `[]IovaReaches`, of the whole pages of any size |

Probe fills the driver's table node by node. `ProbeFills` says what the table holds
after all nodes, by induction on their number: each node's own entry, and for the
L3 memory the node's own or the first one reserved (`Own`, `SharedL3`). The
library's induction theorems cannot be instantiated, so the induction is carried
out with sets: the numbers up to which a statement holds are all numbers
(`Counting`), and `Stepwise` gives the recursive function its equations.
`TextSize` bounds the text and `ReadCount` says that the count of a read fits in
what is left of it or is larger than any copy.

For `IovaReaches` the invariant says it of each call that was granted (`Reaches`)
while its device pages are claimed by it alone, that a page without a claim is not
mapped (`Claimed`), and that a call in progress has pinned the pages there were
(`MapTypes`). Calls in progress count as if they were granted (`Pending`), which
bounds the claims of a page.

Assumed: `FilesAssumption`, `SetupsAssumption` and `IommuAssumption`: each node is
probed, the L3 node last, as `carfield_driver.c` and `occamy_driver.c` do, user
counts are far below the width of the unsigned arithmetic, and threads are
finitely many.

### DmaBuf

`DmaBufProofs` proves for any number of callers and buffers, any sizes and widths
of page and word:

| Theorem | States |
|---|---|
| `TypeCorrect` | `[]TypeOK` |
| `FreshMapped` | `MapsFreshBuffer` |
| `AloneCorrect` | `[]AloneMapsOwn` |
| `ListStaysIntact` | `[]ListIntact` |
| `WalkReturns` | `[]WalkEnds` |

The invariant `IInv` has a part for each reason: callers hold different buffers not
yet returned (`Ownership`), the list records their addresses and sizes
(`Recorded`) and so do the results (`Returned`). `Freshness` is the part that
survives any interleaving: between a call's own store and its mapping, the list's
last pointer, whoever stored it, names a buffer that was not returned before the
call began. `Solitude` says that for a call nobody overlaps it is the call's own.
`Listed` describes the list after each store of `list_add_tail` and is needed only
for `ListStaysIntact`.

`WalkReturns` has an invariant of its own, `Chain`, about the links while any number
of callers store them. A node is hidden until its call has read the end of the
list (`Ends`), and whatever a link leads to has its own link set (`Links`). Ranked in
the order in which their calls read the end of the list, nodes are only ever linked
to later ones (`Order`): a lost node is possible, a cycle is not.

Assumed: `DmaAssumption`, that sizes fit into a word, and stores that take effect in
the order of the program.

### PcieDts

`PcieDtsProofs` proves of both drivers together, for any number of cards, hosts,
files and handlers:

| Theorem | States |
|---|---|
| `TypeCorrect` | `[]TypeOK` |
| `Unloads` | `[]UnloadsClean` |
| `PcieGivesBack` | `[]PciGivesBack` |
| `OpenCorrect` | `[]OpenReachesReady` |

The inductive invariant `IInv` says for each place of a card, the module and the
PCIe driver what is held there: `ModuleHolds` (numbers, class and driver go with
`mod`), `Rested` (a card is at rest unless the card driver is registered),
`DomainsKnown`, `NoIrqs`, `FilesClosed`, `PciHolds`, and `Room` for handlers. The
part that is not local is `Counted`. Since `cdev_del` removes whichever entry
comes first, nothing can be said of one card's character device; but there are at
least as many entries as cards that still owe a `cdev_del` (`Holders`) and at
most that many and the dead ones (`MayHold`). When the module goes no card owes
one and, because a dead card keeps the module from going, none is left.

For `OpenCorrect`, `OneBusy` says that without overlaps one card at a time is in
probe or remove, and `OInv` adds what the character devices and the node are then
at each of its steps (`Shape`), and that data are complete from `cdev_add` to the
end of the removal (`Complete`).

Assumed: `CardAssumption`, that cards are finitely many.

### Matvec

`MatvecProofs` proves for every width, height and vector length, on two cores:

| Theorem | States |
|---|---|
| `TypeCorrect` | `[]TypeOK`, if `Cores = 2` |
| `ResultCorrect` | `[]ResultRight`, if `Cores = 2` |

Two cores are what Spatz has and what the two buffers of two rows are made for; on
one or three cores both are false. `Expected` is the set of transfers whose data
the next round needs. What the DMA does is part of it (`InFlight`), and each of
its elements has arrived or is still to be moved (`Arriving`); so at the wait,
when nothing moves, the round's rows are there (`Arrived`). During the round they
stay there (`There`), because the transfer for the next one writes the other
buffer (`ExpectedFacts`, `Buffers`). Each lane of a core has the products of the
elements it has seen (`Summed`), which `Lanes` says make up the row.

### Only model-checked

- Liveness, which is out of the prover's reach: `CallsReturn` (RingBuf, Mailbox),
  `CallReturns`, `StartRuns`, `RaisedIsCleared`.
- `BootsOnce` and `BootsReady` of Island. They need an invariant of their own: which
  requests to boot each call has still to make or to withdraw, on each platform.
  That of `NeverCut` says nothing about them.

## What is not modelled, and why

- **Weak memory.** The ring buffer is checked with sequential consistency. The
  callers fence before each try; whether the order of the byte copies and the
  index store is kept is a matter of compiler and hardware.
- **More than one host thread in libhero**, for which it is not written.
- **o1heap's own data structure**, vendored and not in `src/`.
- **Logging and environment variables.**
- **The region list of the IOMMU** and the pages pinned for it: nothing reads the
  list and nothing releases the pages.
- **Timestamps**: `HERO_TIMESTAMP_MODE` is 0 in the source (`debug.h:24`). What is
  left is an array that is filled and printed.
- **64-bit access** (`hero_64.h`): nothing in the repository calls it, so there is
  no second actor whose accesses could interleave with its halves.
- **matvec on Occamy**: its eight cores read beyond buffers of two rows, and what
  is there is not the kernel's.
- **Compiler passes**: sequential rewriting of LLVM IR. What is right there is a
  matter of the semantics of the IR, which a model would have to bring along.

## Plan

Done, with their proofs: the ring buffer, the mailbox API, the memory of a
session, the register protocol, the DMA buffers, the drivers, the device file and
the IOMMU, the matrix-vector kernel. Left, most important first:

1. **Protocol**: Session, Mailbox and Island composed, with mailboxes that are
   freed or set up again while the accelerator uses the old ones.
2. An abstract island (off, held, running) that Island implements.
3. Proofs: `BootsOnce` and `BootsReady` of Island.
4. A ring buffer with store buffers, to say which fences it needs.
