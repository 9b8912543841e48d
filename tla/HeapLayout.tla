---------------------------- MODULE HeapLayout -----------------------------
(***************************************************************************)
(* How hero_dev_mmap splits a memory region of the device between OpenMP   *)
(* (lower half, dev->global_mems) and the o1heap allocator (upper half).   *)
(* Offsets count from the start of the region.                             *)
(***************************************************************************)
EXTENDS Integers

\* ALIGN_UP of libhero/utils.h, for the powers of two it is used with.
AlignUp(x, p) == ((x + p - 1) \div p) * p

\* Where the heap of a region of the given size starts, and its size.
HeapOffset(size, align) == AlignUp(size \div 2, align)
HeapSize(size) == size \div 2

\* The bytes of the region given to OpenMP and to the heap.
OmpBytes(size) == 0 .. (size \div 2) - 1
HeapBytes(size, align) ==
  HeapOffset(size, align) .. HeapOffset(size, align) + HeapSize(size) - 1
=============================================================================
