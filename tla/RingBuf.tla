------------------------------ MODULE RingBuf ------------------------------
(***************************************************************************)
(* The software mailbox of sw/libhero/include/libhero/ringbuf.h: one       *)
(* producer (rb_host_put or rb_device_put) and one consumer (rb_device_get *)
(* or rb_host_get) share a struct ring_buf and its data array without a    *)
(* lock.  The host and the device variants are the same code on two        *)
(* addresses of the same memory, so one pair of operations models both.    *)
(*                                                                         *)
(* A step is one access to memory the other side writes: the full or empty *)
(* test reads the other side's index once, the copy loop moves one byte,   *)
(* the last statement publishes the own index.                             *)
(***************************************************************************)
EXTENDS Integers, Sequences

CONSTANTS Size,       \* rb->size: the number of slots of the data array
          ElemSize,   \* rb->element_size: the number of bytes of a slot
          Byte,       \* the values of a byte
          NoMsg       \* what the consumer holds before its first element

ASSUME SizeAssumption == Size \in Nat \ {0}
ASSUME ElemSizeAssumption == ElemSize \in Nat

Slot == 0 .. Size - 1
Index == 0 .. ElemSize - 1
Msg == [Index -> Byte]

VARIABLES head,       \* rb->head: the slot written next
          tail,       \* rb->tail: the slot read next
          data,       \* the data array
          ppc,        \* the producer: "idle", or "copy" in the loop of a put
          pel,        \* its argument *el
          pi,         \* its loop counter i
          pnext,      \* its local next_head
          pret,       \* the result of its last call
          gpc,        \* the consumer: "idle", or "copy" in the loop of a get
          gel,        \* the caller's buffer *el the get copies to
          gi,         \* its loop counter i
          gret,       \* the result of its last call
          got         \* the element the last successful get delivered

putVars == <<ppc, pel, pi, pnext, pret>>
getVars == <<gpc, gel, gi, gret, got>>
vars == <<head, tail, data, putVars, getVars>>

PC == {"idle", "copy"}
Result == {0, -1}

(* rb_init.  It leaves the data array and the callers' buffers as they are. *)
Init == /\ head = 0
        /\ tail = 0
        /\ data \in [Slot -> Msg]
        /\ ppc = "idle" /\ pel \in Msg /\ pi = 0 /\ pnext = 0 /\ pret = 0
        /\ gpc = "idle" /\ gel \in Msg /\ gi = 0 /\ gret = 0
        /\ got = NoMsg

\* Mutant of Succ: the index does not wrap.
SuccNoWrap(k) == k + 1

Succ(k) == (k + 1) % Size

\* Mutants of Full: the test is dropped; it fires one element too early.
FullNever == FALSE
FullTooEarly == Succ(Succ(head)) = tail

Full == Succ(head) = tail
Empty == tail = head

-----------------------------------------------------------------------------
(* rb_host_put, rb_device_put *)

PutFull == /\ ppc = "idle"
           /\ Full
           /\ pret' = -1
           /\ UNCHANGED <<head, tail, data, ppc, pel, pi, pnext, getVars>>

PutBegin(m) == /\ ppc = "idle"
               /\ ~Full
               /\ ppc' = "copy"
               /\ pel' = m
               /\ pi' = 0
               /\ pnext' = Succ(head)
               /\ UNCHANGED <<head, tail, data, pret, getVars>>

\* Mutant of PutByte: the loop counter is not advanced.
PutByteStays == /\ ppc = "copy"
                /\ pi < ElemSize
                /\ data' = [data EXCEPT ![head][pi] = pel[pi]]
                /\ UNCHANGED <<head, tail, putVars, getVars>>

PutByte == /\ ppc = "copy"
           /\ pi < ElemSize
           /\ data' = [data EXCEPT ![head][pi] = pel[pi]]
           /\ pi' = pi + 1
           /\ UNCHANGED <<head, tail, ppc, pel, pnext, pret, getVars>>

\* Mutant of PutPublish: head moves before the last byte is copied.
PutPublishEarly == /\ ppc = "copy"
                   /\ pi >= ElemSize - 1
                   /\ head' = pnext
                   /\ ppc' = "idle"
                   /\ pret' = 0
                   /\ UNCHANGED <<tail, data, pel, pi, pnext, getVars>>

PutPublish == /\ ppc = "copy"
              /\ pi = ElemSize
              /\ head' = pnext
              /\ ppc' = "idle"
              /\ pret' = 0
              /\ UNCHANGED <<tail, data, pel, pi, pnext, getVars>>

-----------------------------------------------------------------------------
(* rb_device_get, rb_host_get *)

GetEmpty == /\ gpc = "idle"
            /\ Empty
            /\ gret' = -1
            /\ UNCHANGED <<head, tail, data, putVars, gpc, gel, gi, got>>

\* Mutant of GetBegin: the loop counter is not reset.
GetBeginNoReset == /\ gpc = "idle"
                   /\ ~Empty
                   /\ gpc' = "copy"
                   /\ UNCHANGED <<head, tail, data, putVars, gel, gi, gret, got>>

GetBegin == /\ gpc = "idle"
            /\ ~Empty
            /\ gpc' = "copy"
            /\ gi' = 0
            /\ UNCHANGED <<head, tail, data, putVars, gel, gret, got>>

\* Mutant of GetByte: the loop counter is not advanced.
GetByteStays == /\ gpc = "copy"
                /\ gi < ElemSize
                /\ gel' = [gel EXCEPT ![gi] = data[tail][gi]]
                /\ UNCHANGED <<head, tail, data, putVars, gpc, gi, gret, got>>

GetByte == /\ gpc = "copy"
           /\ gi < ElemSize
           /\ gel' = [gel EXCEPT ![gi] = data[tail][gi]]
           /\ gi' = gi + 1
           /\ UNCHANGED <<head, tail, data, putVars, gpc, gret, got>>

\* The slot is released, and the caller uses its buffer once get returns 0.
GetRelease == /\ gpc = "copy"
              /\ gi = ElemSize
              /\ tail' = Succ(tail)
              /\ gpc' = "idle"
              /\ gret' = 0
              /\ got' = gel
              /\ UNCHANGED <<head, data, putVars, gel, gi>>

-----------------------------------------------------------------------------
PutRun == PutByte \/ PutPublish      \* a put call that has begun goes on
GetRun == GetByte \/ GetRelease      \* a get call that has begun goes on

Next == \/ PutFull \/ (\E m \in Msg : PutBegin(m)) \/ PutRun
        \/ GetEmpty \/ GetBegin \/ GetRun

Spec == Init /\ [][Next]_vars

(* Each side is a processor that goes on executing the function it called. *)
FairSpec == Spec /\ WF_vars(PutRun) /\ WF_vars(GetRun)

-----------------------------------------------------------------------------
(* The unread elements, oldest first. *)
Count == IF tail <= head THEN head - tail ELSE head - tail + Size
At(j) == IF tail + j < Size THEN tail + j ELSE tail + j - Size
Contents == [j \in 1 .. Count |-> data[At(j - 1)]]
Offered == IF ppc = "copy" THEN <<pel>> ELSE <<>>

Fifo == INSTANCE BoundedFifo
          WITH Capacity <- Size - 1, q <- Contents, offer <- Offered

TypeOK == /\ head \in Slot
          /\ tail \in Slot
          /\ data \in [Slot -> Msg]
          /\ ppc \in PC /\ pel \in Msg /\ pi \in 0 .. ElemSize
          /\ pnext \in Slot /\ pret \in Result
          /\ gpc \in PC /\ gel \in Msg /\ gi \in 0 .. ElemSize
          /\ gret \in Result
          /\ got \in Msg \cup {NoMsg}

(* The producer never copies into the slot the consumer is copying from,   *)
(* whatever the interleaving of the two unlocked loops (ringbuf.h:46, 62). *)
NoSlotShared == ppc = "copy" /\ gpc = "copy" => head # tail

(* What the consumer has copied so far is still what its slot holds: the   *)
(* element a get returns is never a mixture of two elements.               *)
NoTornRead == gpc = "copy" =>
                \A k \in 0 .. gi - 1 : gel[k] = data[tail][k]

(* put returns -1 only if Size - 1 elements are unread at that moment, and *)
(* get returns -1 only if none is (the two "caught the" tests).            *)
RejectsHonestly == [][/\ pret = 0 /\ pret' = -1 => Count = Size - 1
                      /\ gret = 0 /\ gret' = -1 => Count = 0]_vars

(* The buffer behaves as a bounded FIFO of Size - 1 elements: an element   *)
(* enters whole when head is published, elements leave in order, once.     *)
ImplementsFifo == Fifo!FifoSpec

(* A call that passed its test returns, whatever the other side does: the  *)
(* functions are wait-free.                                                *)
CallsReturn == (ppc = "copy" ~> ppc = "idle") /\ (gpc = "copy" ~> gpc = "idle")
=============================================================================
