--------------------------- MODULE RingBufProofs ---------------------------
(* Theorems about RingBuf for every Size, ElemSize and Byte. *)
EXTENDS RingBuf, TLAPS, SequenceTheorems

USE SizeAssumption, ElemSizeAssumption

(* The % of ringbuf.h is a wrap-around: the index after the last is 0. *)
LEMMA SuccWraps ==
  ASSUME NEW k \in Slot
  PROVE  /\ Succ(k) = IF k + 1 = Size THEN 0 ELSE k + 1
         /\ Succ(k) \in Slot
<1>1. CASE k + 1 = Size
  BY <1>1 DEF Succ, Slot
<1>2. CASE k + 1 # Size
  BY <1>2 DEF Succ, Slot
<1> QED BY <1>1, <1>2

LEMMA SuccInjective ==
  ASSUME NEW k \in Slot, NEW l \in Slot, Succ(k) = Succ(l)
  PROVE  k = l
<1> DEFINE wrap(j) == IF j + 1 = Size THEN 0 ELSE j + 1
<1>1. wrap(k) = wrap(l)
  BY SuccWraps
<1> QED BY <1>1 DEF Slot

(* What the copy loop of a put has done: the slot at head holds the bytes  *)
(* copied so far, and next_head is a free successor.                       *)
WriteInv == ppc = "copy" =>
              /\ pnext = Succ(head)
              /\ ~Full
              /\ \A k \in 0 .. pi - 1 : data[head][k] = pel[k]

(* A get that copies has an element to copy.                               *)
ReadInv == gpc = "copy" => ~Empty

IInv == TypeOK /\ WriteInv /\ ReadInv /\ NoTornRead

LEMMA InitIInv == Init => IInv
  BY DEF Init, IInv, TypeOK, WriteInv, ReadInv, NoTornRead, Slot, PC, Result, putVars, getVars

LEMMA NextTypeOK == TypeOK /\ [Next]_vars => TypeOK'
<1> SUFFICES ASSUME TypeOK, [Next]_vars PROVE TypeOK'
  OBVIOUS
<1> USE DEF TypeOK, PC, Result, putVars, getVars
<1>1. CASE PutFull
  BY <1>1 DEF PutFull
<1>2. ASSUME NEW m \in Msg, PutBegin(m) PROVE TypeOK'
  BY <1>2, SuccWraps DEF PutBegin
<1>3. CASE PutByte
  BY <1>3 DEF PutByte, Msg, Index
<1>4. CASE PutPublish
  BY <1>4 DEF PutPublish
<1>5. CASE GetEmpty
  BY <1>5 DEF GetEmpty
<1>6. CASE GetBegin
  BY <1>6 DEF GetBegin
<1>7. CASE GetByte
  BY <1>7 DEF GetByte, Msg, Index
<1>8. CASE GetRelease
  BY <1>8, SuccWraps DEF GetRelease
<1>9. CASE UNCHANGED vars
  BY <1>9 DEF vars
<1> QED BY <1>1, <1>2, <1>3, <1>4, <1>5, <1>6, <1>7, <1>8, <1>9 DEF Next, PutRun, GetRun

(***************************************************************************)
(* Slots, not messages, carry the mutual exclusion: while both sides copy, *)
(* head # tail because the buffer was not empty when the get began and     *)
(* only a put's publication moves head, to a slot that was not full.       *)
(***************************************************************************)
LEMMA NextIInv == IInv /\ [Next]_vars => IInv'
<1> SUFFICES ASSUME IInv, [Next]_vars PROVE IInv'
  OBVIOUS
<1>0. TypeOK'
  BY NextTypeOK DEF IInv
<1> USE DEF IInv, WriteInv, ReadInv, NoTornRead, Full, Empty, putVars, getVars
<1>1. CASE PutFull
  BY <1>0, <1>1 DEF PutFull
<1>2. ASSUME NEW m \in Msg, PutBegin(m) PROVE IInv'
  BY <1>0, <1>2 DEF PutBegin
<1>3. CASE PutByte
  <2> USE <1>3 DEF PutByte
  <2>1. WriteInv'
    BY DEF TypeOK, Msg, Index
  <2>2. NoTornRead'
    \* the byte goes to the slot at head, the reader is at tail # head
    BY DEF TypeOK
  <2> QED BY <1>0, <2>1, <2>2
<1>4. CASE PutPublish
  BY <1>0, <1>4, SuccWraps DEF PutPublish, TypeOK
<1>5. CASE GetEmpty
  BY <1>0, <1>5 DEF GetEmpty
<1>6. CASE GetBegin
  BY <1>0, <1>6 DEF GetBegin
<1>7. CASE GetByte
  <2> USE <1>7 DEF GetByte
  <2>1. NoTornRead'
    BY DEF TypeOK, Msg, Index
  <2> QED BY <1>0, <2>1
<1>8. CASE GetRelease
  \* head # tail, hence a put in progress is not caught by the new tail
  <2>1. Succ(head) # Succ(tail)
    BY <1>8, SuccInjective DEF GetRelease, TypeOK
  <2> QED BY <1>0, <1>8, <2>1 DEF GetRelease
<1>9. CASE UNCHANGED vars
  BY <1>0, <1>9 DEF vars
<1> QED BY <1>1, <1>2, <1>3, <1>4, <1>5, <1>6, <1>7, <1>8, <1>9 DEF Next, PutRun, GetRun

(* Every variable of a mailbox keeps its type. *)
THEOREM TypeCorrect == Spec => []TypeOK
<1>1. Init => TypeOK
  BY InitIInv DEF IInv
<1> QED BY <1>1, NextTypeOK, PTL DEF Spec

(* No slot is written while it is read.                                    *)
THEOREM SlotsExclusive == Spec => []NoSlotShared
<1>1. IInv => NoSlotShared
  BY DEF IInv, ReadInv, NoSlotShared, Empty
<1> QED BY <1>1, InitIInv, NextIInv, PTL DEF Spec

(* What a get has copied is what its slot holds, until the get returns.    *)
THEOREM ReadsFaithful == Spec => []NoTornRead
<1>1. IInv => NoTornRead
  BY DEF IInv
<1> QED BY <1>1, InitIInv, NextIInv, PTL DEF Spec

-----------------------------------------------------------------------------
LEMMA SeqIsItsElements ==
  ASSUME NEW S, NEW s \in Seq(S), NEW n, n = Len(s)
  PROVE  s = [j \in 1 .. n |-> s[j]]
  OBVIOUS

(* The unread elements occupy Count slots from tail on, never head's.      *)

LEMMA CountBounds ==
  ASSUME TypeOK
  PROVE  /\ Count \in 0 .. Size - 1
         /\ Empty <=> Count = 0
         /\ Full <=> Count = Size - 1
<1> DEFINE wrap == IF head + 1 = Size THEN 0 ELSE head + 1
<1>1. Full <=> wrap = tail
  BY SuccWraps DEF TypeOK, Full
<1> QED BY <1>1 DEF TypeOK, Slot, Count, Empty

LEMMA AtSlots ==
  ASSUME TypeOK
  PROVE  /\ \A j \in 0 .. Size - 1 : At(j) \in Slot
         /\ \A j \in 0 .. Count - 1 : At(j) # head
         /\ At(Count) = head
         /\ At(0) = tail
  BY DEF TypeOK, Slot, At, Count

LEMMA ContentsIsSeq ==
  ASSUME TypeOK
  PROVE  Contents \in Seq(Msg) /\ Len(Contents) = Count
<1>1. Count \in Nat
  BY CountBounds
<1>2. \A j \in 1 .. Count : At(j - 1) \in Slot
  BY AtSlots, CountBounds
<1>3. \A j \in 1 .. Count : data[At(j - 1)] \in Msg
  BY <1>2 DEF TypeOK
<1> QED BY <1>1, <1>3 DEF Contents

(* Publishing head makes the slot just filled the newest unread element.   *)
LEMMA PublishAppends ==
  ASSUME IInv, PutPublish
  PROVE  Contents' = Contents \o <<pel>>
<1> USE DEF IInv, PutPublish
<1>1. data[head] = pel
  BY DEF WriteInv, TypeOK, Msg, Index
<1>2. Count' = Count + 1
  <2> DEFINE wrap == IF head + 1 = Size THEN 0 ELSE head + 1
  <2>1. head' = wrap /\ wrap # tail /\ tail' = tail
    BY SuccWraps DEF TypeOK, WriteInv, Full
  <2> QED BY <2>1 DEF TypeOK, Slot, Count
<1>3. Count \in Nat /\ Len(Contents) = Count /\ Contents \in Seq(Msg)
  BY CountBounds, ContentsIsSeq
<1>4. \A j : At(j)' = At(j)
  BY DEF At
<1>5. Contents' = [j \in 1 .. Count + 1 |-> data[At(j - 1)]]
  BY <1>2, <1>4 DEF Contents
<1>6. data[At((Count + 1) - 1)] = pel
  BY <1>1, <1>3, AtSlots
<1>7. \A j \in 1 .. Count + 1 :
        data[At(j - 1)] = IF j <= Count THEN Contents[j] ELSE pel
  BY <1>3, <1>6 DEF Contents
<1> QED BY <1>3, <1>5, <1>7

(* Releasing tail removes the oldest unread element and no other.          *)
LEMMA ReleaseRemoves ==
  ASSUME IInv, GetRelease
  PROVE  /\ Contents # <<>>
         /\ Head(Contents) = gel
         /\ Contents' = Tail(Contents)
<1> USE DEF IInv, GetRelease
<1>1. gel = data[tail]
  BY DEF NoTornRead, TypeOK, Msg, Index
<1>2. Count # 0 /\ Count \in Nat /\ Len(Contents) = Count /\ Contents \in Seq(Msg)
  BY CountBounds, ContentsIsSeq DEF ReadInv
<1> DEFINE wrap == IF tail + 1 = Size THEN 0 ELSE tail + 1
<1>3. tail' = wrap
  BY SuccWraps DEF TypeOK
<1>4. Count' = Count - 1
  BY <1>2, <1>3 DEF TypeOK, Slot, Count
<1>5. \A j \in 0 .. Count - 2 : At(j)' = At(j + 1)
  BY <1>2, <1>3, CountBounds DEF TypeOK, Slot, At
<1>6. Contents' = [j \in 1 .. Count - 1 |-> data[At(j)]]
  <2>1. \A j \in 1 .. Count - 1 : At(j - 1)' = At(j)
    BY <1>2, <1>5
  <2> QED BY <2>1, <1>4 DEF Contents
<1>7. Head(Contents) = gel
  BY <1>1, <1>2, AtSlots DEF Contents
<1>8. \A j \in 1 .. Count - 1 : Contents[j + 1] = data[At(j)]
  BY <1>2 DEF Contents
<1>9. /\ Contents # <<>>
      /\ Tail(Contents) \in Seq(Msg)
      /\ Len(Tail(Contents)) = Count - 1
      /\ \A j \in 1 .. Count - 1 : Tail(Contents)[j] = Contents[j + 1]
  BY <1>2, HeadTailProperties
<1>10. Tail(Contents) = Contents'
  <2> DEFINE rest == [j \in 1 .. Count - 1 |-> Tail(Contents)[j]]
  <2>1. Tail(Contents) = rest
    BY <1>9, SeqIsItsElements
  <2>2. rest = [j \in 1 .. Count - 1 |-> data[At(j)]]
    BY <1>8, <1>9
  <2> QED BY <1>6, <2>1, <2>2
<1> QED BY <1>7, <1>9, <1>10

LEMMA ByteKeepsContents ==
  ASSUME IInv, PutByte
  PROVE  Contents' = Contents
<1> USE DEF IInv, PutByte
<1>1. \A j \in 1 .. Count : At(j - 1) \in Slot \ {head}
  BY AtSlots, CountBounds
<1>2. \A j \in 1 .. Count : data'[At(j - 1)] = data[At(j - 1)]
  BY <1>1 DEF TypeOK
<1>3. Count' = Count /\ \A j : At(j)' = At(j)
  BY DEF Count, At
<1> QED BY <1>2, <1>3 DEF Contents

-----------------------------------------------------------------------------
LEMMA InitFifo == Init => Fifo!FifoInit
<1> SUFFICES ASSUME Init PROVE Fifo!FifoInit
  OBVIOUS
<1>1. Count = 0
  BY DEF Init, Count
<1> QED BY <1>1 DEF Init, Fifo!FifoInit, Contents, Offered

LEMMA NextFifo ==
  IInv /\ [Next]_vars => [Fifo!FifoNext]_<<Contents, Offered, got>>
<1> SUFFICES ASSUME IInv, [Next]_vars
             PROVE  [Fifo!FifoNext]_<<Contents, Offered, got>>
  OBVIOUS
<1> USE DEF Fifo!FifoNext, putVars, getVars
<1>1. CASE PutFull
  BY <1>1 DEF PutFull, Contents, Count, At, Offered
<1>2. ASSUME NEW m \in Msg, PutBegin(m) PROVE Fifo!Offer(m)
  BY <1>2 DEF PutBegin, Contents, Count, At, Offered, Fifo!Offer
<1>3. CASE PutByte
  BY <1>3, ByteKeepsContents DEF PutByte, Offered
<1>4. CASE PutPublish
  <2>1. Len(Contents) < Size - 1
    BY <1>4, CountBounds, ContentsIsSeq DEF PutPublish, IInv, WriteInv
  <2>2. Contents' = Contents \o <<pel>>
    BY <1>4, PublishAppends
  <2>3. Offered = <<pel>> /\ Offered' = <<>> /\ got' = got
    BY <1>4 DEF PutPublish, Offered
  <2>4. Fifo!Commit
    BY <2>1, <2>2, <2>3 DEF Fifo!Commit
  <2> QED BY <2>4
<1>5. CASE GetEmpty
  BY <1>5 DEF GetEmpty, Contents, Count, At, Offered
<1>6. CASE GetBegin
  BY <1>6 DEF GetBegin, Contents, Count, At, Offered
<1>7. CASE GetByte
  BY <1>7 DEF GetByte, Contents, Count, At, Offered
<1>8. CASE GetRelease
  <2>1. Offered' = Offered /\ got' = gel
    BY <1>8 DEF GetRelease, Offered
  <2>2. Fifo!Take
    BY <1>8, <2>1, ReleaseRemoves DEF Fifo!Take
  <2> QED BY <2>2
<1>9. CASE UNCHANGED vars
  BY <1>9 DEF vars, Contents, Count, At, Offered
<1> QED BY <1>1, <1>2, <1>3, <1>4, <1>5, <1>6, <1>7, <1>8, <1>9 DEF Next, PutRun, GetRun

(* A mailbox is a bounded FIFO queue of Size - 1 elements, for every size, *)
(* element size and set of byte values, and every interleaving.            *)
THEOREM FifoRefined == Spec => ImplementsFifo
<1> QED BY InitIInv, NextIInv, InitFifo, NextFifo, PTL
        DEF Spec, ImplementsFifo, Fifo!FifoSpec, Fifo!fifoVars

(* The two negative results are honest: full means Size - 1 unread         *)
(* elements, empty means none.                                             *)
THEOREM ResultsHonest == Spec => RejectsHonestly
<1>1. ASSUME IInv, [Next]_vars
      PROVE  /\ pret = 0 /\ pret' = -1 => Count = Size - 1
             /\ gret = 0 /\ gret' = -1 => Count = 0
  <2>1. pret = 0 /\ pret' = -1 => Full
    BY <1>1 DEF Next, PutRun, GetRun, PutFull, PutBegin, PutByte, PutPublish,
                GetEmpty, GetBegin, GetByte, GetRelease, vars, putVars, getVars
  <2>2. gret = 0 /\ gret' = -1 => Empty
    BY <1>1 DEF Next, PutRun, GetRun, PutFull, PutBegin, PutByte, PutPublish,
                GetEmpty, GetBegin, GetByte, GetRelease, vars, putVars, getVars
  <2> QED BY <1>1, <2>1, <2>2, CountBounds DEF IInv
<1> QED BY <1>1, InitIInv, NextIInv, PTL DEF Spec, RejectsHonestly
=============================================================================
