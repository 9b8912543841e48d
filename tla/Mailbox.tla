------------------------------ MODULE Mailbox ------------------------------
(***************************************************************************)
(* Host and accelerator over their two mailboxes: hero_dev_mbox_write and  *)
(* hero_dev_mbox_read of sw/libhero/src/common/hero_api.c on one side, the *)
(* accelerator's runtime (not in the repository) on the other.  Each       *)
(* mailbox is the bounded FIFO that RingBuf is proved to implement.        *)
(*                                                                         *)
(* The runtime serves requests in order and answers each with Reply words, *)
(* in order.  The application may have several requests outstanding, and   *)
(* may read the answers in calls of any n_words up to MaxRead.             *)
(***************************************************************************)
EXTENDS Integers, Sequences

CONSTANTS Request,    \* the request words
          Reply,      \* how many words answer a request
          Capacity,   \* of either mailbox: 15, see hero_dev_alloc_mboxes
          MaxRead,    \* the largest n_words
          MaxDue,     \* no request is written while more words are due
          None

ASSUME ReplyAssumption == Reply \in Nat \ {0}
ASSUME CapacityAssumption == Capacity \in Nat \ {0}
ASSUME MaxReadAssumption == MaxRead \in Nat \ {0}
ASSUME MaxDueAssumption == MaxDue \in Nat

Word == Request \X (1 .. Reply)

VARIABLES h2a, h2aOffer,   \* the host-to-accelerator mailbox, the word being written
          a2h, a2hOffer,   \* the accelerator-to-host mailbox, the word being written
          req,             \* the request the accelerator took last
          todo,            \* the words it has still to answer
          last,            \* the word hero_dev_mbox_read got last
          left,            \* n_words of the read in progress: words still to get
          buffer,          \* its buffer argument
          due              \* the words requested and not yet returned by a read

vars == <<h2a, h2aOffer, a2h, a2hOffer, req, todo, last, left, buffer, due>>

H2A == INSTANCE BoundedFifo WITH
         q <- h2a, offer <- h2aOffer, got <- req, Msg <- Request, NoMsg <- None
A2H == INSTANCE BoundedFifo WITH
         q <- a2h, offer <- a2hOffer, got <- last, Msg <- Word, NoMsg <- None

h2aVars == <<h2a, h2aOffer, req>>
a2hVars == <<a2h, a2hOffer, last>>

Init == /\ H2A!FifoInit
        /\ A2H!FifoInit
        /\ todo = <<>>
        /\ left = 0
        /\ buffer = <<>>
        /\ due = <<>>

\* The words the accelerator answers the requests s with, in order.
Answers(s) == [k \in 1 .. Reply * Len(s) |->
                 <<s[((k - 1) \div Reply) + 1], ((k - 1) % Reply) + 1>>]

\* The host runs one call at a time.
InWrite == h2aOffer # <<>>
InRead == buffer # <<>>

-----------------------------------------------------------------------------
(* hero_dev_mbox_write: rb_host_put is tried until it returns 0. *)

\* Mutant of CallWrite: the application does not limit its backlog.
CallWriteUnlimited(w) == /\ ~InWrite /\ ~InRead
                         /\ Len(due) <= 2 * MaxDue
                         /\ H2A!Offer(w)
                         /\ UNCHANGED <<a2hVars, todo, left, buffer, due>>

CallWrite(w) == /\ ~InWrite /\ ~InRead
                /\ Len(due) <= MaxDue
                /\ H2A!Offer(w)
                /\ UNCHANGED <<a2hVars, todo, left, buffer, due>>

FinishWrite == /\ H2A!Commit
               /\ due' = due \o Answers(h2aOffer)
               /\ UNCHANGED <<a2hVars, todo, left, buffer>>

(***************************************************************************)
(* hero_dev_mbox_read: while (n_words--) fills buffer[n_words], from the   *)
(* last place to the first.  buffer[i] of the code is buffer[i + 1] here.  *)
(***************************************************************************)
\* Mutant of CallRead: one word too many is awaited.
CallReadMore(n) == /\ ~InWrite /\ ~InRead
                   /\ n <= Len(due)
                   /\ left' = n + 1
                   /\ buffer' = [i \in 1 .. n |-> None]
                   /\ UNCHANGED <<h2aVars, a2hVars, todo, due>>

CallRead(n) == /\ ~InWrite /\ ~InRead
               /\ n <= Len(due)
               /\ left' = n
               /\ buffer' = [i \in 1 .. n |-> None]
               /\ UNCHANGED <<h2aVars, a2hVars, todo, due>>

\* Mutants of ReadWord: the buffer is filled forwards; the read waits until
\* all its words are there.
ReadWordForward == /\ InRead /\ left > 0
                   /\ A2H!Take
                   /\ left' = left - 1
                   /\ buffer' = [buffer EXCEPT ![Len(buffer) + 1 - left] = last']
                   /\ UNCHANGED <<h2aVars, todo, due>>
ReadWordWaits == /\ InRead /\ left > 0
                 /\ Len(a2h) >= left
                 /\ A2H!Take
                 /\ left' = left - 1
                 /\ buffer' = [buffer EXCEPT ![left] = last']
                 /\ UNCHANGED <<h2aVars, todo, due>>

ReadWord == /\ InRead /\ left > 0
            /\ A2H!Take
            /\ left' = left - 1
            /\ buffer' = [buffer EXCEPT ![left] = last']
            /\ UNCHANGED <<h2aVars, todo, due>>

ReturnRead == /\ InRead /\ left = 0
              /\ due' = SubSeq(due, Len(buffer) + 1, Len(due))
              /\ buffer' = <<>>
              /\ UNCHANGED <<h2aVars, a2hVars, todo, left>>

-----------------------------------------------------------------------------
(* The accelerator's runtime: take a request, write its answer. *)

\* Mutants of TakeRequest: a request is taken before the last is answered; it
\* is taken only when the host has read all answers.
TakeRequestEarly == /\ a2hOffer = <<>>
                    /\ H2A!Take
                    /\ todo' = Answers(<<req'>>)
                    /\ UNCHANGED <<a2hVars, left, buffer, due>>
TakeRequestLate == /\ todo = <<>> /\ a2hOffer = <<>> /\ a2h = <<>>
                   /\ H2A!Take
                   /\ todo' = Answers(<<req'>>)
                   /\ UNCHANGED <<a2hVars, left, buffer, due>>

TakeRequest == /\ todo = <<>> /\ a2hOffer = <<>>
               /\ H2A!Take
               /\ todo' = Answers(<<req'>>)
               /\ UNCHANGED <<a2hVars, left, buffer, due>>

CallAnswer == /\ todo # <<>>
              /\ A2H!Offer(Head(todo))
              /\ todo' = Tail(todo)
              /\ UNCHANGED <<h2aVars, left, buffer, due>>

FinishAnswer == /\ A2H!Commit
                /\ UNCHANGED <<h2aVars, todo, left, buffer, due>>

-----------------------------------------------------------------------------
HostRun == FinishWrite \/ ReadWord \/ ReturnRead
Device == TakeRequest \/ CallAnswer \/ FinishAnswer

Next == \/ \E w \in Request : CallWrite(w)
        \/ \E n \in 1 .. MaxRead : CallRead(n)
        \/ HostRun
        \/ Device

Spec == Init /\ [][Next]_vars

(* The host spins inside the call it made, the runtime polls its mailbox.  *)
FairSpec == Spec /\ WF_vars(HostRun) /\ WF_vars(Device)

-----------------------------------------------------------------------------
\* The words of the read in progress, in the order they were got.
Fetched == [i \in 1 .. Len(buffer) - left |-> buffer[Len(buffer) + 1 - i]]

TypeOK == /\ h2a \in Seq(Request) /\ Len(h2a) <= Capacity
          /\ a2h \in Seq(Word) /\ Len(a2h) <= Capacity
          /\ h2aOffer \in Seq(Request) /\ Len(h2aOffer) <= 1
          /\ a2hOffer \in Seq(Word) /\ Len(a2hOffer) <= 1
          /\ req \in Request \cup {None}
          /\ last \in Word \cup {None}
          /\ todo \in Seq(Word)
          /\ left \in 0 .. MaxRead
          /\ buffer \in Seq(Word \cup {None})
          /\ due \in Seq(Word)

(* No word is lost, duplicated or reordered anywhere between the call that *)
(* requests it and the read that returns it.                               *)
Conserved == due = Fetched \o a2h \o a2hOffer \o todo \o Answers(h2a)

(* A read of n words returns the n oldest due words in reverse: the word   *)
(* that arrived first is in buffer[n - 1] (hero_api.c:141-147).            *)
ReadReverses ==
  [][ReturnRead => \A i \in 1 .. Len(buffer) :
                     buffer[i] = due[Len(buffer) + 1 - i]]_vars

(* Host and accelerator never wait for each other: the host in a write to  *)
(* a full mailbox while the accelerator answers into the other full one.   *)
NoWaitCycle == ~ /\ InWrite /\ Len(h2a) = Capacity
                 /\ a2hOffer # <<>> /\ Len(a2h) = Capacity

(* Every hero_dev_mbox_write and hero_dev_mbox_read that blocks returns.   *)
CallsReturn == (InWrite ~> ~InWrite) /\ (InRead ~> ~InRead)
=============================================================================
