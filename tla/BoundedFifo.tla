---------------------------- MODULE BoundedFifo ----------------------------
(***************************************************************************)
(* What a libhero mailbox promises its two users, free of slots, indices   *)
(* and bytes: a first-in first-out queue of at most Capacity messages.     *)
(* The producer offers one message at a time, the offer enters the queue   *)
(* atomically when there is room, the consumer takes the oldest message.   *)
(* RingBuf implements this module; Mailbox is built on it.                 *)
(***************************************************************************)
EXTENDS Naturals, Sequences

CONSTANTS Msg,        \* the messages
          Capacity,   \* how many unread messages the queue holds
          NoMsg       \* what `got' is before the first Take

VARIABLES q,          \* the unread messages, oldest first
          offer,      \* <<>>, or <<m>> while the producer is handing over m
          got         \* the message taken last

fifoVars == <<q, offer, got>>

FifoInit == q = <<>> /\ offer = <<>> /\ got = NoMsg

\* The producer starts to hand over m.
Offer(m) == /\ offer = <<>>
            /\ offer' = <<m>>
            /\ UNCHANGED <<q, got>>

\* The offered message becomes the newest unread one, if there is room.
Commit == /\ offer # <<>>
          /\ Len(q) < Capacity
          /\ q' = q \o offer
          /\ offer' = <<>>
          /\ UNCHANGED got

\* The consumer takes the oldest unread message.
Take == /\ q # <<>>
        /\ got' = Head(q)
        /\ q' = Tail(q)
        /\ UNCHANGED offer

FifoNext == (\E m \in Msg : Offer(m)) \/ Commit \/ Take

FifoSpec == FifoInit /\ [][FifoNext]_fifoVars
=============================================================================
