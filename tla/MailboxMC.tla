----------------------------- MODULE MailboxMC -----------------------------
(* Instances of Mailbox for TLC. *)
EXTENDS Mailbox, TLC

RequestSymmetry == Permutations(Request)

(***************************************************************************)
(* The largest backlog with which a write cannot join a wait cycle: both   *)
(* mailboxes full hold Capacity requests and Capacity words, and the       *)
(* accelerator, to be stuck, holds at least one more word.                 *)
(***************************************************************************)
SafeBacklog == Capacity * (Reply + 1)
=============================================================================
