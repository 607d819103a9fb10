---------------------------- MODULE MCMailboxUpgrade ----------------------------
(* A small instance of MailboxUpgrade: two operators, one of whom may overtake the
   other, and two members that open the mailbox first. *)
EXTENDS MailboxUpgrade, TLC

ProcessSymmetry == Permutations(Operator) \cup Permutations(Opener)
================================================================================
