----------------------------- MODULE MCInboxLog -----------------------------
(* Instances of InboxLog for TLC. *)
EXTENDS InboxLog, TLC

\* Negative, in range and past the end of every list of the instance.
SomeCoordinates == -2..3

Identities == Permutations(Message)
=============================================================================
