---------------------------- MODULE LogOwnership ----------------------------
(***************************************************************************)
(* What a session log promises about its writers, whoever they are: one at *)
(* a time, a writer is published only while it writes, and it stops being  *)
(* published no later than it stops writing.                               *)
(***************************************************************************)
CONSTANTS Writer, NoOne

VARIABLES writer,    \* who may append to the log
          published  \* who the rest of the program sees under the identity

Init == writer = NoOne /\ published = NoOne

Acquire(w) == writer = NoOne /\ writer' = w /\ UNCHANGED published

Publish(w) == writer = w /\ published = NoOne /\ published' = w /\ UNCHANGED writer

Release(w) == writer = w /\ writer' = NoOne /\ published' = NoOne

Next == \E w \in Writer : Acquire(w) \/ Publish(w) \/ Release(w)

Spec == Init /\ [][Next]_<<writer, published>>
=============================================================================
