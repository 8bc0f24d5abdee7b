------------------------ MODULE MCSessionPersistence ------------------------
(* Instances of SessionPersistence: two handles of one process and one of another. *)
EXTENDS SessionPersistence

CONSTANTS first, second, elsewhere, here, there

\* Where the handles of the instances live.
Homes == [h \in Handle |-> IF h = elsewhere THEN there ELSE here]
=============================================================================
