-------------------------- MODULE MCAgentLifecycle --------------------------
(* Instances of AgentLifecycle: c1 and c2 are the same configured agent before and
   after a reload, the others callers of the first or of the second factory. *)
EXTENDS AgentLifecycle

CONSTANTS c1, c2, create1, resume1, resume2

\* The values of the functions for the attempts of an instance.
Kinds == [a \in Attempt |-> IF a \in {c1, c2} THEN "configured"
                            ELSE IF a = create1 THEN "create" ELSE "resume"]
Homes == [a \in Attempt |-> IF a \in {c1, resume1} THEN 1 ELSE 2]
=============================================================================
