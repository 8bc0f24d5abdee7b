--------------------------- MODULE MCAgentDriver ---------------------------
(* Instances of AgentDriver for TLC. *)
EXTENDS AgentDriver

AllSends == Target \X BOOLEAN

\* followup, steer and inject: the three public ways to send.
PublicSends == {<<NextTurn, TRUE>>, <<NextStep, TRUE>>, <<NextStep, FALSE>>}

AllCancels == Cause \X BOOLEAN

\* Cancellations that clear the inbox, as teardown and a plain stop do.
ClearingCancels == Cause \X {FALSE}
=============================================================================
