--------------------------- MODULE MCJobRegistry ---------------------------
(* Instances of JobRegistry: one agent, a foreground command with output, and *)
(* work in the background, the agent's own or nobody's.                       *)
EXTENDS JobRegistry

CONSTANTS command, work, agent, reader

Callers == [w \in Reader |-> agent]
\* The command overflows the live cap, in chunks of any size; the work pushes once.
Output == [j \in Job |-> IF j = command THEN 3 ELSE 1]
=============================================================================
