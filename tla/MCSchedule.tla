---------------------------- MODULE MCSchedule ----------------------------
EXTENDS Schedule
CONSTANTS daily, hourly, agent
OneSession == [t \in Task |-> agent]
\* Both recur; the second may become a one-shot task.
Asked == [t \in Task |-> IF t = daily THEN <<<<1, 1>>>> ELSE <<<<1, 1>>, <<0, 1>>>>]
=============================================================================
