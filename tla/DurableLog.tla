----------------------------- MODULE DurableLog -----------------------------
(***************************************************************************)
(* What a session store promises: once an append has been acknowledged,    *)
(* the log up to there is never rewritten, reordered or shortened, whoever *)
(* writes next and whatever crashes.  What follows it may come and go, but *)
(* no reader is ever given a log that misses or repeats an event.          *)
(***************************************************************************)
EXTENDS Naturals, Sequences

VARIABLES log,   \* what a reader is given
          acked  \* the length acknowledged to some writer

Init == log = <<>> /\ acked = 0

Kept(n) == n <= Len(log') /\ \A i \in 1..n : log'[i] = log[i]

\* A write, a rollback or a crash: only what nobody acknowledged changes.
Change == Kept(acked) /\ acked' = acked

\* A write settles.
Acknowledge(n) == Kept(acked) /\ n \in acked..Len(log') /\ acked' = n

Numbered == \A i \in DOMAIN log' : log'[i].seq = i

Next == Numbered /\ (Change \/ \E n \in acked..Len(log') : Acknowledge(n))

Spec == Init /\ [][Next]_<<log, acked>>
=============================================================================
