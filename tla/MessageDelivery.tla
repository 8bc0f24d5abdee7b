-------------------------- MODULE MessageDelivery --------------------------
(***************************************************************************)
(* What an agent promises about the messages it is sent, without turns,    *)
(* steps, signals or latches.  Messages are taken, and what has been taken *)
(* is admitted, only while the agent runs, and both begin only in an       *)
(* activity that has not been cancelled; once begun they are finished,     *)
(* cancelled or not, and nothing else happens to messages meanwhile.       *)
(* Messages taken together are admitted together or given up before any    *)
(* others are taken, and an agent at rest holds nothing in hand.  What has *)
(* been withdrawn or given up never comes back.                            *)
(***************************************************************************)
EXTENDS FiniteSets

CONSTANT Message

VARIABLES
  running,    \* a driver is active
  canceled,   \* the current activity has been cancelled
  busy,       \* what the agent has begun and not finished with messages
  pending,    \* messages waiting
  taken,      \* messages in the hands of the step being proposed
  admitted,   \* messages the model has been shown
  lost        \* messages withdrawn or given up

vars == <<running, canceled, busy, pending, taken, admitted, lost>>

Known == pending \cup taken \cup admitted \cup lost

Init ==
  /\ running = FALSE /\ canceled = FALSE /\ busy = "no"
  /\ pending = {} /\ taken = {} /\ admitted = {} /\ lost = {}

Accept(m) ==
  /\ busy = "no" /\ m \notin Known
  /\ pending' = pending \cup {m}
  /\ UNCHANGED <<running, canceled, busy, taken, admitted, lost>>

Withdraw(S) ==
  /\ busy = "no"
  /\ pending' = pending \ S
  /\ lost' = lost \cup S
  /\ UNCHANGED <<running, canceled, busy, taken, admitted>>

Exchange(old, new) ==
  /\ busy = "no" /\ old \in pending /\ new \notin Known
  /\ pending' = (pending \ {old}) \cup {new}
  /\ lost' = lost \cup {old}
  /\ UNCHANGED <<running, canceled, busy, taken, admitted>>

Cancel ==
  /\ canceled' = TRUE
  /\ UNCHANGED <<running, busy, pending, taken, admitted, lost>>

Take(S) ==
  /\ running /\ ~canceled /\ busy = "no" /\ taken = {}
  /\ taken' = S
  /\ pending' = pending \ S
  /\ busy' \in {"no", "taking"}
  /\ UNCHANGED <<running, canceled, admitted, lost>>

TakeRest(S) ==
  /\ running /\ busy = "taking"
  /\ taken' = taken \cup S
  /\ pending' = pending \ S
  /\ busy' = "no"
  /\ UNCHANGED <<running, canceled, admitted, lost>>

GiveUp(S) ==
  /\ running /\ busy = "no"
  /\ taken' = taken \ S
  /\ lost' = lost \cup S
  /\ UNCHANGED <<running, canceled, busy, pending, admitted>>

BeginAdmission ==
  /\ running /\ ~canceled /\ busy = "no"
  /\ busy' = "admitting"
  /\ UNCHANGED <<running, canceled, pending, taken, admitted, lost>>

Admit(m) ==
  /\ running /\ busy = "admitting"
  /\ admitted' = admitted \cup {m}
  /\ taken' = taken \ {m}
  /\ UNCHANGED <<running, canceled, busy, pending, lost>>

EndAdmission ==
  /\ busy = "admitting" /\ taken = {}
  /\ busy' = "no"
  /\ UNCHANGED <<running, canceled, pending, taken, admitted, lost>>

\* The activity is over, or another one begins.
Change ==
  /\ busy = "no" /\ taken = {}
  /\ running' \in BOOLEAN
  /\ canceled' = FALSE
  /\ UNCHANGED <<busy, pending, taken, admitted, lost>>

Next ==
  \/ \E m \in Message : Accept(m)
  \/ \E S \in SUBSET pending : Withdraw(S) \/ Take(S) \/ TakeRest(S)
  \/ \E old, new \in Message : Exchange(old, new)
  \/ \E S \in SUBSET taken : GiveUp(S)
  \/ \E m \in taken : Admit(m)
  \/ Cancel \/ BeginAdmission \/ EndAdmission \/ Change

Spec == Init /\ [][Next]_vars
=============================================================================
