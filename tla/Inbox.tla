------------------------------- MODULE Inbox -------------------------------
(***************************************************************************)
(* The agent's durable inbox: two ordered lists of pending messages, one   *)
(* waiting for a turn of its own and one for the next step boundary.  Only *)
(* operators are defined here; InboxLog is the stand-alone state machine   *)
(* over them and AgentDriver the driver that owns the lists.               *)
(***************************************************************************)
EXTENDS Integers, Sequences, FiniteSets, Functions

NextTurn == "next-turn"
NextStep == "next-step"
Target == {NextTurn, NextStep}

EmptyInbox == [t \in Target |-> <<>>]

\* ReactLoopInbox.hasPending.
HasPending(box) == \E t \in Target : box[t] # <<>>

\* The messages that are waiting in either list.
Pending(box) == Range(box[NextTurn]) \cup Range(box[NextStep])

\* The result of toSpliced for coordinates that are already normalised:
\* count elements after the first start are replaced by the sequence ins.
Spliced(s, start, count, ins) ==
  SubSeq(s, 1, start) \o ins \o SubSeq(s, start + count + 1, Len(s))

\* Each identity is pending at most once, in one of the two lists.
UniquelyPending(box) ==
  /\ \A t \in Target : IsInjective(box[t])
  /\ Range(box[NextTurn]) \cap Range(box[NextStep]) = {}

----------------------------------------------------------------------------
(* The batch one step boundary claims: all of next-step and, when the      *)
(* boundary opens a turn, the oldest next-turn message.                    *)

ClaimedBatch(box, target) ==
  Range(box[NextStep]) \cup
    (IF target = NextTurn /\ box[NextTurn] # <<>> THEN {Head(box[NextTurn])} ELSE {})

AfterClaimKeepsSteps(box, target) ==
  [t \in Target |->
     IF t = NextStep /\ target = NextStep THEN <<>>
     ELSE IF t = NextTurn /\ target = NextTurn /\ box[t] # <<>> THEN Tail(box[t])
     ELSE box[t]]

AfterClaim(box, target) ==
  [t \in Target |->
     IF t = NextStep THEN <<>>
     ELSE IF target = NextTurn /\ box[t] # <<>> THEN Tail(box[t])
     ELSE box[t]]
=============================================================================
