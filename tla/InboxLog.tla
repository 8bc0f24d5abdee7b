------------------------------ MODULE InboxLog ------------------------------
(***************************************************************************)
(* ReactLoopInbox on its own: every operation of the inbox contract, with  *)
(* the coordinates a caller may give, as recorded splices of a durable     *)
(* log.  An operation is synchronous, but it notifies listeners one        *)
(* message at a time and these may call the inbox again, so what is left   *)
(* of the interrupted operations is kept on a stack.                       *)
(***************************************************************************)
EXTENDS Inbox, FiniteSetsExt

CONSTANTS Message,
          Coordinates,   \* the integers splice is called with
          MaxLog         \* bound on recorded splices

ASSUME LogAssumption == Coordinates \subseteq Int /\ MaxLog \in Nat

VARIABLES
  lists,     \* the live projection
  log,       \* agent/inbox/spliced events
  stack,     \* what the operations under way still have to do, innermost first
  open,      \* a caller or a listener is running, and may call
  heard      \* per message, inserted notices minus discarded and claimed ones

vars == <<lists, log, stack, open, heard>>

Splice(t, start, count, ins, outcome) ==
  [target |-> t, start |-> start, removedCount |-> count, inserted |-> ins, outcome |-> outcome]

Notice(kind, m) == [do |-> kind, message |-> m]
\* The second half of clear(), after the notices of the first.
ClearTurns      == [do |-> "clear"]

TypeOK ==
  /\ lists \in [Target -> Seq(Message)]
  /\ \A k \in DOMAIN log :
       /\ log[k].target \in Target /\ log[k].start \in Nat /\ log[k].removedCount \in Nat
       /\ log[k].inserted \in Seq(Message) /\ log[k].outcome \in {"canceled", "none"}
  /\ open \in BOOLEAN /\ heard \in [Message -> Int]

Init ==
  /\ lists = EmptyInbox /\ log = <<>> /\ stack = <<>> /\ open = TRUE
  /\ heard = [m \in Message |-> 0]

----------------------------------------------------------------------------
(* mutate(): the clamping of Array.prototype.splice, the refusal of an     *)
(* identity that is pending already, and one recorded event.               *)

ActualStart(s, start) ==
  IF start < 0 THEN Max({Len(s) + start, 0}) ELSE Min({start, Len(s)})

ActualCount(s, start, count) == Min({Max({count, 0}), Len(s) - ActualStart(s, start)})

Removed(s, start, count) ==
  SubSeq(s, ActualStart(s, start) + 1, ActualStart(s, start) + ActualCount(s, start, count))

CandidateFromFront(s, start, count, ins) ==
  Spliced(s, ActualStart(s, Max({start, 0})), ActualCount(s, start, count), ins)

Candidate(s, start, count, ins) ==
  Spliced(s, ActualStart(s, start), ActualCount(s, start, count), ins)

NothingToDo(s, start, count, ins) == ActualCount(s, start, count) = 0 /\ ins = <<>>

NoticesFirst(kind, s) == IF s = <<>> THEN <<>> ELSE <<Notice(kind, Head(s))>>

Notices(kind, s) == [i \in DOMAIN s |-> Notice(kind, s[i])]

\* One mutation by an operation that then has the items of rest to do.
Mutate(t, start, count, ins, rest) ==
  LET s   == lists[t]
      new == [lists EXCEPT ![t] = Candidate(s, start, count, ins)]
      out == Removed(s, start, count)
  IN IF NothingToDo(s, start, count, ins)
     THEN stack' = rest /\ UNCHANGED <<lists, log, open>>
     ELSE /\ UniquelyPending(new)
          /\ lists' = new
          /\ log' = Append(log, Splice(t, ActualStart(s, start), ActualCount(s, start, count), ins,
                                       IF out = <<>> THEN "none" ELSE "canceled"))
          /\ open' = FALSE
          /\ stack' = Notices("discarded", out) \o Notices("inserted", ins) \o rest

----------------------------------------------------------------------------
(* The contract's operations.                                              *)

Callable == open /\ Len(log) < MaxLog

SpliceCall(t, start, count, ins) ==
  /\ Callable
  /\ Mutate(t, start, count, ins, stack)
  /\ UNCHANGED heard

AppendCall(t, m)  == SpliceCall(t, Len(lists[t]), 0, <<m>>)
PrependCall(t, m) == SpliceCall(t, 0, 0, <<m>>)

ReplaceCall(t, i, m) == SpliceCall(t, i - 1, 1, <<m>>)
RemoveCall(t, i)     == SpliceCall(t, i - 1, 1, <<>>)

Clear ==
  /\ Callable
  /\ IF lists[NextStep] # <<>>
     THEN Mutate(NextStep, 0, Len(lists[NextStep]), <<>>, <<ClearTurns>> \o stack)
     ELSE Mutate(NextTurn, 0, Len(lists[NextTurn]), <<>>, stack)
  /\ UNCHANGED heard

\* The operation on top of the stack goes on after the listeners' calls.
FinishClear ==
  /\ stack # <<>> /\ Head(stack) = ClearTurns
  /\ Mutate(NextTurn, 0, Len(lists[NextTurn]), <<>>, Tail(stack))
  /\ UNCHANGED heard

\* claim(): both deletions are recorded before the first notice.
Claim(t) ==
  /\ Callable
  /\ LET steps == lists[NextStep]
         turns == IF t = NextTurn /\ lists[t] # <<>> THEN <<Head(lists[t])>> ELSE <<>>
         record(to, s) == IF s = <<>> THEN <<>> ELSE <<Splice(to, 0, Len(s), <<>>, "none")>>
     IN /\ lists' = AfterClaim(lists, t)
        /\ log' = log \o record(NextStep, steps) \o record(NextTurn, turns)
        /\ stack' = Notices("claimed", steps \o turns) \o stack
        /\ open' = (steps \o turns = <<>>)
  /\ UNCHANGED heard

Emit ==
  /\ stack # <<>> /\ Head(stack) # ClearTurns
  /\ heard' = [heard EXCEPT ![Head(stack).message] =
                 IF Head(stack).do = "inserted" THEN @ + 1 ELSE @ - 1]
  /\ stack' = Tail(stack)
  /\ open' = TRUE
  /\ UNCHANGED <<lists, log>>

Next ==
  \/ Emit \/ FinishClear \/ Clear
  \/ \E t \in Target :
       \/ Claim(t)
       \/ \E start, count \in Coordinates, n \in 0..2 :
            \E ins \in [1..n -> Message] : SpliceCall(t, start, count, ins)
       \/ \E m \in Message : AppendCall(t, m) \/ PrependCall(t, m)
       \/ \E i \in DOMAIN lists[t] : RemoveCall(t, i)
       \/ \E i \in DOMAIN lists[t], m \in Message : ReplaceCall(t, i, m)

Spec == Init /\ [][Next]_vars

----------------------------------------------------------------------------
(* Reading the log back.                                                   *)

Rejected == [t \in Target |-> <<"rejected">>]

\* inboxProjectionDefinition.apply: a splice that does not fit is an error.
Apply(box, e) ==
  LET new == [box EXCEPT ![e.target] = Spliced(@, e.start, e.removedCount, e.inserted)]
  IN IF e.start > Len(box[e.target]) \/ e.start + e.removedCount > Len(box[e.target])
          \/ ~UniquelyPending(new)
     THEN Rejected
     ELSE new

Replayed(events) ==
  LET after[k \in 0..Len(events)] == IF k = 0 THEN EmptyInbox ELSE Apply(after[k - 1], events[k])
  IN after[Len(events)]

----------------------------------------------------------------------------

\* A resumed session rebuilds exactly the inbox the live one had, at any point
\* the process may have stopped, whatever coordinates callers used.
ReplayRebuilds == Replayed(log) = lists

\* However calls from listeners are nested, a subscriber that counts notices is
\* behind the inbox by exactly the notices still owed, and agrees with it once
\* every operation has returned: nothing is announced twice, nothing leaves or
\* enters unannounced.
Owed(m) ==
  Cardinality({k \in DOMAIN stack : stack[k] = Notice("inserted", m)})
    - Cardinality({k \in DOMAIN stack : stack[k] \in {Notice("discarded", m), Notice("claimed", m)}})
NoticesOwed ==
  \A m \in Message : heard[m] + Owed(m) = (IF m \in Pending(lists) THEN 1 ELSE 0)

=============================================================================
