--------------------------- MODULE ToolScheduler ---------------------------
(***************************************************************************)
(* executeToolCalls: the tool calls of one assistant step, numbered in     *)
(* model order, run through exclusive barriers and a bounded parallel      *)
(* pool, and the recovery that answers the calls a failed step or a crash  *)
(* left without a result.                                                  *)
(*                                                                         *)
(* pc is the await the scheduler is suspended at; the dispatched bodies    *)
(* and the abort signal move on their own in between.  Whether a result    *)
(* concludes the turn is not kept: the driver takes either answer.         *)
(***************************************************************************)
EXTENDS Integers, Sequences, FiniteSets

CONSTANTS N,              \* calls in the assistant message
          MaxParallel,    \* maxParallelToolCalls
          Faults          \* what goes wrong around it

ASSUME SizeAssumption == N \in Nat \ {0} /\ MaxParallel \in Nat \ {0}
ASSUME FaultAssumption == Faults \subseteq {"stage", "dispatch", "crash"}

Calls == 1..N

VARIABLES
  pc,
  next,             \* first call of the current group (executeToolCalls)
  mode,             \* the group's execution mode
  last,             \* last call of the group
  nextToStart,      \* next call fillPool starts
  started,          \* last call whose tool/call is logged by this group
  committed,        \* next call to commit, in model order
  inFlight,         \* dispatches not yet collected by the race
  slot,             \* what waits to be committed: nothing, or which stage it needs
  code,             \* the result a slot holds
  body,             \* the dispatch promise: none, dispatched, running, settled
  schedulerFailure,
  aborted,          \* runGroup's local copy of the signal
  signalAborted,
  invoked,          \* calls whose tool body has been entered
  log,              \* tool/call and tool/result events of the step
  lost              \* a crash dropped the tail of the log

pool    == <<nextToStart, started, committed, inFlight>>
group   == <<next, mode, last>>
slots   == <<slot, code>>
tools   == <<body, invoked>>
signals == <<schedulerFailure, aborted, signalAborted>>
durable == <<log, lost>>
vars    == <<pc, group, pool, slots, tools, signals, durable>>

Point == {"classify", "fill", "prepare", "commit", "finalize", "race", "draining",
          "returned", "failed", "crashed", "closed"}
Code  == {"none", "ok", "error", "aborted", "abortedBefore"}
\* Results nobody produced: skipped by an abort, or recovered from the log.
Synthetic == {"skipped", "unknown", "notStarted"}

CallEvent(i)      == [type |-> "call", call |-> i, code |-> "none"]
ResultEvent(i, c) == [type |-> "result", call |-> i, code |-> c]
Event == {CallEvent(i) : i \in Calls}
           \cup {ResultEvent(i, c) : i \in Calls, c \in Code \cup Synthetic}

TypeOK ==
  /\ pc \in Point
  /\ next \in 1..(N + 1) /\ last \in 0..N /\ mode \in {"exclusive", "parallel"}
  /\ nextToStart \in 1..(N + 1) /\ started \in 0..N /\ committed \in 1..(N + 1)
  /\ inFlight \in SUBSET Calls
  /\ slot \in [Calls -> {"empty", "post", "final"}]
  /\ code \in [Calls -> Code]
  /\ body \in [Calls -> {"none", "dispatched", "running", "settled"}]
  /\ schedulerFailure \in BOOLEAN /\ aborted \in BOOLEAN /\ signalAborted \in BOOLEAN
  /\ invoked \in SUBSET Calls
  /\ log \in Seq(Event)
  /\ lost \in BOOLEAN

Init ==
  /\ pc = "classify"
  /\ next = 1 /\ last = 0 /\ mode = "exclusive"
  /\ nextToStart = 1 /\ started = 0 /\ committed = 1 /\ inFlight = {}
  /\ slot = [i \in Calls |-> "empty"] /\ code = [i \in Calls |-> "none"]
  /\ body = [i \in Calls |-> "none"] /\ invoked = {}
  /\ schedulerFailure = FALSE /\ aborted = FALSE /\ signalAborted \in BOOLEAN
  /\ log = <<>> /\ lost = FALSE

Logged(type, i) == \E k \in DOMAIN log : log[k].type = type /\ log[k].call = i

----------------------------------------------------------------------------
(* executeToolCalls and runGroup.                                          *)

\* The mode of the group's first call is read from the live registry.
Classify ==
  /\ pc = "classify"
  /\ IF next > N
     THEN pc' = "returned" /\ UNCHANGED <<group, pool, aborted>>
     ELSE /\ mode' \in {"exclusive", "parallel"}
          /\ last' = IF mode' = "parallel" THEN N ELSE next
          /\ nextToStart' = next /\ started' = next - 1 /\ committed' = next
          /\ inFlight' = {}
          /\ aborted' = signalAborted
          /\ pc' = "fill"
          /\ UNCHANGED next
  /\ UNCHANGED <<slots, tools, schedulerFailure, signalAborted, durable>>

HasRoom == ~aborted /\ nextToStart <= last /\ Cardinality(inFlight) < MaxParallel

\* startCall, up to the await of the ordered pre-execute stage.
StartCall ==
  /\ pc = "fill"
  /\ HasRoom
  /\ log' = Append(log, CallEvent(nextToStart))
  /\ started' = nextToStart
  /\ pc' = "prepare"
  /\ UNCHANGED <<group, nextToStart, committed, inFlight, slots, tools, signals, lost>>

\* fillPool stops: no room, or the next call is no longer parallel.
PoolFilled ==
  \/ ~HasRoom
  \/ mode = "parallel" /\ nextToStart > next

AwaitSettlement ==
  /\ pc = "fill" /\ PoolFilled
  /\ inFlight # {}
  /\ pc' = "race"
  /\ UNCHANGED <<group, pool, slots, tools, signals, durable>>

SkippedPairReversed(i) == <<ResultEvent(i, "skipped"), CallEvent(i)>>

\* The synthetic pair of one call skipped after the abort, and those of a run of them.
SkippedPair(i) == <<CallEvent(i), ResultEvent(i, "skipped")>>
SkippedPairs(first, end) ==
  [k \in 1..2 * (end + 1 - first) |-> SkippedPair(first + (k - 1) \div 2)[((k - 1) % 2) + 1]]

\* runGroup returns: an aborted group answers every call that did not start, in
\* the group and, through executeToolCalls, after it.
EndGroup ==
  /\ pc = "fill" /\ PoolFilled
  /\ inFlight = {}
  /\ IF aborted
     THEN /\ log' = log \o SkippedPairs(started + 1, N)
          /\ pc' = "returned"
          /\ UNCHANGED next
     ELSE /\ next' = started + 1
          /\ pc' = "classify"
          /\ UNCHANGED log
  /\ UNCHANGED <<mode, last, pool, slots, tools, signals, lost>>


\* throwSchedulerFailure after the await of prepare.
GoOn == ~schedulerFailure

\* The pre-execute stage of the call being started settles: it dispatches the
\* call, or decides its result.  Cancellation may have decided it, too.
Prepare ==
  /\ pc = "prepare"
  /\ IF ~GoOn
     THEN pc' = "draining" /\ UNCHANGED <<nextToStart, inFlight, slots, body>>
     ELSE /\ nextToStart' = nextToStart + 1
          /\ pc' = "commit"
          /\ \/ /\ body' = [body EXCEPT ![nextToStart] = "dispatched"]
                /\ inFlight' = inFlight \cup {nextToStart}
                /\ UNCHANGED slots
             \/ /\ slot' = [slot EXCEPT ![nextToStart] = "post"]
                /\ \E c \in {"error", "abortedBefore"} : code' = [code EXCEPT ![nextToStart] = c]
                /\ UNCHANGED <<body, inFlight>>
             \/ /\ slot' = [slot EXCEPT ![nextToStart] = "final"]
                /\ \E c \in {"error"} \cup (IF signalAborted THEN {"abortedBefore"} ELSE {}) :
                     code' = [code EXCEPT ![nextToStart] = c]
                /\ UNCHANGED <<body, inFlight>>
  /\ UNCHANGED <<group, started, committed, invoked, signals, durable>>

\* The registry stage itself fails, in prepare, finalize or a commit.
StageFails ==
  /\ "stage" \in Faults
  /\ pc \in {"prepare", "commit", "finalize"}
  /\ schedulerFailure' = TRUE
  /\ pc' = "draining"
  /\ UNCHANGED <<group, pool, slots, tools, aborted, signalAborted, durable>>

Ready == committed <= last /\ slot[committed] # "empty"

\* The result of one committed call is logged; its slot is not read again.
CommitResult(c) ==
  /\ log' = Append(log, ResultEvent(committed, c))
  /\ slot' = [slot EXCEPT ![committed] = "empty"]
  /\ code' = [code EXCEPT ![committed] = "none"]
  /\ committed' = committed + 1
  /\ pc' = "commit"
  /\ UNCHANGED <<group, nextToStart, started, inFlight, tools, signals, lost>>

\* commitReady: the next contiguous slot goes to its last stage.
FinishSlot ==
  /\ pc = "commit" /\ Ready /\ slot[committed] = "final"
  /\ CommitResult(code[committed])

AwaitFinalize ==
  /\ pc = "commit" /\ Ready /\ slot[committed] = "post"
  /\ pc' = "finalize"
  /\ UNCHANGED <<group, pool, slots, tools, signals, durable>>

CancelledAsUnrun(i) == "abortedBefore"

\* cancellationResult: did the body of the call start?
Cancelled(i) == IF i \in invoked THEN "aborted" ELSE "abortedBefore"

\* post-execute may turn a result into an error; a cancelled call whose result
\* is not an error already is reported as aborted, before or in its body.
Finalize ==
  /\ pc = "finalize"
  /\ \E c \in {code[committed], "error"} :
       CommitResult(IF signalAborted /\ c = "ok" THEN Cancelled(committed) ELSE c)

\* commitReady returns to fillPool, by way of the failure and abort checks.
CommitDone ==
  /\ pc = "commit" /\ ~Ready
  /\ IF schedulerFailure
     THEN pc' = "draining" /\ UNCHANGED aborted
     ELSE pc' = "fill" /\ aborted' = (aborted \/ signalAborted)
  /\ UNCHANGED <<group, pool, slots, tools, schedulerFailure, signalAborted, durable>>

\* Promise.race hands over one settled dispatch.
Race ==
  /\ pc = "race"
  /\ \E i \in inFlight :
       /\ body[i] = "settled"
       /\ inFlight' = inFlight \ {i}
  /\ pc' = IF schedulerFailure THEN "draining" ELSE "commit"
  /\ UNCHANGED <<group, nextToStart, started, committed, slots, tools, signals, durable>>

DrainAtOnce ==
  /\ pc = "draining"
  /\ pc' = "failed"
  /\ UNCHANGED <<group, pool, slots, tools, signals, durable>>

DrainCollected ==
  /\ pc = "draining"
  /\ inFlight = {}
  /\ pc' = "failed"
  /\ UNCHANGED <<group, pool, slots, tools, signals, durable>>

\* Promise.allSettled, then the rejection reaches the step.
Drain ==
  /\ pc = "draining"
  /\ \A i \in inFlight : body[i] = "settled"
  /\ pc' = "failed"
  /\ UNCHANGED <<group, pool, slots, tools, signals, durable>>

----------------------------------------------------------------------------
(* What runs beside the scheduler.                                         *)


\* dispatchToolBody: the signal is checked just before the body is entered.
EnterBody(i) ==
  /\ pc \notin {"crashed", "closed"}
  /\ body[i] = "dispatched" /\ ~signalAborted
  /\ body' = [body EXCEPT ![i] = "running"]
  /\ invoked' = invoked \cup {i}
  /\ UNCHANGED <<pc, group, pool, slots, signals, durable>>

Settle(i, stage, c) ==
  /\ pc \notin {"crashed", "closed"}
  /\ body' = [body EXCEPT ![i] = "settled"]
  /\ slot' = [slot EXCEPT ![i] = stage]
  /\ code' = [code EXCEPT ![i] = c]
  /\ UNCHANGED <<pc, group, pool, invoked, signals, durable>>

\* The dispatch settles without a body: cancelled, unknown tool, or a wrapper
\* that failed or answered in its place.
SettleUnentered(i) ==
  /\ body[i] = "dispatched"
  /\ \/ Settle(i, "post", IF signalAborted THEN Cancelled(i) ELSE "ok")
     \/ \E stage \in {"post", "final"} : Settle(i, stage, "error")

\* The body settles; a success that raced the abort is reported as aborted.
SettleBody(i) ==
  /\ body[i] = "running"
  /\ \/ Settle(i, "post", IF signalAborted THEN Cancelled(i) ELSE "ok")
     \/ \E stage \in {"post", "final"} : Settle(i, stage, "error")

\* A dispatch that rejects instead of settling is a scheduler failure.
RejectDispatch(i) ==
  /\ "dispatch" \in Faults
  /\ pc \notin {"crashed", "closed"}
  /\ body[i] \in {"dispatched", "running"}
  /\ body' = [body EXCEPT ![i] = "settled"]
  /\ schedulerFailure' = TRUE
  /\ UNCHANGED <<pc, group, pool, slots, invoked, aborted, signalAborted, durable>>

Abort ==
  /\ pc \notin {"crashed", "closed"}
  /\ ~signalAborted
  /\ signalAborted' = TRUE
  /\ UNCHANGED <<pc, group, pool, slots, tools, schedulerFailure, aborted, durable>>

----------------------------------------------------------------------------
(* The end of the step.                                                    *)

\* Nothing the scheduler remembers matters any more.
Rest ==
  /\ next' = 1 /\ last' = 0 /\ mode' = "exclusive"
  /\ nextToStart' = 1 /\ started' = 0 /\ committed' = 1 /\ inFlight' = {}
  /\ slot' = [i \in Calls |-> "empty"] /\ code' = [i \in Calls |-> "none"]
  /\ body' = [i \in Calls |-> "none"]
  /\ schedulerFailure' = FALSE /\ aborted' = FALSE /\ signalAborted' = FALSE

RecoveryOfStarted ==
  LET answers[i \in 0..N] ==
        IF i = 0 THEN <<>>
        ELSE IF Logged("result", i) \/ ~Logged("call", i) THEN answers[i - 1]
        ELSE Append(answers[i - 1], ResultEvent(i, "unknown"))
  IN answers[N]

\* ToolCallRecovery.results: one error result per unanswered call, in order,
\* saying whether the log had recorded the call as started.
Recovery ==
  LET answers[i \in 0..N] ==
        IF i = 0 THEN <<>>
        ELSE IF Logged("result", i) THEN answers[i - 1]
        ELSE Append(answers[i - 1],
                    ResultEvent(i, IF Logged("call", i) THEN "unknown" ELSE "notStarted"))
  IN answers[N]

\* A step whose calls returned closes as it is; a failed one, or one found open
\* in a log read back after a crash, is answered first.
CloseStep ==
  /\ pc \in {"returned", "failed", "crashed"}
  /\ log' = IF pc = "returned" THEN log ELSE log \o Recovery
  /\ pc' = "closed"
  /\ Rest
  /\ UNCHANGED <<invoked, lost>>

\* The process dies: its memory is gone, and with it what the write-behind
\* window still held of the log.
Crash ==
  /\ "crash" \in Faults
  /\ pc \notin {"crashed", "closed"}
  /\ \E k \in 0..Len(log) :
       /\ log' = SubSeq(log, 1, k)
       /\ lost' = (k # Len(log))
  /\ pc' = "crashed"
  /\ Rest
  /\ UNCHANGED invoked

----------------------------------------------------------------------------

Scheduler ==
  \/ Classify \/ StartCall \/ AwaitSettlement \/ EndGroup \/ Prepare \/ FinishSlot
  \/ AwaitFinalize \/ Finalize \/ CommitDone \/ Race \/ Drain \/ CloseStep

Bodies == \E i \in Calls : EnterBody(i) \/ SettleUnentered(i) \/ SettleBody(i)

Next ==
  \/ Scheduler \/ Bodies \/ StageFails \/ Abort \/ Crash
  \/ \E i \in Calls : RejectDispatch(i)

Spec == Init /\ [][Next]_vars

\* Dispatches settle and the scheduler's awaits with them.
FairSpec == Spec /\ WF_vars(Scheduler) /\ \A i \in Calls : WF_vars(SettleUnentered(i) \/ SettleBody(i))

----------------------------------------------------------------------------

Live == {i \in Calls : body[i] \in {"dispatched", "running"}}
Positions(type) == {k \in DOMAIN log : log[k].type = type}

\* Every result follows the ones of the calls before it, no call is answered or
\* recorded twice, and a result that cites a call comes after that call.
ResultsInModelOrder ==
  /\ \A j, k \in Positions("result") : j < k => log[j].call < log[k].call
  /\ \A j, k \in Positions("call") : j < k => log[j].call < log[k].call
  /\ \A k \in Positions("result") :
       log[k].code # "notStarted" => \E j \in Positions("call") : j < k /\ log[j].call = log[k].call

\* The step never closes over an unanswered call, whichever of abort, scheduler
\* failure or crash ended it: a provider refuses such a history.
ClosedIsAnswered == pc = "closed" => \A i \in Calls : Logged("result", i)

\* The scheduler returns or rejects only when every body it entered is over.
Quiescent == pc \in {"returned", "failed", "closed", "classify"} => Live = {}

\* A call reported as not having run did not run, unless the crash that hid it
\* lost the record of its start.
UnrunIsHonest ==
  ~lost => \A k \in Positions("result") :
    log[k].code \in {"abortedBefore", "skipped", "notStarted"} => log[k].call \notin invoked

\* Every step closes, whatever fails: no barrier, pool slot or drain waits for
\* a call that cannot settle.
StepCloses == <>(pc = "closed")
=============================================================================
