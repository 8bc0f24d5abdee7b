---------------------------- MODULE AgentDriver ----------------------------
(***************************************************************************)
(* ReactLoopAgent: one driver that walks a session through turns and steps *)
(* while other code sends to its inbox, cancels it and claims it for       *)
(* maintenance.  JavaScript runs one piece of code at a time, so a step of *)
(* this module is the code between two points where other code can run,    *)
(* and pc names the point the driver has reached:                          *)
(*                                                                         *)
(*   - an await (assemble, preStep, request, stream, requestError, tools,  *)
(*     stopping) or the microtask between an async return and its awaiting *)
(*     caller (decided, stepReturned, thrown, nextTurn, settled): any      *)
(*     other call may run there;                                           *)
(*   - an agent/* notification (starting, reporting, idleStatus): its      *)
(*     listeners may call the agent back;                                  *)
(*   - a session append (AppendPoints): its observers may call back, but   *)
(*     Session refuses an append made there.                               *)
(*                                                                         *)
(* A call that notifies listeners before it is finished waits for them on  *)
(* the stack, below whatever they call: a waking send before wakeDriver, a *)
(* clearing cancel after each of its two splices, and a wake whose driver  *)
(* has not yet reached its first await.                                    *)
(***************************************************************************)
EXTENDS Inbox

CONSTANTS Message,      \* identities of user messages, each sent at most once
          Cause,        \* the causes cancel is called with
          Disposed,     \* the cause teardown uses
          NoCause,      \* the signal is not aborted
          Sends,        \* the <<target, wakeup>> pairs that are sent
          Cancels       \* the <<cause, keepInbox>> pairs of cancel calls

ASSUME CauseAssumption == NoCause \notin Cause /\ Disposed # NoCause
ASSUME CallsAssumption == Sends \subseteq (Target \X BOOLEAN) /\ Cancels \subseteq (Cause \X BOOLEAN)

VARIABLES
  inbox,          \* the inbox projection
  fate,           \* what the session log records of each message
  phase,          \* Phase.kind
  abort,          \* the reason of the activity's AbortController
  wakeRequested,  \* the wake latched in the phase
  disposing,      \* cancel({disposed}) has been called on this activity
  pc,             \* where the driver is suspended
  step,           \* Phase.step, of which only zero or not is told apart
  target,         \* turn()'s local target
  turnEnds,       \* turn()'s local turnEnds
  returned,       \* the value an awaited call has returned to the driver
  batch,          \* the messages claimed for the proposed step
  turnOpen,       \* the log holds a turn/start without its turn/end
  stepOpen,       \* the log holds a step/start without its step/end
  toolsOwed,      \* logged tool results that no model request has carried
  stack,          \* the calls that wait for their listeners, innermost first
  replay          \* kick's local wakeRequested during its finally block

mail  == <<inbox, fate>>
activity == <<phase, abort, wakeRequested, disposing>>
local == <<target, turnEnds, returned, batch>>
log   == <<turnOpen, stepOpen, toolsOwed>>
calls == <<stack, replay>>
vars  == <<mail, activity, pc, step, local, log, calls>>

Fate   == {"unsent", "pending", "claimed", "admitted", "canceled", "dropped"}
Phase  == {"idle", "maintenance", "running"}
Ending == {"none", "completed", "max-tokens", "blocked", "aborted", "error"}
Value  == {"none", "reject", "empty", "enter", "completed", "max-tokens", "continue"}
AppendPoints == {"turnOpened", "claiming", "stepOpened", "admitting", "stepClosed",
                 "unwinding", "turnClosed"}
Point  == AppendPoints \cup
          {"none", "starting", "assemble", "preStep", "decided", "request", "stream",
           "requestError", "tools", "stepReturned", "stopping", "thrown", "reporting",
           "nextTurn", "settled", "idleStatus"}

\* Where a new driver is before its first await, still inside its caller's wake.
EntryPoints == {"starting", "turnOpened", "claiming"}

\* A waking send whose message is in, by the classification it took; a clear
\* that has emptied next-step (steps) or both lists (prompts), with the cause its
\* cancel goes on to use; a wake whose driver has not reached an await (drive).
Frame == [at : {"live", "afterAbort", "steps", "prompts", "drive"}, cause : Cause \cup {NoCause}]
Clearing == \E k \in DOMAIN stack : stack[k].at \in {"steps", "prompts"}

TypeOK ==
  /\ inbox \in [Target -> Seq(Message)]
  /\ fate \in [Message -> Fate]
  /\ phase \in Phase
  /\ abort \in Cause \cup {NoCause}
  /\ wakeRequested \in BOOLEAN /\ disposing \in BOOLEAN
  /\ pc \in Point
  /\ step \in {0, 1}
  /\ target \in Target
  /\ turnEnds \in Ending
  /\ returned \in Value
  /\ batch \in SUBSET Message
  /\ turnOpen \in BOOLEAN /\ stepOpen \in BOOLEAN /\ toolsOwed \in BOOLEAN
  /\ stack \in Seq(Frame)
  /\ replay \in BOOLEAN

Init ==
  /\ inbox = EmptyInbox
  /\ fate = [m \in Message |-> "unsent"]
  /\ phase = "idle" /\ abort = NoCause /\ wakeRequested = FALSE /\ disposing = FALSE
  /\ pc = "none"
  /\ step = 0
  /\ target = NextTurn /\ turnEnds = "none" /\ returned = "none" /\ batch = {}
  /\ turnOpen = FALSE /\ stepOpen = FALSE /\ toolsOwed = FALSE
  /\ stack = <<>> /\ replay = FALSE

Aborted == abort # NoCause
Mark(S, f) == [m \in Message |-> IF m \in S THEN f ELSE fate[m]]

----------------------------------------------------------------------------
(* Calls other code makes on the agent.                                    *)

\* The session accepts appends: no append of the driver is being observed.
Callable == pc \notin AppendPoints

Waiting(at) == stack # <<>> /\ Head(stack).at = at
Push(at, cause) == stack' = <<[at |-> at, cause |-> cause]>> \o stack

FreshActivityKeepsWake == abort' = NoCause /\ disposing' = FALSE /\ UNCHANGED wakeRequested
FreshActivityKeepsSignal == wakeRequested' = FALSE /\ disposing' = FALSE /\ UNCHANGED abort

\* An idle phase, or a phase with an AbortController of its own.
FreshActivity == abort' = NoCause /\ wakeRequested' = FALSE /\ disposing' = FALSE

\* The part of wakeDriver that reserves the phase and announces it; kick
\* follows once the agent/status listeners have returned, and the call that
\* woke the driver once it awaits.
StartDriver(callers) ==
  /\ phase' = "running" /\ FreshActivity
  /\ step' = 0
  /\ pc' = "starting"
  /\ replay' = FALSE
  /\ stack' = <<[at |-> "drive", cause |-> NoCause]>> \o callers

\* send(): the classification is taken before the splice and kept for the wake.
Send(m, to, wakeup) ==
  /\ Callable
  /\ fate[m] = "unsent"
  /\ <<to, wakeup>> \in Sends
  /\ LET wakingAfterAbort == wakeup /\ phase # "idle" /\ Aborted
         resolved == IF wakingAfterAbort THEN NextTurn ELSE to
     IN /\ inbox' = [inbox EXCEPT ![resolved] = Append(@, m)]
        /\ IF wakeup THEN Push(IF wakingAfterAbort THEN "afterAbort" ELSE "live", NoCause)
                     ELSE UNCHANGED stack
  /\ fate' = Mark({m}, "pending")
  /\ UNCHANGED <<activity, pc, step, local, log, replay>>

\* wakeDriver() at the end of a waking send, when its listeners have returned.
WakeDriver ==
  /\ Waiting("live") \/ Waiting("afterAbort")
  /\ IF phase = "idle"
     THEN StartDriver(Tail(stack))
     ELSE /\ wakeRequested' =
               (wakeRequested \/ (abort # Disposed /\ (phase = "maintenance" \/ Waiting("afterAbort"))))
          /\ stack' = Tail(stack)
          /\ UNCHANGED <<phase, abort, disposing, step, pc, replay>>
  /\ UNCHANGED <<mail, local, log>>

\* AbortController.abort: an aborted signal keeps its reason.
FirstCause(cause) == IF phase # "idle" /\ ~Aborted THEN cause ELSE abort

\* The end of cancel(): it signals the phase it finds now.
Signal(cause) ==
  /\ abort' = FirstCause(cause)
  /\ disposing' = (disposing \/ (phase # "idle" /\ cause = Disposed))

\* One splice of clear(): the discarded listeners run before it goes on.
ClearList(t) ==
  /\ inbox' = [inbox EXCEPT ![t] = <<>>]
  /\ fate' = Mark(Range(inbox[t]), "canceled")
  /\ UNCHANGED activity

\* cancel(): inside a session append, clearing a non-empty inbox throws first.
Cancel(cause, keepInbox) ==
  /\ <<cause, keepInbox>> \in Cancels
  /\ pc \in AppendPoints => keepInbox \/ ~HasPending(inbox)
  /\ \/ /\ keepInbox \/ ~HasPending(inbox)
        /\ Signal(cause)
        /\ wakeRequested' = (wakeRequested /\ keepInbox)
        /\ UNCHANGED <<mail, phase, stack>>
     \/ /\ ~keepInbox /\ inbox[NextStep] # <<>>
        /\ ClearList(NextStep) /\ Push("steps", cause)
     \/ /\ ~keepInbox /\ inbox[NextStep] = <<>> /\ inbox[NextTurn] # <<>>
        /\ ClearList(NextTurn) /\ Push("prompts", cause)
  /\ UNCHANGED <<pc, step, local, log, replay>>

\* clear() goes on to the next-turn list, as its listeners have left it.
ClearPrompts ==
  /\ Waiting("steps") /\ inbox[NextTurn] # <<>>
  /\ ClearList(NextTurn)
  /\ stack' = [stack EXCEPT ![1].at = "prompts"]
  /\ UNCHANGED <<pc, step, local, log, replay>>

\* The tail of a clearing cancel().
FinishCancel ==
  /\ Waiting("prompts") \/ (Waiting("steps") /\ inbox[NextTurn] = <<>>)
  /\ Signal(Head(stack).cause)
  /\ wakeRequested' = FALSE
  /\ stack' = Tail(stack)
  /\ UNCHANGED <<mail, phase, pc, step, local, log, replay>>

\* inbox.remove() of one pending message.
Remove(t, i) ==
  /\ Callable
  /\ inbox' = [inbox EXCEPT ![t] = Spliced(@, i - 1, 1, <<>>)]
  /\ fate' = Mark({inbox[t][i]}, "canceled")
  /\ UNCHANGED <<activity, pc, step, local, log, calls>>

\* inbox.replace() of one pending message by a new one.
Replace(t, i, m) ==
  /\ Callable
  /\ fate[m] = "unsent"
  /\ inbox' = [inbox EXCEPT ![t] = Spliced(@, i - 1, 1, <<m>>)]
  /\ fate' = [Mark({inbox[t][i]}, "canceled") EXCEPT ![m] = "pending"]
  /\ UNCHANGED <<activity, pc, step, local, log, calls>>

StartMaintenance ==
  /\ Callable
  /\ phase = "idle"
  /\ phase' = "maintenance" /\ FreshActivity
  /\ UNCHANGED <<mail, pc, step, local, log, calls>>

\* The driver is at one of these points and no call is under way.
At(points) == pc \in points /\ stack = <<>>

\* The finally block of runMaintenance.
SettleMaintenance ==
  /\ At({"none"}) /\ phase = "maintenance"
  /\ IF abort # Disposed /\ wakeRequested /\ HasPending(inbox)
     THEN StartDriver(<<>>)
     ELSE /\ phase' = "idle" /\ FreshActivity
          /\ UNCHANGED <<step, pc, calls>>
  /\ UNCHANGED <<mail, local, log>>

----------------------------------------------------------------------------
(* The driver: kick, turn and step.                                        *)

\* The start of a driver runs inside its caller; when it comes to an await, or
\* returns, the caller goes on.
Entering(points) == pc \in points /\ (stack = <<>> \/ Waiting("drive"))
Entered == stack' = IF pc' \in EntryPoints \/ stack = <<>> THEN stack ELSE Tail(stack)

\* The start of turn(): a signal aborted before it rejects without a turn.
OpenTurn ==
  /\ Entering({"starting", "nextTurn"})
  /\ IF Aborted
     THEN pc' = "settled" /\ UNCHANGED <<target, turnEnds, turnOpen>>
     ELSE /\ pc' = "turnOpened"
          /\ target' = NextTurn /\ turnEnds' = "none"
          /\ turnOpen' = TRUE
  /\ Entered
  /\ UNCHANGED <<mail, activity, step, returned, batch, stepOpen, toolsOwed, replay>>

\* inbox.claim() at the head of preStep: a splice of each list it takes from.
\* Between two of them the observers of the first append run.
ClaimFor(t) ==
  LET split == t = NextTurn /\ inbox[NextStep] # <<>> /\ inbox[NextTurn] # <<>>
      now   == IF split THEN NextStep ELSE t
  IN /\ target' = t
     /\ batch' = batch \cup ClaimedBatch(inbox, now)
     /\ inbox' = AfterClaim(inbox, now)
     /\ fate' = Mark(ClaimedBatch(inbox, now), "claimed")
     /\ pc' = IF split THEN "claiming" ELSE "assemble"
     /\ UNCHANGED <<turnEnds, turnOpen>>

\* turn()'s catch block: an aborted turn closes at once, any other failure is
\* reported to agent/error listeners before the finally block closes the turn.
CatchTurn ==
  /\ batch' = {}
  /\ fate' = Mark(batch, "dropped")
  /\ IF Aborted
     THEN turnEnds' = "aborted" /\ turnOpen' = FALSE /\ pc' = "settled"
     ELSE turnEnds' = "error" /\ pc' = "reporting" /\ UNCHANGED turnOpen
  /\ UNCHANGED <<inbox, target>>

\* The finally block for a turn that returns before the queue is drained.
LeaveTurn(ending) ==
  /\ turnEnds' = ending
  /\ batch' = {}
  /\ fate' = Mark(batch, "dropped")
  /\ turnOpen' = FALSE
  /\ pc' = "settled"
  /\ UNCHANGED <<inbox, target>>

\* The finally block for a turn whose loop broke: kick asks for more work.
CloseTurn ==
  /\ turnOpen' = FALSE
  /\ pc' = "turnClosed"
  /\ UNCHANGED <<mail, target, turnEnds, batch>>

ClaimFirst ==
  /\ Entering({"turnOpened"})
  /\ IF Aborted THEN CatchTurn ELSE ClaimFor(NextTurn)
  /\ Entered
  /\ UNCHANGED <<activity, step, returned, stepOpen, toolsOwed, replay>>

\* claim() does not look at the signal between its splices.
ClaimPrompt ==
  /\ Entering({"claiming"})
  /\ ClaimFor(NextTurn)
  /\ Entered
  /\ UNCHANGED <<activity, step, returned, stepOpen, toolsOwed, replay>>

\* systemPrompt.assemble settles; the signal is checked before its result is used.
Assemble ==
  /\ At({"assemble"})
  /\ \/ pc' = "thrown"
     \/ ~Aborted /\ pc' = "preStep"
  /\ UNCHANGED <<mail, activity, step, local, log, calls>>

\* The agent/pre-step waterfall settles: it throws, rejects, or enters with some
\* of the claimed messages and possibly with messages that were never queued.
DecidePreStep ==
  /\ At({"preStep"})
  /\ \/ pc' = "thrown" /\ UNCHANGED <<returned, batch, fate>>
     \/ /\ ~Aborted
        /\ pc' = "decided" /\ returned' = "reject"
        /\ UNCHANGED <<batch, fate>>
     \/ /\ ~Aborted
        /\ pc' = "decided"
        /\ \E kept \in SUBSET batch, added \in BOOLEAN :
             /\ batch' = kept
             /\ fate' = Mark(batch \ kept, "dropped")
             /\ returned' = IF kept = {} /\ ~added THEN "empty" ELSE "enter"
  /\ UNCHANGED <<inbox, activity, step, target, turnEnds, log, calls>>

\* The turn resumes with the decision.
EnterStep ==
  /\ At({"decided"})
  /\ \/ /\ returned = "reject"
        /\ LeaveTurn("blocked") /\ UNCHANGED <<step, stepOpen>>
     \/ /\ returned = "empty" /\ turnEnds # "none"
        /\ CloseTurn /\ UNCHANGED <<step, stepOpen>>
     \/ /\ returned = "empty" /\ turnEnds = "none" /\ step = 0
        /\ LeaveTurn("completed") /\ UNCHANGED <<step, stepOpen>>
     \/ /\ returned = "enter" \/ (returned = "empty" /\ turnEnds = "none" /\ step # 0)
        /\ IF Aborted
           THEN CatchTurn /\ UNCHANGED <<step, stepOpen>>
           ELSE /\ stepOpen' = TRUE
                /\ step' = 1
                /\ pc' = "stepOpened"
                /\ UNCHANGED <<mail, target, turnEnds, batch, turnOpen>>
  /\ UNCHANGED <<activity, returned, toolsOwed, calls>>

BeginStep ==
  /\ At({"stepOpened"})
  /\ pc' = IF Aborted THEN "thrown" ELSE "request"
  /\ UNCHANGED <<mail, activity, step, local, log, calls>>

PrepareRequestUnguarded ==
  /\ At({"request"})
  /\ pc' \in {"thrown", "admitting"}
  /\ UNCHANGED <<mail, activity, step, local, log, calls>>

\* prepareRequest settles; only then are the messages of the step admitted.
PrepareRequest ==
  /\ At({"request"})
  /\ pc' \in {"thrown"} \cup (IF Aborted THEN {} ELSE {"admitting"})
  /\ UNCHANGED <<mail, activity, step, local, log, calls>>

\* The system/message and user/message events are appended one by one, with no
\* look at the signal in between.
AdmitMessage(m) ==
  /\ At({"admitting"})
  /\ fate' = Mark({m}, "admitted")
  /\ batch' = batch \ {m}
  /\ UNCHANGED <<inbox, activity, pc, step, target, turnEnds, returned, log, calls>>

\* buildRequest checks the signal once more before the model is called.
BuildRequest ==
  /\ At({"admitting"}) /\ batch = {}
  /\ \/ pc' = "thrown" /\ UNCHANGED toolsOwed
     \/ ~Aborted /\ pc' = "stream" /\ toolsOwed' = FALSE
  /\ UNCHANGED <<mail, activity, step, local, turnOpen, stepOpen, calls>>

\* The model stream ends.  An aborted one always throws, after its durable
\* settlement; one that finished with an error asks agent/request-error.
Stream ==
  /\ At({"stream"})
  /\ \/ pc' = "thrown" /\ UNCHANGED returned
     \/ ~Aborted /\ pc' = "requestError" /\ UNCHANGED returned
     \/ ~Aborted /\ pc' = "stepReturned" /\ returned' \in {"completed", "max-tokens"}
     \/ ~Aborted /\ pc' = "tools" /\ UNCHANGED returned
  /\ UNCHANGED <<mail, activity, step, target, turnEnds, batch, log, calls>>

RecoverRequest ==
  /\ At({"requestError"})
  /\ pc' \in {"thrown"} \cup (IF Aborted THEN {} ELSE {"request"})
  /\ UNCHANGED <<mail, activity, step, local, log, calls>>

\* A committed tool result hands its context to the next step boundary.
AcceptContext(m) ==
  /\ At({"tools"})
  /\ fate[m] = "unsent"
  /\ inbox' = [inbox EXCEPT ![NextStep] = Append(@, m)]
  /\ fate' = Mark({m}, "pending")
  /\ UNCHANGED <<activity, pc, step, local, log, calls>>

\* executeToolCalls settles: it returns for an abort too, with every call
\* answered, and throws only for a scheduler failure.
SettleTools ==
  /\ At({"tools"})
  /\ \/ pc' = "thrown" /\ UNCHANGED <<returned, toolsOwed>>
     \/ /\ pc' = "stepReturned"
        /\ returned' \in {"completed", "continue"}
        /\ toolsOwed' = (returned' = "continue")
  /\ UNCHANGED <<mail, activity, step, target, turnEnds, batch, turnOpen, stepOpen, calls>>

\* turnEnds after a step: the output ceiling is kept for the rest of the turn.
StepEnding(ending, value) ==
  IF ending = "max-tokens" THEN ending
  ELSE IF value = "continue" THEN "none"
  ELSE value

CloseStep ==
  /\ At({"stepReturned"})
  /\ turnEnds' = StepEnding(turnEnds, returned)
  /\ stepOpen' = FALSE
  /\ pc' = "stepClosed"
  /\ UNCHANGED <<mail, activity, step, target, returned, batch, turnOpen, toolsOwed, calls>>

AfterStep ==
  /\ At({"stepClosed"})
  /\ IF Aborted THEN CatchTurn
     ELSE IF turnEnds # "none" /\ inbox[NextStep] = <<>>
          THEN pc' = "stopping" /\ UNCHANGED <<mail, target, turnEnds, batch, turnOpen>>
          ELSE ClaimFor(NextStep)
  /\ UNCHANGED <<activity, step, returned, stepOpen, toolsOwed, calls>>

\* The agent/turn-stopping listeners settle or throw.
StopTurn ==
  /\ At({"stopping"})
  /\ \/ CatchTurn
     \/ ~Aborted /\ inbox[NextStep] = <<>> /\ CloseTurn
     \/ ~Aborted /\ inbox[NextStep] # <<>> /\ ClaimFor(NextStep)
  /\ UNCHANGED <<activity, step, returned, stepOpen, toolsOwed, calls>>

\* turn() resumes with a failed step: it answers the open calls and closes the step.
UnwindStep ==
  /\ At({"thrown"}) /\ stepOpen
  /\ stepOpen' = FALSE
  /\ pc' = "unwinding"
  /\ UNCHANGED <<mail, activity, step, local, turnOpen, toolsOwed, calls>>

CatchFailureUnclosed ==
  /\ At({"thrown", "unwinding"})
  /\ CatchTurn
  /\ UNCHANGED <<activity, step, returned, stepOpen, toolsOwed, calls>>

CatchFailureInStep ==
  /\ At({"unwinding"}) /\ ~stepOpen
  /\ CatchTurn
  /\ UNCHANGED <<activity, step, returned, stepOpen, toolsOwed, calls>>

CatchFailure ==
  /\ At({"thrown", "unwinding"}) /\ ~stepOpen
  /\ CatchTurn
  /\ UNCHANGED <<activity, step, returned, stepOpen, toolsOwed, calls>>

ReportFailure ==
  /\ At({"reporting"})
  /\ turnOpen' = FALSE
  /\ pc' = "settled"
  /\ UNCHANGED <<mail, activity, step, local, stepOpen, toolsOwed, calls>>

\* The tail of turn(): pending work keeps the driver, with a fresh signal.
DrainOrStop ==
  /\ At({"turnClosed"})
  /\ IF HasPending(inbox)
     THEN /\ FreshActivity
          /\ step' = 0
          /\ pc' = "nextTurn"
     ELSE pc' = "settled" /\ UNCHANGED <<abort, wakeRequested, disposing, step>>
  /\ UNCHANGED <<mail, phase, local, log, calls>>

\* kick's finally block up to the agent/status notification it emits.
Retire ==
  /\ At({"settled"})
  /\ phase' = "idle" /\ FreshActivity
  /\ replay' = wakeRequested
  /\ pc' = "idleStatus"
  /\ UNCHANGED <<mail, step, local, log, stack>>

ReplayDuePrompts == replay /\ inbox[NextTurn] # <<>>

ReplayDue == replay /\ HasPending(inbox)

\* The rest of it: the latched wake is replayed if its work is still queued.
ReplayWake ==
  /\ At({"idleStatus"})
  /\ IF ReplayDue /\ phase = "idle"
     THEN StartDriver(<<>>)
     ELSE /\ pc' = "none" /\ replay' = FALSE
          /\ wakeRequested' =
               (wakeRequested \/ (ReplayDue /\ phase = "maintenance" /\ abort # Disposed))
          /\ UNCHANGED <<phase, abort, disposing, step, stack>>
  /\ UNCHANGED <<mail, local, log>>

----------------------------------------------------------------------------

Driver ==
  \/ OpenTurn \/ ClaimFirst \/ ClaimPrompt \/ Assemble \/ DecidePreStep \/ EnterStep \/ BeginStep
  \/ PrepareRequest \/ (\E m \in batch : AdmitMessage(m)) \/ BuildRequest \/ Stream \/ RecoverRequest \/ SettleTools
  \/ CloseStep \/ AfterStep \/ StopTurn \/ UnwindStep \/ CatchFailure \/ ReportFailure
  \/ DrainOrStop \/ Retire \/ ReplayWake

Callers ==
  \/ \E m \in Message, t \in Target, w \in BOOLEAN : Send(m, t, w)
  \/ \E c \in Cause, keep \in BOOLEAN : Cancel(c, keep)
  \/ \E t \in Target : \E i \in DOMAIN inbox[t] : Remove(t, i)
  \/ \E t \in Target, m \in Message : \E i \in DOMAIN inbox[t] : Replace(t, i, m)
  \/ StartMaintenance
  \/ \E m \in Message : AcceptContext(m)

\* The calls on the stack go on when their listeners have returned.
Calls == WakeDriver \/ ClearPrompts \/ FinishCancel

Next == Calls \/ SettleMaintenance \/ Driver \/ Callers

Spec == Init /\ [][Next]_vars

\* Synchronous calls return, and the awaited listeners, requests, tools and
\* maintenance jobs settle: they are handed the signal for that purpose.
FairSpec == Spec /\ WF_vars(Calls) /\ WF_vars(SettleMaintenance) /\ WF_vars(Driver)

----------------------------------------------------------------------------
(* Safety.                                                                 *)

\* Every message is where the log says it is: pending in exactly one list and
\* once, or claimed by the one step being proposed, or finished with.
MessagesAccounted ==
  /\ UniquelyPending(inbox)
  /\ Pending(inbox) = {m \in Message : fate[m] = "pending"}
  /\ batch = {m \in Message : fate[m] = "claimed"}

\* However a turn ends, its boundaries are balanced in the log before the
\* agent shows itself idle, and no claimed message is left in between.
LogBalanced ==
  /\ stepOpen => turnOpen
  /\ phase # "running" => ~turnOpen /\ ~stepOpen /\ batch = {}

\* A wake is latched only behind work that cannot deliver it: a maintenance
\* task or an aborted driver.  A latch that outlived its signal would start a
\* driver for work a live one has already claimed.
LatchJustified ==
  wakeRequested => phase = "maintenance" \/ (phase = "running" /\ Aborted)

\* A turn that the log reports as completed has shown the model the results of
\* every tool it called, unless a tool concluded the turn.
CompletedOwesNothing ==
  pc = "turnClosed" /\ turnEnds = "completed" => ~toolsOwed

\* The first cause given to cancel stays the reason of the activity until the
\* activity is over.
FirstCauseWins ==
  [][Aborted /\ abort' # abort =>
       abort' = NoCause /\ pc' \in {"none", "idleStatus", "nextTurn", "starting"}]_vars

\* Once the signal is aborted the activity opens no turn or step, begins no claim
\* and no admission and calls no model, whatever callbacks the abort raced.  What
\* it takes or admits then is the rest of what was begun before the abort.
AbortStopsWork ==
  [][Aborted =>
       /\ turnOpen' => turnOpen
       /\ stepOpen' => stepOpen
       /\ pc' \in {"stream", "claiming", "admitting"} => pc' = pc
       /\ \A m \in Message :
            fate'[m] \in {"claimed", "admitted"} /\ fate'[m] # fate[m] =>
              pc \in {"claiming", "admitting"}]_vars

\* A latched wake is given up only for a live driver, an empty inbox, a disposal
\* or by the end of a cancel that has cleared the inbox: convergence never
\* forgets work it promised to run.
LatchNeverLost ==
  [][(wakeRequested \/ replay) /\ ~wakeRequested' /\ ~replay' =>
       \/ phase' = "running" /\ abort' = NoCause
       \/ ~HasPending(inbox')
       \/ abort = Disposed
       \/ Clearing]_vars

\* A queued prompt has its turn to itself: a turn takes at most one, and only
\* before its first step.
OnePromptPerTurn ==
  [][pc # "assemble" /\ pc' = "assemble" /\ inbox'[NextTurn] # inbox[NextTurn] =>
       step = 0 /\ inbox'[NextTurn] = Tail(inbox[NextTurn])]_vars

\* A turn that once hit the output ceiling is never reported as completed.
MaxTokensSticky ==
  [][turnOpen /\ turnEnds = "max-tokens" =>
       turnEnds' \in {"max-tokens", "blocked", "aborted", "error"}]_vars

Busy == CASE pc = "claiming" -> "taking" [] pc = "admitting" -> "admitting" [] OTHER -> "no"

\* The abstract promise about messages, which every step of the driver keeps.
Delivery == INSTANCE MessageDelivery WITH
  running  <- phase = "running",
  canceled <- Aborted,
  busy     <- Busy,
  pending  <- Pending(inbox),
  taken    <- batch,
  admitted <- {m \in Message : fate[m] = "admitted"},
  lost     <- {m \in Message : fate[m] \in {"canceled", "dropped"}}

\* The driver implements MessageDelivery.
DeliveryKept == Delivery!Spec

----------------------------------------------------------------------------
(* Liveness.                                                               *)

\* A cancelled activity is over eventually: the agent leaves the aborted phase.
AbortConverges == Aborted ~> ~Aborted

\* A latched wake starts a live driver, unless its work is withdrawn, by a
\* clearing cancel too, or the agent is disposed meanwhile.
LatchServed ==
  wakeRequested /\ HasPending(inbox) ~>
     \/ phase = "running" /\ ~Aborted
     \/ ~HasPending(inbox) \/ Clearing
     \/ abort = Disposed

Kept(m, t) == m \in Range(inbox[t]) /\ phase = "running"

\* A driver whose steps end starves no steering message, and one whose turns end
\* no queued prompt either: it is taken or withdrawn, or the agent goes idle.
InboxServed ==
  /\ []<>~stepOpen => \A m \in Message : Kept(m, NextStep) ~> ~Kept(m, NextStep)
  /\ []<>~turnOpen => \A m \in Message : Kept(m, NextTurn) ~> ~Kept(m, NextTurn)

----------------------------------------------------------------------------
(* Statements of the repository that the code does not keep.               *)

\* agent.ts:217-218, "disposal never latches, so teardown waits on no model turn":
\* once an activity has been cancelled as disposed, no wake is latched behind it.
DisposalNeverLatches ==
  [][disposing /\ wakeRequested' /\ HasPending(inbox') => wakeRequested]_vars
=============================================================================
