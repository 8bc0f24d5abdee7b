----------------------------- MODULE JobProofs -----------------------------
(***************************************************************************)
(* JobRegistry for any jobs, agents, calls and limits: types, and that     *)
(* waits, notices and teardowns account for every job.                     *)
(***************************************************************************)
EXTENDS JobRegistry, FiniteSetTheorems, NaturalsInduction, WellFoundedInduction, TLAPS

\* Offsets only grow, the cursor behind the ring and the ring behind the work.
OffsetInv == \A j \in Job : cursor[j] <= total[j] /\ total[j] <= produced[j]

\* What a call waits for is live; what released it is not.
CallInv ==
  /\ \A c \in Foreground : awaits[c] = c
  /\ \A c \in Call :
       /\ call[c] \in {"waiting", "stopping"} =>
            awaits[c] \in Job /\ status[awaits[c]] \in Active
       /\ call[c] = "released" => awaits[c] \in Job /\ status[awaits[c]] \in Terminal

\* What the model has heard of a job, and when.
HeardInv ==
  \A j \in Job :
    /\ status[j] \notin Terminal => heard[j] \subseteq {"kill"} /\ announced[j] = "none"
    /\ status[j] \in Terminal => announced[j] # "none"
    /\ status[j] \in Active /\ "kill" \in heard[j] => j \in killedByModel
    /\ status[j] = "unborn" => j \notin listed /\ heard[j] = {} /\ owner[j] = Nobody
    /\ "notice" \in heard[j] =>
         /\ heard[j] = {"notice"}
         /\ \A c \in Call : call[c] = "released" => awaits[c] # j

\* A job that settled before its producer did was failed by force.
ForcedInv == \A j \in Job : status[j] \in Terminal /\ j \notin done => j \in Throwing

\* Every owned job is in the hands of its owner's cleanup, or of the registry's.
TeardownInv ==
  /\ service = "cleaning" => listed \subseteq all
  /\ service = "gone" => listed = {}
  /\ \A j \in listed : owner[j] \in Owner =>
       \/ owner[j] \in attached /\ life[owner[j]] \in {"live", "leaving"}
       \/ life[owner[j]] = "cleaning" /\ j \in leaving[owner[j]]
  /\ \A o \in attached : life[o] \in {"live", "leaving"}

IInv ==
  /\ TypeOK /\ OffsetInv /\ CallInv /\ LiveIsListed /\ HeardInv /\ ForcedInv /\ TeardownInv
  /\ LimitHeld

----------------------------------------------------------------------------
(* The ring.                                                               *)

\* A trimmed ring starts at offsets that exist.
LEMMA TrimType ==
  ASSUME NEW starts \in SUBSET Nat, NEW end \in Nat, NEW cap \in Nat
  PROVE  Trim(starts, end, cap) \in SUBSET Nat
<1>1. CASE starts = {} \/ {at \in starts : end - at <= cap} # {}
  BY <1>1 DEF Trim
<1>2. CASE starts # {} /\ {at \in starts : end - at <= cap} = {}
  <2>1. PICK at \in starts : ~(end - at <= cap)
    BY <1>2
  <2>2. end - cap \in Nat
    BY <2>1
  <2> QED
    BY <1>2, <2>2 DEF Trim
<1> QED
  BY <1>1, <1>2

\* What the pump has yet to copy is a number of bytes, and the drained ring a ring.
LEMMA DrainType ==
  ASSUME TypeOK, OffsetInv, NEW j \in Job
  PROVE  /\ Behind(j) \in Nat /\ total[j] + Behind(j) \in Nat
         /\ total[j] + Behind(j) <= produced[j]
         /\ Drained(j) \in SUBSET Nat
<1>1. /\ total[j] \in Nat /\ produced[j] \in Nat /\ total[j] <= produced[j]
      /\ ring[j] \in SUBSET Nat
  BY DEF TypeOK, OffsetInv
<1>2. /\ Behind(j) \in Nat /\ total[j] + Behind(j) \in Nat
      /\ total[j] + Behind(j) <= produced[j]
  BY <1>1 DEF Behind
<1>3. Trim(ring[j] \cup {total[j]}, produced[j], RetainBytes) \in SUBSET Nat
  BY <1>1, TrimType, JobAssumption DEF JobAssumption
<1> QED
  BY <1>1, <1>2, <1>3 DEF Drained

\* Settling jobs, whose rings hold chunks by then, keeps the types.
LEMMA ConcludeType ==
  ASSUME TypeOK, OffsetInv, NEW S \in SUBSET Job, NEW why \in {"producer", "kill", "teardown"},
         NEW chunks \in [Job -> SUBSET Nat], Conclude(S, why, chunks),
         total' \in [Job -> Nat], \A j \in Job : cursor[j] <= total'[j]
  PROVE  /\ ring' \in [Job -> SUBSET Nat]
         /\ call' \in [Call -> {"idle", "waiting", "stopping", "released"}]
         /\ announced' \in [Job -> {"none", "producer", "kill", "teardown"}]
         /\ heard' \in [Job -> SUBSET {"notice", "wait", "kill"}]
         /\ killedByModel' \subseteq Job
<1>1. ASSUME NEW j \in Job PROVE Trim(chunks[j], total'[j], SettledCap(j)) \in SUBSET Nat
  <2>1. cursor[j] \in Nat /\ total'[j] \in Nat /\ cursor[j] <= total'[j]
    BY DEF TypeOK
  <2>2. SettledCap(j) \in Nat
    BY <2>1, JobAssumption DEF SettledCap, Larger, JobAssumption
  <2> QED
    BY <2>1, <2>2, TrimType
<1>2. ring' \in [Job -> SUBSET Nat]
  BY <1>1 DEF Conclude, TypeOK
<1> QED
  BY <1>2 DEF Conclude, TypeOK

LEMMA SettleType ==
  ASSUME TypeOK, OffsetInv, NEW j \in Job, Settles(j),
         total' \in [Job -> Nat], \A k \in Job : cursor[k] <= total'[k]
  PROVE  /\ ring' \in [Job -> SUBSET Nat]
         /\ call' \in [Call -> {"idle", "waiting", "stopping", "released"}]
         /\ announced' \in [Job -> {"none", "producer", "kill", "teardown"}]
         /\ heard' \in [Job -> SUBSET {"notice", "wait", "kill"}]
         /\ killedByModel' \subseteq Job
<1> DEFINE S == {j}  why == cause[j]  chunks == [ring EXCEPT ![j] = Drained(j)]
<1>1. S \in SUBSET Job /\ chunks \in [Job -> SUBSET Nat]
  BY DrainType DEF TypeOK
<1>2. why \in {"producer", "kill", "teardown"}
  BY DEF TypeOK
<1>3. Conclude(S, why, chunks)
  BY DEF Settles
<1> HIDE DEF S, why, chunks
<1> QED BY <1>1, <1>2, <1>3, ConcludeType

\* What a teardown does to the jobs of S: the forced ones fail, the other live ones stop.
LEMMA TeardownSplits ==
  ASSUME NEW S \in SUBSET Job, CancelForTeardown(S)
  PROVE  \E forced \in SUBSET (S \cap Throwing) :
           /\ \A j \in forced : status[j] \in Active
           /\ status' = [j \in Job |-> IF j \in forced THEN "failed"
                                     ELSE IF j \in S /\ status[j] \in Active THEN "stopping"
                                     ELSE status[j]]
           /\ cause' = [j \in Job |-> IF j \in S /\ status[j] \in Active THEN "teardown"
                                    ELSE cause[j]]
           /\ canceled' \subseteq canceled \cup S /\ torn' \subseteq torn \cup S
           /\ UNCHANGED <<produced, total, cursor>>
           /\ Conclude(forced, "teardown", ring)
<1>1. PICK T \in SUBSET (S \cap Throwing) :
        LET live   == {j \in S : status[j] \in Active}
            forced == live \cap T
        IN  /\ status' = [j \in Job |-> IF j \in forced THEN "failed"
                                       ELSE IF j \in live THEN "stopping" ELSE status[j]]
            /\ cause' = [j \in Job |-> IF j \in live THEN "teardown" ELSE cause[j]]
            /\ canceled' = canceled \cup (live \ forced)
            /\ torn' = torn \cup live
            /\ UNCHANGED <<produced, total, cursor>>
            /\ Conclude(forced, "teardown", ring)
  BY DEF CancelForTeardown
<1> DEFINE failing == {j \in S : status[j] \in Active} \cap T
<1>2. Conclude(failing, "teardown", ring)
  BY <1>1
<1> SUFFICES /\ failing \in SUBSET (S \cap Throwing)
             /\ \A j \in failing : status[j] \in Active
             /\ status' = [j \in Job |-> IF j \in failing THEN "failed"
                                     ELSE IF j \in S /\ status[j] \in Active THEN "stopping"
                                     ELSE status[j]]
             /\ cause' = [j \in Job |-> IF j \in S /\ status[j] \in Active THEN "teardown"
                                    ELSE cause[j]]
             /\ canceled' \subseteq canceled \cup S /\ torn' \subseteq torn \cup S
             /\ UNCHANGED <<produced, total, cursor>>
  BY <1>2
<1> QED
  BY <1>1

\* A teardown keeps the types.
LEMMA TeardownType ==
  ASSUME TypeOK, OffsetInv, NEW S \in SUBSET Job, CancelForTeardown(S)
  PROVE  /\ status' \in [Job -> Active \cup Terminal \cup {"unborn"}]
         /\ cause' \in [Job -> {"producer", "kill", "teardown"}]
         /\ canceled' \subseteq Job /\ torn' \subseteq Job
         /\ UNCHANGED <<produced, total, cursor>>
         /\ ring' \in [Job -> SUBSET Nat]
         /\ call' \in [Call -> {"idle", "waiting", "stopping", "released"}]
         /\ announced' \in [Job -> {"none", "producer", "kill", "teardown"}]
         /\ heard' \in [Job -> SUBSET {"notice", "wait", "kill"}]
         /\ killedByModel' \subseteq Job
<1>1. PICK forced \in SUBSET (S \cap Throwing) :
        /\ status' = [j \in Job |-> IF j \in forced THEN "failed"
                                  ELSE IF j \in S /\ status[j] \in Active THEN "stopping"
                                  ELSE status[j]]
        /\ cause' = [j \in Job |-> IF j \in S /\ status[j] \in Active THEN "teardown"
                                 ELSE cause[j]]
        /\ canceled' \subseteq canceled \cup S /\ torn' \subseteq torn \cup S
        /\ UNCHANGED <<produced, total, cursor>>
        /\ Conclude(forced, "teardown", ring)
  BY TeardownSplits
<1>2. forced \in SUBSET Job /\ ring \in [Job -> SUBSET Nat]
  BY DEF TypeOK
<1>3. total' \in [Job -> Nat] /\ \A j \in Job : cursor[j] <= total'[j]
  BY <1>1 DEF TypeOK, OffsetInv
<1>4. Conclude(forced, "teardown", ring)
  BY <1>1
<1>5. /\ ring' \in [Job -> SUBSET Nat]
      /\ call' \in [Call -> {"idle", "waiting", "stopping", "released"}]
      /\ announced' \in [Job -> {"none", "producer", "kill", "teardown"}]
      /\ heard' \in [Job -> SUBSET {"notice", "wait", "kill"}]
      /\ killedByModel' \subseteq Job
  BY <1>2, <1>3, <1>4, ConcludeType
<1>6. /\ status' \in [Job -> Active \cup Terminal \cup {"unborn"}]
      /\ cause' \in [Job -> {"producer", "kill", "teardown"}]
      /\ canceled' \subseteq Job /\ torn' \subseteq Job
  BY <1>1 DEF TypeOK, Active, Terminal
<1> QED
  BY <1>1, <1>5, <1>6

\* A read keeps the types.
LEMMA ReadType ==
  ASSUME TypeOK, OffsetInv, NEW j \in Job, ReadJob(j)
  PROVE  /\ ring' \in [Job -> SUBSET Nat] /\ cursor' \in [Job -> Nat]
         /\ UNCHANGED <<produced, total>> /\ OffsetInv'
<1>1. Trim(ring[j], total[j], SettledRetainBytes) \in SUBSET Nat
  BY TrimType, JobAssumption DEF TypeOK, JobAssumption
<1> QED
  BY <1>1 DEF ReadJob, TypeOK, OffsetInv

----------------------------------------------------------------------------
(* Type correctness.                                                       *)

LEMMA TypeStep ==
  ASSUME TypeOK, OffsetInv, CallInv, [Next]_vars
  PROVE  TypeOK' /\ OffsetInv'
<1> USE JobAssumption DEF JobAssumption, Call
<1>1. ASSUME NEW j \in Job, NEW o \in Owner \cup {Nobody}, StartRefused(j, o)
      PROVE  TypeOK' /\ OffsetInv'
  BY <1>1 DEF TypeOK, OffsetInv, Active, Terminal, StartRefused, Admission, vars, output,
     calls, owners, backend, settling
<1>2. ASSUME NEW j \in Job, NEW o \in Owner \cup {Nobody}, Start(j, o)
      PROVE  TypeOK' /\ OffsetInv'
  BY <1>2 DEF TypeOK, OffsetInv, Active, Terminal, Start, Admission, TakesCleanup, vars,
     output, calls, owners, backend, settling
<1>3. ASSUME NEW j \in Job, ProducerEnds(j) PROVE TypeOK' /\ OffsetInv'
  BY <1>3 DEF TypeOK, OffsetInv, Active, Terminal, ProducerEnds, vars, output, calls,
     owners, backend, settling
<1>4. ASSUME NEW j \in Job, PumpPolls(j) PROVE TypeOK' /\ OffsetInv'
  <2>1. /\ ring' \in [Job -> SUBSET Nat] /\ total' \in [Job -> Nat]
        /\ OffsetInv'
    BY <1>4, DrainType DEF PumpPolls, TypeOK, OffsetInv
  <2> QED
    BY <1>4, <2>1 DEF TypeOK, PumpPolls, vars, output, calls, owners, backend, settling
<1>5. ASSUME NEW j \in Job, Settles(j) PROVE TypeOK' /\ OffsetInv'
  <2>1. total' \in [Job -> Nat] /\ \A k \in Job : cursor[k] <= total'[k] /\ total'[k] <= produced[k]
    BY <1>5, DrainType DEF Settles, TypeOK, OffsetInv
  <2>2. /\ ring' \in [Job -> SUBSET Nat]
        /\ call' \in [Call -> {"idle", "waiting", "stopping", "released"}]
        /\ announced' \in [Job -> {"none", "producer", "kill", "teardown"}]
        /\ heard' \in [Job -> SUBSET {"notice", "wait", "kill"}]
        /\ killedByModel' \subseteq Job
    BY <1>5, <2>1, SettleType
  <2> QED
    BY <1>5, <2>1, <2>2 DEF Settles, TypeOK, OffsetInv, Terminal, Active, owners, backend
<1>6. ASSUME NEW j \in Job, NEW n \in 1..Budget[j], SourceWrites(j, n)
      PROVE  TypeOK' /\ OffsetInv'
  BY <1>6 DEF TypeOK, OffsetInv, Active, Terminal, SourceWrites, vars, output, calls,
     owners, backend, settling
<1>7. ASSUME NEW j \in Job, NEW n \in 1..Budget[j], Push(j, n) PROVE TypeOK' /\ OffsetInv'
  <2>1. produced[j] \in Nat /\ total[j] \in Nat /\ ring[j] \in SUBSET Nat /\ n \in Nat
    BY JobAssumption DEF TypeOK, JobAssumption
  <2>2. Trim(ring[j] \cup {total[j]}, total[j] + n, RetainBytes) \in SUBSET Nat
    BY <2>1, TrimType, JobAssumption DEF JobAssumption
  <2>3. /\ ring' \in [Job -> SUBSET Nat] /\ total' \in [Job -> Nat] /\ produced' \in [Job -> Nat]
        /\ OffsetInv'
    <3>1. CASE status[j] \in Terminal
      BY <1>7, <2>1, <3>1 DEF Push, TypeOK, OffsetInv
    <3>2. CASE status[j] \notin Terminal
      <4>1. /\ ring' = [ring EXCEPT ![j] = Trim(ring[j] \cup {total[j]}, total[j] + n, RetainBytes)]
            /\ total' = [total EXCEPT ![j] = total[j] + n]
            /\ produced' = [produced EXCEPT ![j] = produced[j] + n]
            /\ cursor' = cursor
        BY <1>7, <3>2 DEF Push
      <4>2. ring' \in [Job -> SUBSET Nat]
        BY <2>2, <4>1 DEF TypeOK
      <4>3. total' \in [Job -> Nat] /\ produced' \in [Job -> Nat] /\ OffsetInv'
        BY <2>1, <4>1 DEF TypeOK, OffsetInv
      <4> QED
        BY <4>2, <4>3
    <3> QED
      BY <3>1, <3>2
  <2> QED
    BY <1>7, <2>3 DEF TypeOK, Push, vars, output, calls, owners, backend, settling
<1>8. ASSUME NEW j \in Job, Kill(j) PROVE TypeOK' /\ OffsetInv'
  BY <1>8 DEF TypeOK, OffsetInv, Active, Terminal, Kill, KillJob, vars, output, calls,
     owners, backend, settling
<1>9. ASSUME NEW j \in Job, Promote(j) PROVE TypeOK' /\ OffsetInv'
  <2>1. j \in Job
    BY <1>9 DEF Promote, TypeOK, CallInv
  <2>2. /\ ring' \in [Job -> SUBSET Nat] /\ cursor' \in [Job -> Nat]
        /\ UNCHANGED <<produced, total>> /\ OffsetInv'
    BY <1>9, <2>1, ReadType DEF Promote
  <2> QED
    BY <1>9, <2>1, <2>2 DEF TypeOK, Promote, vars, output, calls, owners, backend, settling
<1>10. ASSUME NEW j \in Job, Stop(j) PROVE TypeOK' /\ OffsetInv'
  BY <1>10 DEF TypeOK, OffsetInv, Active, Terminal, Stop, KillJob, vars, output, calls,
     owners, backend, settling
<1>11. ASSUME NEW j \in Job, StopTimesOut(j) PROVE TypeOK' /\ OffsetInv'
  BY <1>11 DEF TypeOK, OffsetInv, Active, Terminal, StopTimesOut, vars, output, calls,
     owners, backend, settling
<1>12. ASSUME NEW o \in Owner, NEW j \in Job, JobKill(o, j) PROVE TypeOK' /\ OffsetInv'
  BY <1>12 DEF TypeOK, OffsetInv, Active, Terminal, JobKill, KillJob, vars, output, calls,
     owners, backend, settling
<1>13. ASSUME NEW o \in Owner, NEW j \in Job, JobOutput(o, j) PROVE TypeOK' /\ OffsetInv'
  <2>1. j \in Job
    BY <1>13 DEF JobOutput, TypeOK, CallInv
  <2>2. /\ ring' \in [Job -> SUBSET Nat] /\ cursor' \in [Job -> Nat]
        /\ UNCHANGED <<produced, total>> /\ OffsetInv'
    BY <1>13, <2>1, ReadType DEF JobOutput
  <2> QED
    BY <1>13, <2>1, <2>2 DEF TypeOK, JobOutput, vars, output, calls, owners, backend,
       settling
<1>14. ASSUME NEW w \in Reader, NEW j \in Job, Wait(w, j) PROVE TypeOK' /\ OffsetInv'
  BY <1>14 DEF TypeOK, OffsetInv, Active, Terminal, Wait, Reachable, vars, output, calls,
     owners, backend, settling
<1>15. ASSUME NEW w \in Reader, WaitTimesOut(w) PROVE TypeOK' /\ OffsetInv'
  <2>1. awaits[w] \in Job
    BY <1>15 DEF WaitTimesOut, TypeOK, CallInv
  <2>2. /\ ring' \in [Job -> SUBSET Nat] /\ cursor' \in [Job -> Nat]
        /\ UNCHANGED <<produced, total>> /\ OffsetInv'
    BY <1>15, <2>1, ReadType DEF WaitTimesOut
  <2> QED
    BY <1>15, <2>1, <2>2 DEF TypeOK, WaitTimesOut, vars, output, calls, owners, backend,
       settling
<1>16. ASSUME NEW w \in Reader, WaitAborts(w) PROVE TypeOK' /\ OffsetInv'
  BY <1>16 DEF TypeOK, OffsetInv, Active, Terminal, WaitAborts, vars, output, calls,
     owners, backend, settling
<1>17. ASSUME NEW c \in Call, CallReturns(c) PROVE TypeOK' /\ OffsetInv'
  <2>1. awaits[c] \in Job
    BY <1>17 DEF CallReturns, CallInv
  <2>2. /\ ring' \in [Job -> SUBSET Nat] /\ cursor' \in [Job -> Nat]
        /\ UNCHANGED <<produced, total>> /\ OffsetInv'
    <3>1. CASE c \in Foreground
      BY <1>17, <3>1 DEF CallReturns, TypeOK, OffsetInv, output
    <3>2. CASE c \notin Foreground
      BY <1>17, <2>1, <3>2, ReadType DEF CallReturns
    <3> QED
      BY <3>1, <3>2
  <2>3. /\ call' \in [Call -> {"idle", "waiting", "stopping", "released"}]
        /\ awaits' \in [Call -> Job \cup {Nobody}]
        /\ heard' \in [Job -> SUBSET {"notice", "wait", "kill"}]
        /\ listed' \subseteq Job
    BY <1>17, <2>1 DEF TypeOK, CallReturns
  <2> QED
    BY <1>17, <2>2, <2>3 DEF TypeOK, CallReturns, vars, output, calls, owners, backend,
       settling
<1>18. ASSUME NEW o \in Owner, OwnerLeaves(o) PROVE TypeOK' /\ OffsetInv'
  BY <1>18 DEF TypeOK, OffsetInv, Active, Terminal, OwnerLeaves, vars, output, calls,
     owners, backend, settling
<1>19. ASSUME NEW o \in Owner, OwnerCleans(o) PROVE TypeOK' /\ OffsetInv'
  <2> DEFINE S == {j \in listed : owner[j] = o}
  <2>1. CancelForTeardown(S)
    BY <1>19 DEF OwnerCleans
  <2>2. S \in SUBSET Job
    BY DEF TypeOK
  <2> QED
    BY <1>19, <2>1, <2>2, TeardownType DEF OwnerCleans, TypeOK, OffsetInv, owners, backend
<1>20. ASSUME NEW o \in Owner, OwnerUnused(o) PROVE TypeOK' /\ OffsetInv'
  BY <1>20 DEF TypeOK, OffsetInv, Active, Terminal, OwnerUnused, vars, output, calls,
     owners, backend, settling
<1>21. ASSUME NEW o \in Owner, OwnerCleaned(o) PROVE TypeOK' /\ OffsetInv'
  BY <1>21 DEF TypeOK, OffsetInv, Active, Terminal, OwnerCleaned, Quiet, vars, output,
     calls, owners, backend, settling
<1>22. ASSUME DisposeAll PROVE TypeOK' /\ OffsetInv'
  BY <1>22, TeardownType DEF DisposeAll, TypeOK, OffsetInv, owners, backend
<1>23. ASSUME AllDisposed PROVE TypeOK' /\ OffsetInv'
  BY <1>23 DEF TypeOK, OffsetInv, Active, Terminal, AllDisposed, Quiet, vars, output,
     calls, owners, backend, settling
<1>24. CASE UNCHANGED vars
  BY <1>24 DEF TypeOK, OffsetInv, Active, Terminal, vars, output, calls, owners, backend,
     settling
<1> QED
  BY <1>1, <1>2, <1>3, <1>4, <1>5, <1>6, <1>7, <1>8, <1>9, <1>10, <1>11, <1>12, <1>13,
     <1>14, <1>15, <1>16, <1>17, <1>18, <1>19, <1>20, <1>21, <1>22, <1>23, <1>24 DEF Next,
     Producer, Control, Teardown

----------------------------------------------------------------------------
(* Waits, notices and forced failures.                                     *)

\* A step keeps waits on live jobs, and live jobs listed.
LEMMA CallStep ==
  ASSUME TypeOK, CallInv, LiveIsListed, HeardInv, [Next]_vars
  PROVE  CallInv' /\ LiveIsListed'
<1> USE JobAssumption DEF JobAssumption, Call
<1>1. ASSUME NEW j \in Job, NEW o \in Owner \cup {Nobody}, StartRefused(j, o)
      PROVE  CallInv' /\ LiveIsListed'
  BY <1>1 DEF TypeOK, CallInv, LiveIsListed, Active, Terminal, StartRefused, Admission,
     vars, output, calls, owners, backend, settling
<1>2. ASSUME NEW j \in Job, NEW o \in Owner \cup {Nobody}, Start(j, o)
      PROVE  CallInv' /\ LiveIsListed'
  BY <1>2 DEF TypeOK, CallInv, LiveIsListed, Active, Terminal, Start, Admission,
     TakesCleanup, vars, output, calls, owners, backend, settling
<1>3. ASSUME NEW j \in Job, ProducerEnds(j) PROVE CallInv' /\ LiveIsListed'
  BY <1>3 DEF TypeOK, CallInv, LiveIsListed, Active, Terminal, ProducerEnds, vars, output,
     calls, owners, backend, settling
<1>4. ASSUME NEW j \in Job, PumpPolls(j) PROVE CallInv' /\ LiveIsListed'
  BY <1>4 DEF TypeOK, CallInv, LiveIsListed, Active, Terminal, PumpPolls, vars, output,
     calls, owners, backend, settling
<1>5. ASSUME NEW j \in Job, Settles(j) PROVE CallInv' /\ LiveIsListed'
  BY <1>5 DEF TypeOK, CallInv, LiveIsListed, Active, Terminal, Settles, Conclude, vars,
     output, calls, owners, backend, settling
<1>6. ASSUME NEW j \in Job, NEW n \in 1..Budget[j], SourceWrites(j, n)
      PROVE  CallInv' /\ LiveIsListed'
  BY <1>6 DEF TypeOK, CallInv, LiveIsListed, Active, Terminal, SourceWrites, vars, output,
     calls, owners, backend, settling
<1>7. ASSUME NEW j \in Job, NEW n \in 1..Budget[j], Push(j, n)
      PROVE  CallInv' /\ LiveIsListed'
  BY <1>7 DEF TypeOK, CallInv, LiveIsListed, Active, Terminal, Push, vars, output, calls,
     owners, backend, settling
<1>8. ASSUME NEW j \in Job, Kill(j) PROVE CallInv' /\ LiveIsListed'
  BY <1>8 DEF TypeOK, CallInv, LiveIsListed, Active, Terminal, Kill, KillJob, vars,
     output, calls, owners, backend, settling
<1>9. ASSUME NEW j \in Job, Promote(j) PROVE CallInv' /\ LiveIsListed'
  BY <1>9 DEF TypeOK, CallInv, LiveIsListed, Active, Terminal, Promote, ReadJob, vars,
     output, calls, owners, backend, settling
<1>10. ASSUME NEW j \in Job, Stop(j) PROVE CallInv' /\ LiveIsListed'
  BY <1>10 DEF TypeOK, CallInv, LiveIsListed, Active, Terminal, Stop, KillJob, vars,
     output, calls, owners, backend, settling
<1>11. ASSUME NEW j \in Job, StopTimesOut(j) PROVE CallInv' /\ LiveIsListed'
  BY <1>11 DEF TypeOK, CallInv, LiveIsListed, Active, Terminal, StopTimesOut, vars,
     output, calls, owners, backend, settling
<1>12. ASSUME NEW o \in Owner, NEW j \in Job, JobKill(o, j) PROVE CallInv' /\ LiveIsListed'
  BY <1>12 DEF TypeOK, CallInv, LiveIsListed, Active, Terminal, JobKill, KillJob, vars,
     output, calls, owners, backend, settling
<1>13. ASSUME NEW o \in Owner, NEW j \in Job, JobOutput(o, j)
       PROVE  CallInv' /\ LiveIsListed'
  BY <1>13 DEF TypeOK, CallInv, LiveIsListed, Active, Terminal, JobOutput, ReadJob, vars,
     output, calls, owners, backend, settling
<1>14. ASSUME NEW w \in Reader, NEW j \in Job, Wait(w, j) PROVE CallInv' /\ LiveIsListed'
  BY <1>14 DEF TypeOK, CallInv, LiveIsListed, Active, Terminal, Wait, Reachable, HeardInv,
     vars, output, calls, owners, backend, settling
<1>15. ASSUME NEW w \in Reader, WaitTimesOut(w) PROVE CallInv' /\ LiveIsListed'
  BY <1>15 DEF TypeOK, CallInv, LiveIsListed, Active, Terminal, WaitTimesOut, ReadJob,
     vars, output, calls, owners, backend, settling
<1>16. ASSUME NEW w \in Reader, WaitAborts(w) PROVE CallInv' /\ LiveIsListed'
  BY <1>16 DEF TypeOK, CallInv, LiveIsListed, Active, Terminal, WaitAborts, vars, output,
     calls, owners, backend, settling
<1>17. ASSUME NEW c \in Call, CallReturns(c) PROVE CallInv' /\ LiveIsListed'
  BY <1>17 DEF TypeOK, CallInv, LiveIsListed, Active, Terminal, CallReturns, ReadJob,
     vars, output, calls, owners, backend, settling
<1>18. ASSUME NEW o \in Owner, OwnerLeaves(o) PROVE CallInv' /\ LiveIsListed'
  BY <1>18 DEF TypeOK, CallInv, LiveIsListed, Active, Terminal, OwnerLeaves, vars, output,
     calls, owners, backend, settling
<1>19. ASSUME NEW o \in Owner, OwnerCleans(o) PROVE CallInv' /\ LiveIsListed'
  <2> DEFINE S == {j \in listed : owner[j] = o}
  <2>1. CancelForTeardown(S)
    BY <1>19 DEF OwnerCleans
  <2>2. S \in SUBSET Job
    BY DEF TypeOK
  <2>3. PICK forced \in SUBSET (S \cap Throwing) :
          /\ \A j \in forced : status[j] \in Active
          /\ status' = [j \in Job |-> IF j \in forced THEN "failed"
                                    ELSE IF j \in S /\ status[j] \in Active THEN "stopping"
                                    ELSE status[j]]
          /\ Conclude(forced, "teardown", ring)
    BY <2>1, <2>2, TeardownSplits
  <2> QED
    BY <1>19, <2>2, <2>3 DEF OwnerCleans, Conclude, TypeOK, CallInv, LiveIsListed, Active,
       Terminal, vars, output, calls, owners, backend, settling
<1>20. ASSUME NEW o \in Owner, OwnerUnused(o) PROVE CallInv' /\ LiveIsListed'
  BY <1>20 DEF TypeOK, CallInv, LiveIsListed, Active, Terminal, OwnerUnused, vars, output,
     calls, owners, backend, settling
<1>21. ASSUME NEW o \in Owner, OwnerCleaned(o) PROVE CallInv' /\ LiveIsListed'
  BY <1>21 DEF TypeOK, CallInv, LiveIsListed, Active, Terminal, OwnerCleaned, Quiet, vars,
     output, calls, owners, backend, settling
<1>22. ASSUME DisposeAll PROVE CallInv' /\ LiveIsListed'
  <2>1. CancelForTeardown(listed)
    BY <1>22 DEF DisposeAll
  <2>2. listed \in SUBSET Job
    BY DEF TypeOK
  <2>3. PICK forced \in SUBSET (listed \cap Throwing) :
          /\ \A j \in forced : status[j] \in Active
          /\ status' = [j \in Job |-> IF j \in forced THEN "failed"
                                    ELSE IF j \in listed /\ status[j] \in Active THEN "stopping"
                                    ELSE status[j]]
          /\ Conclude(forced, "teardown", ring)
    BY <2>1, <2>2, TeardownSplits
  <2> QED
    BY <1>22, <2>2, <2>3 DEF DisposeAll, Conclude, TypeOK, CallInv, LiveIsListed, Active,
       Terminal, vars, output, calls, owners, backend, settling
<1>23. ASSUME AllDisposed PROVE CallInv' /\ LiveIsListed'
  BY <1>23 DEF TypeOK, CallInv, LiveIsListed, Active, Terminal, AllDisposed, Quiet, vars,
     output, calls, owners, backend, settling
<1>24. CASE UNCHANGED vars
  BY <1>24 DEF TypeOK, CallInv, LiveIsListed, Active, Terminal, vars, output, calls,
     owners, backend, settling
<1> QED
  BY <1>1, <1>2, <1>3, <1>4, <1>5, <1>6, <1>7, <1>8, <1>9, <1>10, <1>11, <1>12, <1>13,
     <1>14, <1>15, <1>16, <1>17, <1>18, <1>19, <1>20, <1>21, <1>22, <1>23, <1>24 DEF Next,
     Producer, Control, Teardown

\* A step keeps what the model has heard consistent with what became of each job.
LEMMA HeardStep ==
  ASSUME TypeOK, CallInv, HeardInv, [Next]_vars
  PROVE  HeardInv'
<1> USE JobAssumption DEF JobAssumption, Call
<1>1. ASSUME NEW j \in Job, NEW o \in Owner \cup {Nobody}, StartRefused(j, o)
      PROVE  HeardInv'
  BY <1>1 DEF TypeOK, CallInv, HeardInv, Active, Terminal, StartRefused, Admission, vars,
     output, calls, owners, backend, settling
<1>2. ASSUME NEW j \in Job, NEW o \in Owner \cup {Nobody}, Start(j, o) PROVE HeardInv'
  BY <1>2 DEF TypeOK, CallInv, HeardInv, Active, Terminal, Start, Admission, TakesCleanup,
     vars, output, calls, owners, backend, settling
<1>3. ASSUME NEW j \in Job, ProducerEnds(j) PROVE HeardInv'
  BY <1>3 DEF TypeOK, CallInv, HeardInv, Active, Terminal, ProducerEnds, vars, output,
     calls, owners, backend, settling
<1>4. ASSUME NEW j \in Job, PumpPolls(j) PROVE HeardInv'
  BY <1>4 DEF TypeOK, CallInv, HeardInv, Active, Terminal, PumpPolls, vars, output, calls,
     owners, backend, settling
<1>5. ASSUME NEW j \in Job, Settles(j) PROVE HeardInv'
  BY <1>5 DEF TypeOK, CallInv, HeardInv, Active, Terminal, Settles, Conclude, Reports,
     Awaited, vars, output, calls, owners, backend, settling
<1>6. ASSUME NEW j \in Job, NEW n \in 1..Budget[j], SourceWrites(j, n) PROVE HeardInv'
  BY <1>6 DEF TypeOK, CallInv, HeardInv, Active, Terminal, SourceWrites, vars, output,
     calls, owners, backend, settling
<1>7. ASSUME NEW j \in Job, NEW n \in 1..Budget[j], Push(j, n) PROVE HeardInv'
  BY <1>7 DEF TypeOK, CallInv, HeardInv, Active, Terminal, Push, vars, output, calls,
     owners, backend, settling
<1>8. ASSUME NEW j \in Job, Kill(j) PROVE HeardInv'
  BY <1>8 DEF TypeOK, CallInv, HeardInv, Active, Terminal, Kill, KillJob, vars, output,
     calls, owners, backend, settling
<1>9. ASSUME NEW j \in Job, Promote(j) PROVE HeardInv'
  BY <1>9 DEF TypeOK, CallInv, HeardInv, Active, Terminal, Promote, ReadJob, vars, output,
     calls, owners, backend, settling
<1>10. ASSUME NEW j \in Job, Stop(j) PROVE HeardInv'
  BY <1>10 DEF TypeOK, CallInv, HeardInv, Active, Terminal, Stop, KillJob, vars, output,
     calls, owners, backend, settling
<1>11. ASSUME NEW j \in Job, StopTimesOut(j) PROVE HeardInv'
  BY <1>11 DEF TypeOK, CallInv, HeardInv, Active, Terminal, StopTimesOut, vars, output,
     calls, owners, backend, settling
<1>12. ASSUME NEW o \in Owner, NEW j \in Job, JobKill(o, j) PROVE HeardInv'
  BY <1>12 DEF TypeOK, CallInv, HeardInv, Active, Terminal, JobKill, KillJob, vars,
     output, calls, owners, backend, settling
<1>13. ASSUME NEW o \in Owner, NEW j \in Job, JobOutput(o, j) PROVE HeardInv'
  BY <1>13 DEF TypeOK, CallInv, HeardInv, Active, Terminal, JobOutput, ReadJob, vars,
     output, calls, owners, backend, settling
<1>14. ASSUME NEW w \in Reader, NEW j \in Job, Wait(w, j) PROVE HeardInv'
  BY <1>14 DEF TypeOK, CallInv, HeardInv, Active, Terminal, Wait, Reachable, vars, output,
     calls, owners, backend, settling
<1>15. ASSUME NEW w \in Reader, WaitTimesOut(w) PROVE HeardInv'
  BY <1>15 DEF TypeOK, CallInv, HeardInv, Active, Terminal, WaitTimesOut, ReadJob, vars,
     output, calls, owners, backend, settling
<1>16. ASSUME NEW w \in Reader, WaitAborts(w) PROVE HeardInv'
  BY <1>16 DEF TypeOK, CallInv, HeardInv, Active, Terminal, WaitAborts, vars, output,
     calls, owners, backend, settling
<1>17. ASSUME NEW c \in Call, CallReturns(c) PROVE HeardInv'
  BY <1>17 DEF TypeOK, CallInv, HeardInv, Active, Terminal, CallReturns, ReadJob, vars,
     output, calls, owners, backend, settling
<1>18. ASSUME NEW o \in Owner, OwnerLeaves(o) PROVE HeardInv'
  BY <1>18 DEF TypeOK, CallInv, HeardInv, Active, Terminal, OwnerLeaves, vars, output,
     calls, owners, backend, settling
<1>19. ASSUME NEW o \in Owner, OwnerCleans(o) PROVE HeardInv'
  <2> DEFINE S == {j \in listed : owner[j] = o}
  <2>1. CancelForTeardown(S)
    BY <1>19 DEF OwnerCleans
  <2>2. S \in SUBSET Job
    BY DEF TypeOK
  <2>3. PICK forced \in SUBSET (S \cap Throwing) :
          /\ \A j \in forced : status[j] \in Active
          /\ status' = [j \in Job |-> IF j \in forced THEN "failed"
                                    ELSE IF j \in S /\ status[j] \in Active THEN "stopping"
                                    ELSE status[j]]
          /\ Conclude(forced, "teardown", ring)
    BY <2>1, <2>2, TeardownSplits
  <2> QED
    BY <1>19, <2>2, <2>3 DEF OwnerCleans, Conclude, TypeOK, CallInv, HeardInv, Active,
       Terminal, Reports, vars, output, calls, owners, backend, settling
<1>20. ASSUME NEW o \in Owner, OwnerUnused(o) PROVE HeardInv'
  BY <1>20 DEF TypeOK, CallInv, HeardInv, Active, Terminal, OwnerUnused, vars, output,
     calls, owners, backend, settling
<1>21. ASSUME NEW o \in Owner, OwnerCleaned(o) PROVE HeardInv'
  BY <1>21 DEF TypeOK, CallInv, HeardInv, Active, Terminal, OwnerCleaned, Quiet, vars,
     output, calls, owners, backend, settling
<1>22. ASSUME DisposeAll PROVE HeardInv'
  <2>1. CancelForTeardown(listed)
    BY <1>22 DEF DisposeAll
  <2>2. listed \in SUBSET Job
    BY DEF TypeOK
  <2>3. PICK forced \in SUBSET (listed \cap Throwing) :
          /\ \A j \in forced : status[j] \in Active
          /\ status' = [j \in Job |-> IF j \in forced THEN "failed"
                                    ELSE IF j \in listed /\ status[j] \in Active THEN "stopping"
                                    ELSE status[j]]
          /\ Conclude(forced, "teardown", ring)
    BY <2>1, <2>2, TeardownSplits
  <2> QED
    BY <1>22, <2>2, <2>3 DEF DisposeAll, Conclude, TypeOK, CallInv, HeardInv, Active,
       Terminal, Reports, vars, output, calls, owners, backend, settling
<1>23. ASSUME AllDisposed PROVE HeardInv'
  BY <1>23 DEF TypeOK, CallInv, HeardInv, Active, Terminal, AllDisposed, Quiet, vars,
     output, calls, owners, backend, settling
<1>24. CASE UNCHANGED vars
  BY <1>24 DEF TypeOK, CallInv, HeardInv, Active, Terminal, vars, output, calls, owners,
     backend, settling
<1> QED
  BY <1>1, <1>2, <1>3, <1>4, <1>5, <1>6, <1>7, <1>8, <1>9, <1>10, <1>11, <1>12, <1>13,
     <1>14, <1>15, <1>16, <1>17, <1>18, <1>19, <1>20, <1>21, <1>22, <1>23, <1>24 DEF Next,
     Producer, Control, Teardown

\* Only a cancel that throws can end a job whose producer runs on.
LEMMA ForcedStep ==
  ASSUME TypeOK, ForcedInv, [Next]_vars
  PROVE  ForcedInv'
<1> USE JobAssumption DEF JobAssumption, Call
<1>1. ASSUME NEW j \in Job, NEW o \in Owner \cup {Nobody}, StartRefused(j, o)
      PROVE  ForcedInv'
  BY <1>1 DEF TypeOK, ForcedInv, Active, Terminal, StartRefused, Admission, vars, output,
     calls, owners, backend, settling
<1>2. ASSUME NEW j \in Job, NEW o \in Owner \cup {Nobody}, Start(j, o) PROVE ForcedInv'
  BY <1>2 DEF TypeOK, ForcedInv, Active, Terminal, Start, Admission, TakesCleanup, vars,
     output, calls, owners, backend, settling
<1>3. ASSUME NEW j \in Job, ProducerEnds(j) PROVE ForcedInv'
  BY <1>3 DEF TypeOK, ForcedInv, Active, Terminal, ProducerEnds, vars, output, calls,
     owners, backend, settling
<1>4. ASSUME NEW j \in Job, PumpPolls(j) PROVE ForcedInv'
  BY <1>4 DEF TypeOK, ForcedInv, Active, Terminal, PumpPolls, vars, output, calls, owners,
     backend, settling
<1>5. ASSUME NEW j \in Job, Settles(j) PROVE ForcedInv'
  BY <1>5 DEF TypeOK, ForcedInv, Active, Terminal, Settles, Conclude, vars, output, calls,
     owners, backend, settling
<1>6. ASSUME NEW j \in Job, NEW n \in 1..Budget[j], SourceWrites(j, n) PROVE ForcedInv'
  BY <1>6 DEF TypeOK, ForcedInv, Active, Terminal, SourceWrites, vars, output, calls,
     owners, backend, settling
<1>7. ASSUME NEW j \in Job, NEW n \in 1..Budget[j], Push(j, n) PROVE ForcedInv'
  BY <1>7 DEF TypeOK, ForcedInv, Active, Terminal, Push, vars, output, calls, owners,
     backend, settling
<1>8. ASSUME NEW j \in Job, Kill(j) PROVE ForcedInv'
  BY <1>8 DEF TypeOK, ForcedInv, Active, Terminal, Kill, KillJob, vars, output, calls,
     owners, backend, settling
<1>9. ASSUME NEW j \in Job, Promote(j) PROVE ForcedInv'
  BY <1>9 DEF TypeOK, ForcedInv, Active, Terminal, Promote, ReadJob, vars, output, calls,
     owners, backend, settling
<1>10. ASSUME NEW j \in Job, Stop(j) PROVE ForcedInv'
  BY <1>10 DEF TypeOK, ForcedInv, Active, Terminal, Stop, KillJob, vars, output, calls,
     owners, backend, settling
<1>11. ASSUME NEW j \in Job, StopTimesOut(j) PROVE ForcedInv'
  BY <1>11 DEF TypeOK, ForcedInv, Active, Terminal, StopTimesOut, vars, output, calls,
     owners, backend, settling
<1>12. ASSUME NEW o \in Owner, NEW j \in Job, JobKill(o, j) PROVE ForcedInv'
  BY <1>12 DEF TypeOK, ForcedInv, Active, Terminal, JobKill, KillJob, vars, output, calls,
     owners, backend, settling
<1>13. ASSUME NEW o \in Owner, NEW j \in Job, JobOutput(o, j) PROVE ForcedInv'
  BY <1>13 DEF TypeOK, ForcedInv, Active, Terminal, JobOutput, ReadJob, vars, output,
     calls, owners, backend, settling
<1>14. ASSUME NEW w \in Reader, NEW j \in Job, Wait(w, j) PROVE ForcedInv'
  BY <1>14 DEF TypeOK, ForcedInv, Active, Terminal, Wait, Reachable, vars, output, calls,
     owners, backend, settling
<1>15. ASSUME NEW w \in Reader, WaitTimesOut(w) PROVE ForcedInv'
  BY <1>15 DEF TypeOK, ForcedInv, Active, Terminal, WaitTimesOut, ReadJob, vars, output,
     calls, owners, backend, settling
<1>16. ASSUME NEW w \in Reader, WaitAborts(w) PROVE ForcedInv'
  BY <1>16 DEF TypeOK, ForcedInv, Active, Terminal, WaitAborts, vars, output, calls,
     owners, backend, settling
<1>17. ASSUME NEW c \in Call, CallReturns(c) PROVE ForcedInv'
  BY <1>17 DEF TypeOK, ForcedInv, Active, Terminal, CallReturns, ReadJob, vars, output,
     calls, owners, backend, settling
<1>18. ASSUME NEW o \in Owner, OwnerLeaves(o) PROVE ForcedInv'
  BY <1>18 DEF TypeOK, ForcedInv, Active, Terminal, OwnerLeaves, vars, output, calls,
     owners, backend, settling
<1>19. ASSUME NEW o \in Owner, OwnerCleans(o) PROVE ForcedInv'
  <2> DEFINE S == {j \in listed : owner[j] = o}
  <2>1. CancelForTeardown(S)
    BY <1>19 DEF OwnerCleans
  <2>2. S \in SUBSET Job
    BY DEF TypeOK
  <2>3. PICK forced \in SUBSET (S \cap Throwing) :
          /\ \A j \in forced : status[j] \in Active
          /\ status' = [j \in Job |-> IF j \in forced THEN "failed"
                                    ELSE IF j \in S /\ status[j] \in Active THEN "stopping"
                                    ELSE status[j]]
          /\ Conclude(forced, "teardown", ring)
    BY <2>1, <2>2, TeardownSplits
  <2> QED
    BY <1>19, <2>2, <2>3 DEF OwnerCleans, Conclude, TypeOK, ForcedInv, Active, Terminal,
       vars, output, calls, owners, backend, settling
<1>20. ASSUME NEW o \in Owner, OwnerUnused(o) PROVE ForcedInv'
  BY <1>20 DEF TypeOK, ForcedInv, Active, Terminal, OwnerUnused, vars, output, calls,
     owners, backend, settling
<1>21. ASSUME NEW o \in Owner, OwnerCleaned(o) PROVE ForcedInv'
  BY <1>21 DEF TypeOK, ForcedInv, Active, Terminal, OwnerCleaned, Quiet, vars, output,
     calls, owners, backend, settling
<1>22. ASSUME DisposeAll PROVE ForcedInv'
  <2>1. CancelForTeardown(listed)
    BY <1>22 DEF DisposeAll
  <2>2. listed \in SUBSET Job
    BY DEF TypeOK
  <2>3. PICK forced \in SUBSET (listed \cap Throwing) :
          /\ \A j \in forced : status[j] \in Active
          /\ status' = [j \in Job |-> IF j \in forced THEN "failed"
                                    ELSE IF j \in listed /\ status[j] \in Active THEN "stopping"
                                    ELSE status[j]]
          /\ Conclude(forced, "teardown", ring)
    BY <2>1, <2>2, TeardownSplits
  <2> QED
    BY <1>22, <2>2, <2>3 DEF DisposeAll, Conclude, TypeOK, ForcedInv, Active, Terminal,
       vars, output, calls, owners, backend, settling
<1>23. ASSUME AllDisposed PROVE ForcedInv'
  BY <1>23 DEF TypeOK, ForcedInv, Active, Terminal, AllDisposed, Quiet, vars, output,
     calls, owners, backend, settling
<1>24. CASE UNCHANGED vars
  BY <1>24 DEF TypeOK, ForcedInv, Active, Terminal, vars, output, calls, owners, backend,
     settling
<1> QED
  BY <1>1, <1>2, <1>3, <1>4, <1>5, <1>6, <1>7, <1>8, <1>9, <1>10, <1>11, <1>12, <1>13,
     <1>14, <1>15, <1>16, <1>17, <1>18, <1>19, <1>20, <1>21, <1>22, <1>23, <1>24 DEF Next,
     Producer, Control, Teardown

\* Every listed job stays in the hands of a cleanup to come or at work.
LEMMA HandsStep ==
  ASSUME TypeOK, TeardownInv, HeardInv, [Next]_vars
  PROVE  TeardownInv'
<1> USE JobAssumption DEF JobAssumption, Call
<1>1. ASSUME NEW j \in Job, NEW o \in Owner \cup {Nobody}, StartRefused(j, o)
      PROVE  TeardownInv'
  BY <1>1 DEF TypeOK, TeardownInv, Active, Terminal, StartRefused, Admission,
     TakesCleanup, vars, output, calls, owners, backend, settling
<1>2. ASSUME NEW j \in Job, NEW o \in Owner \cup {Nobody}, Start(j, o) PROVE TeardownInv'
  BY <1>2 DEF TypeOK, TeardownInv, Active, Terminal, Start, Admission, TakesCleanup,
     HeardInv, vars, output, calls, owners, backend, settling
<1>3. ASSUME NEW j \in Job, ProducerEnds(j) PROVE TeardownInv'
  BY <1>3 DEF TypeOK, TeardownInv, Active, Terminal, ProducerEnds, vars, output, calls,
     owners, backend, settling
<1>4. ASSUME NEW j \in Job, PumpPolls(j) PROVE TeardownInv'
  BY <1>4 DEF TypeOK, TeardownInv, Active, Terminal, PumpPolls, vars, output, calls,
     owners, backend, settling
<1>5. ASSUME NEW j \in Job, Settles(j) PROVE TeardownInv'
  BY <1>5 DEF TypeOK, TeardownInv, Active, Terminal, Settles, Conclude, vars, output,
     calls, owners, backend, settling
<1>6. ASSUME NEW j \in Job, NEW n \in 1..Budget[j], SourceWrites(j, n) PROVE TeardownInv'
  BY <1>6 DEF TypeOK, TeardownInv, Active, Terminal, SourceWrites, vars, output, calls,
     owners, backend, settling
<1>7. ASSUME NEW j \in Job, NEW n \in 1..Budget[j], Push(j, n) PROVE TeardownInv'
  BY <1>7 DEF TypeOK, TeardownInv, Active, Terminal, Push, vars, output, calls, owners,
     backend, settling
<1>8. ASSUME NEW j \in Job, Kill(j) PROVE TeardownInv'
  BY <1>8 DEF TypeOK, TeardownInv, Active, Terminal, Kill, KillJob, vars, output, calls,
     owners, backend, settling
<1>9. ASSUME NEW j \in Job, Promote(j) PROVE TeardownInv'
  BY <1>9 DEF TypeOK, TeardownInv, Active, Terminal, Promote, ReadJob, vars, output,
     calls, owners, backend, settling
<1>10. ASSUME NEW j \in Job, Stop(j) PROVE TeardownInv'
  BY <1>10 DEF TypeOK, TeardownInv, Active, Terminal, Stop, KillJob, vars, output, calls,
     owners, backend, settling
<1>11. ASSUME NEW j \in Job, StopTimesOut(j) PROVE TeardownInv'
  BY <1>11 DEF TypeOK, TeardownInv, Active, Terminal, StopTimesOut, vars, output, calls,
     owners, backend, settling
<1>12. ASSUME NEW o \in Owner, NEW j \in Job, JobKill(o, j) PROVE TeardownInv'
  BY <1>12 DEF TypeOK, TeardownInv, Active, Terminal, JobKill, KillJob, vars, output,
     calls, owners, backend, settling
<1>13. ASSUME NEW o \in Owner, NEW j \in Job, JobOutput(o, j) PROVE TeardownInv'
  BY <1>13 DEF TypeOK, TeardownInv, Active, Terminal, JobOutput, ReadJob, vars, output,
     calls, owners, backend, settling
<1>14. ASSUME NEW w \in Reader, NEW j \in Job, Wait(w, j) PROVE TeardownInv'
  BY <1>14 DEF TypeOK, TeardownInv, Active, Terminal, Wait, Reachable, vars, output,
     calls, owners, backend, settling
<1>15. ASSUME NEW w \in Reader, WaitTimesOut(w) PROVE TeardownInv'
  BY <1>15 DEF TypeOK, TeardownInv, Active, Terminal, WaitTimesOut, ReadJob, vars, output,
     calls, owners, backend, settling
<1>16. ASSUME NEW w \in Reader, WaitAborts(w) PROVE TeardownInv'
  BY <1>16 DEF TypeOK, TeardownInv, Active, Terminal, WaitAborts, vars, output, calls,
     owners, backend, settling
<1>17. ASSUME NEW c \in Call, CallReturns(c) PROVE TeardownInv'
  BY <1>17 DEF TypeOK, TeardownInv, Active, Terminal, CallReturns, ReadJob, vars, output,
     calls, owners, backend, settling
<1>18. ASSUME NEW o \in Owner, OwnerLeaves(o) PROVE TeardownInv'
  BY <1>18 DEF TypeOK, TeardownInv, Active, Terminal, OwnerLeaves, vars, output, calls,
     owners, backend, settling
<1>19. ASSUME NEW o \in Owner, OwnerCleans(o) PROVE TeardownInv'
  BY <1>19 DEF TypeOK, TeardownInv, Active, Terminal, OwnerCleans, CancelForTeardown,
     Conclude, vars, output, calls, owners, backend, settling
<1>20. ASSUME NEW o \in Owner, OwnerUnused(o) PROVE TeardownInv'
  BY <1>20 DEF TypeOK, TeardownInv, Active, Terminal, OwnerUnused, vars, output, calls,
     owners, backend, settling
<1>21. ASSUME NEW o \in Owner, OwnerCleaned(o) PROVE TeardownInv'
  BY <1>21 DEF TypeOK, TeardownInv, Active, Terminal, OwnerCleaned, Quiet, vars, output,
     calls, owners, backend, settling
<1>22. ASSUME DisposeAll PROVE TeardownInv'
  BY <1>22 DEF TypeOK, TeardownInv, Active, Terminal, DisposeAll, CancelForTeardown,
     Conclude, vars, output, calls, owners, backend, settling
<1>23. ASSUME AllDisposed PROVE TeardownInv'
  BY <1>23 DEF TypeOK, TeardownInv, Active, Terminal, AllDisposed, Quiet, vars, output,
     calls, owners, backend, settling
<1>24. CASE UNCHANGED vars
  BY <1>24 DEF TypeOK, TeardownInv, Active, Terminal, vars, output, calls, owners,
     backend, settling
<1> QED
  BY <1>1, <1>2, <1>3, <1>4, <1>5, <1>6, <1>7, <1>8, <1>9, <1>10, <1>11, <1>12, <1>13,
     <1>14, <1>15, <1>16, <1>17, <1>18, <1>19, <1>20, <1>21, <1>22, <1>23, <1>24 DEF Next,
     Producer, Control, Teardown

----------------------------------------------------------------------------
(* The limit.                                                              *)

ActiveOf(o) == {j \in Job : owner[j] = o /\ status[j] \in Active}

\* A step by which no job becomes active keeps the limit.
LEMMA LimitKept ==
  ASSUME LimitHeld, TypeOK, limit' = limit,
         \A j \in Job : status'[j] \in Active => status[j] \in Active /\ owner'[j] = owner[j]
  PROVE  LimitHeld'
<1> SUFFICES ASSUME NEW o \in Owner \cup {Nobody}
             PROVE  Cardinality(ActiveOf(o)') <= limit
  BY DEF LimitHeld, ActiveOf
<1>1. ActiveOf(o)' \subseteq ActiveOf(o) /\ ActiveOf(o) \subseteq Job
  BY DEF ActiveOf
<1>2. IsFiniteSet(ActiveOf(o)) /\ IsFiniteSet(ActiveOf(o)')
  BY <1>1, FS_Subset, JobAssumption DEF JobAssumption
<1>3. Cardinality(ActiveOf(o)') <= Cardinality(ActiveOf(o))
  BY <1>1, <1>2, FS_Subset
<1>4. Cardinality(ActiveOf(o)) \in Nat /\ Cardinality(ActiveOf(o)') \in Nat /\ limit \in Nat
  BY <1>2, FS_CardinalityType, JobAssumption DEF TypeOK, JobAssumption
<1>5. Cardinality(ActiveOf(o)) <= limit
  BY DEF LimitHeld, ActiveOf
<1> QED
  BY <1>3, <1>4, <1>5

\* A start that the limit admits keeps it: what it counts, the listed jobs, is all there is.
LEMMA LimitStart ==
  ASSUME LimitHeld, TypeOK, LiveIsListed, NEW j \in Job, NEW o \in Owner \cup {Nobody},
         Start(j, o)
  PROVE  LimitHeld'
<1> SUFFICES ASSUME NEW a \in Owner \cup {Nobody}
             PROVE  Cardinality(ActiveOf(a)') <= limit
  BY DEF LimitHeld, ActiveOf, Start, backend
<1>1. /\ ActiveOf(a) \subseteq Job /\ ActiveOf(a)' \subseteq ActiveOf(a) \cup {j}
      /\ a # o => ActiveOf(a)' \subseteq ActiveOf(a)
      /\ ActiveOf(a) \cup {j} \subseteq Job
  BY DEF ActiveOf, Start, TypeOK, Active
<1>2. IsFiniteSet(ActiveOf(a)) /\ IsFiniteSet(ActiveOf(a) \cup {j}) /\ IsFiniteSet(ActiveOf(a)')
  BY <1>1, FS_Subset, JobAssumption DEF JobAssumption
<1>3. /\ Cardinality(ActiveOf(a)) \in Nat /\ Cardinality(ActiveOf(a)') \in Nat /\ limit \in Nat
      /\ Cardinality(ActiveOf(a) \cup {j}) \in Nat
  BY <1>2, FS_CardinalityType, JobAssumption DEF TypeOK, JobAssumption
<1>4. Cardinality(ActiveOf(a)) <= limit
  BY DEF LimitHeld, ActiveOf
<1>5. CASE a = o
  <2>1. Count(o) = Cardinality(ActiveOf(a))
    <3>1. {k \in listed : owner[k] = o /\ status[k] \in Active} = ActiveOf(a)
      BY <1>5 DEF ActiveOf, LiveIsListed, TypeOK
    <3> QED
      BY <3>1 DEF Count
  <2>2. Count(o) < limit
    BY DEF Start
  <2>3. /\ Cardinality(ActiveOf(a) \cup {j}) <= Cardinality(ActiveOf(a)) + 1
    <3>1. \/ Cardinality(ActiveOf(a) \cup {j}) = Cardinality(ActiveOf(a))
          \/ Cardinality(ActiveOf(a) \cup {j}) = Cardinality(ActiveOf(a)) + 1
      BY <1>2, FS_AddElement
    <3> QED
      BY <3>1, <1>3
  <2>4. Cardinality(ActiveOf(a)') <= Cardinality(ActiveOf(a) \cup {j})
    BY <1>1, <1>2, FS_Subset
  <2> QED
    BY <1>3, <2>1, <2>2, <2>3, <2>4
<1>6. CASE a # o
  <2>1. Cardinality(ActiveOf(a)') <= Cardinality(ActiveOf(a))
    BY <1>1, <1>2, <1>6, FS_Subset
  <2> QED
    BY <1>3, <1>4, <2>1
<1> QED
  BY <1>5, <1>6

\* Only a start makes a job active, and no step changes whose it is.
NoneStarts ==
  /\ limit' = limit
  /\ \A j \in Job : status'[j] \in Active => status[j] \in Active /\ owner'[j] = owner[j]

\* A step keeps the limit.
LEMMA LimitStep ==
  ASSUME LimitHeld, TypeOK, LiveIsListed, [Next]_vars
  PROVE  LimitHeld'
<1> USE JobAssumption DEF JobAssumption, Call
<1>1. ASSUME NEW j \in Job, NEW o \in Owner \cup {Nobody}, StartRefused(j, o)
      PROVE  NoneStarts
  BY <1>1 DEF TypeOK, NoneStarts, Active, Terminal, StartRefused, Admission, vars, output,
     calls, owners, backend, settling
<1>2. ASSUME NEW j \in Job, NEW o \in Owner \cup {Nobody}, Start(j, o) PROVE LimitHeld'
  BY <1>2, LimitStart
<1>3. ASSUME NEW j \in Job, ProducerEnds(j) PROVE NoneStarts
  BY <1>3 DEF TypeOK, NoneStarts, Active, Terminal, ProducerEnds, vars, output, calls,
     owners, backend, settling
<1>4. ASSUME NEW j \in Job, PumpPolls(j) PROVE NoneStarts
  BY <1>4 DEF TypeOK, NoneStarts, Active, Terminal, PumpPolls, vars, output, calls,
     owners, backend, settling
<1>5. ASSUME NEW j \in Job, Settles(j) PROVE NoneStarts
  BY <1>5 DEF TypeOK, NoneStarts, Active, Terminal, Settles, Conclude, vars, output,
     calls, owners, backend, settling
<1>6. ASSUME NEW j \in Job, NEW n \in 1..Budget[j], SourceWrites(j, n) PROVE NoneStarts
  BY <1>6 DEF TypeOK, NoneStarts, Active, Terminal, SourceWrites, vars, output, calls,
     owners, backend, settling
<1>7. ASSUME NEW j \in Job, NEW n \in 1..Budget[j], Push(j, n) PROVE NoneStarts
  BY <1>7 DEF TypeOK, NoneStarts, Active, Terminal, Push, vars, output, calls, owners,
     backend, settling
<1>8. ASSUME NEW j \in Job, Kill(j) PROVE NoneStarts
  BY <1>8 DEF TypeOK, NoneStarts, Active, Terminal, Kill, KillJob, vars, output, calls,
     owners, backend, settling
<1>9. ASSUME NEW j \in Job, Promote(j) PROVE NoneStarts
  BY <1>9 DEF TypeOK, NoneStarts, Active, Terminal, Promote, ReadJob, vars, output, calls,
     owners, backend, settling
<1>10. ASSUME NEW j \in Job, Stop(j) PROVE NoneStarts
  BY <1>10 DEF TypeOK, NoneStarts, Active, Terminal, Stop, KillJob, vars, output, calls,
     owners, backend, settling
<1>11. ASSUME NEW j \in Job, StopTimesOut(j) PROVE NoneStarts
  BY <1>11 DEF TypeOK, NoneStarts, Active, Terminal, StopTimesOut, vars, output, calls,
     owners, backend, settling
<1>12. ASSUME NEW o \in Owner, NEW j \in Job, JobKill(o, j) PROVE NoneStarts
  BY <1>12 DEF TypeOK, NoneStarts, Active, Terminal, JobKill, KillJob, vars, output,
     calls, owners, backend, settling
<1>13. ASSUME NEW o \in Owner, NEW j \in Job, JobOutput(o, j) PROVE NoneStarts
  BY <1>13 DEF TypeOK, NoneStarts, Active, Terminal, JobOutput, ReadJob, vars, output,
     calls, owners, backend, settling
<1>14. ASSUME NEW w \in Reader, NEW j \in Job, Wait(w, j) PROVE NoneStarts
  BY <1>14 DEF TypeOK, NoneStarts, Active, Terminal, Wait, Reachable, vars, output, calls,
     owners, backend, settling
<1>15. ASSUME NEW w \in Reader, WaitTimesOut(w) PROVE NoneStarts
  BY <1>15 DEF TypeOK, NoneStarts, Active, Terminal, WaitTimesOut, ReadJob, vars, output,
     calls, owners, backend, settling
<1>16. ASSUME NEW w \in Reader, WaitAborts(w) PROVE NoneStarts
  BY <1>16 DEF TypeOK, NoneStarts, Active, Terminal, WaitAborts, vars, output, calls,
     owners, backend, settling
<1>17. ASSUME NEW c \in Call, CallReturns(c) PROVE NoneStarts
  BY <1>17 DEF TypeOK, NoneStarts, Active, Terminal, CallReturns, ReadJob, vars, output,
     calls, owners, backend, settling
<1>18. ASSUME NEW o \in Owner, OwnerLeaves(o) PROVE NoneStarts
  BY <1>18 DEF TypeOK, NoneStarts, Active, Terminal, OwnerLeaves, vars, output, calls,
     owners, backend, settling
<1>19. ASSUME NEW o \in Owner, OwnerCleans(o) PROVE NoneStarts
  <2> DEFINE S == {j \in listed : owner[j] = o}
  <2>1. CancelForTeardown(S)
    BY <1>19 DEF OwnerCleans
  <2>2. S \in SUBSET Job
    BY DEF TypeOK
  <2>3. PICK forced \in SUBSET (S \cap Throwing) :
          /\ \A j \in forced : status[j] \in Active
          /\ status' = [j \in Job |-> IF j \in forced THEN "failed"
                                    ELSE IF j \in S /\ status[j] \in Active THEN "stopping"
                                    ELSE status[j]]
          /\ Conclude(forced, "teardown", ring)
    BY <2>1, <2>2, TeardownSplits
  <2> QED
    BY <1>19, <2>2, <2>3 DEF OwnerCleans, Conclude, TypeOK, NoneStarts, Active, Terminal,
       vars, output, calls, owners, backend, settling
<1>20. ASSUME NEW o \in Owner, OwnerUnused(o) PROVE NoneStarts
  BY <1>20 DEF TypeOK, NoneStarts, Active, Terminal, OwnerUnused, vars, output, calls,
     owners, backend, settling
<1>21. ASSUME NEW o \in Owner, OwnerCleaned(o) PROVE NoneStarts
  BY <1>21 DEF TypeOK, NoneStarts, Active, Terminal, OwnerCleaned, Quiet, vars, output,
     calls, owners, backend, settling
<1>22. ASSUME DisposeAll PROVE NoneStarts
  <2>1. CancelForTeardown(listed)
    BY <1>22 DEF DisposeAll
  <2>2. listed \in SUBSET Job
    BY DEF TypeOK
  <2>3. PICK forced \in SUBSET (listed \cap Throwing) :
          /\ \A j \in forced : status[j] \in Active
          /\ status' = [j \in Job |-> IF j \in forced THEN "failed"
                                    ELSE IF j \in listed /\ status[j] \in Active THEN "stopping"
                                    ELSE status[j]]
          /\ Conclude(forced, "teardown", ring)
    BY <2>1, <2>2, TeardownSplits
  <2> QED
    BY <1>22, <2>2, <2>3 DEF DisposeAll, Conclude, TypeOK, NoneStarts, Active, Terminal,
       vars, output, calls, owners, backend, settling
<1>23. ASSUME AllDisposed PROVE NoneStarts
  BY <1>23 DEF TypeOK, NoneStarts, Active, Terminal, AllDisposed, Quiet, vars, output,
     calls, owners, backend, settling
<1>24. ASSUME UNCHANGED vars PROVE NoneStarts
  <2>1. limit' = limit /\ owner' = owner /\ status' = status
    BY <1>24 DEF vars, owners, backend
  <2> QED
    BY <2>1 DEF NoneStarts
<1>25. NoneStarts => LimitHeld'
  BY LimitKept DEF NoneStarts
<1> QED
  BY <1>1, <1>2, <1>3, <1>4, <1>5, <1>6, <1>7, <1>8, <1>9, <1>10, <1>11, <1>12, <1>13,
     <1>14, <1>15, <1>16, <1>17, <1>18, <1>19, <1>20, <1>21, <1>22, <1>23, <1>24, <1>25
     DEF Next, Producer, Control, Teardown

----------------------------------------------------------------------------
(* The theorems.                                                           *)

LEMMA InitIInv == Init => IInv
<1> SUFFICES ASSUME Init PROVE IInv
  OBVIOUS
<1> USE JobAssumption DEF JobAssumption, Call
<1>1. TypeOK
  BY DEF Init, TypeOK, Active
<1>2. OffsetInv /\ CallInv /\ LiveIsListed /\ HeardInv /\ ForcedInv /\ TeardownInv
  BY DEF Init, OffsetInv, CallInv, LiveIsListed, HeardInv, ForcedInv, TeardownInv, Active,
     Terminal
<1>3. LimitHeld
  <2> SUFFICES ASSUME NEW o \in Owner \cup {Nobody}
               PROVE  Cardinality({j \in Job : owner[j] = o /\ status[j] \in Active}) <= limit
    BY DEF LimitHeld
  <2>1. {j \in Job : owner[j] = o /\ status[j] \in Active} = {}
    BY DEF Init, Active
  <2>2. Cardinality({j \in Job : owner[j] = o /\ status[j] \in Active}) = 0
    BY <2>1, FS_EmptySet
  <2>3. limit \in Nat
    BY <1>1 DEF TypeOK
  <2> QED
    BY <2>2, <2>3
<1> QED
  BY <1>1, <1>2, <1>3 DEF IInv

LEMMA StepIInv == IInv /\ [Next]_vars => IInv'
  BY TypeStep, CallStep, HeardStep, ForcedStep, HandsStep, LimitStep DEF IInv

LEMMA InvariantHolds == Spec => []IInv
  BY InitIInv, StepIInv, PTL DEF Spec

\* Every variable of the registry keeps its type.
THEOREM JobTypeCorrect == Spec => []TypeOK
<1>1. IInv => TypeOK
  BY DEF IInv
<1> QED
  BY <1>1, InvariantHolds, PTL

\* No call of job_output or bash ever waits on a job that has settled.
THEOREM WaitsAreOnLiveJobs == Spec => []NoStaleWaiter
<1>1. IInv => NoStaleWaiter
  BY DEF IInv, CallInv, NoStaleWaiter, Awaited
<1> QED
  BY <1>1, InvariantHolds, PTL

\* A live job is in the store, whatever removes records.
THEOREM LiveJobsAreListed == Spec => []LiveIsListed
<1>1. IInv => LiveIsListed
  BY DEF IInv
<1> QED
  BY <1>1, InvariantHolds, PTL

\* A notice never repeats what a wait or a job_kill has delivered or will.
THEOREM NoticesAreNews == Spec => []NoticeIsNews
<1>1. IInv => NoticeIsNews
  BY DEF IInv, HeardInv, NoticeIsNews
<1> QED
  BY <1>1, InvariantHolds, PTL

\* Jobs are settled and unlisted once their owner or the registry has gone.
THEOREM TeardownIsComplete == Spec => []NothingOutlives
<1>1. IInv => NothingOutlives
  <2> SUFFICES ASSUME IInv, NEW j \in Job, status[j] # "unborn",
                      service = "gone" \/ owner[j] \in {o \in Owner : life[o] = "gone"}
               PROVE  /\ status[j] \in Terminal /\ j \notin listed
                      /\ j \notin done => j \in Throwing
    BY DEF NothingOutlives
  <2>1. j \notin listed
    BY DEF IInv, TeardownInv
  <2>2. status[j] \in Terminal
    BY <2>1 DEF IInv, LiveIsListed, TypeOK
  <2> QED
    BY <2>1, <2>2 DEF IInv, ForcedInv
<1> QED
  BY <1>1, InvariantHolds, PTL

\* Each owner, and the unowned bucket, stays within maxConcurrentJobsPerOwner.
THEOREM LimitIsHeld == Spec => []LimitHeld
<1>1. IInv => LimitHeld
  BY DEF IInv
<1> QED
  BY <1>1, InvariantHolds, PTL

\* A step leaves a job that has settled as it settled.
LEMMA SettledStays ==
  ASSUME TypeOK, HeardInv, [Next]_vars
  PROVE  \A k \in Job : announced[k] # "none" =>
           status'[k] = status[k] /\ announced'[k] = announced[k]
<1> USE JobAssumption DEF JobAssumption, Call
<1> DEFINE Stays == \A k \in Job : announced[k] # "none" =>
                      status'[k] = status[k] /\ announced'[k] = announced[k]
<1>1. ASSUME NEW j \in Job, NEW o \in Owner \cup {Nobody}, StartRefused(j, o) PROVE Stays
  BY <1>1 DEF TypeOK, HeardInv, Active, Terminal, StartRefused, Admission, vars, output,
     calls, owners, backend, settling
<1>2. ASSUME NEW j \in Job, NEW o \in Owner \cup {Nobody}, Start(j, o) PROVE Stays
  BY <1>2 DEF TypeOK, HeardInv, Active, Terminal, Start, Admission, TakesCleanup, vars,
     output, calls, owners, backend, settling
<1>3. ASSUME NEW j \in Job, ProducerEnds(j) PROVE Stays
  BY <1>3 DEF TypeOK, HeardInv, Active, Terminal, ProducerEnds, vars, output, calls,
     owners, backend, settling
<1>4. ASSUME NEW j \in Job, PumpPolls(j) PROVE Stays
  BY <1>4 DEF TypeOK, HeardInv, Active, Terminal, PumpPolls, vars, output, calls, owners,
     backend, settling
<1>5. ASSUME NEW j \in Job, Settles(j) PROVE Stays
  BY <1>5 DEF TypeOK, HeardInv, Active, Terminal, Settles, Conclude, vars, output, calls,
     owners, backend, settling
<1>6. ASSUME NEW j \in Job, NEW n \in 1..Budget[j], SourceWrites(j, n) PROVE Stays
  BY <1>6 DEF TypeOK, HeardInv, Active, Terminal, SourceWrites, vars, output, calls,
     owners, backend, settling
<1>7. ASSUME NEW j \in Job, NEW n \in 1..Budget[j], Push(j, n) PROVE Stays
  BY <1>7 DEF TypeOK, HeardInv, Active, Terminal, Push, vars, output, calls, owners,
     backend, settling
<1>8. ASSUME NEW j \in Job, Kill(j) PROVE Stays
  BY <1>8 DEF TypeOK, HeardInv, Active, Terminal, Kill, KillJob, vars, output, calls,
     owners, backend, settling
<1>9. ASSUME NEW j \in Job, Promote(j) PROVE Stays
  BY <1>9 DEF TypeOK, HeardInv, Active, Terminal, Promote, ReadJob, vars, output, calls,
     owners, backend, settling
<1>10. ASSUME NEW j \in Job, Stop(j) PROVE Stays
  BY <1>10 DEF TypeOK, HeardInv, Active, Terminal, Stop, KillJob, vars, output, calls,
     owners, backend, settling
<1>11. ASSUME NEW j \in Job, StopTimesOut(j) PROVE Stays
  BY <1>11 DEF TypeOK, HeardInv, Active, Terminal, StopTimesOut, vars, output, calls,
     owners, backend, settling
<1>12. ASSUME NEW o \in Owner, NEW j \in Job, JobKill(o, j) PROVE Stays
  BY <1>12 DEF TypeOK, HeardInv, Active, Terminal, JobKill, KillJob, vars, output, calls,
     owners, backend, settling
<1>13. ASSUME NEW o \in Owner, NEW j \in Job, JobOutput(o, j) PROVE Stays
  BY <1>13 DEF TypeOK, HeardInv, Active, Terminal, JobOutput, ReadJob, vars, output,
     calls, owners, backend, settling
<1>14. ASSUME NEW w \in Reader, NEW j \in Job, Wait(w, j) PROVE Stays
  BY <1>14 DEF TypeOK, HeardInv, Active, Terminal, Wait, Reachable, vars, output, calls,
     owners, backend, settling
<1>15. ASSUME NEW w \in Reader, WaitTimesOut(w) PROVE Stays
  BY <1>15 DEF TypeOK, HeardInv, Active, Terminal, WaitTimesOut, ReadJob, vars, output,
     calls, owners, backend, settling
<1>16. ASSUME NEW w \in Reader, WaitAborts(w) PROVE Stays
  BY <1>16 DEF TypeOK, HeardInv, Active, Terminal, WaitAborts, vars, output, calls,
     owners, backend, settling
<1>17. ASSUME NEW c \in Call, CallReturns(c) PROVE Stays
  BY <1>17 DEF TypeOK, HeardInv, Active, Terminal, CallReturns, ReadJob, vars, output,
     calls, owners, backend, settling
<1>18. ASSUME NEW o \in Owner, OwnerLeaves(o) PROVE Stays
  BY <1>18 DEF TypeOK, HeardInv, Active, Terminal, OwnerLeaves, vars, output, calls,
     owners, backend, settling
<1>19. ASSUME NEW o \in Owner, OwnerCleans(o) PROVE Stays
  <2> DEFINE S == {j \in listed : owner[j] = o}
  <2>1. CancelForTeardown(S)
    BY <1>19 DEF OwnerCleans
  <2>2. S \in SUBSET Job
    BY DEF TypeOK
  <2>3. PICK forced \in SUBSET (S \cap Throwing) :
          /\ \A j \in forced : status[j] \in Active
          /\ status' = [j \in Job |-> IF j \in forced THEN "failed"
                                    ELSE IF j \in S /\ status[j] \in Active THEN "stopping"
                                    ELSE status[j]]
          /\ Conclude(forced, "teardown", ring)
    BY <2>1, <2>2, TeardownSplits
  <2> QED
    BY <1>19, <2>2, <2>3 DEF OwnerCleans, Conclude, TypeOK, HeardInv, Active, Terminal,
       vars, output, calls, owners, backend, settling
<1>20. ASSUME NEW o \in Owner, OwnerUnused(o) PROVE Stays
  BY <1>20 DEF TypeOK, HeardInv, Active, Terminal, OwnerUnused, vars, output, calls,
     owners, backend, settling
<1>21. ASSUME NEW o \in Owner, OwnerCleaned(o) PROVE Stays
  BY <1>21 DEF TypeOK, HeardInv, Active, Terminal, OwnerCleaned, Quiet, vars, output,
     calls, owners, backend, settling
<1>22. ASSUME DisposeAll PROVE Stays
  <2>1. CancelForTeardown(listed)
    BY <1>22 DEF DisposeAll
  <2>2. listed \in SUBSET Job
    BY DEF TypeOK
  <2>3. PICK forced \in SUBSET (listed \cap Throwing) :
          /\ \A j \in forced : status[j] \in Active
          /\ status' = [j \in Job |-> IF j \in forced THEN "failed"
                                    ELSE IF j \in listed /\ status[j] \in Active THEN "stopping"
                                    ELSE status[j]]
          /\ Conclude(forced, "teardown", ring)
    BY <2>1, <2>2, TeardownSplits
  <2> QED
    BY <1>22, <2>2, <2>3 DEF DisposeAll, Conclude, TypeOK, HeardInv, Active, Terminal,
       vars, output, calls, owners, backend, settling
<1>23. ASSUME AllDisposed PROVE Stays
  BY <1>23 DEF TypeOK, HeardInv, Active, Terminal, AllDisposed, Quiet, vars, output,
     calls, owners, backend, settling
<1>24. CASE UNCHANGED vars
  BY <1>24 DEF TypeOK, HeardInv, Active, Terminal, vars, output, calls, owners, backend,
     settling
<1> QED
  BY <1>1, <1>2, <1>3, <1>4, <1>5, <1>6, <1>7, <1>8, <1>9, <1>10, <1>11, <1>12, <1>13,
     <1>14, <1>15, <1>16, <1>17, <1>18, <1>19, <1>20, <1>21, <1>22, <1>23, <1>24 DEF Next,
     Producer, Control, Teardown

\* A job settles once: no late outcome, kill or teardown settles it again.
THEOREM JobsSettleOnce == Spec => SettledOnce
<1>1. IInv /\ [Next]_vars =>
        [\A j \in Job : announced[j] # "none" =>
           status'[j] = status[j] /\ announced'[j] = announced[j]]_vars
  BY SettledStays DEF IInv
<1> QED
  BY <1>1, InvariantHolds, PTL DEF Spec, SettledOnce

----------------------------------------------------------------------------
(* The output.                                                             *)

\* An offset at which a chunk starts or ends, or that lies before them all.
Placed(at, starts, end) == at \in starts \cup {end} \/ \A other \in starts : at <= other

\* The model's cursor is at a chunk of the ring, and a live job that pushes
\* has pushed all it has produced.
RingInv ==
  \A j \in Job :
    /\ \A at \in ring[j] : at <= total[j]
    /\ Placed(cursor[j], ring[j], total[j])
    /\ j \notin Pumped /\ status[j] \notin Terminal => total[j] = produced[j]

\* Trimming a ring leaves the cursor at a chunk, or before what is left.
LEMMA TrimPlaces ==
  ASSUME NEW starts \in SUBSET Nat, NEW end \in Nat, NEW cap \in Nat, NEW at \in Nat,
         \A x \in starts : x <= end, at <= end, Placed(at, starts, end)
  PROVE  /\ \A x \in Trim(starts, end, cap) : x <= end
         /\ Placed(at, Trim(starts, end, cap), end)
<1> DEFINE fitting == {x \in starts : end - x <= cap}
<1>1. CASE starts = {} \/ fitting # {}
  <2>1. Trim(starts, end, cap) = fitting
    BY <1>1 DEF Trim
  <2>2. at \in starts => at \in fitting \/ \A x \in fitting : at <= x
    <3> SUFFICES ASSUME at \in starts, ~(end - at <= cap), NEW x \in fitting PROVE at <= x
      OBVIOUS
    <3>1. x \in Nat /\ end - x <= cap
      OBVIOUS
    <3> QED BY <3>1
  <2>3. Placed(at, fitting, end)
    BY <2>2 DEF Placed
  <2> QED BY <2>1, <2>3
<1>2. CASE ~(starts = {} \/ fitting # {})
  <2>1. PICK x \in starts : ~(end - x <= cap)
    BY <1>2
  <2>2. Trim(starts, end, cap) = {end - cap} /\ end - cap \in Nat /\ x < end - cap /\ end - cap <= end
    BY <1>2, <2>1 DEF Trim
  <2>3. at \in starts => at <= end - cap
    BY <1>2
  <2>4. (\A y \in starts : at <= y) => at <= end - cap
    BY <2>1, <2>2
  <2>5. at = end \/ at <= end - cap
    BY <2>3, <2>4 DEF Placed
  <2> QED BY <2>2, <2>5 DEF Placed
<1> QED BY <1>1, <1>2

\* A chunk that begins where the ring ends, too.
LEMMA ChunkPlaces ==
  ASSUME NEW starts \in SUBSET Nat, NEW end \in Nat, NEW more \in Nat, NEW cap \in Nat, NEW at \in Nat,
         \A x \in starts : x <= end, at <= end, end <= more, Placed(at, starts, end)
  PROVE  /\ \A x \in Trim(starts \cup {end}, more, cap) : x <= more
         /\ Placed(at, Trim(starts \cup {end}, more, cap), more)
<1> DEFINE s == starts \cup {end}
<1>1. s \in SUBSET Nat /\ at <= more /\ Placed(at, s, more)
  BY DEF Placed
<1>2. \A x \in s : x <= more
  OBVIOUS
<1> HIDE DEF s
<1>3. \A x \in Trim(s, more, cap) : x <= more
  BY <1>1, <1>2, TrimPlaces
<1>4. Placed(at, Trim(s, more, cap), more)
  BY <1>1, <1>2, TrimPlaces
<1> QED BY <1>3, <1>4 DEF s

\* The drained ring of a job.
LEMMA DrainPlaces ==
  ASSUME TypeOK, OffsetInv, RingInv, NEW j \in Job, status[j] \notin Terminal
  PROVE  /\ total[j] + Behind(j) = produced[j]
         /\ \A at \in Drained(j) : at <= produced[j]
         /\ Placed(cursor[j], Drained(j), produced[j])
<1>1. /\ total[j] \in Nat /\ produced[j] \in Nat /\ cursor[j] \in Nat /\ ring[j] \in SUBSET Nat
      /\ cursor[j] <= total[j] /\ total[j] <= produced[j]
      /\ RetainBytes \in Nat
  BY JobAssumption DEF TypeOK, OffsetInv, JobAssumption
<1>2. /\ \A at \in ring[j] : at <= total[j]
      /\ Placed(cursor[j], ring[j], total[j])
      /\ j \notin Pumped => total[j] = produced[j]
  BY DEF RingInv
<1>3. total[j] + Behind(j) = produced[j]
  BY <1>1, <1>2 DEF Behind
<1>4. CASE Behind(j) = 0
  <2>1. Drained(j) = ring[j] /\ total[j] = produced[j]
    BY <1>1, <1>3, <1>4 DEF Drained
  <2> QED BY <1>2, <1>3, <2>1
<1>5. CASE Behind(j) # 0
  <2>1. Drained(j) = Trim(ring[j] \cup {total[j]}, produced[j], RetainBytes)
    BY <1>5 DEF Drained
  <2>2. /\ \A at \in Trim(ring[j] \cup {total[j]}, produced[j], RetainBytes) : at <= produced[j]
        /\ Placed(cursor[j], Trim(ring[j] \cup {total[j]}, produced[j], RetainBytes), produced[j])
    BY <1>1, <1>2, ChunkPlaces
  <2> QED BY <1>3, <2>1, <2>2
<1> QED BY <1>4, <1>5

\* The earliest offset of a ring is the least of its chunks.
LEMMA EarliestIs ==
  ASSUME NEW starts \in SUBSET Nat, starts # {}, NEW end
  PROVE  /\ Earliest(starts, end) \in starts
         /\ \A at \in starts : Earliest(starts, end) <= at
<1>1. PICK x \in starts : \A y \in starts : <<y, x>> \notin OpToRel(<, Nat)
  BY NatLessThanWellFounded, WFMin
<1>2. \A y \in starts : x <= y
  <2> SUFFICES ASSUME NEW y \in starts, ~(x <= y) PROVE FALSE
    OBVIOUS
  <2>1. x \in Nat /\ y \in Nat /\ y < x
    OBVIOUS
  <2>2. <<y, x>> \in OpToRel(<, Nat)
    BY <2>1 DEF OpToRel
  <2> QED BY <1>1, <2>2
<1> QED BY <1>2 DEF Earliest

\* A trim that keeps all that follows the cursor reaches back to the cursor.
LEMMA TrimReaches ==
  ASSUME NEW starts \in SUBSET Nat, NEW end \in Nat, NEW cap \in Nat, NEW at \in Nat,
         \A x \in starts : x <= end, at <= end, end - at <= cap, Placed(at, starts, end)
  PROVE  Earliest(Trim(starts, end, cap), end) <= Larger(at, Earliest(starts, end))
<1> DEFINE fitting == {x \in starts : end - x <= cap}
           first == Earliest(starts, end)
           kept == Earliest(fitting, end)
<1>1. CASE starts = {}
  <2>1. Trim(starts, end, cap) = {} /\ first = end /\ Earliest({}, end) = end
    BY <1>1 DEF Trim, Earliest
  <2> QED BY <2>1 DEF Larger
<1>2. CASE starts # {} /\ fitting # {}
  <2>1. Trim(starts, end, cap) = fitting
    BY <1>2 DEF Trim
  <2>2. first \in starts /\ \A x \in starts : first <= x
    BY <1>2, EarliestIs
  <2>3. kept \in fitting /\ \A x \in fitting : kept <= x
    <3>1. fitting \in SUBSET Nat
      OBVIOUS
    <3> HIDE DEF fitting
    <3> QED BY <1>2, <3>1, EarliestIs
  <2>4. kept \in Nat /\ first \in Nat /\ kept <= end
    BY <2>2, <2>3
  <2> HIDE DEF kept, first
  <2>5. at \in starts => kept <= at
    BY <2>3
  <2>6. (\A x \in starts : at <= x) => kept <= first
    <3> SUFFICES ASSUME \A x \in starts : at <= x PROVE kept <= first
      OBVIOUS
    <3>1. at <= first
      BY <2>2
    <3>2. end - first <= cap
      BY <2>4, <3>1
    <3>3. first \in fitting
      BY <2>2, <3>2
    <3> QED BY <2>3, <3>3
  <2>7. kept <= at \/ kept <= first
    BY <2>4, <2>5, <2>6 DEF Placed
  <2>8. kept <= Larger(at, first)
    BY <2>4, <2>7 DEF Larger
  <2> QED BY <2>1, <2>8 DEF kept, first
<1>3. CASE starts # {} /\ fitting = {}
  <2>1. PICK x \in starts : ~(end - x <= cap)
    BY <1>3
  <2>2. Trim(starts, end, cap) = {end - cap} /\ end - cap \in Nat /\ x < end - cap
    BY <1>3, <2>1 DEF Trim
  <2>3. Earliest({end - cap}, end) = end - cap
    <3> DEFINE one == {end - cap}
    <3>1. one \in SUBSET Nat /\ one # {}
      BY <2>2
    <3>2. Earliest(one, end) \in one
      <4> HIDE DEF one
      <4> QED BY <3>1, EarliestIs
    <3> QED BY <3>2
  <2>4. first \in Nat
    BY <1>3, EarliestIs
  <2>5. end - cap <= at
    BY <2>2
  <2> HIDE DEF first
  <2>6. end - cap <= Larger(at, first)
    BY <2>2, <2>4, <2>5 DEF Larger
  <2> QED BY <2>2, <2>3, <2>6 DEF first
<1> QED BY <1>1, <1>2, <1>3

\* What one step may do to the output of a job.
SameOutput(j) ==
  /\ produced'[j] = produced[j] /\ total'[j] = total[j] /\ ring'[j] = ring[j] /\ cursor'[j] = cursor[j]
  /\ status'[j] = status[j] \/ status'[j] \in Active \/ status'[j] = "failed"
ReadsOutput(j) ==
  /\ status'[j] = status[j]
  /\ produced'[j] = produced[j] /\ total'[j] = total[j] /\ cursor'[j] = total[j]
  /\ ring'[j] \in {ring[j], Trim(ring[j], total[j], SettledRetainBytes)}
WritesOutput(j) ==
  /\ j \in Pumped \/ status[j] \in Terminal
  /\ status'[j] = status[j]
  /\ total'[j] = total[j] /\ ring'[j] = ring[j] /\ cursor'[j] = cursor[j]
PushesOutput(j) ==
  /\ status'[j] = status[j] /\ cursor'[j] = cursor[j]
  /\ \E n \in Nat :
       /\ produced'[j] = produced[j] + n /\ total'[j] = total[j] + n
       /\ ring'[j] = Trim(ring[j] \cup {total[j]}, total[j] + n, RetainBytes)
PumpsOutput(j) ==
  /\ status[j] \in Active /\ status'[j] = status[j]
  /\ produced'[j] = produced[j] /\ cursor'[j] = cursor[j]
  /\ total'[j] = total[j] + Behind(j) /\ ring'[j] = Drained(j)
SettlesOutput(j) ==
  /\ status[j] \in Active /\ status'[j] = "settled"
  /\ produced'[j] = produced[j] /\ cursor'[j] = cursor[j]
  /\ total'[j] = total[j] + Behind(j)
  /\ ring'[j] = Trim(Drained(j), total'[j], SettledCap(j))
FailsOutput(j) ==
  /\ status'[j] = "failed"
  /\ produced'[j] = produced[j] /\ total'[j] = total[j] /\ cursor'[j] = cursor[j]
  /\ ring'[j] = Trim(ring[j], total'[j], SettledCap(j))

OutputMoves(j) ==
  \/ SameOutput(j) \/ ReadsOutput(j) \/ WritesOutput(j) \/ PushesOutput(j)
  \/ PumpsOutput(j) \/ SettlesOutput(j) \/ FailsOutput(j)

\* A teardown fails the jobs whose cancel throws, and leaves the output of the others.
LEMMA TeardownMoves ==
  ASSUME TypeOK, NEW S \in SUBSET Job, CancelForTeardown(S), NEW k \in Job
  PROVE  OutputMoves(k)
<1>1. PICK forced \in SUBSET (S \cap Throwing) :
        /\ status' = [j \in Job |-> IF j \in forced THEN "failed"
                                  ELSE IF j \in S /\ status[j] \in Active THEN "stopping"
                                  ELSE status[j]]
        /\ UNCHANGED <<produced, total, cursor>>
        /\ Conclude(forced, "teardown", ring)
  BY TeardownSplits
<1>2. CASE k \in forced
  BY <1>1, <1>2 DEF Conclude, OutputMoves, FailsOutput
<1>3. CASE k \notin forced
  <2>1. ring'[k] = ring[k] /\ produced'[k] = produced[k] /\ total'[k] = total[k] /\ cursor'[k] = cursor[k]
    BY <1>1, <1>3 DEF Conclude
  <2>2. status'[k] = status[k] \/ status'[k] = "stopping"
    BY <1>1, <1>3
  <2> QED BY <2>1, <2>2 DEF OutputMoves, SameOutput, Active
<1> QED BY <1>2, <1>3

LEMMA ReadMoves ==
  ASSUME TypeOK, NEW j \in Job, ReadJob(j), UNCHANGED status, NEW k \in Job
  PROVE  OutputMoves(k)
<1>1. CASE k = j
  BY <1>1 DEF TypeOK, ReadJob, OutputMoves, ReadsOutput
<1>2. CASE k # j
  BY <1>2 DEF TypeOK, ReadJob, OutputMoves, SameOutput
<1> QED BY <1>1, <1>2

\* Every step is of one of these kinds, for every job.
LEMMA EveryMove ==
  ASSUME TypeOK, CallInv, [Next]_vars, NEW k \in Job
  PROVE  OutputMoves(k)
<1> USE JobAssumption DEF JobAssumption, Call
<1>0. ASSUME UNCHANGED output, status'[k] = status[k] \/ status'[k] \in Active PROVE OutputMoves(k)
  BY <1>0 DEF OutputMoves, SameOutput, output
<1>1. ASSUME NEW j \in Job, NEW o \in Owner \cup {Nobody}, StartRefused(j, o) PROVE OutputMoves(k)
  BY <1>0, <1>1 DEF StartRefused
<1>2. ASSUME NEW j \in Job, NEW o \in Owner \cup {Nobody}, Start(j, o) PROVE OutputMoves(k)
  BY <1>0, <1>2 DEF Start, TypeOK, Active
<1>3. ASSUME NEW j \in Job, ProducerEnds(j) PROVE OutputMoves(k)
  BY <1>0, <1>3 DEF ProducerEnds
<1>4. ASSUME NEW j \in Job, PumpPolls(j) PROVE OutputMoves(k)
  BY <1>4 DEF PumpPolls, TypeOK, OutputMoves, PumpsOutput, SameOutput
<1>5. ASSUME NEW j \in Job, Settles(j) PROVE OutputMoves(k)
  <2>1. /\ status[j] \in Active /\ status' = [status EXCEPT ![j] = "settled"]
        /\ total' = [total EXCEPT ![j] = total[j] + Behind(j)]
        /\ produced' = produced /\ cursor' = cursor
        /\ ring' = [i \in Job |-> IF i \in {j}
                                  THEN Trim([ring EXCEPT ![j] = Drained(j)][i], total'[i], SettledCap(i))
                                  ELSE ring[i]]
    BY <1>5 DEF Settles, Conclude
  <2>2. CASE k = j
    <3>1. ring'[k] = Trim(Drained(k), total'[k], SettledCap(k))
      BY <2>1, <2>2 DEF TypeOK
    <3> QED BY <2>1, <2>2, <3>1 DEF TypeOK, OutputMoves, SettlesOutput
  <2>3. CASE k # j
    BY <2>1, <2>3 DEF TypeOK, OutputMoves, SameOutput
  <2> QED BY <2>2, <2>3
<1>6. ASSUME NEW j \in Job, NEW n \in 1..Budget[j], SourceWrites(j, n) PROVE OutputMoves(k)
  <2>1. CASE k = j
    BY <1>6, <2>1 DEF SourceWrites, OutputMoves, WritesOutput
  <2>2. CASE k # j
    BY <1>6, <2>2 DEF SourceWrites, TypeOK, OutputMoves, SameOutput
  <2> QED BY <2>1, <2>2
<1>7. ASSUME NEW j \in Job, NEW n \in 1..Budget[j], Push(j, n) PROVE OutputMoves(k)
  <2>1. /\ produced' = [produced EXCEPT ![j] = produced[j] + n] /\ status' = status /\ cursor' = cursor
        /\ n \in Nat
    BY <1>7 DEF Push
  <2>2. CASE status[j] \in Terminal
    <3>1. UNCHANGED <<ring, total>>
      BY <1>7, <2>2 DEF Push
    <3>2. CASE k = j
      BY <2>1, <2>2, <3>1, <3>2 DEF OutputMoves, WritesOutput
    <3>3. CASE k # j
      BY <2>1, <3>1, <3>3 DEF TypeOK, OutputMoves, SameOutput
    <3> QED BY <3>2, <3>3
  <2>3. CASE status[j] \notin Terminal
    <3>1. /\ ring' = [ring EXCEPT ![j] = Trim(ring[j] \cup {total[j]}, total[j] + n, RetainBytes)]
          /\ total' = [total EXCEPT ![j] = total[j] + n]
      BY <1>7, <2>3 DEF Push
    <3>2. CASE k = j
      BY <2>1, <3>1, <3>2 DEF TypeOK, OutputMoves, PushesOutput
    <3>3. CASE k # j
      BY <2>1, <3>1, <3>3 DEF TypeOK, OutputMoves, SameOutput
    <3> QED BY <3>2, <3>3
  <2> QED BY <2>2, <2>3
<1>8. ASSUME NEW j \in Job, KillJob(j) PROVE OutputMoves(k)
  BY <1>0, <1>8 DEF KillJob, TypeOK, Active
<1>9. ASSUME NEW j \in Job, Kill(j) \/ Stop(j) \/ \E o \in Owner : JobKill(o, j) PROVE OutputMoves(k)
  BY <1>8, <1>9 DEF Kill, Stop, JobKill
<1>10. ASSUME NEW j \in Job, Promote(j) PROVE OutputMoves(k)
  BY <1>10, ReadMoves DEF Promote
<1>11. ASSUME NEW j \in Job, StopTimesOut(j) PROVE OutputMoves(k)
  BY <1>0, <1>11 DEF StopTimesOut
<1>12. ASSUME NEW o \in Owner, NEW j \in Job, JobOutput(o, j) PROVE OutputMoves(k)
  BY <1>12, ReadMoves DEF JobOutput
<1>13. ASSUME NEW w \in Reader, NEW j \in Job, Wait(w, j) PROVE OutputMoves(k)
  BY <1>0, <1>13 DEF Wait
<1>14. ASSUME NEW w \in Reader, WaitTimesOut(w) PROVE OutputMoves(k)
  <2>1. awaits[w] \in Job
    BY <1>14 DEF WaitTimesOut, CallInv
  <2>2. ReadJob(awaits[w]) /\ UNCHANGED status
    BY <1>14 DEF WaitTimesOut
  <2> QED BY <2>1, <2>2, ReadMoves
<1>15. ASSUME NEW w \in Reader, WaitAborts(w) PROVE OutputMoves(k)
  BY <1>0, <1>15 DEF WaitAborts
<1>16. ASSUME NEW c \in Call, CallReturns(c) PROVE OutputMoves(k)
  <2>1. UNCHANGED status /\ awaits[c] \in Job
    BY <1>16 DEF CallReturns, CallInv
  <2>2. CASE c \in Foreground
    BY <1>0, <1>16, <2>1, <2>2 DEF CallReturns
  <2>3. CASE c \notin Foreground
    <3>1. ReadJob(awaits[c])
      BY <1>16, <2>3 DEF CallReturns
    <3> QED BY <2>1, <3>1, ReadMoves
  <2> QED BY <2>2, <2>3
<1>17. ASSUME NEW o \in Owner, OwnerLeaves(o) \/ OwnerUnused(o) \/ OwnerCleaned(o) PROVE OutputMoves(k)
  BY <1>0, <1>17 DEF OwnerLeaves, OwnerUnused, OwnerCleaned
<1>18. ASSUME NEW o \in Owner, OwnerCleans(o) PROVE OutputMoves(k)
  <2> DEFINE S == {j \in listed : owner[j] = o}
  <2>1. CancelForTeardown(S) /\ S \in SUBSET Job
    BY <1>18 DEF OwnerCleans, TypeOK
  <2> QED BY <2>1, TeardownMoves
<1>19. ASSUME DisposeAll PROVE OutputMoves(k)
  <2>1. CancelForTeardown(listed) /\ listed \in SUBSET Job
    BY <1>19 DEF DisposeAll, TypeOK
  <2> QED BY <2>1, TeardownMoves
<1>20. ASSUME AllDisposed PROVE OutputMoves(k)
  BY <1>0, <1>20 DEF AllDisposed
<1>21. CASE UNCHANGED vars
  BY <1>0, <1>21 DEF vars
<1> QED
  BY <1>1, <1>2, <1>3, <1>4, <1>5, <1>6, <1>7, <1>9, <1>10, <1>11, <1>12, <1>13, <1>14, <1>15,
     <1>16, <1>17, <1>18, <1>19, <1>20, <1>21 DEF Next, Producer, Control, Teardown

LEMMA RingStep ==
  ASSUME IInv, RingInv, [Next]_vars
  PROVE  RingInv'
<1> SUFFICES ASSUME NEW j \in Job
             PROVE  /\ \A at \in ring'[j] : at <= total'[j]
                    /\ Placed(cursor'[j], ring'[j], total'[j])
                    /\ j \notin Pumped /\ status'[j] \notin Terminal => total'[j] = produced'[j]
  BY DEF RingInv, Placed
<1>1. /\ total[j] \in Nat /\ produced[j] \in Nat /\ cursor[j] \in Nat /\ ring[j] \in SUBSET Nat
      /\ cursor[j] <= total[j] /\ total[j] <= produced[j] /\ RetainBytes \in Nat /\ SettledRetainBytes \in Nat
  BY JobAssumption DEF IInv, TypeOK, OffsetInv, JobAssumption
<1>2. /\ \A at \in ring[j] : at <= total[j]
      /\ Placed(cursor[j], ring[j], total[j])
      /\ j \notin Pumped /\ status[j] \notin Terminal => total[j] = produced[j]
  BY DEF RingInv
<1>3. OutputMoves(j)
  BY EveryMove DEF IInv
<1>4. status'[j] \notin Terminal => status[j] \notin Terminal
  <2>1. announced[j] # "none" => status'[j] = status[j]
    BY SettledStays DEF IInv
  <2> QED BY <2>1 DEF IInv, HeardInv
<1>5. CASE SameOutput(j)
  BY <1>2, <1>4, <1>5 DEF SameOutput
<1>6. CASE ReadsOutput(j)
  <2>1. \A at \in Trim(ring[j], total[j], SettledRetainBytes) : at <= total[j]
    BY <1>1, <1>2, TrimPlaces
  <2> QED BY <1>2, <1>6, <2>1 DEF ReadsOutput, Placed
<1>7. CASE WritesOutput(j)
  BY <1>2, <1>7 DEF WritesOutput
<1>8. CASE PushesOutput(j)
  <2>1. PICK n \in Nat :
          /\ produced'[j] = produced[j] + n /\ total'[j] = total[j] + n
          /\ ring'[j] = Trim(ring[j] \cup {total[j]}, total[j] + n, RetainBytes)
    BY <1>8 DEF PushesOutput
  <2>2. total[j] + n \in Nat /\ total[j] <= total[j] + n
    BY <1>1
  <2>3. /\ \A at \in Trim(ring[j] \cup {total[j]}, total[j] + n, RetainBytes) : at <= total[j] + n
        /\ Placed(cursor[j], Trim(ring[j] \cup {total[j]}, total[j] + n, RetainBytes), total[j] + n)
    BY <1>1, <1>2, <2>2, ChunkPlaces
  <2>4. status'[j] = status[j] /\ cursor'[j] = cursor[j]
    BY <1>8 DEF PushesOutput
  <2> QED BY <1>2, <2>1, <2>3, <2>4
<1>9. CASE PumpsOutput(j)
  <2>1. status[j] \notin Terminal
    BY <1>9 DEF PumpsOutput, Active, Terminal
  <2>2. /\ total[j] + Behind(j) = produced[j]
        /\ \A at \in Drained(j) : at <= produced[j]
        /\ Placed(cursor[j], Drained(j), produced[j])
    BY <2>1, DrainPlaces DEF IInv
  <2> QED BY <1>9, <2>2 DEF PumpsOutput
<1>10. CASE SettlesOutput(j)
  <2>1. status[j] \notin Terminal
    BY <1>10 DEF SettlesOutput, Active, Terminal
  <2>2. /\ total[j] + Behind(j) = produced[j]
        /\ \A at \in Drained(j) : at <= produced[j]
        /\ Placed(cursor[j], Drained(j), produced[j])
    BY <2>1, DrainPlaces DEF IInv
  <2>3. Drained(j) \in SUBSET Nat
    BY DrainType DEF IInv
  <2>4. /\ total'[j] = produced[j] /\ produced'[j] = produced[j] /\ cursor'[j] = cursor[j]
        /\ ring'[j] = Trim(Drained(j), produced[j], SettledCap(j))
    BY <1>10, <2>2 DEF SettlesOutput
  <2>5. SettledCap(j) \in Nat
    BY <1>1, <2>4 DEF SettledCap, Larger
  <2>6. cursor[j] <= produced[j]
    BY <1>1
  <2>7. /\ \A at \in Trim(Drained(j), produced[j], SettledCap(j)) : at <= produced[j]
        /\ Placed(cursor[j], Trim(Drained(j), produced[j], SettledCap(j)), produced[j])
    BY <1>1, <2>2, <2>3, <2>5, <2>6, TrimPlaces
  <2> QED BY <2>4, <2>7
<1>11. CASE FailsOutput(j)
  <2>1. SettledCap(j) \in Nat
    BY <1>1, <1>11 DEF FailsOutput, SettledCap, Larger
  <2>2. /\ \A at \in Trim(ring[j], total[j], SettledCap(j)) : at <= total[j]
        /\ Placed(cursor[j], Trim(ring[j], total[j], SettledCap(j)), total[j])
    BY <1>1, <1>2, <2>1, TrimPlaces
  <2> QED BY <1>11, <2>2 DEF FailsOutput, Terminal
<1> QED BY <1>3, <1>5, <1>6, <1>7, <1>8, <1>9, <1>10, <1>11 DEF OutputMoves

LEMMA RingHolds == Spec => []RingInv
<1>1. Init => RingInv
  BY DEF Init, RingInv, Placed
<1>2. IInv /\ RingInv /\ [Next]_vars => RingInv'
  BY RingStep
<1> QED
  BY <1>1, <1>2, InvariantHolds, PTL DEF Spec

LEMMA SettledWhole ==
  ASSUME IInv, RingInv, [Next]_vars, NEW j \in Job, status[j] \in Active, status'[j] = "settled"
  PROVE  /\ total'[j] = produced[j]
         /\ Earliest(ring'[j], total'[j]) <=
              Larger(cursor[j], Earliest(Drained(j), produced[j]))
<1>1. SettlesOutput(j)
  <2>1. OutputMoves(j)
    BY EveryMove DEF IInv
  <2>2. status[j] # "settled" /\ status[j] \notin Terminal
    BY DEF Active, Terminal
  <2> QED BY <2>1, <2>2 DEF OutputMoves, SameOutput, ReadsOutput, WritesOutput, PushesOutput,
             PumpsOutput, FailsOutput, Active
<1>2. /\ produced[j] \in Nat /\ cursor[j] \in Nat /\ cursor[j] <= produced[j] /\ SettledRetainBytes \in Nat
  BY JobAssumption DEF IInv, TypeOK, OffsetInv, JobAssumption
<1>3. /\ total[j] + Behind(j) = produced[j]
      /\ \A at \in Drained(j) : at <= produced[j]
      /\ Placed(cursor[j], Drained(j), produced[j])
  BY DrainPlaces DEF IInv, Active, Terminal
<1>4. Drained(j) \in SUBSET Nat
  BY DrainType DEF IInv
<1>5. total'[j] = produced[j] /\ ring'[j] = Trim(Drained(j), produced[j], SettledCap(j))
  BY <1>1, <1>3 DEF SettlesOutput
<1>6. SettledCap(j) \in Nat /\ produced[j] - cursor[j] <= SettledCap(j)
  BY <1>2, <1>5 DEF SettledCap, Larger
<1>7. Earliest(Trim(Drained(j), produced[j], SettledCap(j)), produced[j]) <=
        Larger(cursor[j], Earliest(Drained(j), produced[j]))
  BY <1>2, <1>3, <1>4, <1>6, TrimReaches
<1> QED BY <1>5, <1>7

\* A job that its producer settles has the producer's whole output, of which
\* what the live cap kept and the model has not read is still there.
THEOREM SettledJobIsWhole == Spec => OutputComplete
<1>1. IInv /\ RingInv /\ [Next]_vars =>
        [\A j \in Job : status[j] \in Active /\ status'[j] = "settled" =>
           /\ total'[j] = produced[j]
           /\ Earliest(ring'[j], total'[j]) <=
                Larger(cursor[j], Earliest(Drained(j), produced[j]))]_vars
  BY SettledWhole
<1> QED
  BY <1>1, InvariantHolds, RingHolds, PTL DEF Spec, OutputComplete

----------------------------------------------------------------------------
(* What the model is owed.                                                 *)

\* Who has yet to tell the model of the end of job j.
Carried(j) == \E c \in Call : call[c] = "released" /\ awaits[c] = j

Told(j) ==
  /\ status[j] \in Terminal /\ owner[j] # Nobody /\ j \notin torn => heard[j] # {} \/ Carried(j)
  /\ cause[j] = "teardown" => j \in torn
  /\ j \in killedByModel => "kill" \in heard[j]

\* No end of an owned job is lost between the reporter and the calls it leaves it to: unless a
\* teardown canceled the job, the model has heard of it or a released call is about to say it.
NoEndUntold ==
  \A j \in Job : status[j] \in Terminal /\ owner[j] # Nobody /\ j \notin torn =>
    heard[j] # {} \/ Carried(j)

LEMMA ToldStays ==
  ASSUME NEW j \in Job, Told(j), status'[j] \in Terminal => status[j] \in Terminal,
         status'[j] \in Terminal => owner'[j] = owner[j],
         heard[j] \subseteq heard'[j], torn \subseteq torn',
         cause'[j] \in {cause[j], "kill"}, killedByModel' \subseteq killedByModel,
         Carried(j) => Carried(j)' \/ heard'[j] # {}
  PROVE  Told(j)'
<1>1. heard[j] # {} => heard'[j] # {}
  OBVIOUS
<1> QED BY <1>1 DEF Told

\* A call that is released stays so until it returns.
LEMMA CarriedStays ==
  ASSUME NEW j \in Job, \A c \in Call : call[c] = "released" =>
                           call'[c] = "released" /\ awaits'[c] = awaits[c]
  PROVE  Carried(j) => Carried(j)'
  BY DEF Carried

LEMMA ConcludeTells ==
  ASSUME TypeOK, NEW j \in Job, Told(j), NEW S \in SUBSET Job, NEW why, NEW chunks,
         Conclude(S, why, chunks), UNCHANGED <<awaits, owner>>, torn \subseteq torn',
         j \in S /\ why = "teardown" => j \in torn',
         j \notin S /\ status'[j] \in Terminal => status[j] \in Terminal,
         cause'[j] = "teardown" => j \in torn'
  PROVE  Told(j)'
<1>1. /\ \A c \in Call : call'[c] = IF call[c] \in {"waiting", "stopping"} /\ awaits[c] \in S
                                    THEN "released" ELSE call[c]
      /\ killedByModel' = killedByModel \ S
      /\ heard'[j] = heard[j] \cup IF j \in S /\ Reports(j, why) THEN {"notice"} ELSE {}
  BY DEF Conclude
<1>2. Carried(j) => Carried(j)'
  BY <1>1, CarriedStays
<1>3. ASSUME j \in S, owner[j] # Nobody, why # "teardown"
      PROVE  heard'[j] # {} \/ Carried(j)'
  <2>1. CASE Reports(j, why)
    BY <1>1, <1>3, <2>1
  <2>2. CASE j \in killedByModel
    BY <1>1, <2>2 DEF Told
  <2>3. CASE Awaited(j)
    BY <1>1, <1>3, <2>3 DEF Awaited, Carried
  <2> QED BY <1>3, <2>1, <2>2, <2>3 DEF Reports
<1>4. heard[j] # {} => heard'[j] # {}
  BY <1>1
<1>5. status'[j] \in Terminal /\ owner'[j] # Nobody /\ j \notin torn' => heard'[j] # {} \/ Carried(j)'
  BY <1>2, <1>3, <1>4 DEF Told
<1>6. j \in killedByModel' => "kill" \in heard'[j]
  BY <1>1 DEF Told
<1> QED BY <1>5, <1>6 DEF Told

LEMMA TeardownTells ==
  ASSUME TypeOK, NEW j \in Job, Told(j), NEW S \in SUBSET Job, CancelForTeardown(S),
         UNCHANGED <<awaits, owner>>
  PROVE  Told(j)'
<1>1. PICK T \in SUBSET (S \cap Throwing) :
        LET live   == {k \in S : status[k] \in Active}
            forced == live \cap T
        IN  /\ status' = [k \in Job |-> IF k \in forced THEN "failed"
                                       ELSE IF k \in live THEN "stopping" ELSE status[k]]
            /\ cause' = [k \in Job |-> IF k \in live THEN "teardown" ELSE cause[k]]
            /\ torn' = torn \cup live
            /\ Conclude(forced, "teardown", ring)
  BY DEF CancelForTeardown
<1> DEFINE live == {k \in S : status[k] \in Active}
<1>2. live \cap T \in SUBSET Job
  OBVIOUS
<1>3. /\ torn \subseteq torn' /\ (j \in live \cap T => j \in torn')
      /\ (j \notin live \cap T /\ status'[j] \in Terminal => status[j] \in Terminal)
  BY <1>1 DEF Terminal
<1>4. cause'[j] = "teardown" => j \in torn'
  BY <1>1 DEF Told
<1>5. Conclude(live \cap T, "teardown", ring)
  BY <1>1
<1> QED BY <1>2, <1>3, <1>4, <1>5, ConcludeTells

LEMMA ToldStep ==
  ASSUME TypeOK, CallInv, NEW j \in Job, Told(j), [Next]_vars
  PROVE  Told(j)'
<1> USE JobAssumption DEF JobAssumption, Call
<1>1. ASSUME NEW k \in Job, NEW o \in Owner \cup {Nobody}, StartRefused(k, o) PROVE Told(j)'
  BY <1>1, CarriedStays, ToldStays DEF StartRefused, Admission, calls, settling
<1>2. ASSUME NEW k \in Job, NEW o \in Owner \cup {Nobody}, Start(k, o) PROVE Told(j)'
  <2>1. ASSUME NEW c \in Call, call[c] = "released" PROVE c # k
    BY <1>2, <2>1 DEF Start, CallInv, Terminal
  <2>2. Carried(j) => Carried(j)'
    BY <1>2, <2>1, CarriedStays DEF Start
  <2> QED BY <1>2, <2>2, ToldStays DEF Start, TypeOK, Terminal, settling
<1>3. ASSUME NEW k \in Job, Settles(k) PROVE Told(j)'
  <2>1. /\ Conclude({k}, cause[k], [ring EXCEPT ![k] = Drained(k)])
        /\ UNCHANGED <<awaits, owner, torn, cause>>
        /\ j # k => status'[j] = status[j]
    BY <1>3 DEF Settles, calls, owners, TypeOK
  <2> QED BY <2>1, ConcludeTells DEF Told
<1>4. ASSUME NEW k \in Job,
             \/ ProducerEnds(k) \/ PumpPolls(k)
             \/ \E n \in 1..Budget[k] : SourceWrites(k, n) \/ Push(k, n)
      PROVE  Told(j)'
  BY <1>4, CarriedStays, ToldStays
     DEF ProducerEnds, PumpPolls, SourceWrites, Push, calls, owners, settling
<1>5. ASSUME NEW k \in Job, Kill(k) \/ Stop(k) PROVE Told(j)'
  <2>1. /\ UNCHANGED <<awaits, owners, heard, killedByModel, torn>>
        /\ \A c \in Call : call[c] = "released" => call'[c] = "released"
    BY <1>5 DEF Kill, Stop, KillJob, calls, TypeOK
  <2>2. status'[j] \in {status[j], "stopping"} /\ cause'[j] \in {cause[j], "kill"}
    BY <1>5 DEF Kill, Stop, KillJob, TypeOK
  <2> QED BY <2>1, <2>2, CarriedStays, ToldStays DEF owners, Terminal
<1>6. ASSUME NEW k \in Job, Promote(k) \/ StopTimesOut(k) PROVE Told(j)'
  <2>1. /\ UNCHANGED <<status, cause, awaits, owners, heard, killedByModel, torn>>
        /\ \A c \in Call : call[c] = "released" => call'[c] = "released"
    BY <1>6 DEF Promote, StopTimesOut, settling, TypeOK
  <2> QED BY <2>1, CarriedStays, ToldStays DEF owners
<1>7. ASSUME NEW o \in Owner, NEW k \in Job, JobKill(o, k) PROVE Told(j)'
  <2>1. /\ UNCHANGED <<calls, owner, torn>> /\ status'[j] \in {status[j], "stopping"}
        /\ cause'[j] \in {cause[j], "kill"} /\ killedByModel' = killedByModel \cup {k}
        /\ heard'[j] = heard[j] \cup IF j = k THEN {"kill"} ELSE {}
    BY <1>7 DEF JobKill, KillJob, owners, TypeOK
  <2>2. Carried(j) => Carried(j)'
    BY <2>1, CarriedStays DEF calls
  <2>3. (heard[j] # {} => heard'[j] # {}) /\ (j \in killedByModel' => "kill" \in heard'[j])
    BY <2>1 DEF Told
  <2> QED BY <2>1, <2>2, <2>3 DEF Told, Terminal
<1>8. ASSUME NEW o \in Owner, NEW k \in Job, JobOutput(o, k) PROVE Told(j)'
  BY <1>8, CarriedStays, ToldStays DEF JobOutput, calls, owners, settling
<1>9. ASSUME NEW w \in Reader, NEW k \in Job, Wait(w, k) \/ WaitTimesOut(w) \/ WaitAborts(w)
      PROVE  Told(j)'
  <2>1. /\ UNCHANGED <<status, cause, owners, heard, killedByModel, torn>>
        /\ \A c \in Call : call[c] = "released" => call'[c] = "released" /\ awaits'[c] = awaits[c]
    BY <1>9 DEF Wait, WaitTimesOut, WaitAborts, settling, TypeOK
  <2> QED BY <2>1, CarriedStays, ToldStays DEF owners
<1>10. ASSUME NEW c \in Call, CallReturns(c) PROVE Told(j)'
  <2>1. /\ UNCHANGED <<status, cause, owners, killedByModel, torn>> /\ call[c] = "released"
        /\ \A d \in Call : d # c => call'[d] = call[d] /\ awaits'[d] = awaits[d]
        /\ heard'[j] = heard[j] \cup IF awaits[c] = j THEN {"wait"} ELSE {}
    BY <1>10 DEF CallReturns, TypeOK
  <2>2. Carried(j) => Carried(j)' \/ heard'[j] # {}
    BY <2>1 DEF Carried
  <2> QED BY <2>1, <2>2, ToldStays DEF owners
<1>11. ASSUME NEW o \in Owner, OwnerLeaves(o) \/ OwnerUnused(o) PROVE Told(j)'
  BY <1>11, CarriedStays, ToldStays DEF OwnerLeaves, OwnerUnused, calls, settling
<1>12. ASSUME NEW o \in Owner, OwnerCleans(o) PROVE Told(j)'
  <2>1. {k \in listed : owner[k] = o} \in SUBSET Job
    BY DEF TypeOK
  <2> QED BY <1>12, <2>1, TeardownTells DEF OwnerCleans
<1>13. ASSUME NEW o \in Owner, OwnerCleaned(o) PROVE Told(j)'
  BY <1>13, CarriedStays, ToldStays DEF OwnerCleaned, calls
<1>14. CASE DisposeAll
  BY <1>14, TeardownTells DEF DisposeAll, owners, TypeOK
<1>15. CASE AllDisposed
  BY <1>15, CarriedStays, ToldStays DEF AllDisposed, calls
<1>16. CASE UNCHANGED vars
  BY <1>16, CarriedStays, ToldStays DEF vars, calls, owners, settling
<1>17. ASSUME NEW k \in Job, Producer(k) \/ Control(k) PROVE Told(j)'
  <2>1. CASE Producer(k)
    BY <2>1, <1>1, <1>2, <1>3, <1>4 DEF Producer
  <2>2. CASE Control(k)
    BY <2>2, <1>5, <1>6, <1>7, <1>8, <1>9 DEF Control
  <2> QED BY <1>17, <2>1, <2>2
<1> QED BY <1>9, <1>10, <1>11, <1>12, <1>13, <1>14, <1>15, <1>16, <1>17 DEF Next, Teardown

\* However settlements, waits, kills and timeouts interleave, the end of a job is told by the
\* reporter or left to a call that will tell it: the safety half of EndReachesModel.
THEOREM NoEndIsLost == Spec => []NoEndUntold
<1> DEFINE Inv == \A j \in Job : Told(j)
<1>1. Init => Inv
  BY DEF Init, Told, Terminal
<1>2. IInv /\ Inv /\ [Next]_vars => Inv'
  BY ToldStep DEF IInv
<1>3. Inv => NoEndUntold
  BY DEF Told, NoEndUntold
<1> HIDE DEF Inv
<1> QED BY <1>1, <1>2, <1>3, InvariantHolds, PTL DEF Spec

----------------------------------------------------------------------------
(* The end of a disposal.                                                  *)

\* What a disposal waits for: the live jobs of S, and the calls on its jobs.
LiveOf(S) == {j \in S : status[j] \in Active}
CallsOn(S) == {c \in Call : call[c] # "idle" /\ awaits[c] \in S}

\* A disposal waits only for producers that have been canceled.
WaitsOnCanceled ==
  /\ \A o \in Owner : life[o] = "cleaning" =>
       \A j \in leaving[o] : status[j] \in Active => j \in canceled
  /\ service = "cleaning" => \A j \in all : status[j] \in Active => j \in canceled

\* Nothing joins what a disposal that has begun waits for.
NoneJoins ==
  [][/\ \A o \in Owner : life[o] = "cleaning" /\ life'[o] = "cleaning" =>
          /\ leaving'[o] = leaving[o]
          /\ LiveOf(leaving[o])' \subseteq LiveOf(leaving[o])
          /\ CallsOn(leaving[o])' \subseteq CallsOn(leaving[o])
     /\ service = "cleaning" /\ service' = "cleaning" =>
          /\ all' = all
          /\ LiveOf(all)' \subseteq LiveOf(all) /\ CallsOn(all)' \subseteq CallsOn(all)]_vars

\* The jobs of a disposal are being stopped or have settled, and are its owner's.
DisposalInv ==
  /\ \A j \in Job : status[j] = "stopping" => j \in canceled
  /\ \A o \in Owner : life[o] = "cleaning" =>
       \A j \in leaving[o] : owner[j] = o /\ status[j] \in Terminal \cup {"stopping"}
  /\ service = "cleaning" => \A j \in all : status[j] \in Terminal \cup {"stopping"}

\* The kinds of step a job takes: none, its start, a cancel that returns, its end.
WorkMoves(j) ==
  /\ canceled \subseteq canceled'
  /\ status[j] # "unborn" => owner'[j] = owner[j]
  /\ \/ status'[j] = status[j]
     \/ status[j] = "unborn" /\ status'[j] = "running"
     \/ status[j] \in Active /\ status'[j] = "stopping" /\ j \in canceled'
     \/ status[j] \in Active /\ status'[j] \in Terminal

\* The kinds of step a call takes: it keeps its job or is over, it starts the job it waits
\* for, or it begins to wait for one its live agent can reach.
CallMoves(c) ==
  call'[c] # "idle" =>
    \/ call[c] # "idle" /\ awaits'[c] = awaits[c]
    \/ service = "up" /\ c \in Job /\ status[c] = "unborn" /\ awaits'[c] = c
    \/ /\ service = "up" /\ c \in Reader /\ life[Caller[c]] = "live"
       /\ awaits'[c] \in Job /\ owner[awaits'[c]] \in {Caller[c], Nobody}

\* A teardown leaves no job of S that was born running.
LEMMA TeardownStops ==
  ASSUME TypeOK, NEW j \in Job, NEW S \in SUBSET Job, CancelForTeardown(S),
         UNCHANGED <<awaits, owner>>
  PROVE  /\ WorkMoves(j) /\ \A c \in Call : CallMoves(c)
         /\ j \in S /\ status[j] # "unborn" => status'[j] \in Terminal \cup {"stopping"}
<1>1. PICK T \in SUBSET (S \cap Throwing) :
        LET live   == {k \in S : status[k] \in Active}
            forced == live \cap T
        IN  /\ status' = [k \in Job |-> IF k \in forced THEN "failed"
                                       ELSE IF k \in live THEN "stopping" ELSE status[k]]
            /\ canceled' = canceled \cup (live \ forced)
            /\ Conclude(forced, "teardown", ring)
  BY DEF CancelForTeardown
<1> DEFINE live == {k \in S : status[k] \in Active}
<1>2. /\ canceled' = canceled \cup (live \ (live \cap T))
      /\ status'[j] = IF j \in live \cap T THEN "failed"
                      ELSE IF j \in live THEN "stopping" ELSE status[j]
  BY <1>1
<1>3. Conclude(live \cap T, "teardown", ring)
  BY <1>1
<1>4. \A c \in Call : call'[c] # "idle" => call[c] # "idle"
  BY <1>3 DEF Conclude
<1>5. WorkMoves(j)
  BY <1>2 DEF WorkMoves, Active, Terminal
<1>6. j \in S /\ status[j] # "unborn" => status'[j] \in Terminal \cup {"stopping"}
  BY <1>2 DEF TypeOK, Active, Terminal
<1> QED BY <1>4, <1>5, <1>6 DEF CallMoves

\* Every step moves each job and each call in one of these ways.
LEMMA WorkStep ==
  ASSUME TypeOK, CallInv, NEW j \in Job, [Next]_vars
  PROVE  WorkMoves(j) /\ \A c \in Call : CallMoves(c)
<1> USE JobAssumption DEF JobAssumption, Call
<1>1. ASSUME NEW k \in Job, NEW o \in Owner \cup {Nobody}, StartRefused(k, o)
      PROVE  WorkMoves(j) /\ \A c \in Call : CallMoves(c)
  BY <1>1 DEF StartRefused, calls, WorkMoves, CallMoves
<1>2. ASSUME NEW k \in Job, NEW o \in Owner \cup {Nobody}, Start(k, o)
      PROVE  WorkMoves(j) /\ \A c \in Call : CallMoves(c)
  <2>1. WorkMoves(j)
    BY <1>2 DEF Start, WorkMoves, TypeOK
  <2>2. ASSUME NEW c \in Call PROVE CallMoves(c)
    <3>1. CASE c = k
      <4>1. c \in Foreground
        BY <3>1
      <4> QED BY <1>2, <3>1, <4>1 DEF Start, Admission, CallMoves, CallInv
    <3>2. CASE c # k
      BY <1>2, <3>2 DEF Start, CallMoves
    <3> QED BY <3>1, <3>2
  <2> QED BY <2>1, <2>2
<1>3. ASSUME NEW k \in Job, Settles(k) PROVE WorkMoves(j) /\ \A c \in Call : CallMoves(c)
  <2>1. \A c \in Call : call'[c] # "idle" => call[c] # "idle"
    BY <1>3 DEF Settles, Conclude
  <2> QED BY <1>3, <2>1 DEF Settles, WorkMoves, CallMoves, TypeOK, Terminal, owners
<1>4. ASSUME NEW k \in Job,
             \/ ProducerEnds(k) \/ PumpPolls(k)
             \/ \E n \in 1..Budget[k] : SourceWrites(k, n) \/ Push(k, n)
      PROVE  WorkMoves(j) /\ \A c \in Call : CallMoves(c)
  BY <1>4 DEF ProducerEnds, PumpPolls, SourceWrites, Push, calls, owners, WorkMoves, CallMoves
<1>5. ASSUME NEW k \in Job, Kill(k) \/ Stop(k) \/ \E o \in Owner : JobKill(o, k)
      PROVE  WorkMoves(j) /\ \A c \in Call : CallMoves(c)
  <2>1. KillJob(k) /\ awaits' = awaits
    BY <1>5 DEF Kill, Stop, JobKill, calls
  <2>2. WorkMoves(j)
    BY <2>1 DEF KillJob, WorkMoves, owners, TypeOK
  <2>3. \A c \in Call : call'[c] # "idle" => call[c] # "idle"
    BY <1>5 DEF Kill, Stop, JobKill, calls, TypeOK
  <2> QED BY <2>1, <2>2, <2>3 DEF CallMoves
<1>6. ASSUME NEW k \in Job, Promote(k) \/ StopTimesOut(k) \/ \E o \in Owner : JobOutput(o, k)
      PROVE  WorkMoves(j) /\ \A c \in Call : CallMoves(c)
  <2>1. UNCHANGED <<status, canceled, owner, awaits>>
    BY <1>6 DEF Promote, StopTimesOut, JobOutput, owners, calls
  <2>2. \A c \in Call : call'[c] # "idle" => call[c] # "idle"
    BY <1>6 DEF Promote, StopTimesOut, JobOutput, calls, TypeOK
  <2> QED BY <2>1, <2>2 DEF WorkMoves, CallMoves
<1>7. ASSUME NEW w \in Reader, NEW k \in Job, Wait(w, k)
      PROVE  WorkMoves(j) /\ \A c \in Call : CallMoves(c)
  <2>1. WorkMoves(j)
    BY <1>7 DEF Wait, WorkMoves, owners
  <2>2. ASSUME NEW c \in Call PROVE CallMoves(c)
    BY <1>7 DEF Wait, Reachable, CallMoves, TypeOK
  <2> QED BY <2>1, <2>2
<1>8. ASSUME NEW w \in Reader, WaitTimesOut(w) \/ WaitAborts(w)
      PROVE  WorkMoves(j) /\ \A c \in Call : CallMoves(c)
  <2>1. UNCHANGED <<status, canceled, owner>>
    BY <1>8 DEF WaitTimesOut, WaitAborts, owners
  <2>2. \A c \in Call : call'[c] # "idle" => call[c] # "idle" /\ awaits'[c] = awaits[c]
    BY <1>8 DEF WaitTimesOut, WaitAborts, TypeOK
  <2> QED BY <2>1, <2>2 DEF WorkMoves, CallMoves
<1>9. ASSUME NEW d \in Call, CallReturns(d) PROVE WorkMoves(j) /\ \A c \in Call : CallMoves(c)
  <2>1. UNCHANGED <<status, canceled, owner>>
    BY <1>9 DEF CallReturns, owners
  <2>2. \A c \in Call : call'[c] # "idle" => call[c] # "idle" /\ awaits'[c] = awaits[c]
    BY <1>9 DEF CallReturns, TypeOK
  <2> QED BY <2>1, <2>2 DEF WorkMoves, CallMoves
<1>10. ASSUME NEW o \in Owner, OwnerLeaves(o) \/ OwnerUnused(o) \/ OwnerCleaned(o)
       PROVE  WorkMoves(j) /\ \A c \in Call : CallMoves(c)
  BY <1>10 DEF OwnerLeaves, OwnerUnused, OwnerCleaned, calls, WorkMoves, CallMoves
<1>11. ASSUME NEW o \in Owner, OwnerCleans(o) PROVE WorkMoves(j) /\ \A c \in Call : CallMoves(c)
  <2>1. {k \in listed : owner[k] = o} \in SUBSET Job
    BY DEF TypeOK
  <2> QED BY <1>11, <2>1, TeardownStops DEF OwnerCleans
<1>12. CASE DisposeAll
  BY <1>12, TeardownStops DEF DisposeAll, owners, TypeOK
<1>13. CASE AllDisposed \/ UNCHANGED vars
  BY <1>13 DEF AllDisposed, vars, calls, owners, WorkMoves, CallMoves
<1>14. ASSUME NEW k \in Job, Producer(k) \/ Control(k)
       PROVE  WorkMoves(j) /\ \A c \in Call : CallMoves(c)
  <2>1. CASE Producer(k)
    BY <2>1, <1>1, <1>2, <1>3, <1>4 DEF Producer
  <2>2. CASE Control(k)
    BY <2>2, <1>5, <1>6, <1>7 DEF Control
  <2> QED BY <1>14, <2>1, <2>2
<1> QED BY <1>8, <1>9, <1>10, <1>11, <1>12, <1>13, <1>14 DEF Next, Teardown

\* A disposal keeps what it waits for from its first step on.
LEMMA ScopeStep ==
  ASSUME TypeOK, [Next]_vars
  PROVE  /\ \A o \in Owner : life'[o] = "cleaning" =>
              OwnerCleans(o) \/ (life[o] = "cleaning" /\ leaving'[o] = leaving[o])
         /\ service' = "cleaning" => DisposeAll \/ (service = "cleaning" /\ all' = all)
<1>1. ASSUME NEW o \in Owner, OwnerLeaves(o) \/ OwnerUnused(o) \/ OwnerCleaned(o)
      PROVE  /\ UNCHANGED <<service, all>>
             /\ \A p \in Owner : life'[p] = "cleaning" =>
                  life[p] = "cleaning" /\ leaving'[p] = leaving[p]
  BY <1>1 DEF OwnerLeaves, OwnerUnused, OwnerCleaned, backend, TypeOK
<1>2. ASSUME NEW o \in Owner, OwnerCleans(o)
      PROVE  /\ UNCHANGED <<service, all>>
             /\ \A p \in Owner : life'[p] = "cleaning" =>
                  OwnerCleans(p) \/ (life[p] = "cleaning" /\ leaving'[p] = leaving[p])
  <2>1. /\ UNCHANGED <<service, all>>
        /\ \A p \in Owner : p # o => life'[p] = life[p] /\ leaving'[p] = leaving[p]
    BY <1>2 DEF OwnerCleans, backend, TypeOK
  <2> QED BY <1>2, <2>1
<1>3. CASE DisposeAll \/ AllDisposed
  BY <1>3 DEF DisposeAll, AllDisposed, owners
<1>4. ASSUME NEW j \in Job, Producer(j) PROVE UNCHANGED <<life, leaving, service, all>>
  BY <1>4 DEF Producer, StartRefused, Start, ProducerEnds, PumpPolls, Settles, SourceWrites,
     Push, owners, backend
<1>5. ASSUME NEW j \in Job, Control(j) PROVE UNCHANGED <<life, leaving, service, all>>
  BY <1>5 DEF Control, Kill, KillJob, Promote, Stop, StopTimesOut, JobKill, JobOutput, Wait,
     owners, backend
<1>6. CASE \/ \E w \in Reader : WaitTimesOut(w) \/ WaitAborts(w)
           \/ \E c \in Call : CallReturns(c)
           \/ UNCHANGED vars
  BY <1>6 DEF WaitTimesOut, WaitAborts, CallReturns, vars, owners, backend
<1> QED BY <1>1, <1>2, <1>3, <1>4, <1>5, <1>6 DEF Next, Teardown

LEMMA DisposalStep ==
  ASSUME IInv, DisposalInv, [Next]_vars
  PROVE  DisposalInv'
<1>1. TypeOK /\ CallInv /\ TypeOK'
  BY StepIInv DEF IInv
<1>2. \A j \in Job : WorkMoves(j)
  BY <1>1, WorkStep
<1>3. \A j \in listed : j \in Job /\ status[j] # "unborn"
  BY DEF IInv, HeardInv, TypeOK
<1>4. ASSUME NEW j \in Job, status'[j] = "stopping" PROVE j \in canceled'
  BY <1>2, <1>4 DEF WorkMoves, DisposalInv, Terminal
<1>5. ASSUME NEW j \in Job, status[j] \in Terminal \cup {"stopping"}
      PROVE  owner'[j] = owner[j] /\ status'[j] \in Terminal \cup {"stopping"}
  BY <1>2, <1>5 DEF WorkMoves, Terminal
<1>6. ASSUME NEW o \in Owner, life'[o] = "cleaning", NEW j \in leaving'[o]
      PROVE  owner'[j] = o /\ status'[j] \in Terminal \cup {"stopping"}
  <2>1. CASE OwnerCleans(o)
    <3>1. /\ leaving'[o] = {k \in listed : owner[k] = o}
          /\ CancelForTeardown({k \in listed : owner[k] = o}) /\ UNCHANGED <<awaits, owner>>
      BY <1>1, <2>1 DEF OwnerCleans, TypeOK
    <3>2. {k \in listed : owner[k] = o} \in SUBSET Job
      BY <1>1 DEF TypeOK
    <3>3. j \in {k \in listed : owner[k] = o}
      BY <1>6, <3>1
    <3> QED BY <1>1, <1>3, <3>1, <3>2, <3>3, TeardownStops
  <2>2. CASE life[o] = "cleaning" /\ leaving'[o] = leaving[o]
    <3>1. j \in Job /\ owner[j] = o /\ status[j] \in Terminal \cup {"stopping"}
      BY <1>1, <1>6, <2>2 DEF DisposalInv, TypeOK
    <3> QED BY <1>5, <3>1
  <2> QED BY <1>1, <1>6, <2>1, <2>2, ScopeStep
<1>7. ASSUME service' = "cleaning", NEW j \in all'
      PROVE  status'[j] \in Terminal \cup {"stopping"}
  <2>1. CASE DisposeAll
    <3>1. all' = listed /\ CancelForTeardown(listed) /\ UNCHANGED <<awaits, owner>>
      BY <2>1 DEF DisposeAll, owners
    <3>2. listed \in SUBSET Job /\ j \in listed
      BY <1>1, <1>7, <3>1 DEF TypeOK
    <3> QED BY <1>1, <1>3, <3>1, <3>2, TeardownStops
  <2>2. CASE service = "cleaning" /\ all' = all
    <3>1. j \in Job /\ status[j] \in Terminal \cup {"stopping"}
      BY <1>1, <1>7, <2>2 DEF DisposalInv, TypeOK
    <3> QED BY <1>5, <3>1
  <2> QED BY <1>1, <1>7, <2>1, <2>2, ScopeStep
<1> QED BY <1>4, <1>6, <1>7 DEF DisposalInv

LEMMA DisposalHolds == Spec => []DisposalInv
<1>1. Init => DisposalInv
  BY DEF Init, DisposalInv
<1> QED BY <1>1, DisposalStep, InvariantHolds, PTL DEF Spec

\* Whatever a disposal of an agent or of the registry awaits has settled or has been told to
\* stop: the first part of why DisposalEnds holds.
THEOREM DisposalHasStopped == Spec => []WaitsOnCanceled
<1>1. IInv /\ DisposalInv => WaitsOnCanceled
  <2> SUFFICES ASSUME IInv, DisposalInv PROVE WaitsOnCanceled
    OBVIOUS
  <2>1. \A j \in Job : status[j] \in Active /\ status[j] \in Terminal \cup {"stopping"}
                         => j \in canceled
    BY DEF DisposalInv, Active, Terminal
  <2>2. all \subseteq Job /\ \A o \in Owner : leaving[o] \subseteq Job
    BY DEF IInv, TypeOK
  <2> QED BY <2>1, <2>2 DEF DisposalInv, WaitsOnCanceled
<1> QED BY <1>1, DisposalHolds, InvariantHolds, PTL

LEMMA DisposalNarrows ==
  ASSUME IInv, DisposalInv, Next
  PROVE  /\ \A o \in Owner : life[o] = "cleaning" /\ life'[o] = "cleaning" =>
              /\ leaving'[o] = leaving[o]
              /\ LiveOf(leaving[o])' \subseteq LiveOf(leaving[o])
              /\ CallsOn(leaving[o])' \subseteq CallsOn(leaving[o])
         /\ service = "cleaning" /\ service' = "cleaning" =>
              /\ all' = all
              /\ LiveOf(all)' \subseteq LiveOf(all) /\ CallsOn(all)' \subseteq CallsOn(all)
<1>1. TypeOK /\ CallInv
  BY DEF IInv
<1>2. \A j \in Job : WorkMoves(j) /\ \A c \in Call : CallMoves(c)
  BY <1>1, WorkStep
<1>3. ASSUME NEW j \in Job, status[j] \in Terminal \cup {"stopping"}, status'[j] \in Active
      PROVE  status[j] \in Active
  BY <1>2, <1>3 DEF WorkMoves, Active, Terminal
<1>4. ASSUME NEW o \in Owner, life[o] = "cleaning", life'[o] = "cleaning"
      PROVE  /\ leaving'[o] = leaving[o]
             /\ LiveOf(leaving[o])' \subseteq LiveOf(leaving[o])
             /\ CallsOn(leaving[o])' \subseteq CallsOn(leaving[o])
  <2>1. leaving'[o] = leaving[o]
    BY <1>1, <1>4, ScopeStep DEF OwnerCleans
  <2>2. \A j \in leaving[o] : j \in Job /\ owner[j] = o /\ status[j] \in Terminal \cup {"stopping"}
    BY <1>1, <1>4 DEF DisposalInv, TypeOK
  <2>3. LiveOf(leaving[o])' \subseteq LiveOf(leaving[o])
    BY <1>3, <2>1, <2>2 DEF LiveOf
  <2>4. ASSUME NEW c \in Call, call'[c] # "idle", awaits'[c] \in leaving[o]
        PROVE  call[c] # "idle" /\ awaits[c] \in leaving[o]
    BY <1>2, <1>4, <2>2, <2>4, JobAssumption DEF CallMoves, JobAssumption, Terminal
  <2>5. CallsOn(leaving[o])' \subseteq CallsOn(leaving[o])
    BY <2>1, <2>4 DEF CallsOn
  <2> QED BY <2>1, <2>3, <2>5
<1>5. ASSUME service = "cleaning", service' = "cleaning"
      PROVE  /\ all' = all
             /\ LiveOf(all)' \subseteq LiveOf(all) /\ CallsOn(all)' \subseteq CallsOn(all)
  <2>1. all' = all
    BY <1>1, <1>5, ScopeStep DEF DisposeAll
  <2>2. \A j \in all : j \in Job /\ status[j] \in Terminal \cup {"stopping"}
    BY <1>1, <1>5 DEF DisposalInv, TypeOK
  <2>3. LiveOf(all)' \subseteq LiveOf(all)
    BY <1>3, <2>1, <2>2 DEF LiveOf
  <2>4. ASSUME NEW c \in Call, call'[c] # "idle", awaits'[c] \in all
        PROVE  call[c] # "idle" /\ awaits[c] \in all
    BY <1>2, <1>5, <2>2, <2>4 DEF CallMoves
  <2>5. CallsOn(all)' \subseteq CallsOn(all)
    BY <2>1, <2>4 DEF CallsOn
  <2> QED BY <2>1, <2>3, <2>5
<1> QED BY <1>4, <1>5

\* From the first step of a disposal on, no job and no call is added to what it waits for: the
\* second part.
THEOREM DisposalOnlyNarrows == Spec => NoneJoins
<1>1. IInv /\ DisposalInv /\ [Next]_vars =>
        [/\ \A o \in Owner : life[o] = "cleaning" /\ life'[o] = "cleaning" =>
              /\ leaving'[o] = leaving[o]
              /\ LiveOf(leaving[o])' \subseteq LiveOf(leaving[o])
              /\ CallsOn(leaving[o])' \subseteq CallsOn(leaving[o])
         /\ service = "cleaning" /\ service' = "cleaning" =>
              /\ all' = all
              /\ LiveOf(all)' \subseteq LiveOf(all)
              /\ CallsOn(all)' \subseteq CallsOn(all)]_vars
  BY DisposalNarrows
<1> QED BY <1>1, DisposalHolds, InvariantHolds, PTL DEF Spec, NoneJoins
=============================================================================
