--------------------------- MODULE SchedulerProofs ---------------------------
(***************************************************************************)
(* ToolScheduler for any number of calls, any pool size and any faults:    *)
(* the log of the step stays in model order with one answer to a call, the *)
(* scheduler leaves no body behind, and what it reports as not run has not *)
(* run.                                                                    *)
(***************************************************************************)
EXTENDS ToolScheduler, SequenceTheorems, FiniteSetTheorems, NaturalsInduction,
        WellFoundedInduction, TLAPS

(* What the log of a step looks like.                                      *)

Has(l, type, i) == \E k \in 1..Len(l) : l[k].type = type /\ l[k].call = i

\* Events of one type come in model order, so no call has two.
InOrder(l, type) ==
  \A j, k \in 1..Len(l) : j < k /\ l[j].type = type /\ l[k].type = type => l[j].call < l[k].call

\* A result that cites its call follows it.
Cites(l) ==
  \A k \in 1..Len(l) : l[k].type = "result" /\ l[k].code # "notStarted" =>
    \E j \in 1..Len(l) : j < k /\ l[j].type = "call" /\ l[j].call = l[k].call

\* The answered calls are the first ones.
Segment(l) ==
  \A i, j \in Calls : j < i /\ Has(l, "result", i) => Has(l, "result", j)

Orderly(l) == InOrder(l, "call") /\ InOrder(l, "result") /\ Cites(l) /\ Segment(l)

Unrun == {"abortedBefore", "skipped", "notStarted"}

\* What the log reports as not run is not in S.
Honest(l, S) ==
  \A k \in 1..Len(l) : l[k].type = "result" /\ l[k].code \in Unrun => l[k].call \notin S

(* The inductive invariant.                                                *)

At(S) == pc \in S
Working == {"classify", "fill", "prepare", "commit", "finalize", "race"}
Going == Working \cup {"draining", "failed"}
Busy(i) == body[i] \in {"dispatched", "running"}

LogInv ==
  /\ Orderly(log)
  /\ ~lost => Honest(log, invoked) /\ \A i \in invoked : Has(log, "call", i)

\* The window of calls between the next to commit and the next to start.
WindowInv ==
  At(Going) =>
    /\ committed <= nextToStart /\ committed <= last + 1
    /\ nextToStart \in {started, started + 1}
    /\ At({"prepare"}) => nextToStart = started /\ nextToStart <= last
    /\ At({"classify", "fill", "commit", "finalize", "race"}) => nextToStart = started + 1
    /\ At({"classify"}) => next = committed /\ nextToStart = committed
    /\ ~At({"classify"}) => nextToStart <= last + 1
    /\ \A i \in Calls : Has(log, "call", i) <=> i <= started
    /\ \A i \in Calls : Has(log, "result", i) <=> i < committed

\* Where a call is, by its place in the window.
CallInv ==
  At(Going) =>
    \A i \in Calls :
      /\ i >= nextToStart =>
           body[i] = "none" /\ slot[i] = "empty" /\ code[i] = "none" /\ i \notin invoked
      /\ i < committed => slot[i] = "empty" /\ ~Busy(i)
      /\ slot[i] # "empty" => ~Busy(i)
      /\ i >= committed /\ i < nextToStart /\ ~schedulerFailure =>
           slot[i] # "empty" \/ (i \in inFlight /\ Busy(i))
      /\ code[i] = "abortedBefore" => i \notin invoked /\ ~Busy(i)
      /\ Busy(i) => i \in inFlight

\* What is left to do at each await.
PointInv ==
  /\ At({"classify"}) => inFlight = {}
  /\ At({"fill"}) /\ committed <= last /\ slot[committed] # "empty" => committed \in inFlight
  /\ At({"finalize"}) => Ready
  /\ schedulerFailure /\ At(Working) => inFlight # {}
  /\ ~At(Working \cup {"draining"}) => \A i \in Calls : ~Busy(i)
  /\ At({"returned", "closed"}) => \A i \in Calls : Has(log, "result", i)
  /\ lost => At({"crashed", "closed"})

IInv == TypeOK /\ LogInv /\ WindowInv /\ CallInv /\ PointInv
----------------------------------------------------------------------------
(* Induction over a set of naturals, and the answers of a recovery.        *)

LEMMA Related ==
  ASSUME NEW x \in Nat, NEW y \in Nat, y < x
  PROVE  <<y, x>> \in OpToRel(<, Nat)
  BY Zenon DEF OpToRel

LEMMA SetInduction ==
  ASSUME NEW S, 0 \in S, \A n \in Nat : n \in S => n + 1 \in S
  PROVE  \A n \in Nat : n \in S
<1> SUFFICES ASSUME NEW m \in Nat, m \notin S PROVE FALSE
  OBVIOUS
<1> DEFINE T == {n \in Nat : n \notin S}
<1>1. \E x \in T : \A y \in T : <<y, x>> \notin OpToRel(<, Nat)
  <2>1. T \subseteq Nat /\ T # {}
    OBVIOUS
  <2> QED BY <2>1, NatLessThanWellFounded, WFMin
<1>2. PICK x \in T : \A y \in T : <<y, x>> \notin OpToRel(<, Nat)
  BY <1>1
<1>3. x \in Nat \ {0} /\ x - 1 \in Nat
  <2>1. x \in Nat /\ x \notin S
    BY <1>2
  <2>2. x # 0
    BY <2>1
  <2> QED BY <2>1, <2>2
<1>4. x - 1 \notin S
  <2>1. (x - 1) + 1 = x
    BY <1>3
  <2> QED BY <1>2, <1>3, <2>1
<1>5. x - 1 < x /\ x \in Nat
  BY <1>3
<1>6. <<x - 1, x>> \in OpToRel(<, Nat)
  BY <1>3, <1>5, Related
<1> QED BY <1>2, <1>3, <1>4, <1>6

\* A list of answers for the first n calls, as Recovery builds it.
Answers(f, n) ==
  \A i \in 0..n : f[i] =
    IF i = 0 THEN <<>>
    ELSE IF Logged("result", i) THEN f[i - 1]
    ELSE Append(f[i - 1], ResultEvent(i, IF Logged("call", i) THEN "unknown" ELSE "notStarted"))

Answerable(n) == n <= N => \E f \in [0..n -> Seq(Event)] : Answers(f, n)

LEMMA ResultEvents ==
  ASSUME NEW i \in Calls, NEW c \in Code \cup Synthetic
  PROVE  ResultEvent(i, c) \in Event /\ CallEvent(i) \in Event
  BY DEF Event

LEMMA AnswersExist == \A n \in Nat : Answerable(n)
<1> DEFINE S == {n \in Nat : Answerable(n)}
<1>1. 0 \in S
  <2> DEFINE f == [i \in 0..0 |-> <<>>]
  <2>1. f \in [0..0 -> Seq(Event)] /\ Answers(f, 0)
    BY DEF Answers
  <2> QED BY <2>1 DEF Answerable
<1>2. ASSUME NEW n \in Nat, n \in S
      PROVE  n + 1 \in S
  <2> SUFFICES ASSUME n + 1 <= N
               PROVE  \E g \in [0..(n + 1) -> Seq(Event)] : Answers(g, n + 1)
    BY DEF Answerable
  <2>1. PICK f \in [0..n -> Seq(Event)] : Answers(f, n)
    BY <1>2, SizeAssumption DEF Answerable
  <2> DEFINE e == ResultEvent(n + 1, IF Logged("call", n + 1) THEN "unknown" ELSE "notStarted")
             last0 == IF Logged("result", n + 1) THEN f[n] ELSE Append(f[n], e)
             g == [i \in 0..(n + 1) |-> IF i = n + 1 THEN last0 ELSE f[i]]
  <2>2. e \in Event
    <3>1. n + 1 \in Calls
      BY SizeAssumption DEF Calls
    <3> QED BY <3>1, ResultEvents DEF Synthetic
  <2>3. last0 \in Seq(Event)
    <3> HIDE DEF e
    <3>1. f[n] \in Seq(Event)
      BY <2>1
    <3> QED BY <2>2, <3>1
  <2>4. g \in [0..(n + 1) -> Seq(Event)]
    <3> HIDE DEF last0
    <3> QED BY <2>1, <2>3
  <2>5. ASSUME NEW i \in 0..(n + 1)
        PROVE  g[i] = IF i = 0 THEN <<>>
                      ELSE IF Logged("result", i) THEN g[i - 1]
                      ELSE Append(g[i - 1], ResultEvent(i, IF Logged("call", i) THEN "unknown"
                                                           ELSE "notStarted"))
    <3>1. CASE i = n + 1
      <4>1. i # 0 /\ i - 1 = n /\ i - 1 \in 0..(n + 1) /\ i - 1 # n + 1
        BY <3>1
      <4>2. g[i - 1] = f[n] /\ g[i] = last0
        <5> HIDE DEF last0
        <5> QED BY <3>1, <4>1
      <4> QED BY <3>1, <4>1, <4>2
    <3>2. CASE i # n + 1
      <4>1. i \in 0..n /\ g[i] = f[i]
        BY <3>2
      <4>2. i # 0 => i - 1 \in 0..(n + 1) /\ i - 1 # n + 1 /\ g[i - 1] = f[i - 1]
        BY <3>2, <4>1
      <4> HIDE DEF g
      <4> QED BY <2>1, <4>1, <4>2 DEF Answers
    <3> QED BY <3>1, <3>2
  <2>6. Answers(g, n + 1)
    <3> HIDE DEF g
    <3> QED BY <2>5 DEF Answers
  <2> HIDE DEF g
  <2> QED BY <2>4, <2>6
<1>3. \A n \in Nat : n \in S
  <2> HIDE DEF S
  <2> QED BY <1>1, <1>2, SetInduction
<1> QED BY <1>3

\* What Recovery is: the last of a list of answers.
LEMMA RecoveryList ==
  \E f \in [0..N -> Seq(Event)] : Answers(f, N) /\ Recovery = f[N]
<1> DEFINE F(h) == [i \in 0..N |->
        IF i = 0 THEN <<>>
        ELSE IF Logged("result", i) THEN h[i - 1]
        ELSE Append(h[i - 1],
                    ResultEvent(i, IF Logged("call", i) THEN "unknown" ELSE "notStarted"))]
<1>1. PICK f \in [0..N -> Seq(Event)] : Answers(f, N)
  BY AnswersExist, SizeAssumption DEF Answerable
<1>2. f = F(f)
  BY <1>1 DEF Answers
<1> DEFINE h == CHOOSE h : h = F(h)
<1>3. h = F(h)
  BY <1>2
<1>4. Recovery = h[N]
  BY DEF Recovery
<1> HIDE DEF h
<1>5. ASSUME NEW n \in 0..N
      PROVE  h[n] = IF n = 0 THEN <<>>
                    ELSE IF Logged("result", n) THEN h[n - 1]
                    ELSE Append(h[n - 1], ResultEvent(n, IF Logged("call", n) THEN "unknown"
                                                         ELSE "notStarted"))
  BY <1>3
<1> DEFINE S == {n \in Nat : n <= N => h[n] = f[n]}
<1>6. 0 \in S
  BY <1>1, <1>5, SizeAssumption DEF Answers
<1>7. ASSUME NEW n \in Nat, n \in S
      PROVE  n + 1 \in S
  <2> SUFFICES ASSUME n + 1 <= N PROVE h[n + 1] = f[n + 1]
    OBVIOUS
  <2>1. n + 1 \in 0..N /\ n + 1 # 0 /\ (n + 1) - 1 = n /\ h[n] = f[n]
    BY <1>7, SizeAssumption
  <2> QED BY <1>1, <1>5, <2>1 DEF Answers
<1>8. \A n \in Nat : n \in S
  <2> HIDE DEF S
  <2> QED BY <1>6, <1>7, SetInduction
<1>9. h[N] = f[N]
  BY <1>8, SizeAssumption
<1> QED BY <1>1, <1>4, <1>9
----------------------------------------------------------------------------
(* A log with a tail of new events.                                        *)

LEMMA EventShape ==
  ASSUME NEW e \in Event
  PROVE  /\ e.type \in {"call", "result"} /\ e.call \in Calls
         /\ e.code \in Code \cup Synthetic
  BY DEF Event, CallEvent, ResultEvent, Code

LEMMA Concat ==
  ASSUME NEW l \in Seq(Event), NEW t \in Seq(Event)
  PROVE  /\ l \o t \in Seq(Event)
         /\ Len(l) \in Nat /\ Len(t) \in Nat /\ Len(l \o t) = Len(l) + Len(t)
         /\ \A k \in 1..Len(l) : k \in 1..Len(l \o t) /\ (l \o t)[k] = l[k] /\ l[k] \in Event
         /\ \A k \in 1..Len(t) : /\ Len(l) + k \in 1..Len(l \o t)
                                 /\ (l \o t)[Len(l) + k] = t[k] /\ t[k] \in Event
         /\ \A k \in 1..Len(l \o t) :
              k \in 1..Len(l) \/ \E m \in 1..Len(t) : k = Len(l) + m
<1>1. Len(l) \in Nat /\ Len(t) \in Nat
  BY LenProperties
<1>2. /\ l \o t \in Seq(Event) /\ Len(l \o t) = Len(l) + Len(t)
      /\ \A k \in 1..(Len(l) + Len(t)) :
           (l \o t)[k] = IF k <= Len(l) THEN l[k] ELSE t[k - Len(l)]
  BY ConcatProperties
<1>3. \A k \in 1..Len(l) : l[k] \in Event
  BY ElementOfSeq
<1>4. \A k \in 1..Len(t) : t[k] \in Event
  BY ElementOfSeq
<1>5. ASSUME NEW k \in 1..Len(l)
      PROVE  k \in 1..Len(l \o t) /\ (l \o t)[k] = l[k]
  BY <1>1, <1>2
<1>6. ASSUME NEW k \in 1..Len(t)
      PROVE  Len(l) + k \in 1..Len(l \o t) /\ (l \o t)[Len(l) + k] = t[k]
  <2>1. Len(l) + k \in 1..(Len(l) + Len(t)) /\ ~(Len(l) + k <= Len(l)) /\ (Len(l) + k) - Len(l) = k
    BY <1>1
  <2> QED BY <1>2, <2>1
<1>7. ASSUME NEW k \in 1..Len(l \o t), k \notin 1..Len(l)
      PROVE  \E m \in 1..Len(t) : k = Len(l) + m
  <2>1. k - Len(l) \in 1..Len(t) /\ k = Len(l) + (k - Len(l))
    BY <1>1, <1>2, <1>7
  <2> QED BY <2>1
<1> QED BY <1>1, <1>2, <1>3, <1>4, <1>5, <1>6, <1>7

LEMMA ConcatHas ==
  ASSUME NEW l \in Seq(Event), NEW t \in Seq(Event), NEW type, NEW i
  PROVE  Has(l \o t, type, i) <=> Has(l, type, i) \/ Has(t, type, i)
<1> DEFINE c == l \o t
<1>1. /\ \A k \in 1..Len(l) : k \in 1..Len(c) /\ c[k] = l[k]
      /\ \A k \in 1..Len(t) : Len(l) + k \in 1..Len(c) /\ c[Len(l) + k] = t[k]
      /\ \A k \in 1..Len(c) : k \in 1..Len(l) \/ \E m \in 1..Len(t) : k = Len(l) + m
  BY Concat
<1> HIDE DEF c
<1>2. ASSUME Has(c, type, i) PROVE Has(l, type, i) \/ Has(t, type, i)
  <2>1. PICK k \in 1..Len(c) : c[k].type = type /\ c[k].call = i
    BY <1>2 DEF Has
  <2>2. CASE k \in 1..Len(l)
    BY <1>1, <2>1, <2>2 DEF Has
  <2>3. CASE \E m \in 1..Len(t) : k = Len(l) + m
    <3>1. PICK m \in 1..Len(t) : k = Len(l) + m
      BY <2>3
    <3>2. t[m].type = type /\ t[m].call = i
      BY <1>1, <2>1, <3>1
    <3> QED BY <3>2 DEF Has
  <2> QED BY <1>1, <2>2, <2>3
<1>3. ASSUME Has(l, type, i) PROVE Has(c, type, i)
  BY <1>1, <1>3 DEF Has
<1>4. ASSUME Has(t, type, i) PROVE Has(c, type, i)
  <2>1. PICK k \in 1..Len(t) : t[k].type = type /\ t[k].call = i
    BY <1>4 DEF Has
  <2>2. c[Len(l) + k] = t[k] /\ Len(l) + k \in 1..Len(c)
    BY <1>1
  <2>3. c[Len(l) + k].type = type /\ c[Len(l) + k].call = i
    BY <2>1, <2>2
  <2> QED BY <2>2, <2>3 DEF Has
<1>5. Has(c, type, i) <=> Has(l, type, i) \/ Has(t, type, i)
  BY <1>2, <1>3, <1>4
<1> QED BY <1>5 DEF c

\* Order is kept when what is new comes after what was there.
LEMMA ConcatOrder ==
  ASSUME NEW l \in Seq(Event), NEW t \in Seq(Event), NEW type,
         InOrder(l, type), InOrder(t, type),
         \A i, j \in Calls : Has(l, type, i) /\ Has(t, type, j) => i < j
  PROVE  InOrder(l \o t, type)
<1> DEFINE c == l \o t
<1>1. /\ Len(l) \in Nat /\ Len(t) \in Nat
      /\ \A k \in 1..Len(l) : k \in 1..Len(c) /\ c[k] = l[k] /\ l[k] \in Event
      /\ \A k \in 1..Len(t) : Len(l) + k \in 1..Len(c) /\ c[Len(l) + k] = t[k] /\ t[k] \in Event
      /\ \A k \in 1..Len(c) : k \in 1..Len(l) \/ \E m \in 1..Len(t) : k = Len(l) + m
  BY Concat
<1> HIDE DEF c
<1> SUFFICES ASSUME NEW j \in 1..Len(c), NEW k \in 1..Len(c), j < k,
                    c[j].type = type, c[k].type = type
             PROVE  c[j].call < c[k].call
  BY DEF InOrder, c
<1>2. CASE k \in 1..Len(l)
  <2>1. j \in 1..Len(l)
    <3>1. \A m \in 1..Len(t) : Len(l) + m > k
      BY <1>1, <1>2
    <3> QED BY <1>1, <3>1
  <2> QED BY <1>1, <1>2, <2>1 DEF InOrder
<1>3. CASE j \in 1..Len(l) /\ k \notin 1..Len(l)
  <2>1. PICK m \in 1..Len(t) : k = Len(l) + m
    BY <1>1, <1>3
  <2>2. c[k] = t[m] /\ c[j] = l[j] /\ l[j] \in Event /\ t[m] \in Event
    BY <1>1, <1>3, <2>1
  <2>3. Has(l, type, l[j].call) /\ Has(t, type, t[m].call)
    BY <1>3, <2>2 DEF Has
  <2>4. l[j].call \in Calls /\ t[m].call \in Calls
    BY <2>2, EventShape
  <2> QED BY <2>2, <2>3, <2>4
<1>4. CASE j \notin 1..Len(l) /\ k \notin 1..Len(l)
  <2>1. PICK m \in 1..Len(t) : k = Len(l) + m
    BY <1>1, <1>4
  <2>2. PICK n \in 1..Len(t) : j = Len(l) + n
    BY <1>1, <1>4
  <2>3. c[k] = t[m] /\ c[j] = t[n] /\ n < m
    BY <1>1, <2>1, <2>2
  <2> QED BY <2>3 DEF InOrder
<1> QED BY <1>2, <1>3, <1>4

\* A tail cites calls of the log, or its own.
LEMMA ConcatCites ==
  ASSUME NEW l \in Seq(Event), NEW t \in Seq(Event), Cites(l),
         \A k \in 1..Len(t) : t[k].type = "result" /\ t[k].code # "notStarted" =>
           \/ Has(l, "call", t[k].call)
           \/ \E j \in 1..Len(t) : j < k /\ t[j].type = "call" /\ t[j].call = t[k].call
  PROVE  Cites(l \o t)
<1> DEFINE c == l \o t
<1>1. /\ Len(l) \in Nat /\ Len(t) \in Nat
      /\ \A k \in 1..Len(l) : k \in 1..Len(c) /\ c[k] = l[k] /\ l[k] \in Event
      /\ \A k \in 1..Len(t) : Len(l) + k \in 1..Len(c) /\ c[Len(l) + k] = t[k] /\ t[k] \in Event
      /\ \A k \in 1..Len(c) : k \in 1..Len(l) \/ \E m \in 1..Len(t) : k = Len(l) + m
  BY Concat
<1> HIDE DEF c
<1> SUFFICES ASSUME NEW k \in 1..Len(c), c[k].type = "result", c[k].code # "notStarted"
             PROVE  \E j \in 1..Len(c) : j < k /\ c[j].type = "call" /\ c[j].call = c[k].call
  BY DEF Cites, c
<1>2. CASE k \in 1..Len(l)
  <2>1. PICK j \in 1..Len(l) : j < k /\ l[j].type = "call" /\ l[j].call = l[k].call
    BY <1>1, <1>2 DEF Cites
  <2>2. j \in 1..Len(c) /\ c[j] = l[j] /\ c[k] = l[k]
    BY <1>1, <1>2
  <2> QED BY <2>1, <2>2
<1>3. CASE k \notin 1..Len(l)
  <2>1. PICK m \in 1..Len(t) : k = Len(l) + m
    BY <1>1, <1>3
  <2>2. c[k] = t[m]
    BY <1>1, <2>1
  <2>3. CASE Has(l, "call", t[m].call)
    <3>1. PICK j \in 1..Len(l) : l[j].type = "call" /\ l[j].call = t[m].call
      BY <2>3 DEF Has
    <3>2. j \in 1..Len(c) /\ c[j] = l[j] /\ j < k
      BY <1>1, <2>1
    <3> QED BY <2>2, <3>1, <3>2
  <2>4. CASE \E j \in 1..Len(t) : j < m /\ t[j].type = "call" /\ t[j].call = t[m].call
    <3>1. PICK j \in 1..Len(t) : j < m /\ t[j].type = "call" /\ t[j].call = t[m].call
      BY <2>4
    <3>2. Len(l) + j \in 1..Len(c) /\ c[Len(l) + j] = t[j] /\ Len(l) + j < k
      BY <1>1, <2>1, <3>1
    <3> QED BY <2>2, <3>1, <3>2
  <2> QED BY <2>2, <2>3, <2>4
<1> QED BY <1>2, <1>3

LEMMA ConcatHonest ==
  ASSUME NEW l \in Seq(Event), NEW t \in Seq(Event), NEW S, Honest(l, S), Honest(t, S)
  PROVE  Honest(l \o t, S)
<1> DEFINE c == l \o t
<1>1. /\ \A k \in 1..Len(l) : c[k] = l[k]
      /\ \A k \in 1..Len(t) : c[Len(l) + k] = t[k]
      /\ \A k \in 1..Len(c) : k \in 1..Len(l) \/ \E m \in 1..Len(t) : k = Len(l) + m
  BY Concat
<1> HIDE DEF c
<1>2. ASSUME NEW k \in 1..Len(c), c[k].type = "result", c[k].code \in Unrun
      PROVE  c[k].call \notin S
  <2>1. CASE k \in 1..Len(l)
    BY <1>1, <1>2, <2>1 DEF Honest
  <2>2. CASE k \notin 1..Len(l)
    <3>1. PICK m \in 1..Len(t) : k = Len(l) + m
      BY <1>1, <2>2
    <3>2. c[k] = t[m]
      BY <1>1, <3>1
    <3> QED BY <1>2, <3>2 DEF Honest
  <2> QED BY <2>1, <2>2
<1>3. Honest(c, S)
  BY <1>2 DEF Honest
<1> QED BY <1>3 DEF c

\* One event more.
LEMMA OneMore ==
  ASSUME NEW l \in Seq(Event), NEW e \in Event
  PROVE  /\ Append(l, e) = l \o <<e>> /\ <<e>> \in Seq(Event)
         /\ \A type : InOrder(<<e>>, type)
         /\ \A type, i : Has(<<e>>, type, i) <=> e.type = type /\ e.call = i
<1>1. Append(l, e) = l \o <<e>> /\ <<e>> \in Seq(Event)
  BY AppendIsConcat
<1>2. Len(<<e>>) = 1 /\ <<e>>[1] = e
  OBVIOUS
<1> DEFINE t == <<e>>
<1>3. Len(t) = 1 /\ t[1] = e
  BY <1>2
<1> HIDE DEF t
<1>4. \A type : InOrder(t, type)
  BY <1>3 DEF InOrder
<1>5. \A type, i : Has(t, type, i) <=> e.type = type /\ e.call = i
  BY <1>3 DEF Has
<1> QED BY <1>1, <1>4, <1>5 DEF t

\* The log a crash leaves is the beginning of the one that was.
LEMMA Prefix ==
  ASSUME NEW l \in Seq(Event), NEW n \in 0..Len(l), Orderly(l)
  PROVE  /\ SubSeq(l, 1, n) \in Seq(Event) /\ Orderly(SubSeq(l, 1, n))
         /\ n = Len(l) => SubSeq(l, 1, n) = l
<1> DEFINE p == SubSeq(l, 1, n)
<1>1. Len(l) \in Nat /\ \A k \in 1..Len(l) : l[k] \in Event
  BY LenProperties, ElementOfSeq
<1>2. p \in Seq(Event) /\ Len(p) = n /\ \A k \in 1..n : p[k] = l[k] /\ k \in 1..Len(l)
  <2>1. \A k \in 1..n : l[k] \in Event
    BY <1>1
  <2>2. n \in Int /\ 1 \in Int
    BY <1>1
  <2>3. /\ p \in Seq(Event) /\ Len(p) = (IF 1 <= n THEN n - 1 + 1 ELSE 0)
        /\ \A k \in 1..(n - 1 + 1) : p[k] = l[1 + k - 1]
    BY <2>1, <2>2, SubSeqProperties
  <2> HIDE DEF p
  <2>4. Len(p) = n
    BY <1>1, <2>3
  <2>5. ASSUME NEW k \in 1..n PROVE p[k] = l[k] /\ k \in 1..Len(l)
    <3>1. k \in 1..(n - 1 + 1) /\ 1 + k - 1 = k
      BY <1>1
    <3> QED BY <1>1, <2>3, <3>1
  <2> QED BY <2>3, <2>4, <2>5
<1>3. n = Len(l) => p = l
  BY SubSeqFull
<1> HIDE DEF p
<1>4. InOrder(p, "call") /\ InOrder(p, "result")
  BY <1>2 DEF InOrder, Orderly
<1>5. Cites(p)
  <2> SUFFICES ASSUME NEW k \in 1..Len(p), p[k].type = "result", p[k].code # "notStarted"
               PROVE  \E j \in 1..Len(p) : j < k /\ p[j].type = "call" /\ p[j].call = p[k].call
    BY DEF Cites
  <2>1. PICK j \in 1..Len(l) : j < k /\ l[j].type = "call" /\ l[j].call = l[k].call
    BY <1>2 DEF Orderly, Cites
  <2>2. j \in 1..Len(p) /\ p[j] = l[j]
    BY <1>1, <1>2, <2>1
  <2> QED BY <1>2, <2>1, <2>2
<1>6. Segment(p)
  <2> SUFFICES ASSUME NEW i \in Calls, NEW j \in Calls, j < i, Has(p, "result", i)
               PROVE  Has(p, "result", j)
    BY DEF Segment
  <2>1. PICK k \in 1..Len(p) : p[k].type = "result" /\ p[k].call = i
    BY DEF Has
  <2>2. k \in 1..Len(l) /\ l[k].type = "result" /\ l[k].call = i
    BY <1>2, <2>1
  <2>3. Has(l, "result", j)
    BY <2>2 DEF Has, Orderly, Segment
  <2>4. PICK m \in 1..Len(l) : l[m].type = "result" /\ l[m].call = j
    BY <2>3 DEF Has
  <2>5. m <= k
    <3> SUFFICES ASSUME k < m PROVE FALSE
      BY <1>1
    <3>1. l[k].call < l[m].call
      BY <2>2, <2>4 DEF Orderly, InOrder
    <3> QED BY <2>2, <2>4, <3>1 DEF Calls
  <2>6. m \in 1..Len(p) /\ p[m] = l[m]
    BY <1>1, <1>2, <2>5
  <2> QED BY <2>4, <2>6 DEF Has
<1>7. p \in Seq(Event) /\ Orderly(p) /\ (n = Len(l) => p = l)
  BY <1>2, <1>3, <1>4, <1>5, <1>6 DEF Orderly
<1> QED BY <1>7 DEF p
----------------------------------------------------------------------------
(* What the recovery and the end of an aborted group add to the log.       *)

\* The answers to the first n calls.
AnswersTo(r, n) ==
  /\ r \in Seq(Event)
  /\ \A k \in 1..Len(r) :
       /\ r[k].type = "result" /\ r[k].call \in 1..n /\ ~Logged("result", r[k].call)
       /\ r[k].code = IF Logged("call", r[k].call) THEN "unknown" ELSE "notStarted"
  /\ InOrder(r, "result")
  /\ \A i \in 1..n : Logged("result", i) \/ Has(r, "result", i)

LEMMA OneAnswerMore ==
  ASSUME NEW n \in Nat, n + 1 <= N, NEW r, AnswersTo(r, n), ~Logged("result", n + 1),
         NEW e, e = ResultEvent(n + 1, IF Logged("call", n + 1) THEN "unknown" ELSE "notStarted")
  PROVE  AnswersTo(Append(r, e), n + 1)
<1>1. n + 1 \in Calls /\ e \in Event /\ r \in Seq(Event)
  BY SizeAssumption, ResultEvents DEF Calls, Synthetic, AnswersTo
<1>2. e.type = "result" /\ e.call = n + 1
      /\ e.code = IF Logged("call", n + 1) THEN "unknown" ELSE "notStarted"
  BY DEF ResultEvent
<1> DEFINE t == <<e>>
           c == Append(r, e)
<1>3. /\ c = r \o t /\ t \in Seq(Event) /\ InOrder(t, "result")
      /\ \A i : Has(t, "result", i) <=> i = n + 1
  BY <1>1, <1>2, OneMore
<1>4. Len(r) \in Nat /\ c \in Seq(Event) /\ Len(c) = Len(r) + 1
      /\ (\A k \in 1..Len(r) : c[k] = r[k]) /\ c[Len(r) + 1] = e
  BY <1>1, AppendProperties, LenProperties
<1> HIDE DEF c, t
<1>5. InOrder(c, "result")
  <2>1. \A i, j \in Calls : Has(r, "result", i) /\ Has(t, "result", j) => i < j
    <3> SUFFICES ASSUME NEW i \in Calls, Has(r, "result", i) PROVE i < n + 1
      BY <1>3
    <3>1. PICK k \in 1..Len(r) : r[k].call = i
      BY DEF Has
    <3> QED BY <3>1 DEF AnswersTo
  <2> QED BY <1>1, <1>3, <2>1, ConcatOrder DEF AnswersTo
<1>6. ASSUME NEW k \in 1..Len(c)
      PROVE  /\ c[k].type = "result" /\ c[k].call \in 1..(n + 1) /\ ~Logged("result", c[k].call)
             /\ c[k].code = IF Logged("call", c[k].call) THEN "unknown" ELSE "notStarted"
  <2>1. CASE k \in 1..Len(r)
    <3>1. c[k] = r[k] /\ r[k].call \in 1..n
      BY <1>4, <2>1 DEF AnswersTo
    <3>2. r[k].call \in 1..(n + 1)
      BY <3>1
    <3> QED BY <2>1, <3>1, <3>2 DEF AnswersTo
  <2>2. CASE k = Len(r) + 1
    BY <1>2, <1>4, <2>2
  <2> QED BY <1>4, <2>1, <2>2
<1>7. ASSUME NEW i \in 1..(n + 1) PROVE Logged("result", i) \/ Has(c, "result", i)
  <2>1. Has(c, "result", i) <=> Has(r, "result", i) \/ Has(t, "result", i)
    BY <1>1, <1>3, ConcatHas
  <2>2. i \in 1..n \/ i = n + 1
    OBVIOUS
  <2> QED BY <1>3, <2>1, <2>2 DEF AnswersTo
<1>8. AnswersTo(c, n + 1)
  BY <1>4, <1>5, <1>6, <1>7 DEF AnswersTo
<1> QED BY <1>8 DEF c

\* The recovery answers every call that has no result, in order, and says of
\* each whether the log had recorded its start.
LEMMA RecoveryAnswers == AnswersTo(Recovery, N)
<1>1. PICK f \in [0..N -> Seq(Event)] : Answers(f, N) /\ Recovery = f[N]
  BY RecoveryList
<1> DEFINE S == {n \in Nat : n <= N => AnswersTo(f[n], n)}
<1>2. 0 \in S
  <2>1. f[0] = <<>>
    BY <1>1, SizeAssumption DEF Answers
  <2>2. AnswersTo(<<>>, 0)
    <3>1. <<>> \in Seq(Event) /\ Len(<<>>) = 0
      BY EmptySeq
    <3> QED BY <3>1 DEF AnswersTo, InOrder
  <2> QED BY <2>1, <2>2
<1>3. ASSUME NEW n \in Nat, n \in S
      PROVE  n + 1 \in S
  <2> SUFFICES ASSUME n + 1 <= N PROVE AnswersTo(f[n + 1], n + 1)
    OBVIOUS
  <2>1. AnswersTo(f[n], n)
    BY <1>3, SizeAssumption
  <2> DEFINE e == ResultEvent(n + 1, IF Logged("call", n + 1) THEN "unknown" ELSE "notStarted")
  <2>2. f[n + 1] = IF Logged("result", n + 1) THEN f[n] ELSE Append(f[n], e)
    <3>1. n + 1 \in 0..N /\ n + 1 # 0 /\ (n + 1) - 1 = n
      BY SizeAssumption
    <3> QED BY <1>1, <3>1 DEF Answers
  <2>3. CASE Logged("result", n + 1)
    <3>1. \A i \in 1..(n + 1) : i \in 1..n \/ i = n + 1
      OBVIOUS
    <3>2. \A i \in 1..n : i \in 1..(n + 1)
      OBVIOUS
    <3>3. f[n + 1] = f[n]
      BY <2>2, <2>3
    <3> QED BY <2>1, <2>3, <3>1, <3>2, <3>3 DEF AnswersTo
  <2>4. CASE ~Logged("result", n + 1)
    <3> HIDE DEF e
    <3>1. f[n + 1] = Append(f[n], e)
      BY <2>2, <2>4
    <3>2. AnswersTo(Append(f[n], e), n + 1)
      <4> USE DEF e
      <4> QED BY <2>1, <2>4, OneAnswerMore
    <3> QED BY <3>1, <3>2
  <2> QED BY <2>3, <2>4
<1>4. \A n \in Nat : n \in S
  <2> HIDE DEF S
  <2> QED BY <1>2, <1>3, SetInduction
<1>5. AnswersTo(f[N], N)
  BY <1>4, SizeAssumption
<1> QED BY <1>1, <1>5

LEMMA Halves ==
  ASSUME NEW n \in Nat
  PROVE  n \div 2 \in Nat /\ n % 2 \in {0, 1} /\ n = 2 * (n \div 2) + (n % 2)
<1>1. n \div 2 \in Nat
  OBVIOUS
<1>2. n % 2 \in {0, 1}
  OBVIOUS
<1>3. n = 2 * (n \div 2) + (n % 2)
  OBVIOUS
<1> QED BY <1>1, <1>2, <1>3

\* The pairs of an aborted group answer the calls from the first one on.
LEMMA SkippedAnswers ==
  ASSUME NEW first \in 1..(N + 1), NEW t, t = SkippedPairs(first, N)
  PROVE  /\ t \in Seq(Event)
         /\ \A k \in 1..Len(t) :
              /\ t[k].call \in first..N
              /\ t[k].type = "result" =>
                   /\ t[k].code = "skipped"
                   /\ \E j \in 1..Len(t) : j < k /\ t[j].type = "call" /\ t[j].call = t[k].call
         /\ InOrder(t, "call") /\ InOrder(t, "result")
         /\ \A i \in Calls : /\ Has(t, "call", i) <=> i >= first
                             /\ Has(t, "result", i) <=> i >= first
<1> DEFINE n == 2 * (N + 1 - first)
           q(k) == (k - 1) \div 2
           m(k) == (k - 1) % 2
<1>1. n \in Nat /\ N \in Nat /\ first \in Nat
  BY SizeAssumption
<1>2. ASSUME NEW k \in 1..n
      PROVE  /\ q(k) \in Nat /\ m(k) \in {0, 1} /\ k - 1 = 2 * q(k) + m(k)
             /\ first + q(k) \in first..N /\ first + q(k) \in Calls
  <2>1. k - 1 \in Nat /\ k - 1 < n
    BY <1>1
  <2>2. q(k) \in Nat /\ m(k) \in {0, 1} /\ k - 1 = 2 * q(k) + m(k)
    BY <2>1, Halves
  <2> HIDE DEF q, m
  <2>3. q(k) < N + 1 - first
    BY <1>1, <2>1, <2>2
  <2> QED BY <1>1, <2>2, <2>3 DEF Calls
<1>3. ASSUME NEW k \in 1..n
      PROVE  t[k] = IF m(k) = 0 THEN CallEvent(first + q(k)) ELSE ResultEvent(first + q(k), "skipped")
  <2>1. t[k] = SkippedPair(first + q(k))[m(k) + 1]
    BY DEF SkippedPairs
  <2>2. m(k) \in {0, 1}
    BY <1>2
  <2> HIDE DEF q, m
  <2>3. CASE m(k) = 0
    BY <2>1, <2>3 DEF SkippedPair
  <2>4. CASE m(k) = 1
    BY <2>1, <2>4 DEF SkippedPair
  <2> QED BY <2>2, <2>3, <2>4
<1>4. t \in Seq(Event) /\ Len(t) = n
  <2>1. t = [k \in 1..n |-> SkippedPair(first + q(k))[m(k) + 1]]
    BY DEF SkippedPairs
  <2>2. \A k \in 1..n : t[k] \in Event
    <3> SUFFICES ASSUME NEW k \in 1..n PROVE t[k] \in Event
      OBVIOUS
    <3>1. CallEvent(first + q(k)) \in Event /\ ResultEvent(first + q(k), "skipped") \in Event
      BY <1>2, ResultEvents DEF Synthetic
    <3> HIDE DEF q, m
    <3> QED BY <1>3, <3>1
  <2>3. DOMAIN t = 1..n
    BY <2>1
  <2>4. t \in [1..n -> Event]
    <3>1. t = [k \in 1..n |-> t[k]]
      BY <2>1
    <3> HIDE DEF n
    <3> QED BY <2>2, <3>1
  <2>5. t \in Seq(Event)
    <3> HIDE DEF n
    <3> QED BY <1>1, <2>4, SeqDef
  <2>6. DOMAIN t = 1..Len(t) /\ Len(t) \in Nat
    BY <2>5, LenProperties
  <2> HIDE DEF n
  <2> QED BY <1>1, <2>3, <2>5, <2>6
<1> HIDE DEF q, m, n
<1>5. ASSUME NEW k \in 1..n
      PROVE  /\ t[k].call = first + q(k)
             /\ t[k].type = "call" <=> m(k) = 0
             /\ t[k].type = "result" <=> m(k) = 1
             /\ t[k].type = "result" => t[k].code = "skipped"
  <2>1. m(k) \in {0, 1}
    BY <1>2
  <2>2. CASE m(k) = 0
    <3>1. t[k] = CallEvent(first + q(k))
      BY <1>3, <2>2
    <3> QED BY <2>2, <3>1 DEF CallEvent
  <2>3. CASE m(k) = 1
    <3>1. t[k] = ResultEvent(first + q(k), "skipped")
      BY <1>3, <2>3
    <3> QED BY <2>3, <3>1 DEF ResultEvent
  <2> QED BY <2>1, <2>2, <2>3
<1>6. ASSUME NEW j \in 1..n, NEW k \in 1..n, j < k, m(j) = m(k)
      PROVE  t[j].call < t[k].call
  <2>1. /\ q(j) \in Nat /\ q(k) \in Nat /\ j - 1 = 2 * q(j) + m(k) /\ k - 1 = 2 * q(k) + m(k)
        /\ m(k) \in {0, 1}
    BY <1>2, <1>6
  <2>2. q(j) < q(k)
    BY <1>1, <1>6, <2>1
  <2>3. first + q(j) < first + q(k)
    BY <1>1, <2>1, <2>2
  <2> QED BY <1>5, <2>3
<1>7. InOrder(t, "call") /\ InOrder(t, "result")
  BY <1>4, <1>5, <1>6 DEF InOrder
<1>8. ASSUME NEW k \in 1..n, t[k].type = "result"
      PROVE  \E j \in 1..n : j < k /\ t[j].type = "call" /\ t[j].call = t[k].call
  <2>1. /\ q(k) \in Nat /\ m(k) = 1 /\ k - 1 = 2 * q(k) + 1
    BY <1>2, <1>5, <1>8
  <2>2. k - 1 \in 1..n /\ k - 1 < k
    BY <1>1, <2>1
  <2>3. /\ q(k - 1) \in Nat /\ m(k - 1) \in {0, 1}
        /\ (k - 1) - 1 = 2 * q(k - 1) + m(k - 1)
    BY <1>2, <2>2
  <2>4. q(k - 1) = q(k) /\ m(k - 1) = 0
    BY <2>1, <2>3
  <2>5. t[k - 1].type = "call" /\ t[k - 1].call = t[k].call
    BY <1>5, <2>2, <2>4
  <2> QED BY <2>2, <2>5
<1>9. ASSUME NEW i \in Calls, i >= first
      PROVE  Has(t, "call", i) /\ Has(t, "result", i)
  <2> DEFINE a == 2 * (i - first) + 1
             b == 2 * (i - first) + 2
  <2>1. i \in Nat /\ i <= N /\ a \in 1..n /\ b \in 1..n /\ i - first \in Nat
    BY <1>1, <1>9 DEF Calls, n
  <2>2. q(a) = i - first /\ m(a) = 0
    <3>1. q(a) \in Nat /\ m(a) \in {0, 1} /\ a - 1 = 2 * q(a) + m(a)
      BY <1>2, <2>1
    <3>2. a - 1 = 2 * (i - first)
      BY <1>1, <2>1
    <3> HIDE DEF a
    <3> QED BY <1>1, <2>1, <3>1, <3>2
  <2>3. q(b) = i - first /\ m(b) = 1
    <3>1. q(b) \in Nat /\ m(b) \in {0, 1} /\ b - 1 = 2 * q(b) + m(b)
      BY <1>2, <2>1
    <3>2. b - 1 = 2 * (i - first) + 1
      BY <1>1, <2>1
    <3> HIDE DEF b
    <3> QED BY <1>1, <2>1, <3>1, <3>2
  <2> HIDE DEF a, b
  <2>4. first + (i - first) = i
    BY <1>1, <2>1
  <2>5. t[a].type = "call" /\ t[a].call = i
    BY <1>5, <2>1, <2>2, <2>4
  <2>6. t[b].type = "result" /\ t[b].call = i
    BY <1>5, <2>1, <2>3, <2>4
  <2> QED BY <1>4, <2>1, <2>5, <2>6 DEF Has
<1>10. ASSUME NEW i \in Calls, NEW type, Has(t, type, i) PROVE i >= first
  <2>1. PICK k \in 1..n : t[k].call = i
    BY <1>4, <1>10 DEF Has
  <2>2. i = first + q(k) /\ q(k) \in Nat
    BY <1>2, <1>5, <2>1
  <2> QED BY <1>1, <2>2
<1>11. \A k \in 1..n : t[k].call \in first..N
  BY <1>2, <1>5
<1> QED BY <1>4, <1>5, <1>7, <1>8, <1>9, <1>10, <1>11
----------------------------------------------------------------------------
(* What each kind of step does to the log.                                 *)

LEMMA LoggedHas ==
  ASSUME TypeOK, NEW type, NEW i
  PROVE  Logged(type, i) <=> Has(log, type, i)
<1>1. DOMAIN log = 1..Len(log)
  BY LenProperties DEF TypeOK
<1> QED BY <1>1 DEF Logged, Has

LEMMA OneCall ==
  ASSUME NEW l \in Seq(Event), Orderly(l), NEW i \in Calls, NEW S,
         \A j \in Calls : Has(l, "call", j) => j < i
  PROVE  /\ Append(l, CallEvent(i)) \in Seq(Event) /\ Orderly(Append(l, CallEvent(i)))
         /\ \A j : /\ Has(Append(l, CallEvent(i)), "call", j) <=> Has(l, "call", j) \/ j = i
                   /\ Has(Append(l, CallEvent(i)), "result", j) <=> Has(l, "result", j)
         /\ Honest(l, S) => Honest(Append(l, CallEvent(i)), S)
<1> DEFINE e == CallEvent(i)
           t == <<e>>
           c == Append(l, e)
<1>1. e \in Event /\ e.type = "call" /\ e.call = i
  BY ResultEvents DEF CallEvent, Code
<1>2. /\ c = l \o t /\ t \in Seq(Event) /\ InOrder(t, "call") /\ InOrder(t, "result")
      /\ \A j : (Has(t, "call", j) <=> j = i) /\ ~Has(t, "result", j)
  BY <1>1, OneMore
<1>3. Len(t) = 1 /\ t[1] = e
  OBVIOUS
<1>4. c \in Seq(Event)
  BY <1>1, AppendProperties
<1> HIDE DEF e, t, c
<1>5. ASSUME NEW j
      PROVE  /\ Has(c, "call", j) <=> Has(l, "call", j) \/ j = i
             /\ Has(c, "result", j) <=> Has(l, "result", j)
  <2>1. Has(c, "call", j) <=> Has(l, "call", j) \/ Has(t, "call", j)
    BY <1>2, ConcatHas
  <2>2. Has(c, "result", j) <=> Has(l, "result", j) \/ Has(t, "result", j)
    BY <1>2, ConcatHas
  <2> QED BY <1>2, <2>1, <2>2
<1>6. InOrder(c, "call") /\ InOrder(c, "result")
  <2>1. InOrder(l \o t, "call")
    BY <1>2, ConcatOrder DEF Orderly
  <2>2. InOrder(l \o t, "result")
    BY <1>2, ConcatOrder DEF Orderly
  <2> QED BY <1>2, <2>1, <2>2
<1>7. Cites(c)
  <2>1. \A k \in 1..Len(t) : t[k].type # "result"
    BY <1>1, <1>3
  <2>2. Cites(l \o t)
    BY <1>2, <2>1, ConcatCites DEF Orderly
  <2> QED BY <1>2, <2>2
<1>8. Segment(c)
  BY <1>5 DEF Segment, Orderly
<1>9. Honest(l, S) => Honest(c, S)
  <2>1. Honest(t, S)
    BY <1>1, <1>3 DEF Honest
  <2> QED BY <1>2, <2>1, ConcatHonest
<1>10. Orderly(c)
  BY <1>6, <1>7, <1>8 DEF Orderly
<1>11. /\ c \in Seq(Event) /\ Orderly(c) /\ (Honest(l, S) => Honest(c, S))
       /\ \A j : /\ Has(c, "call", j) <=> Has(l, "call", j) \/ j = i
                 /\ Has(c, "result", j) <=> Has(l, "result", j)
  BY <1>4, <1>5, <1>9, <1>10
<1> QED BY <1>11 DEF c, e

LEMMA OneResult ==
  ASSUME NEW l \in Seq(Event), Orderly(l), NEW i \in Calls, NEW x \in Code \cup Synthetic,
         \A j \in Calls : Has(l, "result", j) <=> j < i,
         Has(l, "call", i), NEW S, x \in Unrun => i \notin S
  PROVE  /\ Append(l, ResultEvent(i, x)) \in Seq(Event) /\ Orderly(Append(l, ResultEvent(i, x)))
         /\ \A j : /\ Has(Append(l, ResultEvent(i, x)), "call", j) <=> Has(l, "call", j)
                   /\ Has(Append(l, ResultEvent(i, x)), "result", j) <=> Has(l, "result", j) \/ j = i
         /\ Honest(l, S) => Honest(Append(l, ResultEvent(i, x)), S)
<1> DEFINE e == ResultEvent(i, x)
           t == <<e>>
           c == Append(l, e)
<1>1. e \in Event /\ e.type = "result" /\ e.call = i /\ e.code = x
  BY ResultEvents DEF ResultEvent
<1>2. /\ c = l \o t /\ t \in Seq(Event) /\ InOrder(t, "call") /\ InOrder(t, "result")
      /\ \A j : (Has(t, "result", j) <=> j = i) /\ ~Has(t, "call", j)
  BY <1>1, OneMore
<1>3. Len(t) = 1 /\ t[1] = e
  OBVIOUS
<1>4. c \in Seq(Event)
  BY <1>1, AppendProperties
<1> HIDE DEF e, t, c
<1>5. ASSUME NEW j
      PROVE  /\ Has(c, "call", j) <=> Has(l, "call", j)
             /\ Has(c, "result", j) <=> Has(l, "result", j) \/ j = i
  <2>1. Has(c, "call", j) <=> Has(l, "call", j) \/ Has(t, "call", j)
    BY <1>2, ConcatHas
  <2>2. Has(c, "result", j) <=> Has(l, "result", j) \/ Has(t, "result", j)
    BY <1>2, ConcatHas
  <2> QED BY <1>2, <2>1, <2>2
<1>6. InOrder(c, "call") /\ InOrder(c, "result")
  <2>1. InOrder(l \o t, "call")
    BY <1>2, ConcatOrder DEF Orderly
  <2>2. InOrder(l \o t, "result")
    BY <1>2, ConcatOrder DEF Orderly
  <2> QED BY <1>2, <2>1, <2>2
<1>7. Cites(c)
  <2>1. \A k \in 1..Len(t) : Has(l, "call", t[k].call)
    BY <1>1, <1>3
  <2>2. Cites(l \o t)
    BY <1>2, <2>1, ConcatCites DEF Orderly
  <2> QED BY <1>2, <2>2
<1>8. Segment(c)
  BY <1>5 DEF Segment, Calls
<1>9. Honest(l, S) => Honest(c, S)
  <2>1. Honest(t, S)
    BY <1>1, <1>3 DEF Honest
  <2> QED BY <1>2, <2>1, ConcatHonest
<1>10. Orderly(c)
  BY <1>6, <1>7, <1>8 DEF Orderly
<1>11. /\ c \in Seq(Event) /\ Orderly(c) /\ (Honest(l, S) => Honest(c, S))
       /\ \A j : /\ Has(c, "call", j) <=> Has(l, "call", j)
                 /\ Has(c, "result", j) <=> Has(l, "result", j) \/ j = i
  BY <1>4, <1>5, <1>9, <1>10
<1> QED BY <1>11 DEF c, e

LEMMA Skipping ==
  ASSUME NEW l \in Seq(Event), Orderly(l), NEW first \in 1..(N + 1), NEW S,
         \A j \in Calls : /\ Has(l, "call", j) <=> j < first
                          /\ Has(l, "result", j) <=> j < first,
         \A j \in Calls : j >= first => j \notin S
  PROVE  /\ l \o SkippedPairs(first, N) \in Seq(Event)
         /\ Orderly(l \o SkippedPairs(first, N))
         /\ \A j \in Calls : /\ Has(l \o SkippedPairs(first, N), "call", j)
                             /\ Has(l \o SkippedPairs(first, N), "result", j)
         /\ Honest(l, S) => Honest(l \o SkippedPairs(first, N), S)
<1> DEFINE t == SkippedPairs(first, N)
           c == l \o t
<1>1. /\ t \in Seq(Event)
      /\ \A k \in 1..Len(t) :
           /\ t[k].call \in first..N
           /\ t[k].type = "result" =>
                /\ t[k].code = "skipped"
                /\ \E j \in 1..Len(t) : j < k /\ t[j].type = "call" /\ t[j].call = t[k].call
      /\ InOrder(t, "call") /\ InOrder(t, "result")
      /\ \A i \in Calls : /\ Has(t, "call", i) <=> i >= first
                          /\ Has(t, "result", i) <=> i >= first
  BY SkippedAnswers
<1> HIDE DEF t
<1>2. c \in Seq(Event)
  BY <1>1, Concat
<1>3. \A i, j \in Calls : i < first /\ j >= first => i < j
  BY SizeAssumption DEF Calls
<1>4. InOrder(c, "call")
  BY <1>1, <1>3, ConcatOrder DEF Orderly
<1>5. InOrder(c, "result")
  BY <1>1, <1>3, ConcatOrder DEF Orderly
<1>6. Cites(c)
  BY <1>1, ConcatCites DEF Orderly
<1>7. ASSUME NEW j \in Calls PROVE Has(c, "call", j) /\ Has(c, "result", j)
  <2>1. j < first \/ j >= first
    BY SizeAssumption DEF Calls
  <2>2. Has(c, "call", j) <=> Has(l, "call", j) \/ Has(t, "call", j)
    BY <1>1, ConcatHas
  <2>3. Has(c, "result", j) <=> Has(l, "result", j) \/ Has(t, "result", j)
    BY <1>1, ConcatHas
  <2> QED BY <1>1, <2>1, <2>2, <2>3
<1>8. Segment(c)
  BY <1>7 DEF Segment
<1>9. Honest(t, S)
  <2>1. \A i \in first..N : i \notin S
    BY SizeAssumption DEF Calls
  <2> QED BY <1>1, <2>1 DEF Honest
<1>10. Honest(l, S) => Honest(c, S)
  BY <1>1, <1>9, ConcatHonest
<1>11. Orderly(c)
  BY <1>4, <1>5, <1>6, <1>8 DEF Orderly
<1>12. /\ c \in Seq(Event) /\ Orderly(c) /\ (Honest(l, S) => Honest(c, S))
       /\ \A j \in Calls : Has(c, "call", j) /\ Has(c, "result", j)
  BY <1>2, <1>7, <1>10, <1>11
<1> QED BY <1>12 DEF c, t

LEMMA Recovering ==
  ASSUME TypeOK, Orderly(log), NEW S
  PROVE  /\ log \o Recovery \in Seq(Event) /\ Orderly(log \o Recovery)
         /\ \A j \in Calls : Has(log \o Recovery, "result", j)
         /\ \A j : Has(log, "call", j) => Has(log \o Recovery, "call", j)
         /\ Honest(log, S) /\ (\A i \in S : Has(log, "call", i)) => Honest(log \o Recovery, S)
<1> DEFINE t == Recovery
           c == log \o t
<1>1. log \in Seq(Event)
  BY DEF TypeOK
<1>2. \A type, i : Logged(type, i) <=> Has(log, type, i)
  BY LoggedHas
<1>3. AnswersTo(t, N)
  BY RecoveryAnswers
<1> HIDE DEF t
<1>4. /\ t \in Seq(Event)
      /\ \A k \in 1..Len(t) :
           /\ t[k].type = "result" /\ t[k].call \in Calls /\ ~Has(log, "result", t[k].call)
           /\ t[k].code = IF Has(log, "call", t[k].call) THEN "unknown" ELSE "notStarted"
      /\ InOrder(t, "result")
      /\ \A i \in Calls : Has(log, "result", i) \/ Has(t, "result", i)
  BY <1>2, <1>3 DEF AnswersTo, Calls
<1>5. c \in Seq(Event)
  BY <1>1, <1>4, Concat
<1>6. \A j : ~Has(t, "call", j)
  BY <1>4 DEF Has
<1>7. InOrder(c, "call")
  <2>1. InOrder(t, "call")
    BY <1>4 DEF InOrder
  <2> QED BY <1>1, <1>4, <1>6, <2>1, ConcatOrder DEF Orderly
<1>8. InOrder(c, "result")
  <2>1. \A j \in Calls : Has(t, "result", j) => ~Has(log, "result", j)
    BY <1>4 DEF Has
  <2>2. ASSUME NEW i \in Calls, NEW j \in Calls, Has(log, "result", i), Has(t, "result", j)
        PROVE  i < j
    <3>1. ~(j < i) /\ i # j
      BY <2>1, <2>2 DEF Orderly, Segment
    <3> QED BY <3>1, SizeAssumption DEF Calls
  <2> QED BY <1>1, <1>4, <2>2, ConcatOrder DEF Orderly
<1>9. Cites(c)
  <2>1. \A k \in 1..Len(t) : t[k].code # "notStarted" => Has(log, "call", t[k].call)
    BY <1>4
  <2> QED BY <1>1, <1>4, <2>1, ConcatCites DEF Orderly
<1>10. \A j \in Calls : Has(c, "result", j)
  <2>1. \A j \in Calls : Has(c, "result", j) <=> Has(log, "result", j) \/ Has(t, "result", j)
    BY <1>1, <1>4, ConcatHas
  <2> QED BY <1>4, <2>1
<1>11. ASSUME NEW j, Has(log, "call", j) PROVE Has(c, "call", j)
  BY <1>1, <1>4, <1>11, ConcatHas
<1>12. ASSUME Honest(log, S), \A i \in S : Has(log, "call", i) PROVE Honest(c, S)
  <2>1. Honest(t, S)
    BY <1>4, <1>12 DEF Honest, Unrun
  <2> QED BY <1>1, <1>4, <1>12, <2>1, ConcatHonest
<1>13. Orderly(c)
  BY <1>7, <1>8, <1>9, <1>10 DEF Orderly, Segment
<1>14. /\ c \in Seq(Event) /\ Orderly(c)
       /\ \A j \in Calls : Has(c, "result", j)
       /\ \A j : Has(log, "call", j) => Has(c, "call", j)
       /\ Honest(log, S) /\ (\A i \in S : Has(log, "call", i)) => Honest(c, S)
  BY <1>5, <1>10, <1>11, <1>12, <1>13
<1> QED BY <1>14 DEF c, t
----------------------------------------------------------------------------
(* Every step preserves the invariant.                                     *)

LEMMA InitIInv == Init => IInv
<1> SUFFICES ASSUME Init PROVE IInv
  OBVIOUS
<1>1. log = <<>> /\ Len(log) = 0 /\ log \in Seq(Event)
  BY EmptySeq DEF Init
<1>2. \A type, i : ~Has(log, type, i)
  BY <1>1 DEF Has
<1>3. TypeOK
  <2>1. /\ next \in 1..(N + 1) /\ last \in 0..N /\ nextToStart \in 1..(N + 1)
        /\ started \in 0..N /\ committed \in 1..(N + 1)
    BY SizeAssumption DEF Init
  <2>2. /\ slot \in [Calls -> {"empty", "post", "final"}] /\ code \in [Calls -> Code]
        /\ body \in [Calls -> {"none", "dispatched", "running", "settled"}]
    BY DEF Init, Code
  <2> QED BY <1>1, <2>1, <2>2 DEF Init, TypeOK, Point
<1>4. LogInv
  BY <1>1, <1>2 DEF Init, LogInv, Orderly, InOrder, Cites, Segment, Honest
<1>5. WindowInv
  BY <1>2, SizeAssumption DEF Init, WindowInv, At, Going, Working, Calls
<1>6. CallInv
  BY SizeAssumption DEF Init, CallInv, At, Going, Working, Calls, Busy
<1>7. PointInv
  BY DEF Init, PointInv, At, Going, Working, Busy
<1> QED BY <1>3, <1>4, <1>5, <1>6, <1>7 DEF IInv

LEMMA SameLog ==
  ASSUME LogInv, UNCHANGED <<log, lost, invoked>>
  PROVE  LogInv'
  BY DEF LogInv

LEMMA ClassifyStep == ASSUME IInv, Classify PROVE IInv'
<1> USE DEF IInv
<1>1. LogInv'
  BY SameLog DEF Classify, durable, tools
<1>2. CASE next > N
  <2>1. /\ pc' = "returned" /\ pc = "classify"
        /\ UNCHANGED <<group, pool, slots, tools, signals, durable>>
    BY <1>2 DEF Classify, signals
  <2>2. TypeOK'
    BY <2>1 DEF TypeOK, Point, group, pool, slots, tools, signals, durable
  <2>3. WindowInv' /\ CallInv'
    BY <2>1 DEF WindowInv, CallInv, At, Going, Working
  <2>4. \A i \in Calls : Has(log, "result", i)
    BY <1>2, <2>1, SizeAssumption DEF WindowInv, At, Going, Working, TypeOK, Calls
  <2>5. \A i \in Calls : ~Busy(i)
    BY <2>1 DEF PointInv, CallInv, At, Going, Working
  <2>6. PointInv'
    BY <2>1, <2>4, <2>5 DEF PointInv, At, Working, Busy, tools, durable
  <2> QED BY <1>1, <2>2, <2>3, <2>6
<1>3. CASE ~(next > N)
  <2>1. /\ pc' = "fill" /\ pc = "classify" /\ next' = next
        /\ nextToStart' = next /\ started' = next - 1 /\ committed' = next
        /\ inFlight' = {} /\ aborted' = signalAborted
        /\ mode' \in {"exclusive", "parallel"} /\ last' = (IF mode' = "parallel" THEN N ELSE next)
        /\ UNCHANGED <<slots, tools, schedulerFailure, signalAborted, durable>>
    BY <1>3 DEF Classify
  <2>2. /\ next \in Calls /\ N \in Nat /\ inFlight = {} /\ last' \in next..N
        /\ next = committed /\ nextToStart = committed /\ nextToStart = started + 1
        /\ started \in Nat
    BY <1>3, <2>1, SizeAssumption
       DEF TypeOK, WindowInv, PointInv, At, Going, Working, Calls
  <2>3. started' = started /\ committed' = committed /\ nextToStart' = nextToStart
    BY <2>1, <2>2
  <2>4. TypeOK'
    BY <2>1, <2>2, SizeAssumption DEF TypeOK, Point, slots, tools, durable, Calls
  <2>5. WindowInv'
    BY <2>1, <2>2, <2>3 DEF WindowInv, At, Going, Working, Calls, durable
  <2>6. CallInv'
    <3>1. ~schedulerFailure
      BY <2>1, <2>2 DEF PointInv, At, Working
    <3> QED BY <2>1, <2>2, <2>3, <3>1 DEF CallInv, At, Going, Working, slots, tools, Busy
  <2>7. PointInv'
    <3>1. ~schedulerFailure
      BY <2>1, <2>2 DEF PointInv, At, Working
    <3>2. committed >= nextToStart => slot[committed] = "empty"
      BY <2>1, <2>2 DEF CallInv, At, Going, Working
    <3>3. slot'[committed'] = "empty"
      BY <2>1, <2>2, <2>3, <3>2 DEF slots, Calls
    <3> QED BY <2>1, <2>2, <3>1, <3>3 DEF PointInv, At, Working, Busy, durable
  <2> QED BY <1>1, <2>4, <2>5, <2>6, <2>7
<1> QED BY <1>2, <1>3

LEMMA StartCallStep == ASSUME IInv, StartCall PROVE IInv'
<1> USE DEF IInv
<1>1. /\ pc = "fill" /\ pc' = "prepare" /\ nextToStart <= last
      /\ log' = Append(log, CallEvent(nextToStart)) /\ started' = nextToStart
      /\ UNCHANGED <<group, nextToStart, committed, inFlight, slots, tools, signals, lost>>
  BY DEF StartCall, HasRoom
<1>2. /\ nextToStart \in Calls /\ nextToStart = started + 1 /\ started \in Nat
      /\ N \in Nat /\ log \in Seq(Event)
  BY <1>1, SizeAssumption DEF TypeOK, WindowInv, At, Going, Working, Calls
<1>3. /\ \A i \in Calls : Has(log, "call", i) <=> i <= started
      /\ \A i \in Calls : Has(log, "result", i) <=> i < committed
  BY <1>1 DEF WindowInv, At, Going, Working
<1>4. /\ log' \in Seq(Event) /\ Orderly(log')
      /\ \A j : /\ Has(log', "call", j) <=> Has(log, "call", j) \/ j = nextToStart
                /\ Has(log', "result", j) <=> Has(log, "result", j)
      /\ Honest(log, invoked) => Honest(log', invoked)
  <2>1. \A j \in Calls : Has(log, "call", j) => j < nextToStart
    BY <1>2, <1>3 DEF Calls
  <2> QED BY <1>1, <1>2, <2>1, OneCall DEF LogInv
<1>5. TypeOK'
  BY <1>1, <1>2, <1>4, SizeAssumption
     DEF TypeOK, Point, group, slots, tools, signals, Calls
<1>6. LogInv'
  BY <1>1, <1>4 DEF LogInv, tools
<1>7. WindowInv'
  <2>1. \A i \in Calls : Has(log', "call", i) <=> i <= started'
    BY <1>1, <1>2, <1>3, <1>4 DEF Calls
  <2>2. \A i \in Calls : Has(log', "result", i) <=> i < committed'
    BY <1>1, <1>3, <1>4
  <2>3. /\ committed <= nextToStart /\ committed <= last + 1 /\ nextToStart <= last + 1
    BY <1>1 DEF WindowInv, At, Going, Working
  <2> QED BY <1>1, <1>2, <2>1, <2>2, <2>3 DEF WindowInv, At, Going, Working, group
<1>8. CallInv'
  BY <1>1 DEF CallInv, At, Going, Working, Busy, slots, tools, signals
<1>9. PointInv'
  BY <1>1 DEF PointInv, At, Going, Working, Busy, slots, tools, signals, group
<1> QED BY <1>5, <1>6, <1>7, <1>8, <1>9

\* The steps that only move to the next await, or wait for it.
LEMMA AwaitSettlementStep == ASSUME IInv, AwaitSettlement PROVE IInv'
<1> USE DEF IInv
<1>1. /\ pc = "fill" /\ pc' = "race"
      /\ UNCHANGED <<group, pool, slots, tools, signals, durable>>
  BY DEF AwaitSettlement
<1>2. TypeOK'
  BY <1>1 DEF TypeOK, Point, group, pool, slots, tools, signals, durable
<1>3. LogInv'
  BY <1>1, SameLog DEF tools, durable
<1>4. WindowInv'
  BY <1>1 DEF WindowInv, At, Going, Working, group, pool, durable
<1>5. CallInv'
  BY <1>1 DEF CallInv, At, Going, Working, Busy, pool, slots, tools, signals
<1>6. PointInv'
  BY <1>1 DEF PointInv, At, Working, Busy, pool, tools, signals, durable
<1> QED BY <1>2, <1>3, <1>4, <1>5, <1>6

LEMMA AwaitFinalizeStep == ASSUME IInv, AwaitFinalize PROVE IInv'
<1> USE DEF IInv
<1>1. /\ pc = "commit" /\ pc' = "finalize" /\ Ready
      /\ UNCHANGED <<group, pool, slots, tools, signals, durable>>
  BY DEF AwaitFinalize
<1>2. TypeOK'
  BY <1>1 DEF TypeOK, Point, group, pool, slots, tools, signals, durable
<1>3. LogInv'
  BY <1>1, SameLog DEF tools, durable
<1>4. WindowInv'
  BY <1>1 DEF WindowInv, At, Going, Working, group, pool, durable
<1>5. CallInv'
  BY <1>1 DEF CallInv, At, Going, Working, Busy, pool, slots, tools, signals
<1>6. PointInv'
  BY <1>1 DEF PointInv, At, Working, Busy, Ready, group, pool, slots, tools, signals, durable
<1> QED BY <1>2, <1>3, <1>4, <1>5, <1>6

LEMMA EndGroupStep == ASSUME IInv, EndGroup PROVE IInv'
<1> USE DEF IInv
<1>1. /\ pc = "fill" /\ inFlight = {}
      /\ UNCHANGED <<mode, last, pool, slots, tools, signals, lost>>
  BY DEF EndGroup
<1>2. ~schedulerFailure /\ nextToStart = started + 1 /\ committed <= nextToStart
      /\ started \in Nat /\ committed \in Nat \ {0} /\ N \in Nat /\ log \in Seq(Event)
      /\ nextToStart \in 1..(N + 1) /\ nextToStart <= last + 1 /\ last \in Nat
  BY <1>1, SizeAssumption DEF PointInv, WindowInv, At, Going, Working, TypeOK, Calls
<1>3. committed = nextToStart
  <2> SUFFICES ASSUME committed < nextToStart PROVE FALSE
    BY <1>2
  <2>1. committed \in Calls /\ committed <= last
    BY <1>2 DEF Calls
  <2>2. slot[committed] # "empty"
    BY <1>1, <1>2, <2>1 DEF CallInv, At, Going, Working
  <2> QED BY <1>1, <2>1, <2>2 DEF PointInv, At
<1>4. /\ \A i \in Calls : Has(log, "call", i) <=> i < nextToStart
      /\ \A i \in Calls : Has(log, "result", i) <=> i < nextToStart
  <2>1. \A i \in Calls : i < nextToStart <=> i <= started
    BY <1>2 DEF Calls
  <2> QED BY <1>1, <1>3, <2>1 DEF WindowInv, At, Going, Working
<1>5. \A i \in Calls : ~Busy(i) /\ (i >= nextToStart => i \notin invoked)
  BY <1>1 DEF CallInv, At, Going, Working
<1>6. CASE aborted
  <2>1. /\ log' = log \o SkippedPairs(nextToStart, N) /\ pc' = "returned" /\ next' = next
    BY <1>2, <1>6 DEF EndGroup
  <2>2. /\ log' \in Seq(Event) /\ Orderly(log')
        /\ \A j \in Calls : Has(log', "call", j) /\ Has(log', "result", j)
        /\ Honest(log, invoked) => Honest(log', invoked)
    BY <1>2, <1>4, <1>5, <2>1, Skipping DEF LogInv
  <2>3. TypeOK'
    BY <1>1, <2>1, <2>2 DEF TypeOK, Point, pool, slots, tools, signals
  <2>4. LogInv'
    BY <1>1, <2>2 DEF LogInv, tools, TypeOK
  <2>5. WindowInv' /\ CallInv'
    BY <2>1 DEF WindowInv, CallInv, At, Going, Working
  <2>6. PointInv'
    BY <1>1, <1>5, <2>1, <2>2 DEF PointInv, At, Working, Busy, tools
  <2> QED BY <2>3, <2>4, <2>5, <2>6
<1>7. CASE ~aborted
  <2>1. log' = log /\ pc' = "classify" /\ next' = started + 1
    BY <1>7 DEF EndGroup
  <2>2. TypeOK'
    BY <1>1, <1>2, <2>1 DEF TypeOK, Point, pool, slots, tools, signals
  <2>3. LogInv'
    BY <1>1, <2>1, SameLog DEF tools
  <2>4. WindowInv'
    BY <1>1, <1>2, <1>3, <2>1 DEF WindowInv, At, Going, Working, pool
  <2>5. CallInv'
    BY <1>1, <2>1 DEF CallInv, At, Going, Working, Busy, pool, slots, tools, signals
  <2>6. PointInv'
    BY <1>1, <1>2, <2>1 DEF PointInv, At, Working, Busy, pool, tools, signals
  <2> QED BY <2>2, <2>3, <2>4, <2>5, <2>6
<1> QED BY <1>6, <1>7
----------------------------------------------------------------------------
(* The steps that start, commit, collect and drain.                        *)

LEMMA PrepareStep == ASSUME IInv, Prepare PROVE IInv'
<1> USE DEF IInv
<1>1. pc = "prepare" /\ UNCHANGED <<group, started, committed, invoked, signals, durable>>
  BY DEF Prepare
<1>2. LogInv'
  BY <1>1, SameLog DEF durable
<1>3. CASE schedulerFailure
  <2>1. pc' = "draining" /\ UNCHANGED <<nextToStart, inFlight, slots, body>>
    BY <1>3 DEF Prepare, GoOn
  <2>2. TypeOK'
    BY <1>1, <2>1 DEF TypeOK, Point, group, slots, signals, durable
  <2>3. WindowInv'
    BY <1>1, <2>1 DEF WindowInv, At, Going, Working, group, durable, TypeOK
  <2>4. CallInv'
    BY <1>1, <2>1 DEF CallInv, At, Going, Working, Busy, slots, signals
  <2>5. PointInv'
    BY <1>1, <2>1 DEF PointInv, At, Working, durable
  <2> QED BY <1>2, <2>2, <2>3, <2>4, <2>5
<1>4. CASE ~schedulerFailure
  <2> DEFINE n == nextToStart
  <2>1. /\ n \in Calls /\ n = started /\ n \in Nat /\ N \in Nat /\ n <= last
        /\ committed \in Nat /\ committed <= n
    <3>1. nextToStart = started /\ nextToStart <= last /\ committed <= nextToStart
      BY <1>1 DEF WindowInv, At, Going, Working
    <3>2. started \in 0..N /\ nextToStart \in 1..(N + 1) /\ last \in 0..N /\ committed \in 1..(N + 1)
      BY DEF TypeOK
    <3> QED BY <3>1, <3>2, SizeAssumption DEF Calls
  <2>2. nextToStart' = n + 1 /\ pc' = "commit"
    BY <1>4 DEF Prepare, GoOn
  <2>3. body[n] = "none" /\ slot[n] = "empty" /\ code[n] = "none" /\ n \notin invoked
    BY <1>1, <2>1 DEF CallInv, At, Going, Working
  <2>4. WindowInv'
    <3>1. committed \in Nat /\ last \in Nat
      BY SizeAssumption DEF TypeOK
    <3> QED BY <1>1, <2>1, <2>2, <3>1 DEF WindowInv, At, Going, Working, group, durable
  <2>5. \A i \in Calls : i < n + 1 <=> i < n \/ i = n
    BY <2>1 DEF Calls
  <2>6. PointInv'
    BY <1>1, <1>4, <2>2 DEF PointInv, At, Working, signals, durable
  <2>7. CASE /\ body' = [body EXCEPT ![n] = "dispatched"]
             /\ inFlight' = inFlight \cup {n} /\ UNCHANGED slots
    <3>1. TypeOK'
      <4>1. body' \in [Calls -> {"none", "dispatched", "running", "settled"}]
        BY <2>1, <2>7 DEF TypeOK
      <4>2. nextToStart' \in 1..(N + 1) /\ inFlight' \in SUBSET Calls
        BY <2>1, <2>2, <2>7 DEF TypeOK, Calls
      <4> QED BY <1>1, <2>2, <2>7, <4>1, <4>2 DEF TypeOK, Point, group, slots, signals, durable
    <3>2. body \in [Calls -> {"none", "dispatched", "running", "settled"}]
      BY DEF TypeOK
    <3>3. \A i \in Calls : body'[i] = IF i = n THEN "dispatched" ELSE body[i]
      BY <2>7, <3>2
    <3>4. CallInv'
      <4> SUFFICES ASSUME NEW i \in Calls
                   PROVE  /\ i >= n + 1 => body'[i] = "none" /\ slot[i] = "empty"
                                         /\ code[i] = "none" /\ i \notin invoked
                          /\ i < committed => slot[i] = "empty" /\ ~Busy(i)'
                          /\ slot[i] # "empty" => ~Busy(i)'
                          /\ i >= committed /\ i < n + 1 => slot[i] # "empty" \/ (i \in inFlight' /\ Busy(i)')
                          /\ code[i] = "abortedBefore" => i \notin invoked /\ ~Busy(i)'
                          /\ Busy(i)' => i \in inFlight'
        BY <1>1, <1>4, <2>2, <2>7 DEF CallInv, slots, signals
      <4>1. CASE i = n
        <5> ~(i >= n + 1) /\ ~(i < committed)
          BY <2>1, <4>1
        <5>1. body'[i] = "dispatched" /\ i \in inFlight' /\ Busy(i)'
          BY <2>7, <3>3, <4>1 DEF Busy
        <5>2. code[i] # "abortedBefore"
          BY <2>3, <4>1
        <5> QED BY <2>3, <4>1, <5>1, <5>2
      <4>2. CASE i # n
        <5>1. Busy(i)' <=> Busy(i)
          BY <3>3, <4>2 DEF Busy
        <5>2. i \in inFlight' <=> i \in inFlight
          BY <2>7, <4>2
        <5>3. body'[i] = body[i] /\ (i >= n + 1 => i >= n)
          BY <2>1, <3>3, <4>2 DEF Calls
        <5> QED BY <1>1, <1>4, <2>5, <4>2, <5>1, <5>2, <5>3 DEF CallInv, At, Going, Working
      <4> QED BY <4>1, <4>2
    <3> QED BY <1>2, <2>4, <2>6, <3>1, <3>4
  <2>8. ASSUME NEW stage \in {"post", "final"}, NEW c \in {"error", "abortedBefore"},
               slot' = [slot EXCEPT ![n] = stage], code' = [code EXCEPT ![n] = c],
               UNCHANGED <<body, inFlight>>
        PROVE  TypeOK' /\ CallInv'
    <3>1. slot \in [Calls -> {"empty", "post", "final"}] /\ code \in [Calls -> Code]
      BY DEF TypeOK
    <3>2. /\ slot' \in [Calls -> {"empty", "post", "final"}] /\ code' \in [Calls -> Code]
          /\ \A i \in Calls : /\ slot'[i] = IF i = n THEN stage ELSE slot[i]
                              /\ code'[i] = IF i = n THEN c ELSE code[i]
      BY <2>1, <2>8, <3>1 DEF Code
    <3>3. TypeOK'
      <4>1. nextToStart' \in 1..(N + 1)
        BY <2>1, <2>2 DEF TypeOK, Calls
      <4> QED BY <1>1, <2>2, <2>8, <3>2, <4>1 DEF TypeOK, Point, group, signals, durable
    <3>4. CallInv'
      <4> SUFFICES ASSUME NEW i \in Calls
                   PROVE  /\ i >= n + 1 => body[i] = "none" /\ slot'[i] = "empty"
                                           /\ code'[i] = "none" /\ i \notin invoked
                          /\ i < committed => slot'[i] = "empty" /\ ~Busy(i)
                          /\ slot'[i] # "empty" => ~Busy(i)
                          /\ i >= committed /\ i < n + 1 => slot'[i] # "empty" \/ (i \in inFlight /\ Busy(i))
                          /\ code'[i] = "abortedBefore" => i \notin invoked /\ ~Busy(i)
                          /\ Busy(i) => i \in inFlight
        BY <1>1, <1>4, <2>2, <2>8 DEF CallInv, signals, Busy
      <4>1. CASE i = n
        <5> ~(i >= n + 1) /\ ~(i < committed)
          BY <2>1, <4>1
        <5>1. slot'[i] # "empty" /\ ~Busy(i)
          BY <2>3, <3>2, <4>1 DEF Busy
        <5> QED BY <2>3, <4>1, <5>1
      <4>2. CASE i # n
        <5>1. slot'[i] = slot[i] /\ code'[i] = code[i] /\ (i >= n + 1 => i >= n)
          BY <2>1, <3>2, <4>2 DEF Calls
        <5> QED BY <1>1, <1>4, <2>5, <4>2, <5>1 DEF CallInv, At, Going, Working
      <4> QED BY <4>1, <4>2
    <3> QED BY <3>3, <3>4
  <2>9. CASE /\ slot' = [slot EXCEPT ![n] = "post"]
             /\ \E c \in {"error", "abortedBefore"} : code' = [code EXCEPT ![n] = c]
             /\ UNCHANGED <<body, inFlight>>
    BY <1>2, <2>4, <2>6, <2>8, <2>9
  <2>10. CASE /\ slot' = [slot EXCEPT ![n] = "final"]
              /\ \E c \in {"error"} \cup (IF signalAborted THEN {"abortedBefore"} ELSE {}) :
                   code' = [code EXCEPT ![n] = c]
              /\ UNCHANGED <<body, inFlight>>
    <3>1. PICK c \in {"error", "abortedBefore"} : code' = [code EXCEPT ![n] = c]
      BY <2>10
    <3> QED BY <1>2, <2>4, <2>6, <2>8, <2>10, <3>1
  <2> QED BY <1>4, <2>7, <2>9, <2>10 DEF Prepare, GoOn
<1> QED BY <1>3, <1>4

LEMMA StageFailsStep == ASSUME IInv, StageFails PROVE IInv'
<1> USE DEF IInv
<1>1. /\ pc \in {"prepare", "commit", "finalize"} /\ pc' = "draining" /\ schedulerFailure' = TRUE
      /\ UNCHANGED <<group, pool, slots, tools, aborted, signalAborted, durable>>
  BY DEF StageFails
<1>2. TypeOK'
  BY <1>1 DEF TypeOK, Point, group, pool, slots, tools, durable
<1>3. LogInv'
  BY <1>1, SameLog DEF tools, durable
<1>4. WindowInv'
  <2>1. nextToStart <= last + 1 /\ committed <= nextToStart /\ committed <= last + 1
        /\ nextToStart \in {started, started + 1}
        /\ (\A i \in Calls : Has(log, "call", i) <=> i <= started)
        /\ (\A i \in Calls : Has(log, "result", i) <=> i < committed)
    BY <1>1 DEF WindowInv, At, Going, Working
  <2> QED BY <1>1, <2>1 DEF WindowInv, At, Going, Working, group, pool, durable
<1>5. CallInv'
  BY <1>1 DEF CallInv, At, Going, Working, Busy, pool, slots, tools
<1>6. PointInv'
  BY <1>1 DEF PointInv, At, Working, durable
<1> QED BY <1>2, <1>3, <1>4, <1>5, <1>6

\* The next result in model order is logged.
LEMMA CommitResultStep ==
  ASSUME IInv, pc \in {"commit", "finalize"}, Ready, NEW c \in Code, CommitResult(c),
         c = "abortedBefore" => committed \notin invoked
  PROVE  IInv'
<1> USE DEF IInv
<1> DEFINE n == committed
<1>1. /\ pc' = "commit" /\ committed' = n + 1
      /\ log' = Append(log, ResultEvent(n, c))
      /\ slot' = [slot EXCEPT ![n] = "empty"] /\ code' = [code EXCEPT ![n] = "none"]
      /\ UNCHANGED <<group, nextToStart, started, inFlight, tools, signals, lost>>
  BY DEF CommitResult
<1>2. /\ n \in Calls /\ n \in Nat /\ n <= last /\ n < nextToStart /\ nextToStart = started + 1
      /\ slot[n] # "empty" /\ started \in Nat /\ last \in 0..N /\ N \in Nat /\ log \in Seq(Event)
  <2>1. n \in 1..(N + 1) /\ last \in 0..N /\ n <= last /\ slot[n] # "empty"
        /\ started \in 0..N /\ nextToStart \in 1..(N + 1) /\ log \in Seq(Event)
    BY DEF TypeOK, Ready
  <2>2. n \in Calls
    BY <2>1, SizeAssumption DEF Calls
  <2>3. ~(n >= nextToStart)
    BY <2>1, <2>2 DEF CallInv, At, Going, Working
  <2>4. nextToStart = started + 1
    BY DEF WindowInv, At, Going, Working
  <2> QED BY <2>1, <2>2, <2>3, <2>4, SizeAssumption
<1>3. /\ \A i \in Calls : Has(log, "call", i) <=> i <= started
      /\ \A i \in Calls : Has(log, "result", i) <=> i < n
  BY DEF WindowInv, At, Going, Working
<1>4. /\ log' \in Seq(Event) /\ Orderly(log')
      /\ \A j : /\ Has(log', "call", j) <=> Has(log, "call", j)
                /\ Has(log', "result", j) <=> Has(log, "result", j) \/ j = n
      /\ Honest(log, invoked) => Honest(log', invoked)
  <2>1. Has(log, "call", n)
    BY <1>2, <1>3
  <2>2. c \in Code \cup Synthetic /\ (c \in Unrun => n \notin invoked)
    BY DEF Code, Unrun
  <2>3. Orderly(log)
    BY DEF LogInv
  <2> HIDE DEF IInv
  <2> QED BY <1>1, <1>2, <1>3, <2>1, <2>2, <2>3, OneResult
<1>5. slot \in [Calls -> {"empty", "post", "final"}] /\ code \in [Calls -> Code]
  BY DEF TypeOK
<1>6. /\ slot' \in [Calls -> {"empty", "post", "final"}] /\ code' \in [Calls -> Code]
      /\ \A i \in Calls : /\ slot'[i] = IF i = n THEN "empty" ELSE slot[i]
                          /\ code'[i] = IF i = n THEN "none" ELSE code[i]
  BY <1>1, <1>2, <1>5 DEF Code
<1>7. TypeOK'
  <2>1. committed' \in 1..(N + 1)
    BY <1>1, <1>2
  <2> QED BY <1>1, <1>4, <1>6, <2>1 DEF TypeOK, Point, group, tools, signals
<1>8. LogInv'
  BY <1>1, <1>4 DEF LogInv, tools
<1>9. WindowInv'
  <2>1. \A i \in Calls : Has(log', "call", i) <=> i <= started
    BY <1>3, <1>4
  <2>2. \A i \in Calls : Has(log', "result", i) <=> i < n + 1
    BY <1>2, <1>3, <1>4 DEF Calls
  <2>3. n + 1 <= nextToStart /\ n + 1 <= last + 1
    BY <1>2 DEF TypeOK
  <2>4. nextToStart <= last + 1
    BY DEF WindowInv, At, Going, Working
  <2> QED BY <1>1, <1>2, <2>1, <2>2, <2>3, <2>4 DEF WindowInv, At, Going, Working, group
<1>10. CallInv'
  <2> SUFFICES ASSUME NEW i \in Calls
               PROVE  /\ i >= nextToStart => body[i] = "none" /\ slot'[i] = "empty"
                                             /\ code'[i] = "none" /\ i \notin invoked
                      /\ i < n + 1 => slot'[i] = "empty" /\ ~Busy(i)
                      /\ slot'[i] # "empty" => ~Busy(i)
                      /\ i >= n + 1 /\ i < nextToStart /\ ~schedulerFailure =>
                           slot'[i] # "empty" \/ (i \in inFlight /\ Busy(i))
                      /\ code'[i] = "abortedBefore" => i \notin invoked /\ ~Busy(i)
                      /\ Busy(i) => i \in inFlight
    BY <1>1 DEF CallInv, tools, signals, Busy
  <2>1. CASE i = n
    <3>1. ~Busy(i)
      BY <1>2, <2>1 DEF CallInv, At, Going, Working
    <3> QED BY <1>2, <1>6, <2>1, <3>1 DEF TypeOK
  <2>2. CASE i # n
    <3>1. slot'[i] = slot[i] /\ code'[i] = code[i] /\ (i < n + 1 => i < n) /\ (i >= n + 1 => i >= n)
      BY <1>2, <1>6, <2>2 DEF Calls
    <3> QED BY <1>2, <2>2, <3>1 DEF CallInv, At, Going, Working
  <2> QED BY <2>1, <2>2
<1>11. PointInv'
  BY <1>1 DEF PointInv, At, Working, signals
<1> QED BY <1>7, <1>8, <1>9, <1>10, <1>11

LEMMA FinishSlotStep == ASSUME IInv, FinishSlot PROVE IInv'
<1>1. pc = "commit" /\ Ready /\ CommitResult(code[committed])
  BY DEF FinishSlot
<1>2. committed \in Calls /\ code[committed] \in Code
  BY <1>1, SizeAssumption DEF IInv, TypeOK, Ready, Calls
<1>3. code[committed] = "abortedBefore" => committed \notin invoked
  BY <1>1, <1>2 DEF IInv, CallInv, At, Going, Working
<1> QED BY <1>1, <1>2, <1>3, CommitResultStep

LEMMA FinalizeStep == ASSUME IInv, Finalize PROVE IInv'
<1>1. pc = "finalize" /\ Ready
  BY DEF Finalize, IInv, PointInv, At
<1>2. PICK c \in {code[committed], "error"} :
        CommitResult(IF signalAborted /\ c = "ok" THEN Cancelled(committed) ELSE c)
  BY DEF Finalize
<1> DEFINE x == IF signalAborted /\ c = "ok" THEN Cancelled(committed) ELSE c
<1>3. committed \in Calls /\ code[committed] \in Code
  BY <1>1, SizeAssumption DEF IInv, TypeOK, Ready, Calls
<1>4. code[committed] = "abortedBefore" => committed \notin invoked
  BY <1>1, <1>3 DEF IInv, CallInv, At, Going, Working
<1>5. x \in Code /\ (x = "abortedBefore" => committed \notin invoked)
  BY <1>2, <1>3, <1>4 DEF Cancelled, Code
<1> HIDE DEF x
<1>6. CommitResult(x)
  BY <1>2 DEF x
<1> QED BY <1>1, <1>5, <1>6, CommitResultStep

LEMMA CommitDoneStep == ASSUME IInv, CommitDone PROVE IInv'
<1> USE DEF IInv
<1>1. /\ pc = "commit" /\ ~Ready
      /\ UNCHANGED <<group, pool, slots, tools, schedulerFailure, signalAborted, durable>>
      /\ \/ pc' = "draining" /\ aborted' = aborted
         \/ pc' = "fill" /\ aborted' = (aborted \/ signalAborted) /\ ~schedulerFailure
  BY DEF CommitDone
<1>2. TypeOK'
  <2>1. (aborted \/ signalAborted) \in BOOLEAN
    BY DEF TypeOK
  <2>2. aborted' \in BOOLEAN
    BY <1>1, <2>1 DEF TypeOK
  <2>3. pc' \in Point
    BY <1>1 DEF Point
  <2> QED BY <1>1, <2>2, <2>3 DEF TypeOK, group, pool, slots, tools, durable
<1>3. LogInv'
  BY <1>1, SameLog DEF tools, durable
<1>4. WindowInv'
  BY <1>1 DEF WindowInv, At, Going, Working, group, pool, durable
<1>5. CallInv'
  BY <1>1 DEF CallInv, At, Going, Working, Busy, pool, slots, tools
<1>6. PointInv'
  <2>1. ~(committed <= last /\ slot[committed] # "empty")
    BY <1>1 DEF Ready
  <2> QED BY <1>1, <2>1 DEF PointInv, At, Working, Busy, group, pool, slots, tools, durable
<1> QED BY <1>2, <1>3, <1>4, <1>5, <1>6

LEMMA RaceStep == ASSUME IInv, Race PROVE IInv'
<1> USE DEF IInv
<1>1. /\ pc = "race" /\ pc' = (IF schedulerFailure THEN "draining" ELSE "commit")
      /\ UNCHANGED <<group, nextToStart, started, committed, slots, tools, signals, durable>>
  BY DEF Race
<1>2. PICK i \in inFlight : body[i] = "settled" /\ inFlight' = inFlight \ {i}
  BY DEF Race
<1>3. TypeOK'
  <2>1. inFlight' \in SUBSET Calls /\ pc' \in Point
    BY <1>1, <1>2 DEF TypeOK, Point
  <2> QED BY <1>1, <2>1 DEF TypeOK, group, slots, tools, signals, durable
<1>4. LogInv'
  BY <1>1, SameLog DEF tools, durable
<1>5. WindowInv'
  BY <1>1 DEF WindowInv, At, Going, Working, group, durable
<1>6. CallInv'
  <2>1. \A j \in Calls : Busy(j) /\ j \in inFlight => j \in inFlight'
    BY <1>2 DEF Busy
  <2> QED BY <1>1, <2>1 DEF CallInv, At, Going, Working, Busy, slots, tools, signals
<1>7. PointInv'
  BY <1>1 DEF PointInv, At, Working, signals, durable
<1> QED BY <1>3, <1>4, <1>5, <1>6, <1>7

LEMMA DrainStep == ASSUME IInv, Drain PROVE IInv'
<1> USE DEF IInv
<1>1. /\ pc = "draining" /\ pc' = "failed" /\ \A i \in inFlight : body[i] = "settled"
      /\ UNCHANGED <<group, pool, slots, tools, signals, durable>>
  BY DEF Drain
<1>2. TypeOK'
  BY <1>1 DEF TypeOK, Point, group, pool, slots, tools, signals, durable
<1>3. LogInv'
  BY <1>1, SameLog DEF tools, durable
<1>4. WindowInv'
  BY <1>1 DEF WindowInv, At, Going, Working, group, pool, durable
<1>5. CallInv'
  BY <1>1 DEF CallInv, At, Going, Working, Busy, pool, slots, tools, signals
<1>6. PointInv'
  <2>1. \A i \in Calls : ~Busy(i)
    <3>1. \A i \in Calls : Busy(i) => i \in inFlight
      BY <1>1 DEF CallInv, At, Going, Working
    <3> QED BY <1>1, <3>1 DEF Busy
  <2> QED BY <1>1, <2>1 DEF PointInv, At, Working, Busy, tools, durable
<1> QED BY <1>2, <1>3, <1>4, <1>5, <1>6
----------------------------------------------------------------------------
(* The steps of the bodies, the signal, and the end.                       *)

\* A body or an open dispatch belongs to the window of started calls.
LEMMA BusyCall ==
  ASSUME IInv, NEW i \in Calls, Busy(i)
  PROVE  /\ At(Working \cup {"draining"}) /\ At(Going)
         /\ i \in inFlight /\ ~(i < committed) /\ ~(i >= nextToStart)
         /\ slot[i] = "empty" /\ code[i] # "abortedBefore"
         /\ i <= started /\ Has(log, "call", i) /\ ~Has(log, "result", i)
<1>1. At(Working \cup {"draining"}) /\ At(Going)
  BY DEF IInv, PointInv, At, Going
<1>2. /\ i \in inFlight /\ ~(i < committed) /\ slot[i] = "empty" /\ code[i] # "abortedBefore"
      /\ ~(i >= nextToStart)
  BY <1>1 DEF IInv, CallInv, Busy
<1>3. nextToStart \in {started, started + 1} /\ nextToStart \in 1..(N + 1) /\ started \in 0..N
  BY <1>1 DEF IInv, WindowInv, TypeOK
<1>4. i <= started
  BY <1>2, <1>3, SizeAssumption DEF Calls
<1>5. Has(log, "call", i) /\ ~Has(log, "result", i)
  BY <1>1, <1>2, <1>4 DEF IInv, WindowInv
<1> QED BY <1>1, <1>2, <1>4, <1>5

LEMMA EnterBodyStep == ASSUME IInv, NEW i \in Calls, EnterBody(i) PROVE IInv'
<1>1. /\ body[i] = "dispatched" /\ body' = [body EXCEPT ![i] = "running"]
      /\ invoked' = invoked \cup {i}
      /\ UNCHANGED <<pc, group, pool, slots, signals, durable>>
  BY DEF EnterBody
<1>2. /\ At(Working \cup {"draining"}) /\ At(Going)
      /\ i \in inFlight /\ ~(i < committed) /\ ~(i >= nextToStart)
      /\ slot[i] = "empty" /\ code[i] # "abortedBefore"
      /\ Has(log, "call", i) /\ ~Has(log, "result", i)
  BY <1>1, BusyCall DEF Busy
<1> USE DEF IInv
<1>3. body \in [Calls -> {"none", "dispatched", "running", "settled"}]
  BY DEF TypeOK
<1>4. /\ body' \in [Calls -> {"none", "dispatched", "running", "settled"}]
      /\ \A j \in Calls : body'[j] = IF j = i THEN "running" ELSE body[j]
  BY <1>1, <1>3
<1>5. \A j \in Calls : Busy(j)' <=> Busy(j)
  BY <1>1, <1>4 DEF Busy
<1>6. TypeOK'
  <2>1. invoked' \in SUBSET Calls
    BY <1>1 DEF TypeOK
  <2> QED BY <1>1, <1>4, <2>1 DEF TypeOK, group, pool, slots, signals, durable
<1>7. LogInv'
  <2>1. \A k \in 1..Len(log) : log[k].type = "result" => log[k].call # i
    BY <1>2 DEF Has
  <2>2. Honest(log, invoked) => Honest(log, invoked')
    BY <1>1, <2>1 DEF Honest
  <2> QED BY <1>1, <1>2, <2>2 DEF LogInv, durable
<1>8. WindowInv'
  BY <1>1 DEF WindowInv, At, group, pool, durable
<1>9. CallInv'
  <2> SUFFICES ASSUME At(Going), NEW j \in Calls
               PROVE  /\ j >= nextToStart => /\ body'[j] = "none" /\ slot[j] = "empty"
                                             /\ code[j] = "none" /\ j \notin invoked'
                      /\ j < committed => slot[j] = "empty" /\ ~Busy(j)
                      /\ slot[j] # "empty" => ~Busy(j)
                      /\ j >= committed /\ j < nextToStart /\ ~schedulerFailure =>
                           slot[j] # "empty" \/ (j \in inFlight /\ Busy(j))
                      /\ code[j] = "abortedBefore" => j \notin invoked' /\ ~Busy(j)
                      /\ Busy(j) => j \in inFlight
    BY <1>1, <1>5 DEF CallInv, At, pool, slots, signals
  <2>1. CASE j = i
    BY <1>2, <2>1 DEF CallInv
  <2>2. CASE j # i
    <3>1. body'[j] = body[j] /\ (j \in invoked' <=> j \in invoked)
      BY <1>1, <1>4, <2>2
    <3> QED BY <1>2, <3>1 DEF CallInv
  <2> QED BY <2>1, <2>2
<1>10. PointInv'
  BY <1>1, <1>5 DEF PointInv, At, Ready, group, pool, slots, signals, durable
<1> QED BY <1>6, <1>7, <1>8, <1>9, <1>10

\* A dispatch is over, and its slot filled.
LEMMA SettleStep ==
  ASSUME IInv, NEW i \in Calls, Busy(i), NEW stage \in {"post", "final"}, NEW c \in Code,
         Settle(i, stage, c), c = "abortedBefore" => i \notin invoked
  PROVE  IInv'
<1>1. /\ body' = [body EXCEPT ![i] = "settled"]
      /\ slot' = [slot EXCEPT ![i] = stage] /\ code' = [code EXCEPT ![i] = c]
      /\ UNCHANGED <<pc, group, pool, invoked, signals, durable>>
  BY DEF Settle
<1>2. /\ At(Working \cup {"draining"}) /\ At(Going)
      /\ i \in inFlight /\ ~(i < committed) /\ ~(i >= nextToStart)
  BY BusyCall
<1> USE DEF IInv
<1>3. /\ body \in [Calls -> {"none", "dispatched", "running", "settled"}]
      /\ slot \in [Calls -> {"empty", "post", "final"}] /\ code \in [Calls -> Code]
  BY DEF TypeOK
<1>4. /\ body' \in [Calls -> {"none", "dispatched", "running", "settled"}]
      /\ slot' \in [Calls -> {"empty", "post", "final"}] /\ code' \in [Calls -> Code]
      /\ \A j \in Calls : /\ body'[j] = IF j = i THEN "settled" ELSE body[j]
                          /\ slot'[j] = IF j = i THEN stage ELSE slot[j]
                          /\ code'[j] = IF j = i THEN c ELSE code[j]
  BY <1>1, <1>3
<1>5. TypeOK'
  BY <1>1, <1>4 DEF TypeOK, group, pool, signals, durable
<1>6. LogInv'
  BY <1>1, SameLog DEF durable
<1>7. WindowInv'
  BY <1>1 DEF WindowInv, At, group, pool, durable
<1>8. ~Busy(i)' /\ slot'[i] # "empty"
  BY <1>4 DEF Busy
<1>9. \A j \in Calls : j # i => (Busy(j)' <=> Busy(j)) /\ slot'[j] = slot[j]
                                /\ code'[j] = code[j] /\ body'[j] = body[j]
  BY <1>4 DEF Busy
<1>10. CallInv'
  <2> SUFFICES ASSUME At(Going), NEW j \in Calls
               PROVE  /\ j >= nextToStart => /\ body'[j] = "none" /\ slot'[j] = "empty"
                                             /\ code'[j] = "none" /\ j \notin invoked
                      /\ j < committed => slot'[j] = "empty" /\ ~Busy(j)'
                      /\ slot'[j] # "empty" => ~Busy(j)'
                      /\ j >= committed /\ j < nextToStart /\ ~schedulerFailure =>
                           slot'[j] # "empty" \/ (j \in inFlight /\ Busy(j)')
                      /\ code'[j] = "abortedBefore" => j \notin invoked /\ ~Busy(j)'
                      /\ Busy(j)' => j \in inFlight
    BY <1>1 DEF CallInv, At, pool, signals
  <2>1. CASE j = i
    BY <1>2, <1>4, <1>8, <2>1
  <2>2. CASE j # i
    BY <1>2, <1>9, <2>2 DEF CallInv
  <2> QED BY <2>1, <2>2
<1>11. PointInv'
  <2>1. \A j \in Calls : slot[j] # "empty" => slot'[j] # "empty"
    BY <1>8, <1>9
  <2>2. \A j \in Calls : Busy(j)' => Busy(j)
    BY <1>8, <1>9
  <2>3. committed <= last => committed \in Calls
    BY SizeAssumption DEF TypeOK, Calls
  <2>4. At({"fill"}) /\ committed <= last /\ slot'[committed] # "empty" => committed \in inFlight
    BY <1>2, <1>9, <2>3 DEF PointInv
  <2>5. At({"finalize"}) => committed <= last /\ slot'[committed] # "empty"
    BY <2>1, <2>3 DEF PointInv, Ready
  <2> QED BY <1>1, <1>2, <2>2, <2>4, <2>5 DEF PointInv, At, Ready, group, pool, signals, durable
<1> QED BY <1>5, <1>6, <1>7, <1>10, <1>11

LEMMA SettleUnenteredStep == ASSUME IInv, NEW i \in Calls, SettleUnentered(i) PROVE IInv'
<1>1. Busy(i)
  BY DEF SettleUnentered, Busy
<1> DEFINE x == IF signalAborted THEN Cancelled(i) ELSE "ok"
<1>2. x \in Code /\ (x = "abortedBefore" => i \notin invoked)
  BY DEF Cancelled, Code
<1>3. Settle(i, "post", x) \/ \E stage \in {"post", "final"} : Settle(i, stage, "error")
  BY DEF SettleUnentered
<1> HIDE DEF x
<1>4. CASE Settle(i, "post", x)
  BY <1>1, <1>2, <1>4, SettleStep
<1>5. CASE \E stage \in {"post", "final"} : Settle(i, stage, "error")
  <2>1. "error" \in Code
    BY DEF Code
  <2> QED BY <1>1, <1>5, <2>1, SettleStep
<1> QED BY <1>3, <1>4, <1>5

LEMMA SettleBodyStep == ASSUME IInv, NEW i \in Calls, SettleBody(i) PROVE IInv'
<1>1. Busy(i)
  BY DEF SettleBody, Busy
<1> DEFINE x == IF signalAborted THEN Cancelled(i) ELSE "ok"
<1>2. x \in Code /\ (x = "abortedBefore" => i \notin invoked)
  BY DEF Cancelled, Code
<1>3. Settle(i, "post", x) \/ \E stage \in {"post", "final"} : Settle(i, stage, "error")
  BY DEF SettleBody
<1> HIDE DEF x
<1>4. CASE Settle(i, "post", x)
  BY <1>1, <1>2, <1>4, SettleStep
<1>5. CASE \E stage \in {"post", "final"} : Settle(i, stage, "error")
  <2>1. "error" \in Code
    BY DEF Code
  <2> QED BY <1>1, <1>5, <2>1, SettleStep
<1> QED BY <1>3, <1>4, <1>5

LEMMA RejectDispatchStep == ASSUME IInv, NEW i \in Calls, RejectDispatch(i) PROVE IInv'
<1>1. /\ body[i] \in {"dispatched", "running"} /\ body' = [body EXCEPT ![i] = "settled"]
      /\ schedulerFailure' = TRUE
      /\ UNCHANGED <<pc, group, pool, slots, invoked, aborted, signalAborted, durable>>
  BY DEF RejectDispatch
<1>2. /\ At(Working \cup {"draining"}) /\ At(Going)
      /\ i \in inFlight /\ ~(i < committed) /\ ~(i >= nextToStart)
  BY <1>1, BusyCall DEF Busy
<1> USE DEF IInv
<1>3. body \in [Calls -> {"none", "dispatched", "running", "settled"}]
  BY DEF TypeOK
<1>4. /\ body' \in [Calls -> {"none", "dispatched", "running", "settled"}]
      /\ \A j \in Calls : body'[j] = IF j = i THEN "settled" ELSE body[j]
  BY <1>1, <1>3
<1>5. TypeOK'
  BY <1>1, <1>4 DEF TypeOK, group, pool, slots, durable
<1>6. LogInv'
  BY <1>1, SameLog DEF durable
<1>7. WindowInv'
  BY <1>1 DEF WindowInv, At, group, pool, durable
<1>8. \A j \in Calls : Busy(j)' => Busy(j)
  BY <1>4 DEF Busy
<1>9. CallInv'
  <2>1. \A j \in Calls : j >= nextToStart => body'[j] = body[j]
    BY <1>2, <1>4
  <2> QED BY <1>1, <1>2, <1>8, <2>1 DEF CallInv, At, pool, slots
<1>10. PointInv'
  BY <1>1, <1>2, <1>8 DEF PointInv, At, Ready, group, pool, slots, durable
<1> QED BY <1>5, <1>6, <1>7, <1>9, <1>10

LEMMA AbortStep == ASSUME IInv, Abort PROVE IInv'
<1> USE DEF IInv
<1>1. /\ signalAborted' = TRUE
      /\ UNCHANGED <<pc, group, pool, slots, tools, schedulerFailure, aborted, durable>>
  BY DEF Abort
<1>2. TypeOK'
  BY <1>1 DEF TypeOK, group, pool, slots, tools, durable
<1>3. LogInv'
  BY <1>1, SameLog DEF tools, durable
<1>4. WindowInv'
  BY <1>1 DEF WindowInv, At, group, pool, durable
<1>5. CallInv'
  BY <1>1 DEF CallInv, At, Busy, pool, slots, tools
<1>6. PointInv'
  BY <1>1 DEF PointInv, At, Busy, Ready, group, pool, slots, tools, durable
<1> QED BY <1>2, <1>3, <1>4, <1>5, <1>6

\* At rest only the log is left to speak of.
LEMMA RestStep ==
  ASSUME IInv, Rest, pc' \in {"crashed", "closed"}, UNCHANGED invoked,
         lost' \in BOOLEAN, log' \in Seq(Event)
  PROVE  TypeOK' /\ WindowInv' /\ CallInv' /\ \A i \in Calls : ~Busy(i)'
<1>1. TypeOK'
  <2>1. /\ next' \in 1..(N + 1) /\ last' \in 0..N /\ nextToStart' \in 1..(N + 1)
        /\ started' \in 0..N /\ committed' \in 1..(N + 1)
    BY SizeAssumption DEF Rest
  <2>2. /\ slot' \in [Calls -> {"empty", "post", "final"}] /\ code' \in [Calls -> Code]
        /\ body' \in [Calls -> {"none", "dispatched", "running", "settled"}]
    BY DEF Rest, Code
  <2> QED BY <2>1, <2>2 DEF IInv, TypeOK, Rest, Point
<1>2. WindowInv' /\ CallInv'
  BY DEF WindowInv, CallInv, At, Going, Working
<1>3. \A i \in Calls : ~Busy(i)'
  BY DEF Rest, Busy
<1> QED BY <1>1, <1>2, <1>3

LEMMA CloseStepStep == ASSUME IInv, CloseStep PROVE IInv'
<1>1. /\ pc \in {"returned", "failed", "crashed"} /\ pc' = "closed" /\ Rest
      /\ log' = (IF pc = "returned" THEN log ELSE log \o Recovery)
      /\ UNCHANGED <<invoked, lost>>
  BY DEF CloseStep
<1>2. /\ log' \in Seq(Event) /\ Orderly(log') /\ \A j \in Calls : Has(log', "result", j)
      /\ ~lost => Honest(log', invoked) /\ \A i \in invoked : Has(log', "call", i)
  <2>1. CASE pc = "returned"
    BY <1>1, <2>1 DEF IInv, TypeOK, LogInv, PointInv, At
  <2>2. CASE pc # "returned"
    <3>1. TypeOK /\ Orderly(log)
          /\ (~lost => Honest(log, invoked) /\ \A i \in invoked : Has(log, "call", i))
      BY DEF IInv, LogInv
    <3> QED BY <1>1, <2>2, <3>1, Recovering
  <2> QED BY <2>1, <2>2
<1>3. lost' \in BOOLEAN
  BY <1>1 DEF IInv, TypeOK
<1>4. TypeOK' /\ WindowInv' /\ CallInv' /\ \A i \in Calls : ~Busy(i)'
  BY <1>1, <1>2, <1>3, RestStep
<1>5. LogInv'
  BY <1>1, <1>2 DEF LogInv
<1>6. PointInv'
  BY <1>1, <1>2, <1>4 DEF PointInv, At, Working
<1> QED BY <1>4, <1>5, <1>6 DEF IInv

LEMMA CrashStep == ASSUME IInv, Crash PROVE IInv'
<1>1. pc \notin {"crashed", "closed"} /\ pc' = "crashed" /\ Rest /\ UNCHANGED invoked
  BY DEF Crash
<1>2. PICK k \in 0..Len(log) : log' = SubSeq(log, 1, k) /\ lost' = (k # Len(log))
  BY DEF Crash
<1>3. log' \in Seq(Event) /\ Orderly(log') /\ (k = Len(log) => log' = log)
  BY <1>2, Prefix DEF IInv, TypeOK, LogInv
<1>4. lost' \in BOOLEAN
  BY <1>2
<1>5. TypeOK' /\ WindowInv' /\ CallInv' /\ \A i \in Calls : ~Busy(i)'
  BY <1>1, <1>3, <1>4, RestStep
<1>6. LogInv'
  <2>1. ~lost
    BY <1>1 DEF IInv, PointInv, At
  <2>2. Honest(log, invoked) /\ \A i \in invoked : Has(log, "call", i)
    BY <2>1 DEF IInv, LogInv
  <2> QED BY <1>1, <1>2, <1>3, <2>2 DEF LogInv
<1>7. PointInv'
  BY <1>1, <1>5 DEF PointInv, At, Working
<1> QED BY <1>5, <1>6, <1>7 DEF IInv
----------------------------------------------------------------------------
(* The theorems.                                                           *)

LEMMA NextStep == ASSUME IInv, [Next]_vars PROVE IInv'
<1>1. CASE UNCHANGED vars
  <2>1. UNCHANGED <<pc, group, pool, slots, tools, signals, durable>>
    BY <1>1 DEF vars
  <2> USE DEF IInv
  <2>2. TypeOK'
    BY <2>1 DEF TypeOK, group, pool, slots, tools, signals, durable
  <2>3. LogInv'
    BY <2>1, SameLog DEF tools, durable
  <2>4. WindowInv'
    BY <2>1 DEF WindowInv, At, group, pool, durable
  <2>5. CallInv'
    BY <2>1 DEF CallInv, At, Busy, pool, slots, tools, signals
  <2>6. PointInv'
    BY <2>1 DEF PointInv, At, Busy, Ready, group, pool, slots, tools, signals, durable
  <2> QED BY <2>2, <2>3, <2>4, <2>5, <2>6
<1>2. CASE Scheduler
  BY <1>2, ClassifyStep, StartCallStep, AwaitSettlementStep, EndGroupStep, PrepareStep,
     FinishSlotStep, AwaitFinalizeStep, FinalizeStep, CommitDoneStep, RaceStep, DrainStep,
     CloseStepStep DEF Scheduler
<1>3. CASE Bodies
  BY <1>3, EnterBodyStep, SettleUnenteredStep, SettleBodyStep DEF Bodies
<1>4. CASE StageFails \/ Abort \/ Crash
  BY <1>4, StageFailsStep, AbortStep, CrashStep
<1>5. CASE \E i \in Calls : RejectDispatch(i)
  BY <1>5, RejectDispatchStep
<1> QED BY <1>1, <1>2, <1>3, <1>4, <1>5 DEF Next

LEMMA Inductive == Spec => []IInv
<1>1. IInv /\ [Next]_vars => IInv'
  BY NextStep
<1> QED BY InitIInv, <1>1, PTL DEF Spec

\* The state of the scheduler keeps its types.
THEOREM SchedulerTypes == Spec => []TypeOK
<1>1. IInv => TypeOK
  BY DEF IInv
<1> QED BY Inductive, <1>1, PTL

\* Whatever order the bodies settle in, and wherever an abort, a failure or a
\* crash cuts the step, the log has calls and results in model order, each at
\* most once, and a result after the call it cites.
THEOREM OneAnswerInOrder == Spec => []ResultsInModelOrder
<1>1. ASSUME IInv PROVE ResultsInModelOrder
  <2>1. DOMAIN log = 1..Len(log)
    BY <1>1, LenProperties DEF IInv, TypeOK
  <2>2. InOrder(log, "call") /\ InOrder(log, "result") /\ Cites(log)
    BY <1>1 DEF IInv, LogInv, Orderly
  <2>3. \A j, k \in Positions("result") : j < k => log[j].call < log[k].call
    BY <2>1, <2>2 DEF Positions, InOrder
  <2>4. \A j, k \in Positions("call") : j < k => log[j].call < log[k].call
    BY <2>1, <2>2 DEF Positions, InOrder
  <2>5. \A k \in Positions("result") : log[k].code # "notStarted" =>
          \E j \in Positions("call") : j < k /\ log[j].call = log[k].call
    BY <2>1, <2>2 DEF Positions, Cites
  <2> QED BY <2>3, <2>4, <2>5 DEF ResultsInModelOrder
<1>2. IInv => ResultsInModelOrder
  BY <1>1
<1> QED BY Inductive, <1>2, PTL

\* A closed step has a result for every call the assistant asked for.
THEOREM EveryCallAnswered == Spec => []ClosedIsAnswered
<1>1. ASSUME IInv PROVE ClosedIsAnswered
  <2>1. \A i \in Calls : Logged("result", i) <=> Has(log, "result", i)
    BY <1>1, LoggedHas DEF IInv
  <2> QED BY <1>1, <2>1 DEF ClosedIsAnswered, IInv, PointInv, At
<1>2. IInv => ClosedIsAnswered
  BY <1>1
<1> QED BY Inductive, <1>2, PTL

\* No body outlives the group, the step or the failure that started it.
THEOREM NoBodyLeftBehind == Spec => []Quiescent
<1>1. ASSUME IInv PROVE Quiescent
  <2> SUFFICES ASSUME pc \in {"returned", "failed", "closed", "classify"}
               PROVE  \A i \in Calls : ~Busy(i)
    BY DEF Quiescent, Live, Busy
  <2>1. CASE pc = "classify"
    <3>1. inFlight = {}
      BY <1>1, <2>1 DEF IInv, PointInv, At
    <3>2. \A i \in Calls : Busy(i) => i \in inFlight
      BY <1>1, <2>1 DEF IInv, CallInv, At, Going, Working
    <3> QED BY <3>1, <3>2
  <2>2. CASE pc # "classify"
    BY <1>1, <2>2 DEF IInv, PointInv, At, Working
  <2> QED BY <2>1, <2>2
<1>2. IInv => Quiescent
  BY <1>1
<1> QED BY Inductive, <1>2, PTL

\* What the log reports as aborted before it began, skipped or never started
\* has had no body, unless a crash lost the record of the start.
THEOREM NotRunIsTrue == Spec => []UnrunIsHonest
<1>1. ASSUME IInv PROVE UnrunIsHonest
  <2>1. DOMAIN log = 1..Len(log)
    BY <1>1, LenProperties DEF IInv, TypeOK
  <2>2. ~lost => Honest(log, invoked)
    BY <1>1 DEF IInv, LogInv
  <2> QED BY <2>1, <2>2 DEF UnrunIsHonest, Positions, Honest, Unrun
<1>2. IInv => UnrunIsHonest
  BY <1>1
<1> QED BY Inductive, <1>2, PTL

----------------------------------------------------------------------------
(* The step ends: what it waits for is under way, and every step of it    *)
(* uses up work.                                                           *)

\* runGroup's race and the drain of a failed step wait for bodies that were dispatched,
\* and the race for at least one: the first half of StepCloses.
WaitsOnBodies ==
  At({"race", "draining"}) =>
    /\ At({"race"}) => inFlight # {}
    /\ \A i \in inFlight : body[i] # "none"

Weight(p) ==
  CASE p = "closed" -> 0 [] p = "crashed" -> 1 [] p \in {"returned", "failed"} -> 3
    [] p = "draining" -> 4 [] p = "race" -> 5 [] p = "prepare" -> 6 [] p = "fill" -> 7
    [] p = "finalize" -> 8 [] p = "commit" -> 9 [] p = "classify" -> 10
Over == {"returned", "failed", "crashed", "closed"}

Dispatched == {i \in Calls : body[i] = "dispatched"}
Running    == {i \in Calls : body[i] = "running"}

\* The work ahead of a group that goes on: calls to start, to collect, to commit and to
\* classify, and bodies to enter and to settle.
Ahead ==
  11 * (N + 1 - nextToStart) + 5 * Cardinality(inFlight) + 2 * (N + 1 - committed)
    + 4 * (N + 1 - next) + 2 * Cardinality(Dispatched) + Cardinality(Running)

Rank ==
  Weight(pc) + (IF signalAborted THEN 0 ELSE 1) + (IF pc \in Over THEN 0 ELSE Ahead)

\* Whatever scheduler, bodies, abort and faults do, each step leaves less to do: the loops of
\* runGroup, fillPool and commitReady cannot go round for ever.  The other half of StepCloses.
WorkRunsOut == [][Rank' < Rank /\ Rank \in Nat]_vars

\* The last call of a group is not before its first, and a dead process has no signal.
GroupInv ==
  /\ At(Going \ {"classify"}) => next <= last
  /\ At(Going) => \A i \in inFlight : body[i] # "none"
  /\ At({"race"}) => inFlight # {}
  /\ At({"crashed"}) => ~signalAborted

LEMMA InitGroup == Init => GroupInv
  BY DEF Init, GroupInv, At, Going, Working

LEMMA GroupStep ==
  ASSUME IInv, GroupInv, [Next]_vars
  PROVE  GroupInv'
<1> USE DEF At, Going, Working, pool, group, slots, tools, signals, durable
<1>1. TypeOK /\ N \in Nat
  BY SizeAssumption DEF IInv
<1>2. CASE Classify
  <2>1. next \in Int /\ (next <= N => next <= last')
    BY <1>1, <1>2, SizeAssumption DEF Classify, TypeOK
  <2> QED BY <1>1, <1>2, <2>1 DEF Classify, GroupInv
<1>3. CASE \/ StartCall \/ AwaitSettlement \/ AwaitFinalize \/ CommitDone \/ StageFails
           \/ Drain \/ Abort \/ FinishSlot \/ Finalize \/ UNCHANGED vars
  BY <1>3 DEF StartCall, AwaitSettlement, AwaitFinalize, CommitDone, StageFails, Drain,
              Abort, FinishSlot, Finalize, CommitResult, GroupInv, vars
<1>4. CASE EndGroup
  BY <1>4 DEF EndGroup, GroupInv
<1>5. CASE Prepare
  <2>1. \A i \in inFlight : body'[i] # "none"
    BY <1>1, <1>5 DEF Prepare, GroupInv, TypeOK
  <2>2. inFlight' = inFlight \/ (inFlight' = inFlight \cup {nextToStart} /\ body'[nextToStart] = "dispatched")
    <3>1. nextToStart \in Calls
      BY <1>1, <1>5 DEF Prepare, IInv, WindowInv, TypeOK, Calls
    <3> QED BY <1>1, <1>5, <3>1 DEF Prepare, TypeOK
  <2> QED BY <1>5, <2>1, <2>2 DEF Prepare, GroupInv
<1>6. CASE Race
  BY <1>6 DEF Race, GroupInv
<1>7. CASE CloseStep \/ Crash
  BY <1>7 DEF CloseStep, Crash, Rest, GroupInv
<1>8. ASSUME NEW i \in Calls,
             EnterBody(i) \/ SettleUnentered(i) \/ SettleBody(i) \/ RejectDispatch(i)
      PROVE  GroupInv'
  <2>1. /\ \A k \in Calls : body[k] # "none" => body'[k] # "none"
        /\ UNCHANGED <<pc, group, pool>> /\ (signalAborted' = signalAborted)
    BY <1>1, <1>8 DEF EnterBody, SettleUnentered, SettleBody, Settle, RejectDispatch, TypeOK
  <2>2. inFlight \subseteq Calls
    BY <1>1 DEF TypeOK
  <2> QED BY <2>1, <2>2 DEF GroupInv
<1> QED BY <1>2, <1>3, <1>4, <1>5, <1>6, <1>7, <1>8 DEF Next, Scheduler, Bodies

LEMMA GroupAlways == Spec => []GroupInv
<1>1. IInv /\ GroupInv /\ [Next]_vars => GroupInv'
  BY GroupStep
<1> QED BY InitGroup, Inductive, <1>1, PTL DEF Spec

\* For any number of calls, any pool and any faults, nothing is awaited that was not begun.
THEOREM AwaitedIsUnderWay == Spec => []WaitsOnBodies
<1>1. GroupInv => WaitsOnBodies
  BY DEF GroupInv, WaitsOnBodies, At, Going, Working
<1> QED BY GroupAlways, <1>1, PTL

LEMMA FiniteCalls ==
  ASSUME NEW S \in SUBSET Calls
  PROVE  IsFiniteSet(S) /\ Cardinality(S) \in Nat
<1>1. IsFiniteSet(Calls)
  BY SizeAssumption, FS_Interval DEF Calls
<1> QED BY <1>1, FS_Subset, FS_CardinalityType

LEMMA AheadType == TypeOK => Ahead \in Nat
<1> SUFFICES ASSUME TypeOK PROVE Ahead \in Nat
  OBVIOUS
<1>1. Cardinality(inFlight) \in Nat /\ Cardinality(Dispatched) \in Nat /\ Cardinality(Running) \in Nat
  <2>1. inFlight \subseteq Calls /\ Dispatched \subseteq Calls /\ Running \subseteq Calls
    BY DEF TypeOK, Dispatched, Running
  <2> QED BY <2>1, FiniteCalls
<1>2. N + 1 - nextToStart \in Nat /\ N + 1 - committed \in Nat /\ N + 1 - next \in Nat
  BY SizeAssumption DEF TypeOK
<1> DEFINE x == N + 1 - nextToStart  y == N + 1 - committed  z == N + 1 - next
           c == Cardinality(inFlight)  d == Cardinality(Dispatched)  r == Cardinality(Running)
<1>3. Ahead = 11 * x + 5 * c + 2 * y + 4 * z + 2 * d + r
  BY DEF Ahead
<1>4. x \in Nat /\ y \in Nat /\ z \in Nat /\ c \in Nat /\ d \in Nat /\ r \in Nat
  BY <1>1, <1>2
<1> HIDE DEF x, y, z, c, d, r
<1> QED BY <1>3, <1>4

LEMMA AheadNext == ASSUME TypeOK' PROVE Ahead' \in Nat
<1>1. (TypeOK => Ahead \in Nat)'
  BY AheadType, PTL
<1> QED BY <1>1

LEMMA WeightType ==
  ASSUME NEW p \in Point
  PROVE  /\ Weight(p) \in Nat
         /\ p \notin Over => Weight(p) >= 4
         /\ p \in Over => Weight(p) <= 3
<1>1. CASE p \in Over
  <2>1. Weight(p) \in {0, 1, 3}
    BY <1>1 DEF Over, Weight
  <2> QED BY <1>1, <2>1
<1>2. CASE p \notin Over
  <2>1. p \in {"draining", "race", "prepare", "fill", "finalize", "commit", "classify"}
    BY <1>2 DEF Point, Over
  <2>2. Weight(p) \in {4, 5, 6, 7, 8, 9, 10}
    BY <2>1 DEF Weight
  <2> QED BY <1>2, <2>2
<1> QED BY <1>1, <1>2

\* A step that moves on, with less ahead than the move costs.
LEMMA MovesDown ==
  ASSUME TypeOK, pc' \in Point, Ahead' \in Nat, pc \notin Over, pc' \notin Over,
         Weight(pc') + Ahead' < Weight(pc) + Ahead, signalAborted' = signalAborted
  PROVE  Rank \in Nat /\ Rank' < Rank
<1>1. Weight(pc) \in Nat /\ Weight(pc') \in Nat
  BY WeightType DEF TypeOK
<1>2. Ahead \in Nat
  BY AheadType
<1> DEFINE g == IF signalAborted THEN 0 ELSE 1
<1>3. g \in Nat
  OBVIOUS
<1>4. Rank = Weight(pc) + g + Ahead /\ Rank' = Weight(pc') + g + Ahead'
  BY DEF Rank
<1> HIDE DEF g
<1> QED BY <1>1, <1>2, <1>3, <1>4

LEMMA Stays ==
  ASSUME TypeOK, pc' \in Point, pc \notin Over, pc' \notin Over, Weight(pc') < Weight(pc),
         UNCHANGED <<nextToStart, inFlight, committed, next, body, signalAborted>>
  PROVE  Rank \in Nat /\ Rank' < Rank
<1>1. Ahead' = Ahead
  BY DEF Ahead, Dispatched, Running
<1>2. Ahead \in Nat
  BY AheadType
<1>3. Weight(pc) \in Nat /\ Weight(pc') \in Nat
  BY WeightType DEF TypeOK
<1>4. Weight(pc') + Ahead' < Weight(pc) + Ahead
  BY <1>1, <1>2, <1>3
<1> QED BY <1>1, <1>2, <1>4, MovesDown

\* The step returns or fails: nothing of the group is ahead any more.
LEMMA Returns ==
  ASSUME TypeOK, pc \notin Over, pc' \in {"returned", "failed"}, signalAborted' = signalAborted
  PROVE  Rank \in Nat /\ Rank' < Rank
<1>1. Ahead \in Nat
  BY AheadType
<1>2. Weight(pc) \in Nat /\ Weight(pc) >= 4
  BY WeightType DEF TypeOK
<1>3. Weight(pc') = 3 /\ pc' \in Over
  BY DEF Weight, Over
<1> DEFINE g == IF signalAborted THEN 0 ELSE 1
<1>4. g \in Nat
  OBVIOUS
<1>5. Rank = Weight(pc) + g + Ahead /\ Rank' = Weight(pc') + g + 0
  BY <1>3 DEF Rank
<1> HIDE DEF g
<1> QED BY <1>1, <1>2, <1>3, <1>4, <1>5

\* The process dies, or the step closes: both forget the signal.
LEMMA Goes ==
  ASSUME TypeOK, ~signalAborted',
         \/ pc' = "crashed" /\ pc \notin {"crashed", "closed"}
         \/ pc' = "closed" /\ (pc \in {"returned", "failed"} \/ (pc = "crashed" /\ ~signalAborted))
  PROVE  Rank \in Nat /\ Rank' < Rank
<1>1. Ahead \in Nat
  BY AheadType
<1>2. pc \in Point /\ Weight(pc) \in Nat
  BY WeightType DEF TypeOK
<1> DEFINE g == IF signalAborted THEN 0 ELSE 1
           a == IF pc \in Over THEN 0 ELSE Ahead
<1>3. g \in Nat /\ a \in Nat /\ (~signalAborted => g = 1)
  BY <1>1
<1>4. Rank = Weight(pc) + g + a
  BY DEF Rank
<1>5. Rank' = Weight(pc') + 1
  <2>1. pc' \in Over
    BY DEF Over
  <2>2. Rank' = Weight(pc') + 1 + 0
    BY <2>1 DEF Rank
  <2>3. Weight(pc') \in {0, 1}
    BY DEF Weight
  <2> QED BY <2>2, <2>3
<1>6. CASE pc' = "crashed" /\ pc \notin {"crashed", "closed"}
  <2>1. Weight(pc') = 1 /\ Weight(pc) >= 3
    BY <1>2, <1>6 DEF Point, Weight
  <2> HIDE DEF g, a
  <2> QED BY <1>2, <1>3, <1>4, <1>5, <2>1
<1>7. CASE pc' = "closed" /\ (pc \in {"returned", "failed"} \/ (pc = "crashed" /\ ~signalAborted))
  <2>1. Weight(pc') = 0
    BY <1>7 DEF Weight
  <2>2. (pc \in {"returned", "failed"} /\ Weight(pc) = 3) \/ (pc = "crashed" /\ Weight(pc) = 1)
    BY <1>7 DEF Weight
  <2> HIDE DEF g, a
  <2> QED BY <1>2, <1>3, <1>4, <1>5, <1>7, <2>1, <2>2
<1> QED BY <1>6, <1>7

LEMMA CardLess ==
  ASSUME NEW S \in SUBSET Calls, NEW i \in S
  PROVE  Cardinality(S \ {i}) = Cardinality(S) - 1
<1>1. IsFiniteSet(S)
  BY FiniteCalls
<1> QED BY <1>1, FS_RemoveElement

LEMMA CardMore ==
  ASSUME NEW S \in SUBSET Calls, NEW i
  PROVE  Cardinality(S \cup {i}) \in Nat /\ Cardinality(S \cup {i}) <= Cardinality(S) + 1
<1>1. IsFiniteSet(S) /\ Cardinality(S) \in Nat
  BY FiniteCalls
<1>2. Cardinality(S \cup {i}) = IF i \in S THEN Cardinality(S) ELSE Cardinality(S) + 1
  BY <1>1, FS_AddElement
<1> QED BY <1>1, <1>2

LEMMA SizeTypes ==
  ASSUME TypeOK
  PROVE  /\ inFlight \in SUBSET Calls /\ Dispatched \in SUBSET Calls /\ Running \in SUBSET Calls
         /\ Cardinality(inFlight) \in Nat /\ Cardinality(Dispatched) \in Nat
         /\ Cardinality(Running) \in Nat
<1>1. inFlight \in SUBSET Calls /\ Dispatched \in SUBSET Calls /\ Running \in SUBSET Calls
  BY DEF TypeOK, Dispatched, Running
<1> QED BY <1>1, FiniteCalls

\* A body that is entered, or that settles, leaves less to do.
LEMMA BodyMoves ==
  ASSUME IInv, TypeOK', NEW i \in Calls, NEW b \in {"running", "settled"},
         body[i] = "dispatched" \/ (body[i] = "running" /\ b = "settled"),
         body' = [body EXCEPT ![i] = b],
         UNCHANGED <<pc, nextToStart, inFlight, committed, next, signalAborted>>
  PROVE  Rank \in Nat /\ Rank' < Rank
<1> DEFINE d == Cardinality(Dispatched)  e == Cardinality(Dispatched')
           r == Cardinality(Running)     q == Cardinality(Running')
<1>1. TypeOK
  BY DEF IInv
<1>2. d \in Nat /\ r \in Nat /\ e \in Nat /\ q \in Nat
  <2>1. Dispatched' \in SUBSET Calls /\ Running' \in SUBSET Calls
    BY DEF Dispatched, Running
  <2> QED BY <1>1, <2>1, SizeTypes, FiniteCalls
<1>3. 2 * e + q < 2 * d + r
  <2>1. \A j \in Calls : body'[j] = IF j = i THEN b ELSE body[j]
    BY <1>1 DEF TypeOK
  <2>2. CASE body[i] = "dispatched" /\ b = "running"
    <3>1. i \in Dispatched /\ Dispatched' = Dispatched \ {i} /\ Running' = Running \cup {i}
      BY <2>1, <2>2 DEF Dispatched, Running
    <3>2. e = d - 1 /\ q <= r + 1
      BY <1>1, <3>1, SizeTypes, CardLess, CardMore
    <3> QED BY <1>2, <3>2
  <2>3. CASE body[i] = "dispatched" /\ b = "settled"
    <3>1. i \in Dispatched /\ Dispatched' = Dispatched \ {i} /\ Running' = Running
      BY <2>1, <2>3 DEF Dispatched, Running
    <3>2. e = d - 1 /\ q = r
      BY <1>1, <3>1, SizeTypes, CardLess
    <3> QED BY <1>2, <3>2
  <2>4. CASE body[i] = "running" /\ b = "settled"
    <3>1. i \in Running /\ Dispatched' = Dispatched /\ Running' = Running \ {i}
      BY <2>1, <2>4 DEF Dispatched, Running
    <3>2. e = d /\ q = r - 1
      BY <1>1, <3>1, SizeTypes, CardLess
    <3> QED BY <1>2, <3>2
  <2> QED BY <2>2, <2>3, <2>4
<1>4. pc \in Point /\ pc \notin Over /\ pc' = pc
  BY <1>1 DEF IInv, PointInv, At, Working, Busy, Over, TypeOK
<1> DEFINE w == Weight(pc)
           c == 11 * (N + 1 - nextToStart) + 5 * Cardinality(inFlight) + 2 * (N + 1 - committed)
                  + 4 * (N + 1 - next)
<1>5. Ahead = c + 2 * d + r /\ Ahead' = c + 2 * e + q
  BY DEF Ahead
<1>6. c \in Int /\ w \in Nat
  <2>1. Cardinality(inFlight) \in Nat
    BY <1>1, SizeTypes
  <2>2. N \in Int /\ nextToStart \in Int /\ committed \in Int /\ next \in Int
    BY <1>1, SizeAssumption DEF TypeOK
  <2> QED BY <1>4, <2>1, <2>2, WeightType
<1>7. w + Ahead' < w + Ahead
  <2> HIDE DEF c, d, e, r, q, w
  <2> QED BY <1>2, <1>3, <1>5, <1>6
<1>8. Ahead' \in Nat
  BY AheadNext
<1> QED BY <1>1, <1>4, <1>7, <1>8, MovesDown

LEMMA PrepareRank ==
  ASSUME IInv, TypeOK', Prepare
  PROVE  Rank \in Nat /\ Rank' < Rank
<1>1. TypeOK /\ N \in Nat
  BY SizeAssumption DEF IInv
<1>2. pc = "prepare" /\ pc \in Point /\ pc \notin Over /\ signalAborted' = signalAborted
  BY DEF Prepare, Point, Over, signals
<1>3. CASE ~GoOn
  <2>1. pc' = "draining" /\ UNCHANGED <<nextToStart, inFlight, committed, next, body>>
    BY <1>3 DEF Prepare, group
  <2>2. pc' \in Point /\ pc' \notin Over /\ Weight(pc') < Weight(pc)
    BY <1>2, <2>1 DEF Point, Over, Weight
  <2> QED BY <1>1, <1>2, <2>1, <2>2, Stays
<1>4. CASE GoOn
  <2>1. /\ pc' = "commit" /\ nextToStart' = nextToStart + 1 /\ committed' = committed /\ next' = next
        /\ \/ body' = [body EXCEPT ![nextToStart] = "dispatched"] /\ inFlight' = inFlight \cup {nextToStart}
           \/ body' = body /\ inFlight' = inFlight
    BY <1>4 DEF Prepare, group
  <2> DEFINE c == Cardinality(inFlight)    b == Cardinality(inFlight')
             d == Cardinality(Dispatched)  e == Cardinality(Dispatched')
             r == Cardinality(Running)     q == Cardinality(Running')
  <2>2. /\ c \in Nat /\ d \in Nat /\ r \in Nat /\ b \in Nat /\ e \in Nat /\ q \in Nat
        /\ b <= c + 1 /\ e <= d + 1 /\ q = r
    <3>1. CASE body' = body /\ inFlight' = inFlight
      <4>1. Dispatched' = Dispatched /\ Running' = Running
        BY <3>1 DEF Dispatched, Running
      <4> QED BY <1>1, <3>1, <4>1, SizeTypes
    <3>2. CASE body' = [body EXCEPT ![nextToStart] = "dispatched"] /\ inFlight' = inFlight \cup {nextToStart}
      <4>1. nextToStart \in Calls /\ body[nextToStart] = "none"
        <5>1. nextToStart \in Calls
          BY <1>1, <1>2 DEF IInv, WindowInv, TypeOK, Calls, At, Going, Working
        <5>2. nextToStart >= nextToStart
          BY <1>1 DEF TypeOK
        <5> QED BY <1>2, <5>1, <5>2 DEF IInv, CallInv, At, Going, Working
      <4>2. \A j \in Calls : body'[j] = IF j = nextToStart THEN "dispatched" ELSE body[j]
        BY <1>1, <3>2 DEF TypeOK
      <4>3. Dispatched' = Dispatched \cup {nextToStart} /\ Running' = Running
        BY <4>1, <4>2 DEF Dispatched, Running
      <4> QED BY <1>1, <3>2, <4>3, SizeTypes, CardMore
    <3> QED BY <2>1, <3>1, <3>2
  <2>3. Weight(pc) = 6 /\ Weight(pc') = 9 /\ pc' \in Point /\ pc' \notin Over
    BY <1>2, <2>1 DEF Weight, Point, Over
  <2> DEFINE x == N + 1 - nextToStart
             y == 2 * (N + 1 - committed) + 4 * (N + 1 - next)
  <2>4. x \in Int /\ y \in Int /\ N + 1 - nextToStart' = x - 1
    BY <1>1, <2>1 DEF TypeOK
  <2>5. Ahead = 11 * x + 5 * c + y + 2 * d + r /\ Ahead' = 11 * (x - 1) + 5 * b + y + 2 * e + q
    <3>1. Ahead = 11 * x + 5 * c + 2 * (N + 1 - committed) + 4 * (N + 1 - next) + 2 * d + r
      BY DEF Ahead
    <3>2. Ahead' = 11 * (N + 1 - nextToStart') + 5 * b + 2 * (N + 1 - committed) + 4 * (N + 1 - next) + 2 * e + q
      BY <2>1 DEF Ahead
    <3>3. N + 1 - committed \in Int /\ N + 1 - next \in Int
      BY <1>1 DEF TypeOK
    <3> DEFINE y1 == N + 1 - committed  y2 == N + 1 - next
    <3> HIDE DEF x, c, b, d, e, r, q, y1, y2
    <3>4. y1 \in Int /\ y2 \in Int /\ y = 2 * y1 + 4 * y2
      BY <3>3 DEF y1, y2
    <3>5. Ahead = 11 * x + 5 * c + 2 * y1 + 4 * y2 + 2 * d + r
      BY <3>1 DEF y1, y2
    <3>6. Ahead' = 11 * (x - 1) + 5 * b + 2 * y1 + 4 * y2 + 2 * e + q
      BY <3>2, <2>4 DEF y1, y2
    <3> QED BY <2>2, <2>4, <3>4, <3>5, <3>6
  <2>6. Weight(pc') + Ahead' < Weight(pc) + Ahead
    <3> HIDE DEF x, y, c, b, d, e, r, q
    <3> QED BY <2>2, <2>3, <2>4, <2>5
  <2>7. Ahead' \in Nat
    BY AheadNext
  <2> QED BY <1>1, <1>2, <2>3, <2>6, <2>7, MovesDown
<1> QED BY <1>3, <1>4

\* A group commits, collects or is over: what it lifts the weight by, it takes off the rest.
LEMMA GroupMoves ==
  ASSUME TypeOK, TypeOK', pc \notin Over, pc' \notin Over,
         UNCHANGED <<nextToStart, body, signalAborted>>,
         Weight(pc') + 5 * Cardinality(inFlight') + 2 * committed + 4 * next
           < Weight(pc) + 5 * Cardinality(inFlight) + 2 * committed' + 4 * next'
  PROVE  Rank \in Nat /\ Rank' < Rank
<1> DEFINE c == Cardinality(inFlight)  b == Cardinality(inFlight')
           d == Cardinality(Dispatched)  r == Cardinality(Running)
           x == N + 1 - nextToStart  w == Weight(pc)  v == Weight(pc')
<1>1. c \in Nat /\ b \in Nat /\ d \in Nat /\ r \in Nat
  <2>1. inFlight' \in SUBSET Calls
    BY DEF TypeOK
  <2> QED BY <2>1, SizeTypes, FiniteCalls
<1>2. /\ N \in Int /\ x \in Int /\ committed \in Int /\ next \in Int /\ committed' \in Int /\ next' \in Int
      /\ w \in Nat /\ v \in Nat /\ pc' \in Point
  BY SizeAssumption, WeightType DEF TypeOK
<1>3. Dispatched' = Dispatched /\ Running' = Running
  BY DEF Dispatched, Running
<1>4. /\ Ahead = 11 * x + 5 * c + 2 * (N + 1 - committed) + 4 * (N + 1 - next) + 2 * d + r
      /\ Ahead' = 11 * x + 5 * b + 2 * (N + 1 - committed') + 4 * (N + 1 - next') + 2 * d + r
  BY <1>3 DEF Ahead
<1>5. v + Ahead' < w + Ahead
  <2>1. v + 5 * b + 2 * committed + 4 * next < w + 5 * c + 2 * committed' + 4 * next'
    OBVIOUS
  <2> DEFINE m == 11 * x + 2 * d + r + 6 * (N + 1)
             b5 == 5 * b  c5 == 5 * c
             k == 2 * committed  l == 2 * committed'
             n == 4 * next  o == 4 * next'
  <2> HIDE DEF c, b, d, r, x, w, v
  <2>2. m \in Int /\ b5 \in Int /\ c5 \in Int /\ k \in Int /\ l \in Int /\ n \in Int /\ o \in Int
    BY <1>1, <1>2
  <2>3. Ahead = m + c5 - k - n
    BY <1>1, <1>2, <1>4
  <2>4. Ahead' = m + b5 - l - o
    BY <1>1, <1>2, <1>4
  <2>5. v + b5 + k + n < w + c5 + l + o
    BY <2>1
  <2> HIDE DEF m, b5, c5, k, l, n, o
  <2> QED BY <1>2, <2>2, <2>3, <2>4, <2>5
<1>6. Ahead' \in Nat
  BY AheadNext
<1> QED BY <1>2, <1>5, <1>6, MovesDown

LEMMA RankStep ==
  ASSUME IInv, IInv', GroupInv, Next
  PROVE  Rank \in Nat /\ Rank' < Rank
<1> USE DEF group, pool, slots, tools, signals, durable
<1>1. TypeOK /\ TypeOK' /\ N \in Nat /\ pc \in Point /\ pc' \in Point
  BY SizeAssumption DEF IInv, TypeOK
<1>2. CASE Classify
  <2>1. CASE next > N
    <3>1. pc = "classify" /\ pc' = "returned" /\ signalAborted' = signalAborted /\ pc \notin Over
      BY <1>2, <2>1 DEF Classify, Over
    <3> QED BY <1>1, <3>1, Returns
  <2>2. CASE ~(next > N)
    <3>1. /\ pc = "classify" /\ pc' = "fill" /\ signalAborted' = signalAborted /\ body' = body
          /\ nextToStart' = next /\ committed' = next /\ inFlight' = {} /\ next' = next
      BY <1>2, <2>2 DEF Classify
    <3>2. next = committed /\ nextToStart = committed /\ inFlight = {}
      BY <3>1 DEF IInv, WindowInv, PointInv, At, Going, Working
    <3>3. pc \notin Over /\ pc' \notin Over /\ Weight(pc') < Weight(pc)
      BY <3>1 DEF Over, Weight
    <3> QED BY <1>1, <3>1, <3>2, <3>3, Stays
  <2> QED BY <2>1, <2>2
<1>3. CASE StartCall \/ AwaitSettlement \/ AwaitFinalize \/ CommitDone \/ StageFails
  <2>1. UNCHANGED <<nextToStart, inFlight, committed, next, body, signalAborted>>
    BY <1>3 DEF StartCall, AwaitSettlement, AwaitFinalize, CommitDone, StageFails
  <2>2. \/ pc = "fill" /\ pc' \in {"prepare", "race"}
        \/ pc = "commit" /\ pc' \in {"finalize", "fill"}
        \/ pc \in {"prepare", "commit", "finalize"} /\ pc' = "draining"
    BY <1>3 DEF StartCall, AwaitSettlement, AwaitFinalize, CommitDone, StageFails
  <2>3. pc \notin Over /\ pc' \notin Over
    BY <2>2 DEF Over
  <2>4. Weight(pc') < Weight(pc)
    <3>1. CASE pc = "fill" /\ pc' \in {"prepare", "race"}
      BY <3>1 DEF Weight
    <3>2. CASE pc = "commit" /\ pc' \in {"finalize", "fill"}
      BY <3>2 DEF Weight
    <3>3. CASE pc \in {"prepare", "commit", "finalize"} /\ pc' = "draining"
      BY <3>3 DEF Weight
    <3> QED BY <2>2, <3>1, <3>2, <3>3
  <2> QED BY <1>1, <2>1, <2>3, <2>4, Stays
<1>4. CASE EndGroup
  <2>1. CASE aborted
    <3>1. pc = "fill" /\ pc' = "returned" /\ signalAborted' = signalAborted /\ pc \notin Over
      BY <1>4, <2>1 DEF EndGroup, Over
    <3> QED BY <1>1, <3>1, Returns
  <2>2. CASE ~aborted
    <3>1. /\ pc = "fill" /\ pc' = "classify" /\ next' = started + 1 /\ inFlight = {}
          /\ UNCHANGED <<nextToStart, body, signalAborted, inFlight, committed>>
      BY <1>4, <2>2 DEF EndGroup
    <3>2. next' >= next + 1
      <4>1. nextToStart = started + 1 /\ next <= last
        BY <3>1 DEF IInv, WindowInv, GroupInv, At, Going, Working
      <4>2. nextToStart > last \/ nextToStart > next
        <5>1. Cardinality(inFlight) = 0
          BY <3>1, FS_EmptySet
        <5> QED BY <1>1, <1>4, <2>2, <5>1, SizeAssumption DEF EndGroup, PoolFilled, HasRoom, TypeOK
      <4> QED BY <1>1, <3>1, <4>1, <4>2 DEF TypeOK
    <3>3. Weight(pc) = 7 /\ Weight(pc') = 10 /\ pc \notin Over /\ pc' \notin Over
      BY <3>1 DEF Weight, Over
    <3>4. Cardinality(inFlight') = Cardinality(inFlight) /\ Cardinality(inFlight) \in Nat
      BY <1>1, <3>1, SizeTypes
    <3>5. next \in Int /\ next' \in Int /\ committed \in Int /\ committed' = committed
      BY <1>1, <3>1 DEF TypeOK
    <3>6. Weight(pc') + 5 * Cardinality(inFlight') + 2 * committed + 4 * next
            < Weight(pc) + 5 * Cardinality(inFlight) + 2 * committed' + 4 * next'
      BY <3>2, <3>3, <3>4, <3>5
    <3> QED BY <1>1, <3>1, <3>3, <3>6, GroupMoves
  <2> QED BY <2>1, <2>2
<1>5. CASE Prepare
  BY <1>1, <1>5, PrepareRank
<1>6. CASE FinishSlot \/ Finalize
  <2>1. /\ pc \in {"commit", "finalize"} /\ pc' = "commit" /\ committed' = committed + 1 /\ next' = next
        /\ UNCHANGED <<nextToStart, body, signalAborted, inFlight>>
    BY <1>6 DEF FinishSlot, Finalize, CommitResult
  <2>2. Weight(pc) \in {8, 9} /\ Weight(pc') = 9 /\ pc \notin Over /\ pc' \notin Over
    BY <2>1 DEF Weight, Over
  <2>3. Cardinality(inFlight') = Cardinality(inFlight) /\ Cardinality(inFlight) \in Nat
    BY <1>1, <2>1, SizeTypes
  <2>4. next \in Int /\ committed \in Int
    BY <1>1 DEF TypeOK
  <2>5. Weight(pc') + 5 * Cardinality(inFlight') + 2 * committed + 4 * next
          < Weight(pc) + 5 * Cardinality(inFlight) + 2 * committed' + 4 * next'
    BY <2>1, <2>2, <2>3, <2>4
  <2> QED BY <1>1, <2>1, <2>2, <2>5, GroupMoves
<1>7. CASE Race
  <2>1. /\ pc = "race" /\ pc' \in {"draining", "commit"} /\ committed' = committed /\ next' = next
        /\ UNCHANGED <<nextToStart, body, signalAborted>>
    BY <1>7 DEF Race
  <2>2. PICK i \in inFlight : inFlight' = inFlight \ {i}
    BY <1>7 DEF Race
  <2>3. Weight(pc) = 5 /\ Weight(pc') \in {4, 9} /\ pc \notin Over /\ pc' \notin Over
    BY <2>1 DEF Weight, Over
  <2>4. Cardinality(inFlight') = Cardinality(inFlight) - 1 /\ Cardinality(inFlight) \in Nat
    BY <1>1, <2>2, SizeTypes, CardLess
  <2>5. next \in Int /\ committed \in Int
    BY <1>1 DEF TypeOK
  <2>6. Weight(pc') + 5 * Cardinality(inFlight') + 2 * committed + 4 * next
          < Weight(pc) + 5 * Cardinality(inFlight) + 2 * committed' + 4 * next'
    BY <2>1, <2>3, <2>4, <2>5
  <2> QED BY <1>1, <2>1, <2>3, <2>6, GroupMoves
<1>8. CASE Drain
  <2>1. pc = "draining" /\ pc' = "failed" /\ signalAborted' = signalAborted /\ pc \notin Over
    BY <1>8 DEF Drain, Over
  <2> QED BY <1>1, <2>1, Returns
<1>9. CASE CloseStep \/ Crash
  <2>1. /\ ~signalAborted'
        /\ \/ pc' = "crashed" /\ pc \notin {"crashed", "closed"}
           \/ pc' = "closed" /\ pc \in {"returned", "failed", "crashed"}
    BY <1>9 DEF CloseStep, Crash, Rest
  <2>2. pc = "crashed" => ~signalAborted
    BY DEF GroupInv, At
  <2> QED BY <1>1, <2>1, <2>2, Goes
<1>10. CASE Abort
  <2>1. /\ ~signalAborted /\ signalAborted'
        /\ UNCHANGED <<pc, nextToStart, inFlight, committed, next, body>>
    BY <1>10 DEF Abort
  <2>2. Ahead' = Ahead /\ Ahead \in Nat /\ Weight(pc) \in Nat
    BY <1>1, <2>1, AheadType, WeightType DEF Ahead, Dispatched, Running
  <2> DEFINE a == IF pc \in Over THEN 0 ELSE Ahead
  <2>3. a \in Nat
    BY <2>2
  <2>4. Rank = Weight(pc) + 1 + a /\ Rank' = Weight(pc) + 0 + a
    BY <2>1, <2>2 DEF Rank
  <2> HIDE DEF a
  <2> QED BY <2>2, <2>3, <2>4
<1>11. ASSUME NEW i \in Calls,
              EnterBody(i) \/ SettleUnentered(i) \/ SettleBody(i) \/ RejectDispatch(i)
       PROVE  Rank \in Nat /\ Rank' < Rank
  <2>1. UNCHANGED <<pc, nextToStart, inFlight, committed, next, signalAborted>>
    BY <1>11 DEF EnterBody, SettleUnentered, SettleBody, Settle, RejectDispatch
  <2>2. CASE EnterBody(i)
    <3>1. body[i] = "dispatched" /\ body' = [body EXCEPT ![i] = "running"]
      BY <2>2 DEF EnterBody
    <3> QED BY <1>1, <2>1, <3>1, BodyMoves
  <2>3. CASE SettleUnentered(i) \/ SettleBody(i) \/ RejectDispatch(i)
    <3>1. body[i] \in {"dispatched", "running"} /\ body' = [body EXCEPT ![i] = "settled"]
      BY <2>3 DEF SettleUnentered, SettleBody, Settle, RejectDispatch
    <3> QED BY <1>1, <2>1, <3>1, BodyMoves
  <2> QED BY <1>11, <2>2, <2>3
<1> QED BY <1>2, <1>3, <1>4, <1>5, <1>6, <1>7, <1>8, <1>9, <1>10, <1>11 DEF Next, Scheduler, Bodies

\* For any number of calls, any pool and any faults, a step takes finitely many steps of the
\* scheduler, the bodies, the abort and the faults: a natural number goes down with each.
THEOREM StepsRunOut == Spec => WorkRunsOut
<1>1. IInv /\ IInv' /\ GroupInv /\ [Next]_vars => [Rank' < Rank /\ Rank \in Nat]_vars
  BY RankStep
<1> QED BY Inductive, GroupAlways, <1>1, PTL DEF Spec, WorkRunsOut
=============================================================================
