------------------------- MODULE AgentDriverProofs -------------------------
(***************************************************************************)
(* Theorems about the driver, for every set of messages and causes and     *)
(* every environment.                                                      *)
(***************************************************************************)
EXTENDS AgentDriver, SequenceTheorems, TLAPS

----------------------------------------------------------------------------
(* The operators of Inbox: the types of a splice and of a claim, and what  *)
(* they do to the set of pending messages and to its uniqueness.           *)

\* A splice at a position of the list yields a list of the same kind.
LEMMA SplicedType ==
  ASSUME NEW S, NEW s \in Seq(S), NEW ins \in Seq(S), NEW i \in DOMAIN s
  PROVE  Spliced(s, i - 1, 1, ins) \in Seq(S)
<1>1. i \in 1..Len(s)
  OBVIOUS
<1>2. SubSeq(s, 1, i - 1) \in Seq(S)
  BY <1>1
<1>3. SubSeq(s, (i - 1) + 1 + 1, Len(s)) \in Seq(S)
  BY <1>1
<1> QED
  BY <1>2, <1>3 DEF Spliced

\* A claim takes messages of the lists and leaves lists of the same kind.
LEMMA ClaimType ==
  ASSUME NEW S, NEW box \in [Target -> Seq(S)], NEW t \in Target
  PROVE  /\ ClaimedBatch(box, t) \subseteq S
         /\ AfterClaim(box, t) \in [Target -> Seq(S)]
<1>1. box[NextTurn] \in Seq(S) /\ box[NextStep] \in Seq(S)
  BY DEF Target
<1>2. Range(box[NextStep]) \subseteq S
  BY <1>1 DEF Range
<1>3. box[NextTurn] # <<>> => Head(box[NextTurn]) \in S /\ Tail(box[NextTurn]) \in Seq(S)
  BY <1>1
<1>4. ClaimedBatch(box, t) \subseteq S
  BY <1>2, <1>3 DEF ClaimedBatch
<1>5. AfterClaim(box, t) \in [Target -> Seq(S)]
  BY <1>1, <1>3 DEF AfterClaim, Target, NextTurn, NextStep
<1> QED
  BY <1>4, <1>5

----------------------------------------------------------------------------
(* One list: its messages and whether each is in it once.                  *)

LEMMA AppendRange ==
  ASSUME NEW S, NEW s \in Seq(S), NEW m \in S
  PROVE  /\ Range(Append(s, m)) = Range(s) \cup {m}
         /\ IsInjective(s) /\ m \notin Range(s) => IsInjective(Append(s, m))
<1> DEFINE a == Append(s, m)
<1>1. /\ Len(a) = Len(s) + 1 /\ DOMAIN a = 1..(Len(s) + 1) /\ DOMAIN s = 1..Len(s)
      /\ \A k \in 1..Len(s) : a[k] = s[k]
      /\ a[Len(s) + 1] = m
  OBVIOUS
<1>2. Range(a) = Range(s) \cup {m}
  <2>1. ASSUME NEW x \in Range(a) PROVE x \in Range(s) \cup {m}
    BY <1>1, <2>1 DEF Range
  <2>2. ASSUME NEW x \in Range(s) PROVE x \in Range(a)
    <3>1. PICK k \in 1..Len(s) : x = s[k]
      BY <1>1, <2>2 DEF Range
    <3>2. k \in DOMAIN a /\ a[k] = x
      BY <1>1, <3>1
    <3> QED
      BY <3>2 DEF Range
  <2>3. m \in Range(a)
    <3>1. Len(s) + 1 \in DOMAIN a
      BY <1>1
    <3> QED
      BY <1>1, <3>1 DEF Range
  <2> QED
    BY <2>1, <2>2, <2>3
<1>3. ASSUME IsInjective(s), m \notin Range(s) PROVE IsInjective(a)
  <2>1. \A k \in 1..Len(s) : s[k] # m
    BY <1>1, <1>3 DEF Range
  <2>2. ASSUME NEW j \in DOMAIN a, NEW k \in DOMAIN a, a[j] = a[k] PROVE j = k
    BY <1>1, <1>3, <2>1, <2>2 DEF IsInjective
  <2> QED
    BY <2>2 DEF IsInjective
<1> QED
  BY <1>2, <1>3

LEMMA TailRange ==
  ASSUME NEW S, NEW s \in Seq(S), s # <<>>, IsInjective(s)
  PROVE  /\ Range(Tail(s)) = Range(s) \ {Head(s)}
         /\ IsInjective(Tail(s))
<1> DEFINE a == Tail(s)
<1>1. /\ DOMAIN a = 1..(Len(s) - 1) /\ DOMAIN s = 1..Len(s) /\ Len(s) \in Nat \ {0}
      /\ \A k \in 1..(Len(s) - 1) : a[k] = s[k + 1]
      /\ Head(s) = s[1]
  OBVIOUS
<1>2. ASSUME NEW x \in Range(a) PROVE x \in Range(s) /\ x # Head(s)
  <2>1. PICK k \in 1..(Len(s) - 1) : x = s[k + 1]
    BY <1>1, <1>2 DEF Range
  <2>2. k + 1 \in DOMAIN s /\ k + 1 # 1 /\ 1 \in DOMAIN s
    BY <1>1, <2>1
  <2> QED
    BY <1>1, <2>1, <2>2 DEF Range, IsInjective
<1>3. ASSUME NEW x \in Range(s), x # Head(s) PROVE x \in Range(a)
  <2>1. PICK k \in 1..Len(s) : x = s[k]
    BY <1>1, <1>3 DEF Range
  <2>2. k - 1 \in DOMAIN a /\ a[k - 1] = x
    BY <1>1, <1>3, <2>1
  <2> QED
    BY <2>2 DEF Range
<1>4. IsInjective(a)
  <2>1. ASSUME NEW j \in DOMAIN a, NEW k \in DOMAIN a, a[j] = a[k] PROVE j = k
    <3>1. j + 1 \in DOMAIN s /\ k + 1 \in DOMAIN s /\ s[j + 1] = s[k + 1]
      BY <1>1, <2>1
    <3>2. j + 1 = k + 1
      BY <3>1 DEF IsInjective
    <3> QED
      BY <1>1, <3>2
  <2> QED
    BY <2>1 DEF IsInjective
<1> QED
  BY <1>2, <1>3, <1>4

\* The splice of one element, position by position.
LEMMA SplicedElements ==
  ASSUME NEW S, NEW s \in Seq(S), NEW i \in 1..Len(s), NEW ins \in Seq(S)
  PROVE  /\ Spliced(s, i - 1, 1, ins) \in Seq(S)
         /\ Len(Spliced(s, i - 1, 1, ins)) = Len(s) - 1 + Len(ins)
         /\ \A k \in 1..(Len(s) - 1 + Len(ins)) :
              Spliced(s, i - 1, 1, ins)[k] =
                IF k < i THEN s[k]
                ELSE IF k < i + Len(ins) THEN ins[k - i + 1]
                ELSE s[k + 1 - Len(ins)]
<1> DEFINE l == SubSeq(s, 1, i - 1)
           r == SubSeq(s, i + 1, Len(s))
           a == (l \o ins) \o r
<1>1. Len(s) \in Nat /\ Len(ins) \in Nat /\ i \in Int
  OBVIOUS
<1>2. /\ l \in Seq(S) /\ Len(l) = i - 1
      /\ \A k \in 1..(i - 1) : l[k] = s[k]
  BY <1>1
<1>3. /\ r \in Seq(S) /\ Len(r) = Len(s) - i
      /\ \A k \in 1..(Len(s) - i) : r[k] = s[i + k]
  BY <1>1
<1>4. /\ l \o ins \in Seq(S) /\ Len(l \o ins) = i - 1 + Len(ins)
      /\ \A k \in 1..(i - 1 + Len(ins)) :
           (l \o ins)[k] = IF k < i THEN s[k] ELSE ins[k - i + 1]
  BY <1>1, <1>2
<1>5. /\ a \in Seq(S) /\ Len(a) = Len(s) - 1 + Len(ins)
      /\ \A k \in 1..(Len(s) - 1 + Len(ins)) :
           a[k] = IF k <= i - 1 + Len(ins) THEN (l \o ins)[k] ELSE r[k - (i - 1 + Len(ins))]
  <2> DEFINE b == l \o ins
  <2>1. b \in Seq(S) /\ Len(b) = i - 1 + Len(ins)
    BY <1>4
  <2>2. a = b \o r
    OBVIOUS
  <2> HIDE DEF l, r, b, a
  <2>3. /\ b \o r \in Seq(S) /\ Len(b \o r) = Len(b) + Len(r)
        /\ \A k \in 1..(Len(b) + Len(r)) :
             (b \o r)[k] = IF k <= Len(b) THEN b[k] ELSE r[k - Len(b)]
    <3>1. b \in Seq(S) /\ r \in Seq(S)
      BY <1>3, <2>1
    <3> QED
      BY <3>1
  <2>4. Len(b) + Len(r) = Len(s) - 1 + Len(ins)
    BY <1>1, <1>3, <2>1
  <2>5. /\ a \in Seq(S) /\ Len(a) = Len(s) - 1 + Len(ins)
        /\ \A k \in 1..(Len(s) - 1 + Len(ins)) :
             a[k] = IF k <= i - 1 + Len(ins) THEN b[k] ELSE r[k - (i - 1 + Len(ins))]
    BY <2>1, <2>2, <2>3, <2>4
  <2> QED
    BY <2>5 DEF b
<1>6. ASSUME NEW k \in 1..(Len(s) - 1 + Len(ins))
      PROVE  a[k] = IF k < i THEN s[k]
                    ELSE IF k < i + Len(ins) THEN ins[k - i + 1]
                    ELSE s[k + 1 - Len(ins)]
  <2> HIDE DEF l, r, a
  <2>1. CASE k <= i - 1 + Len(ins)
    <3> DEFINE b == l \o ins
    <3>1. k \in 1..(i - 1 + Len(ins))
      BY <1>1, <2>1
    <3>2. a[k] = b[k]
      BY <1>5, <2>1
    <3>3. b[k] = IF k < i THEN s[k] ELSE ins[k - i + 1]
      BY <1>4, <3>1
    <3>4. k < i + Len(ins)
      BY <1>1, <2>1
    <3> HIDE DEF b
    <3> QED
      BY <3>2, <3>3, <3>4
  <2>2. CASE k > i - 1 + Len(ins)
    <3>1. k - (i - 1 + Len(ins)) \in 1..(Len(s) - i)
      BY <1>1, <2>2
    <3>2. i + (k - (i - 1 + Len(ins))) = k + 1 - Len(ins)
      BY <1>1
    <3>3. a[k] = r[k - (i - 1 + Len(ins))]
      BY <1>1, <1>5, <2>2
    <3>4. a[k] = s[k + 1 - Len(ins)]
      BY <1>3, <3>1, <3>2, <3>3
    <3> QED
      BY <1>1, <2>2, <3>4
  <2> QED
    BY <1>1, <2>1, <2>2
<1>7. Spliced(s, i - 1, 1, ins) = a
  <2>1. (i - 1) + 1 + 1 = i + 1
    BY <1>1
  <2> QED
    BY <2>1 DEF Spliced
<1> QED
  BY <1>1, <1>5, <1>6, <1>7

\* q is s with its i-th element replaced by the n elements of ins.
ReplacedAt(q, s, i, ins, n) ==
  /\ DOMAIN q = 1..(Len(s) - 1 + n)
  /\ \A k \in 1..(Len(s) - 1 + n) :
       q[k] = IF k < i THEN s[k]
              ELSE IF k < i + n THEN ins[k - i + 1]
              ELSE s[k + 1 - n]

LEMMA SplicedAt ==
  ASSUME NEW S, NEW s \in Seq(S), NEW i \in 1..Len(s), NEW ins \in Seq(S),
         NEW n \in Nat, n = Len(ins)
  PROVE  ReplacedAt(Spliced(s, i - 1, 1, ins), s, i, ins, n)
<1> DEFINE a == Spliced(s, i - 1, 1, ins)
<1>1. /\ a \in Seq(S) /\ Len(a) = Len(s) - 1 + Len(ins)
      /\ \A k \in 1..(Len(s) - 1 + Len(ins)) :
           a[k] = IF k < i THEN s[k]
                  ELSE IF k < i + Len(ins) THEN ins[k - i + 1]
                  ELSE s[k + 1 - Len(ins)]
  BY SplicedElements
<1>2. Len(s) \in Nat
  OBVIOUS
<1> HIDE DEF a
<1>3. DOMAIN a = 1..(Len(s) - 1 + n)
  BY <1>1
<1>4. \A k \in 1..(Len(s) - 1 + n) :
        a[k] = IF k < i THEN s[k]
               ELSE IF k < i + n THEN ins[k - i + 1]
               ELSE s[k + 1 - n]
  BY <1>1
<1> QED
  BY <1>3, <1>4 DEF a, ReplacedAt

LEMMA SplicedOut ==
  ASSUME NEW S, NEW s \in Seq(S), NEW i \in DOMAIN s, IsInjective(s)
  PROVE  /\ Range(Spliced(s, i - 1, 1, <<>>)) = Range(s) \ {s[i]}
         /\ IsInjective(Spliced(s, i - 1, 1, <<>>))
<1> DEFINE a == Spliced(s, i - 1, 1, <<>>)
<1>1. /\ DOMAIN a = 1..(Len(s) - 1) /\ DOMAIN s = 1..Len(s) /\ Len(s) \in Nat
      /\ \A k \in 1..(Len(s) - 1) : a[k] = IF k < i THEN s[k] ELSE s[k + 1]
  <2>0. <<>> \in Seq(S) /\ 0 = Len(<<>>)
    OBVIOUS
  <2>1. PICK ins \in Seq(S), n \in Nat : ins = <<>> /\ n = Len(ins) /\ n = 0
    BY <2>0
  <2>2. i \in 1..Len(s) /\ Len(s) \in Nat
    OBVIOUS
  <2> DEFINE b == Spliced(s, i - 1, 1, ins)
  <2>3. ReplacedAt(b, s, i, ins, n)
    BY <2>1, <2>2, SplicedAt, Zenon
  <2>4. a = b
    BY <2>1
  <2> HIDE DEF a, b
  <2>5. ASSUME NEW k \in 1..(Len(s) - 1) PROVE b[k] = IF k < i THEN s[k] ELSE s[k + 1]
    BY <2>1, <2>2, <2>3 DEF ReplacedAt
  <2>6. DOMAIN b = 1..(Len(s) - 1)
    BY <2>1, <2>2, <2>3 DEF ReplacedAt
  <2> QED
    BY <2>2, <2>4, <2>5, <2>6
<1>2. ASSUME NEW x \in Range(a) PROVE x \in Range(s) /\ x # s[i]
  <2>1. PICK k \in 1..(Len(s) - 1) : x = IF k < i THEN s[k] ELSE s[k + 1]
    BY <1>1, <1>2 DEF Range
  <2>2. PICK j \in 1..Len(s) : x = s[j] /\ j # i
    <3>1. CASE k < i
      BY <1>1, <2>1, <3>1
    <3>2. CASE ~(k < i)
      BY <1>1, <2>1, <3>2
    <3> QED
      BY <3>1, <3>2
  <2> QED
    BY <1>1, <2>2 DEF Range, IsInjective
<1>3. ASSUME NEW x \in Range(s), x # s[i] PROVE x \in Range(a)
  <2>1. PICK k \in 1..Len(s) : x = s[k] /\ k # i
    BY <1>1, <1>3 DEF Range
  <2>2. PICK j \in DOMAIN a : a[j] = x
    <3>1. CASE k < i
      BY <1>1, <2>1, <3>1
    <3>2. CASE k > i
      <4>1. k - 1 \in DOMAIN a /\ a[k - 1] = x
        BY <1>1, <2>1, <3>2
      <4> QED
        BY <4>1
    <3> QED
      BY <1>1, <2>1, <3>1, <3>2
  <2> QED
    BY <2>2 DEF Range
<1>4. IsInjective(a)
  <2>1. ASSUME NEW j \in DOMAIN a, NEW k \in DOMAIN a, a[j] = a[k] PROVE j = k
    <3> DEFINE at(n) == IF n < i THEN n ELSE n + 1
    <3>1. at(j) \in DOMAIN s /\ at(k) \in DOMAIN s /\ s[at(j)] = s[at(k)]
      BY <1>1, <2>1
    <3>2. at(j) = at(k)
      BY <3>1 DEF IsInjective
    <3> QED
      BY <1>1, <3>2
  <2> QED
    BY <2>1 DEF IsInjective
<1> QED
  BY <1>2, <1>3, <1>4

LEMMA SplicedOver ==
  ASSUME NEW S, NEW s \in Seq(S), NEW i \in DOMAIN s, NEW m \in S,
         IsInjective(s), m \notin Range(s)
  PROVE  /\ Range(Spliced(s, i - 1, 1, <<m>>)) = (Range(s) \ {s[i]}) \cup {m}
         /\ IsInjective(Spliced(s, i - 1, 1, <<m>>))
<1> DEFINE a == Spliced(s, i - 1, 1, <<m>>)
<1>1. /\ DOMAIN a = 1..Len(s) /\ DOMAIN s = 1..Len(s) /\ Len(s) \in Nat
      /\ \A k \in 1..Len(s) : a[k] = IF k = i THEN m ELSE s[k]
  <2>0. <<m>> \in Seq(S) /\ 1 = Len(<<m>>) /\ <<m>>[1] = m
    OBVIOUS
  <2>1. PICK ins \in Seq(S), n \in Nat : ins = <<m>> /\ n = Len(ins) /\ n = 1 /\ ins[1] = m
    BY <2>0, 1 \in Nat, Zenon
  <2>2. i \in 1..Len(s) /\ Len(s) \in Nat
    OBVIOUS
  <2> DEFINE b == Spliced(s, i - 1, 1, ins)
  <2>3. ReplacedAt(b, s, i, ins, n)
    BY <2>1, <2>2, SplicedAt, Zenon
  <2>4. a = b
    BY <2>1
  <2> HIDE DEF a, b
  <2>5. ASSUME NEW k \in 1..Len(s) PROVE b[k] = IF k = i THEN m ELSE s[k]
    BY <2>1, <2>2, <2>3 DEF ReplacedAt
  <2>6. DOMAIN b = 1..Len(s)
    BY <2>1, <2>2, <2>3 DEF ReplacedAt
  <2> QED
    BY <2>2, <2>4, <2>5, <2>6
<1>2. \A k \in DOMAIN s : s[k] # m
  BY DEF Range
<1>3. ASSUME NEW x \in Range(a) PROVE x \in (Range(s) \ {s[i]}) \cup {m}
  BY <1>1, <1>3 DEF Range, IsInjective
<1>4. ASSUME NEW x \in Range(s), x # s[i] PROVE x \in Range(a)
  BY <1>1, <1>4 DEF Range
<1>5. m \in Range(a)
  BY <1>1 DEF Range
<1>6. IsInjective(a)
  BY <1>1, <1>2 DEF IsInjective
<1> QED
  BY <1>3, <1>4, <1>5, <1>6

----------------------------------------------------------------------------
(* Both lists: what each operation does to the set of pending messages,    *)
(* and that each stays pending once.                                       *)

\* The messages of P are pending, each once, and no others are.
Holds(box, P) == UniquelyPending(box) /\ Pending(box) = P

OtherOf(t) == IF t = NextTurn THEN NextStep ELSE NextTurn

\* One list of the two is exchanged for another one.
LEMMA OneListChanged ==
  ASSUME NEW box, NEW t \in Target, NEW new, UniquelyPending(box), IsInjective(new[t]),
         new[OtherOf(t)] = box[OtherOf(t)], Range(new[t]) \cap Range(box[OtherOf(t)]) = {}
  PROVE  /\ UniquelyPending(new)
         /\ Pending(new) = Range(new[t]) \cup Range(box[OtherOf(t)])
<1>1. CASE t = NextTurn
  <2>1. OtherOf(t) = NextStep
    BY <1>1 DEF OtherOf
  <2> QED
    BY <1>1, <2>1 DEF UniquelyPending, Pending, Target
<1>2. CASE t = NextStep
  <2>1. OtherOf(t) = NextTurn
    BY <1>2 DEF OtherOf, NextTurn, NextStep
  <2> QED
    BY <1>2, <2>1 DEF UniquelyPending, Pending, Target
<1> QED
  BY <1>1, <1>2 DEF Target

\* The two lists seen from one of them.
LEMMA TwoLists ==
  ASSUME NEW S, NEW box \in [Target -> Seq(S)], NEW t \in Target, UniquelyPending(box)
  PROVE  /\ box[t] \in Seq(S) /\ IsInjective(box[t])
         /\ Pending(box) = Range(box[t]) \cup Range(box[OtherOf(t)])
         /\ Range(box[t]) \cap Range(box[OtherOf(t)]) = {}
<1>1. box[t] \in Seq(S) /\ IsInjective(box[t])
  BY DEF UniquelyPending
<1>2. CASE t = NextTurn
  <2>1. OtherOf(t) = NextStep
    BY <1>2 DEF OtherOf
  <2> QED
    BY <1>1, <1>2, <2>1 DEF Pending, UniquelyPending
<1>3. CASE t = NextStep
  <2>1. OtherOf(t) = NextTurn
    BY <1>3 DEF OtherOf, NextTurn, NextStep
  <2> QED
    BY <1>1, <1>3, <2>1 DEF Pending, UniquelyPending
<1> QED
  BY <1>2, <1>3 DEF Target

\* A new message enters at the end of one list.
LEMMA AppendPending ==
  ASSUME NEW S, NEW box \in [Target -> Seq(S)], NEW t \in Target, NEW m \in S,
         UniquelyPending(box), m \notin Pending(box)
  PROVE  Holds([box EXCEPT ![t] = Append(box[t], m)], Pending(box) \cup {m})
<1> DEFINE q == Append(box[t], m)
           other == Range(box[OtherOf(t)])
<1>1. /\ box[t] \in Seq(S) /\ IsInjective(box[t])
      /\ Pending(box) = Range(box[t]) \cup other
      /\ Range(box[t]) \cap other = {}
  BY TwoLists
<1>2. q \in Seq(S) /\ Range(q) = Range(box[t]) \cup {m} /\ IsInjective(q)
  BY <1>1, AppendRange
<1> HIDE DEF q
<1>3. Range(q) \cap other = {}
  BY <1>1, <1>2
<1> DEFINE new == [box EXCEPT ![t] = q]
<1>4. new[t] = q /\ new[OtherOf(t)] = box[OtherOf(t)]
  BY DEF OtherOf, Target, NextTurn, NextStep
<1> HIDE DEF new
<1>5. UniquelyPending(new) /\ Pending(new) = Range(q) \cup other
  BY <1>2, <1>3, <1>4, OneListChanged
<1> QED
  BY <1>1, <1>2, <1>5 DEF q, new, Holds

\* One pending message is withdrawn.
LEMMA RemovePending ==
  ASSUME NEW S, NEW box \in [Target -> Seq(S)], NEW t \in Target, NEW i \in DOMAIN box[t],
         UniquelyPending(box)
  PROVE  /\ Holds([box EXCEPT ![t] = Spliced(box[t], i - 1, 1, <<>>)], Pending(box) \ {box[t][i]})
         /\ box[t][i] \in Pending(box)
<1> DEFINE q == Spliced(box[t], i - 1, 1, <<>>)
           other == Range(box[OtherOf(t)])
<1>1. /\ box[t] \in Seq(S) /\ IsInjective(box[t])
      /\ Pending(box) = Range(box[t]) \cup other
      /\ Range(box[t]) \cap other = {}
  BY TwoLists
<1>2. box[t][i] \in Range(box[t])
  BY DEF Range
<1>3. Range(q) = Range(box[t]) \ {box[t][i]} /\ IsInjective(q)
  BY <1>1, SplicedOut
<1> HIDE DEF q
<1>4. Range(q) \cap other = {}
  BY <1>1, <1>3
<1> DEFINE new == [box EXCEPT ![t] = q]
<1>5. new[t] = q /\ new[OtherOf(t)] = box[OtherOf(t)]
  BY DEF OtherOf, Target, NextTurn, NextStep
<1> HIDE DEF new
<1>6. UniquelyPending(new) /\ Pending(new) = Range(q) \cup other
  BY <1>3, <1>4, <1>5, OneListChanged
<1> QED
  BY <1>1, <1>2, <1>3, <1>6 DEF q, new, Holds

\* One pending message is replaced by a new one.
LEMMA ReplacePending ==
  ASSUME NEW S, NEW box \in [Target -> Seq(S)], NEW t \in Target, NEW i \in DOMAIN box[t],
         NEW m \in S, UniquelyPending(box), m \notin Pending(box)
  PROVE  /\ Holds([box EXCEPT ![t] = Spliced(box[t], i - 1, 1, <<m>>)],
                  (Pending(box) \ {box[t][i]}) \cup {m})
         /\ box[t][i] \in Pending(box)
<1> DEFINE q == Spliced(box[t], i - 1, 1, <<m>>)
           other == Range(box[OtherOf(t)])
<1>1. /\ box[t] \in Seq(S) /\ IsInjective(box[t])
      /\ Pending(box) = Range(box[t]) \cup other
      /\ Range(box[t]) \cap other = {}
  BY TwoLists
<1>2. box[t][i] \in Range(box[t])
  BY DEF Range
<1>3. Range(q) = (Range(box[t]) \ {box[t][i]}) \cup {m} /\ IsInjective(q)
  BY <1>1, SplicedOver
<1> HIDE DEF q
<1>4. Range(q) \cap other = {}
  BY <1>1, <1>3
<1> DEFINE new == [box EXCEPT ![t] = q]
<1>5. new[t] = q /\ new[OtherOf(t)] = box[OtherOf(t)]
  BY DEF OtherOf, Target, NextTurn, NextStep
<1> HIDE DEF new
<1>6. UniquelyPending(new) /\ Pending(new) = Range(q) \cup other
  BY <1>3, <1>4, <1>5, OneListChanged
<1> QED
  BY <1>1, <1>2, <1>3, <1>6 DEF q, new, Holds

\* One list is emptied.
LEMMA ClearPending ==
  ASSUME NEW S, NEW box \in [Target -> Seq(S)], NEW t \in Target, UniquelyPending(box)
  PROVE  /\ Holds([box EXCEPT ![t] = <<>>], Pending(box) \ Range(box[t]))
         /\ Range(box[t]) \subseteq Pending(box)
<1> DEFINE other == Range(box[OtherOf(t)])
           new   == [box EXCEPT ![t] = <<>>]
<1>1. Pending(box) = Range(box[t]) \cup other /\ Range(box[t]) \cap other = {}
  BY TwoLists
<1>2. Range(<<>>) = {} /\ IsInjective(<<>>)
  BY DEF Range, IsInjective
<1>3. new[t] = <<>> /\ new[OtherOf(t)] = box[OtherOf(t)]
  BY DEF OtherOf, Target, NextTurn, NextStep
<1> HIDE DEF new
<1>4. UniquelyPending(new) /\ Pending(new) = Range(<<>>) \cup other
  BY <1>2, <1>3, OneListChanged
<1> QED
  BY <1>1, <1>2, <1>4 DEF new, Holds

LEMMA EmptyPending == UniquelyPending(EmptyInbox) /\ Pending(EmptyInbox) = {}
<1>1. EmptyInbox[NextTurn] = <<>> /\ EmptyInbox[NextStep] = <<>>
  BY DEF EmptyInbox, Target
<1>2. Range(<<>>) = {} /\ IsInjective(<<>>)
  BY DEF Range, IsInjective
<1> QED
  BY <1>1, <1>2 DEF UniquelyPending, Pending, Target

\* A claim takes pending messages and leaves all the others.
LEMMA ClaimPending ==
  ASSUME NEW S, NEW box \in [Target -> Seq(S)], NEW t \in Target, UniquelyPending(box)
  PROVE  /\ UniquelyPending(AfterClaim(box, t))
         /\ Pending(AfterClaim(box, t)) = Pending(box) \ ClaimedBatch(box, t)
         /\ ClaimedBatch(box, t) \subseteq Pending(box)
<1> DEFINE new == AfterClaim(box, t)
           turns == box[NextTurn]
           steps == box[NextStep]
<1>1. /\ turns \in Seq(S) /\ IsInjective(turns) /\ Range(turns) \cap Range(steps) = {}
      /\ Pending(box) = Range(turns) \cup Range(steps)
  BY DEF UniquelyPending, Pending, Target
<1>2. Range(<<>>) = {} /\ IsInjective(<<>>)
  BY DEF Range, IsInjective
<1>3. new[NextStep] = <<>>
  BY DEF AfterClaim, Target
<1>4. new[NextTurn] = IF t = NextTurn /\ turns # <<>> THEN Tail(turns) ELSE turns
  BY DEF AfterClaim, Target, NextTurn, NextStep
<1> HIDE DEF new
<1>5. Pending(new) = Range(new[NextTurn])
  BY <1>2, <1>3 DEF Pending
<1>6. IsInjective(new[NextTurn]) => UniquelyPending(new)
  BY <1>2, <1>3 DEF UniquelyPending, Target
<1>7. CASE t = NextTurn /\ turns # <<>>
  <2>1. Range(new[NextTurn]) = Range(turns) \ {Head(turns)} /\ IsInjective(new[NextTurn])
    BY <1>1, <1>4, <1>7, TailRange
  <2>2. Head(turns) \in Range(turns)
    BY <1>1, <1>7 DEF Range
  <2>3. ClaimedBatch(box, t) = Range(steps) \cup {Head(turns)}
    BY <1>7 DEF ClaimedBatch
  <2> QED
    BY <1>1, <1>5, <1>6, <2>1, <2>2, <2>3 DEF new
<1>8. CASE ~(t = NextTurn /\ turns # <<>>)
  <2>1. ClaimedBatch(box, t) = Range(steps)
    BY <1>8 DEF ClaimedBatch
  <2>2. new[NextTurn] = turns
    BY <1>4, <1>8
  <2> QED
    BY <1>1, <1>5, <1>6, <2>1, <2>2 DEF new
<1> QED
  BY <1>7, <1>8

----------------------------------------------------------------------------

(***************************************************************************)
(* The relation between the point the driver has reached and the rest of   *)
(* its state.  LogBalanced and LatchJustified are not inductive: which     *)
(* boundaries are open, and whether an abort can still be pending, is a    *)
(* function of that point.                                                 *)
(***************************************************************************)
RestPoints == {"none", "idleStatus"}
TurnPoints == {"turnOpened", "claiming", "assemble", "preStep", "decided", "stepOpened",
               "request", "admitting", "stream", "requestError", "tools", "stepReturned", "stepClosed",
               "stopping", "thrown", "unwinding", "reporting"}
StepPoints == {"stepOpened", "request", "admitting", "stream", "requestError", "tools",
               "stepReturned"}
ClaimPoints == {"claiming", "assemble", "preStep", "decided", "stepOpened", "request",
                "admitting", "thrown", "unwinding"}

PhaseAtPoint == phase = "running" <=> pc \notin RestPoints
TurnAtPoint  == (turnOpen => pc \in TurnPoints) /\ (pc \in TurnPoints => turnOpen)
StepAtPoint  == (stepOpen => pc \in StepPoints \cup {"thrown"}) /\ (pc \in StepPoints => stepOpen)
BatchAtPoint == batch # {} => pc \in ClaimPoints
ValueAtPoint ==
  /\ pc = "stepReturned" => returned \in {"completed", "max-tokens", "continue"}
  /\ pc = "decided" /\ returned = "empty" => batch = {}
AbortInActivity == Aborted => phase # "idle"
\* A send classified after an abort finds that abort again when it wakes the driver.
NoLateSend(frames) == \A k \in DOMAIN frames : frames[k].at # "afterAbort"
SendAfterAbort == phase = "idle" \/ ~Aborted => NoLateSend(stack)
\* While an append is observed no call above the driver's own waits for listeners.
EntryOnTop == pc \in AppendPoints => stack = <<>> \/ Waiting("drive")
\* The second splice of a claim leaves nothing for a third.
ClaimAtPoint == pc = "claiming" => inbox[NextStep] = <<>>

ControlInv ==
  /\ PhaseAtPoint /\ TurnAtPoint /\ StepAtPoint /\ BatchAtPoint /\ ValueAtPoint
  /\ AbortInActivity /\ SendAfterAbort /\ EntryOnTop /\ ClaimAtPoint /\ LatchJustified

----------------------------------------------------------------------------
(* The stack of calls.                                                     *)

LEMMA Pushed ==
  ASSUME NEW s \in Seq(Frame), NEW f \in Frame
  PROVE  /\ <<f>> \o s \in Seq(Frame) /\ <<f>> \o s # <<>> /\ Head(<<f>> \o s) = f
         /\ NoLateSend(s) /\ f.at # "afterAbort" => NoLateSend(<<f>> \o s)
<1> DEFINE q == <<f>> \o s
<1>1. /\ q \in Seq(Frame) /\ Len(q) = Len(s) + 1 /\ Len(s) \in Nat
      /\ q[1] = f /\ \A k \in 2..(Len(s) + 1) : q[k] = s[k - 1]
  OBVIOUS
<1> HIDE DEF q
<1>2. q # <<>> /\ Head(q) = f
  BY <1>1
<1>3. ASSUME NoLateSend(s), f.at # "afterAbort", NEW k \in DOMAIN q PROVE q[k].at # "afterAbort"
  <2>1. CASE k = 1
    BY <1>1, <1>3, <2>1
  <2>2. CASE k # 1
    <3>1. k \in 2..(Len(s) + 1) /\ k - 1 \in DOMAIN s
      BY <1>1, <1>3, <2>2
    <3> QED
      BY <1>1, <1>3, <3>1 DEF NoLateSend
  <2> QED
    BY <2>1, <2>2
<1> QED
  BY <1>1, <1>2, <1>3 DEF q, NoLateSend

LEMMA Popped ==
  ASSUME NEW s \in Seq(Frame), s # <<>>
  PROVE  Tail(s) \in Seq(Frame) /\ Head(s) \in Frame /\ (NoLateSend(s) => NoLateSend(Tail(s)))
<1> DEFINE q == Tail(s)
<1>1. /\ q \in Seq(Frame) /\ Head(s) \in Frame /\ Len(q) = Len(s) - 1 /\ Len(s) \in Nat \ {0}
      /\ \A k \in 1..(Len(s) - 1) : q[k] = s[k + 1]
  OBVIOUS
<1> HIDE DEF q
<1>2. ASSUME NoLateSend(s), NEW k \in DOMAIN q PROVE q[k].at # "afterAbort"
  <2>1. k \in 1..(Len(s) - 1) /\ k + 1 \in DOMAIN s
    BY <1>1
  <2> QED
    BY <1>1, <1>2, <2>1 DEF NoLateSend
<1> QED
  BY <1>1, <1>2 DEF q, NoLateSend

LEMMA Advanced ==
  ASSUME NEW s \in Seq(Frame), s # <<>>
  PROVE  /\ [s EXCEPT ![1].at = "prompts"] \in Seq(Frame)
         /\ NoLateSend(s) => NoLateSend([s EXCEPT ![1].at = "prompts"])
<1>1. 1 \in DOMAIN s /\ s[1] \in Frame
  OBVIOUS
<1> DEFINE f == [s[1] EXCEPT !.at = "prompts"]
           q == [s EXCEPT ![1] = f]
<1>2. f \in Frame /\ f.at = "prompts"
  BY <1>1 DEF Frame
<1>3. q = [s EXCEPT ![1].at = "prompts"]
  OBVIOUS
<1> HIDE DEF f
<1>4. q \in Seq(Frame)
  BY <1>2
<1>5. ASSUME NoLateSend(s), NEW k \in DOMAIN q PROVE q[k].at # "afterAbort"
  BY <1>1, <1>2, <1>5 DEF NoLateSend
<1> HIDE DEF q
<1> QED
  BY <1>3, <1>4, <1>5 DEF NoLateSend

LEMMA PushedFrame ==
  ASSUME TypeOK, NEW at \in {"live", "afterAbort", "steps", "prompts"},
         NEW c \in Cause \cup {NoCause}, Push(at, c)
  PROVE  /\ stack' \in Seq(Frame)
         /\ NoLateSend(stack) /\ at # "afterAbort" => NoLateSend(stack')
<1> DEFINE f == [at |-> at, cause |-> c]
<1>1. f \in Frame /\ f.at = at
  BY DEF Frame
<1>2. stack \in Seq(Frame) /\ stack' = <<f>> \o stack
  BY DEF TypeOK, Push
<1> HIDE DEF f
<1> QED
  BY <1>1, <1>2, Pushed

\* A driver is started in place of the call that woke it.
LEMMA StartedFrame ==
  ASSUME NEW s \in Seq(Frame), StartDriver(s)
  PROVE  stack' \in Seq(Frame) /\ (NoLateSend(s) => NoLateSend(stack'))
<1> DEFINE f == [at |-> "drive", cause |-> NoCause]
<1>1. f \in Frame /\ f.at = "drive"
  BY DEF Frame
<1>2. stack' = <<f>> \o s
  BY DEF StartDriver
<1> HIDE DEF f
<1> QED
  BY <1>1, <1>2, Pushed

LEMMA EnteredFrame ==
  ASSUME TypeOK, Entered
  PROVE  /\ stack' \in Seq(Frame) /\ (NoLateSend(stack) => NoLateSend(stack'))
         /\ pc' \in EntryPoints => stack' = stack
  BY Popped DEF TypeOK, Entered

LEMMA MarkType ==
  ASSUME TypeOK, NEW S, NEW f \in Fate
  PROVE  Mark(S, f) \in [Message -> Fate]
  BY DEF Mark, TypeOK

----------------------------------------------------------------------------
(* Type correctness.                                                       *)

LEMMA EmptyType == EmptyInbox \in [Target -> Seq(Message)]
  BY DEF EmptyInbox

LEMMA InitTypeOK == Init => TypeOK
<1> SUFFICES ASSUME Init PROVE TypeOK
  OBVIOUS
<1>1. inbox \in [Target -> Seq(Message)] /\ fate \in [Message -> Fate]
  BY EmptyType DEF Init, Fate
<1>2. /\ phase \in Phase /\ abort \in Cause \cup {NoCause}
      /\ pc \in Point /\ target \in Target /\ turnEnds \in Ending /\ returned \in Value
      /\ step \in {0, 1} /\ batch \in SUBSET Message /\ stack \in Seq(Frame)
  BY DEF Init, Target, Phase, Point, Ending, Value
<1>3. /\ wakeRequested \in BOOLEAN /\ disposing \in BOOLEAN /\ turnOpen \in BOOLEAN
      /\ stepOpen \in BOOLEAN /\ toolsOwed \in BOOLEAN /\ replay \in BOOLEAN
  BY Zenon DEF Init
<1> QED
  BY <1>1, <1>2, <1>3 DEF TypeOK

LEMMA SignalType ==
  ASSUME TypeOK, NEW c \in Cause \cup {NoCause}, Signal(c)
  PROVE  abort' \in Cause \cup {NoCause} /\ disposing' \in BOOLEAN
  BY DEF Signal, FirstCause, TypeOK

LEMMA ClearListType ==
  ASSUME TypeOK, NEW t \in Target, ClearList(t)
  PROVE  inbox' \in [Target -> Seq(Message)] /\ fate' \in [Message -> Fate]
<1>1. <<>> \in Seq(Message)
  OBVIOUS
<1> QED
  BY <1>1, MarkType DEF ClearList, TypeOK, Fate

LEMMA CallersTypeOK == TypeOK /\ Callers => TypeOK'
<1> SUFFICES ASSUME TypeOK, Callers PROVE TypeOK'
  OBVIOUS
<1>1. ASSUME NEW m \in Message, NEW t \in Target, NEW w \in BOOLEAN, Send(m, t, w) PROVE TypeOK'
  <2>1. \E to \in Target : inbox' = [inbox EXCEPT ![to] = Append(@, m)]
    BY <1>1 DEF Send, Target
  <2>2. inbox' \in [Target -> Seq(Message)]
    BY <2>1 DEF TypeOK
  <2>3. fate' \in [Message -> Fate]
    BY <1>1, MarkType DEF Send, Fate
  <2>4. stack' \in Seq(Frame)
    BY <1>1, PushedFrame DEF Send, TypeOK
  <2> QED
    BY <1>1, <2>2, <2>3, <2>4 DEF Send, TypeOK, activity, local, log
<1>2. ASSUME NEW c \in Cause, NEW keep \in BOOLEAN, Cancel(c, keep) PROVE TypeOK'
  <2>1. CASE /\ Signal(c) /\ wakeRequested' = (wakeRequested /\ keep)
             /\ UNCHANGED <<mail, phase, stack>>
    BY <1>2, <2>1, SignalType DEF Cancel, TypeOK, mail, local, log
  <2>2. ASSUME NEW t \in Target, NEW at \in {"steps", "prompts"}, ClearList(t), Push(at, c)
        PROVE  TypeOK'
    <3>1. inbox' \in [Target -> Seq(Message)] /\ fate' \in [Message -> Fate]
      BY <2>2, ClearListType
    <3>2. stack' \in Seq(Frame)
      BY <2>2, PushedFrame
    <3>3. UNCHANGED <<activity, pc, step, local, log, replay>>
      BY <1>2, <2>2 DEF Cancel, ClearList
    <3> QED
      BY <3>1, <3>2, <3>3 DEF TypeOK, activity, local, log
  <2> QED
    BY <1>2, <2>1, <2>2 DEF Cancel, Target
<1>3. ASSUME NEW t \in Target, NEW i \in DOMAIN inbox[t], Remove(t, i) PROVE TypeOK'
  <2>1. Spliced(inbox[t], i - 1, 1, <<>>) \in Seq(Message)
    <3>1. inbox[t] \in Seq(Message) /\ <<>> \in Seq(Message)
      BY DEF TypeOK
    <3> QED
      BY <3>1, SplicedType
  <2>2. inbox' \in [Target -> Seq(Message)]
    BY <1>3, <2>1 DEF Remove, TypeOK
  <2>3. fate' \in [Message -> Fate]
    BY <1>3, MarkType DEF Remove, Fate
  <2> QED
    BY <1>3, <2>2, <2>3 DEF Remove, TypeOK, activity, local, log, calls
<1>4. ASSUME NEW t \in Target, NEW m \in Message, NEW i \in DOMAIN inbox[t], Replace(t, i, m) PROVE TypeOK'
  <2>1. Spliced(inbox[t], i - 1, 1, <<m>>) \in Seq(Message)
    <3>1. inbox[t] \in Seq(Message) /\ <<m>> \in Seq(Message)
      BY DEF TypeOK
    <3> QED
      BY <3>1, SplicedType
  <2>2. inbox' \in [Target -> Seq(Message)]
    BY <1>4, <2>1 DEF Replace, TypeOK
  <2>3. fate' \in [Message -> Fate]
    BY <1>4, MarkType DEF Replace, Fate
  <2> QED
    BY <1>4, <2>2, <2>3 DEF Replace, TypeOK, activity, local, log, calls
<1>5. ASSUME StartMaintenance PROVE TypeOK'
  BY <1>5 DEF StartMaintenance, FreshActivity, TypeOK, Phase, mail, local, log, calls
<1>6. ASSUME NEW m \in Message, AcceptContext(m) PROVE TypeOK'
  <2>1. inbox' \in [Target -> Seq(Message)]
    BY <1>6 DEF AcceptContext, TypeOK, Target
  <2>2. fate' \in [Message -> Fate]
    BY <1>6, MarkType DEF AcceptContext, Fate
  <2> QED
    BY <1>6, <2>1, <2>2 DEF AcceptContext, TypeOK, activity, local, log, calls
<1> QED
  BY <1>1, <1>2, <1>3, <1>4, <1>5, <1>6 DEF Callers

LEMMA EmptyFrames == <<>> \in Seq(Frame) /\ NoLateSend(<<>>)
  BY DEF NoLateSend

LEMMA StartDriverType ==
  ASSUME TypeOK, NEW callers \in Seq(Frame), StartDriver(callers)
  PROVE  /\ phase' \in Phase /\ abort' \in Cause \cup {NoCause}
         /\ wakeRequested' \in BOOLEAN /\ disposing' \in BOOLEAN
         /\ step' \in {0, 1} /\ pc' \in Point /\ replay' \in BOOLEAN /\ stack' \in Seq(Frame)
<1>1. /\ phase' \in Phase /\ abort' \in Cause \cup {NoCause} /\ step' \in {0, 1} /\ pc' \in Point
      /\ stack' \in Seq(Frame)
  BY StartedFrame DEF StartDriver, FreshActivity, Phase, Point
<1>2. wakeRequested' \in BOOLEAN /\ disposing' \in BOOLEAN /\ replay' \in BOOLEAN
  BY Zenon DEF StartDriver, FreshActivity
<1> QED
  BY <1>1, <1>2

LEMMA ClaimForType ==
  ASSUME TypeOK, NEW t \in Target, ClaimFor(t)
  PROVE  /\ inbox' \in [Target -> Seq(Message)] /\ fate' \in [Message -> Fate]
         /\ pc' \in Point /\ target' \in Target /\ turnEnds' \in Ending
         /\ batch' \in SUBSET Message /\ turnOpen' \in BOOLEAN
<1>1. PICK now \in Target : /\ batch' = batch \cup ClaimedBatch(inbox, now)
                            /\ inbox' = AfterClaim(inbox, now)
                            /\ fate' = Mark(ClaimedBatch(inbox, now), "claimed")
  BY DEF ClaimFor, Target
<1>2. pc' \in Point
  BY DEF ClaimFor, Point, AppendPoints
<1>3. batch' \in SUBSET Message /\ inbox' \in [Target -> Seq(Message)]
  BY <1>1, ClaimType DEF TypeOK
<1>4. fate' \in [Message -> Fate]
  BY <1>1, MarkType DEF TypeOK, Fate
<1>5. target' \in Target /\ turnEnds' \in Ending /\ turnOpen' \in BOOLEAN
  BY DEF ClaimFor, TypeOK
<1> QED
  BY <1>2, <1>3, <1>4, <1>5

LEMMA CatchTurnType ==
  ASSUME TypeOK, CatchTurn
  PROVE  /\ inbox' \in [Target -> Seq(Message)] /\ fate' \in [Message -> Fate]
         /\ pc' \in Point /\ target' \in Target /\ turnEnds' \in Ending
         /\ batch' \in SUBSET Message /\ turnOpen' \in BOOLEAN
  BY MarkType DEF CatchTurn, TypeOK, Fate, Point, Ending

LEMMA LeaveTurnType ==
  ASSUME TypeOK, NEW e \in Ending, LeaveTurn(e)
  PROVE  /\ inbox' \in [Target -> Seq(Message)] /\ fate' \in [Message -> Fate]
         /\ pc' \in Point /\ target' \in Target /\ turnEnds' \in Ending
         /\ batch' \in SUBSET Message /\ turnOpen' \in BOOLEAN
  BY MarkType DEF LeaveTurn, TypeOK, Fate, Point

LEMMA CloseTurnType ==
  ASSUME TypeOK, CloseTurn
  PROVE  /\ inbox' \in [Target -> Seq(Message)] /\ fate' \in [Message -> Fate]
         /\ pc' \in Point /\ target' \in Target /\ turnEnds' \in Ending
         /\ batch' \in SUBSET Message /\ turnOpen' \in BOOLEAN
  BY DEF CloseTurn, TypeOK, Point, AppendPoints, mail

LEMMA DriverTypeOK == TypeOK /\ ValueAtPoint /\ Driver => TypeOK'
<1> SUFFICES ASSUME TypeOK, ValueAtPoint, Driver PROVE TypeOK'
  OBVIOUS
<1> USE DEF activity, local, log, calls, mail
<1>1. ASSUME OpenTurn PROVE TypeOK'
  <2>0. stack' \in Seq(Frame)
    BY <1>1, EnteredFrame DEF OpenTurn
  <2>1. CASE Aborted
    BY <1>1, <2>0, <2>1 DEF OpenTurn, TypeOK, Point
  <2>2. CASE ~Aborted
    <3>1. turnOpen' \in BOOLEAN
      BY <1>1, <2>2 DEF OpenTurn
    <3> QED
      BY <1>1, <2>0, <2>2, <3>1 DEF OpenTurn, TypeOK, Point, AppendPoints, Target, Ending
  <2> QED
    BY <2>1, <2>2
<1>2. ASSUME ClaimFirst PROVE TypeOK'
  <2>1. NextTurn \in Target
    BY DEF Target
  <2>2. stack' \in Seq(Frame)
    BY <1>2, EnteredFrame DEF ClaimFirst
  <2> QED
    BY <1>2, <2>1, <2>2, CatchTurnType, ClaimForType DEF ClaimFirst, TypeOK
<1>21. ASSUME ClaimPrompt PROVE TypeOK'
  <2>1. NextTurn \in Target
    BY DEF Target
  <2>2. stack' \in Seq(Frame)
    BY <1>21, EnteredFrame DEF ClaimPrompt
  <2> QED
    BY <1>21, <2>1, <2>2, ClaimForType DEF ClaimPrompt, TypeOK
<1>3. ASSUME Assemble PROVE TypeOK'
  BY <1>3 DEF Assemble, TypeOK, Point
<1>4. ASSUME DecidePreStep PROVE TypeOK'
  <2>1. fate' \in [Message -> Fate] /\ batch' \in SUBSET Message
    BY <1>4, MarkType DEF DecidePreStep, TypeOK, Fate
  <2> QED
    <3>1. pc' \in Point /\ returned' \in Value
      BY <1>4 DEF DecidePreStep, TypeOK, Point, Value
    <3> QED
      BY <1>4, <2>1, <3>1 DEF DecidePreStep, TypeOK
<1>5. ASSUME EnterStep PROVE TypeOK'
  <2>1. CASE LeaveTurn("blocked") /\ UNCHANGED <<step, stepOpen>>
    BY <1>5, <2>1, LeaveTurnType DEF EnterStep, TypeOK, Ending
  <2>2. CASE LeaveTurn("completed") /\ UNCHANGED <<step, stepOpen>>
    BY <1>5, <2>2, LeaveTurnType DEF EnterStep, TypeOK, Ending
  <2>3. CASE CloseTurn /\ UNCHANGED <<step, stepOpen>>
    BY <1>5, <2>3, CloseTurnType DEF EnterStep, TypeOK
  <2>4. CASE CatchTurn /\ UNCHANGED <<step, stepOpen>>
    BY <1>5, <2>4, CatchTurnType DEF EnterStep, TypeOK
  <2>5. CASE /\ stepOpen' = TRUE /\ step' = 1 /\ pc' = "stepOpened"
             /\ UNCHANGED <<mail, target, turnEnds, batch, turnOpen>>
    BY <1>5, <2>5 DEF EnterStep, TypeOK, Point, AppendPoints
  <2> QED
    BY <1>5, <2>1, <2>2, <2>3, <2>4, <2>5 DEF EnterStep
<1>6. ASSUME BeginStep PROVE TypeOK'
  BY <1>6 DEF BeginStep, TypeOK, Point
<1>7. ASSUME PrepareRequest PROVE TypeOK'
  BY <1>7 DEF PrepareRequest, TypeOK, Point, AppendPoints
<1>71. ASSUME NEW m \in batch, AdmitMessage(m) PROVE TypeOK'
  BY <1>71, MarkType DEF AdmitMessage, TypeOK, Fate
<1>8. ASSUME BuildRequest PROVE TypeOK'
  BY <1>8 DEF BuildRequest, TypeOK, Point
<1>9. ASSUME Stream PROVE TypeOK'
  BY <1>9 DEF Stream, TypeOK, Point, Value
<1>10. ASSUME RecoverRequest PROVE TypeOK'
  BY <1>10 DEF RecoverRequest, TypeOK, Point
<1>11. ASSUME SettleTools PROVE TypeOK'
  <2>1. pc' \in Point /\ returned' \in Value
    BY <1>11 DEF SettleTools, TypeOK, Point, Value
  <2>2. toolsOwed' \in BOOLEAN
    BY <1>11 DEF SettleTools, TypeOK
  <2> QED
    BY <1>11, <2>1, <2>2 DEF SettleTools, TypeOK
<1>12. ASSUME CloseStep PROVE TypeOK'
  <2>1. turnEnds' \in Ending
    BY <1>12 DEF CloseStep, At, ValueAtPoint, StepEnding, TypeOK, Ending
  <2>2. stepOpen' \in BOOLEAN
    BY <1>12 DEF CloseStep
  <2> QED
    BY <1>12, <2>1, <2>2 DEF CloseStep, TypeOK, Point, AppendPoints
<1>13. ASSUME AfterStep PROVE TypeOK'
  <2>1. NextStep \in Target
    BY DEF Target
  <2> QED
    BY <1>13, <2>1, CatchTurnType, ClaimForType DEF AfterStep, TypeOK, Point
<1>14. ASSUME StopTurn PROVE TypeOK'
  <2>1. NextStep \in Target
    BY DEF Target
  <2> QED
    BY <1>14, <2>1, CatchTurnType, ClaimForType, CloseTurnType DEF StopTurn, TypeOK
<1>15. ASSUME UnwindStep PROVE TypeOK'
  BY <1>15 DEF UnwindStep, TypeOK, Point, AppendPoints
<1>16. ASSUME CatchFailure PROVE TypeOK'
  BY <1>16, CatchTurnType DEF CatchFailure, TypeOK
<1>17. ASSUME ReportFailure PROVE TypeOK'
  BY <1>17 DEF ReportFailure, TypeOK, Point
<1>18. ASSUME DrainOrStop PROVE TypeOK'
  <2>1. CASE HasPending(inbox)
    <3>1. wakeRequested' \in BOOLEAN /\ disposing' \in BOOLEAN
      BY <1>18, <2>1 DEF DrainOrStop, FreshActivity
    <3> QED
      BY <1>18, <2>1, <3>1 DEF DrainOrStop, FreshActivity, TypeOK, Point
  <2>2. CASE ~HasPending(inbox)
    BY <1>18, <2>2 DEF DrainOrStop, TypeOK, Point
  <2> QED
    BY <2>1, <2>2
<1>19. ASSUME Retire PROVE TypeOK'
  BY <1>19 DEF Retire, FreshActivity, TypeOK, Point, Phase
<1>20. ASSUME ReplayWake PROVE TypeOK'
  <2>1. CASE StartDriver(<<>>)
    BY <1>20, <2>1, EmptyFrames, StartDriverType DEF ReplayWake, TypeOK
  <2>2. CASE /\ pc' = "none" /\ replay' = FALSE
             /\ wakeRequested' =
                  (wakeRequested \/ (ReplayDue /\ phase = "maintenance" /\ abort # Disposed))
             /\ UNCHANGED <<phase, abort, disposing, step, stack>>
    BY <1>20, <2>2 DEF ReplayWake, TypeOK, Point
  <2> QED
    BY <1>20, <2>1, <2>2 DEF ReplayWake
<1> QED
  BY <1>1, <1>2, <1>21, <1>3, <1>4, <1>5, <1>6, <1>7, <1>71, <1>8, <1>9, <1>10, <1>11, <1>12, <1>13, <1>14,
     <1>15, <1>16, <1>17, <1>18, <1>19, <1>20 DEF Driver

LEMMA NextTypeOK == TypeOK /\ ValueAtPoint /\ [Next]_vars => TypeOK'
<1> SUFFICES ASSUME TypeOK, ValueAtPoint, [Next]_vars PROVE TypeOK'
  OBVIOUS
<1>1. CASE WakeDriver
  <2>1. stack # <<>> /\ stack \in Seq(Frame)
    BY <1>1 DEF WakeDriver, Waiting, TypeOK
  <2>2. Tail(stack) \in Seq(Frame)
    BY <2>1, Popped
  <2> QED
    BY <1>1, <2>2, StartDriverType DEF WakeDriver, TypeOK, mail, local, log
<1>2. CASE SettleMaintenance
  <2>1. CASE StartDriver(<<>>)
    BY <1>2, <2>1, EmptyFrames, StartDriverType DEF SettleMaintenance, TypeOK, mail, local, log
  <2>2. CASE phase' = "idle" /\ FreshActivity /\ UNCHANGED <<step, pc, calls>>
    BY <1>2, <2>2 DEF SettleMaintenance, FreshActivity, TypeOK, Phase, mail, local, log, calls
  <2> QED
    BY <1>2, <2>1, <2>2 DEF SettleMaintenance
<1>4. CASE ClearPrompts
  <2>1. stack' \in Seq(Frame)
    BY <1>4, Advanced DEF ClearPrompts, Waiting, TypeOK
  <2>2. NextTurn \in Target
    BY DEF Target
  <2> QED
    BY <1>4, <2>1, <2>2, ClearListType DEF ClearPrompts, ClearList, TypeOK, activity, local, log
<1>5. CASE FinishCancel
  <2>1. stack # <<>> /\ stack \in Seq(Frame)
    BY <1>5 DEF FinishCancel, Waiting, TypeOK
  <2>2. Tail(stack) \in Seq(Frame) /\ Head(stack).cause \in Cause \cup {NoCause}
    BY <2>1, Popped DEF Frame
  <2> QED
    BY <1>5, <2>2, SignalType DEF FinishCancel, TypeOK, mail, local, log
<1>3. CASE UNCHANGED vars
  BY <1>3 DEF TypeOK, vars, mail, activity, local, log, calls
<1> QED
  BY <1>1, <1>2, <1>3, <1>4, <1>5, DriverTypeOK, CallersTypeOK DEF Next, Calls

----------------------------------------------------------------------------
(* The control invariant.                                                  *)

LEMMA InitControl == Init => ControlInv
  BY DEF Init, ControlInv, PhaseAtPoint, TurnAtPoint, StepAtPoint, BatchAtPoint, ValueAtPoint,
         AbortInActivity, SendAfterAbort, EntryOnTop, ClaimAtPoint, LatchJustified, Aborted,
         RestPoints, TurnPoints, StepPoints, ClaimPoints, AppendPoints, NoLateSend

LEMMA CallersControl == TypeOK /\ ControlInv /\ Callers => ControlInv'
<1> SUFFICES ASSUME TypeOK, ControlInv, Callers PROVE ControlInv'
  OBVIOUS
<1> USE DEF activity, local, log, calls, mail, ControlInv, PhaseAtPoint, TurnAtPoint,
            StepAtPoint, BatchAtPoint, ValueAtPoint, AbortInActivity, SendAfterAbort,
            EntryOnTop, ClaimAtPoint, LatchJustified, Aborted, Waiting
<1>0. Callable => pc # "claiming"
  BY DEF Callable, AppendPoints
<1>1. ASSUME NEW m \in Message, NEW t \in Target, NEW w \in BOOLEAN, Send(m, t, w) PROVE ControlInv'
  <2>1. (phase = "idle" \/ ~Aborted) => NoLateSend(stack')
    BY <1>1, PushedFrame DEF Send
  <2> QED
    BY <1>0, <1>1, <2>1 DEF Send, Callable
<1>2. ASSUME NEW c \in Cause, NEW keep \in BOOLEAN, Cancel(c, keep) PROVE ControlInv'
  <2>1. CASE /\ Signal(c) /\ wakeRequested' = (wakeRequested /\ keep)
             /\ UNCHANGED <<mail, phase, stack>>
    <3>1. UNCHANGED <<mail, phase, stack, pc, step, local, log>> /\ (wakeRequested' => wakeRequested)
      BY <1>2, <2>1 DEF Cancel
    <3>2. /\ Aborted => Aborted' /\ abort' = abort
          /\ Aborted' => Aborted \/ phase # "idle"
      BY <2>1, CauseAssumption DEF Signal, FirstCause
    <3> QED
      BY <3>1, <3>2
  <2>2. ASSUME NEW t \in Target, NEW at \in {"steps", "prompts"}, ClearList(t), Push(at, c),
               ~keep, inbox[t] # <<>>
        PROVE  ControlInv'
    <3>1. NoLateSend(stack) => NoLateSend(stack')
      BY <2>2, PushedFrame
    <3>2. pc \notin AppendPoints
      BY <1>2, <2>2 DEF Cancel, HasPending
    <3>3. pc # "claiming"
      BY <3>2 DEF AppendPoints
    <3> QED
      BY <1>2, <2>2, <3>1, <3>2, <3>3 DEF Cancel, ClearList
  <2> QED
    BY <1>2, <2>1, <2>2 DEF Cancel, Target
<1>3. ASSUME NEW t \in Target, NEW i \in DOMAIN inbox[t], Remove(t, i) PROVE ControlInv'
  BY <1>0, <1>3 DEF Remove
<1>4. ASSUME NEW t \in Target, NEW m \in Message, NEW i \in DOMAIN inbox[t], Replace(t, i, m)
      PROVE ControlInv'
  BY <1>0, <1>4 DEF Replace
<1>5. ASSUME StartMaintenance PROVE ControlInv'
  BY <1>0, <1>5 DEF StartMaintenance, FreshActivity, Callable
<1>6. ASSUME NEW m \in Message, AcceptContext(m) PROVE ControlInv'
  BY <1>6 DEF AcceptContext, At, AppendPoints
<1> QED
  BY <1>1, <1>2, <1>3, <1>4, <1>5, <1>6 DEF Callers

\* The first splice of a claim empties the next-step list.
LEMMA ClaimsSteps ==
  ASSUME NEW t \in Target, ClaimFor(t)
  PROVE  /\ inbox'[NextStep] = <<>>
         /\ pc' = "assemble" \/ (pc' = "claiming" /\ t = NextTurn)
         /\ UNCHANGED <<turnEnds, turnOpen>>
  BY DEF ClaimFor, AfterClaim, Target, NextTurn, NextStep

LEMMA DriverControl == TypeOK /\ ControlInv /\ Driver => ControlInv'
<1> SUFFICES ASSUME TypeOK, ControlInv, Driver PROVE ControlInv'
  OBVIOUS
<1> USE DEF activity, local, log, calls, mail, ControlInv, PhaseAtPoint, TurnAtPoint,
            StepAtPoint, BatchAtPoint, ValueAtPoint, AbortInActivity, SendAfterAbort,
            EntryOnTop, ClaimAtPoint, LatchJustified, Aborted, RestPoints, TurnPoints,
            StepPoints, ClaimPoints, AppendPoints, EntryPoints, At, Waiting
<1>1. ASSUME OpenTurn PROVE ControlInv'
  <2>1. NoLateSend(stack) => NoLateSend(stack')
    BY <1>1, EnteredFrame DEF OpenTurn
  <2>2. pc' = "turnOpened" => stack' = stack
    BY <1>1 DEF OpenTurn, Entered
  <2> QED
    BY <1>1, <2>1, <2>2 DEF OpenTurn, Entering
<1>2. ASSUME ClaimFirst PROVE ControlInv'
  <2>1. NoLateSend(stack) => NoLateSend(stack')
    BY <1>2, EnteredFrame DEF ClaimFirst
  <2>2. pc' = "claiming" => stack' = stack
    BY <1>2 DEF ClaimFirst, Entered
  <2>3. CASE Aborted
    BY <1>2, <2>1, <2>3 DEF ClaimFirst, Entering, CatchTurn
  <2>4. CASE ~Aborted
    <3>1. /\ inbox'[NextStep] = <<>> /\ pc' \in {"assemble", "claiming"}
          /\ UNCHANGED <<turnEnds, turnOpen>>
      BY <1>2, <2>4, ClaimsSteps DEF ClaimFirst, Target
    <3>2. pc = "turnOpened" /\ (stack = <<>> \/ Head(stack).at = "drive")
      BY <1>2 DEF ClaimFirst, Entering
    <3>3. UNCHANGED <<phase, abort, wakeRequested, step, returned, stepOpen>>
      BY <1>2 DEF ClaimFirst
    <3> QED
      BY <2>1, <2>2, <2>4, <3>1, <3>2, <3>3
  <2> QED
    BY <2>3, <2>4
<1>21. ASSUME ClaimPrompt PROVE ControlInv'
  <2>1. NoLateSend(stack) => NoLateSend(stack')
    BY <1>21, EnteredFrame DEF ClaimPrompt
  <2>2. pc = "claiming" /\ pc' = "assemble"
    BY <1>21 DEF ClaimPrompt, Entering, ClaimFor
  <2> QED
    BY <1>21, <2>1, <2>2 DEF ClaimPrompt, ClaimFor
<1>3. ASSUME Assemble PROVE ControlInv'
  BY <1>3 DEF Assemble
<1>4. ASSUME DecidePreStep PROVE ControlInv'
  BY <1>4 DEF DecidePreStep
<1>5. ASSUME EnterStep PROVE ControlInv'
  <2>1. CASE \E e \in Ending : LeaveTurn(e) /\ UNCHANGED <<step, stepOpen>>
    BY <1>5, <2>1 DEF EnterStep, LeaveTurn
  <2>2. CASE CloseTurn /\ UNCHANGED <<step, stepOpen>>
    <3>1. pc = "decided" /\ pc' = "turnClosed" /\ turnOpen' = FALSE /\ UNCHANGED batch
      BY <1>5, <2>2 DEF EnterStep, CloseTurn
    <3>2. returned = "empty"
      BY <1>5, <3>1 DEF EnterStep, LeaveTurn, CatchTurn
    <3>3. UNCHANGED <<phase, abort, wakeRequested, returned, stack, stepOpen>> /\ stack = <<>>
      BY <1>5, <2>2 DEF EnterStep
    <3> QED
      BY <3>1, <3>2, <3>3
  <2>3. CASE CatchTurn /\ UNCHANGED <<step, stepOpen>>
    BY <1>5, <2>3 DEF EnterStep, CatchTurn
  <2>4. CASE /\ stepOpen' = TRUE /\ step' = 1 /\ pc' = "stepOpened"
             /\ UNCHANGED <<mail, target, turnEnds, batch, turnOpen>>
    BY <1>5, <2>4 DEF EnterStep
  <2> QED
    BY <1>5, <2>1, <2>2, <2>3, <2>4 DEF EnterStep, Ending
<1>6. ASSUME BeginStep PROVE ControlInv'
  BY <1>6 DEF BeginStep
<1>7. ASSUME PrepareRequest PROVE ControlInv'
  BY <1>7 DEF PrepareRequest
<1>71. ASSUME NEW m \in batch, AdmitMessage(m) PROVE ControlInv'
  BY <1>71 DEF AdmitMessage
<1>8. ASSUME BuildRequest PROVE ControlInv'
  BY <1>8 DEF BuildRequest
<1>9. ASSUME Stream PROVE ControlInv'
  BY <1>9 DEF Stream
<1>10. ASSUME RecoverRequest PROVE ControlInv'
  BY <1>10 DEF RecoverRequest
<1>11. ASSUME SettleTools PROVE ControlInv'
  BY <1>11 DEF SettleTools
<1>12. ASSUME CloseStep PROVE ControlInv'
  BY <1>12 DEF CloseStep
<1>13. ASSUME AfterStep PROVE ControlInv'
  <2>1. pc = "stepClosed" /\ stack = <<>>
    BY <1>13 DEF AfterStep
  <2>2. UNCHANGED <<phase, abort, wakeRequested, step, returned, stepOpen, stack>>
    BY <1>13 DEF AfterStep
  <2>3. CASE CatchTurn
    BY <2>1, <2>2, <2>3 DEF CatchTurn
  <2>4. CASE pc' = "stopping" /\ UNCHANGED <<mail, target, turnEnds, batch, turnOpen>>
    BY <2>1, <2>2, <2>4
  <2>5. CASE ClaimFor(NextStep)
    <3>1. pc' = "assemble" /\ UNCHANGED <<turnEnds, turnOpen>>
      BY <2>5, ClaimsSteps DEF Target, NextTurn, NextStep
    <3> QED
      BY <2>1, <2>2, <3>1
  <2> QED
    BY <1>13, <2>3, <2>4, <2>5 DEF AfterStep
<1>14. ASSUME StopTurn PROVE ControlInv'
  <2>1. CASE CatchTurn
    BY <1>14, <2>1 DEF StopTurn, CatchTurn
  <2>2. CASE CloseTurn
    BY <1>14, <2>2 DEF StopTurn, CloseTurn
  <2>3. CASE ClaimFor(NextStep)
    <3>1. pc' = "assemble" /\ UNCHANGED <<turnEnds, turnOpen>>
      BY <2>3, ClaimsSteps DEF Target, NextTurn, NextStep
    <3>2. pc = "stopping" /\ UNCHANGED <<phase, abort, wakeRequested, step, returned, stepOpen, stack>>
      BY <1>14 DEF StopTurn
    <3> QED
      BY <3>1, <3>2
  <2> QED
    BY <1>14, <2>1, <2>2, <2>3 DEF StopTurn
<1>15. ASSUME UnwindStep PROVE ControlInv'
  BY <1>15 DEF UnwindStep
<1>16. ASSUME CatchFailure PROVE ControlInv'
  BY <1>16 DEF CatchFailure, CatchTurn
<1>17. ASSUME ReportFailure PROVE ControlInv'
  BY <1>17 DEF ReportFailure
<1>18. ASSUME DrainOrStop PROVE ControlInv'
  BY <1>18, EmptyFrames DEF DrainOrStop, FreshActivity
<1>19. ASSUME Retire PROVE ControlInv'
  BY <1>19, EmptyFrames DEF Retire, FreshActivity
<1>20. ASSUME ReplayWake PROVE ControlInv'
  <2>1. StartDriver(<<>>) => NoLateSend(stack')
    BY EmptyFrames, StartedFrame
  <2> QED
    BY <1>20, <2>1 DEF ReplayWake, ReplayDue, StartDriver, FreshActivity
<1> QED
  BY <1>1, <1>2, <1>21, <1>3, <1>4, <1>5, <1>6, <1>7, <1>71, <1>8, <1>9, <1>10, <1>11, <1>12, <1>13, <1>14,
     <1>15, <1>16, <1>17, <1>18, <1>19, <1>20 DEF Driver

LEMMA CallsControl == TypeOK /\ ControlInv /\ (Calls \/ SettleMaintenance) => ControlInv'
<1> SUFFICES ASSUME TypeOK, ControlInv, Calls \/ SettleMaintenance PROVE ControlInv'
  OBVIOUS
<1> USE DEF activity, local, log, calls, mail, ControlInv, PhaseAtPoint, TurnAtPoint,
            StepAtPoint, BatchAtPoint, ValueAtPoint, AbortInActivity, SendAfterAbort,
            EntryOnTop, ClaimAtPoint, LatchJustified, Aborted, Waiting
<1>0. stack \in Seq(Frame)
  BY DEF TypeOK
<1>1. CASE WakeDriver
  <2>0. stack # <<>> /\ Head(stack).at \in {"live", "afterAbort"}
    BY <1>1 DEF WakeDriver
  <2>5. Tail(stack) \in Seq(Frame) /\ (NoLateSend(stack) => NoLateSend(Tail(stack)))
    BY <1>0, <2>0, Popped
  <2>1. CASE phase = "idle"
    <3>1. StartDriver(Tail(stack)) /\ NoLateSend(stack)
      BY <1>1, <2>1 DEF WakeDriver
    <3>2. NoLateSend(stack')
      BY <2>5, <3>1, StartedFrame
    <3> QED
      BY <1>1, <2>1, <3>1, <3>2 DEF WakeDriver, StartDriver, FreshActivity, RestPoints, TurnPoints,
                                    StepPoints, ClaimPoints, AppendPoints
  <2>2. CASE phase # "idle"
    <3>1. UNCHANGED <<mail, phase, abort, disposing, step, pc, local, log, replay>>
      BY <1>1, <2>2 DEF WakeDriver
    <3>2. stack' = Tail(stack) /\ pc \notin AppendPoints
      BY <1>1, <2>0, <2>2 DEF WakeDriver
    <3>3. wakeRequested' => wakeRequested \/ phase = "maintenance" \/ Waiting("afterAbort")
      BY <1>1, <2>2 DEF WakeDriver
    <3>4. Waiting("afterAbort") => Aborted
      <4>1. 1 \in DOMAIN stack /\ Head(stack) = stack[1]
        BY <1>0, <2>0
      <4> QED
        BY <4>1 DEF NoLateSend
    <3>5. LatchJustified'
      BY <2>2, <3>1, <3>3, <3>4 DEF TypeOK, Phase
    <3> QED
      BY <2>5, <3>1, <3>2, <3>5
  <2> QED
    BY <2>1, <2>2
<1>2. CASE ClearPrompts
  <2>1. stack # <<>> /\ Head(stack).at = "steps"
    BY <1>2 DEF ClearPrompts
  <2>2. pc \notin AppendPoints
    BY <2>1
  <2>3. pc # "claiming"
    BY <2>2 DEF AppendPoints
  <2>4. NoLateSend(stack) => NoLateSend(stack')
    BY <1>0, <1>2, <2>1, Advanced DEF ClearPrompts
  <2> QED
    BY <1>2, <2>2, <2>3, <2>4 DEF ClearPrompts, ClearList
<1>3. CASE FinishCancel
  <2>1. stack # <<>> /\ Head(stack).at \in {"steps", "prompts"}
    BY <1>3 DEF FinishCancel
  <2>2. pc \notin AppendPoints
    BY <2>1
  <2>3. NoLateSend(stack) => NoLateSend(stack')
    BY <1>0, <1>3, <2>1, Popped DEF FinishCancel
  <2>4. Aborted => Aborted'
    BY <1>3 DEF FinishCancel, Signal, FirstCause
  <2>5. abort' = abort \/ phase # "idle"
    BY <1>3 DEF FinishCancel, Signal, FirstCause
  <2>6. UNCHANGED <<mail, phase, pc, step, local, log, replay>> /\ wakeRequested' = FALSE
    BY <1>3 DEF FinishCancel
  <2>7. SendAfterAbort' /\ AbortInActivity' /\ LatchJustified'
    BY <2>3, <2>4, <2>5, <2>6
  <2> QED
    BY <2>2, <2>6, <2>7
<1>4. CASE SettleMaintenance
  <2>1. StartDriver(<<>>) => NoLateSend(stack')
    BY EmptyFrames, StartedFrame
  <2>2. stack = <<>> /\ pc = "none" /\ NoLateSend(<<>>)
    BY <1>4, EmptyFrames DEF SettleMaintenance, At
  <2> QED
    BY <1>4, <2>1, <2>2
       DEF SettleMaintenance, StartDriver, FreshActivity, RestPoints, TurnPoints, StepPoints,
           ClaimPoints, AppendPoints
<1> QED
  BY <1>1, <1>2, <1>3, <1>4 DEF Calls

LEMMA NextControl == TypeOK /\ ControlInv /\ [Next]_vars => ControlInv'
<1> SUFFICES ASSUME TypeOK, ControlInv, [Next]_vars PROVE ControlInv'
  OBVIOUS
<1>1. CASE UNCHANGED vars
  BY <1>1 DEF vars, activity, local, log, calls, mail, ControlInv, PhaseAtPoint, TurnAtPoint,
              StepAtPoint, BatchAtPoint, ValueAtPoint, AbortInActivity, SendAfterAbort,
              EntryOnTop, ClaimAtPoint, LatchJustified, Aborted, Waiting
<1> QED
  BY <1>1, CallsControl, DriverControl, CallersControl DEF Next

LEMMA Inductive == Spec => [](TypeOK /\ ControlInv)
<1>1. TypeOK /\ ControlInv /\ [Next]_vars => (TypeOK /\ ControlInv)'
  BY NextTypeOK, NextControl DEF ControlInv
<1> QED
  BY <1>1, InitTypeOK, InitControl, PTL DEF Spec

----------------------------------------------------------------------------
(* The theorems.                                                           *)

\* Every variable keeps its kind: the driver's local turnEnds is always an ending
\* a turn/end event can carry, whatever value the step returned.
THEOREM TypeCorrect == Spec => []TypeOK
  BY Inductive, PTL

\* A wake is latched only behind maintenance or an aborted driver, however the
\* callers' aborts interleave with a send and with the driver's own awaits.
THEOREM LatchCorrect == Spec => []LatchJustified
<1>1. ControlInv => LatchJustified
  BY DEF ControlInv
<1> QED
  BY <1>1, Inductive, PTL

\* The log's turn and step boundaries are balanced, and nothing is held in hand,
\* whenever the agent is not running.
THEOREM BalanceCorrect == Spec => []LogBalanced
<1>1. ControlInv => LogBalanced
  BY DEF ControlInv, PhaseAtPoint, TurnAtPoint, StepAtPoint, BatchAtPoint, LogBalanced,
         RestPoints, TurnPoints, StepPoints, ClaimPoints
<1> QED
  BY <1>1, Inductive, PTL

-----------------------------------------------------------------------------
(***************************************************************************)
(* Theorems about what a turn takes and how it ends, and about the wakes   *)
(* latched behind it.                                                      *)
(***************************************************************************)

(***************************************************************************)
(* None of the properties is inductive.  They rest on what the driver's    *)
(* locals mean at each point: a turn begins with no step, an ending decided *)
(* as completed owes no tool result until the next tool step, and only a   *)
(* driver that has just gone idle replays a latched wake.                  *)
(***************************************************************************)
FirstPoints   == {"starting", "nextTurn", "turnOpened", "claiming"}
ResultsShown  == {"stream", "requestError", "tools"}
DecidedPoints == (TurnPoints \cup {"turnClosed"}) \ {"stepReturned"}

NoStepYet     == pc \in FirstPoints => step = 0
ReplayAtPoint == replay => pc = "idleStatus"
OwedAtPoint ==
  /\ pc \in ResultsShown => ~toolsOwed
  /\ pc = "stepReturned" /\ returned # "continue" => ~toolsOwed
  /\ pc \in DecidedPoints /\ turnEnds = "completed" => ~toolsOwed

TurnInv == NoStepYet /\ ReplayAtPoint /\ OwedAtPoint

LEMMA InitTurn == Init => TurnInv
  BY DEF Init, TurnInv, NoStepYet, ReplayAtPoint, OwedAtPoint, FirstPoints, ResultsShown,
         DecidedPoints, TurnPoints

LEMMA CallersTurn == TypeOK /\ ControlInv /\ TurnInv /\ Callers => TurnInv'
<1> SUFFICES ASSUME TypeOK, ControlInv, TurnInv, Callers PROVE TurnInv'
  OBVIOUS
<1> USE DEF activity, local, log, calls, mail, TurnInv, NoStepYet, ReplayAtPoint,
            OwedAtPoint
<1>1. ASSUME NEW m \in Message, NEW t \in Target, NEW w \in BOOLEAN, Send(m, t, w) PROVE TurnInv'
  BY <1>1 DEF Send
<1>2. ASSUME NEW c \in Cause, NEW keep \in BOOLEAN, Cancel(c, keep) PROVE TurnInv'
  BY <1>2 DEF Cancel, ClearList
<1>3. ASSUME NEW t \in Target, NEW i \in DOMAIN inbox[t], Remove(t, i) PROVE TurnInv'
  BY <1>3 DEF Remove
<1>4. ASSUME NEW t \in Target, NEW m \in Message, NEW i \in DOMAIN inbox[t], Replace(t, i, m)
      PROVE TurnInv'
  BY <1>4 DEF Replace
<1>5. ASSUME StartMaintenance PROVE TurnInv'
  BY <1>5 DEF StartMaintenance
<1>6. ASSUME NEW m \in Message, AcceptContext(m) PROVE TurnInv'
  BY <1>6 DEF AcceptContext
<1> QED
  BY <1>1, <1>2, <1>3, <1>4, <1>5, <1>6 DEF Callers

LEMMA DriverTurn == TypeOK /\ ControlInv /\ TurnInv /\ Driver => TurnInv'
<1> SUFFICES ASSUME TypeOK, ControlInv, TurnInv, Driver PROVE TurnInv'
  OBVIOUS
<1> USE DEF activity, local, log, calls, mail, At, Entering, TurnInv, NoStepYet, ReplayAtPoint,
            OwedAtPoint, FirstPoints, ResultsShown, DecidedPoints, TurnPoints
<1>1. ASSUME OpenTurn PROVE TurnInv'
  BY <1>1 DEF OpenTurn
<1>2. ASSUME ClaimFirst \/ ClaimPrompt PROVE TurnInv'
  BY <1>2 DEF ClaimFirst, ClaimPrompt, CatchTurn, ClaimFor
<1>3. ASSUME Assemble \/ DecidePreStep \/ BeginStep PROVE TurnInv'
  BY <1>3 DEF Assemble, DecidePreStep, BeginStep
<1>4. ASSUME EnterStep PROVE TurnInv'
  BY <1>4 DEF EnterStep, LeaveTurn, CloseTurn, CatchTurn
<1>5. ASSUME PrepareRequest \/ (\E m \in batch : AdmitMessage(m)) \/ BuildRequest \/ RecoverRequest
      PROVE TurnInv'
  <2>1. CASE PrepareRequest
    BY <2>1 DEF PrepareRequest
  <2>2. CASE \E m \in batch : AdmitMessage(m)
    BY <2>2 DEF AdmitMessage
  <2>3. CASE BuildRequest
    BY <2>3 DEF BuildRequest
  <2>4. CASE RecoverRequest
    BY <2>4 DEF RecoverRequest
  <2> QED
    BY <1>5, <2>1, <2>2, <2>3, <2>4
<1>6. ASSUME Stream PROVE TurnInv'
  BY <1>6 DEF Stream
<1>7. ASSUME SettleTools PROVE TurnInv'
  <2>1. CASE pc' = "thrown" /\ UNCHANGED <<returned, toolsOwed>>
    BY <1>7, <2>1 DEF SettleTools
  <2>2. CASE pc' = "stepReturned" /\ toolsOwed' = (returned' = "continue")
    <3>1. returned' # "continue" => ~toolsOwed'
      BY <2>2
    <3> QED
      BY <1>7, <2>2, <3>1 DEF SettleTools
  <2> QED
    BY <1>7, <2>1, <2>2 DEF SettleTools
<1>8. ASSUME CloseStep PROVE TurnInv'
  BY <1>8 DEF CloseStep, StepEnding
<1>9. ASSUME AfterStep PROVE TurnInv'
  BY <1>9 DEF AfterStep, CatchTurn, ClaimFor, NextStep, NextTurn
<1>10. ASSUME StopTurn PROVE TurnInv'
  BY <1>10 DEF StopTurn, CatchTurn, ClaimFor, CloseTurn, NextStep, NextTurn
<1>11. ASSUME UnwindStep \/ ReportFailure PROVE TurnInv'
  BY <1>11 DEF UnwindStep, ReportFailure
<1>12. ASSUME CatchFailure PROVE TurnInv'
  BY <1>12 DEF CatchFailure, CatchTurn
<1>13. ASSUME DrainOrStop \/ Retire PROVE TurnInv'
  BY <1>13 DEF DrainOrStop, Retire
<1>14. ASSUME ReplayWake PROVE TurnInv'
  BY <1>14 DEF ReplayWake, StartDriver
<1> QED
  BY <1>1, <1>2, <1>3, <1>4, <1>5, <1>6, <1>7, <1>8, <1>9, <1>10, <1>11, <1>12, <1>13, <1>14
     DEF Driver

LEMMA NextTurnInv == TypeOK /\ ControlInv /\ TurnInv /\ [Next]_vars => TurnInv'
<1> SUFFICES ASSUME TypeOK, ControlInv, TurnInv, [Next]_vars PROVE TurnInv'
  OBVIOUS
<1> USE DEF activity, local, log, calls, mail, TurnInv, NoStepYet, ReplayAtPoint,
            OwedAtPoint
<1>1. CASE WakeDriver
  BY <1>1 DEF WakeDriver, StartDriver, ResultsShown, DecidedPoints, TurnPoints
<1>2. CASE SettleMaintenance
  BY <1>2 DEF SettleMaintenance, At, StartDriver, ResultsShown, DecidedPoints, TurnPoints
<1>3. CASE UNCHANGED vars
  BY <1>3 DEF vars
<1>4. CASE ClearPrompts \/ FinishCancel
  BY <1>4 DEF ClearPrompts, FinishCancel, ClearList
<1> QED
  BY <1>1, <1>2, <1>3, <1>4, DriverTurn, CallersTurn DEF Next, Calls

LEMMA TurnInductive == Spec => [](TypeOK /\ ControlInv /\ TurnInv)
<1>1. TypeOK /\ ControlInv /\ TurnInv /\ [Next]_vars => TurnInv'
  BY NextTurnInv
<1> QED
  BY <1>1, Inductive, InitTurn, PTL DEF Spec

\* A turn reported as completed has shown the model the result of every tool it
\* called, across retries, stopping listeners that ask for more, and aborts.
THEOREM CompletionCorrect == Spec => []CompletedOwesNothing
<1>1. TurnInv => CompletedOwesNothing
  BY DEF TurnInv, OwedAtPoint, DecidedPoints, CompletedOwesNothing
<1> QED
  BY <1>1, TurnInductive, PTL

----------------------------------------------------------------------------
(* The output ceiling.                                                     *)

CeilingKept ==
  turnOpen /\ turnEnds = "max-tokens" => turnEnds' \in {"max-tokens", "blocked", "aborted", "error"}

LEMMA NextCeiling == TypeOK /\ ControlInv /\ [Next]_vars => CeilingKept
<1> SUFFICES ASSUME TypeOK, ControlInv, [Next]_vars PROVE CeilingKept
  OBVIOUS
<1> USE DEF activity, local, log, calls, mail, At, Entering, CeilingKept
<1>1. CASE Driver
  <2>1. ASSUME OpenTurn PROVE CeilingKept
    BY <2>1 DEF OpenTurn, ControlInv, TurnAtPoint, TurnPoints
  <2>2. ASSUME ClaimFirst \/ ClaimPrompt \/ AfterStep \/ StopTurn \/ CatchFailure PROVE CeilingKept
    BY <2>2 DEF ClaimFirst, ClaimPrompt, AfterStep, StopTurn, CatchFailure, CatchTurn, ClaimFor, CloseTurn
  <2>3. ASSUME EnterStep PROVE CeilingKept
    BY <2>3 DEF EnterStep, LeaveTurn, CloseTurn, CatchTurn
  <2>4. ASSUME CloseStep PROVE CeilingKept
    BY <2>4 DEF CloseStep, StepEnding
  <2>5. ASSUME UNCHANGED turnEnds PROVE CeilingKept
    BY <2>5
  <2> QED
    BY <1>1, <2>1, <2>2, <2>3, <2>4, <2>5
       DEF Driver, Assemble, DecidePreStep, BeginStep, PrepareRequest, AdmitMessage, BuildRequest,
           Stream, RecoverRequest, SettleTools, UnwindStep, ReportFailure, DrainOrStop, Retire, ReplayWake
<1>2. CASE Callers
  BY <1>2 DEF Callers, Send, Cancel, Remove, Replace, StartMaintenance, AcceptContext
<1>3. CASE Calls \/ SettleMaintenance \/ UNCHANGED vars
  BY <1>3 DEF Calls, WakeDriver, ClearPrompts, FinishCancel, SettleMaintenance, vars
<1> QED
  BY <1>1, <1>2, <1>3 DEF Next

\* A turn that once hit the output ceiling is never reported as completed, however
\* many steps and callbacks follow.
THEOREM CeilingCorrect == Spec => MaxTokensSticky
<1>1. TypeOK /\ ControlInv /\ [Next]_vars
        => [turnOpen /\ turnEnds = "max-tokens" =>
              turnEnds' \in {"max-tokens", "blocked", "aborted", "error"}]_vars
  BY NextCeiling DEF CeilingKept
<1> QED
  BY <1>1, Inductive, PTL DEF Spec, MaxTokensSticky
----------------------------------------------------------------------------
(* Prompts and latched wakes.                                              *)

PromptAlone ==
  pc # "assemble" /\ pc' = "assemble" /\ inbox'[NextTurn] # inbox[NextTurn] =>
    step = 0 /\ inbox'[NextTurn] = Tail(inbox[NextTurn])

LEMMA ClaimedPrompt ==
  ASSUME TypeOK, NEW t \in Target, ClaimFor(t), inbox'[NextTurn] # inbox[NextTurn]
  PROVE  t = NextTurn /\ inbox'[NextTurn] = Tail(inbox[NextTurn])
<1>1. NextTurn \in Target /\ NextTurn # NextStep
  BY DEF Target, NextTurn, NextStep
<1>2. PICK now \in {t, NextStep} : inbox' = AfterClaim(inbox, now)
  BY DEF ClaimFor
<1>3. inbox'[NextTurn] = IF now = NextTurn /\ inbox[NextTurn] # <<>>
                         THEN Tail(inbox[NextTurn]) ELSE inbox[NextTurn]
  BY <1>1, <1>2 DEF AfterClaim
<1> QED
  BY <1>1, <1>2, <1>3

LEMMA NextPrompt == TypeOK /\ ControlInv /\ TurnInv /\ [Next]_vars => PromptAlone
<1> SUFFICES ASSUME TypeOK, TurnInv, [Next]_vars,
                    pc # "assemble", pc' = "assemble", inbox'[NextTurn] # inbox[NextTurn]
             PROVE  step = 0 /\ inbox'[NextTurn] = Tail(inbox[NextTurn])
  BY DEF PromptAlone
<1> USE DEF activity, local, log, calls, mail, At, Entering
<1>1. CASE Driver
  <2>1. CASE ClaimFirst \/ ClaimPrompt
    <3>1. ClaimFor(NextTurn) /\ step = 0
      BY <1>1, <2>1 DEF ClaimFirst, ClaimPrompt, CatchTurn, TurnInv, NoStepYet, FirstPoints
    <3> QED
      BY <3>1, ClaimedPrompt DEF Target
  <2>2. ASSUME AfterStep \/ StopTurn PROVE FALSE
    <3>1. ClaimFor(NextStep)
      BY <2>2 DEF AfterStep, StopTurn, CatchTurn, CloseTurn
    <3> QED
      BY <3>1, ClaimedPrompt DEF Target, NextStep, NextTurn
  <2>3. ASSUME pc' # "assemble" PROVE FALSE
    BY <2>3
  <2> QED
    BY <1>1, <2>1, <2>2, <2>3
       DEF Driver, OpenTurn, Assemble, DecidePreStep, EnterStep, LeaveTurn, CloseTurn, CatchTurn,
           BeginStep, PrepareRequest, AdmitMessage, BuildRequest, Stream, RecoverRequest,
           SettleTools, CloseStep, UnwindStep, CatchFailure, ReportFailure, DrainOrStop, Retire,
           ReplayWake, StartDriver
<1>2. CASE Callers
  BY <1>2 DEF Callers, Send, Cancel, Remove, Replace, StartMaintenance, AcceptContext
<1>3. CASE Calls \/ SettleMaintenance \/ UNCHANGED vars
  BY <1>3 DEF Calls, WakeDriver, ClearPrompts, FinishCancel, SettleMaintenance, StartDriver, vars
<1> QED
  BY <1>1, <1>2, <1>3 DEF Next

\* A queued prompt has a turn to itself: a turn takes one at most, the oldest,
\* and before its first step.
THEOREM PromptCorrect == Spec => OnePromptPerTurn
<1>1. TypeOK /\ ControlInv /\ TurnInv /\ [Next]_vars
        => [pc # "assemble" /\ pc' = "assemble" /\ inbox'[NextTurn] # inbox[NextTurn] =>
              step = 0 /\ inbox'[NextTurn] = Tail(inbox[NextTurn])]_vars
  BY NextPrompt DEF PromptAlone
<1> QED
  BY <1>1, TurnInductive, PTL DEF Spec, OnePromptPerTurn

LatchKept ==
  (wakeRequested \/ replay) /\ ~wakeRequested' /\ ~replay' =>
    \/ phase' = "running" /\ abort' = NoCause
    \/ ~HasPending(inbox')
    \/ abort = Disposed
    \/ Clearing

LEMMA NextLatch == TypeOK /\ ControlInv /\ TurnInv /\ [Next]_vars => LatchKept
<1> SUFFICES ASSUME TypeOK, ControlInv, TurnInv, [Next]_vars PROVE LatchKept
  OBVIOUS
<1> USE DEF activity, local, log, calls, mail, At, LatchKept
<1>1. CASE WakeDriver
  BY <1>1 DEF WakeDriver, StartDriver, FreshActivity
<1>2. CASE SettleMaintenance
  BY <1>2 DEF SettleMaintenance, StartDriver, FreshActivity
<1>3. CASE Callers
  <2>1. ASSUME NEW c \in Cause, NEW keep \in BOOLEAN, Cancel(c, keep) PROVE LatchKept
    BY <2>1 DEF Cancel, ClearList
  <2>2. ASSUME StartMaintenance PROVE LatchKept
    BY <2>2 DEF StartMaintenance, ControlInv, LatchJustified
  <2>3. ASSUME UNCHANGED <<wakeRequested, replay>> PROVE LatchKept
    BY <2>3
  <2> QED
    BY <1>3, <2>1, <2>2, <2>3 DEF Callers, Send, Remove, Replace, AcceptContext
<1>4. CASE Driver
  <2>1. ASSUME DrainOrStop PROVE LatchKept
    BY <2>1 DEF DrainOrStop, FreshActivity, ControlInv, PhaseAtPoint, RestPoints
  <2>2. ASSUME Retire PROVE LatchKept
    BY <2>2 DEF Retire, TurnInv, ReplayAtPoint
  <2>3. ASSUME ReplayWake PROVE LatchKept
    BY <2>3 DEF ReplayWake, ReplayDue, StartDriver, FreshActivity, ControlInv, PhaseAtPoint,
                RestPoints, TypeOK, Phase
  <2>4. ASSUME UNCHANGED <<wakeRequested, replay>> PROVE LatchKept
    BY <2>4
  <2> QED
    BY <1>4, <2>1, <2>2, <2>3, <2>4
       DEF Driver, OpenTurn, ClaimFirst, ClaimPrompt, Assemble, DecidePreStep, EnterStep, BeginStep,
           PrepareRequest, AdmitMessage, BuildRequest, Stream, RecoverRequest, SettleTools,
           CloseStep, AfterStep, StopTurn, UnwindStep, CatchFailure, ReportFailure
<1>5. CASE UNCHANGED vars
  BY <1>5 DEF vars
<1>6. CASE ClearPrompts
  BY <1>6 DEF ClearPrompts, ClearList
<1>7. CASE FinishCancel
  <2>1. stack # <<>> /\ Head(stack).at \in {"steps", "prompts"} /\ stack \in Seq(Frame)
    BY <1>7 DEF FinishCancel, Waiting, TypeOK
  <2>2. 1 \in DOMAIN stack /\ Head(stack) = stack[1]
    BY <2>1
  <2> QED
    BY <2>1, <2>2 DEF Clearing
<1> QED
  BY <1>1, <1>2, <1>3, <1>4, <1>5, <1>6, <1>7 DEF Next, Calls

\* Convergence never forgets a wake it latched: the wake starts a live driver,
\* or nothing is queued any more, or the agent was disposed, or the wake came
\* before the end of a cancel that clears the inbox, which withdraws it too.
THEOREM ConvergenceCorrect == Spec => LatchNeverLost
<1>1. TypeOK /\ ControlInv /\ TurnInv /\ [Next]_vars
        => [(wakeRequested \/ replay) /\ ~wakeRequested' /\ ~replay' =>
              \/ phase' = "running" /\ abort' = NoCause
              \/ ~HasPending(inbox')
              \/ abort = Disposed
              \/ Clearing]_vars
  BY NextLatch DEF LatchKept
<1> QED
  BY <1>1, TurnInductive, PTL DEF Spec, LatchNeverLost

-----------------------------------------------------------------------------
(***************************************************************************)
(* Theorems about the messages an agent is sent: each is accounted for,    *)
(* and the driver implements MessageDelivery.  The many actions of the     *)
(* driver do only a dozen things to messages, so every step is first shown *)
(* to be of one of these kinds.                                            *)
(***************************************************************************)

Reasoned == abort' = abort \/ Aborted'
\* No claim and no admission is under way, and none begins.
Free == Busy = "no" /\ Busy' = "no"

\* Nothing happens to messages, under the same signal or a newly aborted one.
Quiet  == UNCHANGED <<inbox, fate, batch, phase, Busy>> /\ Reasoned
\* An activity ends or another one begins.
Rests  == UNCHANGED <<inbox, fate, batch>> /\ batch = {} /\ abort' = NoCause /\ Free
Clears(t) ==
  /\ inbox' = [inbox EXCEPT ![t] = <<>>]
  /\ fate' = Mark(Range(inbox[t]), "canceled")
  /\ UNCHANGED <<batch, phase, abort>> /\ Free
Inserts(t, m) ==
  /\ fate[m] = "unsent"
  /\ inbox' = [inbox EXCEPT ![t] = Append(inbox[t], m)]
  /\ fate' = Mark({m}, "pending")
  /\ UNCHANGED <<batch, phase, abort>> /\ Free
Removes(t, i) ==
  /\ inbox' = [inbox EXCEPT ![t] = Spliced(inbox[t], i - 1, 1, <<>>)]
  /\ fate' = Mark({inbox[t][i]}, "canceled")
  /\ UNCHANGED <<batch, phase, abort>> /\ Free
Replaces(t, i, m) ==
  /\ fate[m] = "unsent"
  /\ inbox' = [inbox EXCEPT ![t] = Spliced(inbox[t], i - 1, 1, <<m>>)]
  /\ fate' = [Mark({inbox[t][i]}, "canceled") EXCEPT ![m] = "pending"]
  /\ UNCHANGED <<batch, phase, abort>> /\ Free
Claims(t) ==
  /\ phase = "running"
  /\ \/ ~Aborted /\ batch = {} /\ Busy = "no" /\ Busy' \in {"no", "taking"}
     \/ Busy = "taking" /\ Busy' = "no"
  /\ batch' = batch \cup ClaimedBatch(inbox, t)
  /\ inbox' = AfterClaim(inbox, t)
  /\ fate' = Mark(ClaimedBatch(inbox, t), "claimed")
  /\ UNCHANGED <<phase, abort>>
Drops(kept) ==
  /\ phase = "running"
  /\ batch' = kept
  /\ fate' = Mark(batch \ kept, "dropped")
  /\ UNCHANGED <<inbox, phase, abort>> /\ Free
BeginsAdmission ==
  /\ phase = "running" /\ ~Aborted
  /\ Busy = "no" /\ Busy' = "admitting"
  /\ UNCHANGED <<inbox, fate, batch, phase, abort>>
Admits(m) ==
  /\ phase = "running" /\ Busy = "admitting" /\ Busy' = "admitting"
  /\ batch' = batch \ {m}
  /\ fate' = Mark({m}, "admitted")
  /\ UNCHANGED <<inbox, phase, abort>>
EndsAdmission ==
  /\ Busy = "admitting" /\ Busy' = "no" /\ batch = {}
  /\ UNCHANGED <<inbox, fate, batch, phase, abort>>

MailStep ==
  \/ Quiet \/ Rests \/ BeginsAdmission \/ EndsAdmission
  \/ \E m \in batch : Admits(m)
  \/ \E t \in Target : Clears(t)
  \/ \E t \in Target, m \in Message : Inserts(t, m)
  \/ \E t \in Target : \E i \in DOMAIN inbox[t] : Removes(t, i)
  \/ \E t \in Target, m \in Message : \E i \in DOMAIN inbox[t] : Replaces(t, i, m)
  \/ \E t \in Target : Claims(t)
  \/ \E kept \in SUBSET batch : Drops(kept)

\* What the driver is busy with is a matter of its point alone.
LEMMA BusyAtPoint ==
  /\ pc = "claiming" => Busy = "taking"
  /\ pc = "admitting" => Busy = "admitting"
  /\ pc \notin {"claiming", "admitting"} => Busy = "no"
  /\ pc' = "claiming" => Busy' = "taking"
  /\ pc' = "admitting" => Busy' = "admitting"
  /\ pc' \notin {"claiming", "admitting"} => Busy' = "no"
  /\ UNCHANGED pc => UNCHANGED Busy
  BY DEF Busy

\* Where a call may reach the inbox, the driver is busy with no message.
LEMMA IdleBusy ==
  /\ pc \notin AppendPoints => Busy = "no"
  /\ pc \notin AppendPoints /\ UNCHANGED pc => Free
  BY BusyAtPoint DEF AppendPoints, Free

LEMMA SignalReasoned ==
  ASSUME TypeOK, NEW c, Signal(c), c \in Cause \/ c = NoCause
  PROVE  Reasoned
  BY CauseAssumption DEF Signal, FirstCause, Reasoned, Aborted

LEMMA CallersMail == TypeOK /\ ControlInv /\ Callers => MailStep
<1> SUFFICES ASSUME TypeOK, ControlInv, Callers PROVE MailStep
  OBVIOUS
<1> USE DEF activity, local, log, calls, mail
<1>0. Callable /\ UNCHANGED pc => Free
  BY IdleBusy DEF Callable
<1>1. ASSUME NEW m \in Message, NEW t \in Target, NEW w \in BOOLEAN, Send(m, t, w) PROVE MailStep
  <2>1. \E to \in Target : Inserts(to, m)
    BY <1>0, <1>1 DEF Send, Inserts, Target
  <2> QED
    BY <2>1 DEF MailStep
<1>2. ASSUME NEW c \in Cause, NEW keep \in BOOLEAN, Cancel(c, keep) PROVE MailStep
  <2>1. UNCHANGED <<pc, batch>>
    BY <1>2 DEF Cancel
  <2>2. CASE Signal(c) /\ UNCHANGED <<mail, phase, stack>>
    <3>1. Quiet
      BY <2>1, <2>2, SignalReasoned, BusyAtPoint DEF Quiet
    <3> QED
      BY <3>1 DEF MailStep
  <2>3. ASSUME NEW t \in Target, ClearList(t), ~keep, inbox[t] # <<>> PROVE MailStep
    <3>1. pc \notin AppendPoints
      BY <1>2, <2>3 DEF Cancel, HasPending
    <3>2. Clears(t)
      BY <2>1, <2>3, <3>1, IdleBusy DEF Clears, ClearList
    <3> QED
      BY <3>2 DEF MailStep
  <2> QED
    BY <1>2, <2>2, <2>3 DEF Cancel, Target
<1>3. ASSUME NEW t \in Target, NEW i \in DOMAIN inbox[t], Remove(t, i) PROVE MailStep
  <2>1. Removes(t, i)
    BY <1>0, <1>3 DEF Remove, Removes
  <2> QED
    BY <2>1 DEF MailStep
<1>4. ASSUME NEW t \in Target, NEW m \in Message, NEW i \in DOMAIN inbox[t], Replace(t, i, m)
      PROVE MailStep
  <2>1. Replaces(t, i, m)
    BY <1>0, <1>4 DEF Replace, Replaces
  <2> QED
    BY <2>1 DEF MailStep
<1>5. ASSUME StartMaintenance PROVE MailStep
  <2>1. batch = {}
    BY <1>5 DEF StartMaintenance, ControlInv, PhaseAtPoint, BatchAtPoint, RestPoints, ClaimPoints
  <2>2. Rests
    BY <1>0, <1>5, <2>1 DEF StartMaintenance, FreshActivity, Rests
  <2> QED
    BY <2>2 DEF MailStep
<1>6. ASSUME NEW m \in Message, AcceptContext(m) PROVE MailStep
  <2>1. Inserts(NextStep, m) /\ NextStep \in Target
    BY <1>6, IdleBusy DEF AcceptContext, At, AppendPoints, Inserts, Target
  <2> QED
    BY <2>1 DEF MailStep
<1> QED
  BY <1>1, <1>2, <1>3, <1>4, <1>5, <1>6 DEF Callers

LEMMA DriverMail == TypeOK /\ ControlInv /\ Driver => MailStep
<1> SUFFICES ASSUME TypeOK, ControlInv, Driver PROVE MailStep
  OBVIOUS
<1> USE DEF activity, local, log, calls, mail, At, Entering
<1>0. /\ phase = "running" <=> pc \notin RestPoints
      /\ batch # {} => pc \in ClaimPoints
  BY DEF ControlInv, PhaseAtPoint, BatchAtPoint
<1>31. ASSUME UNCHANGED <<mail, batch, phase, abort>>, pc \notin {"claiming", "admitting"},
             pc' \notin {"claiming", "admitting"}
      PROVE  MailStep
  <2>1. Quiet
    BY <1>31, BusyAtPoint DEF Quiet, Reasoned
  <2> QED
    BY <2>1 DEF MailStep
<1>32. Rests => MailStep
  BY DEF MailStep
<1>33. ASSUME NEW t \in Target, ClaimFor(t), UNCHANGED activity,
             \/ ~Aborted /\ pc \in {"turnOpened", "stepClosed", "stopping"}
             \/ pc = "claiming"
      PROVE  MailStep
  <2>1. PICK now \in Target : /\ batch' = batch \cup ClaimedBatch(inbox, now)
                              /\ inbox' = AfterClaim(inbox, now)
                              /\ fate' = Mark(ClaimedBatch(inbox, now), "claimed")
    BY <1>33 DEF ClaimFor, Target
  <2>2. pc' \in {"claiming", "assemble"} /\ (pc = "claiming" => pc' = "assemble")
    BY <1>33 DEF ClaimFor, ControlInv, ClaimAtPoint
  <2>3. pc # "claiming" => batch = {}
    BY <1>0, <1>33 DEF ClaimPoints
  <2>4. phase = "running"
    BY <1>0, <1>33 DEF RestPoints
  <2>5. Claims(now)
    BY <1>33, <2>1, <2>2, <2>3, <2>4, BusyAtPoint DEF Claims
  <2> QED
    BY <2>5 DEF MailStep
<1>34. ASSUME CatchTurn, UNCHANGED activity, pc \notin RestPoints, pc \notin {"claiming", "admitting"}
      PROVE MailStep
  <2>1. Drops({})
    BY <1>0, <1>34, BusyAtPoint DEF CatchTurn, Drops, Free
  <2> QED
    BY <2>1 DEF MailStep
<1>35. ASSUME NEW e, LeaveTurn(e), UNCHANGED activity, pc \notin RestPoints,
             pc \notin {"claiming", "admitting"}
      PROVE MailStep
  <2>1. Drops({})
    BY <1>0, <1>35, BusyAtPoint DEF LeaveTurn, Drops, Free
  <2> QED
    BY <2>1 DEF MailStep
<1>36. NextTurn \in Target /\ NextStep \in Target
  BY DEF Target
<1>1. ASSUME OpenTurn PROVE MailStep
  BY <1>1, <1>31 DEF OpenTurn
<1>2. ASSUME ClaimFirst PROVE MailStep
  BY <1>2, <1>33, <1>34, <1>36 DEF ClaimFirst, RestPoints
<1>21. ASSUME ClaimPrompt PROVE MailStep
  BY <1>21, <1>33, <1>36 DEF ClaimPrompt
<1>3. ASSUME Assemble PROVE MailStep
  BY <1>3, <1>31 DEF Assemble
<1>4. ASSUME DecidePreStep PROVE MailStep
  <2>1. pc = "preStep" /\ UNCHANGED <<inbox, phase, abort>> /\ pc' \in {"thrown", "decided"}
    BY <1>4 DEF DecidePreStep
  <2>2. CASE UNCHANGED <<batch, fate>>
    BY <2>1, <2>2, <1>31
  <2>3. CASE \E kept \in SUBSET batch : batch' = kept /\ fate' = Mark(batch \ kept, "dropped")
    <3>1. PICK kept \in SUBSET batch : batch' = kept /\ fate' = Mark(batch \ kept, "dropped")
      BY <2>3
    <3>2. Drops(kept)
      BY <1>0, <2>1, <3>1, BusyAtPoint DEF Drops, RestPoints, Free
    <3> QED
      BY <3>2 DEF MailStep
  <2> QED
    BY <1>4, <2>2, <2>3 DEF DecidePreStep
<1>5. ASSUME EnterStep PROVE MailStep
  <2>1. pc = "decided" /\ UNCHANGED activity
    BY <1>5 DEF EnterStep
  <2>2. CASE \E e \in Ending : LeaveTurn(e)
    BY <1>35, <2>1, <2>2 DEF RestPoints
  <2>3. CASE CatchTurn
    BY <1>34, <2>1, <2>3 DEF RestPoints
  <2>4. CASE UNCHANGED <<mail, batch>> /\ pc' \in {"turnClosed", "stepOpened"}
    BY <1>31, <2>1, <2>4
  <2> QED
    BY <1>5, <2>2, <2>3, <2>4 DEF EnterStep, CloseTurn, Ending
<1>6. ASSUME BeginStep PROVE MailStep
  BY <1>6, <1>31 DEF BeginStep
<1>7. ASSUME PrepareRequest PROVE MailStep
  <2>1. CASE pc' = "thrown"
    BY <1>7, <1>31, <2>1 DEF PrepareRequest
  <2>2. CASE ~Aborted /\ pc' = "admitting"
    <3>1. BeginsAdmission
      BY <1>0, <1>7, <2>2, BusyAtPoint DEF PrepareRequest, BeginsAdmission, RestPoints
    <3> QED
      BY <3>1 DEF MailStep
  <2> QED
    BY <1>7, <2>1, <2>2 DEF PrepareRequest
<1>71. ASSUME NEW m \in batch, AdmitMessage(m) PROVE MailStep
  <2>1. Admits(m)
    BY <1>0, <1>71, BusyAtPoint DEF AdmitMessage, Admits, RestPoints
  <2> QED
    BY <2>1 DEF MailStep
<1>8. ASSUME BuildRequest PROVE MailStep
  <2>1. EndsAdmission
    BY <1>8, BusyAtPoint DEF BuildRequest, EndsAdmission
  <2> QED
    BY <2>1 DEF MailStep
<1>9. ASSUME Stream PROVE MailStep
  BY <1>9, <1>31 DEF Stream
<1>10. ASSUME RecoverRequest PROVE MailStep
  BY <1>10, <1>31 DEF RecoverRequest
<1>11. ASSUME SettleTools PROVE MailStep
  BY <1>11, <1>31 DEF SettleTools
<1>12. ASSUME CloseStep PROVE MailStep
  BY <1>12, <1>31 DEF CloseStep
<1>13. ASSUME AfterStep PROVE MailStep
  <2>1. CASE UNCHANGED <<mail, batch>> /\ pc' = "stopping"
    BY <1>13, <1>31, <2>1 DEF AfterStep
  <2> QED
    BY <1>13, <1>33, <1>34, <1>36, <2>1 DEF AfterStep, RestPoints
<1>14. ASSUME StopTurn PROVE MailStep
  <2>1. CASE UNCHANGED <<mail, batch>> /\ pc' = "turnClosed"
    BY <1>14, <1>31, <2>1 DEF StopTurn
  <2> QED
    BY <1>14, <1>33, <1>34, <1>36, <2>1 DEF StopTurn, CloseTurn, RestPoints
<1>15. ASSUME UnwindStep PROVE MailStep
  BY <1>15, <1>31 DEF UnwindStep
<1>16. ASSUME CatchFailure PROVE MailStep
  BY <1>16, <1>34 DEF CatchFailure, RestPoints
<1>17. ASSUME ReportFailure PROVE MailStep
  BY <1>17, <1>31 DEF ReportFailure
<1>18. ASSUME DrainOrStop PROVE MailStep
  <2>1. CASE FreshActivity /\ pc' = "nextTurn"
    BY <1>0, <1>18, <1>32, <2>1, BusyAtPoint DEF DrainOrStop, FreshActivity, Rests, ClaimPoints, Free
  <2>2. CASE UNCHANGED abort /\ pc' = "settled"
    BY <1>18, <1>31, <2>2 DEF DrainOrStop
  <2> QED
    BY <1>18, <2>1, <2>2 DEF DrainOrStop
<1>19. ASSUME Retire PROVE MailStep
  BY <1>0, <1>19, <1>32, BusyAtPoint DEF Retire, FreshActivity, Rests, ClaimPoints, Free
<1>20. ASSUME ReplayWake PROVE MailStep
  <2>1. CASE StartDriver(<<>>)
    BY <1>0, <1>20, <1>32, <2>1, BusyAtPoint
       DEF ReplayWake, StartDriver, FreshActivity, Rests, ClaimPoints, Free
  <2>2. CASE UNCHANGED <<phase, abort>> /\ pc' = "none"
    BY <1>20, <1>31, <2>2 DEF ReplayWake
  <2> QED
    BY <1>20, <2>1, <2>2 DEF ReplayWake
<1> QED
  BY <1>1, <1>2, <1>21, <1>3, <1>4, <1>5, <1>6, <1>7, <1>71, <1>8, <1>9, <1>10, <1>11, <1>12, <1>13,
     <1>14, <1>15, <1>16, <1>17, <1>18, <1>19, <1>20 DEF Driver

LEMMA NextMail == TypeOK /\ ControlInv /\ [Next]_vars => MailStep
<1> SUFFICES ASSUME TypeOK, ControlInv, [Next]_vars PROVE MailStep
  OBVIOUS
<1>0. /\ phase = "running" <=> pc \notin RestPoints
      /\ batch # {} => pc \in ClaimPoints
      /\ pc \in AppendPoints => stack = <<>> \/ Waiting("drive")
  BY DEF ControlInv, PhaseAtPoint, BatchAtPoint, EntryOnTop
<1>1. CASE WakeDriver
  <2>1. CASE phase = "idle"
    <3>1. StartDriver(Tail(stack)) /\ UNCHANGED <<mail, local>>
      BY <1>1, <2>1 DEF WakeDriver
    <3>2. pc \in RestPoints /\ batch = {} /\ pc' = "starting"
      BY <1>0, <2>1, <3>1 DEF StartDriver, RestPoints, ClaimPoints
    <3>3. Rests
      BY <3>1, <3>2, BusyAtPoint DEF StartDriver, FreshActivity, Rests, RestPoints, mail, local, Free
    <3> QED
      BY <3>3 DEF MailStep
  <2>2. CASE phase # "idle"
    <3>1. Quiet
      BY <1>1, <2>2, BusyAtPoint DEF WakeDriver, Quiet, Reasoned, mail, local
    <3> QED
      BY <3>1 DEF MailStep
  <2> QED
    BY <2>1, <2>2
<1>2. CASE SettleMaintenance
  <2>1. pc = "none" /\ batch = {} /\ pc' \in {"none", "starting"} /\ abort' = NoCause
        /\ UNCHANGED <<mail, local>>
    BY <1>0, <1>2 DEF SettleMaintenance, At, StartDriver, FreshActivity, ClaimPoints
  <2>2. Rests
    BY <2>1, BusyAtPoint DEF Rests, Free, mail, local
  <2> QED
    BY <2>2 DEF MailStep
<1>3. CASE UNCHANGED vars
  <2>1. Quiet
    BY <1>3, BusyAtPoint DEF vars, mail, activity, local, Quiet, Reasoned
  <2> QED
    BY <2>1 DEF MailStep
<1>4. CASE ClearPrompts
  <2>1. pc \notin AppendPoints
    BY <1>0, <1>4 DEF ClearPrompts, Waiting
  <2>2. Clears(NextTurn) /\ NextTurn \in Target
    BY <1>4, <2>1, IdleBusy DEF ClearPrompts, ClearList, Clears, activity, local, Target
  <2> QED
    BY <2>2 DEF MailStep
<1>5. CASE FinishCancel
  <2>1. Head(stack).cause \in Cause \/ Head(stack).cause = NoCause
    <3>1. stack # <<>> /\ stack \in Seq(Frame)
      BY <1>5 DEF FinishCancel, Waiting, TypeOK
    <3> QED
      BY <3>1, Popped DEF Frame
  <2>2. Signal(Head(stack).cause) /\ UNCHANGED <<mail, phase, pc, local>>
    BY <1>5 DEF FinishCancel
  <2>3. Quiet
    BY <2>1, <2>2, SignalReasoned, BusyAtPoint DEF Quiet, mail, local
  <2> QED
    BY <2>3 DEF MailStep
<1> QED
  BY <1>1, <1>2, <1>3, <1>4, <1>5, DriverMail, CallersMail DEF Next, Calls

----------------------------------------------------------------------------
(* Every message is accounted for.                                         *)

LEMMA MailAccounted ==
  ASSUME TypeOK, MessagesAccounted, MailStep
  PROVE  MessagesAccounted'
<1> DEFINE Is(f) == {m \in Message : fate[m] = f}
<1>1. /\ UniquelyPending(inbox) /\ Pending(inbox) = Is("pending") /\ batch = Is("claimed")
      /\ inbox \in [Target -> Seq(Message)] /\ fate \in [Message -> Fate]
  BY DEF MessagesAccounted, TypeOK
<1> USE DEF MessagesAccounted, Mark
<1>2. CASE Quiet
  BY <1>2 DEF Quiet
<1>3. CASE Rests
  BY <1>3 DEF Rests
<1>4. ASSUME NEW t \in Target, Clears(t) PROVE MessagesAccounted'
  <2>1. /\ UniquelyPending(inbox') /\ Pending(inbox') = Pending(inbox) \ Range(inbox[t])
        /\ Range(inbox[t]) \subseteq Pending(inbox)
    BY <1>1, <1>4, ClearPending DEF Clears, Holds
  <2> QED
    BY <1>1, <1>4, <2>1 DEF Clears
<1>5. ASSUME NEW m \in batch, Admits(m) PROVE MessagesAccounted'
  BY <1>1, <1>5 DEF Admits
<1>51. CASE BeginsAdmission \/ EndsAdmission
  BY <1>51 DEF BeginsAdmission, EndsAdmission
<1>6. ASSUME NEW t \in Target, NEW m \in Message, Inserts(t, m) PROVE MessagesAccounted'
  <2>1. m \notin Pending(inbox)
    BY <1>1, <1>6 DEF Inserts
  <2>2. UniquelyPending(inbox') /\ Pending(inbox') = Pending(inbox) \cup {m}
    <3>1. Holds([inbox EXCEPT ![t] = Append(inbox[t], m)], Pending(inbox) \cup {m})
      BY <1>1, <2>1, AppendPending
    <3> QED
      BY <1>6, <3>1 DEF Inserts, Holds
  <2> QED
    BY <1>1, <1>6, <2>2 DEF Inserts
<1>7. ASSUME NEW t \in Target, NEW i \in DOMAIN inbox[t], Removes(t, i) PROVE MessagesAccounted'
  <2>1. /\ UniquelyPending(inbox') /\ Pending(inbox') = Pending(inbox) \ {inbox[t][i]}
        /\ inbox[t][i] \in Pending(inbox)
    <3>1. /\ Holds([inbox EXCEPT ![t] = Spliced(inbox[t], i - 1, 1, <<>>)],
                   Pending(inbox) \ {inbox[t][i]})
          /\ inbox[t][i] \in Pending(inbox)
      BY <1>1, RemovePending, Zenon
    <3> QED
      BY <1>7, <3>1 DEF Removes, Holds
  <2> QED
    BY <1>1, <1>7, <2>1 DEF Removes
<1>8. ASSUME NEW t \in Target, NEW m \in Message, NEW i \in DOMAIN inbox[t], Replaces(t, i, m)
      PROVE MessagesAccounted'
  <2>1. m \notin Pending(inbox)
    BY <1>1, <1>8 DEF Replaces
  <2>2. /\ UniquelyPending(inbox')
        /\ Pending(inbox') = (Pending(inbox) \ {inbox[t][i]}) \cup {m}
        /\ inbox[t][i] \in Pending(inbox)
    <3>1. /\ Holds([inbox EXCEPT ![t] = Spliced(inbox[t], i - 1, 1, <<m>>)],
                   (Pending(inbox) \ {inbox[t][i]}) \cup {m})
          /\ inbox[t][i] \in Pending(inbox)
      BY <1>1, <2>1, ReplacePending, Zenon
    <3> QED
      BY <1>8, <3>1 DEF Replaces, Holds
  <2> DEFINE old == inbox[t][i]
  <2>3. \A k \in Message : fate'[k] = IF k = m THEN "pending" ELSE IF k = old THEN "canceled" ELSE fate[k]
    BY <1>8 DEF Replaces, Mark, TypeOK
  <2>4. fate[m] = "unsent" /\ fate[old] = "pending" /\ batch' = batch
    BY <1>1, <1>8, <2>2 DEF Replaces
  <2> HIDE DEF old, Mark
  <2>5. batch' = {k \in Message : fate'[k] = "claimed"}
    BY <1>1, <2>3, <2>4
  <2>6. Pending(inbox') = {k \in Message : fate'[k] = "pending"}
    BY <1>1, <2>2, <2>3 DEF old
  <2> QED
    BY <2>2, <2>5, <2>6
<1>9. ASSUME NEW t \in Target, Claims(t) PROVE MessagesAccounted'
  <2>1. /\ UniquelyPending(inbox')
        /\ Pending(inbox') = Pending(inbox) \ ClaimedBatch(inbox, t)
        /\ ClaimedBatch(inbox, t) \subseteq Pending(inbox)
    BY <1>1, <1>9, ClaimPending DEF Claims
  <2> QED
    BY <1>1, <1>9, <2>1 DEF Claims
<1>10. ASSUME NEW kept \in SUBSET batch, Drops(kept) PROVE MessagesAccounted'
  BY <1>1, <1>10 DEF Drops
<1> QED
  BY <1>2, <1>3, <1>4, <1>5, <1>51, <1>6, <1>7, <1>8, <1>9, <1>10 DEF MailStep

LEMMA InitAccounted == Init => MessagesAccounted
  BY EmptyPending DEF Init, MessagesAccounted

\* Each message sent is pending in one list and once, or held by the step being
\* proposed, or finished with, whatever callers and aborts did meanwhile.
THEOREM AccountingCorrect == Spec => []MessagesAccounted
<1>1. TypeOK /\ ControlInv /\ MessagesAccounted /\ [Next]_vars => MessagesAccounted'
  BY NextMail, MailAccounted
<1> QED
  BY <1>1, Inductive, InitAccounted, PTL DEF Spec

----------------------------------------------------------------------------
(* The driver implements MessageDelivery.                                  *)

LEMMA MailRefines ==
  ASSUME TypeOK, MessagesAccounted, MailStep, ControlInv, TypeOK'
  PROVE  [Delivery!Next]_(Delivery!vars)
<1> DEFINE Is(f) == {m \in Message : fate[m] = f}
           lost == {m \in Message : fate[m] \in {"canceled", "dropped"}}
<1>1. /\ UniquelyPending(inbox) /\ Pending(inbox) = Is("pending") /\ batch = Is("claimed")
      /\ inbox \in [Target -> Seq(Message)] /\ fate \in [Message -> Fate]
  BY DEF MessagesAccounted, TypeOK
<1> USE DEF Delivery!vars, Mark, Reasoned
<1>2. CASE Quiet
  <2>1. CASE UNCHANGED abort
    BY <1>2, <2>1 DEF Quiet, Aborted
  <2>2. CASE Aborted'
    <3>1. Delivery!Cancel
      BY <1>2, <2>2 DEF Quiet, Delivery!Cancel
    <3> QED
      BY <3>1 DEF Delivery!Next
  <2> QED
    BY <1>2, <2>1, <2>2 DEF Quiet
<1>3. CASE Rests
  <2>1. Delivery!Change
    BY <1>3 DEF Rests, Delivery!Change, Aborted, Free
  <2> QED
    BY <2>1 DEF Delivery!Next
<1>4. ASSUME NEW t \in Target, Clears(t) PROVE Delivery!Next
  <2>1. PICK S \in SUBSET Pending(inbox) : S = Range(inbox[t]) /\ Pending(inbox') = Pending(inbox) \ S
    BY <1>1, <1>4, ClearPending DEF Clears, Holds
  <2>2. Delivery!Withdraw(S)
    BY <1>1, <1>4, <2>1 DEF Clears, Delivery!Withdraw, Aborted, Free
  <2> QED
    BY <2>2 DEF Delivery!Next
<1>5. ASSUME NEW m \in batch, Admits(m) PROVE Delivery!Next
  <2>1. Delivery!Admit(m)
    BY <1>1, <1>5 DEF Admits, Delivery!Admit, Aborted
  <2> QED
    BY <2>1 DEF Delivery!Next
<1>51. CASE BeginsAdmission
  <2>1. Delivery!BeginAdmission
    BY <1>51 DEF BeginsAdmission, Delivery!BeginAdmission, Aborted
  <2> QED
    BY <2>1 DEF Delivery!Next
<1>52. CASE EndsAdmission
  <2>1. Delivery!EndAdmission
    BY <1>52 DEF EndsAdmission, Delivery!EndAdmission, Aborted
  <2> QED
    BY <2>1 DEF Delivery!Next
<1>6. ASSUME NEW t \in Target, NEW m \in Message, Inserts(t, m) PROVE Delivery!Next
  <2>1. m \notin Pending(inbox)
    BY <1>1, <1>6 DEF Inserts
  <2>2. Pending(inbox') = Pending(inbox) \cup {m}
    <3>1. Holds([inbox EXCEPT ![t] = Append(inbox[t], m)], Pending(inbox) \cup {m})
      BY <1>1, <2>1, AppendPending
    <3> QED
      BY <1>6, <3>1 DEF Inserts, Holds
  <2>3. Delivery!Accept(m)
    BY <1>1, <1>6, <2>2 DEF Inserts, Delivery!Accept, Delivery!Known, Aborted, Free
  <2> QED
    BY <2>3 DEF Delivery!Next
<1>7. ASSUME NEW t \in Target, NEW i \in DOMAIN inbox[t], Removes(t, i) PROVE Delivery!Next
  <2>1. /\ Pending(inbox') = Pending(inbox) \ {inbox[t][i]}
        /\ inbox[t][i] \in Pending(inbox)
    <3>1. /\ Holds([inbox EXCEPT ![t] = Spliced(inbox[t], i - 1, 1, <<>>)],
                   Pending(inbox) \ {inbox[t][i]})
          /\ inbox[t][i] \in Pending(inbox)
      BY <1>1, RemovePending, Zenon
    <3> QED
      BY <1>7, <3>1 DEF Removes, Holds
  <2>2. PICK S \in SUBSET Pending(inbox) : S = {inbox[t][i]}
    BY <2>1
  <2>3. Delivery!Withdraw(S)
    BY <1>1, <1>7, <2>1, <2>2 DEF Removes, Delivery!Withdraw, Aborted, Free
  <2> QED
    BY <2>3 DEF Delivery!Next
<1>8. ASSUME NEW t \in Target, NEW m \in Message, NEW i \in DOMAIN inbox[t], Replaces(t, i, m)
      PROVE Delivery!Next
  <2> DEFINE old == inbox[t][i]
  <2>1. m \notin Pending(inbox)
    BY <1>1, <1>8 DEF Replaces
  <2>2. /\ Pending(inbox') = (Pending(inbox) \ {inbox[t][i]}) \cup {m}
        /\ inbox[t][i] \in Pending(inbox)
    <3>1. /\ Holds([inbox EXCEPT ![t] = Spliced(inbox[t], i - 1, 1, <<m>>)],
                   (Pending(inbox) \ {inbox[t][i]}) \cup {m})
          /\ inbox[t][i] \in Pending(inbox)
      BY <1>1, <2>1, ReplacePending, Zenon
    <3> QED
      BY <1>8, <3>1 DEF Replaces, Holds
  <2>3. Delivery!Exchange(inbox[t][i], m)
    <3>1. old \in Pending(inbox) /\ old # m /\ m \notin batch
      BY <1>1, <1>8, <2>1, <2>2 DEF Replaces
    <3>2. m \notin Is("admitted") /\ m \notin lost
      BY <1>8 DEF Replaces
    <3>3. Is("admitted")' = Is("admitted") /\ lost' = lost \cup {old}
      BY <1>1, <1>8, <3>1 DEF Replaces
    <3>4. UNCHANGED <<phase, abort, batch>> /\ Free
      BY <1>8 DEF Replaces
    <3> QED
      BY <2>1, <2>2, <3>1, <3>2, <3>3, <3>4 DEF Delivery!Exchange, Delivery!Known, Aborted, Free
  <2> QED
    BY <1>1, <2>2, <2>3 DEF Delivery!Next
<1>9. ASSUME NEW t \in Target, Claims(t) PROVE Delivery!Next
  <2>1. /\ Pending(inbox') = Pending(inbox) \ ClaimedBatch(inbox, t)
        /\ ClaimedBatch(inbox, t) \subseteq Pending(inbox)
    BY <1>1, <1>9, ClaimPending DEF Claims
  <2>2. Delivery!Take(ClaimedBatch(inbox, t)) \/ Delivery!TakeRest(ClaimedBatch(inbox, t))
    BY <1>1, <1>9, <2>1 DEF Claims, Delivery!Take, Delivery!TakeRest, Aborted
  <2> QED
    BY <2>1, <2>2 DEF Delivery!Next
<1>10. ASSUME NEW kept \in SUBSET batch, Drops(kept) PROVE Delivery!Next
  <2>1. PICK S \in SUBSET batch : S = batch \ kept
    OBVIOUS
  <2>2. Delivery!GiveUp(S)
    BY <1>1, <1>10, <2>1 DEF Drops, Delivery!GiveUp, Aborted, Free
  <2> QED
    BY <2>2 DEF Delivery!Next
<1> QED
  BY <1>2, <1>3, <1>4, <1>5, <1>51, <1>52, <1>6, <1>7, <1>8, <1>9, <1>10 DEF MailStep

LEMMA InitRefines == Init => Delivery!Init
  BY EmptyPending DEF Init, Delivery!Init, Aborted, Busy

\* The driver keeps the promise of MessageDelivery: its initial states are initial
\* states of the promise, and each of its steps is a step of it or a stutter.
THEOREM DeliveryRefined == Spec => DeliveryKept
<1>1. TypeOK /\ ControlInv /\ MessagesAccounted /\ [Next]_vars => [Delivery!Next]_(Delivery!vars)
  BY NextMail, MailRefines, NextTypeOK DEF ControlInv
<1> QED
  BY <1>1, Inductive, AccountingCorrect, InitRefines, PTL DEF Spec, DeliveryKept, Delivery!Spec

-----------------------------------------------------------------------------
(***************************************************************************)
(* Theorems about cancellation: what a step of the driver may never do     *)
(* once the signal of its activity is aborted.                             *)
(***************************************************************************)

\* Neither boundary opens, no claim or admission begins and the model is not called.
NothingOpens ==
  /\ (turnOpen' => turnOpen) /\ (stepOpen' => stepOpen)
  /\ pc' \in {"stream", "claiming", "admitting"} => pc' = pc

\* The reason is kept, or the activity is over.
ReasonKept ==
  abort' = abort \/ (abort' = NoCause /\ pc' \in {"none", "idleStatus", "nextTurn", "starting"})

\* Messages already in hand may leave it; any that enter it or are admitted are
\* the rest of a claim or an admission under way.
NothingTaken ==
  \A m \in Message :
    fate'[m] \in {"claimed", "admitted"} /\ fate'[m] # fate[m] => pc \in {"claiming", "admitting"}

LEMMA AbortedMail ==
  ASSUME TypeOK, MailStep, Aborted
  PROVE  NothingTaken
<1> USE DEF NothingTaken, Mark, TypeOK
<1>1. CASE Quiet \/ Rests \/ BeginsAdmission \/ EndsAdmission
  BY <1>1 DEF Quiet, Rests, BeginsAdmission, EndsAdmission
<1>2. ASSUME NEW t \in Target, Clears(t) PROVE NothingTaken
  BY <1>2 DEF Clears
<1>3. ASSUME NEW m \in batch, Admits(m) PROVE NothingTaken
  BY <1>3, BusyAtPoint DEF Admits
<1>4. ASSUME NEW t \in Target, NEW m \in Message, Inserts(t, m) PROVE NothingTaken
  BY <1>4 DEF Inserts
<1>5. ASSUME NEW t \in Target, NEW i \in DOMAIN inbox[t], Removes(t, i) PROVE NothingTaken
  BY <1>5 DEF Removes
<1>6. ASSUME NEW t \in Target, NEW m \in Message, NEW i \in DOMAIN inbox[t], Replaces(t, i, m)
      PROVE NothingTaken
  BY <1>6 DEF Replaces
<1>7. ASSUME NEW t \in Target, Claims(t) PROVE NothingTaken
  BY <1>7, BusyAtPoint DEF Claims
<1>8. ASSUME NEW kept \in SUBSET batch, Drops(kept) PROVE NothingTaken
  BY <1>8 DEF Drops
<1> QED
  BY <1>1, <1>2, <1>3, <1>4, <1>5, <1>6, <1>7, <1>8 DEF MailStep

LEMMA CallersAborted ==
  ASSUME TypeOK, ControlInv, Callers, Aborted
  PROVE  NothingOpens /\ ReasonKept
<1> USE DEF NothingOpens, ReasonKept, activity, local, log, calls, mail
<1>1. ASSUME NEW m \in Message, NEW t \in Target, NEW w \in BOOLEAN, Send(m, t, w)
      PROVE NothingOpens /\ ReasonKept
  BY <1>1 DEF Send
<1>2. ASSUME NEW c \in Cause, NEW keep \in BOOLEAN, Cancel(c, keep)
      PROVE NothingOpens /\ ReasonKept
  BY <1>2 DEF Cancel, Signal, FirstCause, ClearList
<1>3. ASSUME NEW t \in Target, NEW i \in DOMAIN inbox[t], Remove(t, i)
      PROVE NothingOpens /\ ReasonKept
  BY <1>3 DEF Remove
<1>4. ASSUME NEW t \in Target, NEW m \in Message, NEW i \in DOMAIN inbox[t], Replace(t, i, m)
      PROVE NothingOpens /\ ReasonKept
  BY <1>4 DEF Replace
<1>5. ASSUME StartMaintenance PROVE NothingOpens /\ ReasonKept
  BY <1>5 DEF StartMaintenance, ControlInv, AbortInActivity
<1>6. ASSUME NEW m \in Message, AcceptContext(m) PROVE NothingOpens /\ ReasonKept
  BY <1>6 DEF AcceptContext
<1> QED
  BY <1>1, <1>2, <1>3, <1>4, <1>5, <1>6 DEF Callers

LEMMA DriverAborted ==
  ASSUME TypeOK, ControlInv, Driver, Aborted
  PROVE  NothingOpens /\ ReasonKept
<1> DEFINE Held == NothingOpens /\ ReasonKept
<1> USE DEF NothingOpens, ReasonKept, activity, local, log, calls, mail, At, Entering
<1>1. ASSUME OpenTurn \/ ClaimFirst \/ Assemble \/ DecidePreStep \/ BeginStep PROVE Held
  BY <1>1 DEF OpenTurn, ClaimFirst, CatchTurn, Assemble, DecidePreStep, BeginStep
<1>2. ASSUME EnterStep PROVE Held
  BY <1>2 DEF EnterStep, LeaveTurn, CloseTurn, CatchTurn
<1>3. ASSUME PrepareRequest \/ BuildRequest \/ Stream \/ RecoverRequest \/ SettleTools PROVE Held
  BY <1>3 DEF PrepareRequest, BuildRequest, Stream, RecoverRequest, SettleTools
<1>4. ASSUME CloseStep \/ UnwindStep \/ ReportFailure PROVE Held
  BY <1>4 DEF CloseStep, UnwindStep, ReportFailure
<1>5. ASSUME AfterStep \/ StopTurn \/ CatchFailure PROVE Held
  BY <1>5 DEF AfterStep, StopTurn, CatchFailure, CatchTurn
<1>6. ASSUME DrainOrStop \/ Retire PROVE Held
  BY <1>6 DEF DrainOrStop, Retire, FreshActivity
<1>7. ASSUME ReplayWake PROVE Held
  BY <1>7 DEF ReplayWake, StartDriver, FreshActivity
<1>8. ASSUME ClaimPrompt PROVE Held
  BY <1>8 DEF ClaimPrompt, ClaimFor
<1>9. ASSUME NEW m \in batch, AdmitMessage(m) PROVE Held
  BY <1>9 DEF AdmitMessage
<1> QED
  BY <1>1, <1>2, <1>3, <1>4, <1>5, <1>6, <1>7, <1>8, <1>9 DEF Driver

LEMMA NextAborted ==
  ASSUME TypeOK, ControlInv, [Next]_vars, Aborted
  PROVE  NothingOpens /\ ReasonKept
<1> USE DEF NothingOpens, ReasonKept, activity, local, log, calls, mail
<1>1. CASE WakeDriver
  BY <1>1 DEF WakeDriver, StartDriver, FreshActivity
<1>2. CASE SettleMaintenance
  BY <1>2 DEF SettleMaintenance, At, StartDriver, FreshActivity
<1>3. CASE UNCHANGED vars
  BY <1>3 DEF vars
<1>4. CASE ClearPrompts \/ FinishCancel
  BY <1>4 DEF ClearPrompts, FinishCancel, ClearList, Signal, FirstCause
<1> QED
  BY <1>1, <1>2, <1>3, <1>4, CallersAborted, DriverAborted DEF Next, Calls

\* The reason an activity was first cancelled for is the one its turn reports:
\* later cancels, sends and wakes leave it until the activity is over.
THEOREM CauseCorrect == Spec => FirstCauseWins
<1>1. TypeOK /\ ControlInv /\ [Next]_vars
        => [Aborted /\ abort' # abort =>
              abort' = NoCause /\ pc' \in {"none", "idleStatus", "nextTurn", "starting"}]_vars
  BY NextAborted DEF ReasonKept
<1> QED
  BY <1>1, Inductive, PTL DEF Spec, FirstCauseWins

\* Under an aborted signal the driver opens nothing, begins no claim and no
\* admission and calls no model, at whichever await, append or listener the abort
\* arrived; only what it had begun with messages it finishes.
THEOREM AbortCorrect == Spec => AbortStopsWork
<1>1. TypeOK /\ ControlInv /\ [Next]_vars
        => [Aborted =>
              /\ turnOpen' => turnOpen
              /\ stepOpen' => stepOpen
              /\ pc' \in {"stream", "claiming", "admitting"} => pc' = pc
              /\ \A m \in Message :
                   fate'[m] \in {"claimed", "admitted"} /\ fate'[m] # fate[m] =>
                     pc \in {"claiming", "admitting"}]_vars
  BY NextAborted, NextMail, AbortedMail DEF NothingOpens, NothingTaken
<1> QED
  BY <1>1, Inductive, PTL DEF Spec, AbortStopsWork

=============================================================================
