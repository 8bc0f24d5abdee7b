--------------------------- MODULE InboxLogProofs ---------------------------
(***************************************************************************)
(* The inbox alone, for any messages and any integer coordinates: its log  *)
(* replays to the live lists, and its notices account for every message.   *)
(***************************************************************************)
EXTENDS InboxLog, FiniteSetTheorems, SequenceTheorems, NaturalsInduction, WellFoundedInduction, TLAPS

\* What a log of splices comes to: the boxes after each of them, up to the last one.
Rebuilds(events, box) ==
  \E f : /\ f = [k \in 0..Len(events) |-> IF k = 0 THEN EmptyInbox ELSE Apply(f[k - 1], events[k])]
         /\ f[Len(events)] = box

Kinds == {"inserted", "discarded", "claimed"}
Item  == {Notice(kind, m) : kind \in Kinds, m \in Message} \cup {ClearTurns}

Event == [target : Target, start : Nat, removedCount : Nat, inserted : Seq(Message),
          outcome : {"canceled", "none"}]

Types ==
  /\ lists \in [Target -> Seq(Message)] /\ log \in Seq(Event) /\ stack \in Seq(Item)
  /\ open \in BOOLEAN /\ heard \in [Message -> Int]

IInv == Types /\ UniquelyPending(lists) /\ Rebuilds(log, lists) /\ NoticesOwed
----------------------------------------------------------------------------
(* Sequences: what a concatenation holds, and each element once.           *)

LEMMA Concat ==
  ASSUME NEW S, NEW s \in Seq(S), NEW t \in Seq(S)
  PROVE  /\ Range(s \o t) = Range(s) \cup Range(t)
         /\ IsInjective(s \o t) <=> /\ IsInjective(s) /\ IsInjective(t)
                                    /\ Range(s) \cap Range(t) = {}
<1> DEFINE q == s \o t
<1>1. /\ Len(s) \in Nat /\ Len(t) \in Nat /\ DOMAIN s = 1..Len(s) /\ DOMAIN t = 1..Len(t)
      /\ DOMAIN q = 1..(Len(s) + Len(t))
      /\ \A i \in 1..(Len(s) + Len(t)) : q[i] = IF i <= Len(s) THEN s[i] ELSE t[i - Len(s)]
  OBVIOUS
<1> HIDE DEF q
<1>2. \A i \in DOMAIN s : i \in DOMAIN q /\ q[i] = s[i]
  BY <1>1
<1>3. ASSUME NEW i \in DOMAIN t PROVE i + Len(s) \in DOMAIN q /\ q[i + Len(s)] = t[i]
  <2>1. i + Len(s) \in 1..(Len(s) + Len(t)) /\ ~(i + Len(s) <= Len(s)) /\ (i + Len(s)) - Len(s) = i
    BY <1>1, <1>3
  <2> QED BY <1>1, <2>1
<1>4. Range(q) = Range(s) \cup Range(t)
  <2>1. ASSUME NEW x \in Range(q) PROVE x \in Range(s) \cup Range(t)
    <3>1. PICK i \in 1..(Len(s) + Len(t)) : x = q[i]
      BY <1>1, <2>1 DEF Range
    <3>2. CASE i <= Len(s)
      <4>1. i \in DOMAIN s /\ x = s[i]
        BY <1>1, <3>1, <3>2
      <4> QED BY <4>1 DEF Range
    <3>3. CASE ~(i <= Len(s))
      <4>1. i - Len(s) \in DOMAIN t /\ x = t[i - Len(s)]
        BY <1>1, <3>1, <3>3
      <4> QED BY <4>1 DEF Range
    <3> QED BY <3>2, <3>3
  <2>2. ASSUME NEW x \in Range(s) PROVE x \in Range(q)
    BY <1>2, <2>2 DEF Range
  <2>3. ASSUME NEW x \in Range(t) PROVE x \in Range(q)
    BY <1>3, <2>3 DEF Range
  <2> QED BY <2>1, <2>2, <2>3
<1>5. ASSUME IsInjective(q) PROVE IsInjective(s) /\ IsInjective(t) /\ Range(s) \cap Range(t) = {}
  <2>1. IsInjective(s)
    BY <1>2, <1>5 DEF IsInjective
  <2>2. ASSUME NEW a \in DOMAIN t, NEW b \in DOMAIN t, t[a] = t[b] PROVE a = b
    <3>1. a + Len(s) = b + Len(s)
      BY <1>3, <1>5, <2>2 DEF IsInjective
    <3> QED BY <1>1, <3>1
  <2>3. ASSUME NEW x \in Range(s), x \in Range(t) PROVE FALSE
    <3>1. PICK a \in DOMAIN s : s[a] = x
      BY <2>3 DEF Range
    <3>2. PICK b \in DOMAIN t : t[b] = x
      BY <2>3 DEF Range
    <3>3. a = b + Len(s)
      BY <1>2, <1>3, <1>5, <3>1, <3>2 DEF IsInjective
    <3> QED BY <1>1, <3>1, <3>2, <3>3
  <2> QED BY <2>1, <2>2, <2>3 DEF IsInjective
<1>6. ASSUME IsInjective(s), IsInjective(t), Range(s) \cap Range(t) = {},
             NEW i \in DOMAIN q, NEW j \in DOMAIN q, q[i] = q[j]
      PROVE  i = j
  <2>1. \A k \in DOMAIN q : \/ k <= Len(s) /\ k \in DOMAIN s /\ q[k] = s[k]
                            \/ ~(k <= Len(s)) /\ k - Len(s) \in DOMAIN t /\ q[k] = t[k - Len(s)]
    <3> TAKE k \in DOMAIN q
    <3>0. k \in 1..(Len(s) + Len(t))
      BY <1>1
    <3>1. CASE k <= Len(s)
      <4>1. k \in DOMAIN s /\ q[k] = s[k]
        BY <1>1, <3>0, <3>1
      <4> QED BY <3>1, <4>1
    <3>2. CASE ~(k <= Len(s))
      <4>1. k - Len(s) \in DOMAIN t /\ q[k] = t[k - Len(s)]
        BY <1>1, <3>0, <3>2
      <4> QED BY <3>2, <4>1
    <3> QED BY <3>1, <3>2
  <2>2. \A x \in DOMAIN s, y \in DOMAIN t : s[x] # t[y]
    BY <1>6 DEF Range
  <2>3. CASE i <= Len(s) /\ j <= Len(s)
    BY <1>6, <2>1, <2>3 DEF IsInjective
  <2>4. CASE ~(i <= Len(s)) /\ ~(j <= Len(s))
    <3>1. i - Len(s) = j - Len(s)
      BY <1>6, <2>1, <2>4 DEF IsInjective
    <3>2. i \in Int /\ j \in Int
      BY <1>1
    <3> QED BY <1>1, <3>1, <3>2
  <2> QED BY <1>6, <2>1, <2>2, <2>3, <2>4
<1>7. IsInjective(s) /\ IsInjective(t) /\ Range(s) \cap Range(t) = {} => IsInjective(q)
  BY <1>6 DEF IsInjective
<1> QED BY <1>4, <1>5, <1>7 DEF q

\* A list is what comes before a position, count elements from it, and what follows them.
LEMMA Cut ==
  ASSUME NEW S, NEW s \in Seq(S), NEW a \in Nat, NEW c \in Nat, a + c <= Len(s)
  PROVE  /\ SubSeq(s, 1, a) \in Seq(S) /\ SubSeq(s, a + 1, a + c) \in Seq(S)
         /\ SubSeq(s, a + c + 1, Len(s)) \in Seq(S)
         /\ Len(SubSeq(s, a + 1, a + c)) = c
         /\ s = (SubSeq(s, 1, a) \o SubSeq(s, a + 1, a + c)) \o SubSeq(s, a + c + 1, Len(s))
<1> DEFINE l == SubSeq(s, 1, a)
           o == SubSeq(s, a + 1, a + c)
           r == SubSeq(s, a + c + 1, Len(s))
<1>1. Len(s) \in Nat /\ \A k \in 1..Len(s) : s[k] \in S
  OBVIOUS
<1>2. /\ l \in Seq(S) /\ Len(l) = a /\ \A k \in 1..a : l[k] = s[k]
  BY <1>1
<1>3. /\ o \in Seq(S) /\ Len(o) = c /\ \A k \in 1..c : o[k] = s[a + k]
  <2>1. \A k \in (a + 1)..(a + c) : s[k] \in S
    BY <1>1
  <2>2. /\ o \in Seq(S) /\ Len(o) = (IF a + 1 <= a + c THEN (a + c) - (a + 1) + 1 ELSE 0)
        /\ \A k \in 1..((a + c) - (a + 1) + 1) : o[k] = s[(a + 1) + k - 1]
    BY <2>1, a + 1 \in Int, a + c \in Int, SubSeqProperties
  <2> HIDE DEF o
  <2>3. \A k \in 1..c : o[k] = s[a + k]
    BY <2>2
  <2> QED BY <2>2, <2>3
<1>4. /\ r \in Seq(S) /\ Len(r) = Len(s) - (a + c) /\ \A k \in 1..(Len(s) - (a + c)) : r[k] = s[(a + c) + k]
  <2>1. \A k \in (a + c + 1)..Len(s) : s[k] \in S
    BY <1>1
  <2>2. /\ r \in Seq(S) /\ Len(r) = (IF a + c + 1 <= Len(s) THEN Len(s) - (a + c + 1) + 1 ELSE 0)
        /\ \A k \in 1..(Len(s) - (a + c + 1) + 1) : r[k] = s[(a + c + 1) + k - 1]
    BY <1>1, <2>1, a + c + 1 \in Int, SubSeqProperties
  <2> HIDE DEF r
  <2>3. \A k \in 1..(Len(s) - (a + c)) : r[k] = s[(a + c) + k]
    BY <1>1, <2>2
  <2> QED BY <1>1, <2>2, <2>3
<1> HIDE DEF l, o, r
<1>5. /\ l \o o \in Seq(S) /\ Len(l \o o) = a + c
      /\ \A k \in 1..(a + c) : (l \o o)[k] = s[k]
  <2>1. /\ l \o o \in Seq(S) /\ Len(l \o o) = a + c
        /\ \A k \in 1..(a + c) : (l \o o)[k] = IF k <= a THEN l[k] ELSE o[k - a]
    BY <1>2, <1>3, ConcatProperties
  <2>2. ASSUME NEW k \in 1..(a + c), ~(k <= a) PROVE o[k - a] = s[k]
    <3>1. k - a \in 1..c /\ a + (k - a) = k
      BY <2>2
    <3> QED BY <1>3, <3>1
  <2>3. ASSUME NEW k \in 1..(a + c) PROVE (l \o o)[k] = s[k]
    <3>1. k <= a => l[k] = s[k]
      BY <1>2
    <3> QED BY <2>1, <2>2, <3>1
  <2> QED BY <2>1, <2>3
<1> DEFINE b == l \o o
<1> HIDE DEF b
<1>6. /\ b \o r \in Seq(S) /\ Len(b \o r) = Len(s)
      /\ \A k \in 1..Len(s) : (b \o r)[k] = s[k]
  <2>0. b \in Seq(S) /\ Len(b) = a + c /\ \A k \in 1..(a + c) : b[k] = s[k]
    BY <1>5 DEF b
  <2>1. /\ b \o r \in Seq(S) /\ Len(b \o r) = Len(b) + Len(r)
        /\ \A k \in 1..(Len(b) + Len(r)) : (b \o r)[k] = IF k <= Len(b) THEN b[k] ELSE r[k - Len(b)]
    BY <1>4, <2>0, ConcatProperties
  <2>2. Len(b) + Len(r) = Len(s)
    BY <1>1, <1>4, <2>0
  <2>3. ASSUME NEW k \in 1..Len(s) PROVE (b \o r)[k] = s[k]
    <3>1. CASE k <= a + c
      BY <2>0, <2>1, <2>2, <3>1
    <3>2. CASE ~(k <= a + c)
      <4>1. k - (a + c) \in 1..(Len(s) - (a + c)) /\ (a + c) + (k - (a + c)) = k
        BY <1>1, <3>2
      <4> QED BY <1>4, <2>0, <2>1, <2>2, <3>2, <4>1
    <3> QED BY <3>1, <3>2
  <2> QED BY <2>1, <2>2, <2>3
<1>7. s = b \o r
  <2>1. Len(s) = Len(b \o r) /\ \A k \in 1..Len(s) : s[k] = (b \o r)[k]
    BY <1>6
  <2> QED BY <1>6, <2>1, SeqEqual
<1> QED BY <1>2, <1>3, <1>4, <1>7 DEF l, o, r, b

\* What a splice does to the elements of a list.
LEMMA SpliceElements ==
  ASSUME NEW S, NEW s \in Seq(S), NEW ins \in Seq(S), NEW a \in Nat, NEW c \in Nat, a + c <= Len(s),
         IsInjective(s), IsInjective(Spliced(s, a, c, ins))
  PROVE  LET q == Spliced(s, a, c, ins)
             o == SubSeq(s, a + 1, a + c)
         IN /\ q \in Seq(S) /\ o \in Seq(S) /\ IsInjective(ins) /\ IsInjective(o)
            /\ Range(o) \subseteq Range(s)
            /\ Range(q) = (Range(s) \ Range(o)) \cup Range(ins)
            /\ Range(ins) \cap (Range(s) \ Range(o)) = {}
<1> DEFINE l == SubSeq(s, 1, a)
           o == SubSeq(s, a + 1, a + c)
           r == SubSeq(s, a + c + 1, Len(s))
<1>1. /\ l \in Seq(S) /\ o \in Seq(S) /\ r \in Seq(S) /\ s = (l \o o) \o r
  BY Cut, ZenonT(60)
<1>2. Spliced(s, a, c, ins) = (l \o ins) \o r
  BY DEF Spliced
<1> HIDE DEF l, o, r
<1>3. l \o o \in Seq(S) /\ l \o ins \in Seq(S) /\ (l \o ins) \o r \in Seq(S)
  BY <1>1
<1>4. /\ Range(s) = Range(l \o o) \cup Range(r) /\ IsInjective(l \o o)
      /\ Range(l \o o) \cap Range(r) = {}
  <2> DEFINE p == l \o o
  <2>1. p \in Seq(S) /\ s = p \o r /\ IsInjective(p \o r)
    BY <1>1, <1>3
  <2> HIDE DEF p
  <2>2. Range(p \o r) = Range(p) \cup Range(r) /\ IsInjective(p) /\ Range(p) \cap Range(r) = {}
    BY <1>1, <2>1, Concat
  <2> QED BY <2>1, <2>2 DEF p
<1>5. /\ Range(l \o o) = Range(l) \cup Range(o) /\ IsInjective(o) /\ Range(l) \cap Range(o) = {}
  BY <1>1, <1>4, Concat
<1>6. /\ Range((l \o ins) \o r) = Range(l \o ins) \cup Range(r) /\ IsInjective(l \o ins)
      /\ Range(l \o ins) \cap Range(r) = {}
  <2> DEFINE p == l \o ins
  <2>1. p \in Seq(S) /\ IsInjective(p \o r)
    BY <1>2, <1>3
  <2> HIDE DEF p
  <2>2. Range(p \o r) = Range(p) \cup Range(r) /\ IsInjective(p) /\ Range(p) \cap Range(r) = {}
    BY <1>1, <2>1, Concat
  <2> QED BY <2>2 DEF p
<1>7. /\ Range(l \o ins) = Range(l) \cup Range(ins) /\ IsInjective(ins) /\ Range(l) \cap Range(ins) = {}
  BY <1>1, <1>6, Concat
<1>8. Range(s) \ Range(o) = Range(l) \cup Range(r)
  BY <1>4, <1>5
<1> QED BY <1>1, <1>2, <1>3, <1>4, <1>5, <1>6, <1>7, <1>8 DEF o

----------------------------------------------------------------------------
(* The replay of the log.                                                  *)

LEMMA SetInduction ==
  ASSUME NEW S, 0 \in S, \A n \in Nat : n \in S => n + 1 \in S
  PROVE  \A n \in Nat : n \in S
<1> SUFFICES ASSUME NEW m \in Nat, m \notin S PROVE FALSE
  OBVIOUS
<1> DEFINE T == {n \in Nat : n \notin S}
<1>1. \E x \in T : \A y \in T : <<y, x>> \notin OpToRel(<, Nat)
  <2>1. T \subseteq Nat /\ T # {}
    OBVIOUS
  <2> QED BY <2>1, NatLessThanWellFounded, WFMin
<1>2. PICK x \in T : \A y \in T : <<y, x>> \notin OpToRel(<, Nat)
  BY <1>1
<1>3. x \in Nat /\ x \notin S /\ x # 0
  BY <1>2
<1>4. x - 1 \in Nat /\ x - 1 < x /\ (x - 1) + 1 = x
  BY <1>3
<1>5. x - 1 \in T
  BY <1>3, <1>4
<1>6. <<x - 1, x>> \in OpToRel(<, Nat)
  BY <1>3, <1>4 DEF OpToRel
<1> QED BY <1>2, <1>5, <1>6

\* Replayed is what the log comes to.
LEMMA ReplayedIs ==
  ASSUME NEW events, Len(events) \in Nat, NEW box, Rebuilds(events, box)
  PROVE  Replayed(events) = box
<1> DEFINE n == Len(events)
           F(h) == [k \in 0..n |-> IF k = 0 THEN EmptyInbox ELSE Apply(h[k - 1], events[k])]
           g == CHOOSE h : h = F(h)
<1>1. PICK f : f = F(f) /\ f[n] = box
  BY DEF Rebuilds
<1>2. g = F(g)
  BY <1>1
<1>3. Replayed(events) = g[n]
  BY DEF Replayed
<1> HIDE DEF g
<1>4. g[0] = EmptyInbox /\ f[0] = EmptyInbox
  BY <1>1, <1>2
<1>5. \A k \in 1..n : g[k] = Apply(g[k - 1], events[k]) /\ f[k] = Apply(f[k - 1], events[k])
  <2>1. ASSUME NEW k \in 1..n PROVE g[k] = Apply(g[k - 1], events[k])
    BY <1>2
  <2>2. ASSUME NEW k \in 1..n PROVE f[k] = Apply(f[k - 1], events[k])
    BY <1>1
  <2> QED BY <2>1, <2>2
<1> HIDE DEF F
<1>6. \A k \in 0..n : g[k] = f[k]
  <2> DEFINE S == {k \in Nat : k <= n => g[k] = f[k]}
  <2>1. 0 \in S
    BY <1>4
  <2>2. ASSUME NEW k \in Nat, k \in S PROVE k + 1 \in S
    <3>1. CASE k + 1 <= n
      <4>1. k + 1 \in 1..n /\ (k + 1) - 1 = k /\ k <= n
        BY <3>1
      <4>2. g[k + 1] = Apply(g[k], events[k + 1]) /\ f[k + 1] = Apply(f[k], events[k + 1])
        BY <1>5, <4>1
      <4>3. g[k] = f[k]
        BY <2>2, <4>1
      <4> QED BY <4>2, <4>3
    <3>2. CASE ~(k + 1 <= n)
      BY <3>2
    <3> QED BY <3>1, <3>2
  <2> HIDE DEF S
  <2>3. \A k \in Nat : k \in S
    BY <2>1, <2>2, SetInduction
  <2> QED BY <2>3 DEF S
<1> QED BY <1>1, <1>3, <1>6

\* One more event applies to what the log comes to.
LEMMA RebuildsOn ==
  ASSUME NEW S, NEW events \in Seq(S), NEW e \in S, NEW box, Rebuilds(events, box)
  PROVE  Rebuilds(Append(events, e), Apply(box, e))
<1> DEFINE n == Len(events)
           more == Append(events, e)
<1>1. /\ n \in Nat /\ Len(more) = n + 1 /\ more[n + 1] = e
      /\ \A k \in 1..n : more[k] = events[k]
  OBVIOUS
<1>2. PICK f : /\ f = [k \in 0..n |-> IF k = 0 THEN EmptyInbox ELSE Apply(f[k - 1], events[k])]
               /\ f[n] = box
  BY DEF Rebuilds
<1> HIDE DEF n, more
<1>3. f[0] = EmptyInbox /\ \A k \in 1..n : f[k] = Apply(f[k - 1], events[k])
  <2>1. f[0] = EmptyInbox
    BY <1>1, <1>2
  <2>2. ASSUME NEW k \in 1..n PROVE f[k] = Apply(f[k - 1], events[k])
    BY <1>1, <1>2
  <2> QED BY <2>1, <2>2
<1> DEFINE g == [k \in 0..(n + 1) |-> IF k <= n THEN f[k] ELSE Apply(box, e)]
<1>4. /\ \A k \in 0..n : g[k] = f[k]
      /\ g[n + 1] = Apply(box, e)
  BY <1>1
<1>5. DOMAIN g = 0..(n + 1) /\ g = [k \in 0..(n + 1) |-> g[k]]
  OBVIOUS
<1> HIDE DEF g
<1>6. ASSUME NEW k \in 0..(n + 1)
      PROVE  g[k] = IF k = 0 THEN EmptyInbox ELSE Apply(g[k - 1], more[k])
  <2>1. CASE k = 0
    BY <1>1, <1>3, <1>4, <2>1
  <2>2. CASE k \in 1..n
    <3>1. k - 1 \in 0..n /\ k \in 0..n /\ k # 0
      BY <1>1, <2>2
    <3>2. g[k] = f[k] /\ g[k - 1] = f[k - 1] /\ more[k] = events[k]
      BY <1>1, <1>4, <2>2, <3>1
    <3> QED BY <1>3, <2>2, <3>1, <3>2
  <2>3. CASE k = n + 1
    <3>1. n \in 0..n /\ k # 0 /\ k - 1 = n
      BY <1>1, <2>3
    <3>2. g[k - 1] = box /\ more[k] = e /\ g[k] = Apply(box, e)
      BY <1>1, <1>2, <1>4, <2>3, <3>1
    <3> QED BY <3>1, <3>2
  <2> QED BY <1>1, <2>1, <2>2, <2>3
<1>7. g = [k \in 0..(n + 1) |-> IF k = 0 THEN EmptyInbox ELSE Apply(g[k - 1], more[k])]
  BY <1>5, <1>6
<1>8. Rebuilds(more, Apply(box, e))
  BY <1>1, <1>4, <1>7 DEF Rebuilds
<1> QED BY <1>8 DEF more

\* A splice that fits, and makes nobody pending twice, applies as it was made.
LEMMA Fits ==
  ASSUME NEW box \in [Target -> Seq(Message)], NEW e \in Event, NEW new, UniquelyPending(new),
         e.start + e.removedCount <= Len(box[e.target]),
         new = [box EXCEPT ![e.target] =
                  Spliced(box[e.target], e.start, e.removedCount, e.inserted)]
  PROVE  Apply(box, e) = new
<1>1. e.target \in Target /\ e.start \in Nat /\ e.removedCount \in Nat
  BY DEF Event
<1>2. Len(box[e.target]) \in Nat
  BY <1>1
<1>3. ~(e.start > Len(box[e.target])) /\ ~(e.start + e.removedCount > Len(box[e.target]))
  BY <1>1, <1>2
<1> QED BY <1>3 DEF Apply

LEMMA MaxOf ==
  ASSUME NEW x \in Int, NEW y \in Int
  PROVE  Max({x, y}) = IF x >= y THEN x ELSE y
<1>1. \E z \in {x, y} : \A w \in {x, y} : z >= w
  OBVIOUS
<1> DEFINE z == Max({x, y})
<1>2. z \in {x, y} /\ \A w \in {x, y} : z >= w
  BY <1>1 DEF Max
<1> HIDE DEF z
<1>3. z = IF x >= y THEN x ELSE y
  BY <1>2
<1> QED BY <1>3 DEF z

LEMMA MinOf ==
  ASSUME NEW x \in Int, NEW y \in Int
  PROVE  Min({x, y}) = IF x <= y THEN x ELSE y
<1>1. \E z \in {x, y} : \A w \in {x, y} : z <= w
  OBVIOUS
<1> DEFINE z == Min({x, y})
<1>2. z \in {x, y} /\ \A w \in {x, y} : z <= w
  BY <1>1 DEF Min
<1> HIDE DEF z
<1>3. z = IF x <= y THEN x ELSE y
  BY <1>2
<1> QED BY <1>3 DEF z

\* The coordinates a mutation records lie in its list.
LEMMA Clamped ==
  ASSUME NEW S, NEW s \in Seq(S), NEW start \in Int, NEW count \in Int
  PROVE  /\ ActualStart(s, start) \in Nat /\ ActualCount(s, start, count) \in Nat
         /\ ActualStart(s, start) + ActualCount(s, start, count) <= Len(s)
<1>3. Len(s) \in Nat
  OBVIOUS
<1>4. ActualStart(s, start) \in Nat /\ ActualStart(s, start) <= Len(s)
  <2>1. CASE start < 0
    <3>1. Len(s) + start \in Int /\ 0 \in Int
      BY <1>3
    <3>2. Max({Len(s) + start, 0}) = IF Len(s) + start >= 0 THEN Len(s) + start ELSE 0
      BY <3>1, MaxOf
    <3>3. ActualStart(s, start) = IF Len(s) + start >= 0 THEN Len(s) + start ELSE 0
      BY <2>1, <3>2 DEF ActualStart
    <3> QED BY <1>3, <2>1, <3>3
  <2>2. CASE ~(start < 0)
    <3>1. Min({start, Len(s)}) = IF start <= Len(s) THEN start ELSE Len(s)
      BY <1>3, MinOf
    <3>2. ActualStart(s, start) = IF start <= Len(s) THEN start ELSE Len(s)
      BY <2>2, <3>1 DEF ActualStart
    <3> QED BY <1>3, <2>2, <3>2
  <2> QED BY <2>1, <2>2
<1> DEFINE a == ActualStart(s, start)
<1> HIDE DEF a
<1>5. a \in Nat /\ a <= Len(s)
  BY <1>4 DEF a
<1> DEFINE m == Max({count, 0})
           c == Min({m, Len(s) - a})
<1>6. m \in Nat
  <2>1. m = IF count >= 0 THEN count ELSE 0
    BY 0 \in Int, MaxOf
  <2> QED BY <2>1
<1> HIDE DEF m
<1>7. c \in Nat /\ c <= Len(s) - a
  <2>1. m \in Int /\ Len(s) - a \in Nat
    BY <1>3, <1>5, <1>6
  <2>2. c = IF m <= Len(s) - a THEN m ELSE Len(s) - a
    BY <2>1, MinOf
  <2> QED BY <1>6, <2>1, <2>2
<1>8. ActualCount(s, start, count) = c
  BY DEF ActualCount, c, m, a
<1> HIDE DEF c
<1>9. a + c <= Len(s)
  BY <1>3, <1>5, <1>7
<1> QED BY <1>4, <1>5, <1>7, <1>8, <1>9 DEF a
----------------------------------------------------------------------------
(* The notices that are owed.                                              *)

\* How many items of a stack belong to a set.
Many(N, s) == Cardinality({k \in DOMAIN s : s[k] \in N})

LEMMA ManyConcat ==
  ASSUME NEW S, NEW s \in Seq(S), NEW t \in Seq(S), NEW N
  PROVE  /\ Many(N, s) \in Nat /\ Many(N, t) \in Nat
         /\ Many(N, s \o t) = Many(N, s) + Many(N, t)
<1> DEFINE q == s \o t
           A == {k \in DOMAIN s : s[k] \in N}
           B == {k \in DOMAIN t : t[k] \in N}
           C == {k + Len(s) : k \in B}
<1>1. /\ Len(s) \in Nat /\ Len(t) \in Nat /\ DOMAIN s = 1..Len(s) /\ DOMAIN t = 1..Len(t)
      /\ DOMAIN q = 1..(Len(s) + Len(t))
      /\ \A i \in 1..(Len(s) + Len(t)) : q[i] = IF i <= Len(s) THEN s[i] ELSE t[i - Len(s)]
  OBVIOUS
<1> HIDE DEF q
<1>2. IsFiniteSet(A) /\ IsFiniteSet(B)
  <2>1. IsFiniteSet(1..Len(s)) /\ IsFiniteSet(1..Len(t))
    BY <1>1, FS_Interval
  <2>2. A \in SUBSET (1..Len(s)) /\ B \in SUBSET (1..Len(t))
    BY <1>1
  <2> QED BY <2>1, <2>2, FS_Subset
<1>3. IsFiniteSet(C) /\ Cardinality(C) = Cardinality(B)
  <2> DEFINE f == [k \in B |-> k + Len(s)]
  <2>1. f \in Bijection(B, C)
    <3>1. f \in [B -> C] /\ \A y \in C : \E x \in B : f[x] = y
      OBVIOUS
    <3>2. ASSUME NEW x \in B, NEW y \in B, f[x] = f[y] PROVE x = y
      <4>1. x \in Int /\ y \in Int /\ x + Len(s) = y + Len(s)
        BY <1>1, <3>2
      <4> QED BY <1>1, <4>1
    <3> QED BY <3>1, <3>2 DEF Bijection, Injection, Surjection, IsInjective
  <2> HIDE DEF f
  <2>2. ExistsBijection(B, C)
    BY <2>1 DEF ExistsBijection
  <2> QED BY <1>2, <2>2, FS_Bijection
<1>4. {k \in DOMAIN q : q[k] \in N} = A \cup C
  <2>1. ASSUME NEW k \in DOMAIN q, q[k] \in N PROVE k \in A \cup C
    <3>1. CASE k <= Len(s)
      BY <1>1, <2>1, <3>1
    <3>2. CASE ~(k <= Len(s))
      <4>1. k - Len(s) \in B /\ k = (k - Len(s)) + Len(s)
        BY <1>1, <2>1, <3>2
      <4> QED BY <4>1
    <3> QED BY <3>1, <3>2
  <2>2. ASSUME NEW k \in A PROVE k \in DOMAIN q /\ q[k] \in N
    BY <1>1
  <2>3. ASSUME NEW k \in B PROVE k + Len(s) \in DOMAIN q /\ q[k + Len(s)] \in N
    <3>1. k \in 1..Len(t) /\ t[k] \in N
      BY <1>1
    <3>2. k + Len(s) \in 1..(Len(s) + Len(t)) /\ ~(k + Len(s) <= Len(s)) /\ (k + Len(s)) - Len(s) = k
      BY <1>1, <3>1
    <3> QED BY <1>1, <3>1, <3>2
  <2> QED BY <2>1, <2>2, <2>3
<1>5. A \cap C = {}
  <2>1. ASSUME NEW k \in B, k + Len(s) \in A PROVE FALSE
    <3>1. k \in 1..Len(t) /\ k + Len(s) \in 1..Len(s)
      BY <1>1, <2>1
    <3> QED BY <1>1, <3>1
  <2> QED BY <2>1
<1> HIDE DEF A, B, C
<1>6. Cardinality(A \cup C) = Cardinality(A) + Cardinality(B)
  <2>1. Cardinality(A \cup C) = Cardinality(A) + Cardinality(C) - Cardinality({})
    BY <1>2, <1>3, <1>5, FS_Union
  <2>2. Cardinality({}) = 0 /\ Cardinality(A) \in Nat /\ Cardinality(C) \in Nat
    BY <1>2, <1>3, FS_EmptySet, FS_CardinalityType
  <2> QED BY <1>3, <2>1, <2>2
<1>7. Cardinality(A) \in Nat /\ Cardinality(B) \in Nat
  BY <1>2, FS_CardinalityType
<1> QED BY <1>4, <1>6, <1>7 DEF Many, A, B, q

LEMMA ManyNone ==
  ASSUME NEW s, NEW N, \A k \in DOMAIN s : s[k] \notin N
  PROVE  Many(N, s) = 0
<1>1. {k \in DOMAIN s : s[k] \in N} = {}
  OBVIOUS
<1> QED BY <1>1, FS_EmptySet DEF Many

LEMMA ManyHead ==
  ASSUME NEW S, NEW s \in Seq(S), s # <<>>, NEW N
  PROVE  /\ Many(N, Tail(s)) \in Nat
         /\ Many(N, s) = (IF Head(s) \in N THEN 1 ELSE 0) + Many(N, Tail(s))
<1>1. Head(s) \in S /\ Tail(s) \in Seq(S) /\ s = <<Head(s)>> \o Tail(s)
  OBVIOUS
<1> DEFINE o == <<Head(s)>>
<1>2. o \in Seq(S) /\ DOMAIN o = {1} /\ o[1] = Head(s)
  BY <1>1
<1> HIDE DEF o
<1>3. Many(N, o) = IF Head(s) \in N THEN 1 ELSE 0
  <2>1. {k \in DOMAIN o : o[k] \in N} = IF Head(s) \in N THEN {1} ELSE {}
    BY <1>2
  <2> QED BY <2>1, FS_Singleton, FS_EmptySet DEF Many
<1>4. s = o \o Tail(s)
  BY <1>1 DEF o
<1>5. Many(N, Tail(s)) \in Nat /\ Many(N, o \o Tail(s)) = Many(N, o) + Many(N, Tail(s))
  BY <1>1, <1>2, ManyConcat
<1> QED BY <1>3, <1>4, <1>5

\* Notices of messages that differ: one of each.
LEMMA ManyNotices ==
  ASSUME NEW kind \in Kinds, NEW s \in Seq(Message), IsInjective(s), NEW m \in Message, NEW N,
         \A x \in Message : Notice(kind, x) \in N <=> (x = m /\ Notice(kind, m) \in N)
  PROVE  /\ Notices(kind, s) \in Seq(Item)
         /\ Many(N, Notices(kind, s)) = IF m \in Range(s) /\ Notice(kind, m) \in N THEN 1 ELSE 0
<1> DEFINE q == Notices(kind, s)
<1>1. /\ DOMAIN s = 1..Len(s) /\ Len(s) \in Nat /\ \A k \in DOMAIN s : s[k] \in Message
  OBVIOUS
<1>2. q \in Seq(Item) /\ DOMAIN q = DOMAIN s /\ \A k \in DOMAIN s : q[k] = Notice(kind, s[k])
  <2>1. \A k \in DOMAIN s : Notice(kind, s[k]) \in Item
    BY <1>1 DEF Item
  <2>2. q = [k \in 1..Len(s) |-> Notice(kind, s[k])]
    BY <1>1 DEF Notices
  <2> QED BY <1>1, <2>1, <2>2
<1> HIDE DEF q
<1>3. {k \in DOMAIN q : q[k] \in N} = {k \in DOMAIN s : s[k] = m /\ Notice(kind, m) \in N}
  BY <1>1, <1>2
<1>4. CASE m \in Range(s) /\ Notice(kind, m) \in N
  <2>1. PICK j \in DOMAIN s : s[j] = m
    BY <1>4 DEF Range
  <2>2. {k \in DOMAIN s : s[k] = m /\ Notice(kind, m) \in N} = {j}
    BY <1>4, <2>1 DEF IsInjective
  <2>3. Cardinality({j}) = 1
    BY FS_Singleton
  <2> QED BY <1>2, <1>3, <1>4, <2>2, <2>3 DEF Many, q
<1>5. CASE ~(m \in Range(s) /\ Notice(kind, m) \in N)
  <2>1. {k \in DOMAIN s : s[k] = m /\ Notice(kind, m) \in N} = {}
    BY <1>5 DEF Range
  <2> QED BY <1>2, <1>3, <1>5, <2>1, FS_EmptySet DEF Many, q
<1> QED BY <1>4, <1>5

\* What enters a subscriber's count of a message, and what leaves it.
Entering(m) == {Notice("inserted", m)}
Leaving(m)  == {Notice("discarded", m), Notice("claimed", m)}

LEMMA OwedIs ==
  ASSUME NEW m
  PROVE  Owed(m) = Many(Entering(m), stack) - Many(Leaving(m), stack)
  BY DEF Owed, Many, Entering, Leaving

LEMMA NoticeKinds ==
  /\ \A a, b, x, y : Notice(a, x) = Notice(b, y) <=> a = b /\ x = y
  /\ \A a \in Kinds : \A x : Notice(a, x) # ClearTurns /\ Notice(a, x).do = a /\ Notice(a, x).message = x
<1>1. ASSUME NEW a, NEW x PROVE Notice(a, x).do = a /\ Notice(a, x).message = x
  BY DEF Notice
<1>2. \A a, b, x, y : Notice(a, x) = Notice(b, y) <=> a = b /\ x = y
  BY <1>1
<1>3. \A a \in Kinds : a # "clear"
  BY DEF Kinds
<1>4. ClearTurns.do = "clear"
  BY DEF ClearTurns
<1> QED BY <1>1, <1>2, <1>3, <1>4

One(P) == IF P THEN 1 ELSE 0

LEMMA NoticesType ==
  ASSUME NEW kind \in Kinds, NEW s \in Seq(Message)
  PROVE  Notices(kind, s) \in Seq(Item)
<1>1. \A k \in 1..Len(s) : Notice(kind, s[k]) \in Item
  BY DEF Item
<1>2. Notices(kind, s) = [k \in 1..Len(s) |-> Notice(kind, s[k])] /\ Len(s) \in Nat
  BY DEF Notices
<1> QED BY <1>1, <1>2

\* The notices of an operation, above those that were owed before.
Above(kind, out, ins, rest) == (Notices(kind, out) \o Notices("inserted", ins)) \o rest

LEMMA AboveType ==
  ASSUME NEW kind \in Kinds, NEW out \in Seq(Message), NEW ins \in Seq(Message), NEW rest \in Seq(Item)
  PROVE  Above(kind, out, ins, rest) \in Seq(Item)
<1>1. Notices(kind, out) \in Seq(Item) /\ Notices("inserted", ins) \in Seq(Item)
  BY NoticesType DEF Kinds
<1> DEFINE c == Notices(kind, out) \o Notices("inserted", ins)
<1>2. c \in Seq(Item)
  BY <1>1, ConcatProperties
<1> HIDE DEF c
<1>3. c \o rest \in Seq(Item)
  BY <1>2, ConcatProperties
<1> QED BY <1>3 DEF Above, c

LEMMA OwedGrows ==
  ASSUME NEW kind \in {"discarded", "claimed"},
         NEW out \in Seq(Message), IsInjective(out), NEW ins \in Seq(Message), IsInjective(ins),
         NEW rest \in Seq(Item), NEW m \in Message
  PROVE  LET above == Above(kind, out, ins, rest)
         IN /\ Many(Entering(m), rest) \in Nat /\ Many(Leaving(m), rest) \in Nat
            /\ Many(Entering(m), above) = One(m \in Range(ins)) + Many(Entering(m), rest)
            /\ Many(Leaving(m), above) = One(m \in Range(out)) + Many(Leaving(m), rest)
<1> DEFINE a == Notices(kind, out)
           b == Notices("inserted", ins)
<1>1. kind \in Kinds /\ "inserted" \in Kinds /\ kind # "inserted"
  BY DEF Kinds
<1>2. /\ \A x \in Message : Notice(kind, x) \in Leaving(m) <=> (x = m /\ Notice(kind, m) \in Leaving(m))
      /\ Notice(kind, m) \in Leaving(m)
      /\ \A x \in Message : Notice("inserted", x) \in Entering(m)
                               <=> (x = m /\ Notice("inserted", m) \in Entering(m))
      /\ Notice("inserted", m) \in Entering(m)
      /\ \A x : Notice(kind, x) \notin Entering(m) /\ Notice("inserted", x) \notin Leaving(m)
  <2>1. \A k, x : Notice(k, x) \in Entering(m) <=> k = "inserted" /\ x = m
    BY NoticeKinds DEF Entering
  <2>2. \A k, x : Notice(k, x) \in Leaving(m) <=> k \in {"discarded", "claimed"} /\ x = m
    BY NoticeKinds DEF Leaving
  <2> QED BY <1>1, <2>1, <2>2
<1>3. a \in Seq(Item) /\ Many(Leaving(m), a) = One(m \in Range(out))
  BY <1>1, <1>2, ManyNotices DEF One
<1>4. b \in Seq(Item) /\ Many(Entering(m), b) = One(m \in Range(ins))
  BY <1>1, <1>2, ManyNotices DEF One
<1>5. Many(Entering(m), a) = 0 /\ Many(Leaving(m), b) = 0
  <2>1. \A k \in DOMAIN a : a[k] \notin Entering(m)
    BY <1>2 DEF Notices
  <2>2. \A k \in DOMAIN b : b[k] \notin Leaving(m)
    BY <1>2 DEF Notices
  <2> QED BY <2>1, <2>2, ManyNone
<1> HIDE DEF a, b
<1>6. ASSUME NEW N
      PROVE  /\ Many(N, a) \in Nat /\ Many(N, b) \in Nat /\ Many(N, rest) \in Nat
             /\ Many(N, (a \o b) \o rest) = Many(N, a) + Many(N, b) + Many(N, rest)
  <2>1. a \o b \in Seq(Item)
    BY <1>3, <1>4
  <2>2. Many(N, a) \in Nat /\ Many(N, b) \in Nat /\ Many(N, a \o b) = Many(N, a) + Many(N, b)
    BY <1>3, <1>4, ManyConcat
  <2> DEFINE c == a \o b
  <2>3. c \in Seq(Item)
    BY <2>1
  <2> HIDE DEF c
  <2>4. Many(N, rest) \in Nat /\ Many(N, c \o rest) = Many(N, c) + Many(N, rest)
    BY <2>3, ManyConcat
  <2> QED BY <2>2, <2>4 DEF c
<1> DEFINE above == Above(kind, out, ins, rest)
<1>7. above = (a \o b) \o rest
  BY DEF Above, a, b
<1> HIDE DEF above
<1>8. /\ Many(Entering(m), above) = One(m \in Range(ins)) + Many(Entering(m), rest)
       /\ Many(Entering(m), rest) \in Nat
  <2>1. /\ Many(Entering(m), above) =
             Many(Entering(m), a) + Many(Entering(m), b) + Many(Entering(m), rest)
        /\ Many(Entering(m), b) \in Nat /\ Many(Entering(m), rest) \in Nat
    BY <1>6, <1>7
  <2> QED BY <1>4, <1>5, <2>1
<1>9. /\ Many(Leaving(m), above) = One(m \in Range(out)) + Many(Leaving(m), rest)
       /\ Many(Leaving(m), rest) \in Nat
  <2>1. /\ Many(Leaving(m), above) =
             Many(Leaving(m), a) + Many(Leaving(m), b) + Many(Leaving(m), rest)
        /\ Many(Leaving(m), a) \in Nat /\ Many(Leaving(m), rest) \in Nat
    BY <1>6, <1>7
  <2> QED BY <1>3, <1>5, <2>1
<1> QED BY <1>8, <1>9 DEF above
----------------------------------------------------------------------------
(* The operations.                                                         *)

Other(t) == IF t = NextTurn THEN NextStep ELSE NextTurn

\* Both lists seen from one of them.
LEMMA Lists ==
  ASSUME NEW box \in [Target -> Seq(Message)], NEW t \in Target
  PROVE  /\ Other(t) \in Target /\ Other(t) # t
         /\ Pending(box) = Range(box[t]) \cup Range(box[Other(t)])
         /\ UniquelyPending(box) <=> /\ IsInjective(box[t]) /\ IsInjective(box[Other(t)])
                                     /\ Range(box[t]) \cap Range(box[Other(t)]) = {}
<1>1. NextTurn # NextStep
  BY DEF NextTurn, NextStep
<1>2. CASE t = NextTurn
  BY <1>1, <1>2 DEF Other, Pending, UniquelyPending, Target
<1>3. CASE t = NextStep
  <2>1. Other(t) = NextTurn
    BY <1>1, <1>3 DEF Other
  <2> QED BY <1>1, <1>3, <2>1 DEF Pending, UniquelyPending, Target
<1> QED BY <1>2, <1>3 DEF Target

\* Notices that are put on the stack for what enters and leaves keep the account.
LEMMA Accounts ==
  ASSUME IInv, NEW kind \in {"discarded", "claimed"},
         NEW out \in Seq(Message), IsInjective(out), NEW ins \in Seq(Message), IsInjective(ins),
         NEW rest \in Seq(Item),
         \A m \in Message : /\ Many(Entering(m), rest) = Many(Entering(m), stack)
                            /\ Many(Leaving(m), rest) = Many(Leaving(m), stack),
         stack' = Above(kind, out, ins, rest), UNCHANGED heard,
         NEW now, Pending(lists)' = now, Range(out) \subseteq Pending(lists),
         now = (Pending(lists) \ Range(out)) \cup Range(ins),
         Range(ins) \cap (Pending(lists) \ Range(out)) = {}
  PROVE  NoticesOwed'
<1> SUFFICES ASSUME NEW m \in Message PROVE heard[m] + Owed(m)' = IF m \in now THEN 1 ELSE 0
  BY DEF NoticesOwed
<1>1. /\ Many(Entering(m), rest) \in Nat /\ Many(Leaving(m), rest) \in Nat
      /\ Many(Entering(m), stack') = One(m \in Range(ins)) + Many(Entering(m), rest)
      /\ Many(Leaving(m), stack') = One(m \in Range(out)) + Many(Leaving(m), rest)
  BY OwedGrows
<1>2. /\ Owed(m) = Many(Entering(m), rest) - Many(Leaving(m), rest)
      /\ Owed(m)' = Many(Entering(m), stack') - Many(Leaving(m), stack')
  <2>1. Owed(m)' = Many(Entering(m), stack') - Many(Leaving(m), stack')
    BY DEF Owed, Many, Entering, Leaving
  <2> QED BY <2>1, OwedIs
<1>3. heard[m] + Owed(m) = One(m \in Pending(lists)) /\ heard[m] \in Int
  BY DEF IInv, Types, NoticesOwed, One
<1>4. One(m \in now) = One(m \in Pending(lists)) + One(m \in Range(ins)) - One(m \in Range(out))
  BY DEF One
<1>5. /\ One(m \in Range(ins)) \in Nat /\ One(m \in Range(out)) \in Nat
      /\ One(m \in now) \in Nat /\ One(m \in Pending(lists)) \in Nat
  BY DEF One
<1> DEFINE before == Owed(m)
           after == Owed(m)'
           enters == One(m \in Range(ins))
           leaves == One(m \in Range(out))
<1>6. /\ after = before + enters - leaves /\ before \in Int /\ after \in Int
      /\ enters \in Int /\ leaves \in Int /\ heard[m] + before = One(m \in Pending(lists))
      /\ One(m \in now) = One(m \in Pending(lists)) + enters - leaves
  <2>1. enters \in Int /\ leaves \in Int
    BY <1>5
  <2>2. before \in Int /\ after \in Int
    BY <1>1, <1>2, <1>5
  <2>3. after = before + enters - leaves
    <3> DEFINE e == Many(Entering(m), rest)
               l == Many(Leaving(m), rest)
               ee == Many(Entering(m), stack')
               ll == Many(Leaving(m), stack')
    <3>1. before = e - l /\ after = ee - ll /\ ee = enters + e /\ ll = leaves + l /\ e \in Nat /\ l \in Nat
      BY <1>1, <1>2
    <3> HIDE DEF e, l, ee, ll, before, after, enters, leaves
    <3> QED BY <2>1, <3>1
  <2> QED BY <1>3, <1>4, <2>1, <2>2, <2>3
<1> HIDE DEF before, after, enters, leaves
<1>7. heard[m] + after = One(m \in now)
  BY <1>3, <1>6
<1> QED BY <1>7 DEF One, after

\* One mutation, by any operation.
LEMMA MutateKeeps ==
  ASSUME IInv, NEW t \in Target, NEW start \in Int, NEW count \in Int, NEW ins \in Seq(Message),
         NEW rest \in Seq(Item),
         \A m \in Message : /\ Many(Entering(m), rest) = Many(Entering(m), stack)
                            /\ Many(Leaving(m), rest) = Many(Leaving(m), stack),
         Mutate(t, start, count, ins, rest), UNCHANGED heard
  PROVE  IInv'
<1> DEFINE s == lists[t]
           a == ActualStart(s, start)
           c == ActualCount(s, start, count)
           q == Spliced(s, a, c, ins)
           new == [lists EXCEPT ![t] = q]
           out == SubSeq(s, a + 1, a + c)
           w == IF out = <<>> THEN "none" ELSE "canceled"
           e == Splice(t, a, c, ins, w)
<1>1. /\ lists \in [Target -> Seq(Message)] /\ log \in Seq(Event) /\ stack \in Seq(Item)
      /\ open \in BOOLEAN /\ heard \in [Message -> Int] /\ s \in Seq(Message)
  BY DEF IInv, Types
<1>2. a \in Nat /\ c \in Nat /\ a + c <= Len(s)
  BY <1>1, Clamped
<1>3. CASE NothingToDo(s, start, count, ins)
  <2>1. stack' = rest /\ UNCHANGED <<lists, log, open, heard>>
    BY <1>3 DEF Mutate
  <2>2. ASSUME NEW m \in Message PROVE Owed(m)' = Owed(m)
    <3>1. Owed(m)' = Many(Entering(m), stack') - Many(Leaving(m), stack')
      BY DEF Owed, Many, Entering, Leaving
    <3> QED BY <2>1, <3>1, OwedIs
  <2>3. NoticesOwed'
    BY <2>1, <2>2 DEF IInv, NoticesOwed
  <2> QED BY <2>1, <2>3 DEF IInv, Types
<1>4. CASE ~NothingToDo(s, start, count, ins)
  <2>1. /\ UniquelyPending(new) /\ lists' = new /\ log' = Append(log, e) /\ open' = FALSE
        /\ stack' = Above("discarded", out, ins, rest)
    BY <1>4 DEF Mutate, Candidate, Removed, Above
  <2> HIDE DEF a, c
  <2>2. e \in Event
    BY <1>2 DEF Splice, Event
  <2> HIDE DEF w
  <2>3. Apply(lists, e) = new
    <3>1. UniquelyPending(new) /\ a + c <= Len(lists[t])
      BY <1>2, <2>1
    <3>2. new = [lists EXCEPT ![t] = Spliced(lists[t], a, c, ins)]
      OBVIOUS
    <3>3. e.target = t /\ e.start = a /\ e.removedCount = c /\ e.inserted = ins
      BY DEF Splice
    <3> HIDE DEF new, e
    <3>4. /\ new = [lists EXCEPT ![e.target] =
                      Spliced(lists[e.target], e.start, e.removedCount, e.inserted)]
          /\ e.start + e.removedCount <= Len(lists[e.target])
      BY <3>1, <3>2, <3>3
    <3> QED BY <1>1, <2>2, <3>1, <3>4, Fits
  <2> HIDE DEF e
  <2>4. Rebuilds(log, lists)
    BY DEF IInv
  <2>5. log' \in Seq(Event) /\ Rebuilds(log', lists')
    <3>1. Rebuilds(Append(log, e), Apply(lists, e))
      BY <1>1, <2>2, <2>4, RebuildsOn
    <3> QED BY <1>1, <2>1, <2>2, <2>3, <3>1
  <2> DEFINE old == Range(lists[Other(t)])
  <2>6. /\ Other(t) \in Target /\ Other(t) # t
        /\ Pending(lists) = Range(s) \cup old /\ IsInjective(s) /\ Range(s) \cap old = {}
    BY <1>1, Lists DEF IInv
  <2>7. new[t] = q /\ new[Other(t)] = lists[Other(t)]
    BY <1>1, <2>6
  <2>8. q \in Seq(Message)
    <3>1. SubSeq(s, 1, a) \in Seq(Message) /\ SubSeq(s, a + c + 1, Len(s)) \in Seq(Message)
      BY <1>1, <1>2, Cut
    <3> QED BY <3>1 DEF Spliced
  <2>9. new \in [Target -> Seq(Message)]
    BY <1>1, <2>8
  <2> HIDE DEF q, new
  <2>10. Pending(new) = Range(q) \cup old /\ IsInjective(q) /\ Range(q) \cap old = {}
    BY <2>1, <2>7, <2>9, Lists
  <2>11. /\ out \in Seq(Message) /\ IsInjective(ins) /\ IsInjective(out)
         /\ Range(out) \subseteq Range(s)
         /\ Range(q) = (Range(s) \ Range(out)) \cup Range(ins)
         /\ Range(ins) \cap (Range(s) \ Range(out)) = {}
    BY <1>1, <1>2, <2>6, <2>10, SpliceElements DEF q
  <2>12. NoticesOwed'
    <3> DEFINE now == Range(q) \cup old
    <3>1. /\ Pending(lists)' = now /\ Range(out) \subseteq Pending(lists)
          /\ now = (Pending(lists) \ Range(out)) \cup Range(ins)
          /\ Range(ins) \cap (Pending(lists) \ Range(out)) = {}
      <4>1. Pending(lists)' = Pending(new)
        BY <2>1 DEF Pending
      <4> HIDE DEF out, s, old
      <4> QED BY <2>6, <2>10, <2>11, <4>1
    <3>2. stack' = Above("discarded", out, ins, rest) /\ UNCHANGED heard
      BY <2>1
    <3> HIDE DEF now, out, s, old
    <3> QED BY <2>11, <3>1, <3>2, Accounts
  <2>13. stack' \in Seq(Item)
    BY <2>1, <2>11, AboveType DEF Kinds
  <2> QED BY <2>1, <2>5, <2>9, <2>12, <2>13 DEF IInv, Types
<1> QED BY <1>3, <1>4
Deletion(t, s) == IF s = <<>> THEN <<>> ELSE <<Splice(t, 0, Len(s), <<>>, "none")>>

Joined(s, first, others) == s = first \o others

Restored(events, box) ==
  /\ box \in [Target -> Seq(Message)] /\ UniquelyPending(box)
  /\ events \in Seq(Event) /\ Rebuilds(events, box)

\* claim() takes the first messages of a list, and records that as one deletion.
LEMMA TakeFirst ==
  ASSUME NEW box, NEW events, Restored(events, box), NEW t \in Target,
         NEW first \in Seq(Message), NEW new \in [Target -> Seq(Message)],
         Joined(box[t], first, new[t]), new[Other(t)] = box[Other(t)]
  PROVE  /\ Restored(events \o Deletion(t, first), new)
         /\ IsInjective(first) /\ Range(first) \cap Pending(new) = {}
         /\ Pending(box) = Range(first) \cup Pending(new)
<1> DEFINE record == Deletion(t, first)
           others == new[t]
<1>0. /\ box \in [Target -> Seq(Message)] /\ UniquelyPending(box)
      /\ events \in Seq(Event) /\ Rebuilds(events, box)
      /\ box[t] = first \o others /\ others \in Seq(Message) /\ new[t] = others
  BY DEF Restored, Joined
<1> HIDE DEF others
<1>1. new = [box EXCEPT ![t] = others]
  <2>1. Other(t) \in Target /\ Other(t) # t /\ Target = {t, Other(t)}
    BY <1>0, Lists DEF Other, Target
  <2> QED BY <1>0, <2>1
<1>2. /\ Other(t) \in Target /\ Other(t) # t
      /\ Pending(box) = Range(box[t]) \cup Range(box[Other(t)])
      /\ IsInjective(box[t]) /\ IsInjective(box[Other(t)])
      /\ Range(box[t]) \cap Range(box[Other(t)]) = {}
  BY <1>0, Lists
<1>3. /\ Range(box[t]) = Range(first) \cup Range(others)
      /\ IsInjective(first) /\ IsInjective(others) /\ Range(first) \cap Range(others) = {}
  BY <1>0, <1>2, Concat
<1>4. new[t] = others /\ new[Other(t)] = box[Other(t)]
  BY <1>0
<1>5. UniquelyPending(new) /\ Pending(new) = Range(others) \cup Range(box[Other(t)])
  <2>1. /\ Pending(new) = Range(new[t]) \cup Range(new[Other(t)])
        /\ UniquelyPending(new) <=> /\ IsInjective(new[t]) /\ IsInjective(new[Other(t)])
                                    /\ Range(new[t]) \cap Range(new[Other(t)]) = {}
    BY Lists
  <2> QED BY <1>2, <1>3, <1>4, <2>1
<1>6. events \o record \in Seq(Event) /\ Rebuilds(events \o record, new)
  <2>1. CASE first = <<>>
    <3>1. first \o others = others
      BY <1>0, <2>1
    <3>2. new = box /\ events \o record = events
      BY <1>0, <1>1, <2>1, <3>1 DEF Deletion
    <3> QED BY <1>0, <3>2
  <2>2. CASE first # <<>>
    <3> DEFINE e == Splice(t, 0, Len(first), <<>>, "none")
    <3>1. /\ e \in Event /\ e.target = t /\ e.start = 0
          /\ e.removedCount = Len(first) /\ e.inserted = <<>>
      BY DEF Event, Splice
    <3>2. record = <<e>>
      BY <2>2 DEF Deletion
    <3> HIDE DEF e, record
    <3>3. Append(events, e) = events \o record
      BY <1>0, <3>1, <3>2, AppendIsConcat
    <3>4. Spliced(box[t], 0, Len(first), <<>>) = others /\ Len(first) <= Len(box[t])
      <4> DEFINE s == box[t]
                 n == Len(first)
                 r == SubSeq(s, 0 + n + 1, Len(s))
      <4>1. /\ s \in Seq(Message) /\ n \in Nat /\ Len(s) = n + Len(others) /\ Len(others) \in Nat
            /\ \A k \in 1..Len(others) : s[n + k] = others[k]
        <5>1. Len(first) \in Nat /\ Len(others) \in Nat /\ s = first \o others
          BY <1>0
        <5>2. ASSUME NEW k \in 1..Len(others) PROVE s[n + k] = others[k]
          <6>1. n + k \in 1..(n + Len(others)) /\ ~(n + k <= n) /\ (n + k) - n = k
            BY <5>1
          <6> QED BY <1>0, <5>1, <6>1, ConcatProperties
        <5> QED BY <1>0, <5>1, <5>2, ConcatProperties
      <4>2. r = others
        <5> HIDE DEF s, n
        <5>1. /\ n + 1 \in Int /\ Len(s) \in Int /\ \A k \in (n + 1)..Len(s) : s[k] \in Message
              /\ 0 + n + 1 = n + 1
          BY <4>1
        <5>2. /\ r \in Seq(Message)
              /\ Len(r) = (IF n + 1 <= Len(s) THEN Len(s) - (n + 1) + 1 ELSE 0)
              /\ \A k \in 1..(Len(s) - (n + 1) + 1) : r[k] = s[(n + 1) + k - 1]
          BY <5>1, SubSeqProperties
        <5> HIDE DEF r
        <5>3. Len(r) = Len(others) /\ \A k \in 1..Len(r) : r[k] = others[k]
          <6>1. Len(r) = Len(others) /\ Len(s) - (n + 1) + 1 = Len(others)
            BY <4>1, <5>2
          <6>2. ASSUME NEW k \in 1..Len(others) PROVE r[k] = others[k]
            <7>1. (n + 1) + k - 1 = n + k
              BY <4>1
            <7> QED BY <4>1, <5>2, <6>1, <7>1
          <6> QED BY <6>1, <6>2
        <5> QED BY <1>0, <5>2, <5>3, SeqEqual
      <4>3. SubSeq(s, 1, 0) = <<>>
        BY <4>1
      <4>4. Spliced(s, 0, n, <<>>) = (<<>> \o <<>>) \o r
        BY <4>3 DEF Spliced
      <4>5. (<<>> \o <<>>) \o others = others
        BY <1>0
      <4>6. n <= Len(s)
        BY <4>1
      <4> HIDE DEF r, s
      <4> QED BY <4>2, <4>4, <4>5, <4>6 DEF s
    <3>5. Apply(box, e) = new
      <4>1. Spliced(box[e.target], e.start, e.removedCount, e.inserted) = others
        BY <3>1, <3>4
      <4>3. e.start + e.removedCount <= Len(box[e.target])
        <5>1. Len(first) \in Nat /\ 0 + Len(first) = Len(first)
          OBVIOUS
        <5> QED BY <3>1, <3>4, <5>1
      <4>2. new = [box EXCEPT ![e.target] =
                     Spliced(box[e.target], e.start, e.removedCount, e.inserted)]
        BY <1>1, <3>1, <4>1
      <4> QED BY <1>0, <1>5, <3>1, <4>2, <4>3, Fits
    <3>6. Rebuilds(Append(events, e), Apply(box, e))
      BY <1>0, <3>1, RebuildsOn
    <3>7. events \o record \in Seq(Event)
      BY <1>0, <3>1, <3>2
    <3> QED BY <3>3, <3>5, <3>6, <3>7 DEF record
  <2> QED BY <2>1, <2>2
<1>7. Restored(events \o record, new)
  BY <1>5, <1>6 DEF Restored
<1> QED BY <1>0, <1>2, <1>3, <1>5, <1>7

LEMMA ClaimKeeps ==
  ASSUME IInv, NEW t \in Target, Claim(t)
  PROVE  IInv'
<1> DEFINE steps == lists[NextStep]
           some == t = NextTurn /\ lists[t] # <<>>
           turns == IF some THEN <<Head(lists[t])>> ELSE <<>>
           rest == IF some THEN Tail(lists[t]) ELSE lists[NextTurn]
           r1 == Deletion(NextStep, steps)
           r2 == Deletion(NextTurn, turns)
           none == <<>>
           b1 == [lists EXCEPT ![NextStep] = none]
           b2 == [b1 EXCEPT ![NextTurn] = rest]
           out == steps \o turns
<1>1. /\ lists' = AfterClaim(lists, t) /\ log' = (log \o r1) \o r2
      /\ stack' = Notices("claimed", out) \o stack /\ open' \in BOOLEAN /\ UNCHANGED heard
  BY DEF Claim, Deletion
<1>2. /\ lists \in [Target -> Seq(Message)] /\ log \in Seq(Event) /\ stack \in Seq(Item)
      /\ UniquelyPending(lists) /\ Rebuilds(log, lists)
      /\ NextTurn \in Target /\ NextStep \in Target /\ NextTurn # NextStep
  BY DEF IInv, Types, Target, NextTurn, NextStep
<1>3. /\ steps \in Seq(Message) /\ lists[NextTurn] \in Seq(Message) /\ none \in Seq(Message)
      /\ steps = steps \o none
  BY <1>2
<1>4. turns \in Seq(Message) /\ rest \in Seq(Message) /\ lists[NextTurn] = turns \o rest
  <2>1. CASE some
    BY <1>2, <2>1
  <2>2. CASE ~some
    BY <1>2, <2>2
  <2> QED BY <2>1, <2>2
<1>5. lists' = b2
  <2>1. b1[NextStep] = <<>> /\ b1[NextTurn] = lists[NextTurn] /\ b1 \in [Target -> Seq(Message)]
    BY <1>2
  <2> HIDE DEF b1
  <2>2. b2[NextStep] = <<>> /\ b2[NextTurn] = rest /\ b2 \in [Target -> Seq(Message)]
    BY <1>2, <1>4, <2>1
  <2>3. AfterClaim(lists, t)[NextStep] = <<>> /\ AfterClaim(lists, t)[NextTurn] = rest
    BY <1>2 DEF AfterClaim
  <2>4. AfterClaim(lists, t) = [u \in Target |-> AfterClaim(lists, t)[u]] /\ b2 = [u \in Target |-> b2[u]]
    BY <2>2 DEF AfterClaim
  <2> HIDE DEF b2, rest
  <2> QED BY <1>1, <2>2, <2>3, <2>4 DEF Target
<1> HIDE DEF some, turns, rest
<1> DEFINE l1 == log \o r1
<1>6. Other(NextStep) = NextTurn /\ Other(NextTurn) = NextStep
  BY <1>2 DEF Other
<1>7. /\ b1 \in [Target -> Seq(Message)] /\ b1[NextStep] = none
      /\ b1[NextTurn] = lists[NextTurn] /\ b2 = [b1 EXCEPT ![NextTurn] = rest]
  BY <1>2, <1>3
<1>8. /\ b1 \in [Target -> Seq(Message)] /\ UniquelyPending(b1)
      /\ l1 \in Seq(Event) /\ Rebuilds(l1, b1)
      /\ IsInjective(steps) /\ Range(steps) \cap Pending(b1) = {}
      /\ Pending(lists) = Range(steps) \cup Pending(b1)
  <2>1. Joined(lists[NextStep], steps, b1[NextStep]) /\ Restored(log, lists)
    BY <1>2, <1>3, <1>7 DEF Restored, Joined
  <2>2. b1[Other(NextStep)] = lists[Other(NextStep)]
    BY <1>6, <1>7
  <2> HIDE DEF b1, steps, none, l1, r1
  <2>3. /\ Restored(log \o Deletion(NextStep, steps), b1)
        /\ IsInjective(steps) /\ Range(steps) \cap Pending(b1) = {}
        /\ Pending(lists) = Range(steps) \cup Pending(b1)
    <3>1. NextStep \in Target /\ steps \in Seq(Message) /\ b1 \in [Target -> Seq(Message)]
      BY <1>2, <1>3, <1>7
    <3> QED BY <2>1, <2>2, <3>1, TakeFirst
  <2> QED BY <1>7, <2>3 DEF l1, r1, Restored
<1> HIDE DEF l1, b1, b2, steps, none
<1>9. /\ b2 \in [Target -> Seq(Message)] /\ b2[NextTurn] = rest /\ b2[NextStep] = b1[NextStep]
  BY <1>2, <1>4, <1>7
<1>10. /\ b2 \in [Target -> Seq(Message)] /\ UniquelyPending(b2)
       /\ l1 \o r2 \in Seq(Event) /\ Rebuilds(l1 \o r2, b2)
       /\ IsInjective(turns) /\ Range(turns) \cap Pending(b2) = {}
       /\ Pending(b1) = Range(turns) \cup Pending(b2)
  <2>1. Joined(b1[NextTurn], turns, b2[NextTurn]) /\ Restored(l1, b1)
    BY <1>4, <1>7, <1>8, <1>9 DEF Restored, Joined
  <2>2. b2[Other(NextTurn)] = b1[Other(NextTurn)]
    BY <1>6, <1>9
  <2> HIDE DEF r2
  <2>3. /\ Restored(l1 \o Deletion(NextTurn, turns), b2)
        /\ IsInjective(turns) /\ Range(turns) \cap Pending(b2) = {}
        /\ Pending(b1) = Range(turns) \cup Pending(b2)
    BY <1>2, <1>4, <1>8, <1>9, <2>1, <2>2, TakeFirst
  <2> QED BY <1>9, <2>3 DEF r2, Restored
<1> HIDE DEF r1, r2
<1>11. out \in Seq(Message) /\ IsInjective(out) /\ Range(out) = Range(steps) \cup Range(turns)
  BY <1>3, <1>4, <1>8, <1>10, Concat
<1>12. stack' = Above("claimed", out, <<>>, stack)
  <2> HIDE DEF out
  <2>1. Notices("claimed", out) \in Seq(Item)
    BY <1>11, NoticesType DEF Kinds
  <2>2. Notices("inserted", <<>>) = <<>>
    BY DEF Notices
  <2>3. Notices("claimed", out) \o <<>> = Notices("claimed", out)
    BY <2>1
  <2> QED BY <1>1, <2>2, <2>3 DEF Above
<1> HIDE DEF out
<1>13. stack' \in Seq(Item)
  <2>1. <<>> \in Seq(Message)
    OBVIOUS
  <2> QED BY <1>2, <1>11, <1>12, <2>1, AboveType DEF Kinds
<1>14. NoticesOwed'
  <2> DEFINE ins == <<>>
  <2>1. /\ ins \in Seq(Message) /\ IsInjective(ins) /\ Range(ins) = {}
    BY DEF IsInjective, Range
  <2>2. stack' = Above("claimed", out, ins, stack)
    BY <1>12
  <2> HIDE DEF ins
  <2> DEFINE now == Pending(b2)
  <2>3. /\ Pending(lists)' = now
        /\ Range(out) \subseteq Pending(lists)
        /\ now = (Pending(lists) \ Range(out)) \cup Range(ins)
        /\ Range(ins) \cap (Pending(lists) \ Range(out)) = {}
    <3>1. Pending(lists)' = now
      BY <1>5 DEF Pending
    <3> HIDE DEF now
    <3>2. Range(turns) \cap now = {} /\ Pending(b1) = Range(turns) \cup now
      BY <1>10 DEF now
    <3> QED BY <1>8, <1>11, <2>1, <3>1, <3>2
  <2> HIDE DEF now
  <2> QED BY <1>1, <1>2, <1>11, <2>1, <2>2, <2>3, Accounts
<1>15. log' = l1 \o r2
  BY <1>1 DEF l1
<1>16. lists' \in [Target -> Seq(Message)] /\ UniquelyPending(lists)' /\ log' \in Seq(Event) /\ Rebuilds(log, lists)'
  BY <1>5, <1>10, <1>15
<1> QED BY <1>1, <1>13, <1>14, <1>16 DEF IInv, Types

LEMMA NotCounted ==
  ASSUME NEW m
  PROVE  ClearTurns \notin Entering(m) /\ ClearTurns \notin Leaving(m)
<1>1. \A a \in Kinds : Notice(a, m) # ClearTurns
  BY NoticeKinds
<1> QED BY <1>1 DEF Entering, Leaving, Kinds

LEMMA SpliceKeeps ==
  ASSUME IInv, NEW t \in Target, NEW start \in Int, NEW count \in Int, NEW ins \in Seq(Message),
         SpliceCall(t, start, count, ins)
  PROVE  IInv'
<1>1. Mutate(t, start, count, ins, stack) /\ UNCHANGED heard
  BY DEF SpliceCall
<1>2. stack \in Seq(Item)
  BY DEF IInv, Types
<1> QED BY <1>1, <1>2, MutateKeeps

LEMMA ClearKeeps ==
  ASSUME IInv, Clear
  PROVE  IInv'
<1>1. /\ lists \in [Target -> Seq(Message)] /\ stack \in Seq(Item)
      /\ NextTurn \in Target /\ NextStep \in Target /\ <<>> \in Seq(Message)
  BY DEF IInv, Types, Target
<1>2. Len(lists[NextTurn]) \in Int /\ Len(lists[NextStep]) \in Int /\ 0 \in Int
  BY <1>1
<1>3. CASE lists[NextStep] # <<>>
  <2> DEFINE first == <<ClearTurns>>
             rest == first \o stack
  <2>1. Mutate(NextStep, 0, Len(lists[NextStep]), <<>>, rest) /\ UNCHANGED heard
    BY <1>3 DEF Clear
  <2>2. first \in Seq(Item) /\ DOMAIN first = {1} /\ first[1] = ClearTurns
    BY DEF Item
  <2> HIDE DEF first
  <2>3. rest \in Seq(Item)
    BY <1>1, <2>2
  <2>4. ASSUME NEW m \in Message, NEW N, ClearTurns \notin N
        PROVE  Many(N, rest) = Many(N, stack)
    <3>1. Many(N, first) = 0
      BY <2>2, <2>4, ManyNone
    <3>2. Many(N, stack) \in Nat /\ Many(N, rest) = Many(N, first) + Many(N, stack)
      BY <1>1, <2>2, ManyConcat
    <3> QED BY <3>1, <3>2
  <2> HIDE DEF rest
  <2>5. \A m \in Message : /\ Many(Entering(m), rest) = Many(Entering(m), stack)
                           /\ Many(Leaving(m), rest) = Many(Leaving(m), stack)
    BY <2>4, NotCounted
  <2> QED BY <1>1, <1>2, <2>1, <2>3, <2>5, MutateKeeps
<1>4. CASE lists[NextStep] = <<>>
  <2>1. Mutate(NextTurn, 0, Len(lists[NextTurn]), <<>>, stack) /\ UNCHANGED heard
    BY <1>4 DEF Clear
  <2> QED BY <1>1, <1>2, <2>1, MutateKeeps
<1> QED BY <1>3, <1>4

LEMMA FinishClearKeeps ==
  ASSUME IInv, FinishClear
  PROVE  IInv'
<1>1. /\ lists \in [Target -> Seq(Message)] /\ stack \in Seq(Item) /\ stack # <<>>
      /\ NextTurn \in Target /\ <<>> \in Seq(Message) /\ Head(stack) = ClearTurns
  BY DEF IInv, Types, Target, FinishClear
<1>2. Len(lists[NextTurn]) \in Int /\ 0 \in Int /\ Tail(stack) \in Seq(Item)
  BY <1>1
<1>3. \A m \in Message : /\ Many(Entering(m), Tail(stack)) = Many(Entering(m), stack)
                         /\ Many(Leaving(m), Tail(stack)) = Many(Leaving(m), stack)
  <2>1. ASSUME NEW N, ClearTurns \notin N PROVE Many(N, Tail(stack)) = Many(N, stack)
    <3>1. Many(N, Tail(stack)) \in Nat /\ Many(N, stack) = 0 + Many(N, Tail(stack))
      BY <1>1, <2>1, ManyHead
    <3> QED BY <3>1
  <2> QED BY <2>1, NotCounted
<1>4. Mutate(NextTurn, 0, Len(lists[NextTurn]), <<>>, Tail(stack)) /\ UNCHANGED heard
  BY DEF FinishClear
<1> QED BY <1>1, <1>2, <1>3, <1>4, MutateKeeps

LEMMA EmitKeeps ==
  ASSUME IInv, Emit
  PROVE  IInv'
<1>1. /\ stack \in Seq(Item) /\ stack # <<>> /\ heard \in [Message -> Int]
      /\ stack' = Tail(stack) /\ open' = TRUE /\ UNCHANGED <<lists, log>>
      /\ Head(stack) # ClearTurns
  BY DEF IInv, Types, Emit
<1>2. Head(stack) \in Item /\ Tail(stack) \in Seq(Item)
  BY <1>1
<1>3. PICK kind \in Kinds, x \in Message : Head(stack) = Notice(kind, x)
  BY <1>1, <1>2 DEF Item
<1>4. Head(stack).do = kind /\ Head(stack).message = x
  BY <1>3, NoticeKinds
<1>5. heard' = [heard EXCEPT ![x] = IF kind = "inserted" THEN heard[x] + 1 ELSE heard[x] - 1]
  BY <1>4 DEF Emit
<1>6. heard' \in [Message -> Int]
  BY <1>1, <1>5
<1>7. ASSUME NEW m \in Message PROVE heard'[m] + Owed(m)' = heard[m] + Owed(m)
  <2> DEFINE enters == IF m = x /\ kind = "inserted" THEN 1 ELSE 0
             leaves == IF m = x /\ kind # "inserted" THEN 1 ELSE 0
             e == Many(Entering(m), Tail(stack))
             l == Many(Leaving(m), Tail(stack))
  <2>1. Head(stack) \in Entering(m) <=> m = x /\ kind = "inserted"
    BY <1>3, NoticeKinds DEF Entering
  <2>2. Head(stack) \in Leaving(m) <=> m = x /\ kind # "inserted"
    <3>1. kind # "inserted" <=> kind = "discarded" \/ kind = "claimed"
      BY DEF Kinds
    <3> QED BY <1>3, <3>1, NoticeKinds DEF Leaving
  <2>3. e \in Nat /\ Many(Entering(m), stack) = enters + e
    BY <1>1, <2>1, ManyHead
  <2>4. l \in Nat /\ Many(Leaving(m), stack) = leaves + l
    BY <1>1, <2>2, ManyHead
  <2>5. Owed(m)' = e - l
    BY <1>1 DEF Owed, Many, Entering, Leaving
  <2>6. Owed(m) = (enters + e) - (leaves + l)
    BY <2>3, <2>4, OwedIs
  <2>7. heard'[m] = heard[m] + enters - leaves /\ heard[m] \in Int
    BY <1>1, <1>5
  <2>8. enters \in Int /\ leaves \in Int
    OBVIOUS
  <2> HIDE DEF enters, leaves, e, l
  <2> QED BY <2>3, <2>4, <2>5, <2>6, <2>7, <2>8
<1>8. NoticesOwed'
  <2>1. Pending(lists)' = Pending(lists)
    BY <1>1 DEF Pending
  <2> QED BY <1>7, <2>1 DEF IInv, NoticesOwed
<1> QED BY <1>1, <1>2, <1>6, <1>8 DEF IInv, Types, UniquelyPending, Rebuilds

LEMMA InitHolds == Init => IInv
<1> SUFFICES ASSUME Init PROVE IInv
  OBVIOUS
<1>1. /\ lists = EmptyInbox /\ log = <<>> /\ stack = <<>> /\ open = TRUE
      /\ heard = [m \in Message |-> 0]
  BY DEF Init
<1>2. Types
  BY <1>1 DEF Types, EmptyInbox
<1>3. /\ NextTurn \in Target /\ NextStep \in Target
      /\ \A t \in Target : lists[t] = <<>>
  BY <1>1 DEF EmptyInbox, Target
<1>4. UniquelyPending(lists) /\ Pending(lists) = {}
  BY <1>3 DEF UniquelyPending, Pending, IsInjective, Range
<1>5. Rebuilds(log, lists)
  <2> DEFINE f == [k \in {0} |-> EmptyInbox]
  <2>1. Len(log) = 0 /\ 0..0 = {0}
    BY <1>1
  <2>2. f = [k \in 0..0 |-> IF k = 0 THEN EmptyInbox ELSE Apply(f[k - 1], log[k])]
    BY <2>1
  <2>3. f[0] = lists
    BY <1>1
  <2> HIDE DEF f
  <2> QED BY <2>1, <2>2, <2>3 DEF Rebuilds
<1>6. NoticesOwed
  <2> SUFFICES ASSUME NEW m \in Message PROVE heard[m] + Owed(m) = 0
    BY <1>4 DEF NoticesOwed
  <2>1. Many(Entering(m), stack) = 0 /\ Many(Leaving(m), stack) = 0
    BY <1>1, ManyNone
  <2> QED BY <1>1, <2>1, OwedIs
<1> QED BY <1>2, <1>4, <1>5, <1>6 DEF IInv

LEMMA NextKeeps == IInv /\ [Next]_vars => IInv'
<1> SUFFICES ASSUME IInv, [Next]_vars PROVE IInv'
  OBVIOUS
<1>1. /\ lists \in [Target -> Seq(Message)] /\ Coordinates \subseteq Int
      /\ \A t \in Target : Len(lists[t]) \in Int /\ DOMAIN lists[t] \subseteq Int
  BY LogAssumption DEF IInv, Types
<1>2. CASE Emit
  BY <1>2, EmitKeeps
<1>3. CASE FinishClear
  BY <1>3, FinishClearKeeps
<1>4. CASE Clear
  BY <1>4, ClearKeeps
<1>5. ASSUME NEW t \in Target, Claim(t) PROVE IInv'
  BY <1>5, ClaimKeeps
<1>6. ASSUME NEW t \in Target, NEW start \in Coordinates, NEW count \in Coordinates, NEW n \in 0..2,
             NEW ins \in [1..n -> Message], SpliceCall(t, start, count, ins)
      PROVE  IInv'
  <2>1. ins \in Seq(Message) /\ start \in Int /\ count \in Int
    BY <1>1
  <2> QED BY <1>6, <2>1, SpliceKeeps
<1>7. ASSUME NEW t \in Target, NEW m \in Message, AppendCall(t, m) \/ PrependCall(t, m)
      PROVE  IInv'
  <2>1. <<m>> \in Seq(Message) /\ 0 \in Int /\ Len(lists[t]) \in Int
    BY <1>1
  <2> QED BY <1>7, <2>1, SpliceKeeps DEF AppendCall, PrependCall
<1>8. ASSUME NEW t \in Target, NEW i \in DOMAIN lists[t], RemoveCall(t, i)
      PROVE  IInv'
  <2>1. <<>> \in Seq(Message) /\ i - 1 \in Int /\ 1 \in Int
    BY <1>1
  <2> QED BY <1>8, <2>1, SpliceKeeps DEF RemoveCall
<1>9. ASSUME NEW t \in Target, NEW i \in DOMAIN lists[t], NEW m \in Message, ReplaceCall(t, i, m)
      PROVE  IInv'
  <2>1. <<m>> \in Seq(Message) /\ i - 1 \in Int /\ 1 \in Int
    BY <1>1
  <2> QED BY <1>9, <2>1, SpliceKeeps DEF ReplaceCall
<1>10. CASE UNCHANGED vars
  <2>1. UNCHANGED <<lists, log, stack, open, heard>>
    BY <1>10 DEF vars
  <2>2. NoticesOwed'
    BY <2>1 DEF IInv, NoticesOwed, Owed, Pending
  <2> QED BY <2>1, <2>2 DEF IInv, Types, UniquelyPending, Rebuilds
<1> QED BY <1>2, <1>3, <1>4, <1>5, <1>6, <1>7, <1>8, <1>9, <1>10 DEF Next

----------------------------------------------------------------------------
(* The theorems.                                                           *)

\* What every operation of the inbox keeps: nobody is pending twice, the log
\* comes to the live lists, and the notices owed account for every message.
THEOREM InboxInductive == Spec => []IInv
  BY InitHolds, NextKeeps, PTL DEF Spec

\* Whatever coordinates callers give, a recorded splice has natural ones, a
\* known target and outcome, and a list of messages to insert.
THEOREM InboxTypes == Spec => []TypeOK
<1>1. IInv => TypeOK
  <2> SUFFICES ASSUME IInv PROVE TypeOK
    OBVIOUS
  <2>1. \A k \in DOMAIN log : log[k] \in Event
    BY DEF IInv, Types
  <2>2. ASSUME NEW e \in Event
        PROVE  /\ e.target \in Target /\ e.start \in Nat /\ e.removedCount \in Nat
               /\ e.inserted \in Seq(Message) /\ e.outcome \in {"canceled", "none"}
    BY DEF Event
  <2> QED BY <2>1, <2>2 DEF IInv, Types, TypeOK
<1> QED BY <1>1, InboxInductive, PTL

\* A session that is resumed from the log has the inbox the live one had.
THEOREM ResumeRebuilds == Spec => []ReplayRebuilds
<1>1. IInv => ReplayRebuilds
  <2> SUFFICES ASSUME IInv PROVE Replayed(log) = lists
    BY DEF ReplayRebuilds
  <2>1. Len(log) \in Nat /\ Rebuilds(log, lists)
    BY DEF IInv, Types
  <2> QED BY <2>1, ReplayedIs
<1> QED BY <1>1, InboxInductive, PTL

\* However the listeners' calls nest, the notices a subscriber has heard and
\* those still owed to it say exactly which messages are pending.
THEOREM NoticesAgree == Spec => []NoticesOwed
<1>1. IInv => NoticesOwed
  BY DEF IInv
<1> QED BY <1>1, InboxInductive, PTL
=============================================================================
