-------------------------- MODULE PersistenceProofs --------------------------
(***************************************************************************)
(* SessionPersistence for any processes, handles, sessions and faults but  *)
(* "late", the use of a handle after its close has taken its last look:    *)
(* one mutator, the claim and the lock, closes, and the promise of         *)
(* DurableLog.                                                             *)
(***************************************************************************)
EXTENDS SessionPersistence, SequenceTheorems, TLAPS

(* The inductive invariant.                                                *)

\* Everything a handle remembers, its timer and its pause aside, is as it was before it was
\* obtained.
Blank(h) ==
  /\ length[h] = 0 /\ cursor[h] = 0 /\ ~materialized[h] /\ ~repair[h] /\ recovered[h] = <<>>
  /\ chain[h] = <<>> /\ step[h] = "none" /\ batch[h] = <<>> /\ buffered[h] = <<>>
  /\ ~draining[h] /\ closing[h] = "no" /\ ~failures[h]

\* Who has the claim of a process and who the lock.
Owned(h) ==
  /\ Writer(h) <=> stage[h] \in {"opening", "locked", "open"}
  /\ lock = h <=> leased[h] /\ closing[h] # "free"
  /\ leased[h] => stage[h] \in {"locked", "open"}
  /\ stage[h] = "locked" => leased[h] /\ exists
  /\ stage[h] # "open" => Blank(h)

\* The chain never holds more than a turn and a drain behind it.
Chains == {<<>>, <<"append">>, <<"flush">>, <<"drain">>, <<"flush", "drain">>}
DrainChains == {<<"drain">>, <<"flush", "drain">>}

\* What goes with each await of a turn and of a close.
InTurn(h) ==
  /\ draining[h] <=> chain[h] \in DrainChains
  /\ step[h] # "none" => chain[h] # <<>>
  /\ step[h] \notin {"none", "lease"} => leased[h]
  /\ step[h] \in {"rewrite", "write"} => ~repair[h]
  /\ step[h] = "rewrite" => materialized[h]
  /\ step[h] = "write" => recovered[h] = <<>>
  /\ materialized[h] => leased[h]
  /\ ~materialized[h] => cursor[h] = 0 /\ ~repair[h] /\ recovered[h] = <<>>
  /\ closing[h] \in {"release", "free"} => chain[h] = <<>>

Numbers(s, n) == \A i \in 1..Len(s) : s[i].seq = n + i

\* The events a handle has not stored follow the ones it has, without a gap.
Remembers(h) ==
  /\ Numbers(batch[h], cursor[h])
  /\ Numbers(buffered[h], cursor[h] + Len(batch[h]))
  /\ Len(recovered[h]) <= cursor[h]
  /\ chain[h] = <<"append">> =>
       Len(batch[h]) = 1 /\ buffered[h] = <<>> /\ cursor[h] = length[h]
  /\ chain[h] # <<"append">> =>
       /\ cursor[h] + Len(batch[h]) + Len(buffered[h]) = length[h]
       /\ step[h] = "none" \/ chain[h] # <<"drain">> => batch[h] = <<>>

\* What is on disk.
LogInv ==
  /\ ~exists => lines = <<>> /\ fragment = <<>> /\ ~torn /\ acked = 0
  /\ acked <= Len(lines)
  /\ Numbers(lines, 0) /\ Numbers(fragment, Len(lines))
  /\ fragment # <<>> => torn

\* What the holder of the lock knows of the log once it has read or written it.
Knows(h) ==
  lock = h /\ materialized[h] =>
    /\ exists
    /\ cursor[h] = Len(lines) + Len(recovered[h])
    /\ Numbers(recovered[h], Len(lines))
    /\ fragment \in {<<>>, recovered[h]}
    /\ ~repair[h] => ~torn

LogTypes ==
  /\ framed \in BOOLEAN /\ exists \in BOOLEAN /\ torn \in BOOLEAN
  /\ lines \in Seq(Event) /\ fragment \in Seq(Event) /\ acked \in Nat

Types ==
  /\ LogTypes
  /\ lock \in Handle \cup {NoOne}
  /\ claim \in [Process -> Handle \cup {NoOne}]
  /\ stage \in [Handle -> {"unused", "creating", "opening", "locked", "open", "closed",
                           "failed", "dead"}]
  /\ length \in [Handle -> 0..MaxSeq] /\ cursor \in [Handle -> Nat]
  /\ materialized \in [Handle -> BOOLEAN] /\ repair \in [Handle -> BOOLEAN]
  /\ recovered \in [Handle -> Seq(Event)] /\ leased \in [Handle -> BOOLEAN]
  /\ chain \in [Handle -> Chains] /\ step \in [Handle -> Steps]
  /\ batch \in [Handle -> Seq(Event)] /\ buffered \in [Handle -> Seq(Event)]
  /\ timer \in [Handle -> BOOLEAN] /\ drainPaused \in [Handle -> BOOLEAN]
  /\ draining \in [Handle -> BOOLEAN]
  /\ closing \in [Handle -> {"no", "drain", "release", "free"}]
  /\ failures \in [Handle -> BOOLEAN]

OwnerInv ==
  /\ \A p \in Process : claim[p] # NoOne => Home[claim[p]] = p
  /\ \A h \in Handle : Owned(h)
TurnInv == \A h \in Handle : InTurn(h)
MemoryInv == \A h \in Handle : Remembers(h)
DiskInv == LogInv /\ \A h \in Handle : Knows(h)

IInv == Types /\ OwnerInv /\ TurnInv /\ MemoryInv /\ DiskInv

\* The fault of the late use is left out: with it a handle is written to after its close.
Sound == "late" \notin Faults

----------------------------------------------------------------------------
(* Lemmas about chains and numbered sequences.                             *)

\* The chains differ, and what their heads and tails are.
LEMMA ChainsDiffer ==
  /\ Chains \subseteq Seq({"append", "flush", "drain"})
  /\ <<>> \notin DrainChains /\ <<"append">> \notin DrainChains /\ <<"flush">> \notin DrainChains
  /\ <<"append">> # <<>> /\ <<"flush">> # <<>> /\ <<"append">> # <<"flush">>
  /\ <<"drain">> # <<"flush", "drain">>
<1>1. Len(<<>>) = 0 /\ Len(<<"append">>) = 1 /\ Len(<<"flush">>) = 1 /\ Len(<<"drain">>) = 1
      /\ Len(<<"flush", "drain">>) = 2
  OBVIOUS
<1>2. <<"append">>[1] = "append" /\ <<"flush">>[1] = "flush" /\ <<"drain">>[1] = "drain"
  OBVIOUS
<1>3. Chains \subseteq Seq({"append", "flush", "drain"})
  BY DEF Chains
<1> QED BY <1>1, <1>2, <1>3 DEF DrainChains

LEMMA ChainHeads ==
  ASSUME NEW c \in Chains, c # <<>>
  PROVE  /\ Head(c) \in {"append", "flush", "drain"}
         /\ Head(c) = "append" <=> c = <<"append">>
         /\ Head(c) = "drain" <=> c = <<"drain">>
<1>1. Head(<<"append">>) = "append" /\ Head(<<"flush">>) = "flush" /\ Head(<<"drain">>) = "drain"
      /\ Head(<<"flush", "drain">>) = "flush"
  OBVIOUS
<1> QED BY <1>1 DEF Chains

LEMMA OneTurn ==
  ASSUME NEW S, NEW s \in Seq(S), NEW x \in S, Len(s) = 1, s[1] = x
  PROVE  s = <<x>>
<1>1. <<x>> \in Seq(S) /\ Len(<<x>>) = 1 /\ <<x>>[1] = x
  OBVIOUS
<1> QED BY <1>1, SeqEqual

LEMMA TwoTurns ==
  ASSUME NEW S, NEW s \in Seq(S), NEW x \in S, NEW y \in S, Len(s) = 2, s[1] = x, s[2] = y
  PROVE  s = <<x, y>>
<1>1. <<x, y>> \in Seq(S) /\ Len(<<x, y>>) = 2 /\ <<x, y>>[1] = x /\ <<x, y>>[2] = y
  OBVIOUS
<1> QED BY <1>1, SeqEqual

LEMMA ChainTails ==
  ASSUME NEW c \in Chains, c # <<>>
  PROVE  Tail(c) = IF c = <<"flush", "drain">> THEN <<"drain">> ELSE <<>>
<1>1. Tail(<<"append">>) = <<>> /\ Tail(<<"flush">>) = <<>> /\ Tail(<<"drain">>) = <<>>
  OBVIOUS
<1>2. ASSUME NEW S, NEW x \in S, NEW y \in S
      PROVE  Tail(<<x, y>>) = <<y>>
  <2>1. <<x, y>> \in Seq(S) /\ Len(<<x, y>>) = 2 /\ <<x, y>>[2] = y
    OBVIOUS
  <2>2. Tail(<<x, y>>) \in Seq(S) /\ Len(Tail(<<x, y>>)) = 1 /\ Tail(<<x, y>>)[1] = y
    BY <2>1
  <2> QED BY <2>2, OneTurn
<1>3. Len(<<"append">>) = 1 /\ Len(<<"flush">>) = 1 /\ Len(<<"drain">>) = 1
      /\ Len(<<"flush", "drain">>) = 2
  OBVIOUS
<1>4. Tail(<<"flush", "drain">>) = <<"drain">>
  <2>1. "flush" \in {"flush", "drain"} /\ "drain" \in {"flush", "drain"}
    OBVIOUS
  <2> QED BY <2>1, <1>2
<1> QED BY <1>1, <1>3, <1>4 DEF Chains

LEMMA ChainAppends ==
  ASSUME NEW S, NEW x \in S, NEW y \in S
  PROVE  Append(<<>>, x) = <<x>> /\ Append(<<x>>, y) = <<x, y>>
<1>1. <<x>> \in Seq(S) /\ Len(<<x>>) = 1 /\ <<x>>[1] = x
  OBVIOUS
<1>2. <<>> \in Seq(S) /\ Len(<<>>) = 0
  OBVIOUS
<1>3. Append(<<>>, x) \in Seq(S) /\ Len(Append(<<>>, x)) = 1 /\ Append(<<>>, x)[1] = x
  BY <1>2
<1>4. /\ Append(<<x>>, y) \in Seq(S) /\ Len(Append(<<x>>, y)) = 2
      /\ Append(<<x>>, y)[1] = x /\ Append(<<x>>, y)[2] = y
  BY <1>1
<1>5. ASSUME NEW t, t = Append(<<>>, x) PROVE t = <<x>>
  <2>1. t \in Seq(S) /\ Len(t) = 1 /\ t[1] = x
    BY <1>3, <1>5, Zenon
  <2> QED BY <2>1, OneTurn, Zenon
<1>6. ASSUME NEW t, t = Append(<<x>>, y) PROVE t = <<x, y>>
  <2>1. t \in Seq(S) /\ Len(t) = 2 /\ t[1] = x /\ t[2] = y
    BY <1>4, <1>6, Zenon
  <2> QED BY <2>1, TwoTurns, Zenon
<1> QED BY <1>5, <1>6, Zenon

\* Numbering goes on over a concatenation, and a prefix keeps it.
LEMMA NumbersConcat ==
  ASSUME NEW s \in Seq(Event), NEW t \in Seq(Event), NEW n \in Nat,
         Numbers(s, n), Numbers(t, n + Len(s))
  PROVE  /\ s \o t \in Seq(Event) /\ Len(s \o t) = Len(s) + Len(t)
         /\ Numbers(s \o t, n)
<1>1. s \o t \in Seq(Event) /\ Len(s \o t) = Len(s) + Len(t)
  OBVIOUS
<1>2. ASSUME NEW i \in 1..Len(s) + Len(t)
      PROVE  (s \o t)[i].seq = n + i
  <2>1. CASE i <= Len(s)
    <3>1. (s \o t)[i] = s[i] /\ i \in 1..Len(s)
      BY <2>1
    <3> QED BY <3>1 DEF Numbers
  <2>2. CASE i > Len(s)
    <3>1. (s \o t)[i] = t[i - Len(s)] /\ i - Len(s) \in 1..Len(t)
      BY <2>2
    <3> QED BY <3>1 DEF Numbers
  <2> QED BY <2>1, <2>2
<1> QED BY <1>1, <1>2 DEF Numbers

LEMMA NumbersAppend ==
  ASSUME NEW s \in Seq(Event), NEW e \in Event, NEW n \in Nat,
         Numbers(s, n), e.seq = n + Len(s) + 1
  PROVE  /\ Append(s, e) \in Seq(Event) /\ Len(Append(s, e)) = Len(s) + 1
         /\ Numbers(Append(s, e), n)
<1>1. Append(s, e) \in Seq(Event) /\ Len(Append(s, e)) = Len(s) + 1
  OBVIOUS
<1>2. \A i \in 1..Len(s) : Append(s, e)[i] = s[i]
  BY AppendProperties
<1>3. Append(s, e)[Len(s) + 1] = e
  BY AppendProperties
<1> QED BY <1>1, <1>2, <1>3 DEF Numbers

LEMMA NumbersPrefix ==
  ASSUME NEW s \in Seq(Event), NEW n \in Nat, NEW k \in 0..Len(s), Numbers(s, n)
  PROVE  /\ SubSeq(s, 1, k) \in Seq(Event) /\ Len(SubSeq(s, 1, k)) = k
         /\ Numbers(SubSeq(s, 1, k), n)
<1>1. \A i \in 1..k : s[i] \in Event
  OBVIOUS
<1>2. /\ SubSeq(s, 1, k) \in Seq(Event) /\ Len(SubSeq(s, 1, k)) = k
      /\ \A i \in 1..k : SubSeq(s, 1, k)[i] = s[i]
  BY <1>1, SubSeqProperties
<1> QED BY <1>2 DEF Numbers

\* A numbered log is no longer than the numbers an event can have.
LEMMA NumbersBound ==
  ASSUME NEW s \in Seq(Event), NEW n \in Nat, Numbers(s, n)
  PROVE  s = <<>> \/ n + Len(s) <= MaxSeq
<1>1. ASSUME s # <<>> PROVE n + Len(s) <= MaxSeq
  <2>1. Len(s) \in 1..Len(s)
    BY <1>1
  <2>2. s[Len(s)] \in Event /\ s[Len(s)].seq = n + Len(s)
    BY <2>1 DEF Numbers
  <2> QED BY <2>2, HandleAssumption DEF Event
<1> QED BY <1>1

----------------------------------------------------------------------------
(* The invariant holds at first.                                           *)

LEMMA EmptyFacts ==
  /\ <<>> \in Seq(Event) /\ Len(<<>>) = 0
  /\ \A n \in Nat : Numbers(<<>>, n)
  BY DEF Numbers

LEMMA InitIInv == Init => IInv
<1> SUFFICES ASSUME Init PROVE IInv
  OBVIOUS
<1>1. Types
  <2>1. <<>> \in Seq(Event) /\ <<>> \in Chains /\ 0 \in 0..MaxSeq /\ "none" \in Steps
    BY EmptyFacts, HandleAssumption DEF Chains, Steps
  <2> QED BY <2>1 DEF Init, Types, LogTypes
<1>2. OwnerInv
  BY HandleAssumption DEF Init, OwnerInv, Owned, Writer, Blank
<1>3. TurnInv
  BY ChainsDiffer DEF Init, TurnInv, InTurn
<1>4. MemoryInv
  BY EmptyFacts, ChainsDiffer DEF Init, MemoryInv, Remembers
<1>5. DiskInv
  BY EmptyFacts, HandleAssumption DEF Init, DiskInv, LogInv, Knows
<1> QED BY <1>1, <1>2, <1>3, <1>4, <1>5 DEF IInv

----------------------------------------------------------------------------
(* create() and open().                                                    *)

USE DEF disk, owners, state, turn, buffer, ending

\* What a reader is given is numbered, and no longer than the session may be.
LEMMA StoredFacts ==
  ASSUME Types, LogInv
  PROVE  /\ Stored \in Seq(Event) /\ Len(Stored) = Len(lines) + Len(fragment)
         /\ Numbers(Stored, 0) /\ Len(Stored) \in 0..MaxSeq
<1>1. /\ Stored \in Seq(Event) /\ Len(Stored) = Len(lines) + Len(fragment)
      /\ Numbers(Stored, 0)
  BY NumbersConcat DEF Types, LogTypes, LogInv, Stored
<1>2. Len(Stored) <= MaxSeq
  BY <1>1, NumbersBound, HandleAssumption
<1> QED BY <1>1, <1>2

LEMMA ObtainStep ==
  ASSUME IInv, NEW h \in Handle, Obtain(h)
  PROVE  IInv'
<1> USE HandleAssumption DEF IInv
<1>1. CASE CreateLooks(h)
  <2> USE <1>1 DEF CreateLooks
  <2>1. Types'
    BY DEF Types, LogTypes, Become
  <2>2. OwnerInv'
    BY DEF Types, LogTypes, OwnerInv, Owned, Writer, Blank, Become
  <2>3. TurnInv'
    BY DEF Types, LogTypes, OwnerInv, Owned, Blank, TurnInv, InTurn, Become
  <2>4. MemoryInv'
    BY DEF MemoryInv, Remembers, Become
  <2>5. DiskInv'
    BY DEF Types, LogTypes, OwnerInv, Owned, Blank, TurnInv, InTurn, DiskInv, LogInv, Knows, Become
  <2> QED BY <2>1, <2>2, <2>3, <2>4, <2>5
<1>2. CASE CreateRegisters(h) /\ claim[Home[h]] = NoOne
  <2>0. /\ stage[h] = "creating" /\ stage' = [stage EXCEPT ![h] = "open"]
        /\ claim' = [claim EXCEPT ![Home[h]] = h]
        /\ UNCHANGED <<disk, lock, length, state, leased, turn, buffer, ending>>
    BY <1>2 DEF CreateRegisters, Become, Own
  <2> USE <1>2, <2>0
  <2>1. Types'
    BY DEF Types, LogTypes
  <2>2. OwnerInv'
    <3>1. /\ \A k \in Handle : stage'[k] = IF k = h THEN "open" ELSE stage[k]
          /\ \A p \in Process : claim'[p] = IF p = Home[h] THEN h ELSE claim[p]
      BY DEF Types
    <3>2. OwnerInv
      OBVIOUS
    <3> HIDE DEF IInv
    <3> QED BY <3>1, <3>2 DEF OwnerInv, Owned, Writer, Blank
  <2>3. TurnInv'
    BY DEF TurnInv, InTurn
  <2>4. MemoryInv'
    BY DEF MemoryInv, Remembers
  <2>5. DiskInv'
    BY DEF DiskInv, LogInv, Knows
  <2> QED BY <2>1, <2>2, <2>3, <2>4, <2>5
<1>3. CASE CreateRegisters(h) /\ claim[Home[h]] # NoOne
  <2>0. /\ stage[h] = "creating" /\ stage' = [stage EXCEPT ![h] = "failed"]
        /\ UNCHANGED <<disk, lock, claim, length, state, leased, turn, buffer, ending>>
    BY <1>3 DEF CreateRegisters, Become, Own
  <2> USE <1>3, <2>0
  <2>1. Types'
    BY DEF Types, LogTypes
  <2>2. OwnerInv'
    <3>1. /\ \A k \in Handle : stage'[k] = IF k = h THEN "failed" ELSE stage[k]
          /\ claim' = claim
      BY DEF Types
    <3>2. OwnerInv
      OBVIOUS
    <3> HIDE DEF IInv
    <3> QED BY <3>1, <3>2 DEF OwnerInv, Owned, Writer, Blank
  <2>3. TurnInv'
    BY DEF TurnInv, InTurn
  <2>4. MemoryInv'
    BY DEF MemoryInv, Remembers
  <2>5. DiskInv'
    BY DEF DiskInv, LogInv, Knows
  <2> QED BY <2>1, <2>2, <2>3, <2>4, <2>5
<1>4. CASE OpenClaims(h)
  <2> USE <1>4 DEF OpenClaims
  <2>1. Types'
    BY DEF Types, LogTypes, Become, Own
  <2>2. OwnerInv'
    <3>1. /\ \A k \in Handle : stage'[k] = IF k = h THEN "opening" ELSE stage[k]
          /\ \A p \in Process : claim'[p] = IF p = Home[h] THEN h ELSE claim[p]
      BY DEF Types, Become, Own
    <3>2. OwnerInv
      OBVIOUS
    <3> HIDE DEF IInv
    <3> QED BY <3>1, <3>2 DEF OwnerInv, Owned, Writer, Blank
  <2>3. TurnInv'
    BY DEF Types, LogTypes, OwnerInv, Owned, Blank, TurnInv, InTurn, Become, Own
  <2>4. MemoryInv'
    BY DEF MemoryInv, Remembers, Become, Own
  <2>5. DiskInv'
    BY DEF Types, LogTypes, OwnerInv, Owned, Blank, TurnInv, InTurn, DiskInv, LogInv, Knows, Become, Own
  <2> QED BY <2>1, <2>2, <2>3, <2>4, <2>5
<1>5. CASE OpenLocks(h)
  <2> USE <1>5 DEF OpenLocks
  <2>1. Types'
    BY DEF Types, LogTypes, Become
  <2>2. OwnerInv'
    BY DEF Types, LogTypes, OwnerInv, Owned, Writer, Blank, Become
  <2>3. TurnInv'
    BY DEF Types, LogTypes, OwnerInv, Owned, Blank, TurnInv, InTurn, Become
  <2>4. MemoryInv'
    BY DEF MemoryInv, Remembers, Become
  <2>5. DiskInv'
    BY DEF Types, LogTypes, OwnerInv, Owned, Blank, TurnInv, InTurn, DiskInv, LogInv, Knows, Become
  <2> QED BY <2>1, <2>2, <2>3, <2>4, <2>5
<1>6. CASE OpenReads(h)
  <2> USE <1>6 DEF OpenReads
  <2>0. /\ Len(Stored) = Len(lines) + Len(fragment) /\ Len(Stored) \in 0..MaxSeq
        /\ Len(fragment) \in Nat
    BY StoredFacts DEF Types, LogTypes, DiskInv
  <2>1. Types'
    <3>1. /\ stage' \in [Handle -> {"unused", "creating", "opening", "locked", "open", "closed",
                                 "failed", "dead"}]
          /\ length' \in [Handle -> 0..MaxSeq] /\ cursor' \in [Handle -> Nat]
      BY <2>0 DEF Types, LogTypes, Become
    <3>2. /\ materialized' \in [Handle -> BOOLEAN] /\ repair' \in [Handle -> BOOLEAN]
          /\ recovered' \in [Handle -> Seq(Event)]
      BY DEF Types, LogTypes
    <3>3. Types
      OBVIOUS
    <3> HIDE DEF IInv
    <3> QED BY <3>1, <3>2, <3>3 DEF Types, LogTypes
  <2>2. OwnerInv'
    BY DEF Types, LogTypes, OwnerInv, Owned, Writer, Blank, Become
  <2>3. TurnInv'
    <3>1. Blank(h) /\ leased[h]
      BY DEF OwnerInv, Owned
    <3>2. materialized'[h] /\ \A k \in Handle : k # h => /\ materialized'[k] = materialized[k]
                                                         /\ repair'[k] = repair[k]
                                                         /\ recovered'[k] = recovered[k]
                                                         /\ cursor'[k] = cursor[k]
      BY DEF Types
    <3>3. TurnInv
      OBVIOUS
    <3> HIDE DEF IInv
    <3>4. InTurn(h)'
      <4>1. UNCHANGED <<chain, step, leased, draining, closing>>
        OBVIOUS
      <4>2. InTurn(h)
        BY <3>3 DEF TurnInv
      <4> HIDE <1>6
      <4> QED BY <3>1, <3>2, <4>1, <4>2 DEF InTurn, Blank
    <3>5. ASSUME NEW k \in Handle, k # h PROVE InTurn(k)'
      <4>1. InTurn(k)
        BY <3>3 DEF TurnInv
      <4> QED BY <3>2, <3>5, <4>1 DEF InTurn
    <3> QED BY <3>4, <3>5 DEF TurnInv
  <2>4. MemoryInv'
    <3>1. /\ length[h] = 0 /\ cursor[h] = 0 /\ chain[h] = <<>> /\ step[h] = "none"
          /\ batch[h] = <<>> /\ buffered[h] = <<>>
      BY DEF OwnerInv, Owned, Blank
    <3>2. Remembers(h)'
      BY <2>0, <3>1, EmptyFacts, ChainsDiffer DEF Types, LogTypes, Remembers
    <3>3. \A k \in Handle : k # h => Remembers(k)'
      BY DEF Types, LogTypes, MemoryInv, Remembers
    <3> QED BY <3>2, <3>3 DEF MemoryInv
  <2>5. DiskInv'
    <3>1. lock = h /\ exists
      BY DEF OwnerInv, Owned, Blank
    <3> QED BY <2>0, <3>1 DEF Types, LogTypes, DiskInv, LogInv, Knows
  <2> QED BY <2>1, <2>2, <2>3, <2>4, <2>5
<1>7. CASE OpenFails(h)
  <2> USE <1>7 DEF OpenFails
  <2>1. Types'
    BY DEF Types, LogTypes, Become, Unlock, Disown
  <2>2. OwnerInv'
    BY DEF Types, LogTypes, OwnerInv, Owned, Writer, Blank, Become, Unlock, Disown
  <2>3. TurnInv'
    BY DEF Types, LogTypes, OwnerInv, Owned, Blank, TurnInv, InTurn, Become, Unlock, Disown
  <2>4. MemoryInv'
    BY DEF MemoryInv, Remembers, Become, Unlock, Disown
  <2>5. DiskInv'
    <3>1. \A k \in Handle : lock' = k => lock = k
      BY DEF Types, Unlock
    <3>2. DiskInv
      OBVIOUS
    <3> HIDE DEF IInv
    <3> QED BY <3>1, <3>2 DEF DiskInv, LogInv, Knows
  <2> QED BY <2>1, <2>2, <2>3, <2>4, <2>5
<1> QED BY <1>1, <1>2, <1>3, <1>4, <1>5, <1>6, <1>7 DEF Obtain

----------------------------------------------------------------------------
(* What the owner asks, and the drains.                                    *)

\* What the handle k remembers, its timer and its pause aside, stays as it is.
Same(k) ==
  /\ length'[k] = length[k] /\ cursor'[k] = cursor[k] /\ materialized'[k] = materialized[k]
  /\ repair'[k] = repair[k] /\ recovered'[k] = recovered[k] /\ leased'[k] = leased[k]
  /\ chain'[k] = chain[k] /\ step'[k] = step[k] /\ batch'[k] = batch[k]
  /\ buffered'[k] = buffered[k] /\ draining'[k] = draining[k] /\ closing'[k] = closing[k] /\ failures'[k] = failures[k]

\* What an open handle does without taking or leaving the claim or the lock.
LEMMA OwnerStep ==
  ASSUME OwnerInv, NEW h \in Handle, Live(h), \A k \in Handle : k # h => Same(k),
         exists => exists', UNCHANGED <<owners, stage, leased>>,
         closing[h] = "free" <=> closing'[h] = "free"
  PROVE  OwnerInv'
<1>1. Owned(h)'
  BY DEF OwnerInv, Owned, Writer, Live
<1>2. ASSUME NEW k \in Handle, k # h
      PROVE  Owned(k)'
  <2>1. Same(k) /\ Owned(k)
    BY <1>2 DEF OwnerInv
  <2>2. Blank(k) => Blank(k)'
    BY <2>1 DEF Same, Blank
  <2> QED BY <2>1, <2>2 DEF Same, Owned, Writer
<1>3. (\A p \in Process : claim[p] # NoOne => Home[claim[p]] = p)'
  BY DEF OwnerInv
<1> QED BY <1>1, <1>2, <1>3 DEF OwnerInv

LEMMA BystanderStep ==
  ASSUME TurnInv, MemoryInv, NEW k \in Handle, Same(k)
  PROVE  InTurn(k)' /\ Remembers(k)'
<1>1. InTurn(k)'
  BY DEF TurnInv, InTurn, Same
<1>2. Remembers(k)'
  BY DEF MemoryInv, Remembers, Same
<1> QED BY <1>1, <1>2

\* A drain that starts adds one turn at the end of a chain that has none; nothing else the
\* invariant speaks of moves.
LEMMA DrainStep ==
  ASSUME IInv, NEW h \in Handle, Live(h), DrainLive(h),
         timer' \in [Handle -> BOOLEAN], closing[h] \in {"no", "drain"},
         closing' \in {closing, [closing EXCEPT ![h] = "drain"]},
         UNCHANGED <<disk, owners, stage, length, state, leased, step, batch, buffered, failures>>
  PROVE  IInv'
<1> USE HandleAssumption DEF IInv
<1>0. /\ closing' \in [Handle -> {"no", "drain", "release", "free"}]
      /\ closing'[h] \in {"no", "drain"}
      /\ \A k \in Handle : k # h => closing'[k] = closing[k]
  BY DEF Types, LogTypes
<1>9. OwnerInv'
  <2>0. \A k \in Handle : k # h => /\ chain'[k] = chain[k] /\ draining'[k] = draining[k]
    <3>1. CASE draining[h]
      BY <3>1 DEF DrainLive
    <3>2. CASE ~draining[h]
      BY <3>2 DEF DrainLive, Types, LogTypes
    <3> QED BY <3>1, <3>2
  <2>1. \A k \in Handle : k # h => Same(k)
    BY <1>0, <2>0 DEF Same
  <2>2. closing[h] = "free" <=> closing'[h] = "free"
    BY <1>0
  <2> QED BY <2>1, <2>2, OwnerStep
<1>1. CASE draining[h]
  <2>0. UNCHANGED <<chain, drainPaused, draining>>
    BY <1>1 DEF DrainLive
  <2> USE <2>0 DEF Live
  <2>1. Types'
    BY <1>0 DEF Types, LogTypes
  <2>3. TurnInv'
    BY <1>0 DEF Types, LogTypes, TurnInv, InTurn
  <2>4. MemoryInv'
    BY DEF MemoryInv, Remembers
  <2>5. DiskInv'
    BY <1>0 DEF DiskInv, LogInv, Knows
  <2> QED BY <2>1, <1>9, <2>3, <2>4, <2>5
<1>2. CASE ~draining[h] /\ buffered[h] = <<>>
  <2>0. /\ chain' = chain /\ draining' = [draining EXCEPT ![h] = FALSE]
        /\ drainPaused' = [drainPaused EXCEPT ![h] = FALSE]
    <3>1. chain \in [Handle -> Chains]
      BY DEF Types
    <3> HIDE DEF IInv
    <3> QED BY <1>2, <3>1 DEF DrainLive
  <2> USE <1>2, <2>0 DEF Live
  <2>1. Types'
    BY <1>0 DEF Types, LogTypes
  <2>3. TurnInv'
    <3>1. draining \in [Handle -> BOOLEAN]
      BY DEF Types
    <3>2. TurnInv
      OBVIOUS
    <3> HIDE DEF IInv
    <3>3. \A k \in Handle : draining'[k] = draining[k]
      BY <3>1
    <3> QED BY <1>0, <3>2, <3>3 DEF TurnInv, InTurn
  <2>4. MemoryInv'
    BY DEF MemoryInv, Remembers
  <2>5. DiskInv'
    BY <1>0 DEF DiskInv, LogInv, Knows
  <2> QED BY <2>1, <1>9, <2>3, <2>4, <2>5
<1>3. CASE ~draining[h] /\ buffered[h] # <<>>
  <2>0. /\ chain' = [chain EXCEPT ![h] = Append(chain[h], "drain")]
        /\ draining' = [draining EXCEPT ![h] = TRUE]
        /\ drainPaused' = [drainPaused EXCEPT ![h] = FALSE]
    BY <1>3 DEF DrainLive
  <2>6. chain[h] \in {<<>>, <<"flush">>}
    BY <1>3 DEF Types, LogTypes, Chains, DrainChains, TurnInv, InTurn, MemoryInv, Remembers
  <2>7. Append(chain[h], "drain") \in DrainChains
        /\ (Append(chain[h], "drain") = <<"drain">> <=> chain[h] = <<>>)
    <3>1. "flush" \in {"flush", "drain"} /\ "drain" \in {"flush", "drain"}
      OBVIOUS
    <3>3. /\ Append(<<>>, "drain") = <<"drain">>
          /\ Append(<<"flush">>, "drain") = <<"flush", "drain">>
      BY <3>1, ChainAppends
    <3>2. Len(<<"drain">>) = 1 /\ Len(<<"flush", "drain">>) = 2
      OBVIOUS
    <3>4. CASE chain[h] = <<>>
      BY <3>3, <3>4 DEF DrainChains
    <3>5. CASE chain[h] = <<"flush">>
      BY <3>2, <3>3, <3>5, ChainsDiffer DEF DrainChains
    <3> QED BY <2>6, <3>4, <3>5
  <2>8. DrainChains \subseteq Chains
    BY DEF DrainChains, Chains
  <2> HIDE DEF IInv
  <2> USE <1>3, <2>0, <2>6, <2>7 DEF Live
  <2>1. Types'
    BY <1>0, <2>8 DEF IInv, Types, LogTypes
  <2>3. TurnInv'
    <3>1. InTurn(h)'
      <4>1. draining'[h] /\ chain'[h] \in DrainChains /\ chain'[h] # <<>>
        BY ChainsDiffer DEF IInv, Types
      <4>2. InTurn(h)
        BY DEF IInv, TurnInv
      <4> QED BY <1>0, <4>1, <4>2 DEF InTurn
    <3>2. \A k \in Handle : k # h => InTurn(k)'
      BY <1>0 DEF IInv, Types, LogTypes, TurnInv, InTurn
    <3> QED BY <3>1, <3>2 DEF TurnInv
  <2>4. MemoryInv'
    <3>1. Remembers(h)'
      <4>1. batch[h] = <<>> /\ (chain[h] = <<>> => step[h] = "none")
        BY ChainsDiffer DEF IInv, DrainChains, TurnInv, InTurn, MemoryInv, Remembers
      <4>2. chain[h] # <<"append">> /\ chain'[h] # <<"append">>
        BY <1>0, <2>8, ChainsDiffer DEF IInv, Types, LogTypes
      <4>3. cursor[h] + Len(batch[h]) + Len(buffered[h]) = length[h]
        BY <4>2 DEF IInv, MemoryInv, Remembers
      <4> QED BY <4>1, <4>2, <4>3 DEF IInv, MemoryInv, Remembers
    <3>2. \A k \in Handle : k # h => Remembers(k)'
      BY DEF IInv, Types, LogTypes, MemoryInv, Remembers
    <3> QED BY <3>1, <3>2 DEF MemoryInv
  <2>5. DiskInv'
    BY <1>0 DEF IInv, DiskInv, LogInv, Knows
  <2> QED BY <2>1, <1>9, <2>3, <2>4, <2>5 DEF IInv
<1> QED BY <1>1, <1>2, <1>3

LEMMA UseStep ==
  ASSUME Sound, IInv, NEW h \in Handle, Use(h) \/ TimerFires(h) \/ CloseDrained(h)
  PROVE  IInv'
<1> USE HandleAssumption DEF IInv
<1>1. CASE Publish(h)
  <2> USE <1>1 DEF Publish
  <2>0. /\ Live(h) /\ length[h] < MaxSeq
        /\ NextEvent(h) \in Event /\ chain[h] # <<"append">>
    <3>1. Live(h) /\ length[h] < MaxSeq
      OBVIOUS
    <3>2. NextEvent(h) \in Event
      <4>1. length[h] \in 0..MaxSeq
        BY DEF Types
      <4> HIDE DEF IInv, Publish
      <4>2. length[h] + 1 \in 1..MaxSeq
        BY <3>1, <4>1
      <4> QED BY <4>2 DEF NextEvent, Event
    <3>3. "append" \in {<<"append">>[i] : i \in DOMAIN <<"append">>}
      OBVIOUS
    <3> QED BY <3>1, <3>2, <3>3
  <2>6. /\ Append(buffered[h], NextEvent(h)) \in Seq(Event)
        /\ Len(Append(buffered[h], NextEvent(h))) = Len(buffered[h]) + 1
        /\ Numbers(Append(buffered[h], NextEvent(h)), cursor[h] + Len(batch[h]))
    <3>1. NextEvent(h).seq = cursor[h] + Len(batch[h]) + Len(buffered[h]) + 1
      BY <2>0 DEF NextEvent, MemoryInv, Remembers
    <3> QED BY <2>0, <3>1, NumbersAppend DEF Types, LogTypes, MemoryInv, Remembers
  <2>7. \A k \in Handle : k # h => Same(k)
    BY DEF Same, Types, LogTypes
  <2>8. timer' \in [Handle -> BOOLEAN]
    <3>1. (timer[h] \/ ~drainPaused[h]) \in BOOLEAN
      OBVIOUS
    <3> QED BY <3>1 DEF Types, LogTypes
  <2>9. length[h] + 1 \in 0..MaxSeq
    BY <2>0 DEF Types, LogTypes
  <2>1. Types'
    BY <2>6, <2>8, <2>9 DEF Types, LogTypes
  <2>2. OwnerInv'
    BY <2>0, <2>7, OwnerStep
  <2>3. TurnInv'
    BY <2>0 DEF Types, LogTypes, TurnInv, InTurn
  <2>4. MemoryInv'
    <3>1. Remembers(h)'
      <4>1. /\ length'[h] = length[h] + 1 /\ buffered'[h] = Append(buffered[h], NextEvent(h))
            /\ UNCHANGED <<chain, step, batch, cursor, recovered>>
        BY DEF Types, LogTypes
      <4>2. /\ Remembers(h) /\ length[h] \in Nat /\ cursor[h] \in Nat
            /\ Len(batch[h]) \in Nat /\ Len(buffered[h]) \in Nat
        BY DEF Types, LogTypes, MemoryInv
      <4> HIDE DEF IInv, Publish
      <4>3. cursor[h] + Len(batch[h]) + Len(buffered[h]) = length[h]
        BY <2>0, <4>2 DEF Remembers
      <4>4. (cursor[h] + Len(batch[h]) + Len(buffered[h]) = length[h])'
        BY <2>6, <4>1, <4>2, <4>3
      <4>5. Numbers(buffered[h], cursor[h] + Len(batch[h]))'
        BY <2>6, <4>1
      <4> QED BY <2>0, <4>1, <4>2, <4>4, <4>5 DEF Remembers
    <3> QED BY <2>7, <3>1, BystanderStep DEF MemoryInv
  <2>5. DiskInv'
    BY DEF DiskInv, LogInv, Knows
  <2> QED BY <2>1, <2>2, <2>3, <2>4, <2>5
<1>2. CASE AppendEvent(h)
  <2> USE <1>2 DEF AppendEvent
  <2>0. NextEvent(h) \in Event /\ NextEvent(h).seq = length[h] + 1
    BY DEF NextEvent, Event, Types, LogTypes
  <2>6. /\ <<NextEvent(h)>> \in Seq(Event) /\ Len(<<NextEvent(h)>>) = 1
        /\ <<NextEvent(h)>>[1] = NextEvent(h)
    BY <2>0
  <2>7. \A k \in Handle : k # h => Same(k)
    BY DEF Same, Types, LogTypes
  <2>8. step[h] = "none" /\ ~draining[h] /\ batch[h] = <<>> /\ cursor[h] = length[h]
    <3>1. step[h] = "none" /\ ~draining[h]
      BY ChainsDiffer DEF TurnInv, InTurn
    <3>2. batch[h] = <<>> /\ cursor[h] + Len(batch[h]) + Len(buffered[h]) = length[h]
      BY <3>1, ChainsDiffer DEF MemoryInv, Remembers
    <3> QED BY <3>1, <3>2, EmptyFacts DEF Types
  <2>1. Types'
    BY <2>6 DEF Types, LogTypes, Chains
  <2>2. OwnerInv'
    BY <2>7, OwnerStep
  <2>3. TurnInv'
    <3>1. InTurn(h)'
      BY <2>8, ChainsDiffer DEF Types, LogTypes, TurnInv, InTurn
    <3> QED BY <2>7, <3>1, BystanderStep DEF TurnInv
  <2>4. MemoryInv'
    <3>1. Remembers(h)'
      BY <2>0, <2>6, <2>8, ChainsDiffer, EmptyFacts DEF Types, LogTypes, MemoryInv, Remembers, Numbers
    <3> QED BY <2>7, <3>1, BystanderStep DEF MemoryInv
  <2>5. DiskInv'
    BY DEF DiskInv, LogInv, Knows
  <2> QED BY <2>1, <2>2, <2>3, <2>4, <2>5
<1>3. CASE Flush(h)
  <2> USE <1>3 DEF Flush
  <2>0. chain'[h] = <<"flush">> /\ chain' = [chain EXCEPT ![h] = <<"flush">>]
    <3>1. "flush" \in {"flush"} /\ chain[h] = <<>>
      OBVIOUS
    <3> QED BY <3>1, ChainAppends DEF Types, LogTypes
  <2>7. \A k \in Handle : k # h => Same(k)
    BY DEF Same, Types, LogTypes
  <2>8. step[h] = "none" /\ ~draining[h] /\ batch[h] = <<>>
    BY ChainsDiffer DEF DrainChains, Types, LogTypes, TurnInv, InTurn, MemoryInv, Remembers
  <2>1. Types'
    BY <2>0 DEF Types, LogTypes, Chains
  <2>2. OwnerInv'
    BY <2>7, OwnerStep
  <2>3. TurnInv'
    <3>1. InTurn(h)'
      BY <2>0, <2>8, ChainsDiffer DEF Types, LogTypes, TurnInv, InTurn
    <3> QED BY <2>7, <3>1, BystanderStep DEF TurnInv
  <2>4. MemoryInv'
    <3>1. Remembers(h)'
      BY <2>0, <2>8, ChainsDiffer DEF Types, LogTypes, MemoryInv, Remembers
    <3> QED BY <2>7, <3>1, BystanderStep DEF MemoryInv
  <2>5. DiskInv'
    BY DEF DiskInv, LogInv, Knows
  <2> QED BY <2>1, <2>2, <2>3, <2>4, <2>5
<1>4. CASE Drain(h)
  <2>1. timer' \in [Handle -> BOOLEAN]
    BY <1>4 DEF Drain, Types, LogTypes
  <2> QED BY <1>4, <2>1, DrainStep DEF Drain
<1>5. CASE TimerFires(h)
  <2>1. timer' \in [Handle -> BOOLEAN]
    BY <1>5 DEF TimerFires, Types, LogTypes
  <2>2. Live(h) /\ closing[h] \in {"no", "drain"}
    BY <1>5 DEF TimerFires, Attended, Late, Sound
  <2> QED BY <1>5, <2>1, <2>2, DrainStep DEF TimerFires
<1>6. CASE Close(h)
  <2>1. timer' \in [Handle -> BOOLEAN]
    BY <1>6 DEF Close, Types, LogTypes
  <2> QED BY <1>6, <2>1, DrainStep DEF Close
<1>7. CASE CloseDrained(h) /\ ~(failures[h] \/ buffered[h] = <<>>)
  <2>0. /\ closing[h] = "drain" /\ DrainLive(h) /\ timer' = [timer EXCEPT ![h] = FALSE]
        /\ UNCHANGED <<buffered, closing>>
        /\ UNCHANGED <<disk, owners, stage, length, state, leased, step, batch, failures>>
    BY <1>7 DEF CloseDrained
  <2>1. timer' \in [Handle -> BOOLEAN]
    BY <2>0 DEF Types, LogTypes
  <2>2. Live(h)
    BY <2>0 DEF OwnerInv, Owned, Blank, Live
  <2> QED BY <2>0, <2>1, <2>2, DrainStep
<1>8. CASE CloseDrained(h) /\ (failures[h] \/ buffered[h] = <<>>)
  <2>0. /\ closing[h] = "drain" /\ chain[h] = <<>>
        /\ closing' = [closing EXCEPT ![h] = "release"]
        /\ UNCHANGED <<disk, owners, stage, length, state, leased, turn, buffer, failures>>
    BY <1>8 DEF CloseDrained
  <2> USE <1>8, <2>0
  <2>6. Live(h)
    BY DEF OwnerInv, Owned, Blank, Live
  <2>7. \A k \in Handle : k # h => Same(k)
    BY DEF Same, Types, LogTypes
  <2>1. Types'
    BY DEF Types, LogTypes
  <2>2. OwnerInv'
    BY <2>6, <2>7, OwnerStep DEF Types, LogTypes
  <2>3. TurnInv'
    BY DEF Types, LogTypes, TurnInv, InTurn
  <2>4. MemoryInv'
    BY DEF MemoryInv, Remembers
  <2>5. DiskInv'
    BY DEF DiskInv, LogInv, Knows
  <2> QED BY <2>1, <2>2, <2>3, <2>4, <2>5
<1> QED BY <1>1, <1>2, <1>3, <1>4, <1>5, <1>6, <1>7, <1>8 DEF Use

----------------------------------------------------------------------------
(* The turns of a chain.                                                   *)

\* A turn is one of an open handle, whose close has not gone past its drain; past its lease
\* it holds the lock.
LEMMA TurnFacts ==
  ASSUME IInv, NEW h \in Handle, chain[h] # <<>> \/ step[h] # "none"
  PROVE  /\ Live(h) /\ chain[h] # <<>> /\ chain[h] \in Chains /\ closing[h] \in {"no", "drain"}
         /\ leased[h] => lock = h
         /\ step[h] \notin {"none", "lease"} => lock = h
<1>1. Live(h) /\ chain[h] # <<>>
  BY DEF IInv, OwnerInv, Owned, Blank, TurnInv, InTurn, Live
<1>2. closing[h] \in {"no", "drain"} /\ chain[h] \in Chains
  BY <1>1 DEF IInv, Types, TurnInv, InTurn
<1> QED BY <1>1, <1>2 DEF IInv, OwnerInv, Owned, TurnInv, InTurn

\* A handle's turn ends without being written and is not a drain: its event is forgotten.
LEMMA PopStep ==
  ASSUME IInv, NEW h \in Handle, chain[h] # <<>>, Head(chain[h]) # "drain", Pop(h),
         UNCHANGED <<length, state, leased, closing>>,
         buffered'[h] = buffered[h], draining'[h] = draining[h], failures'[h] = failures[h]
  PROVE  InTurn(h)' /\ Remembers(h)'
<1>1. /\ chain'[h] = Tail(chain[h]) /\ step'[h] = "none" /\ batch'[h] = <<>>
      /\ chain[h] \in Chains /\ chain[h] # <<"drain">>
  <2>1. chain[h] \in Chains /\ chain \in [Handle -> Chains] /\ step \in [Handle -> Steps]
        /\ batch \in [Handle -> Seq(Event)]
    BY DEF IInv, Types
  <2> QED BY <2>1, ChainHeads DEF Pop
<1>2. chain'[h] = IF chain[h] = <<"flush", "drain">> THEN <<"drain">> ELSE <<>>
  BY <1>1, ChainTails
<1>3. /\ InTurn(h) /\ Remembers(h) /\ cursor[h] \in Nat /\ length[h] \in Nat
      /\ Len(batch[h]) \in Nat /\ Len(buffered[h]) \in Nat
  BY DEF IInv, Types, TurnInv, MemoryInv
<1>4. draining[h] <=> chain'[h] \in DrainChains
  BY <1>1, <1>2, <1>3, ChainsDiffer DEF InTurn, DrainChains, Chains
<1>5. InTurn(h)'
  <2>1. closing[h] \in {"release", "free"} => FALSE
    BY <1>3 DEF InTurn
  <2> QED BY <1>1, <1>3, <1>4, <2>1 DEF InTurn
<1>6. Remembers(h)'
  <2>1. chain'[h] # <<"append">>
    BY <1>2, ChainsDiffer DEF DrainChains
  <2>2. cursor[h] + Len(buffered[h]) = length[h] /\ Numbers(buffered[h], cursor[h])
    <3>1. CASE chain[h] = <<"append">>
      BY <1>3, <3>1, EmptyFacts DEF Remembers
    <3>2. CASE chain[h] # <<"append">>
      <4>1. batch[h] = <<>>
        BY <1>1, <1>3, <3>2 DEF Remembers
      <4> QED BY <1>3, <3>2, <4>1, EmptyFacts DEF Remembers
    <3> QED BY <3>1, <3>2
  <2>3. /\ cursor'[h] + Len(batch'[h]) + Len(buffered'[h]) = length'[h]
        /\ Numbers(batch'[h], cursor'[h]) /\ Numbers(buffered'[h], cursor'[h] + Len(batch'[h]))
    BY <1>1, <1>3, <2>2, EmptyFacts
  <2> QED BY <1>1, <1>3, <2>1, <2>3 DEF Remembers
<1> QED BY <1>5, <1>6

\* A turn is refused or fails; the events of a drain come back in front of the buffer.
LEMMA TurnFailsStep ==
  ASSUME IInv, NEW h \in Handle, chain[h] # <<>>, TurnFails(h), LogTypes',
         exists => exists', UNCHANGED <<owners, stage, length, state, leased>>
  PROVE  Types' /\ OwnerInv' /\ TurnInv' /\ MemoryInv'
<1>0. /\ Live(h) /\ chain[h] \in Chains /\ closing[h] \in {"no", "drain"}
      /\ InTurn(h) /\ Remembers(h)
  BY TurnFacts DEF IInv, TurnInv, MemoryInv
<1>1. /\ chain' = [chain EXCEPT ![h] = Tail(chain[h])] /\ step' = [step EXCEPT ![h] = "none"]
      /\ batch' = [batch EXCEPT ![h] = <<>>] /\ UNCHANGED <<timer, closing>>
  BY DEF TurnFails, Pop
<1>2. Tail(chain[h]) = IF chain[h] = <<"flush", "drain">> THEN <<"drain">> ELSE <<>>
  BY <1>0, ChainTails
<1>3. CASE Head(chain[h]) # "drain"
  <2>1. buffered' = buffered /\ drainPaused' = drainPaused /\ draining' = draining
        /\ failures' = failures
    BY <1>3 DEF TurnFails, IInv, Types
  <2>2. InTurn(h)' /\ Remembers(h)'
    BY <1>1, <1>3, <2>1, PopStep DEF TurnFails
  <2>3. \A k \in Handle : k # h => Same(k)
    BY <1>1, <2>1 DEF IInv, Types, Same
  <2>4. OwnerInv'
    BY <1>0, <1>1, <2>3, OwnerStep DEF IInv
  <2>5. TurnInv' /\ MemoryInv'
    BY <2>2, <2>3, BystanderStep DEF IInv, TurnInv, MemoryInv
  <2>6. Types'
    BY <1>1, <1>2, <2>1, EmptyFacts DEF IInv, Types, Chains, Steps
  <2> QED BY <2>4, <2>5, <2>6
<1>4. CASE Head(chain[h]) = "drain"
  <2>0. chain[h] = <<"drain">>
    BY <1>0, <1>4, ChainHeads
  <2>1. /\ buffered' = [buffered EXCEPT ![h] = batch[h] \o buffered[h]]
        /\ drainPaused' = [drainPaused EXCEPT ![h] = TRUE]
        /\ draining' = [draining EXCEPT ![h] = FALSE]
        /\ failures' = [failures EXCEPT ![h] = failures[h] \/ closing[h] = "drain"]
    BY <1>4 DEF TurnFails, IInv, Types
  <2>2. chain'[h] = <<>> /\ Tail(chain[h]) = <<>>
    BY <1>1, <1>2, <2>0, ChainsDiffer DEF IInv, Types, DrainChains
  <2>3. /\ batch[h] \o buffered[h] \in Seq(Event)
        /\ Len(batch[h] \o buffered[h]) = Len(batch[h]) + Len(buffered[h])
        /\ Numbers(batch[h] \o buffered[h], cursor[h])
    BY <1>0, NumbersConcat DEF IInv, Types, Remembers
  <2>4. InTurn(h)'
    BY <1>0, <1>1, <2>1, <2>2, ChainsDiffer DEF IInv, Types, InTurn
  <2>5. Remembers(h)'
    <3>1. cursor[h] + Len(batch[h]) + Len(buffered[h]) = length[h]
      BY <1>0, <2>0, ChainsDiffer DEF Remembers, DrainChains
    <3>2. cursor[h] \in Nat /\ Len(batch[h]) \in Nat /\ Len(buffered[h]) \in Nat
      BY DEF IInv, Types
    <3>3. /\ batch'[h] = <<>> /\ buffered'[h] = batch[h] \o buffered[h] /\ cursor'[h] = cursor[h]
          /\ length'[h] = length[h] /\ recovered'[h] = recovered[h]
      BY <1>1, <2>1 DEF IInv, Types
    <3>4. Numbers(buffered'[h], cursor'[h] + Len(batch'[h])) /\ Numbers(batch'[h], cursor'[h])
      BY <2>3, <3>2, <3>3, EmptyFacts
    <3>5. cursor'[h] + Len(batch'[h]) + Len(buffered'[h]) = length'[h]
      <4>1. Len(batch'[h]) = 0 /\ Len(buffered'[h]) = Len(batch[h]) + Len(buffered[h])
        BY <2>3, <3>3, EmptyFacts
      <4>2. cursor'[h] = cursor[h] /\ length'[h] = length[h]
        BY <3>3
      <4>3. \A a, b, c \in Nat : a + 0 + (b + c) = a + b + c
        OBVIOUS
      <4>4. cursor[h] + 0 + (Len(batch[h]) + Len(buffered[h])) = length[h]
        BY <3>1, <3>2, <4>3, Zenon
      <4> QED BY <4>1, <4>2, <4>4
    <3> QED BY <1>0, <2>2, <3>3, <3>4, <3>5, ChainsDiffer DEF Remembers
  <2>6. \A k \in Handle : k # h => Same(k)
    BY <1>1, <2>1 DEF IInv, Types, Same
  <2>7. OwnerInv'
    BY <1>0, <1>1, <2>6, OwnerStep DEF IInv
  <2>8. TurnInv' /\ MemoryInv'
    BY <2>4, <2>5, <2>6, BystanderStep DEF IInv, TurnInv, MemoryInv
  <2>9. Types'
    BY <1>1, <2>1, <2>2, <2>3, EmptyFacts DEF IInv, Types, Chains, Steps
  <2> QED BY <2>7, <2>8, <2>9
<1> QED BY <1>3, <1>4

\* The step after the lease fits what the handle has to repair.
LEMMA AfterLeaseFacts ==
  ASSUME IInv, NEW h \in Handle
  PROVE  /\ AfterLease(h) \in {"truncate", "rewrite", "write"}
         /\ AfterLease(h) \in {"rewrite", "write"} => ~repair[h]
         /\ AfterLease(h) = "rewrite" => materialized[h]
         /\ AfterLease(h) = "write" => recovered[h] = <<>>
  BY DEF AfterLease, IInv, TurnInv, InTurn

LEMMA TurnStartsStep ==
  ASSUME IInv, NEW h \in Handle, TurnStarts(h)
  PROVE  IInv'
<1>1. /\ Live(h) /\ chain[h] # <<>> /\ chain[h] \in Chains /\ closing[h] \in {"no", "drain"}
      /\ step[h] = "none" /\ InTurn(h) /\ Remembers(h)
  BY TurnFacts DEF IInv, TurnInv, MemoryInv, TurnStarts
<1>2. /\ step' = [step EXCEPT ![h] = IF leased[h] THEN AfterLease(h) ELSE "lease"]
      /\ UNCHANGED <<disk, owners, stage, length, state, leased, chain, timer, drainPaused,
                     draining, ending>>
  BY DEF TurnStarts
<1>3. OwnerInv'
  <2>1. \A k \in Handle : k # h => Same(k)
    BY DEF TurnStarts, IInv, Types, Same
  <2> QED BY <1>1, <1>2, <2>1, OwnerStep DEF IInv
<1>4. DiskInv'
  BY <1>2 DEF IInv, DiskInv, LogInv, Knows
<1>5. CASE Head(chain[h]) = "drain"
  <2>0. chain[h] = <<"drain">>
    BY <1>1, <1>5, ChainHeads
  <2>1. batch' = [batch EXCEPT ![h] = buffered[h]] /\ buffered' = [buffered EXCEPT ![h] = <<>>]
    BY <1>5 DEF TurnStarts
  <2>2. Types'
    BY <1>2, <2>1, AfterLeaseFacts, EmptyFacts DEF IInv, Types, LogTypes, Steps
  <2>3. TurnInv'
    <3>1. ASSUME NEW k \in Handle PROVE InTurn(k)'
      <4>1. InTurn(k)
        BY DEF IInv, TurnInv
      <4>2. CASE k # h
        <5>1. step'[k] = step[k] /\ buffered'[k] = buffered[k]
          BY <1>2, <2>1, <4>2 DEF IInv, Types
        <5> QED BY <1>2, <4>1, <5>1 DEF InTurn
      <4>3. CASE k = h
        <5>1. /\ step'[h] = IF leased[h] THEN AfterLease(h) ELSE "lease"
              /\ buffered'[h] = <<>>
          BY <1>2, <2>1 DEF IInv, Types
        <5> QED BY <1>1, <1>2, <4>3, <5>1, AfterLeaseFacts DEF InTurn
      <4> QED BY <4>2, <4>3
    <3> QED BY <3>1 DEF TurnInv
  <2>4. MemoryInv'
    <3>1. batch[h] = <<>> /\ cursor[h] + Len(batch[h]) + Len(buffered[h]) = length[h]
      BY <1>1, <2>0, ChainsDiffer DEF Remembers, DrainChains
    <3>2. cursor[h] \in Nat /\ Len(buffered[h]) \in Nat
      BY DEF IInv, Types
    <3>3. batch'[h] = buffered[h] /\ buffered'[h] = <<>> /\ step'[h] # "none"
      BY <1>2, <2>1, AfterLeaseFacts DEF IInv, Types
    <3>4. Numbers(batch'[h], cursor'[h]) /\ cursor'[h] + Len(batch'[h]) = length'[h]
      <4>1. Len(batch[h]) = 0
        BY <3>1, EmptyFacts
      <4> QED BY <1>1, <1>2, <3>1, <3>2, <3>3, <4>1 DEF Remembers
    <3>5. Numbers(buffered'[h], cursor'[h] + Len(batch'[h]))
      BY <1>2, <3>2, <3>3, EmptyFacts
    <3>6. Remembers(h)'
      <4>1. Len(buffered'[h]) = 0 /\ cursor'[h] \in Nat /\ Len(batch'[h]) \in Nat
        BY <1>2, <3>2, <3>3, EmptyFacts DEF IInv, Types
      <4>2. cursor'[h] + Len(batch'[h]) + Len(buffered'[h]) = length'[h]
        BY <3>4, <4>1
      <4>3. chain'[h] # <<"append">> /\ chain'[h] = <<"drain">>
        BY <1>2, <2>0, ChainsDiffer DEF DrainChains
      <4>4. Len(recovered'[h]) <= cursor'[h]
        BY <1>1, <1>2 DEF Remembers
      <4> QED BY <3>3, <3>4, <3>5, <4>2, <4>3, <4>4 DEF Remembers
    <3>7. \A k \in Handle : k # h => Remembers(k)'
      BY <1>2, <2>1 DEF IInv, Types, MemoryInv, Remembers
    <3> QED BY <3>6, <3>7 DEF MemoryInv
  <2> QED BY <1>3, <1>4, <2>2, <2>3, <2>4 DEF IInv
<1>6. CASE Head(chain[h]) # "drain"
  <2>1. batch' = batch /\ buffered' = buffered /\ chain[h] # <<"drain">>
    BY <1>1, <1>6, ChainHeads DEF TurnStarts, IInv, Types
  <2>2. Types'
    BY <1>2, <2>1, AfterLeaseFacts DEF IInv, Types, LogTypes, Steps
  <2>3. TurnInv'
    BY <1>1, <1>2, <2>1, AfterLeaseFacts DEF IInv, Types, TurnInv, InTurn
  <2>4. MemoryInv'
    BY <1>1, <1>2, <2>1 DEF IInv, Types, MemoryInv, Remembers
  <2> QED BY <1>3, <1>4, <2>2, <2>3, <2>4 DEF IInv
<1> QED BY <1>5, <1>6

LEMMA TurnDroppedStep ==
  ASSUME IInv, NEW h \in Handle, TurnDropped(h)
  PROVE  IInv'
<1>1. /\ Live(h) /\ chain[h] # <<>> /\ chain[h] \in Chains /\ closing[h] \in {"no", "drain"}
      /\ Head(chain[h]) # "drain"
  BY TurnFacts DEF TurnDropped
<1>2. /\ Pop(h) /\ UNCHANGED <<disk, owners, stage, length, state, leased, buffer, ending>>
      /\ Tail(chain[h]) = IF chain[h] = <<"flush", "drain">> THEN <<"drain">> ELSE <<>>
  BY <1>1, ChainTails DEF TurnDropped
<1>3. \A k \in Handle : k # h => Same(k)
  BY <1>2 DEF IInv, Types, Same, Pop
<1>4. OwnerInv'
  BY <1>1, <1>2, <1>3, OwnerStep DEF IInv
<1>5. TurnInv' /\ MemoryInv'
  BY <1>1, <1>2, <1>3, PopStep, BystanderStep DEF IInv, TurnInv, MemoryInv
<1>6. Types'
  BY <1>2, EmptyFacts DEF IInv, Types, LogTypes, Chains, Steps, Pop
<1>7. DiskInv'
  BY <1>2 DEF IInv, DiskInv, LogInv, Knows
<1> QED BY <1>4, <1>5, <1>6, <1>7 DEF IInv

LEMMA TakeLeaseStep ==
  ASSUME IInv, NEW h \in Handle, TakeLease(h)
  PROVE  IInv'
<1>1. /\ Live(h) /\ chain[h] # <<>> /\ closing[h] \in {"no", "drain"}
      /\ ~leased[h] /\ ~materialized[h] /\ lock = NoOne /\ step[h] = "lease"
  BY TurnFacts, HandleAssumption DEF TakeLease, IInv, TurnInv, InTurn
<1>2. /\ step' = [step EXCEPT ![h] = AfterLease(h)] /\ leased' = [leased EXCEPT ![h] = TRUE]
      /\ lock' = h
      /\ UNCHANGED <<disk, claim, stage, length, state, chain, batch, buffer, ending>>
  BY DEF TakeLease
<1>3. Types'
  BY <1>2, AfterLeaseFacts DEF IInv, Types, LogTypes, Steps
<1>4. OwnerInv'
  BY <1>1, <1>2, HandleAssumption DEF IInv, Types, OwnerInv, Owned, Writer, Blank, Live
<1>5. TurnInv'
  BY <1>1, <1>2, AfterLeaseFacts DEF IInv, Types, TurnInv, InTurn
<1>6. MemoryInv'
  BY <1>1, <1>2, AfterLeaseFacts DEF IInv, Types, MemoryInv, Remembers
<1>7. DiskInv'
  BY <1>1, <1>2 DEF IInv, DiskInv, LogInv, Knows
<1> QED BY <1>3, <1>4, <1>5, <1>6, <1>7 DEF IInv

LEMMA TruncatesStep ==
  ASSUME IInv, NEW h \in Handle, Truncates(h)
  PROVE  IInv'
<1>1. /\ Live(h) /\ chain[h] # <<>> /\ lock = h /\ InTurn(h)
  BY TurnFacts DEF Truncates, IInv, TurnInv
<1>2. /\ step' = [step EXCEPT ![h] = IF recovered[h] # <<>> THEN "rewrite" ELSE "write"]
      /\ repair' = [repair EXCEPT ![h] = FALSE] /\ torn' = FALSE /\ fragment' = <<>>
      /\ UNCHANGED <<framed, exists, lines, acked, owners, stage, length, cursor, materialized,
                     recovered, leased, chain, batch, buffer, ending>>
      /\ step[h] = "truncate"
  BY DEF Truncates
<1>3. \A k \in Handle : k # h => Same(k)
  BY <1>2 DEF IInv, Types, Same
<1>4. OwnerInv'
  BY <1>1, <1>2, <1>3, OwnerStep DEF IInv
<1>5. TurnInv'
  <2>1. InTurn(h)'
    BY <1>1, <1>2 DEF IInv, Types, InTurn
  <2> QED BY <1>3, <2>1, BystanderStep DEF IInv, TurnInv
<1>6. MemoryInv'
  <2>1. Remembers(h)'
    BY <1>2 DEF IInv, Types, MemoryInv, Remembers
  <2> QED BY <1>3, <2>1, BystanderStep DEF IInv, MemoryInv
<1>7. Types'
  BY <1>2, EmptyFacts DEF IInv, Types, LogTypes, Steps
<1>8. DiskInv'
  <2>1. LogInv'
    BY <1>2, EmptyFacts DEF IInv, Types, LogTypes, DiskInv, LogInv
  <2>2. Knows(h)'
    BY <1>2 DEF IInv, Types, DiskInv, Knows
  <2>3. \A k \in Handle : k # h => Knows(k)'
    BY <1>1, <1>2 DEF Knows
  <2> QED BY <2>1, <2>2, <2>3 DEF DiskInv
<1> QED BY <1>4, <1>5, <1>6, <1>7, <1>8 DEF IInv

LEMMA RewritesStep ==
  ASSUME IInv, NEW h \in Handle, Rewrites(h)
  PROVE  IInv'
<1>1. /\ Live(h) /\ chain[h] # <<>> /\ lock = h /\ InTurn(h) /\ Knows(h) /\ LogInv
  BY TurnFacts DEF Rewrites, IInv, TurnInv, DiskInv
<1>2. /\ step' = [step EXCEPT ![h] = "write"] /\ recovered' = [recovered EXCEPT ![h] = <<>>]
      /\ lines' = lines \o recovered[h] /\ acked' = cursor[h]
      /\ UNCHANGED <<framed, exists, fragment, torn, owners, stage, length, cursor, materialized,
                     repair, leased, chain, batch, buffer, ending>>
      /\ step[h] = "rewrite"
  BY DEF Rewrites
<1>3. /\ materialized[h] /\ ~repair[h] /\ ~torn /\ fragment = <<>> /\ exists
      /\ cursor[h] = Len(lines) + Len(recovered[h]) /\ Numbers(recovered[h], Len(lines))
  BY <1>1, <1>2 DEF InTurn, Knows, LogInv
<1>4. /\ lines' \in Seq(Event) /\ Len(lines') = cursor[h] /\ Numbers(lines', 0)
  BY <1>1, <1>2, <1>3, NumbersConcat DEF IInv, Types, LogTypes, LogInv
<1>5. \A k \in Handle : k # h => Same(k)
  BY <1>2 DEF IInv, Types, Same
<1>6. OwnerInv'
  BY <1>1, <1>2, <1>5, OwnerStep DEF IInv
<1>7. TurnInv'
  <2>1. InTurn(h)'
    BY <1>1, <1>2 DEF IInv, Types, InTurn
  <2> QED BY <1>5, <2>1, BystanderStep DEF IInv, TurnInv
<1>8. MemoryInv'
  <2>1. Len(recovered'[h]) <= cursor'[h]
    BY <1>2, EmptyFacts DEF IInv, Types
  <2>2. Remembers(h)'
    BY <1>2, <2>1 DEF IInv, Types, MemoryInv, Remembers
  <2> QED BY <1>5, <2>2, BystanderStep DEF IInv, MemoryInv
<1>9. Types'
  BY <1>2, <1>4, EmptyFacts DEF IInv, Types, LogTypes, Steps
<1>10. DiskInv'
  <2>1. LogInv'
    BY <1>2, <1>3, <1>4, EmptyFacts DEF IInv, Types, LogTypes, LogInv
  <2>2. Knows(h)'
    <3>1. recovered'[h] = <<>> /\ Len(lines') \in Nat /\ Len(lines') + 0 = Len(lines')
      BY <1>2, <1>4 DEF IInv, Types
    <3> QED BY <1>2, <1>3, <1>4, <3>1, EmptyFacts DEF IInv, Types, Knows
  <2>3. \A k \in Handle : k # h => Knows(k)'
    BY <1>1, <1>2 DEF Knows
  <2> QED BY <2>1, <2>2, <2>3 DEF DiskInv
<1> QED BY <1>6, <1>7, <1>8, <1>9, <1>10 DEF IInv

\* A write starts where the log ends, whether the log is there or is created.
LEMMA WriteFacts ==
  ASSUME IInv, NEW h \in Handle, step[h] = "write", materialized[h] \/ ~exists
  PROVE  /\ Live(h) /\ chain[h] # <<>> /\ chain[h] \in Chains /\ lock = h
         /\ closing[h] \in {"no", "drain"} /\ leased[h]
         /\ ~repair[h] /\ recovered[h] = <<>> /\ ~torn /\ fragment = <<>>
         /\ cursor[h] = Len(lines) /\ acked <= Len(lines)
         /\ lines \o batch[h] \in Seq(Event) /\ Numbers(lines \o batch[h], 0)
         /\ Len(lines \o batch[h]) = cursor[h] + Len(batch[h])
<1>1. /\ Live(h) /\ chain[h] # <<>> /\ chain[h] \in Chains /\ lock = h
      /\ closing[h] \in {"no", "drain"} /\ leased[h]
      /\ InTurn(h) /\ Remembers(h) /\ Knows(h) /\ LogInv
  BY TurnFacts DEF IInv, TurnInv, MemoryInv, DiskInv, InTurn
<1>2. ~repair[h] /\ recovered[h] = <<>> /\ ~torn /\ fragment = <<>> /\ cursor[h] = Len(lines)
  <2>1. ~repair[h] /\ recovered[h] = <<>>
    BY <1>1 DEF InTurn
  <2>2. CASE materialized[h]
    BY <1>1, <2>1, <2>2, EmptyFacts DEF IInv, Types, LogTypes, Knows, LogInv
  <2>3. CASE ~exists
    <3>1. ~materialized[h]
      BY <1>1, <2>3 DEF Knows
    <3> QED BY <1>1, <2>1, <2>3, <3>1, EmptyFacts DEF InTurn, LogInv
  <2> QED BY <2>1, <2>2, <2>3
<1>3. /\ lines \o batch[h] \in Seq(Event) /\ Numbers(lines \o batch[h], 0)
      /\ Len(lines \o batch[h]) = cursor[h] + Len(batch[h])
  <2>1. Numbers(lines, 0) /\ Numbers(batch[h], 0 + Len(lines))
    BY <1>1, <1>2 DEF LogInv, Remembers, IInv, Types, LogTypes
  <2> QED BY <1>2, <2>1, NumbersConcat DEF IInv, Types, LogTypes
<1> QED BY <1>1, <1>2, <1>3 DEF LogInv

\* The chain after a write: the turn behind, or the drain again while events have come.
LEMMA WritesChain ==
  ASSUME IInv, NEW h \in Handle, chain[h] # <<>>, Writes(h)
  PROVE  /\ chain' \in [Handle -> Chains] /\ draining' \in [Handle -> BOOLEAN]
         /\ \A k \in Handle : k # h => chain'[k] = chain[k] /\ draining'[k] = draining[k]
         /\ chain'[h] # <<"append">> /\ (draining'[h] <=> chain'[h] \in DrainChains)
<1> DEFINE again == Head(chain[h]) = "drain" /\ buffered[h] # <<>>
<1>1. /\ chain' = [chain EXCEPT ![h] = IF again THEN Append(Tail(chain[h]), "drain") ELSE Tail(chain[h])]
      /\ draining' = [draining EXCEPT ![h] = IF Head(chain[h]) = "drain" THEN again ELSE draining[h]]
  BY DEF Writes
<1>2. /\ chain[h] \in Chains /\ chain \in [Handle -> Chains] /\ draining \in [Handle -> BOOLEAN]
      /\ draining[h] <=> chain[h] \in DrainChains
  BY DEF IInv, Types, TurnInv, InTurn
<1>3. /\ Tail(chain[h]) = IF chain[h] = <<"flush", "drain">> THEN <<"drain">> ELSE <<>>
      /\ Head(chain[h]) = "drain" <=> chain[h] = <<"drain">>
  BY <1>2, ChainHeads, ChainTails
<1>4. /\ <<>> \in Chains /\ <<"drain">> \in Chains /\ <<"drain">> \in DrainChains
      /\ <<"drain">> # <<"append">>
  BY ChainsDiffer DEF Chains, DrainChains
<1>5. CASE again
  <2>1. Append(Tail(chain[h]), "drain") = <<"drain">>
    <3>1. Tail(chain[h]) = <<>>
      BY <1>3, <1>5, ChainsDiffer
    <3>2. "drain" \in {"drain"}
      OBVIOUS
    <3> QED BY <3>1, <3>2, ChainAppends
  <2>2. /\ chain' = [chain EXCEPT ![h] = <<"drain">>]
        /\ draining' = [draining EXCEPT ![h] = TRUE]
    BY <1>1, <1>5, <2>1
  <2> HIDE DEF again
  <2> QED BY <1>2, <1>4, <2>2
<1>6. CASE ~again
  <2>1. CASE Head(chain[h]) = "drain"
    <3>1. Tail(chain[h]) = <<>>
      BY <1>3, <2>1, ChainsDiffer
    <3>2. /\ chain' = [chain EXCEPT ![h] = <<>>] /\ draining' = [draining EXCEPT ![h] = FALSE]
      BY <1>1, <1>6, <2>1, <3>1
    <3> HIDE DEF again
    <3> QED BY <1>2, <1>4, <3>2, ChainsDiffer
  <2>2. CASE Head(chain[h]) # "drain"
    <3>1. /\ chain' = [chain EXCEPT ![h] = Tail(chain[h])] /\ draining' = draining
      BY <1>1, <1>2, <1>6, <2>2
    <3>2. /\ Tail(chain[h]) \in Chains /\ Tail(chain[h]) # <<"append">>
          /\ Tail(chain[h]) \in DrainChains <=> chain[h] = <<"flush", "drain">>
      BY <1>3, <1>4, ChainsDiffer
    <3>3. chain[h] \in DrainChains <=> chain[h] = <<"flush", "drain">>
      BY <1>2, <1>3, <2>2 DEF DrainChains
    <3> HIDE DEF again
    <3> QED BY <1>2, <3>1, <3>2, <3>3
  <2> QED BY <2>1, <2>2
<1> QED BY <1>5, <1>6

LEMMA WritesStep ==
  ASSUME IInv, NEW h \in Handle, Writes(h)
  PROVE  IInv'
<1>0. step[h] = "write" /\ (materialized[h] \/ ~exists)
  BY DEF Writes
<1>1. /\ Live(h) /\ chain[h] # <<>> /\ chain[h] \in Chains /\ lock = h
      /\ closing[h] \in {"no", "drain"} /\ leased[h]
      /\ ~repair[h] /\ recovered[h] = <<>> /\ ~torn /\ fragment = <<>>
      /\ cursor[h] = Len(lines) /\ acked <= Len(lines)
      /\ lines \o batch[h] \in Seq(Event) /\ Numbers(lines \o batch[h], 0)
      /\ Len(lines \o batch[h]) = cursor[h] + Len(batch[h])
  BY <1>0, WriteFacts
<1>2. /\ exists' = TRUE /\ lines' = lines \o batch[h]
      /\ materialized' = [materialized EXCEPT ![h] = TRUE]
      /\ cursor' = [cursor EXCEPT ![h] = cursor[h] + Len(batch[h])]
      /\ acked' = cursor[h] + Len(batch[h])
      /\ length' = [length EXCEPT ![h] = IF Head(chain[h]) = "append" THEN length[h] + 1
                                         ELSE length[h]]
      /\ step' = [step EXCEPT ![h] = "none"] /\ batch' = [batch EXCEPT ![h] = <<>>]
      /\ UNCHANGED <<framed, fragment, torn, owners, stage, repair, recovered, leased, buffered,
                     timer, drainPaused, ending>>
  BY DEF Writes
<1>3. /\ chain' \in [Handle -> Chains] /\ draining' \in [Handle -> BOOLEAN]
      /\ \A k \in Handle : k # h => chain'[k] = chain[k] /\ draining'[k] = draining[k]
      /\ chain'[h] # <<"append">> /\ (draining'[h] <=> chain'[h] \in DrainChains)
  BY <1>1, WritesChain
<1>4. \A k \in Handle : k # h => Same(k)
  BY <1>2, <1>3 DEF IInv, Types, Same
<1>5. /\ cursor[h] \in Nat /\ Len(batch[h]) \in Nat /\ Len(buffered[h]) \in Nat
      /\ length[h] \in Nat /\ cursor[h] + Len(batch[h]) \in Nat
  BY DEF IInv, Types
<1>6. /\ length'[h] \in 0..MaxSeq /\ cursor'[h] + Len(batch'[h]) + Len(buffered'[h]) = length'[h]
  <2>1. Head(chain[h]) = "append" <=> chain[h] = <<"append">>
    BY <1>1, ChainHeads
  <2>2. /\ cursor'[h] = cursor[h] + Len(batch[h]) /\ Len(batch'[h]) = 0
        /\ Len(buffered'[h]) = Len(buffered[h])
    BY <1>2, EmptyFacts DEF IInv, Types
  <2>3. \A a, b \in Nat : a + 0 + b = a + b
    OBVIOUS
  <2>4. cursor[h] + Len(batch[h]) + 0 + Len(buffered[h]) = cursor[h] + Len(batch[h]) + Len(buffered[h])
    BY <1>5, <2>3, Zenon
  <2>5. CASE chain[h] = <<"append">>
    <3>1. Len(batch[h]) = 1 /\ buffered[h] = <<>> /\ cursor[h] = length[h]
      BY <2>5 DEF IInv, MemoryInv, Remembers
    <3>2. length'[h] = length[h] + 1
      BY <1>2, <2>1, <2>5 DEF IInv, Types
    <3>3. length[h] + 1 <= MaxSeq
      <4>1. batch[h][1] \in Event /\ batch[h][1].seq = cursor[h] + 1
        <5>1. batch[h] \in Seq(Event) /\ 1 \in 1..Len(batch[h])
          BY <3>1 DEF IInv, Types
        <5>2. Numbers(batch[h], cursor[h])
          BY DEF IInv, MemoryInv, Remembers
        <5> QED BY <5>1, <5>2 DEF Numbers
      <4> QED BY <3>1, <4>1, HandleAssumption DEF Event
    <3> QED BY <1>5, <2>2, <3>1, <3>2, <3>3, EmptyFacts, HandleAssumption
  <2>6. CASE chain[h] # <<"append">>
    <3>1. cursor[h] + Len(batch[h]) + Len(buffered[h]) = length[h]
      BY <2>6 DEF IInv, MemoryInv, Remembers
    <3>2. length'[h] = length[h] /\ length'[h] \in 0..MaxSeq
      BY <1>2, <2>1, <2>6 DEF IInv, Types
    <3> QED BY <2>2, <2>4, <3>1, <3>2
  <2> QED BY <2>5, <2>6
<1>7. Types'
  <2>1. length' \in [Handle -> 0..MaxSeq]
    BY <1>2, <1>6 DEF IInv, Types
  <2>2. cursor' \in [Handle -> Nat] /\ LogTypes'
    BY <1>1, <1>2, <1>5 DEF IInv, Types, LogTypes
  <2> QED BY <1>2, <1>3, <2>1, <2>2, EmptyFacts DEF IInv, Types, Steps
<1>8. OwnerInv'
  BY <1>1, <1>2, <1>4, OwnerStep DEF IInv
<1>9. TurnInv'
  <2>1. InTurn(h)'
    BY <1>1, <1>2, <1>3 DEF IInv, Types, TurnInv, InTurn
  <2> QED BY <1>4, <2>1, BystanderStep DEF IInv, TurnInv
<1>10. MemoryInv'
  <2>1. Numbers(batch'[h], cursor'[h]) /\ Numbers(buffered'[h], cursor'[h] + Len(batch'[h]))
    <3>1. /\ cursor'[h] = cursor[h] + Len(batch[h]) /\ batch'[h] = <<>> /\ Len(batch'[h]) = 0
          /\ buffered'[h] = buffered[h]
      BY <1>2, EmptyFacts DEF IInv, Types
    <3>2. cursor[h] + Len(batch[h]) + 0 = cursor[h] + Len(batch[h])
      BY <1>5
    <3> QED BY <1>5, <3>1, <3>2, EmptyFacts DEF IInv, MemoryInv, Remembers
  <2>2. /\ Len(recovered'[h]) <= cursor'[h] /\ batch'[h] = <<>>
    BY <1>1, <1>2, <1>5, EmptyFacts DEF IInv, Types
  <2>3. Remembers(h)'
    BY <1>3, <1>6, <2>1, <2>2 DEF Remembers
  <2> QED BY <1>4, <2>3, BystanderStep DEF IInv, MemoryInv
<1>11. DiskInv'
  <2>1. LogInv'
    BY <1>1, <1>2, <1>5, EmptyFacts DEF LogInv
  <2>2. Knows(h)'
    <3>1. cursor'[h] = Len(lines') /\ recovered'[h] = <<>> /\ Len(lines') \in Nat
          /\ Len(lines') + 0 = Len(lines')
      BY <1>1, <1>2, <1>5 DEF IInv, Types
    <3> QED BY <1>1, <1>2, <3>1, EmptyFacts DEF Knows
  <2>3. \A k \in Handle : k # h => Knows(k)'
    BY <1>1, <1>2 DEF Knows
  <2> QED BY <2>1, <2>2, <2>3 DEF DiskInv
<1> QED BY <1>7, <1>8, <1>9, <1>10, <1>11 DEF IInv

----------------------------------------------------------------------------
(* Refusals, failures and the death of a process.                          *)

LEMMA TurnRefusedStep ==
  ASSUME IInv, NEW h \in Handle, TurnRefused(h)
  PROVE  IInv'
<1>1. /\ chain[h] # <<>> /\ TurnFails(h)
      /\ UNCHANGED <<disk, owners, stage, length, state, leased>>
  BY TurnFacts DEF TurnRefused
<1>2. Types' /\ OwnerInv' /\ TurnInv' /\ MemoryInv'
  <2>1. LogTypes'
    BY <1>1 DEF IInv, Types, LogTypes
  <2> QED BY <1>1, <2>1, TurnFailsStep
<1>3. DiskInv'
  BY <1>1 DEF IInv, DiskInv, LogInv, Knows
<1> QED BY <1>2, <1>3 DEF IInv

LEMMA WriteFailsStep ==
  ASSUME IInv, NEW h \in Handle, WriteFails(h)
  PROVE  IInv'
<1>1. /\ chain[h] # <<>> /\ TurnFails(h) /\ step[h] # "none"
      /\ UNCHANGED <<framed, exists, lines, acked, owners, stage, length, state, leased>>
      /\ \/ torn' = torn /\ fragment' = fragment
         \/ step[h] = "truncate" /\ torn' = FALSE /\ fragment' = <<>>
  BY TurnFacts DEF WriteFails
<1>2. Types' /\ OwnerInv' /\ TurnInv' /\ MemoryInv'
  <2>1. LogTypes'
    BY <1>1, EmptyFacts DEF IInv, Types, LogTypes
  <2> QED BY <1>1, <2>1, TurnFailsStep
<1>3. DiskInv'
  <2>1. CASE torn' = torn /\ fragment' = fragment
    BY <1>1, <2>1 DEF IInv, DiskInv, LogInv, Knows
  <2>2. CASE torn' = FALSE /\ fragment' = <<>>
    BY <1>1, <2>2, EmptyFacts DEF IInv, Types, LogTypes, DiskInv, LogInv, Knows
  <2> QED BY <1>1, <2>1, <2>2
<1> QED BY <1>2, <1>3 DEF IInv

LEMMA PublishUnsyncedStep ==
  ASSUME IInv, NEW h \in Handle, PublishUnsynced(h)
  PROVE  IInv'
<1>1. /\ step[h] = "write" /\ ~materialized[h] /\ ~exists /\ TurnFails(h)
      /\ exists' = TRUE /\ lines' = batch[h]
      /\ UNCHANGED <<framed, fragment, torn, acked, owners, stage, length, state, leased>>
  BY DEF PublishUnsynced
<1>2. /\ chain[h] # <<>> /\ lock = h /\ cursor[h] = 0 /\ acked = 0 /\ fragment = <<>>
      /\ batch[h] \in Seq(Event) /\ Numbers(batch[h], 0)
  <2>1. chain[h] # <<>> /\ lock = h
    BY <1>1, WriteFacts
  <2>2. cursor[h] = 0
    BY <1>1 DEF IInv, TurnInv, InTurn
  <2>3. batch[h] \in Seq(Event) /\ Numbers(batch[h], 0)
    BY <2>2 DEF IInv, Types, MemoryInv, Remembers
  <2> QED BY <1>1, <2>1, <2>2, <2>3 DEF IInv, DiskInv, LogInv
<1>3. Types' /\ OwnerInv' /\ TurnInv' /\ MemoryInv'
  <2>1. LogTypes'
    BY <1>1, <1>2 DEF IInv, Types, LogTypes
  <2> QED BY <1>1, <1>2, <2>1, TurnFailsStep
<1>4. DiskInv'
  <2>1. LogInv'
    <3>1. Len(batch[h]) \in Nat
      BY <1>2
    <3> QED BY <1>1, <1>2, <3>1, EmptyFacts DEF LogInv
  <2>2. \A k \in Handle : Knows(k)'
    BY <1>1, <1>2 DEF Knows
  <2> QED BY <2>1, <2>2 DEF DiskInv
<1> QED BY <1>3, <1>4 DEF IInv

\* What the death of a writer leaves of its write is numbered all the same.
LEMMA InterruptedFacts ==
  ASSUME IInv, NEW h \in Handle, step[h] \notin {"none", "lease"}, Interrupted(h),
         UNCHANGED <<framed, acked>>
  PROVE  LogTypes' /\ LogInv'
<1> DEFINE B == IF step[h] = "rewrite" THEN recovered[h] ELSE batch[h]
<1>1. /\ lock = h /\ LogInv /\ LogTypes /\ Knows(h) /\ InTurn(h) /\ Remembers(h)
      /\ recovered[h] \in Seq(Event) /\ batch[h] \in Seq(Event) /\ cursor[h] \in Nat
      /\ Len(lines) \in Nat
  BY TurnFacts DEF IInv, Types, LogTypes, DiskInv, TurnInv, MemoryInv
<1>2. CASE UNCHANGED <<exists, lines, fragment, torn>>
  BY <1>1, <1>2 DEF LogTypes, LogInv
<1>3. CASE /\ torn' = FALSE /\ fragment' = <<>> /\ UNCHANGED <<exists, lines>>
  BY <1>1, <1>3, EmptyFacts DEF LogTypes, LogInv
<1>4. CASE /\ step[h] = "write" /\ ~materialized[h] /\ ~exists
           /\ exists' = TRUE /\ lines' = B /\ UNCHANGED <<fragment, torn>>
  <2>1. lines' = batch[h] /\ cursor[h] = 0 /\ Numbers(batch[h], 0)
    BY <1>1, <1>4 DEF InTurn, Remembers
  <2>2. acked = 0 /\ fragment = <<>> /\ Len(batch[h]) \in Nat
    BY <1>1, <1>4 DEF LogInv
  <2> HIDE DEF B
  <2> QED BY <1>1, <1>4, <2>1, <2>2, EmptyFacts DEF LogTypes, LogInv
<1>5. ASSUME step[h] \in {"rewrite", "write"}, materialized[h]
      PROVE  /\ exists /\ ~torn /\ fragment = <<>> /\ B \in Seq(Event) /\ Len(B) \in Nat
             /\ Numbers(B, Len(lines))
  <2>1. exists /\ ~torn /\ fragment = <<>>
    BY <1>1, <1>5 DEF InTurn, Knows, LogInv
  <2>2. CASE step[h] = "rewrite"
    BY <1>1, <1>5, <2>1, <2>2 DEF Knows
  <2>3. CASE step[h] = "write"
    <3>1. cursor[h] = Len(lines)
      BY <1>1, <1>5, <2>3, EmptyFacts DEF InTurn, Knows
    <3> QED BY <1>1, <2>1, <2>3, <3>1 DEF Remembers
  <2> QED BY <1>5, <2>2, <2>3
<1> HIDE DEF B
<1>6. ASSUME step[h] \in {"rewrite", "write"}, materialized[h], UNCHANGED <<exists, fragment>>,
             torn' \in BOOLEAN,
             NEW k \in 0..Len(B), lines' = lines \o SubSeq(B, 1, k)
      PROVE  LogTypes' /\ LogInv'
  <2>1. /\ SubSeq(B, 1, k) \in Seq(Event) /\ Len(SubSeq(B, 1, k)) = k
        /\ Numbers(SubSeq(B, 1, k), 0 + Len(lines))
    BY <1>1, <1>5, <1>6, NumbersPrefix
  <2> DEFINE t == SubSeq(B, 1, k)
  <2> HIDE DEF t
  <2>2. t \in Seq(Event) /\ Len(t) = k /\ Numbers(t, 0 + Len(lines)) /\ lines' = lines \o t
    BY <1>6, <2>1 DEF t
  <2>3. lines' \in Seq(Event) /\ Len(lines') = Len(lines) + k /\ Numbers(lines', 0)
    BY <1>1, <2>2, NumbersConcat DEF LogTypes, LogInv
  <2>4. acked <= Len(lines') /\ Len(lines') \in Nat
    BY <1>1, <2>3 DEF LogTypes, LogInv
  <2> QED BY <1>1, <1>5, <1>6, <2>3, <2>4, EmptyFacts DEF LogTypes, LogInv
<1>7. ASSUME step[h] \in {"rewrite", "write"}, materialized[h], UNCHANGED <<exists, lines>>,
             torn' = TRUE, NEW k \in 0..Len(B), fragment' = SubSeq(B, 1, k)
      PROVE  LogTypes' /\ LogInv'
  <2>1. fragment' \in Seq(Event) /\ Numbers(fragment', Len(lines))
    BY <1>1, <1>5, <1>7, NumbersPrefix
  <2> QED BY <1>1, <1>5, <1>7, <2>1 DEF LogTypes, LogInv
<1>8. ASSUME step[h] \in {"rewrite", "write"}, materialized[h], UNCHANGED <<exists, fragment>>,
             torn' = FALSE, lines' = lines \o B
      PROVE  LogTypes' /\ LogInv'
  <2>1. lines' \in Seq(Event) /\ Len(lines') = Len(lines) + Len(B) /\ Numbers(lines', 0)
    BY <1>1, <1>5, <1>8, NumbersConcat DEF LogTypes, LogInv
  <2>2. acked <= Len(lines') /\ Len(lines') \in Nat
    BY <1>1, <1>5, <2>1 DEF LogTypes, LogInv
  <2> QED BY <1>1, <1>5, <1>8, <2>1, <2>2, EmptyFacts DEF LogTypes, LogInv
<1>9. \A k \in 0..Len(B) - 1 : step[h] \in {"rewrite", "write"} /\ materialized[h] => k \in 0..Len(B)
  BY <1>5
<1>10. \/ UNCHANGED <<exists, lines, fragment, torn>>
       \/ /\ torn' = FALSE /\ fragment' = <<>> /\ UNCHANGED <<exists, lines>>
       \/ /\ step[h] = "write" /\ ~materialized[h] /\ ~exists
          /\ exists' = TRUE /\ lines' = B /\ UNCHANGED <<fragment, torn>>
       \/ /\ step[h] \in {"rewrite", "write"} /\ materialized[h] /\ UNCHANGED exists
          /\ \/ torn' = FALSE /\ lines' = lines \o B /\ UNCHANGED fragment
             \/ /\ torn' = TRUE /\ UNCHANGED lines
                /\ \E k \in 0..Len(B) : fragment' = SubSeq(B, 1, k)
             \/ /\ torn' \in BOOLEAN /\ UNCHANGED fragment
                /\ \E k \in 0..Len(B) - 1 : lines' = lines \o SubSeq(B, 1, k)
  BY DEF Interrupted, B
<1> QED BY <1>2, <1>3, <1>4, <1>6, <1>7, <1>8, <1>9, <1>10

LEMMA CrashStep ==
  ASSUME IInv, NEW p \in Process, Crash(p)
  PROVE  IInv'
<1> DEFINE D == Dies(p)
<1>1. /\ lock' = IF lock \in D THEN NoOne ELSE lock
      /\ claim' = [claim EXCEPT ![p] = NoOne]
      /\ stage' = [h \in Handle |-> IF h \in D THEN "dead" ELSE stage[h]]
      /\ Forget(D)
      /\ \/ UNCHANGED disk
         \/ /\ \E h \in D : step[h] \notin {"none", "lease"} /\ Interrupted(h)
            /\ UNCHANGED <<framed, acked>>
  BY DEF Crash
<1>2. \A h \in Handle : h \in D <=> Home[h] = p /\ stage[h] \notin {"unused", "failed", "closed"}
  BY DEF Dies
<1>3. LogTypes' /\ LogInv' /\ (exists => exists') /\ (disk' = disk \/ lock' = NoOne)
  <2>1. CASE UNCHANGED disk
    BY <2>1 DEF IInv, Types, LogTypes, DiskInv, LogInv
  <2>2. CASE /\ \E h \in D : step[h] \notin {"none", "lease"} /\ Interrupted(h)
             /\ UNCHANGED <<framed, acked>>
    <3>1. PICK h \in D : step[h] \notin {"none", "lease"} /\ Interrupted(h)
      BY <2>2
    <3>2. h \in Handle
      BY DEF Dies
    <3>3. exists => exists'
      BY <3>1 DEF Interrupted
    <3>4. lock' = NoOne
      BY <1>1, <3>1, <3>2, TurnFacts
    <3> QED BY <2>2, <3>1, <3>2, <3>3, <3>4, InterruptedFacts
  <2> QED BY <1>1, <2>1, <2>2
<1>4. ASSUME NEW h \in Handle, h \notin D
      PROVE  Same(h) /\ stage'[h] = stage[h]
  BY <1>1, <1>4 DEF Forget, Cleared, Same
<1>5. ASSUME NEW h \in Handle, h \in D
      PROVE  Blank(h)' /\ stage'[h] = "dead" /\ ~leased'[h]
  BY <1>1, <1>5 DEF Forget, Cleared, Blank
<1> HIDE DEF D
<1>6. Types'
  <2>1. /\ "dead" \in {"unused", "creating", "opening", "locked", "open", "closed", "failed", "dead"}
        /\ 0 \in Nat /\ 0 \in 0..MaxSeq /\ <<>> \in Seq(Event) /\ <<>> \in Chains /\ "none" \in Steps
    BY EmptyFacts, HandleAssumption DEF Chains, Steps
  <2>2. /\ lock' \in Handle \cup {NoOne} /\ claim' \in [Process -> Handle \cup {NoOne}]
        /\ stage' \in [Handle -> {"unused", "creating", "opening", "locked", "open", "closed",
                                  "failed", "dead"}]
    BY <1>1, <2>1 DEF IInv, Types
  <2>3. /\ length' \in [Handle -> 0..MaxSeq] /\ cursor' \in [Handle -> Nat]
        /\ materialized' \in [Handle -> BOOLEAN] /\ repair' \in [Handle -> BOOLEAN]
        /\ recovered' \in [Handle -> Seq(Event)] /\ leased' \in [Handle -> BOOLEAN]
    BY <1>1, <2>1 DEF IInv, Types, Forget, Cleared
  <2>4. /\ chain' \in [Handle -> Chains] /\ step' \in [Handle -> Steps]
        /\ batch' \in [Handle -> Seq(Event)] /\ buffered' \in [Handle -> Seq(Event)]
        /\ timer' \in [Handle -> BOOLEAN] /\ drainPaused' \in [Handle -> BOOLEAN]
    BY <1>1, <2>1 DEF IInv, Types, Forget, Cleared
  <2>5. /\ draining' \in [Handle -> BOOLEAN] /\ failures' \in [Handle -> BOOLEAN]
        /\ closing' \in [Handle -> {"no", "drain", "release", "free"}]
    BY <1>1, <2>1 DEF IInv, Types, Forget, Cleared
  <2> QED BY <1>3, <2>2, <2>3, <2>4, <2>5 DEF Types
<1>7. OwnerInv'
  <2>1. ASSUME NEW h \in Handle, h \in D
        PROVE  Owned(h)'
    <3>1. ~Writer(h)' /\ lock' # h
      BY <1>1, <1>2, <2>1, HandleAssumption DEF IInv, Types, Writer
    <3> QED BY <1>5, <2>1, <3>1 DEF Owned
  <2>2. ASSUME NEW h \in Handle, h \notin D
        PROVE  Owned(h)'
    <3>1. Owned(h) /\ Same(h) /\ stage'[h] = stage[h]
      BY <1>4, <2>2 DEF IInv, OwnerInv
    <3>2. Writer(h)' <=> Writer(h)
      <4>1. CASE Home[h] = p
        BY <1>1, <1>2, <2>2, <3>1, <4>1, HandleAssumption DEF IInv, Types, Owned, Writer
      <4>2. CASE Home[h] # p
        BY <1>1, <4>2, HandleAssumption DEF IInv, Types, Writer
      <4> QED BY <4>1, <4>2
    <3>3. lock' = h <=> lock = h
      BY <1>1, <2>2, HandleAssumption
    <3>4. Blank(h) => Blank(h)'
      BY <3>1 DEF Same, Blank
    <3> QED BY <1>3, <3>1, <3>2, <3>3, <3>4 DEF Owned, Same
  <2>3. \A q \in Process : claim'[q] # NoOne => Home[claim'[q]] = q
    BY <1>1 DEF IInv, Types, OwnerInv
  <2> QED BY <2>1, <2>2, <2>3 DEF OwnerInv
<1>8. TurnInv' /\ MemoryInv'
  <2>1. ASSUME NEW h \in Handle, h \in D
        PROVE  InTurn(h)' /\ Remembers(h)'
    <3>1. Blank(h)'
      BY <1>5, <2>1
    <3>2. InTurn(h)'
      BY <3>1, ChainsDiffer DEF InTurn, Blank
    <3>3. Remembers(h)'
      BY <3>1, ChainsDiffer, EmptyFacts DEF Remembers, Blank
    <3> QED BY <3>2, <3>3
  <2>2. ASSUME NEW h \in Handle, h \notin D
        PROVE  InTurn(h)' /\ Remembers(h)'
    BY <1>4, <2>2, BystanderStep DEF IInv
  <2> QED BY <2>1, <2>2 DEF TurnInv, MemoryInv
<1>9. DiskInv'
  <2>1. ASSUME NEW h \in Handle
        PROVE  Knows(h)'
    <3>1. CASE lock' # h
      BY <3>1 DEF Knows
    <3>2. CASE lock' = h
      <4>1. h \notin D /\ lock = h /\ disk' = disk
        BY <1>1, <1>3, <3>2, HandleAssumption
      <4> QED BY <1>4, <4>1 DEF IInv, DiskInv, Knows, Same
    <3> QED BY <3>1, <3>2
  <2> QED BY <1>3, <2>1 DEF DiskInv
<1> QED BY <1>3, <1>6, <1>7, <1>8, <1>9 DEF IInv

----------------------------------------------------------------------------
(* The end of a close.                                                     *)

LEMMA CloseUnlocksStep ==
  ASSUME IInv, NEW h \in Handle, CloseUnlocks(h)
  PROVE  IInv'
<1>1. /\ closing[h] = "release" /\ closing' = [closing EXCEPT ![h] = "free"]
      /\ lock' = IF lock = h THEN NoOne ELSE lock
      /\ UNCHANGED <<disk, claim, stage, length, state, leased, turn, buffer>>
  BY DEF CloseUnlocks, Unlock
<1>2. PICK failed \in BOOLEAN : failures' = [failures EXCEPT ![h] = @ \/ failed]
  BY DEF CloseUnlocks
<1>3. /\ failures' \in [Handle -> BOOLEAN] /\ (failures[h] => failures'[h])
      /\ \A k \in Handle : k # h => failures'[k] = failures[k]
  <2>1. (failures[h] \/ failed) \in BOOLEAN
    OBVIOUS
  <2> QED BY <1>2, <2>1 DEF IInv, Types
<1>4. Types'
  BY <1>1, <1>3 DEF IInv, Types, LogTypes
<1>5. OwnerInv'
  BY <1>1, <1>3, HandleAssumption DEF IInv, Types, OwnerInv, Owned, Writer, Blank
<1>6. TurnInv'
  BY <1>1, <1>3 DEF IInv, Types, TurnInv, InTurn
<1>7. MemoryInv'
  BY <1>1 DEF IInv, MemoryInv, Remembers
<1>8. DiskInv'
  BY <1>1, HandleAssumption DEF IInv, DiskInv, LogInv, Knows
<1> QED BY <1>4, <1>5, <1>6, <1>7, <1>8 DEF IInv

LEMMA CloseFreesStep ==
  ASSUME Sound, IInv, NEW h \in Handle, CloseFrees(h)
  PROVE  IInv'
<1>1. /\ closing[h] = "free" /\ stage' = [stage EXCEPT ![h] = "closed"] /\ Forget({h})
      /\ claim' = IF Writer(h) THEN [claim EXCEPT ![Home[h]] = NoOne] ELSE claim
      /\ UNCHANGED <<disk, lock>>
  BY DEF CloseFrees, Leave, Disown, Become, Sound
<1>2. ASSUME NEW k \in Handle, k # h
      PROVE  Same(k) /\ stage'[k] = stage[k]
  BY <1>1, <1>2 DEF Forget, Cleared, Same
<1>3. Blank(h)' /\ stage'[h] = "closed" /\ ~leased'[h]
  BY <1>1 DEF Forget, Cleared, Blank, IInv, Types
<1>4. lock # h
  BY <1>1 DEF IInv, OwnerInv, Owned
<1>5. Types'
  <2>1. /\ 0 \in Nat /\ 0 \in 0..MaxSeq /\ <<>> \in Seq(Event) /\ <<>> \in Chains
        /\ "none" \in Steps
    BY EmptyFacts, HandleAssumption DEF Chains, Steps
  <2>2. LogTypes' /\ stage' \in [Handle -> {"unused", "creating", "opening", "locked", "open",
                                            "closed", "failed", "dead"}]
    BY <1>1 DEF IInv, Types, LogTypes
  <2>3. claim' \in [Process -> Handle \cup {NoOne}]
    BY <1>1, HandleAssumption DEF IInv, Types
  <2>4. /\ length' \in [Handle -> 0..MaxSeq] /\ cursor' \in [Handle -> Nat]
        /\ materialized' \in [Handle -> BOOLEAN] /\ repair' \in [Handle -> BOOLEAN]
        /\ recovered' \in [Handle -> Seq(Event)] /\ leased' \in [Handle -> BOOLEAN]
    BY <1>1, <2>1 DEF IInv, Types, Forget, Cleared
  <2>5. /\ chain' \in [Handle -> Chains] /\ step' \in [Handle -> Steps]
        /\ batch' \in [Handle -> Seq(Event)] /\ buffered' \in [Handle -> Seq(Event)]
        /\ timer' \in [Handle -> BOOLEAN] /\ drainPaused' \in [Handle -> BOOLEAN]
    BY <1>1, <2>1 DEF IInv, Types, Forget, Cleared
  <2>6. /\ draining' \in [Handle -> BOOLEAN] /\ failures' \in [Handle -> BOOLEAN]
        /\ closing' \in [Handle -> {"no", "drain", "release", "free"}]
    BY <1>1, <2>1 DEF IInv, Types, Forget, Cleared
  <2> QED BY <1>1, <2>2, <2>3, <2>4, <2>5, <2>6 DEF IInv, Types
<1>6. OwnerInv'
  <2>1. Owned(h)'
    <3>1. ~Writer(h)'
      BY <1>1, HandleAssumption DEF IInv, Types, Writer
    <3> QED BY <1>1, <1>3, <1>4, <3>1 DEF Owned
  <2>2. ASSUME NEW k \in Handle, k # h
        PROVE  Owned(k)'
    <3>1. Owned(k) /\ Same(k) /\ stage'[k] = stage[k]
      BY <1>2, <2>2 DEF IInv, OwnerInv
    <3>2. Writer(k)' <=> Writer(k)
      BY <1>1, <2>2, HandleAssumption DEF IInv, Types, Writer
    <3>3. Blank(k) => Blank(k)'
      BY <3>1 DEF Same, Blank
    <3> QED BY <1>1, <3>1, <3>2, <3>3 DEF Owned, Same
  <2>3. \A q \in Process : claim'[q] # NoOne => Home[claim'[q]] = q
    BY <1>1, HandleAssumption DEF IInv, Types, OwnerInv
  <2> QED BY <2>1, <2>2, <2>3 DEF OwnerInv
<1>7. TurnInv' /\ MemoryInv'
  <2>1. InTurn(h)'
    BY <1>3, ChainsDiffer DEF InTurn, Blank
  <2>2. Remembers(h)'
    BY <1>3, ChainsDiffer, EmptyFacts DEF Remembers, Blank
  <2>3. \A k \in Handle : k # h => InTurn(k)' /\ Remembers(k)'
    BY <1>2, BystanderStep DEF IInv
  <2> QED BY <2>1, <2>2, <2>3 DEF TurnInv, MemoryInv
<1>8. DiskInv'
  <2>1. LogInv'
    BY <1>1 DEF IInv, DiskInv, LogInv
  <2>2. ASSUME NEW k \in Handle
        PROVE  Knows(k)'
    <3>1. CASE k = h
      BY <1>1, <1>4, <3>1 DEF Knows
    <3>2. CASE k # h
      <4>1. Same(k) /\ UNCHANGED <<disk, lock>>
        BY <1>1, <1>2, <3>2
      <4>2. Knows(k)
        BY DEF IInv, DiskInv
      <4> QED BY <4>1, <4>2 DEF Knows, Same
    <3> QED BY <3>1, <3>2
  <2> QED BY <2>1, <2>2 DEF DiskInv
<1> QED BY <1>5, <1>6, <1>7, <1>8 DEF IInv

----------------------------------------------------------------------------
(* The theorems.                                                           *)

LEMMA NextIInv ==
  ASSUME Sound, IInv, [Next]_vars
  PROVE  IInv'
<1>1. ASSUME NEW h \in Handle, Turn(h)
      PROVE  IInv'
  BY <1>1, TurnDroppedStep, TurnStartsStep, TakeLeaseStep, TurnRefusedStep, TruncatesStep,
     RewritesStep, WritesStep DEF Turn
<1>2. ASSUME NEW h \in Handle, Closing(h)
      PROVE  IInv'
  BY <1>2, UseStep, CloseUnlocksStep, CloseFreesStep DEF Closing
<1>3. CASE Fault
  BY <1>3, WriteFailsStep, PublishUnsyncedStep, CrashStep DEF Fault
<1>4. CASE UNCHANGED vars
  BY <1>4 DEF vars, IInv, Types, LogTypes, OwnerInv, Owned, Writer, Blank, TurnInv, InTurn,
              MemoryInv, Remembers, DiskInv, LogInv, Knows
<1>5. CASE Next
  BY <1>1, <1>2, <1>3, <1>5, ObtainStep, UseStep DEF Next
<1> QED BY <1>4, <1>5

LEMMA BoundedSequences ==
  ASSUME NEW s \in Seq(Event), Len(s) <= MaxSeq
  PROVE  s \in Events
<1>1. Len(s) \in 0..MaxSeq /\ s \in [1..Len(s) -> Event]
  BY HandleAssumption
<1> QED BY <1>1 DEF Events

LEMMA IInvTypeOK == IInv => TypeOK
<1> SUFFICES ASSUME IInv PROVE TypeOK
  OBVIOUS
<1>1. lines \in Events /\ fragment \in Events /\ acked \in 0..MaxSeq
  <2>1. Len(Stored) = Len(lines) + Len(fragment) /\ Len(Stored) <= MaxSeq
    BY StoredFacts, HandleAssumption DEF IInv, Types, DiskInv
  <2>2. /\ lines \in Seq(Event) /\ fragment \in Seq(Event)
        /\ Len(lines) \in Nat /\ Len(fragment) \in Nat /\ acked \in Nat /\ acked <= Len(lines)
    BY DEF IInv, Types, LogTypes, DiskInv, LogInv
  <2> QED BY <2>1, <2>2, BoundedSequences, HandleAssumption
<1>2. ASSUME NEW h \in Handle
      PROVE  /\ cursor[h] \in 0..MaxSeq /\ recovered[h] \in Events
             /\ batch[h] \in Events /\ buffered[h] \in Events
  <2>1. /\ cursor[h] \in Nat /\ length[h] \in 0..MaxSeq
        /\ recovered[h] \in Seq(Event) /\ batch[h] \in Seq(Event) /\ buffered[h] \in Seq(Event)
        /\ Len(recovered[h]) \in Nat /\ Len(batch[h]) \in Nat /\ Len(buffered[h]) \in Nat
    BY DEF IInv, Types
  <2>2. Remembers(h)
    BY DEF IInv, MemoryInv
  <2>3. cursor[h] <= MaxSeq /\ Len(recovered[h]) <= cursor[h]
    BY <2>1, <2>2, HandleAssumption DEF Remembers
  <2>4. Len(batch[h]) <= MaxSeq /\ Len(buffered[h]) <= MaxSeq
    <3>1. CASE chain[h] = <<"append">>
      <4>1. batch[h][1] \in Event
        BY <2>1, <2>2, <3>1 DEF Remembers
      <4>2. MaxSeq >= 1
        BY <4>1, HandleAssumption DEF Event
      <4>3. Len(batch[h]) = 1 /\ Len(buffered[h]) = 0
        BY <2>2, <3>1, EmptyFacts DEF Remembers
      <4> QED BY <4>2, <4>3, HandleAssumption
    <3>2. CASE chain[h] # <<"append">>
      BY <2>1, <2>2, <3>2, HandleAssumption DEF Remembers
    <3> QED BY <3>1, <3>2
  <2> QED BY <2>1, <2>3, <2>4, BoundedSequences, HandleAssumption
<1>3. chain \in [Handle -> Seq({"append", "flush", "drain"})]
  BY ChainsDiffer DEF IInv, Types
<1>4. closing \in [Handle -> {"no", "drain", "release", "free", "done"}]
  BY DEF IInv, Types
<1> QED BY <1>1, <1>2, <1>3, <1>4 DEF IInv, Types, LogTypes, TypeOK

\* Without the late use, the invariant holds at every moment of a session's life.
LEMMA InvTheorem ==
  ASSUME Sound
  PROVE  Spec => []IInv
<1>1. IInv /\ [Next]_vars => IInv'
  BY NextIInv
<1> QED BY <1>1, InitIInv, PTL DEF Spec

\* The fields of the log, its handles and their locks keep their types, and no buffer, batch or
\* log grows past the session (SessionPersistence.TypeOK).
THEOREM TypesKept ==
  ASSUME Sound
  PROVE  Spec => []TypeOK
  BY InvTheorem, IInvTypeOK, PTL

\* Whatever failed on the way, a handle that is closed or was never obtained has given back the
\* claim of its process and the kernel lock (close's finally blocks; releaseHandle).
THEOREM NeverWedged ==
  ASSUME Sound
  PROVE  Spec => []NothingWedged
<1>1. IInv => NothingWedged
  BY DEF IInv, OwnerInv, Owned, NothingWedged
<1> QED BY <1>1, InvTheorem, PTL

\* A close gets past its drain by its own look at the buffer, and nothing else.
LEMMA StopsDraining ==
  ASSUME IInv, Next, NEW h \in Handle,
         closing[h] = "drain", closing'[h] = "release", ~failures[h]
  PROVE  CloseDrained(h) /\ buffered[h] = <<>>
<1>0. closing \in [Handle -> {"no", "drain", "release", "free"}] /\ h \in Handle
  BY DEF IInv, Types
<1>1. ASSUME UNCHANGED closing PROVE FALSE
  BY <1>1
<1>2. ASSUME NEW k \in Handle, Obtain(k) \/ TimerFires(k) \/ WriteFails(k) \/ PublishUnsynced(k)
      PROVE  FALSE
  BY <1>1, <1>2 DEF Obtain, CreateLooks, CreateRegisters, OpenClaims, OpenLocks, OpenReads,
                    OpenFails, TimerFires, WriteFails, PublishUnsynced, TurnFails, ending
<1>3. ASSUME NEW k \in Handle, Turn(k) PROVE FALSE
  BY <1>1, <1>3 DEF Turn, TurnDropped, TurnStarts, TakeLease, TurnRefused, TurnFails, Truncates,
                    Rewrites, Writes, ending
<1>4. ASSUME NEW k \in Handle, Use(k) PROVE FALSE
  <2>1. CASE Close(k)
    BY <1>0, <2>1 DEF Close
  <2> QED BY <1>1, <1>4, <2>1 DEF Use, Publish, AppendEvent, Flush, Drain, ending
<1>5. ASSUME NEW k \in Handle, Closing(k) PROVE CloseDrained(h) /\ buffered[h] = <<>>
  <2>1. ~CloseFrees(k)
    <3>1. CASE "late" \in Faults
      BY <1>0, <3>1 DEF CloseFrees, Leave
    <3>2. CASE "late" \notin Faults
      BY <1>0, <3>2 DEF CloseFrees, Leave, Forget, Cleared
    <3> QED BY <3>1, <3>2
  <2>2. ~CloseUnlocks(k)
    BY <1>0 DEF CloseUnlocks
  <2>3. CloseDrained(k) /\ k = h
    BY <1>0, <1>5, <2>1, <2>2 DEF Closing, CloseDrained
  <2> QED BY <2>3 DEF CloseDrained
<1>6. ASSUME NEW p \in Process, Crash(p) PROVE FALSE
  BY <1>0, <1>6 DEF Crash, Forget, Cleared
<1> QED BY <1>2, <1>3, <1>4, <1>5, <1>6 DEF Next, Fault

\* A close that stops draining and has no failure to report has stored every event its handle
\* was given until then, over drains that failed before it, turns queued in front of its drain
\* and events published meanwhile (the loop of close()).
THEOREM CloseIsComplete ==
  ASSUME Sound
  PROVE  Spec => CloseLosesNothing
<1>1. IInv /\ [Next]_vars =>
        [\A h \in Handle : closing[h] = "drain" /\ closing'[h] = "release" /\ ~failures[h]
                          => cursor[h] = length[h]]_vars
  <2> SUFFICES ASSUME IInv, Next, NEW h \in Handle,
                      closing[h] = "drain", closing'[h] = "release", ~failures[h]
               PROVE  cursor[h] = length[h]
    OBVIOUS
  <2>1. CloseDrained(h) /\ buffered[h] = <<>>
    BY StopsDraining
  <2>2. chain[h] = <<>> /\ step[h] = "none"
    BY <2>1 DEF CloseDrained, IInv, TurnInv, InTurn
  <2>3. batch[h] = <<>> /\ cursor[h] + Len(batch[h]) + Len(buffered[h]) = length[h]
    BY <2>2, ChainsDiffer DEF IInv, MemoryInv, Remembers
  <2> QED BY <2>1, <2>3, EmptyFacts DEF IInv, Types
<1> QED BY <1>1, InvTheorem, PTL DEF Spec, CloseLosesNothing
----------------------------------------------------------------------------
(* What happens to the log.                                                *)

\* What was acknowledged is there, as it was.
Keeps == acked <= Len(lines') /\ acked <= acked' /\ \A i \in 1..acked : lines'[i] = lines[i]

LEMMA LinesGrow ==
  ASSUME IInv, NEW t \in Seq(Event), lines' = lines \o t
  PROVE  acked <= Len(lines') /\ \A i \in 1..acked : lines'[i] = lines[i]
<1>1. lines \in Seq(Event) /\ acked \in Nat /\ acked <= Len(lines) /\ Len(lines) \in Nat
  BY DEF IInv, Types, LogTypes, DiskInv, LogInv
<1>2. Len(lines') = Len(lines) + Len(t) /\ \A i \in 1..Len(lines) : lines'[i] = lines[i]
  BY <1>1
<1>3. Len(t) \in Nat
  OBVIOUS
<1> QED BY <1>1, <1>2, <1>3

LEMMA LinesStay ==
  ASSUME IInv, UNCHANGED <<lines, acked>>
  PROVE  Keeps
  BY DEF IInv, Types, LogTypes, DiskInv, LogInv, Keeps

\* A death between two steps of a write keeps what was acknowledged before it.
LEMMA InterruptedKeeps ==
  ASSUME IInv, NEW h \in Handle, step[h] \notin {"none", "lease"}, Interrupted(h), acked' = acked
  PROVE  Keeps
<1> DEFINE B == IF step[h] = "rewrite" THEN recovered[h] ELSE batch[h]
<1>1. B \in Seq(Event) /\ Len(B) \in Nat /\ acked \in Nat
  BY DEF IInv, Types, LogTypes
<1> HIDE DEF B
<1>2. CASE ~exists /\ lines' = B
  <2>1. acked = 0
    BY <1>2 DEF IInv, DiskInv, LogInv
  <2> QED BY <1>1, <1>2, <2>1 DEF Keeps
<1>3. CASE lines' = lines
  BY <1>3, LinesStay
<1>4. CASE lines' = lines \o B
  BY <1>1, <1>4, LinesGrow DEF Keeps
<1>5. ASSUME NEW k \in 0..Len(B) - 1, lines' = lines \o SubSeq(B, 1, k)
      PROVE  Keeps
  <2>1. \A i \in 1..k : B[i] \in Event
    BY <1>1
  <2>2. SubSeq(B, 1, k) \in Seq(Event)
    BY <2>1, SubSeqProperties
  <2> DEFINE t == SubSeq(B, 1, k)
  <2> HIDE DEF t
  <2>3. t \in Seq(Event) /\ lines' = lines \o t
    BY <1>5, <2>2 DEF t
  <2> QED BY <1>1, <2>3, LinesGrow DEF Keeps
<1>6. \/ lines' = lines
      \/ ~exists /\ lines' = B
      \/ lines' = lines \o B
      \/ \E k \in 0..Len(B) - 1 : lines' = lines \o SubSeq(B, 1, k)
  BY DEF Interrupted, B
<1> QED BY <1>2, <1>3, <1>4, <1>5, <1>6

\* Every step keeps what was acknowledged, and one that touches the log is a step of the handle
\* with the lock.
LEMMA LogStep ==
  ASSUME Sound, IInv, [Next]_vars
  PROVE  /\ Keeps
         /\ \/ UNCHANGED disk
            \/ \E h \in Handle : lock = h /\ step[h] \notin {"none", "lease"} /\ step'[h] # step[h]
<1> DEFINE Acts(h) == lock = h /\ step[h] \notin {"none", "lease"} /\ step'[h] # step[h]
<1>1. CASE UNCHANGED disk
  BY <1>1, LinesStay
<1>2. ASSUME NEW h \in Handle, step[h] \notin {"none", "lease"}, step'[h] # step[h]
      PROVE  Acts(h)
  BY <1>2, TurnFacts
<1>3. ASSUME NEW h \in Handle, Truncates(h)
      PROVE  Keeps /\ Acts(h)
  <2>1. Keeps
    BY <1>3, LinesStay DEF Truncates
  <2>2. step[h] \notin {"none", "lease"} /\ step'[h] # step[h]
    BY <1>3 DEF Truncates, IInv, Types
  <2> QED BY <1>2, <2>1, <2>2
<1>4. ASSUME NEW h \in Handle, Rewrites(h)
      PROVE  Keeps /\ Acts(h)
  <2>1. step[h] = "rewrite" /\ step'[h] # step[h]
    BY <1>4 DEF Rewrites, IInv, Types
  <2>2. acked <= acked'
    <3>1. lock = h
      BY <2>1, TurnFacts
    <3>2. materialized[h]
      BY <2>1 DEF IInv, TurnInv, InTurn
    <3>3. cursor[h] = Len(lines) + Len(recovered[h]) /\ acked <= Len(lines)
      BY <3>1, <3>2 DEF IInv, DiskInv, Knows, LogInv
    <3>4. Len(lines) \in Nat /\ Len(recovered[h]) \in Nat /\ acked \in Nat /\ acked' = cursor[h]
      BY <1>4 DEF Rewrites, IInv, Types, LogTypes
    <3> QED BY <3>3, <3>4
  <2>3. Keeps
    BY <1>4, <2>2, LinesGrow DEF Rewrites, Keeps, IInv, Types
  <2> QED BY <1>2, <2>1, <2>3
<1>5. ASSUME NEW h \in Handle, Writes(h)
      PROVE  Keeps /\ Acts(h)
  <2>1. step[h] = "write" /\ step'[h] # step[h] /\ (materialized[h] \/ ~exists)
    BY <1>5 DEF Writes, IInv, Types
  <2>2. cursor[h] = Len(lines) /\ acked <= Len(lines)
    BY <2>1, WriteFacts
  <2>3. acked <= acked'
    <3>1. Len(lines) \in Nat /\ Len(batch[h]) \in Nat /\ acked \in Nat
          /\ acked' = cursor[h] + Len(batch[h])
      BY <1>5 DEF Writes, IInv, Types, LogTypes
    <3> QED BY <2>2, <3>1
  <2>4. Keeps
    BY <1>5, <2>3, LinesGrow DEF Writes, Keeps, IInv, Types
  <2> QED BY <1>2, <2>1, <2>4
<1>6. ASSUME NEW h \in Handle, WriteFails(h)
      PROVE  Keeps /\ (UNCHANGED disk \/ Acts(h))
  <2>1. Keeps
    BY <1>6, LinesStay DEF WriteFails
  <2>2. CASE UNCHANGED <<torn, fragment>>
    BY <1>6, <2>1, <2>2 DEF WriteFails
  <2>3. CASE step[h] = "truncate"
    <3>1. step'[h] = "none"
      BY <1>6 DEF WriteFails, TurnFails, Pop, IInv, Types
    <3> QED BY <1>2, <2>1, <2>3, <3>1
  <2> QED BY <1>6, <2>2, <2>3 DEF WriteFails
<1>7. ASSUME NEW h \in Handle, PublishUnsynced(h)
      PROVE  Keeps /\ Acts(h)
  <2>1. step[h] = "write" /\ step'[h] = "none" /\ ~exists /\ lines' = batch[h] /\ acked' = acked
    BY <1>7 DEF PublishUnsynced, TurnFails, Pop, IInv, Types
  <2>2. acked = 0 /\ Len(batch[h]) \in Nat
    BY <2>1 DEF IInv, Types, DiskInv, LogInv
  <2> QED BY <1>2, <2>1, <2>2 DEF Keeps
<1>8. ASSUME NEW p \in Process, Crash(p)
      PROVE  Keeps /\ (UNCHANGED disk \/ \E h \in Handle : Acts(h))
  <2>1. CASE UNCHANGED disk
    BY <2>1, LinesStay
  <2>2. CASE /\ \E h \in Dies(p) : step[h] \notin {"none", "lease"} /\ Interrupted(h)
             /\ UNCHANGED <<framed, acked>>
    <3>1. PICK h \in Dies(p) : step[h] \notin {"none", "lease"} /\ Interrupted(h)
      BY <2>2
    <3>2. h \in Handle
      BY DEF Dies
    <3>3. step'[h] = "none"
      BY <1>8, <3>2 DEF Crash, Forget, Cleared
    <3> QED BY <1>2, <2>2, <3>1, <3>2, <3>3, InterruptedKeeps
  <2> QED BY <1>8, <2>1, <2>2 DEF Crash
<1>9. CASE UNCHANGED vars
  BY <1>1, <1>9 DEF vars
<1>10. ASSUME NEW h \in Handle, Obtain(h) \/ Use(h) \/ TimerFires(h) \/ Closing(h)
       PROVE  UNCHANGED disk
  BY <1>10 DEF Obtain, CreateLooks, CreateRegisters, OpenClaims, OpenLocks, OpenReads, OpenFails,
               Use, Publish, AppendEvent, Flush, Drain, Close, TimerFires,
               Closing, CloseDrained, CloseUnlocks, CloseFrees
<1>11. ASSUME NEW h \in Handle, Turn(h)
       PROVE  Keeps /\ (UNCHANGED disk \/ Acts(h))
  <2>1. CASE TurnDropped(h) \/ TurnStarts(h) \/ TakeLease(h) \/ TurnRefused(h)
    BY <1>1, <2>1 DEF TurnDropped, TurnStarts, TakeLease, TurnRefused
  <2> QED BY <1>3, <1>4, <1>5, <1>11, <2>1 DEF Turn
<1> QED BY <1>1, <1>6, <1>7, <1>8, <1>9, <1>10, <1>11 DEF Next, Fault

\* A write handle is its session's single mutator: whoever changes the log has both the claim of
\* its process and the kernel lock, and does so in a turn of its chain (persistContiguous).
THEOREM OneMutator ==
  ASSUME Sound
  PROVE  Spec => SingleMutator
<1>1. ASSUME IInv, [Next]_vars
      PROVE  [<<exists, Stored>>' # <<exists, Stored>> =>
                \E h \in Handle : lock = h /\ Writer(h) /\ step[h] # step'[h]]_vars
  <2>1. CASE UNCHANGED disk
    BY <2>1 DEF Stored
  <2>2. ASSUME NEW h \in Handle, lock = h, step[h] \notin {"none", "lease"}, step'[h] # step[h]
        PROVE  Writer(h)
    <3>1. Live(h)
      BY <1>1, <2>2, TurnFacts
    <3> QED BY <1>1, <3>1 DEF IInv, OwnerInv, Owned, Live
  <2> QED BY <1>1, <2>1, <2>2, LogStep
<1> QED BY <1>1, InvTheorem, PTL DEF Spec, SingleMutator

\* The log every handle shares is a DurableLog, step by step.
LEMMA PromiseStep ==
  ASSUME Sound, IInv, IInv', [Next]_vars
  PROVE  [Promise!Next]_<<Stored, acked>>
<1>1. Keeps
  BY LogStep
<1>2. /\ lines \in Seq(Event) /\ fragment \in Seq(Event) /\ Len(lines) \in Nat /\ acked \in Nat
      /\ lines' \in Seq(Event) /\ fragment' \in Seq(Event) /\ Len(lines') \in Nat /\ acked' \in Nat
      /\ acked <= Len(lines) /\ acked' <= Len(lines')
      /\ Numbers(lines', 0) /\ Numbers(fragment', 0 + Len(lines'))
  <2>1. LogTypes /\ LogInv /\ LogTypes' /\ LogInv'
    BY DEF IInv, Types, DiskInv
  <2>2. /\ lines \in Seq(Event) /\ fragment \in Seq(Event) /\ Len(lines) \in Nat
        /\ acked \in Nat /\ acked <= Len(lines)
    BY <2>1 DEF LogTypes, LogInv
  <2>3. /\ lines' \in Seq(Event) /\ fragment' \in Seq(Event) /\ acked' \in Nat
        /\ acked' <= Len(lines') /\ Numbers(lines', 0) /\ Numbers(fragment', Len(lines'))
    BY <2>1 DEF LogTypes, LogInv
  <2>4. Len(lines') \in Nat
    BY <2>3
  <2> QED BY <2>2, <2>3, <2>4
<1>3. Stored' \in Seq(Event) /\ Numbers(Stored', 0) /\ Len(Stored') = Len(lines') + Len(fragment')
  BY <1>2, NumbersConcat DEF Stored
<1>4. Promise!Kept(acked)
  <2>1. acked <= Len(Stored')
    BY <1>1, <1>2, <1>3 DEF Keeps
  <2>2. ASSUME NEW i \in 1..acked
        PROVE  Stored'[i] = Stored[i]
    <3>1. i \in 1..Len(lines) /\ i \in 1..Len(lines')
      BY <1>1, <1>2 DEF Keeps
    <3>2. Stored[i] = lines[i] /\ Stored'[i] = lines'[i]
      BY <1>2, <3>1 DEF Stored
    <3> QED BY <1>1, <3>2 DEF Keeps
  <2> QED BY <2>1, <2>2 DEF Promise!Kept
<1>5. Promise!Numbered
  BY <1>3 DEF Promise!Numbered, Numbers
<1>6. acked' \in acked..Len(Stored')
  BY <1>1, <1>2, <1>3 DEF Keeps
<1> QED BY <1>4, <1>5, <1>6 DEF Promise!Next, Promise!Acknowledge

\* Whatever handles open, write, fail, close and crash, what a reader is given is a DurableLog:
\* what was acknowledged stays as it is and no event is missed or repeated (assertContiguous).
THEOREM LogIsDurable ==
  ASSUME Sound
  PROVE  Spec => AckedNeverLost
<1>1. Init => Promise!Init
  BY DEF Init, Promise!Init, Stored
<1>2. IInv /\ IInv' /\ [Next]_vars => [Promise!Next]_<<Stored, acked>>
  BY PromiseStep
<1> QED BY <1>1, <1>2, InvTheorem, PTL DEF Spec, AckedNeverLost, Promise!Spec

----------------------------------------------------------------------------
(* The batching: nobody has to ask for a drain.                            *)

\* An event that waits in the buffer of an open handle has a deadline, a drain on the chain, or
\* a drain that has failed before it.
Scheduled(h) ==
  Live(h) /\ closing[h] = "no" /\ buffered[h] # <<>> =>
    timer[h] \/ drainPaused[h] \/ chain[h] \in DrainChains

\* enqueueLive, drainLive and the turn of a drain leave no event behind, whatever deadline,
\* flush, append or failure comes between: the safety half of EventsReachLog.
NothingStranded == \A h \in Handle : Scheduled(h)

Owing(h) ==
  Live(h) /\ closing[h] = "no" /\ buffered[h] # <<>> => timer[h] \/ drainPaused[h] \/ draining[h]

LEMMA DrainOwes ==
  ASSUME IInv, NEW h \in Handle, DrainLive(h), UNCHANGED buffered
  PROVE  buffered'[h] # <<>> => draining'[h]
  BY DEF DrainLive, IInv, Types

LEMMA DrainLeaves ==
  ASSUME IInv, NEW h \in Handle, DrainLive(h), NEW k \in Handle, k # h
  PROVE  drainPaused'[k] = drainPaused[k] /\ draining'[k] = draining[k]
  BY DEF DrainLive, IInv, Types

LEMMA OwingStays ==
  ASSUME NEW k \in Handle, Owing(k), Live(k)' => Live(k), closing'[k] = "no" => closing[k] = "no",
         buffered'[k] = buffered[k], timer[k] => timer'[k], drainPaused[k] => drainPaused'[k],
         draining[k] => draining'[k]
  PROVE  Owing(k)'
  BY DEF Owing

\* A handle that is not open has no event.
LEMMA ObtainOwes ==
  ASSUME IInv, NEW h \in Handle, Obtain(h), NEW k \in Handle, Owing(k)
  PROVE  Owing(k)'
<1>1. UNCHANGED <<buffer, ending>> /\ (k # h => stage'[k] = stage[k])
  BY DEF Obtain, CreateLooks, CreateRegisters, OpenClaims, OpenLocks, OpenReads, OpenFails, Become,
         IInv, Types
<1>2. CASE Live(k)
  BY <1>1, <1>2, OwingStays DEF buffer, ending
<1>3. CASE ~Live(k)
  <2>1. buffered[k] = <<>>
    BY <1>3 DEF IInv, OwnerInv, Owned, Blank, Live
  <2> QED BY <1>1, <2>1 DEF Owing, buffer
<1> QED BY <1>2, <1>3

LEMMA UseOwes ==
  ASSUME IInv, NEW h \in Handle, NEW k \in Handle, Owing(k),
         Use(h) \/ TimerFires(h) \/ CloseDrained(h)
  PROVE  Owing(k)'
<1>1. CASE Publish(h)
  BY <1>1 DEF Publish, Owing, Live, ending, IInv, Types
<1>2. CASE AppendEvent(h) \/ Flush(h)
  BY <1>2, OwingStays DEF AppendEvent, Flush, Live, buffer, ending
<1>3. CASE DrainLive(h) /\ UNCHANGED <<stage, buffered>>
             /\ (closing'[k] = "no" => closing[k] = "no") /\ (k # h => timer'[k] = timer[k])
  <2>1. CASE k = h
    BY <1>3, <2>1, DrainOwes DEF Owing
  <2>2. CASE k # h
    BY <1>3, <2>2, DrainLeaves, OwingStays DEF Live
  <2> QED BY <2>1, <2>2
<1>4. CASE Drain(h) \/ TimerFires(h)
  BY <1>3, <1>4 DEF Drain, TimerFires, ending, IInv, Types
<1>5. CASE Close(h)
  BY <1>3, <1>5 DEF Close, IInv, Types
<1>6. CASE CloseDrained(h)
  <2>1. CASE failures[h] \/ buffered[h] = <<>>
    <3>1. closing' = [closing EXCEPT ![h] = "release"] /\ UNCHANGED <<chain, buffer, stage>>
      BY <1>6, <2>1 DEF CloseDrained
    <3>2. closing'[k] = "no" => closing[k] = "no"
      BY <3>1 DEF IInv, Types
    <3>3. Live(k)' => Live(k)
      BY <3>1 DEF Live
    <3> QED BY <3>1, <3>2, <3>3, OwingStays DEF buffer
  <2>2. CASE ~(failures[h] \/ buffered[h] = <<>>)
    BY <1>3, <1>6, <2>2 DEF CloseDrained, IInv, Types
  <2> QED BY <2>1, <2>2
<1> QED BY <1>1, <1>2, <1>4, <1>5, <1>6 DEF Use

\* A drain that begins empties the buffer, one that ends goes on while there is more, and one that
\* fails pauses.
LEMMA TurnOwes ==
  ASSUME IInv, NEW h \in Handle, NEW k \in Handle, Owing(k),
         Turn(h) \/ WriteFails(h) \/ PublishUnsynced(h)
  PROVE  Owing(k)'
<1>1. CASE TurnDropped(h) \/ TakeLease(h) \/ Truncates(h) \/ Rewrites(h)
  BY <1>1, OwingStays DEF TurnDropped, TakeLease, Truncates, Rewrites, Live, buffer, ending
<1>2. CASE TurnStarts(h)
  <2>1. /\ UNCHANGED <<stage, timer, drainPaused, draining, closing>>
        /\ buffered'[k] \in {buffered[k], <<>>}
    BY <1>2 DEF TurnStarts, ending, IInv, Types
  <2> QED BY <2>1 DEF Owing, Live
<1>3. CASE TurnFails(h) /\ UNCHANGED stage
  <2>1. CASE k = h /\ Head(chain[h]) = "drain"
    BY <1>3, <2>1 DEF TurnFails, Owing, IInv, Types
  <2>2. CASE ~(k = h /\ Head(chain[h]) = "drain")
    BY <1>3, <2>2, OwingStays DEF TurnFails, Live, IInv, Types
  <2> QED BY <2>1, <2>2
<1>4. CASE TurnRefused(h) \/ WriteFails(h) \/ PublishUnsynced(h)
  BY <1>3, <1>4 DEF TurnRefused, WriteFails, PublishUnsynced
<1>5. CASE Writes(h)
  <2>1. /\ UNCHANGED <<stage, buffered, timer, drainPaused, closing>>
        /\ k # h => draining'[k] = draining[k]
        /\ draining'[h] = IF Head(chain[h]) = "drain" THEN buffered[h] # <<>> ELSE draining[h]
    BY <1>5 DEF Writes, ending, IInv, Types
  <2> QED BY <2>1 DEF Owing, Live
<1> QED BY <1>1, <1>2, <1>4, <1>5 DEF Turn

LEMMA EndOwes ==
  ASSUME IInv, NEW k \in Handle, Owing(k),
         \/ \E h \in Handle : CloseUnlocks(h) \/ (CloseFrees(h) /\ Sound)
         \/ \E p \in Process : Crash(p)
  PROVE  Owing(k)'
<1>1. ASSUME NEW h \in Handle, CloseUnlocks(h)
      PROVE  Owing(k)'
  BY <1>1, OwingStays DEF CloseUnlocks, Live, buffer, IInv, Types
<1>2. ASSUME NEW H \in SUBSET Handle, Forget(H), k \notin H => stage'[k] = stage[k]
      PROVE  Owing(k)'
  <2>1. CASE k \in H
    BY <1>2, <2>1 DEF Forget, Cleared, Owing
  <2>2. CASE k \notin H
    BY <1>2, <2>2, OwingStays DEF Forget, Cleared, Live
  <2> QED BY <2>1, <2>2
<1>3. ASSUME NEW h \in Handle, CloseFrees(h), Sound
      PROVE  Owing(k)'
  BY <1>2, <1>3 DEF CloseFrees, Leave, Sound, Become, IInv, Types
<1>4. ASSUME NEW p \in Process, Crash(p)
      PROVE  Owing(k)'
  BY <1>2, <1>4 DEF Crash, Dies
<1> QED BY <1>1, <1>3, <1>4

\* Nobody has to ask for a drain: a routed event is on its way to the log until a drain fails.
THEOREM NoneStranded ==
  ASSUME Sound
  PROVE  Spec => []NothingStranded
<1> DEFINE Owe == \A k \in Handle : Owing(k)
<1>1. Init => Owe
  BY DEF Init, Owing
<1>2. ASSUME IInv, Owe, [Next]_vars PROVE Owe'
  <2> SUFFICES ASSUME NEW k \in Handle PROVE Owing(k)'
    OBVIOUS
  <2>0. Owing(k)
    BY <1>2
  <2>1. ASSUME NEW h \in Handle, Obtain(h) \/ Use(h) \/ Turn(h) \/ TimerFires(h) \/ Closing(h)
        PROVE  Owing(k)'
    BY <1>2, <2>0, <2>1, ObtainOwes, UseOwes, TurnOwes, EndOwes DEF Closing
  <2>2. CASE Fault
    BY <1>2, <2>0, <2>2, TurnOwes, EndOwes DEF Fault
  <2>3. CASE UNCHANGED vars
    BY <2>0, <2>3, OwingStays DEF vars, Live, buffer, ending
  <2> QED BY <1>2, <2>1, <2>2, <2>3 DEF Next
<1>3. IInv /\ Owe => NothingStranded
  BY DEF IInv, TurnInv, InTurn, NothingStranded, Scheduled, Owing
<1> HIDE DEF Owe
<1> QED BY <1>1, <1>2, <1>3, InvTheorem, PTL DEF Spec

----------------------------------------------------------------------------
(* The close: what its handle still has to do runs out.                    *)

StepLeft(s) ==
  CASE s = "none" -> 5 [] s = "lease" -> 4 [] s = "truncate" -> 3 [] s = "rewrite" -> 2
    [] s = "write" -> 1

\* What is left of the turns on the chain.
TurnsLeft(h) ==
  IF chain[h] = <<>> THEN 0
  ELSE StepLeft(step[h]) + (IF chain[h] = <<"flush", "drain">> THEN 5 ELSE 0)

\* A drain on the chain has still to take the buffer.
Queued(h) == chain[h] = <<"flush", "drain">> \/ (chain[h] = <<"drain">> /\ step[h] = "none")

\* Events no queued drain will take need one more, unless a drain failed before them.
BufferLeft(h) == IF ~failures[h] /\ buffered[h] # <<>> /\ ~Queued(h) THEN 8 ELSE 0
TimerLeft(h) == IF timer[h] THEN 1 ELSE 0
CloseLeft(h) == IF closing[h] = "drain" THEN 2 ELSE IF closing[h] = "release" THEN 1 ELSE 0

Left(h) ==
  10 * (MaxSeq - length[h]) + TurnsLeft(h) + BufferLeft(h) + TimerLeft(h) + CloseLeft(h)

Idle(h) ==
  UNCHANGED <<length[h], chain[h], step[h], buffered[h], timer[h], closing[h], failures[h]>>

\* Every step a closing handle takes leaves it less to do, whichever writes fail and whatever
\* is published, or fires, while it closes: the drains of close() cannot follow each other for
\* ever.  The safety half of CloseSettles.
ClosesRunOut ==
  [][\A h \in Handle : closing[h] # "no" /\ closing'[h] # "no" =>
        Left(h) \in Nat /\ (Left(h)' < Left(h) \/ Idle(h))]_vars

\* A drain that fails a close is its last turn.
FailInv == \A h \in Handle : failures[h] => chain[h] = <<>> /\ closing[h] # "no"

\* What chains and steps weigh.
LEMMA Weights ==
  /\ StepLeft("none") = 5 /\ StepLeft("lease") = 4 /\ StepLeft("truncate") = 3
  /\ StepLeft("rewrite") = 2 /\ StepLeft("write") = 1
  BY DEF StepLeft

LEMMA Parts ==
  ASSUME IInv, NEW h \in Handle
  PROVE  /\ TurnsLeft(h) \in Nat /\ BufferLeft(h) \in {0, 8} /\ TimerLeft(h) \in {0, 1}
         /\ CloseLeft(h) \in {0, 1, 2} /\ length[h] \in 0..MaxSeq /\ Left(h) \in Nat
<1>1. StepLeft(step[h]) \in Nat
  <2>1. step[h] \in {"none", "lease", "truncate", "rewrite", "write"}
    BY DEF IInv, Types, Steps
  <2> QED BY <2>1 DEF StepLeft
<1>2. TurnsLeft(h) \in Nat /\ BufferLeft(h) \in {0, 8} /\ TimerLeft(h) \in {0, 1} /\ CloseLeft(h) \in {0, 1, 2}
  BY <1>1 DEF TurnsLeft, BufferLeft, TimerLeft, CloseLeft
<1>3. length[h] \in 0..MaxSeq
  BY DEF IInv, Types
<1>4. 10 * (MaxSeq - length[h]) \in Nat
  BY <1>3, HandleAssumption
<1> QED BY <1>2, <1>3, <1>4 DEF Left

LEMMA PartsAll ==
  IInv => \A k \in Handle :
    /\ TurnsLeft(k) \in Nat /\ BufferLeft(k) \in {0, 8} /\ TimerLeft(k) \in {0, 1}
    /\ CloseLeft(k) \in {0, 1, 2} /\ length[k] \in 0..MaxSeq
  BY Parts

LEMMA PartsNext ==
  ASSUME IInv', NEW h \in Handle
  PROVE  /\ TurnsLeft(h)' \in Nat /\ BufferLeft(h)' \in {0, 8} /\ TimerLeft(h)' \in {0, 1}
         /\ CloseLeft(h)' \in {0, 1, 2} /\ length'[h] \in 0..MaxSeq
<1>1. (IInv => \A k \in Handle :
         /\ TurnsLeft(k) \in Nat /\ BufferLeft(k) \in {0, 8} /\ TimerLeft(k) \in {0, 1}
         /\ CloseLeft(k) \in {0, 1, 2} /\ length[k] \in 0..MaxSeq)'
  BY PartsAll, PTL
<1> QED BY <1>1

\* The measure falls when its parts do, or an event is given a number.
LEMMA Falls ==
  ASSUME IInv, IInv', NEW h \in Handle,
         \/ /\ length'[h] >= length[h]
            /\ TurnsLeft(h)' + BufferLeft(h)' + TimerLeft(h)' + CloseLeft(h)'
                 < TurnsLeft(h) + BufferLeft(h) + TimerLeft(h) + CloseLeft(h)
         \/ /\ length'[h] = length[h] + 1 /\ TurnsLeft(h)' = TurnsLeft(h)
            /\ CloseLeft(h)' = CloseLeft(h)
  PROVE  Left(h) \in Nat /\ Left(h)' < Left(h)
<1> DEFINE t == TurnsLeft(h)    b == BufferLeft(h)    m == TimerLeft(h)    c == CloseLeft(h)
           t1 == TurnsLeft(h)'  b1 == BufferLeft(h)'  m1 == TimerLeft(h)'  c1 == CloseLeft(h)'
<1>1. /\ t \in Nat /\ b \in {0, 8} /\ m \in {0, 1} /\ c \in {0, 1, 2} /\ length[h] \in 0..MaxSeq
      /\ Left(h) \in Nat
  BY Parts
<1>2. /\ t1 \in Nat /\ b1 \in {0, 8} /\ m1 \in {0, 1} /\ c1 \in {0, 1, 2}
      /\ length'[h] \in 0..MaxSeq
  BY PartsNext
<1> DEFINE u == 10 * (MaxSeq - length[h])  v == 10 * (MaxSeq - length'[h])
<1>3. Left(h) = u + t + b + m + c /\ Left(h)' = v + t1 + b1 + m1 + c1
  BY DEF Left
<1>4. u \in Int /\ v \in Int
  BY <1>1, <1>2, HandleAssumption
<1>5. \/ v <= u /\ t1 + b1 + m1 + c1 < t + b + m + c
      \/ v = u - 10 /\ t1 = t /\ c1 = c
  BY <1>1, <1>2, HandleAssumption
<1>6. CASE v <= u /\ t1 + b1 + m1 + c1 < t + b + m + c
  <2> HIDE DEF t, b, m, c, t1, b1, m1, c1, u, v
  <2>1. t \in Int /\ b \in Int /\ m \in Int /\ c \in Int /\ t1 \in Int /\ b1 \in Int /\ m1 \in Int /\ c1 \in Int
    BY <1>1, <1>2
  <2> DEFINE p == t + b + m + c  q == t1 + b1 + m1 + c1
  <2>2. p \in Int /\ q \in Int /\ q < p
    BY <1>6, <2>1
  <2>3. Left(h) = u + p /\ Left(h)' = v + q
    BY <1>3, <1>4, <2>1
  <2> HIDE DEF p, q
  <2> QED BY <1>1, <1>4, <1>6, <2>2, <2>3
<1>7. CASE v = u - 10 /\ t1 = t /\ c1 = c
  <2> HIDE DEF t, b, m, c, t1, b1, m1, c1, u, v
  <2>1. t \in Int /\ b \in Int /\ m \in Int /\ c \in Int /\ b1 \in Int /\ m1 \in Int
        /\ b >= 0 /\ m >= 0 /\ b1 <= 8 /\ m1 <= 1
    BY <1>1, <1>2
  <2>2. Left(h)' = (u - 10) + t + b1 + m1 + c
    BY <1>3, <1>7
  <2> QED BY <1>1, <1>3, <1>4, <2>1, <2>2
<1> QED BY <1>5, <1>6, <1>7

\* A drain that is asked for takes over what it adds to the chain from the buffer it will take.
LEMMA DrainFalls ==
  ASSUME IInv, IInv', NEW h \in Handle, DrainLive(h), ~failures[h],
         UNCHANGED <<length, step, buffered, failures, closing>>, timer'[h] = FALSE,
         timer[h] \/ (~draining[h] /\ buffered[h] # <<>>)
  PROVE  Left(h) \in Nat /\ Left(h)' < Left(h)
<1>1. /\ chain[h] \in Chains /\ chain \in [Handle -> Chains] /\ InTurn(h) /\ Remembers(h)
      /\ length[h] \in Nat /\ step[h] \in Steps
  BY DEF IInv, Types, TurnInv, MemoryInv
<1>2. /\ TurnsLeft(h) \in Nat /\ BufferLeft(h) \in {0, 8} /\ TimerLeft(h) \in {0, 1}
      /\ CloseLeft(h) \in {0, 1, 2}
  BY Parts
<1>3. CloseLeft(h)' = CloseLeft(h) /\ TimerLeft(h)' = 0
  BY DEF CloseLeft, TimerLeft
<1>4. CASE draining[h] \/ buffered[h] = <<>>
  <2>1. timer[h] /\ chain'[h] = chain[h]
    BY <1>1, <1>4 DEF DrainLive
  <2>2. TurnsLeft(h)' = TurnsLeft(h) /\ BufferLeft(h)' = BufferLeft(h) /\ TimerLeft(h) = 1
    BY <2>1 DEF TurnsLeft, BufferLeft, TimerLeft, Queued
  <2> QED BY <1>1, <1>2, <1>3, <2>2, Falls
<1>5. CASE ~draining[h] /\ buffered[h] # <<>>
  <2>1. chain[h] \in {<<>>, <<"flush">>} /\ chain'[h] = Append(chain[h], "drain")
    BY <1>1, <1>5 DEF DrainLive, InTurn, Remembers, Chains, DrainChains
  <2>2. \/ chain[h] = <<>> /\ chain'[h] = <<"drain">>
        \/ chain[h] = <<"flush">> /\ chain'[h] = <<"flush", "drain">>
    <3>1. "flush" \in {"flush", "drain"} /\ "drain" \in {"flush", "drain"}
      OBVIOUS
    <3> QED BY <2>1, <3>1, ChainAppends
  <2>3. TurnsLeft(h)' = TurnsLeft(h) + 5
    <3>1. CASE chain[h] = <<>> /\ chain'[h] = <<"drain">>
      <4>1. step[h] = "none"
        BY <1>1, <3>1 DEF InTurn
      <4> QED BY <3>1, <4>1, Weights, ChainsDiffer DEF TurnsLeft, DrainChains
    <3>2. CASE chain[h] = <<"flush">> /\ chain'[h] = <<"flush", "drain">>
      <4>1. chain[h] \notin {<<>>, <<"flush", "drain">>} /\ chain'[h] # <<>>
        BY <3>2, ChainsDiffer DEF DrainChains
      <4>2. StepLeft(step[h]) \in Nat
        <5>1. step[h] \in {"none", "lease", "truncate", "rewrite", "write"}
          BY <1>1 DEF Steps
        <5> QED BY <5>1 DEF StepLeft
      <4> QED BY <3>2, <4>1, <4>2 DEF TurnsLeft
    <3> QED BY <2>2, <3>1, <3>2
  <2>4. BufferLeft(h) = 8 /\ BufferLeft(h)' = 0
    <3>1. ~Queued(h)
      BY <2>2, ChainsDiffer DEF Queued, DrainChains
    <3>2. Queued(h)'
      BY <1>1, <2>2 DEF Queued, InTurn
    <3> QED BY <1>5, <3>1, <3>2 DEF BufferLeft
  <2> QED BY <1>1, <1>2, <1>3, <2>3, <2>4, Falls
<1> QED BY <1>4, <1>5

\* A turn that is dropped, or fails, leaves the one behind it; so does one that is written,
\* unless it is a drain and events have come.
LEMMA PopFalls ==
  ASSUME IInv, IInv', NEW h \in Handle, chain[h] # <<>>, length'[h] >= length[h],
         UNCHANGED <<timer, closing>>, step'[h] = "none",
         \/ /\ Head(chain[h]) # "drain" /\ chain'[h] = Tail(chain[h])
            /\ buffered'[h] = buffered[h] /\ failures'[h] = failures[h]
         \/ /\ Head(chain[h]) = "drain" /\ step[h] # "none" /\ chain'[h] = Tail(chain[h])
            /\ failures'[h] \/ buffered'[h] = <<>>
         \/ /\ Head(chain[h]) = "drain" /\ step[h] # "none"
            /\ chain'[h] = Append(Tail(chain[h]), "drain")
            /\ ~failures[h] /\ buffered[h] # <<>>
  PROVE  Left(h) \in Nat /\ Left(h)' < Left(h)
<1>1. chain[h] \in Chains /\ step[h] \in Steps /\ length[h] \in Nat /\ length'[h] \in Nat
  BY DEF IInv, Types
<1>2. /\ TurnsLeft(h) \in Nat /\ BufferLeft(h) \in {0, 8} /\ TimerLeft(h) \in {0, 1}
      /\ CloseLeft(h) \in {0, 1, 2}
  BY Parts
<1>3. CloseLeft(h)' = CloseLeft(h) /\ TimerLeft(h)' = TimerLeft(h)
  BY DEF CloseLeft, TimerLeft
<1>4. /\ Head(chain[h]) = "drain" <=> chain[h] = <<"drain">>
      /\ Tail(chain[h]) = IF chain[h] = <<"flush", "drain">> THEN <<"drain">> ELSE <<>>
  BY <1>1, ChainHeads, ChainTails
<1>5. StepLeft(step[h]) \in Nat /\ StepLeft(step[h]) >= 1
  <2>1. step[h] \in {"none", "lease", "truncate", "rewrite", "write"}
    BY <1>1 DEF Steps
  <2> QED BY <2>1 DEF StepLeft
<1>6. CASE /\ Head(chain[h]) # "drain" /\ chain'[h] = Tail(chain[h])
           /\ buffered'[h] = buffered[h] /\ failures'[h] = failures[h]
  <2>1. CASE chain[h] = <<"flush", "drain">>
    <3>1. chain'[h] = <<"drain">> /\ chain'[h] # <<>> /\ chain'[h] # <<"flush", "drain">>
      BY <1>4, <1>6, <2>1, ChainsDiffer DEF DrainChains
    <3>2. TurnsLeft(h) = StepLeft(step[h]) + 5 /\ TurnsLeft(h)' = 5
      BY <2>1, <3>1, Weights DEF TurnsLeft
    <3>3. BufferLeft(h)' = 0 /\ BufferLeft(h) = 0
      BY <2>1, <3>1 DEF BufferLeft, Queued
    <3> QED BY <1>1, <1>2, <1>3, <1>5, <3>2, <3>3, Falls
  <2>2. CASE chain[h] # <<"flush", "drain">>
    <3>1. chain'[h] = <<>> /\ chain[h] # <<"drain">>
      BY <1>4, <1>6, <2>2
    <3>2. TurnsLeft(h) = StepLeft(step[h]) /\ TurnsLeft(h)' = 0
      BY <1>5, <2>2, <3>1 DEF TurnsLeft
    <3>3. ~Queued(h) /\ ~Queued(h)'
      BY <2>2, <3>1, ChainsDiffer DEF Queued, DrainChains
    <3>4. BufferLeft(h)' = BufferLeft(h)
      BY <1>6, <3>3 DEF BufferLeft
    <3> QED BY <1>1, <1>2, <1>3, <1>5, <3>2, <3>4, Falls
  <2> QED BY <2>1, <2>2
<1>7. CASE /\ Head(chain[h]) = "drain" /\ step[h] # "none" /\ chain'[h] = Tail(chain[h])
           /\ failures'[h] \/ buffered'[h] = <<>>
  <2>1. chain[h] # <<"flush", "drain">> /\ chain'[h] = <<>>
    BY <1>4, <1>7, ChainsDiffer
  <2>2. TurnsLeft(h) = StepLeft(step[h]) /\ TurnsLeft(h)' = 0
    BY <1>5, <2>1 DEF TurnsLeft
  <2>3. BufferLeft(h)' = 0
    BY <1>7 DEF BufferLeft
  <2> QED BY <1>1, <1>2, <1>3, <1>5, <2>2, <2>3, Falls
<1>8. CASE /\ Head(chain[h]) = "drain" /\ step[h] # "none"
           /\ chain'[h] = Append(Tail(chain[h]), "drain")
           /\ ~failures[h] /\ buffered[h] # <<>>
  <2>1. chain[h] = <<"drain">> /\ Tail(chain[h]) = <<>>
    BY <1>4, <1>8, ChainsDiffer
  <2>2. chain'[h] = <<"drain">>
    <3>1. "drain" \in {"drain"}
      OBVIOUS
    <3> QED BY <1>8, <2>1, <3>1, ChainAppends
  <2>3. chain[h] # <<"flush", "drain">> /\ chain'[h] # <<"flush", "drain">> /\ chain'[h] # <<>>
    BY <2>1, <2>2, ChainsDiffer DEF DrainChains
  <2>4. TurnsLeft(h) = StepLeft(step[h]) /\ TurnsLeft(h)' = 5
    BY <1>5, <2>3, Weights DEF TurnsLeft
  <2>5. BufferLeft(h) = 8 /\ BufferLeft(h)' = 0
    <3>1. ~Queued(h) /\ Queued(h)'
      BY <1>8, <2>2, <2>3 DEF Queued
    <3> QED BY <1>8, <3>1 DEF BufferLeft
  <2> QED BY <1>1, <1>2, <1>3, <1>5, <2>4, <2>5, Falls
<1> QED BY <1>6, <1>7, <1>8

LEMMA AwaitFalls ==
  ASSUME IInv, IInv', NEW h \in Handle, chain[h] # <<>>, chain'[h] = chain[h],
         StepLeft(step'[h]) < StepLeft(step[h]), step'[h] # "none",
         UNCHANGED <<length, timer, closing, failures>>,
         buffered'[h] = <<>> \/ (buffered'[h] = buffered[h] /\ step[h] # "none")
  PROVE  Left(h) \in Nat /\ Left(h)' < Left(h)
<1>1. step[h] \in Steps /\ step'[h] \in Steps /\ length[h] \in Nat
  BY DEF IInv, Types
<1>2. /\ TurnsLeft(h) \in Nat /\ BufferLeft(h) \in {0, 8} /\ TimerLeft(h) \in {0, 1}
      /\ CloseLeft(h) \in {0, 1, 2} /\ TurnsLeft(h)' \in Nat
  BY Parts, PartsNext
<1>3. CloseLeft(h)' = CloseLeft(h) /\ TimerLeft(h)' = TimerLeft(h)
  BY DEF CloseLeft, TimerLeft
<1>4. StepLeft(step[h]) \in Nat /\ StepLeft(step'[h]) \in Nat
  <2>1. /\ step[h] \in {"none", "lease", "truncate", "rewrite", "write"}
        /\ step'[h] \in {"none", "lease", "truncate", "rewrite", "write"}
    BY <1>1 DEF Steps
  <2> QED BY <2>1 DEF StepLeft
<1>5. TurnsLeft(h)' < TurnsLeft(h)
  BY <1>4 DEF TurnsLeft
<1>6. BufferLeft(h)' = 0 \/ BufferLeft(h)' = BufferLeft(h)
  BY DEF BufferLeft, Queued
<1> QED BY <1>1, <1>2, <1>3, <1>5, <1>6, Falls

LEMMA TurnFailsFalls ==
  ASSUME IInv, IInv', NEW h \in Handle, step[h] # "none", closing[h] # "no", TurnFails(h),
         UNCHANGED length
  PROVE  Left(h) \in Nat /\ Left(h)' < Left(h)
<1>1. chain[h] # <<>> /\ closing[h] = "drain"
  BY TurnFacts
<1>2. /\ chain'[h] = Tail(chain[h]) /\ step'[h] = "none" /\ UNCHANGED <<timer, closing>>
      /\ Head(chain[h]) # "drain" => buffered'[h] = buffered[h] /\ failures'[h] = failures[h]
      /\ Head(chain[h]) = "drain" => failures'[h]
  <2>1. /\ chain \in [Handle -> Chains] /\ step \in [Handle -> Steps]
        /\ buffered \in [Handle -> Seq(Event)] /\ failures \in [Handle -> BOOLEAN]
    BY DEF IInv, Types
  <2>2. chain'[h] = Tail(chain[h]) /\ step'[h] = "none" /\ UNCHANGED <<timer, closing>>
    BY <2>1 DEF TurnFails, Pop
  <2>3. Head(chain[h]) # "drain" => buffered'[h] = buffered[h] /\ failures'[h] = failures[h]
    BY <2>1 DEF TurnFails
  <2>4. Head(chain[h]) = "drain" => failures'[h]
    BY <1>1, <2>1 DEF TurnFails
  <2> QED BY <2>2, <2>3, <2>4
<1>3. length'[h] >= length[h]
  BY DEF IInv, Types
<1> QED BY <1>1, <1>2, <1>3, PopFalls

LEMMA TurnFalls ==
  ASSUME IInv, IInv', FailInv, NEW h \in Handle, closing[h] # "no",
         Turn(h) \/ WriteFails(h) \/ PublishUnsynced(h)
  PROVE  Left(h) \in Nat /\ Left(h)' < Left(h)
<1>1. /\ length[h] \in 0..MaxSeq /\ step[h] \in Steps /\ chain[h] \in Chains
      /\ step \in [Handle -> Steps] /\ chain \in [Handle -> Chains] /\ InTurn(h) /\ MaxSeq \in Nat
  BY HandleAssumption DEF IInv, Types, TurnInv
<1>2. CASE TurnDropped(h)
  <2>1. chain[h] # <<>> /\ Head(chain[h]) # "drain"
    BY <1>1, <1>2, ChainHeads DEF TurnDropped
  <2>2. /\ chain'[h] = Tail(chain[h]) /\ step'[h] = "none"
        /\ UNCHANGED <<timer, closing, length, buffered, failures>>
    BY <1>1, <1>2 DEF TurnDropped, Pop, buffer, ending
  <2>3. length'[h] >= length[h]
    BY <1>1, <2>2
  <2> QED BY <2>1, <2>2, <2>3, PopFalls
<1>3. CASE TurnStarts(h)
  <2>1. /\ chain[h] # <<>> /\ step[h] = "none" /\ chain' = chain
        /\ UNCHANGED <<length, timer, closing, failures>>
        /\ step'[h] \in {"lease", "truncate", "rewrite", "write"}
    BY <1>1, <1>3 DEF TurnStarts, AfterLease, ending
  <2>2. buffered'[h] = <<>>
    BY <1>3 DEF TurnStarts, IInv, Types
  <2>3. StepLeft(step'[h]) < StepLeft(step[h])
    BY <2>1 DEF StepLeft
  <2> QED BY <2>1, <2>2, <2>3, AwaitFalls
<1>4. CASE TakeLease(h) \/ Truncates(h) \/ Rewrites(h)
  <2>1. /\ chain' = chain /\ step[h] # "none" /\ UNCHANGED <<length, timer, closing, failures, buffered>>
        /\ \/ step[h] = "lease" /\ step'[h] \in {"truncate", "rewrite", "write"}
           \/ step[h] = "truncate" /\ step'[h] \in {"rewrite", "write"}
           \/ step[h] = "rewrite" /\ step'[h] = "write"
    BY <1>1, <1>4 DEF TakeLease, Truncates, Rewrites, AfterLease, buffer, ending
  <2>2. chain[h] # <<>> /\ step'[h] # "none"
    BY <1>1, <2>1 DEF InTurn
  <2>3. StepLeft(step'[h]) < StepLeft(step[h])
    <3>1. CASE step[h] = "lease" /\ step'[h] \in {"truncate", "rewrite", "write"}
      BY <3>1 DEF StepLeft
    <3>2. CASE step[h] = "truncate" /\ step'[h] \in {"rewrite", "write"}
      BY <3>2 DEF StepLeft
    <3>3. CASE step[h] = "rewrite" /\ step'[h] = "write"
      BY <3>3 DEF StepLeft
    <3> QED BY <2>1, <3>1, <3>2, <3>3
  <2> QED BY <2>1, <2>2, <2>3, AwaitFalls
<1>5. CASE Writes(h)
  <2>1. chain[h] # <<>> /\ step[h] = "write" /\ ~failures[h]
    <3>1. step[h] = "write"
      BY <1>5 DEF Writes
    <3> QED BY <1>1, <3>1 DEF InTurn, FailInv
  <2>2. /\ step'[h] = "none" /\ UNCHANGED <<timer, closing, failures, buffered>>
        /\ chain'[h] = IF Head(chain[h]) = "drain" /\ buffered[h] # <<>>
                       THEN Append(Tail(chain[h]), "drain") ELSE Tail(chain[h])
    BY <1>1, <1>5 DEF Writes, ending
  <2>3. length'[h] >= length[h]
    BY <1>1, <1>5 DEF Writes, IInv, Types
  <2>4. CASE Head(chain[h]) # "drain"
    BY <2>1, <2>2, <2>3, <2>4, PopFalls
  <2>5. CASE Head(chain[h]) = "drain" /\ buffered[h] = <<>>
    BY <2>1, <2>2, <2>3, <2>5, PopFalls
  <2>6. CASE Head(chain[h]) = "drain" /\ buffered[h] # <<>>
    BY <2>1, <2>2, <2>3, <2>6, PopFalls
  <2> QED BY <2>4, <2>5, <2>6
<1>6. CASE TurnRefused(h) \/ WriteFails(h) \/ PublishUnsynced(h)
  <2>1. step[h] # "none" /\ TurnFails(h) /\ UNCHANGED length
    BY <1>6 DEF TurnRefused, WriteFails, PublishUnsynced
  <2> QED BY <2>1, TurnFailsFalls
<1> QED BY <1>2, <1>3, <1>4, <1>5, <1>6 DEF Turn

LEMMA UseFalls ==
  ASSUME Sound, IInv, IInv', FailInv, NEW h \in Handle, closing[h] # "no", closing'[h] # "no",
         Obtain(h) \/ Use(h) \/ TimerFires(h) \/ Closing(h)
  PROVE  Left(h) \in Nat /\ Left(h)' < Left(h)
<1>1. /\ length[h] \in 0..MaxSeq /\ MaxSeq \in Nat /\ stage[h] = "open" /\ InTurn(h)
      /\ chain \in [Handle -> Chains] /\ closing \in [Handle -> {"no", "drain", "release", "free"}]
      /\ failures \in [Handle -> BOOLEAN] /\ timer \in [Handle -> BOOLEAN]
      /\ length \in [Handle -> 0..MaxSeq]
  BY HandleAssumption DEF IInv, Types, TurnInv, OwnerInv, Owned, Blank
<1>2. ~Late(h)
  BY DEF Sound, Late
<1>3. /\ TurnsLeft(h) \in Nat /\ BufferLeft(h) \in {0, 8} /\ TimerLeft(h) \in {0, 1}
      /\ CloseLeft(h) \in {0, 1, 2}
  BY Parts
<1>4. ~Obtain(h) /\ ~AppendEvent(h) /\ ~Flush(h) /\ ~Drain(h) /\ ~Close(h)
  BY <1>1 DEF Obtain, CreateLooks, CreateRegisters, OpenClaims, OpenLocks, OpenReads, OpenFails,
              AppendEvent, Flush, Drain, Close
<1>5. CASE Publish(h)
  <2>1. length'[h] = length[h] + 1 /\ UNCHANGED <<chain, step, closing>>
    BY <1>1, <1>5 DEF Publish, turn, ending
  <2>2. TurnsLeft(h)' = TurnsLeft(h) /\ CloseLeft(h)' = CloseLeft(h)
    BY <2>1 DEF TurnsLeft, CloseLeft
  <2> QED BY <2>1, <2>2, Falls
<1>6. CASE TimerFires(h)
  <2>1. /\ DrainLive(h) /\ ~failures[h] /\ timer[h] /\ timer'[h] = FALSE
        /\ UNCHANGED <<length, step, buffered, failures, closing>>
    BY <1>1, <1>2, <1>6 DEF TimerFires, Attended, ending
  <2> QED BY <2>1, DrainFalls
<1>7. CASE CloseDrained(h)
  <2>1. CASE failures[h] \/ buffered[h] = <<>>
    <3>1. /\ closing[h] = "drain" /\ closing'[h] = "release"
          /\ UNCHANGED <<length, step, chain, buffered, timer, failures>>
      BY <1>1, <1>7, <2>1 DEF CloseDrained, buffer
    <3>2. /\ TurnsLeft(h)' = TurnsLeft(h) /\ BufferLeft(h)' = BufferLeft(h)
          /\ TimerLeft(h)' = TimerLeft(h) /\ CloseLeft(h) = 2 /\ CloseLeft(h)' = 1
      BY <3>1 DEF TurnsLeft, BufferLeft, TimerLeft, CloseLeft, Queued
    <3> QED BY <1>1, <1>3, <3>1, <3>2, Falls
  <2>2. CASE ~(failures[h] \/ buffered[h] = <<>>)
    <3>1. /\ DrainLive(h) /\ ~failures[h] /\ ~draining[h] /\ buffered[h] # <<>> /\ timer'[h] = FALSE
          /\ UNCHANGED <<length, step, buffered, failures, closing>>
      BY <1>1, <1>7, <2>2 DEF CloseDrained
    <3> QED BY <3>1, DrainFalls
  <2> QED BY <2>1, <2>2
<1>8. CASE CloseUnlocks(h)
  <2>1. /\ closing[h] = "release" /\ closing'[h] = "free"
        /\ UNCHANGED <<length, step, chain, buffered, timer>> /\ (failures[h] => failures'[h])
    BY <1>1, <1>8 DEF CloseUnlocks, turn, buffer
  <2>2. /\ TurnsLeft(h)' = TurnsLeft(h) /\ TimerLeft(h)' = TimerLeft(h)
        /\ CloseLeft(h) = 1 /\ CloseLeft(h)' = 0
    BY <2>1 DEF TurnsLeft, TimerLeft, CloseLeft
  <2>3. BufferLeft(h)' = 0 \/ BufferLeft(h)' = BufferLeft(h)
    BY <2>1 DEF BufferLeft, Queued
  <2> QED BY <1>1, <1>3, <2>1, <2>2, <2>3, Falls
<1>9. ~CloseFrees(h)
  BY DEF CloseFrees, Leave, Sound, Forget, Cleared
<1> QED BY <1>4, <1>5, <1>6, <1>7, <1>8, <1>9 DEF Use, Closing

\* Handles do not touch each other's turns, buffers, timers or closes.
LEMMA OthersIdle ==
  ASSUME Sound, IInv, NEW h \in Handle, NEW k \in Handle, k # h,
         \/ Obtain(h) \/ Use(h) \/ Turn(h) \/ TimerFires(h) \/ Closing(h)
         \/ WriteFails(h) \/ PublishUnsynced(h)
  PROVE  Idle(k)
<1>1. /\ length \in [Handle -> 0..MaxSeq] /\ chain \in [Handle -> Chains] /\ step \in [Handle -> Steps]
      /\ buffered \in [Handle -> Seq(Event)] /\ timer \in [Handle -> BOOLEAN]
      /\ closing \in [Handle -> {"no", "drain", "release", "free"}] /\ failures \in [Handle -> BOOLEAN]
  BY DEF IInv, Types
<1> USE DEF Idle, state, turn, buffer, ending
<1>2. CASE Obtain(h)
  BY <1>1, <1>2 DEF Obtain, CreateLooks, CreateRegisters, OpenClaims, OpenLocks, OpenReads, OpenFails
<1>3. CASE Publish(h) \/ AppendEvent(h) \/ Flush(h)
  BY <1>1, <1>3 DEF Publish, AppendEvent, Flush
<1>4. ASSUME DrainLive(h) PROVE chain'[k] = chain[k]
  BY <1>1, <1>4 DEF DrainLive
<1>5. CASE Drain(h) \/ TimerFires(h) \/ Close(h)
  BY <1>1, <1>4, <1>5 DEF Drain, TimerFires, Close
<1>6. CASE TurnDropped(h) \/ TurnStarts(h) \/ TakeLease(h) \/ Truncates(h) \/ Rewrites(h)
  BY <1>1, <1>6 DEF TurnDropped, TurnStarts, TakeLease, Truncates, Rewrites, Pop
<1>7. CASE Writes(h)
  BY <1>1, <1>7 DEF Writes
<1>8. CASE TurnRefused(h) \/ WriteFails(h) \/ PublishUnsynced(h)
  <2>1. TurnFails(h) /\ UNCHANGED length
    BY <1>8 DEF TurnRefused, WriteFails, PublishUnsynced
  <2>2. UNCHANGED <<length[k], chain[k], step[k], timer[k], closing[k]>>
    BY <1>1, <2>1 DEF TurnFails, Pop
  <2>3. UNCHANGED <<buffered[k], failures[k]>>
    BY <1>1, <2>1 DEF TurnFails
  <2> QED BY <2>2, <2>3
<1>9. CASE CloseDrained(h)
  BY <1>1, <1>4, <1>9 DEF CloseDrained
<1>10. CASE CloseUnlocks(h)
  BY <1>1, <1>10 DEF CloseUnlocks
<1>11. CASE CloseFrees(h)
  <2>1. Forget({h})
    BY <1>11 DEF CloseFrees, Leave, Sound
  <2>2. k \notin {h}
    OBVIOUS
  <2> QED BY <2>1, <2>2 DEF Forget, Cleared
<1> QED BY <1>2, <1>3, <1>5, <1>6, <1>7, <1>8, <1>9, <1>10, <1>11 DEF Use, Turn, Closing

\* A process that dies takes its handles with it and leaves the others.
LEMMA CrashIdle ==
  ASSUME NEW p \in Process, Crash(p), NEW k \in Handle
  PROVE  (closing'[k] = "no" /\ failures'[k] = FALSE) \/ Idle(k)
  BY DEF Crash, Forget, Cleared, Idle

LEMMA FailStep ==
  ASSUME Sound, IInv, FailInv, [Next]_vars
  PROVE  FailInv'
<1> SUFFICES ASSUME NEW k \in Handle PROVE (failures[k] => chain[k] = <<>> /\ closing[k] # "no")'
  BY DEF FailInv
<1>1. CASE Idle(k)
  BY <1>1 DEF Idle, FailInv
<1>2. ASSUME Obtain(k) \/ Use(k) \/ Turn(k) \/ TimerFires(k) \/ Closing(k)
             \/ WriteFails(k) \/ PublishUnsynced(k)
      PROVE  failures'[k] => chain'[k] = <<>> /\ closing'[k] # "no"
  <2>1. /\ chain \in [Handle -> Chains] /\ closing \in [Handle -> {"no", "drain", "release", "free"}]
        /\ failures \in [Handle -> BOOLEAN] /\ InTurn(k)
    BY DEF IInv, Types, TurnInv
  <2>2. failures[k] => chain[k] = <<>> /\ closing[k] # "no"
    BY DEF FailInv
  <2> USE DEF state, turn, buffer, ending
  <2>3. CASE Obtain(k)
    BY <2>2, <2>3 DEF Obtain, CreateLooks, CreateRegisters, OpenClaims, OpenLocks, OpenReads, OpenFails
  <2>4. CASE Publish(k)
    BY <2>2, <2>4 DEF Publish
  <2>5. CASE AppendEvent(k) \/ Flush(k) \/ Drain(k) \/ Close(k)
    <3>1. closing[k] = "no" /\ failures' = failures
      BY <2>5 DEF AppendEvent, Flush, Drain, Close
    <3> QED BY <2>2, <3>1
  <2>6. CASE TimerFires(k)
    <3>1. failures' = failures /\ ~failures[k]
      BY <2>6 DEF TimerFires, Attended, Late, Sound
    <3> QED BY <3>1
  <2>7. CASE TurnDropped(k) \/ TurnStarts(k) \/ TakeLease(k) \/ Truncates(k) \/ Rewrites(k) \/ Writes(k)
    <3>1. failures' = failures
      BY <2>7 DEF TurnDropped, TurnStarts, TakeLease, Truncates, Rewrites, Writes
    <3>2. chain[k] # <<>>
      BY <2>1, <2>7 DEF TurnDropped, TurnStarts, TakeLease, Truncates, Rewrites, Writes, InTurn
    <3> QED BY <2>2, <3>1, <3>2
  <2>8. CASE TurnRefused(k) \/ WriteFails(k) \/ PublishUnsynced(k)
    <3>1. TurnFails(k) /\ step[k] # "none"
      BY <2>8 DEF TurnRefused, WriteFails, PublishUnsynced
    <3>2. chain[k] # <<>> /\ chain[k] \in Chains /\ ~failures[k]
      BY <2>1, <2>2, <3>1 DEF InTurn
    <3>3. chain'[k] = Tail(chain[k]) /\ closing' = closing
      BY <2>1, <3>1 DEF TurnFails, Pop
    <3>4. failures'[k] => Head(chain[k]) = "drain" /\ closing[k] = "drain"
      BY <2>1, <3>1, <3>2 DEF TurnFails
    <3>5. Head(chain[k]) = "drain" => Tail(chain[k]) = <<>>
      BY <3>2, ChainHeads, ChainTails, ChainsDiffer
    <3> QED BY <3>3, <3>4, <3>5
  <2>9. CASE CloseDrained(k)
    <3>1. failures' = failures /\ closing'[k] # "no"
      BY <2>1, <2>9 DEF CloseDrained
    <3>2. failures[k] => chain' = chain
      BY <2>9 DEF CloseDrained
    <3> QED BY <2>2, <3>1, <3>2
  <2>10. CASE CloseUnlocks(k)
    <3>1. chain' = chain /\ closing[k] = "release" /\ closing'[k] = "free"
      BY <2>1, <2>10 DEF CloseUnlocks
    <3> QED BY <2>1, <3>1 DEF InTurn
  <2>11. CASE CloseFrees(k)
    BY <2>11 DEF CloseFrees, Leave, Sound, Forget, Cleared
  <2> QED BY <1>2, <2>3, <2>4, <2>5, <2>6, <2>7, <2>8, <2>9, <2>10, <2>11 DEF Use, Turn, Closing
<1>3. ASSUME NEW h \in Handle, \/ Obtain(h) \/ Use(h) \/ Turn(h) \/ TimerFires(h) \/ Closing(h)
                               \/ WriteFails(h) \/ PublishUnsynced(h)
      PROVE  (failures[k] => chain[k] = <<>> /\ closing[k] # "no")'
  BY <1>1, <1>2, <1>3, OthersIdle
<1>4. ASSUME NEW p \in Process, Crash(p)
      PROVE  (failures[k] => chain[k] = <<>> /\ closing[k] # "no")'
  BY <1>1, <1>4, CrashIdle
<1>5. CASE UNCHANGED vars
  BY <1>1, <1>5 DEF vars, turn, buffer, ending, Idle
<1> QED BY <1>3, <1>4, <1>5 DEF Next, Fault

LEMMA LeftStep ==
  ASSUME Sound, IInv, IInv', FailInv, Next, NEW k \in Handle, closing[k] # "no", closing'[k] # "no"
  PROVE  Left(k) \in Nat /\ (Left(k)' < Left(k) \/ Idle(k))
<1>1. Left(k) \in Nat
  BY Parts
<1>2. ASSUME NEW h \in Handle, \/ Obtain(h) \/ Use(h) \/ Turn(h) \/ TimerFires(h) \/ Closing(h)
                               \/ WriteFails(h) \/ PublishUnsynced(h)
      PROVE  Left(k)' < Left(k) \/ Idle(k)
  <2>1. CASE h = k
    BY <1>2, <2>1, TurnFalls, UseFalls
  <2>2. CASE h # k
    BY <1>2, <2>2, OthersIdle
  <2> QED BY <2>1, <2>2
<1>3. ASSUME NEW p \in Process, Crash(p)
      PROVE  Idle(k)
  BY <1>3, CrashIdle
<1> QED BY <1>1, <1>2, <1>3 DEF Next, Fault

\* For any processes, handles, sessions and faults, a close takes finitely many steps of its handle:
\* a natural number goes down with each.
THEOREM ClosesEnd ==
  ASSUME Sound
  PROVE  Spec => ClosesRunOut
<1>1. Init => FailInv
  BY DEF Init, FailInv
<1>2. IInv /\ FailInv /\ [Next]_vars => FailInv'
  BY FailStep
<1>3. IInv /\ IInv' /\ FailInv /\ [Next]_vars =>
        [\A h \in Handle : closing[h] # "no" /\ closing'[h] # "no" =>
           Left(h) \in Nat /\ (Left(h)' < Left(h) \/ Idle(h))]_vars
  BY LeftStep
<1> QED BY <1>1, <1>2, <1>3, InvTheorem, PTL DEF Spec, ClosesRunOut
=============================================================================
