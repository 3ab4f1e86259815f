---------------------------- MODULE Storage_proof ----------------------------
(***************************************************************************)
(* Proofs about Batcher and Storage, for any calls, batchers, sizes of     *)
(* batches, readers and faults.  The first part is about the queue under   *)
(* Spec: each call is in one place, so that no wakeup and no caller is     *)
(* lost and calls start in order.  The second part puts the transactions   *)
(* and the log on top of it, under SSpec, and shows that the storage       *)
(* implements GroupCommit.                                                 *)
(***************************************************************************)
EXTENDS Storage, FiniteSetTheorems, SequenceTheorems, WellFoundedInduction, TLAPS

\* The calls that have asked, in the order of their numbers.
Arrived == {c \in Calls : arrival[c] # 0}

\* Numbers are given out once, from 1 on.
Numbered ==
  /\ IsFiniteSet(Arrived)
  /\ \A c \in Calls : /\ arrival[c] <= Cardinality(Arrived)
                      /\ arrival[c] = 0 <=> pc[c] = "idle"
  /\ \A c, d \in Calls : arrival[c] = arrival[d] /\ arrival[c] # 0 => c = d

Counted == IsFiniteSet(guards) /\ GuardsCounted

\* A batch of batcher b: calls of b in the order they asked.
IsBatch(s, b, status, number) ==
  /\ s # <<>>
  /\ \A i \in DOMAIN s : BatcherOf[s[i]] = b /\ status[s[i]] \in {"inline", "waiting", "cancelled"}
  /\ \A i, j \in DOMAIN s : i < j => number[s[i]] < number[s[j]]

\* A batcher has one pending batch at most; the first call of a run leads it.
Formed ==
  /\ \A i \in DOMAIN pending : IsBatch(pending[i].calls, pending[i].batcher, pc, arrival)
  /\ \A i, j \in DOMAIN pending : pending[i].batcher = pending[j].batcher => i = j
  /\ \A l \in Calls : Running(l) =>
       IsBatch(batch[l], BatcherOf[l], pc, arrival) /\ batch[l][1] = l

\* A call is in one place, and one that leads a run is not pending.
Apart ==
  /\ \A l, m \in Calls : \A c \in Members(batch[l]) : c \in Members(batch[m]) => l = m
  /\ \A l \in Calls : \A c \in Members(batch[l]) : ~Pending(c)
  /\ \A l \in guards : ~Pending(l) /\ arrival[l] # 0

\* A run has its guard, unless its inline caller went away.
Led ==
  /\ \A c \in Calls : pc[c] = "inline" => c \in guards /\ ~Pending(c) /\ batch[c] = <<c>>
  /\ \A l \in Calls : Running(l) /\ l \notin guards => batch[l] = <<l>> /\ pc[l] = "cancelled"

\* The invariant of the queue.
BInv ==
  /\ TypeOK /\ Numbered /\ Counted /\ Formed /\ Apart /\ Led /\ WaitersAreQueued /\ StartsInOrder

-----------------------------------------------------------------------------
Entry == [batcher : Batchers, calls : Seq(Calls)]
Queued == {"inline", "waiting", "cancelled"}

LEMMA BatcherConstants == BatcherOf \in [Calls -> Batchers] /\ MaxSize \in [Batchers -> Nat]
  BY BatcherAssumption

\* What Formed says of the calls of an entry.
LEMMA EntryFacts ==
  ASSUME TypeOK, Formed, NEW i \in DOMAIN pending
  PROVE  /\ i \in 1..Len(pending) /\ i \in Nat
         /\ pending[i] \in Entry /\ pending[i].batcher \in Batchers
         /\ pending[i].calls \in Seq(Calls) /\ pending[i].calls # <<>>
         /\ Len(pending[i].calls) \in Nat \ {0}
         /\ pending[i].calls[1] \in Members(pending[i].calls)
         /\ \A c \in Members(pending[i].calls) :
              c \in Calls /\ BatcherOf[c] = pending[i].batcher /\ pc[c] \in Queued /\ Pending(c)
  <1>1. i \in 1..Len(pending) /\ pending[i] \in Entry
    <2>1. pending \in Seq(Entry) BY DEF TypeOK, Entry
    <2> QED BY <2>1, LenProperties, ElementOfSeq
  <1>2. pending[i].batcher \in Batchers /\ pending[i].calls \in Seq(Calls) BY <1>1 DEF Entry
  <1>3. pending[i].calls # <<>> /\ Len(pending[i].calls) \in Nat \ {0}
    BY <1>2, EmptySeq DEF Formed, IsBatch
  <1>4. pending[i].calls[1] \in Members(pending[i].calls) BY <1>2, <1>3 DEF Members
  <1>5. ASSUME NEW c \in Members(pending[i].calls)
        PROVE  c \in Calls /\ BatcherOf[c] = pending[i].batcher /\ pc[c] \in Queued /\ Pending(c)
    <2>1. PICK k \in DOMAIN pending[i].calls : c = pending[i].calls[k] BY DEF Members
    <2>2. c \in Calls BY <1>2, <2>1
    <2>3. BatcherOf[c] = pending[i].batcher /\ pc[c] \in Queued
      BY <2>1 DEF Formed, IsBatch, Queued
    <2> QED BY <2>2, <2>3 DEF Pending
  <1> QED BY <1>1, <1>2, <1>3, <1>4, <1>5

\* What Formed says of the calls of a run.
LEMMA RunFacts ==
  ASSUME TypeOK, Formed, NEW l \in Calls
  PROVE  /\ batch[l] \in Seq(Calls)
         /\ Running(l) => /\ Len(batch[l]) \in Nat \ {0} /\ batch[l][1] = l
                          /\ l \in Members(batch[l])
         /\ \A c \in Members(batch[l]) :
              Running(l) /\ c \in Calls /\ BatcherOf[c] = BatcherOf[l] /\ pc[c] \in Queued
  <1>1. batch[l] \in Seq(Calls) BY DEF TypeOK
  <1>2. ASSUME Running(l)
        PROVE  Len(batch[l]) \in Nat \ {0} /\ batch[l][1] = l /\ l \in Members(batch[l])
    BY <1>1, <1>2, EmptySeq DEF Formed, Running, Members
  <1>3. ASSUME NEW c \in Members(batch[l])
        PROVE  Running(l) /\ c \in Calls /\ BatcherOf[c] = BatcherOf[l] /\ pc[c] \in Queued
    <2>1. PICK k \in DOMAIN batch[l] : c = batch[l][k] BY DEF Members
    <2>2. c \in Calls BY <1>1, <2>1
    <2>3. Running(l) BY <1>1, <2>1 DEF Running
    <2>4. IsBatch(batch[l], BatcherOf[l], pc, arrival) BY <2>3 DEF Formed
    <2> QED BY <2>1, <2>2, <2>3, <2>4 DEF IsBatch, Queued
  <1> QED BY <1>1, <1>2, <1>3

\* A sequence without its k-th element.
Without(s, k) == SubSeq(s, 1, k - 1) \o SubSeq(s, k + 1, Len(s))
LEMMA Removed ==
  ASSUME NEW S, NEW s \in Seq(S), NEW k \in 1..Len(s), NEW t,
         t = Without(s, k)
  PROVE  /\ t \in Seq(S) /\ Len(t) = Len(s) - 1
         /\ \A i \in 1..Len(t) : t[i] = s[IF i < k THEN i ELSE i + 1]
  <1> DEFINE x == SubSeq(s, 1, k - 1)
             y == SubSeq(s, k + 1, Len(s))
  <1>1. k \in 1..Len(s) /\ Len(s) \in Nat BY LenProperties
  <1>2. x \in Seq(S) /\ Len(x) = k - 1 /\ \A i \in 1..(k - 1) : x[i] = s[i]
    <2>1. \A i \in 1..(k - 1) : s[i] \in S BY <1>1
    <2> QED BY <1>1, <2>1, SubSeqProperties
  <1>3. y \in Seq(S) /\ Len(y) = Len(s) - k /\ \A i \in 1..(Len(s) - k) : y[i] = s[k + i]
    <2>1. \A i \in (k + 1)..Len(s) : s[i] \in S BY <1>1
    <2>2. /\ y \in Seq(S) /\ Len(y) = IF k + 1 <= Len(s) THEN Len(s) - (k + 1) + 1 ELSE 0
          /\ \A i \in 1..(Len(s) - (k + 1) + 1) : y[i] = s[k + 1 + i - 1]
      BY <1>1, <2>1, SubSeqProperties
    <2> QED BY <1>1, <2>2
  <1> HIDE DEF x, y
  <1>4. /\ x \o y \in Seq(S) /\ Len(x \o y) = Len(x) + Len(y)
        /\ \A i \in 1..(Len(x) + Len(y)) :
             (x \o y)[i] = IF i <= Len(x) THEN x[i] ELSE y[i - Len(x)]
    BY <1>2, <1>3, ConcatProperties
  <1>5. t = x \o y BY DEF x, y, Without
  <1> HIDE DEF x, y
  <1>6. k \in Int /\ Len(s) \in Int /\ Len(x) + Len(y) = Len(s) - 1
    BY <1>1, <1>2, <1>3
  <1>7. /\ Len(t) = Len(s) - 1
        /\ \A i \in 1..(Len(s) - 1) : t[i] = IF i <= k - 1 THEN x[i] ELSE y[i - (k - 1)]
    BY <1>2, <1>4, <1>5, <1>6
  <1>8. ASSUME NEW i \in 1..Len(t) PROVE t[i] = s[IF i < k THEN i ELSE i + 1]
    <2>0. i \in 1..(Len(s) - 1) /\ i \in Int BY <1>7
    <2>1. CASE i < k
      <3>1. i \in 1..(k - 1) /\ i <= k - 1 BY <1>6, <2>0, <2>1
      <3> QED BY <1>2, <1>7, <2>0, <2>1, <3>1
    <2>2. CASE ~(i < k)
      <3>1. i - (k - 1) \in 1..(Len(s) - k) /\ ~(i <= k - 1) BY <1>6, <2>0, <2>2
      <3>2. t[i] = s[k + (i - (k - 1))] BY <1>3, <1>7, <2>0, <3>1
      <3>3. k + (i - (k - 1)) = i + 1 BY <1>6, <2>0
      <3> QED BY <2>2, <3>2, <3>3
    <2> QED BY <2>1, <2>2
  <1> QED BY <1>4, <1>5, <1>7, <1>8

\* A set of naturals has a least element.
LEMMA Least ==
  ASSUME NEW S \in SUBSET Nat, S # {}
  PROVE  \E i \in S : \A j \in S : i <= j
  <1>1. IsWellFoundedOn(OpToRel(<, Nat), Nat) BY NatLessThanWellFounded
  <1> DEFINE R == OpToRel(<, Nat)
  <1>2. \A i, j \in Nat : <<i, j>> \in R <=> i < j BY DEF OpToRel
  <1> HIDE DEF R
  <1>3. PICK i \in S : \A j \in S : <<j, i>> \notin R BY <1>1, WFMin DEF R
  <1>4. ASSUME NEW j \in S PROVE i <= j
    <2>1. i \in Nat /\ j \in Nat OBVIOUS
    <2>2. ~(j < i) BY <1>2, <1>3, <2>1
    <2> QED BY <2>1, <2>2
  <1> QED BY <1>4

OneEach(p) == \A i, j \in DOMAIN p : p[i].batcher = p[j].batcher => i = j

LEMMA PendingOne ==
  ASSUME TypeOK, Formed
  PROVE  /\ pending \in Seq(Entry) /\ OneEach(pending)
         /\ \A c \in Calls, i \in DOMAIN pending :
              Pending(c) /\ pending[i].batcher = BatcherOf[c] => c \in Members(pending[i].calls)
  <1>1. pending \in Seq(Entry) /\ OneEach(pending) BY DEF TypeOK, Entry, Formed, OneEach
  <1>2. ASSUME NEW c \in Calls, NEW i \in DOMAIN pending,
               Pending(c), pending[i].batcher = BatcherOf[c]
        PROVE  c \in Members(pending[i].calls)
    <2>1. PICK j \in DOMAIN pending : c \in Members(pending[j].calls) BY <1>2 DEF Pending
    <2>2. pending[j].batcher = BatcherOf[c] BY <2>1, EntryFacts
    <2> QED BY <1>1, <1>2, <2>1, <2>2 DEF OneEach
  <1> QED BY <1>1, <1>2

\* The entries of the other batchers are the entries but that of b.
LEMMA OthersPendingIs ==
  ASSUME TypeOK, Formed, NEW b \in Batchers, NEW p, p = OthersPending(b)
  PROVE  /\ p \in Seq(Entry) /\ OneEach(p)
         /\ \A i \in DOMAIN p : \E j \in DOMAIN pending : p[i] = pending[j] /\ pending[j].batcher # b
         /\ \A j \in DOMAIN pending : pending[j].batcher # b => \E i \in DOMAIN p : p[i] = pending[j]
  <1>1. pending \in Seq(Entry) /\ OneEach(pending) BY PendingOne
  <1>2. CASE ~HasEntry(b)
    BY <1>1, <1>2 DEF OthersPending, HasEntry
  <1>3. CASE HasEntry(b)
    <2>1. PICK k \in DOMAIN pending : pending[k].batcher = b /\ k = EntryOf(b)
      BY <1>3 DEF HasEntry, EntryOf
    <2>2. p = Without(pending, k) BY <1>3, <2>1 DEF OthersPending, Without
    <2>3. /\ p \in Seq(Entry) /\ Len(p) = Len(pending) - 1
          /\ \A i \in 1..Len(p) : p[i] = pending[IF i < k THEN i ELSE i + 1]
      <3>1. pending \in Seq(Entry) /\ k \in 1..Len(pending) BY <1>1, LenProperties
      <3> QED BY <2>2, <3>1, Removed
    <2>4. k \in 1..Len(pending) /\ Len(pending) \in Nat /\ DOMAIN p = 1..Len(p)
          /\ DOMAIN pending = 1..Len(pending)
      BY <1>1, <2>1, <2>3, LenProperties
    <2>5. ASSUME NEW i \in DOMAIN p
          PROVE  \E j \in DOMAIN pending : p[i] = pending[j] /\ pending[j].batcher # b
      <3>1. (IF i < k THEN i ELSE i + 1) \in DOMAIN pending
            /\ (IF i < k THEN i ELSE i + 1) # k BY <2>3, <2>4
      <3> QED BY <1>1, <2>1, <2>3, <2>4, <3>1 DEF OneEach
    <2>6. ASSUME NEW j \in DOMAIN pending, pending[j].batcher # b
          PROVE  \E i \in DOMAIN p : p[i] = pending[j]
      <3>1. j # k /\ j \in 1..Len(pending) BY <2>1, <2>4, <2>6
      <3>2. CASE j < k
        <4>1. j \in DOMAIN p BY <2>3, <2>4, <3>1, <3>2
        <4> QED BY <2>3, <2>4, <3>2, <4>1
      <3>3. CASE ~(j < k)
        <4>1. j - 1 \in DOMAIN p /\ ~(j - 1 < k) /\ (j - 1) + 1 = j BY <2>3, <2>4, <3>1, <3>3
        <4> QED BY <2>3, <2>4, <4>1
      <3> QED BY <3>2, <3>3
    <2>7. OneEach(p)
      <3> SUFFICES ASSUME NEW i \in DOMAIN p, NEW j \in DOMAIN p, p[i].batcher = p[j].batcher
                   PROVE  i = j
        BY DEF OneEach
      <3>1. /\ (IF i < k THEN i ELSE i + 1) \in DOMAIN pending
            /\ (IF j < k THEN j ELSE j + 1) \in DOMAIN pending BY <2>3, <2>4
      <3>2. (IF i < k THEN i ELSE i + 1) = (IF j < k THEN j ELSE j + 1)
        BY <1>1, <2>3, <2>4, <3>1 DEF OneEach
      <3> QED BY <2>4, <3>2
    <2> QED BY <2>3, <2>5, <2>6, <2>7
  <1> QED BY <1>2, <1>3

\* The batch that a call joins: what pends under its batcher, in its order, and the call.
LEMMA JoinedIs ==
  ASSUME TypeOK, Formed, NEW c \in Calls, NEW s, s = Joined(c)
  PROVE  /\ s \in Seq(Calls) /\ Len(s) \in Nat \ {0} /\ s[Len(s)] = c
         /\ \A i \in 1..(Len(s) - 1) : /\ Pending(s[i]) /\ BatcherOf[s[i]] = BatcherOf[c]
                                       /\ pc[s[i]] \in Queued
         /\ \A i, j \in 1..(Len(s) - 1) : i < j => arrival[s[i]] < arrival[s[j]]
         /\ \A d \in Calls : Pending(d) /\ BatcherOf[d] = BatcherOf[c] => d \in Members(s)
  <1> DEFINE b == BatcherOf[c]
  <1>0. b \in Batchers BY BatcherConstants
  <1>1. CASE ~HasEntry(b)
    <2>1. s = <<c>> BY <1>1 DEF Joined
    <2>2. s \in Seq(Calls) /\ Len(s) = 1 /\ s[1] = c BY <2>1
    <2>3. ASSUME NEW d \in Calls, Pending(d), BatcherOf[d] = b PROVE FALSE
      <3>1. PICK i \in DOMAIN pending : d \in Members(pending[i].calls) BY <2>3 DEF Pending
      <3>2. pending[i].batcher = b BY <2>3, <3>1, EntryFacts
      <3> QED BY <1>1, <3>2 DEF HasEntry
    <2> QED BY <2>2, <2>3
  <1>2. CASE HasEntry(b)
    <2> DEFINE k == EntryOf(b)
               old == pending[k].calls
    <2>1. k \in DOMAIN pending /\ pending[k].batcher = b BY <1>2 DEF HasEntry, EntryOf
    <2>2. s = Append(old, c) BY <1>2 DEF Joined
    <2> HIDE DEF k
    <2>3. /\ old \in Seq(Calls) /\ Len(old) \in Nat
          /\ \A d \in Members(old) : BatcherOf[d] = b /\ pc[d] \in Queued /\ Pending(d)
      BY <2>1, EntryFacts
    <2>4. \A i, j \in DOMAIN old : i < j => arrival[old[i]] < arrival[old[j]]
      BY <2>1 DEF Formed, IsBatch
    <2>5. \A d \in Calls : Pending(d) /\ BatcherOf[d] = b => d \in Members(old)
      BY <2>1, PendingOne
    <2> HIDE DEF old
    <2>6. /\ s \in Seq(Calls) /\ Len(s) = Len(old) + 1 /\ s[Len(s)] = c
          /\ \A i \in 1..Len(old) : s[i] = old[i]
      BY <2>2, <2>3, AppendProperties
    <2>7. DOMAIN old = 1..Len(old) /\ DOMAIN s = 1..Len(s) /\ Len(s) - 1 = Len(old)
      BY <2>3, <2>6, LenProperties
    <2>8. \A i \in 1..Len(old) : s[i] \in Members(old) BY <2>6, <2>7 DEF Members
    <2>9. \A d \in Members(old) : d \in Members(s)
      <3> SUFFICES ASSUME NEW d \in Members(old) PROVE d \in Members(s) OBVIOUS
      <3>1. PICK i \in DOMAIN old : d = old[i] BY DEF Members
      <3>2. i \in DOMAIN s /\ s[i] = d BY <2>3, <2>6, <2>7, <3>1
      <3> QED BY <3>2 DEF Members
    <2>10. Len(s) \in Nat \ {0} BY <2>3, <2>6
    <2>11. \A i, j \in 1..Len(old) : i < j => arrival[s[i]] < arrival[s[j]] BY <2>4, <2>6, <2>7
    <2> QED BY <2>3, <2>5, <2>6, <2>7, <2>8, <2>9, <2>10, <2>11
  <1> QED BY <1>1, <1>2

\* The first batch that can be started.
LEMMA FirstStartableIs ==
  ASSUME TypeOK, Startable # {}
  PROVE  /\ FirstStartable \in DOMAIN pending /\ Alive(pending[FirstStartable].batcher)
         /\ \A j \in DOMAIN pending : j < FirstStartable => ~Alive(pending[j].batcher)
  <1>1. Startable \in SUBSET Nat BY DEF Startable, TypeOK
  <1>2. \E i \in Startable : \A j \in Startable : i <= j BY <1>1, Least
  <1>3. FirstStartable \in Startable /\ \A j \in Startable : FirstStartable <= j
    BY <1>2 DEF FirstStartable
  <1>4. ASSUME NEW j \in DOMAIN pending, j < FirstStartable PROVE ~Alive(pending[j].batcher)
    <2>1. SUFFICES ASSUME j \in Startable PROVE FALSE BY DEF Startable
    <2>2. FirstStartable <= j /\ j \in Nat /\ FirstStartable \in Nat BY <1>1, <1>3, <2>1
    <2> QED BY <1>4, <2>2
  <1> QED BY <1>3, <1>4 DEF Startable

LEMMA StaysBatch ==
  ASSUME NEW s, NEW b, NEW status, NEW number, NEW status2, NEW number2,
         IsBatch(s, b, status, number),
         \A d \in Members(s) : status2[d] \in Queued /\ number2[d] = number[d]
  PROVE  IsBatch(s, b, status2, number2)
  <1>1. \A i \in DOMAIN s : status2[s[i]] \in Queued /\ number2[s[i]] = number[s[i]]
    BY DEF Members
  <1> QED BY <1>1 DEF IsBatch, Queued

\* Formed stays when each entry and each run is as it was, comes from the other, or is
\* a batch of its own, and no call in them is answered.
LEMMA FormedStays ==
  ASSUME TypeOK, Formed, OneEach(pending)',
         \A i \in DOMAIN pending' :
           \/ \E j \in DOMAIN pending : pending'[i] = pending[j]
           \/ IsBatch(pending'[i].calls, pending'[i].batcher, pc', arrival'),
         \A l \in Calls :
           \/ batch'[l] = <<>> \/ batch'[l] = batch[l]
           \/ \E j \in DOMAIN pending : batch'[l] = pending[j].calls /\ batch'[l][1] = l
           \/ IsBatch(batch'[l], BatcherOf[l], pc', arrival') /\ batch'[l][1] = l,
         \A d \in Calls : pc[d] \in Queued =>
           /\ arrival'[d] = arrival[d]
           /\ \/ pc'[d] \in Queued
              \/ ~Pending(d)' /\ \A l \in Calls : d \notin Members(batch'[l])
  PROVE  Formed'
  <1>1. ASSUME NEW i \in DOMAIN pending'
        PROVE  IsBatch(pending'[i].calls, pending'[i].batcher, pc', arrival')
    <2>1. CASE \E j \in DOMAIN pending : pending'[i] = pending[j]
      <3>1. PICK j \in DOMAIN pending : pending'[i] = pending[j] BY <2>1
      <3>2. IsBatch(pending[j].calls, pending[j].batcher, pc, arrival) BY DEF Formed
      <3>3. ASSUME NEW d \in Members(pending[j].calls)
            PROVE  pc'[d] \in Queued /\ arrival'[d] = arrival[d]
        <4>1. d \in Calls /\ pc[d] \in Queued BY EntryFacts
        <4>2. Pending(d)' BY <3>1 DEF Pending
        <4> QED BY <4>1, <4>2
      <3> QED BY <3>1, <3>2, <3>3, StaysBatch
    <2> QED BY <2>1
  <1>2. ASSUME NEW l \in Calls, batch'[l] # <<>>
        PROVE  IsBatch(batch'[l], BatcherOf[l], pc', arrival') /\ batch'[l][1] = l
    <2>1. CASE batch'[l] = batch[l]
      <3>1. IsBatch(batch[l], BatcherOf[l], pc, arrival) /\ batch[l][1] = l
        BY <1>2, <2>1 DEF Formed, Running
      <3>2. ASSUME NEW d \in Members(batch[l])
            PROVE  pc'[d] \in Queued /\ arrival'[d] = arrival[d]
        <4>1. d \in Calls /\ pc[d] \in Queued BY RunFacts
        <4> QED BY <2>1, <4>1
      <3> QED BY <2>1, <3>1, <3>2, StaysBatch
    <2>2. CASE \E j \in DOMAIN pending : batch'[l] = pending[j].calls /\ batch'[l][1] = l
      <3>1. PICK j \in DOMAIN pending : batch'[l] = pending[j].calls /\ batch'[l][1] = l BY <2>2
      <3>2. IsBatch(pending[j].calls, pending[j].batcher, pc, arrival) BY DEF Formed
      <3>3. pending[j].batcher = BatcherOf[l] BY <3>1, EntryFacts
      <3>4. ASSUME NEW d \in Members(pending[j].calls)
            PROVE  pc'[d] \in Queued /\ arrival'[d] = arrival[d]
        <4>1. d \in Calls /\ pc[d] \in Queued BY EntryFacts
        <4> QED BY <3>1, <4>1
      <3> QED BY <3>1, <3>2, <3>3, <3>4, StaysBatch
    <2> QED BY <1>2, <2>1, <2>2
  <1>3. OneEach(pending') OBVIOUS
  <1> QED BY <1>1, <1>2, <1>3 DEF Formed, Running, OneEach

-----------------------------------------------------------------------------
\* A call that arrives gets the greatest number.
LEMMA ArriveNumbers ==
  ASSUME TypeOK, Numbered, NEW c \in Calls, Arrive(c),
         NEW q \in PCs \ {"idle"}, pc' = [pc EXCEPT ![c] = q]
  PROVE  /\ Numbered' /\ arrival' \in [Calls -> Nat] /\ pc' \in [Calls -> PCs]
         /\ arrival[c] = 0 /\ pc[c] = "idle" /\ pc'[c] = q /\ arrival'[c] # 0
         /\ \A d \in Calls : arrival[d] < arrival'[c]
         /\ \A d \in Calls : d # c => arrival'[d] = arrival[d] /\ pc'[d] = pc[d]
         /\ BatcherOf[c] \notin dropped /\ dropped' = dropped
  <1> DEFINE n == Cardinality(Arrived)
  <1>1. n \in Nat /\ IsFiniteSet(Arrived) BY FS_CardinalityType DEF Numbered
  <1>2. arrival[c] = 0 /\ pc[c] = "idle" /\ pc'[c] = q BY DEF Arrive, Numbered, TypeOK
  <1>3. arrival' = [arrival EXCEPT ![c] = 1 + n] BY DEF Arrive, Arrived
  <1>4. arrival' \in [Calls -> Nat] /\ arrival'[c] = 1 + n
        /\ \A d \in Calls : d # c => arrival'[d] = arrival[d]
    BY <1>1, <1>3 DEF TypeOK
  <1>5. \A d \in Calls : arrival[d] \in Nat /\ arrival[d] <= n BY DEF TypeOK, Numbered
  <1>6. Arrived' = Arrived \cup {c} BY <1>1, <1>4 DEF Arrived
  <1>7. IsFiniteSet(Arrived') /\ Cardinality(Arrived') = n + 1
    <2>1. c \notin Arrived BY <1>2 DEF Arrived
    <2> QED BY <1>1, <1>6, <2>1, FS_AddElement
  <1>8. \A d \in Calls : d # c => pc'[d] = pc[d] BY DEF TypeOK
  <1> HIDE DEF n
  <1>9. Numbered'
    <2>1. \A d \in Calls : arrival'[d] <= n + 1 BY <1>1, <1>4, <1>5
    <2>2. ASSUME NEW d \in Calls PROVE (arrival'[d] = 0) <=> (pc'[d] = "idle")
      <3>1. (arrival[d] = 0) <=> (pc[d] = "idle") BY DEF Numbered
      <3> QED BY <1>1, <1>2, <1>4, <1>8, <3>1
    <2>3. ASSUME NEW d \in Calls, NEW e \in Calls, arrival'[d] = arrival'[e], arrival'[d] # 0
          PROVE  d = e
      <3>1. arrival[d] = arrival[e] /\ arrival[d] # 0 => d = e BY DEF Numbered
      <3> QED BY <1>1, <1>4, <1>5, <2>3, <3>1
    <2> QED BY <1>7, <2>1, <2>2, <2>3 DEF Numbered
  <1>10. BatcherOf[c] \notin dropped /\ dropped' = dropped BY DEF Arrive
  <1>11. pc' \in [Calls -> PCs] BY DEF TypeOK
  <1>12. arrival'[c] # 0 /\ \A d \in Calls : arrival[d] < arrival'[c] BY <1>1, <1>4, <1>5
  <1> QED BY <1>2, <1>4, <1>8, <1>9, <1>10, <1>11, <1>12

LEMMA IdleIsOut ==
  ASSUME TypeOK, Formed, Led, Apart, Numbered, NEW c \in Calls, pc[c] = "idle"
  PROVE  ~Pending(c) /\ c \notin guards /\ \A l \in Calls : c \notin Members(batch[l])
  <1>1. ~Pending(c) BY EntryFacts DEF Pending, Queued
  <1>2. \A l \in Calls : c \notin Members(batch[l]) BY RunFacts DEF Queued
  <1>3. c \notin guards BY DEF Apart, Numbered
  <1> QED BY <1>1, <1>2, <1>3

LEMMA CallInlineKeeps ==
  ASSUME BInv, NEW c \in Calls, CallInline(c)
  PROVE  BInv'
  <1> USE DEF BInv
  <1>1. /\ Numbered' /\ arrival' \in [Calls -> Nat] /\ pc' \in [Calls -> PCs]
        /\ arrival[c] = 0 /\ pc[c] = "idle" /\ pc'[c] = "inline" /\ arrival'[c] # 0
        /\ \A d \in Calls : arrival[d] < arrival'[c]
        /\ \A d \in Calls : d # c => arrival'[d] = arrival[d] /\ pc'[d] = pc[d]
        /\ dropped' = dropped
    <2>1. Arrive(c) /\ pc' = [pc EXCEPT ![c] = "inline"] BY DEF CallInline
    <2> QED BY <2>1, ArriveNumbers DEF PCs
  <1>2. guards = {} /\ pending = <<>> /\ \A d \in Calls : ~Pending(d)
    <2>1. ongoing = 0 /\ pending = <<>> /\ Cardinality(guards) = 0 /\ IsFiniteSet(guards)
      BY DEF CallInline, Counted, GuardsCounted
    <2> QED BY <2>1, FS_EmptySet DEF Pending
  <1>3. ongoing' = 1 /\ pending' = <<>> /\ guards' = {c} /\ batch' = [batch EXCEPT ![c] = <<c>>]
    BY <1>2 DEF CallInline
  <1>4. \A d \in Calls : ~Pending(d)' BY <1>3 DEF Pending
  <1>5. batch'[c] = <<c>> /\ Members(batch'[c]) = {c}
        /\ \A l \in Calls : l # c => batch'[l] = batch[l]
    BY <1>3 DEF TypeOK, Members
  <1>6. ~Pending(c) /\ \A l \in Calls : c \notin Members(batch[l]) BY <1>1, IdleIsOut
  <1>7. TypeOK'
    <2>1. batch' \in [Calls -> Seq(Calls)] BY <1>3 DEF TypeOK
    <2> QED BY <1>1, <1>3, <2>1 DEF TypeOK
  <1>8. Counted' BY <1>3, FS_Singleton DEF Counted, GuardsCounted
  <1>9. Formed'
    <2>1. IsBatch(<<c>>, BatcherOf[c], pc', arrival') BY <1>1 DEF IsBatch
    <2>2. OneEach(pending)' BY <1>3 DEF OneEach
    <2>3. \A d \in Calls : pc[d] \in Queued => arrival'[d] = arrival[d] /\ pc'[d] \in Queued
      BY <1>1 DEF Queued
    <2>4. \A l \in Calls : \/ batch'[l] = batch[l]
                           \/ IsBatch(batch'[l], BatcherOf[l], pc', arrival') /\ batch'[l][1] = l
      BY <1>5, <2>1
    <2> QED BY <1>3, <2>2, <2>3, <2>4, FormedStays
  <1>10. Apart'
    <2>1. \A l, m \in Calls : \A d \in Members(batch'[l]) : d \in Members(batch'[m]) => l = m
      BY <1>5, <1>6 DEF Apart
    <2>2. \A l \in Calls : \A d \in Members(batch'[l]) : ~Pending(d)'
      BY <1>3 DEF Pending
    <2> QED BY <1>1, <1>3, <1>4, <2>1, <2>2 DEF Apart
  <1>11. Led' BY <1>1, <1>2, <1>3, <1>4, <1>5 DEF Led, Running
  <1>12. WaitersAreQueued'
    <2> SUFFICES ASSUME NEW d \in Calls, pc'[d] = "waiting"
                 PROVE  \E l \in guards : d \in Members(batch[l])
      BY <1>2 DEF WaitersAreQueued
    <2>1. pc[d] = "waiting" BY <1>1
    <2> QED BY <1>2, <2>1 DEF WaitersAreQueued
  <1>13. StartsInOrder' BY <1>4 DEF StartsInOrder
  <1> QED BY <1>1, <1>7, <1>8, <1>9, <1>10, <1>11, <1>12, <1>13

-----------------------------------------------------------------------------
\* WaitersAreQueued, by what pends and what runs.
LEMMA WaitersQueued ==
  ASSUME Formed',
         \A c \in Calls : pc'[c] = "waiting" =>
           \/ /\ Pending(c)' /\ BatcherOf[c] \notin dropped'
              /\ \A l \in Calls : c \notin Members(batch'[l])
           \/ ~Pending(c)' /\ \E l \in guards' : c \in Members(batch'[l])
  PROVE  WaitersAreQueued'
  <1>1. ASSUME NEW c, NEW i \in DOMAIN pending', c \in Members(pending'[i].calls)
        PROVE  pending'[i].batcher = BatcherOf[c]
    <2>1. IsBatch(pending'[i].calls, pending'[i].batcher, pc', arrival') BY DEF Formed
    <2> QED BY <1>1, <2>1 DEF IsBatch, Members
  <1>2. ASSUME NEW c \in Calls, pc'[c] = "waiting",
               Pending(c)', BatcherOf[c] \notin dropped', \A l \in Calls : c \notin Members(batch'[l])
        PROVE  \E i \in DOMAIN pending' :
                 /\ c \in Members(pending'[i].calls)
                 /\ pending'[i].batcher = BatcherOf[c] /\ BatcherOf[c] \notin dropped'
    BY <1>1, <1>2 DEF Pending
  <1> QED BY <1>2 DEF WaitersAreQueued, Pending

LEMMA WaitersKnown ==
  ASSUME TypeOK, Formed, WaitersAreQueued, NEW c \in Calls, pc[c] = "waiting"
  PROVE  \/ /\ Pending(c) /\ BatcherOf[c] \notin dropped
            /\ \A l \in Calls : c \notin Members(batch[l])
         \/ ~Pending(c) /\ \E l \in guards : c \in Members(batch[l])
  BY DEF WaitersAreQueued, Pending

\* The batch a call joins, as the step leaves it.
LEMMA JoinedNow ==
  ASSUME BInv, NEW c \in Calls, CallQueued(c), NEW s, s = Joined(c)
  PROVE  /\ s \in Seq(Calls) /\ s # <<>> /\ Head(s) = s[1] /\ s[1] \in Members(s) /\ s[1] \in Calls
         /\ IsBatch(s, BatcherOf[c], pc', arrival')
         /\ c \in Members(s)
         /\ \A d \in Calls : d # c => (d \in Members(s) <=> Pending(d) /\ BatcherOf[d] = BatcherOf[c])
         /\ Numbered' /\ arrival' \in [Calls -> Nat] /\ pc' \in [Calls -> PCs]
         /\ arrival[c] = 0 /\ pc[c] = "idle" /\ pc'[c] = "waiting" /\ arrival'[c] # 0
         /\ \A d \in Calls : arrival[d] < arrival'[c]
         /\ \A d \in Calls : d # c => arrival'[d] = arrival[d] /\ pc'[d] = pc[d]
         /\ BatcherOf[c] \notin dropped /\ dropped' = dropped
         /\ ~Pending(c) /\ c \notin guards /\ \A l \in Calls : c \notin Members(batch[l])
  <1> USE DEF BInv
  <1>1. /\ Numbered' /\ arrival' \in [Calls -> Nat] /\ pc' \in [Calls -> PCs]
        /\ arrival[c] = 0 /\ pc[c] = "idle" /\ pc'[c] = "waiting" /\ arrival'[c] # 0
        /\ \A d \in Calls : arrival[d] < arrival'[c]
        /\ \A d \in Calls : d # c => arrival'[d] = arrival[d] /\ pc'[d] = pc[d]
        /\ BatcherOf[c] \notin dropped /\ dropped' = dropped
    <2>1. Arrive(c) /\ pc' = [pc EXCEPT ![c] = "waiting"] BY DEF CallQueued
    <2> QED BY <2>1, ArriveNumbers DEF PCs
  <1>2. ~Pending(c) /\ c \notin guards /\ \A l \in Calls : c \notin Members(batch[l])
    BY <1>1, IdleIsOut
  <1> DEFINE n == Len(s)
  <1>3. /\ s \in Seq(Calls) /\ n \in Nat \ {0} /\ s[n] = c
        /\ \A i \in 1..(n - 1) : /\ Pending(s[i]) /\ BatcherOf[s[i]] = BatcherOf[c]
                                 /\ pc[s[i]] \in Queued
        /\ \A i, j \in 1..(n - 1) : i < j => arrival[s[i]] < arrival[s[j]]
        /\ \A d \in Calls : Pending(d) /\ BatcherOf[d] = BatcherOf[c] => d \in Members(s)
    BY JoinedIs
  <1>4. DOMAIN s = 1..n /\ (\A i \in 1..n : s[i] \in Calls) BY <1>3, LenProperties, ElementOfSeq
  <1> HIDE DEF n
  <1>5. \A i \in 1..n : i = n \/ i \in 1..(n - 1) BY <1>3
  <1>6. \A i \in 1..(n - 1) : s[i] # c /\ s[i] \in Calls /\ pc'[s[i]] = pc[s[i]]
                              /\ arrival'[s[i]] = arrival[s[i]]
    <2> SUFFICES ASSUME NEW i \in 1..(n - 1)
                 PROVE  s[i] # c /\ s[i] \in Calls /\ pc'[s[i]] = pc[s[i]]
                        /\ arrival'[s[i]] = arrival[s[i]]
      OBVIOUS
    <2>1. Pending(s[i]) BY <1>3
    <2>2. s[i] # c BY <1>2, <2>1
    <2>3. i \in 1..n BY <1>3
    <2> QED BY <1>1, <1>4, <2>2, <2>3
  <1>7. IsBatch(s, BatcherOf[c], pc', arrival')
    <2>1. s # <<>> BY <1>3 DEF n
    <2>2. \A i \in DOMAIN s : BatcherOf[s[i]] = BatcherOf[c] /\ pc'[s[i]] \in Queued
      BY <1>1, <1>3, <1>4, <1>5, <1>6 DEF Queued
    <2>3. ASSUME NEW i \in DOMAIN s, NEW j \in DOMAIN s, i < j
          PROVE  arrival'[s[i]] < arrival'[s[j]]
      <3>1. i \in 1..(n - 1) BY <1>3, <1>4, <2>3
      <3>2. CASE j = n BY <1>1, <1>3, <1>6, <3>1, <3>2
      <3>3. CASE j \in 1..(n - 1) BY <1>3, <1>6, <2>3, <3>1, <3>3
      <3> QED BY <1>4, <1>5, <3>2, <3>3
    <2> QED BY <2>1, <2>2, <2>3 DEF IsBatch, Queued
  <1>8. c \in Members(s) BY <1>3, <1>4 DEF Members
  <1>9. ASSUME NEW d \in Members(s), d # c
        PROVE  Pending(d) /\ BatcherOf[d] = BatcherOf[c]
    <2>1. PICK i \in 1..n : d = s[i] BY <1>4 DEF Members
    <2>2. i \in 1..(n - 1) BY <1>3, <1>5, <1>9, <2>1
    <2> QED BY <1>3, <2>1, <2>2
  <1>10. s # <<>> /\ Head(s) = s[1] /\ s[1] \in Members(s) /\ s[1] \in Calls
    <2>1. 1 \in 1..n BY <1>3
    <2> QED BY <1>3, <1>4, <2>1 DEF Members, n
  <1> QED BY <1>1, <1>2, <1>3, <1>7, <1>8, <1>9, <1>10

\* A call that only joins: it pends, nothing else does anew.
LEMMA JoinedPends ==
  ASSUME BInv, NEW c \in Calls, CallQueued(c), NEW s, s = Joined(c), ~IsFull(BatcherOf[c], s)
  PROVE  /\ pending' \in Seq(Entry) /\ OneEach(pending)'
         /\ \A i \in DOMAIN pending' :
              \/ \E j \in DOMAIN pending : pending'[i] = pending[j]
              \/ IsBatch(pending'[i].calls, pending'[i].batcher, pc', arrival')
         /\ \A d \in Calls : Pending(d)' <=> (Pending(d) \/ d = c)
         /\ ongoing > 0 /\ ongoing' = ongoing /\ batch' = batch /\ guards' = guards
  <1> DEFINE b == BatcherOf[c]
             e == [batcher |-> b, calls |-> s]
  <1> USE DEF BInv
  <1>0. b \in Batchers BY BatcherConstants
  <1>1. /\ s \in Seq(Calls) /\ IsBatch(s, b, pc', arrival') /\ c \in Members(s)
        /\ \A d \in Calls : d # c => (d \in Members(s) <=> Pending(d) /\ BatcherOf[d] = b)
    BY JoinedNow
  <1>2. /\ Numbered' /\ arrival' \in [Calls -> Nat] /\ pc' \in [Calls -> PCs]
        /\ arrival[c] = 0 /\ pc[c] = "idle" /\ pc'[c] = "waiting" /\ arrival'[c] # 0
        /\ \A d \in Calls : arrival[d] < arrival'[c]
        /\ \A d \in Calls : d # c => arrival'[d] = arrival[d] /\ pc'[d] = pc[d]
        /\ b \notin dropped /\ dropped' = dropped
        /\ ~Pending(c) /\ c \notin guards /\ \A l \in Calls : c \notin Members(batch[l])
    BY JoinedNow
  <1>3. /\ pending' = Append(OthersPending(b), e) /\ ongoing > 0
        /\ ongoing' = ongoing /\ batch' = batch /\ guards' = guards
    BY DEF CallQueued
  <1> DEFINE p == OthersPending(b)
  <1>4. /\ p \in Seq(Entry) /\ OneEach(p)
        /\ \A i \in DOMAIN p : \E j \in DOMAIN pending : p[i] = pending[j] /\ pending[j].batcher # b
        /\ \A j \in DOMAIN pending : pending[j].batcher # b => \E i \in DOMAIN p : p[i] = pending[j]
    BY <1>0, OthersPendingIs
  <1>5. e \in Entry /\ e.batcher = b /\ e.calls = s BY <1>0, <1>1 DEF Entry
  <1> HIDE DEF p, e
  <1>6. /\ pending' \in Seq(Entry) /\ DOMAIN pending' = 1..(Len(p) + 1) /\ DOMAIN p = 1..Len(p)
        /\ (\A i \in DOMAIN p : pending'[i] = p[i]) /\ pending'[Len(p) + 1] = e /\ Len(p) \in Nat
    <2>1. pending' = Append(p, e) BY <1>3 DEF p
    <2> QED BY <1>4, <1>5, <2>1, AppendProperties, LenProperties
  <1>7. \A i \in DOMAIN pending' : i \in DOMAIN p \/ i = Len(p) + 1 BY <1>6
  <1>8. OneEach(pending)'
    <2> SUFFICES ASSUME NEW i \in DOMAIN pending', NEW j \in DOMAIN pending',
                        pending'[i].batcher = pending'[j].batcher
                 PROVE  i = j
      BY DEF OneEach
    <2>1. \A k \in DOMAIN p : pending'[k].batcher # b BY <1>4, <1>6
    <2> QED BY <1>4, <1>5, <1>6, <1>7, <2>1 DEF OneEach
  <1>9. ASSUME NEW d \in Calls PROVE Pending(d)' <=> (Pending(d) \/ d = c)
    <2>1. ASSUME Pending(d)' PROVE Pending(d) \/ d = c
      <3>1. PICK i \in DOMAIN pending' : d \in Members(pending'[i].calls) BY <2>1 DEF Pending
      <3>2. CASE i \in DOMAIN p BY <1>4, <1>6, <3>1, <3>2 DEF Pending
      <3>3. CASE i = Len(p) + 1 BY <1>1, <1>5, <1>6, <3>1, <3>3
      <3> QED BY <1>7, <3>2, <3>3
    <2>2. ASSUME d = c \/ (Pending(d) /\ BatcherOf[d] = b) PROVE Pending(d)'
      <3>1. Len(p) + 1 \in DOMAIN pending' BY <1>6
      <3>2. d \in Members(s) BY <1>1, <2>2
      <3> QED BY <1>5, <1>6, <3>1, <3>2 DEF Pending
    <2>3. ASSUME Pending(d), BatcherOf[d] # b PROVE Pending(d)'
      <3>1. PICK j \in DOMAIN pending : d \in Members(pending[j].calls) BY <2>3 DEF Pending
      <3>2. pending[j].batcher # b BY <2>3, <3>1, EntryFacts
      <3>3. PICK i \in DOMAIN p : p[i] = pending[j] BY <1>4, <3>2
      <3>4. i \in DOMAIN pending' /\ pending'[i] = pending[j] BY <1>6, <3>3
      <3> QED BY <3>1, <3>4 DEF Pending
    <2> QED BY <2>1, <2>2, <2>3
  <1>10. ASSUME NEW i \in DOMAIN pending'
         PROVE  \/ \E j \in DOMAIN pending : pending'[i] = pending[j]
                \/ IsBatch(pending'[i].calls, pending'[i].batcher, pc', arrival')
    BY <1>1, <1>4, <1>5, <1>6, <1>7
  <1> QED BY <1>3, <1>6, <1>8, <1>9, <1>10

LEMMA CallQueuedKeepsJoined ==
  ASSUME BInv, NEW c \in Calls, CallQueued(c), NEW s, s = Joined(c), ~IsFull(BatcherOf[c], s)
  PROVE  BInv'
  <1> USE DEF BInv
  <1>2. /\ Numbered' /\ arrival' \in [Calls -> Nat] /\ pc' \in [Calls -> PCs]
        /\ arrival[c] = 0 /\ pc[c] = "idle" /\ pc'[c] = "waiting" /\ arrival'[c] # 0
        /\ \A d \in Calls : arrival[d] < arrival'[c]
        /\ \A d \in Calls : d # c => arrival'[d] = arrival[d] /\ pc'[d] = pc[d]
        /\ BatcherOf[c] \notin dropped /\ dropped' = dropped
        /\ ~Pending(c) /\ c \notin guards /\ \A l \in Calls : c \notin Members(batch[l])
    BY JoinedNow
  <1>3. /\ pending' \in Seq(Entry) /\ OneEach(pending)'
        /\ \A i \in DOMAIN pending' :
             \/ \E j \in DOMAIN pending : pending'[i] = pending[j]
             \/ IsBatch(pending'[i].calls, pending'[i].batcher, pc', arrival')
        /\ ongoing > 0 /\ ongoing' = ongoing /\ batch' = batch /\ guards' = guards
    BY JoinedPends
  <1>9. \A d \in Calls : Pending(d)' <=> (Pending(d) \/ d = c) BY JoinedPends
  <1>10. TypeOK' BY <1>2, <1>3 DEF TypeOK, Entry
  <1>11. Counted' BY <1>3 DEF Counted, GuardsCounted
  <1>12. Formed'
    <2>2. \A d \in Calls : pc[d] \in Queued => arrival'[d] = arrival[d] /\ pc'[d] \in Queued
      BY <1>2 DEF Queued
    <2>3. \A l \in Calls : batch'[l] = batch[l] BY <1>3
    <2> QED BY <1>3, <2>2, <2>3, FormedStays
  <1>13. Apart' 
    <2>1. \A l \in Calls : \A d \in Members(batch[l]) : d # c /\ d \in Calls BY <1>2, RunFacts
    <2>2. \A l \in Calls : \A d \in Members(batch'[l]) : ~Pending(d)'
      BY <1>3, <1>9, <2>1 DEF Apart
    <2>3. \A l \in guards' : ~Pending(l)' /\ arrival'[l] # 0
      BY <1>2, <1>3, <1>9 DEF Apart, TypeOK
    <2> QED BY <1>3, <2>2, <2>3 DEF Apart
  <1>14. Led' BY <1>2, <1>3, <1>9 DEF Led, Running
  <1>15. WaitersAreQueued'
    <2>1. ASSUME NEW d \in Calls, pc'[d] = "waiting"
          PROVE  \/ /\ Pending(d)' /\ BatcherOf[d] \notin dropped'
                    /\ \A l \in Calls : d \notin Members(batch'[l])
                 \/ ~Pending(d)' /\ \E l \in guards' : d \in Members(batch'[l])
      <3>1. CASE d = c BY <1>2, <1>3, <1>9, <3>1
      <3>2. CASE d # c
        <4>1. pc[d] = "waiting" BY <1>2, <2>1, <3>2
        <4> QED BY <1>2, <1>3, <1>9, <3>2, <4>1, WaitersKnown
      <3> QED BY <3>1, <3>2
    <2> QED BY <1>12, <2>1, WaitersQueued
  <1>16. StartsInOrder'
    <2> SUFFICES ASSUME NEW x \in Calls, NEW y \in Calls, BatcherOf[x] = BatcherOf[y],
                        arrival'[x] # 0, arrival'[x] < arrival'[y], Pending(x)', y # c
                 PROVE  Pending(y)
      BY <1>9 DEF StartsInOrder
    <2>1. x # c
      <3>1. arrival'[y] = arrival[y] /\ arrival[y] < arrival'[c] BY <1>2
      <3>2. arrival'[y] \in Nat /\ arrival'[c] \in Nat BY <1>2
      <3> QED BY <3>1, <3>2
    <2> QED BY <1>2, <1>9, <2>1 DEF StartsInOrder
  <1> QED BY <1>2, <1>10, <1>11, <1>12, <1>13, <1>14, <1>15, <1>16

\* A call that fills its batch: the batch starts beside the runs there are.
LEMMA CallQueuedKeepsFull ==
  ASSUME BInv, NEW c \in Calls, CallQueued(c), NEW s, s = Joined(c), IsFull(BatcherOf[c], s)
  PROVE  BInv'
  <1> DEFINE b == BatcherOf[c]
             h == s[1]
  <1> USE DEF BInv
  <1>0. b \in Batchers BY BatcherConstants
  <1>1. /\ s \in Seq(Calls) /\ s # <<>> /\ Head(s) = h /\ h \in Members(s) /\ h \in Calls
        /\ IsBatch(s, b, pc', arrival') /\ c \in Members(s)
        /\ \A d \in Calls : d # c => (d \in Members(s) <=> Pending(d) /\ BatcherOf[d] = b)
    BY JoinedNow
  <1>2. /\ Numbered' /\ arrival' \in [Calls -> Nat] /\ pc' \in [Calls -> PCs]
        /\ arrival[c] = 0 /\ pc[c] = "idle" /\ pc'[c] = "waiting" /\ arrival'[c] # 0
        /\ \A d \in Calls : arrival[d] < arrival'[c]
        /\ \A d \in Calls : d # c => arrival'[d] = arrival[d] /\ pc'[d] = pc[d]
        /\ b \notin dropped /\ dropped' = dropped
        /\ ~Pending(c) /\ c \notin guards /\ \A l \in Calls : c \notin Members(batch[l])
    BY JoinedNow
  <1> DEFINE p == OthersPending(b)
  <1>3. /\ pending' = p /\ ongoing > 0 /\ ongoing' = ongoing + 1
        /\ batch' = [batch EXCEPT ![h] = s] /\ guards' = guards \cup {h}
    BY <1>1 DEF CallQueued
  <1>4. /\ p \in Seq(Entry) /\ OneEach(p)
        /\ \A i \in DOMAIN p : \E j \in DOMAIN pending : p[i] = pending[j] /\ pending[j].batcher # b
        /\ \A j \in DOMAIN pending : pending[j].batcher # b => \E i \in DOMAIN p : p[i] = pending[j]
    BY <1>0, OthersPendingIs
  <1> HIDE DEF p, h
  <1>5. batch'[h] = s /\ (\A l \in Calls : l # h => batch'[l] = batch[l])
        /\ batch' \in [Calls -> Seq(Calls)]
    BY <1>1, <1>3 DEF TypeOK
  <1>6. \A d \in Members(s) : d \in Calls /\ BatcherOf[d] = b /\ (\A l \in Calls : d \notin Members(batch[l]))
    <2> SUFFICES ASSUME NEW d \in Members(s)
                 PROVE  d \in Calls /\ BatcherOf[d] = b /\ (\A l \in Calls : d \notin Members(batch[l]))
      OBVIOUS
    <2>1. d \in Calls /\ BatcherOf[d] = b BY <1>1 DEF IsBatch, Members
    <2>2. CASE d = c BY <1>2, <2>1, <2>2
    <2>3. CASE d # c
      <3>1. Pending(d) BY <1>1, <2>1, <2>3
      <3> QED BY <2>1, <3>1 DEF Apart
    <2> QED BY <2>2, <2>3
  <1>7. ASSUME NEW d \in Calls PROVE Pending(d)' <=> (Pending(d) /\ BatcherOf[d] # b)
    <2>1. ASSUME Pending(d)' PROVE Pending(d) /\ BatcherOf[d] # b
      <3>1. PICK i \in DOMAIN p : d \in Members(p[i].calls) BY <1>3, <2>1 DEF Pending
      <3>2. PICK j \in DOMAIN pending : p[i] = pending[j] /\ pending[j].batcher # b BY <1>4
      <3> QED BY <3>1, <3>2, EntryFacts
    <2>2. ASSUME Pending(d), BatcherOf[d] # b PROVE Pending(d)'
      <3>1. PICK j \in DOMAIN pending : d \in Members(pending[j].calls) BY <2>2 DEF Pending
      <3>2. pending[j].batcher # b BY <2>2, <3>1, EntryFacts
      <3>3. PICK i \in DOMAIN p : p[i] = pending[j] BY <1>4, <3>2
      <3> QED BY <1>3, <3>1, <3>3 DEF Pending
    <2> QED BY <2>1, <2>2
  <1>8. h \notin guards /\ batch[h] = <<>>
    <2>1. h \notin guards
      <3>1. CASE h = c BY <1>2, <3>1
      <3>2. CASE h # c
        <4>1. Pending(h) BY <1>1, <3>2
        <4> QED BY <4>1 DEF Apart
      <3> QED BY <3>1, <3>2
    <2>2. ~Running(h) BY <1>1, <1>6, RunFacts
    <2> QED BY <2>1, <2>2 DEF Running
  <1>9. TypeOK'
    <2>1. ongoing' \in Nat BY <1>3 DEF TypeOK
    <2>2. guards' \subseteq Calls BY <1>1, <1>3 DEF TypeOK
    <2>3. pending' \in Seq([batcher : Batchers, calls : Seq(Calls)]) BY <1>3, <1>4 DEF Entry
    <2> QED BY <1>2, <1>5, <2>1, <2>2, <2>3 DEF TypeOK
  <1>10. Counted'
    <2>1. IsFiniteSet(guards') /\ Cardinality(guards') = Cardinality(guards) + 1
      BY <1>3, <1>8, FS_AddElement DEF Counted
    <2> QED BY <1>3, <2>1 DEF Counted, GuardsCounted, TypeOK
  <1>11. Formed'
    <2>1. \A l \in Calls : \/ batch'[l] = batch[l]
                           \/ IsBatch(batch'[l], BatcherOf[l], pc', arrival') /\ batch'[l][1] = l
      BY <1>1, <1>5, <1>6 DEF h
    <2>2. \A d \in Calls : pc[d] \in Queued => arrival'[d] = arrival[d] /\ pc'[d] \in Queued
      BY <1>2 DEF Queued
    <2>3. OneEach(pending)' BY <1>3, <1>4 DEF OneEach
    <2>4. \A i \in DOMAIN pending' : \E j \in DOMAIN pending : pending'[i] = pending[j]
      BY <1>3, <1>4
    <2> QED BY <2>1, <2>2, <2>3, <2>4, FormedStays
  <1>12. Apart'
    <2>1. \A l, m \in Calls : \A d \in Members(batch'[l]) : d \in Members(batch'[m]) => l = m
      BY <1>5, <1>6 DEF Apart
    <2>2. ASSUME NEW l \in Calls, NEW d \in Members(batch'[l]) PROVE ~Pending(d)'
      <3>1. CASE l = h
        <4>1. d \in Calls /\ BatcherOf[d] = b BY <1>5, <1>6, <3>1
        <4> QED BY <1>7, <4>1
      <3>2. CASE l # h
        <4>1. d \in Members(batch[l]) /\ ~Pending(d) BY <1>5, <3>2 DEF Apart
        <4> QED BY <1>7, <4>1, RunFacts
      <3> QED BY <3>1, <3>2
    <2>3. ASSUME NEW l \in guards' PROVE ~Pending(l)' /\ arrival'[l] # 0
      <3>1. CASE l = h
        <4>1. BatcherOf[l] = b /\ l \in Calls BY <1>1, <1>6, <3>1
        <4>2. CASE l = c BY <1>2, <1>7, <4>1, <4>2
        <4>3. CASE l # c
          <5>1. Pending(l) BY <1>1, <3>1, <4>3
          <5>2. pc[l] # "idle" BY <1>2, <4>1, <5>1, IdleIsOut
          <5>3. arrival[l] # 0 BY <4>1, <5>2 DEF Numbered
          <5> QED BY <1>2, <1>7, <4>1, <4>3, <5>3
        <4> QED BY <4>2, <4>3
      <3>2. CASE l \in guards
        <4>1. l \in Calls /\ ~Pending(l) /\ arrival[l] # 0 /\ l # c BY <1>2, <3>2 DEF Apart, TypeOK
        <4> QED BY <1>2, <1>7, <4>1
      <3> QED BY <1>3, <3>1, <3>2
    <2> QED BY <2>1, <2>2, <2>3 DEF Apart
  <1>13. Led'
    <2>1. ASSUME NEW d \in Calls, pc'[d] = "inline"
          PROVE  d \in guards' /\ ~Pending(d)' /\ batch'[d] = <<d>>
      <3>1. pc[d] = "inline" BY <1>2, <2>1
      <3>2. d \in guards /\ ~Pending(d) /\ batch[d] = <<d>> BY <3>1 DEF Led
      <3> QED BY <1>3, <1>5, <1>7, <1>8, <3>2
    <2>2. ASSUME NEW l \in Calls, batch'[l] # <<>>, l \notin guards'
          PROVE  batch'[l] = <<l>> /\ pc'[l] = "cancelled"
      <3>1. l # h /\ l \notin guards /\ batch'[l] = batch[l] BY <1>3, <1>5, <2>2
      <3>2. batch[l] = <<l>> /\ pc[l] = "cancelled" BY <2>2, <3>1 DEF Led, Running
      <3> QED BY <1>2, <3>1, <3>2
    <2> QED BY <2>1, <2>2 DEF Led, Running
  <1>14. WaitersAreQueued'
    <2>1. ASSUME NEW d \in Calls, pc'[d] = "waiting"
          PROVE  \/ /\ Pending(d)' /\ BatcherOf[d] \notin dropped'
                    /\ \A l \in Calls : d \notin Members(batch'[l])
                 \/ ~Pending(d)' /\ \E l \in guards' : d \in Members(batch'[l])
      <3>1. CASE d \in Members(s)
        <4>1. ~Pending(d)' BY <1>6, <1>7, <3>1
        <4> QED BY <1>3, <1>5, <3>1, <4>1
      <3>2. CASE d \notin Members(s)
        <4>1. d # c /\ pc[d] = "waiting" BY <1>1, <1>2, <2>1, <3>2
        <4>2. Pending(d)' <=> Pending(d) BY <1>1, <1>7, <3>2, <4>1
        <4>3. CASE /\ Pending(d) /\ BatcherOf[d] \notin dropped
                   /\ \A l \in Calls : d \notin Members(batch[l])
          BY <1>2, <1>5, <3>2, <4>2, <4>3
        <4>4. CASE ~Pending(d) /\ \E l \in guards : d \in Members(batch[l])
          <5>1. PICK l \in guards : d \in Members(batch[l]) BY <4>4
          <5>2. l \in guards' /\ l # h /\ l \in Calls BY <1>3, <1>8, <5>1 DEF TypeOK
          <5> QED BY <1>5, <4>2, <4>4, <5>1, <5>2
        <4> QED BY <4>1, <4>3, <4>4, WaitersKnown
      <3> QED BY <3>1, <3>2
    <2> QED BY <1>11, <2>1, WaitersQueued
  <1>15. StartsInOrder'
    <2> SUFFICES ASSUME NEW x \in Calls, NEW y \in Calls, BatcherOf[x] = BatcherOf[y],
                        arrival'[x] # 0, arrival'[x] < arrival'[y], Pending(x)'
                 PROVE  Pending(y)'
      BY DEF StartsInOrder
    <2>1. Pending(x) /\ BatcherOf[x] # b /\ x # c /\ y # c BY <1>7
    <2> QED BY <1>2, <1>7, <2>1 DEF StartsInOrder
  <1> QED BY <1>2, <1>9, <1>10, <1>11, <1>12, <1>13, <1>14, <1>15

LEMMA CallQueuedKeeps ==
  ASSUME BInv, NEW c \in Calls, CallQueued(c)
  PROVE  BInv'
  BY CallQueuedKeepsFull, CallQueuedKeepsJoined

-----------------------------------------------------------------------------
\* What follows the k-th element of a sequence.
After(s, k) == SubSeq(s, k + 1, Len(s))
LEMMA Rest ==
  ASSUME NEW S, NEW s \in Seq(S), NEW k \in 1..Len(s), NEW t, t = After(s, k)
  PROVE  /\ t \in Seq(S) /\ Len(t) = Len(s) - k
         /\ \A i \in 1..(Len(s) - k) : t[i] = s[k + i]
  <1>1. k \in Int /\ Len(s) \in Int /\ k \in 1..Len(s) BY LenProperties
  <1>2. \A i \in (k + 1)..Len(s) : s[i] \in S BY <1>1, ElementOfSeq
  <1>3. /\ t \in Seq(S) /\ Len(t) = IF k + 1 <= Len(s) THEN Len(s) - (k + 1) + 1 ELSE 0
        /\ \A i \in 1..(Len(s) - (k + 1) + 1) : t[i] = s[k + 1 + i - 1]
    BY <1>1, <1>2, SubSeqProperties DEF After
  <1> QED BY <1>1, <1>3

\* The guard of a run goes and another run is left.
LeftRunning(l) ==
  /\ ongoing > 1 /\ ongoing' = ongoing - 1
  /\ pending' = pending /\ batch' = batch /\ guards' = guards \ {l}

\* The guard of the last run goes and nothing can be started.
LeftIdle(l) ==
  /\ ongoing = 1 /\ ongoing' = 0
  /\ pending' = <<>> /\ batch' = batch /\ guards = {l} /\ guards' = {}

\* The guard of the last run goes and the batch of entry k is started by its first call.
LeftStarted(l, k) ==
  /\ ongoing = 1 /\ ongoing' = 1 /\ guards = {l}
  /\ k \in DOMAIN pending /\ pending' = SubSeq(pending, k + 1, Len(pending))
  /\ guards' = {pending[k].calls[1]}
  /\ batch' = [batch EXCEPT ![pending[k].calls[1]] = pending[k].calls]

\* No caller is in the batches that are skipped.
LEMMA KickOffIs ==
  ASSUME BInv, NEW l \in Calls, NEW status \in [Calls -> PCs], KickOff(l, status),
         \A c \in Calls : status[c] = "waiting" => pc[c] = "waiting"
  PROVE  /\ l \in guards /\ pc' = status
         /\ \/ LeftRunning(l)
            \/ LeftIdle(l) /\ \A c \in Calls : Pending(c) => status[c] # "waiting"
            \/ \E k \in DOMAIN pending :
                 /\ LeftStarted(l, k)
                 /\ \A i \in DOMAIN pending : i < k =>
                      \A c \in Members(pending[i].calls) : status[c] # "waiting"
  <1> USE DEF BInv
  <1>1. l \in guards /\ ongoing \in Nat /\ IsFiniteSet(guards) /\ ongoing = Cardinality(guards)
    BY DEF KickOff, TypeOK, Counted, GuardsCounted
  <1>2. ASSUME NEW i \in DOMAIN pending, ~Alive(pending[i].batcher)
        PROVE  \A c \in Members(pending[i].calls) : status[c] # "waiting"
    <2> SUFFICES ASSUME NEW c \in Members(pending[i].calls), status[c] = "waiting" PROVE FALSE
      OBVIOUS
    <2>1. c \in Calls /\ BatcherOf[c] = pending[i].batcher /\ Pending(c) BY EntryFacts
    <2>2. BatcherOf[c] \notin dropped BY <2>1, WaitersKnown
    <2> QED BY <1>2, <2>1, <2>2 DEF Alive
  <1>3. ASSUME NEW i \in Skipped, ongoing = 1 PROVE i \in DOMAIN pending /\ ~Alive(pending[i].batcher)
    <2>1. CASE Startable = {} BY <2>1 DEF Skipped, Startable
    <2>2. CASE Startable # {}
      <3>1. /\ FirstStartable \in DOMAIN pending
            /\ \A j \in DOMAIN pending : j < FirstStartable => ~Alive(pending[j].batcher)
        BY <2>2, FirstStartableIs
      <3>2. i \in 1..(FirstStartable - 1) BY <2>2 DEF Skipped
      <3>3. DOMAIN pending = 1..Len(pending) /\ Len(pending) \in Nat BY LenProperties DEF TypeOK
      <3>4. i \in DOMAIN pending /\ i < FirstStartable BY <3>1, <3>2, <3>3
      <3> QED BY <3>1, <3>4
    <2> QED BY <2>1, <2>2
  <1>4. pc' = status
    <2>1. ASSUME NEW c \in Calls
          PROVE  ~(ongoing = 1 /\ c \in UNION {Members(pending[i].calls) : i \in Skipped}
                   /\ status[c] = "waiting")
      <3> SUFFICES ASSUME ongoing = 1, status[c] = "waiting",
                          NEW i \in Skipped, c \in Members(pending[i].calls)
                   PROVE  FALSE
        OBVIOUS
      <3> QED BY <1>2, <1>3
    <2>2. pc' = [c \in Calls |-> status[c]] BY <2>1 DEF KickOff
    <2> QED BY <2>2
  <1>5. CASE ongoing # 1
    <2>1. ongoing > 1
      <3>1. guards # {} /\ ongoing # 0 BY <1>1, FS_EmptySet
      <3> QED BY <1>1, <1>5, <3>1
    <2> QED BY <1>1, <1>4, <1>5, <2>1 DEF KickOff, LeftRunning
  <1>6. CASE ongoing = 1
    <2>1. guards = {l}
      <3>1. \E x : guards = {x} BY <1>1, <1>6, FS_Singleton
      <3> QED BY <1>1, <3>1
    <2>2. CASE Startable = {}
      <3>1. LeftIdle(l) BY <1>6, <2>1, <2>2 DEF KickOff, LeftIdle
      <3>2. ASSUME NEW c \in Calls, Pending(c) PROVE status[c] # "waiting"
        <4>1. PICK i \in DOMAIN pending : c \in Members(pending[i].calls) BY <3>2 DEF Pending
        <4>2. ~Alive(pending[i].batcher) BY <2>2 DEF Startable
        <4> QED BY <1>2, <4>1, <4>2
      <3> QED BY <1>1, <1>4, <3>1, <3>2
    <2>3. CASE Startable # {}
      <3> DEFINE k == FirstStartable
      <3>1. k \in DOMAIN pending /\ \A j \in DOMAIN pending : j < k => ~Alive(pending[j].batcher)
        BY <2>3, FirstStartableIs
      <3>2. Head(pending[k].calls) = pending[k].calls[1] BY <3>1, EntryFacts
      <3>3. LeftStarted(l, k)
        BY <1>6, <2>1, <2>3, <3>1, <3>2 DEF KickOff, LeftStarted
      <3> HIDE DEF k
      <3>4. \A i \in DOMAIN pending : i < k =>
              \A c \in Members(pending[i].calls) : status[c] # "waiting"
        BY <1>2, <3>1
      <3> QED BY <1>1, <1>4, <3>1, <3>3, <3>4
    <2> QED BY <2>2, <2>3
  <1> QED BY <1>5, <1>6

\* What every case leaves, with `started` the leaders of the runs that are new.
KickedOff(l, status, started) ==
  /\ \A m, n \in started : m = n
  /\ \A m \in started : m \notin guards /\ batch[m] = <<>> /\ Pending(m)
  /\ \A m \in started : \E k \in DOMAIN pending :
       batch'[m] = pending[k].calls /\ batch'[m][1] = m
  /\ \A m \in started : \A d \in Members(batch'[m]) : Pending(d) /\ ~Pending(d)'
  /\ \A m \in Calls \ started : batch'[m] = batch[m]
  /\ batch' \in [Calls -> Seq(Calls)]
  /\ guards' = (guards \ {l}) \cup started
  /\ pending' \in Seq(Entry) /\ OneEach(pending)'
  /\ \A i \in DOMAIN pending' : \E j \in DOMAIN pending : pending'[i] = pending[j]
  /\ \A x, y \in Calls :
       Pending(x)' /\ BatcherOf[x] = BatcherOf[y] /\ Pending(y) => Pending(y)'
  /\ \A d \in Calls : Pending(d) /\ status[d] = "waiting" /\ ~Pending(d)' =>
       \E m \in started : d \in Members(batch'[m])

LEMMA KickOffView ==
  ASSUME BInv, NEW l \in Calls, NEW status \in [Calls -> PCs], KickOff(l, status),
         \A c \in Calls : status[c] = "waiting" => pc[c] = "waiting"
  PROVE  \E started \in SUBSET Calls : KickedOff(l, status, started)
  <1> USE DEF BInv
  <1>0. pending \in Seq(Entry) /\ OneEach(pending) /\ batch \in [Calls -> Seq(Calls)]
    BY PendingOne DEF TypeOK
  <1>1. CASE LeftRunning(l)
    <2>1. pending' = pending /\ batch' = batch /\ guards' = (guards \ {l}) \cup {}
      BY <1>1 DEF LeftRunning
    <2>2. \A d : Pending(d)' <=> Pending(d) BY <2>1 DEF Pending
    <2>3. OneEach(pending)' BY <1>0, <2>1 DEF OneEach
    <2> WITNESS {} \in SUBSET Calls
    <2> QED BY <1>0, <2>1, <2>2, <2>3 DEF KickedOff
  <1>2. CASE LeftIdle(l) /\ \A c \in Calls : Pending(c) => status[c] # "waiting"
    <2>1. pending' = <<>> /\ batch' = batch /\ guards' = (guards \ {l}) \cup {}
      BY <1>2 DEF LeftIdle
    <2>2. \A d : ~Pending(d)' BY <2>1 DEF Pending
    <2>3. OneEach(pending)' /\ pending' \in Seq(Entry) /\ DOMAIN pending' = {}
      BY <2>1 DEF OneEach
    <2> WITNESS {} \in SUBSET Calls
    <2> QED BY <1>0, <1>2, <2>1, <2>2, <2>3 DEF KickedOff
  <1>3. CASE \E k \in DOMAIN pending :
               /\ LeftStarted(l, k)
               /\ \A i \in DOMAIN pending : i < k =>
                    \A c \in Members(pending[i].calls) : status[c] # "waiting"
    <2>1. PICK k \in DOMAIN pending :
               /\ LeftStarted(l, k)
               /\ \A i \in DOMAIN pending : i < k =>
                    \A c \in Members(pending[i].calls) : status[c] # "waiting"
      BY <1>3
    <2> DEFINE s == pending[k].calls
               h == s[1]
    <2>2. /\ pending' = After(pending, k)
          /\ guards = {l} /\ guards' = {h} /\ batch' = [batch EXCEPT ![h] = s]
      BY <2>1 DEF LeftStarted, After
    <2>3. /\ s \in Seq(Calls) /\ h \in Members(s) /\ h \in Calls /\ k \in Nat /\ k \in 1..Len(pending)
          /\ \A c \in Members(s) : c \in Calls /\ Pending(c) /\ BatcherOf[c] = pending[k].batcher
      BY EntryFacts
    <2>4. /\ pending' \in Seq(Entry) /\ Len(pending') = Len(pending) - k
          /\ \A i \in 1..(Len(pending) - k) : pending'[i] = pending[k + i]
      <3>1. pending \in Seq(Entry) BY <1>0
      <3>2. k \in 1..Len(pending) BY <2>3
      <3>3. \A t : t = After(pending, k) =>
              /\ t \in Seq(Entry) /\ Len(t) = Len(pending) - k
              /\ \A i \in 1..(Len(pending) - k) : t[i] = pending[k + i]
        BY <3>1, <3>2, Rest
      <3> QED BY <2>2, <3>3
    <2> HIDE DEF s, h
    <2>5. Len(pending) \in Nat /\ DOMAIN pending = 1..Len(pending)
          /\ DOMAIN pending' = 1..(Len(pending) - k)
      BY <1>0, <2>4, LenProperties
    <2>6. \A i \in DOMAIN pending' : k + i \in DOMAIN pending /\ k + i # k /\ pending'[i] = pending[k + i]
      BY <2>3, <2>4, <2>5
    <2>7. OneEach(pending)'
      <3> SUFFICES ASSUME NEW i \in DOMAIN pending', NEW j \in DOMAIN pending',
                          pending'[i].batcher = pending'[j].batcher
                   PROVE  i = j
        BY DEF OneEach
      <3>1. k + i = k + j BY <1>0, <2>6 DEF OneEach
      <3> QED BY <2>3, <2>5, <3>1
    <2>8. \A d \in Calls : Pending(d)' => /\ Pending(d) /\ BatcherOf[d] # pending[k].batcher
                                          /\ \E j \in DOMAIN pending' : pending'[j].batcher = BatcherOf[d]
      <3> SUFFICES ASSUME NEW d \in Calls, Pending(d)'
                   PROVE  /\ Pending(d) /\ BatcherOf[d] # pending[k].batcher
                          /\ \E j \in DOMAIN pending' : pending'[j].batcher = BatcherOf[d]
        OBVIOUS
      <3>1. PICK i \in DOMAIN pending' : d \in Members(pending'[i].calls) BY DEF Pending
      <3>2. k + i \in DOMAIN pending /\ k + i # k /\ pending'[i] = pending[k + i] BY <2>6
      <3>3. Pending(d) /\ BatcherOf[d] = pending[k + i].batcher BY <3>1, <3>2, EntryFacts
      <3>4. pending[k + i].batcher # pending[k].batcher BY <1>0, <3>2 DEF OneEach
      <3> QED BY <3>2, <3>3, <3>4
    <2>9. \A m \in Members(s) : m \in Calls /\ Pending(m) /\ ~Pending(m)' BY <2>3, <2>8
    <2>10. ASSUME NEW x \in Calls, NEW y \in Calls,
                  Pending(x)', BatcherOf[x] = BatcherOf[y], Pending(y)
           PROVE  Pending(y)'
      <3>1. PICK j \in DOMAIN pending' : pending'[j].batcher = BatcherOf[y] BY <2>8, <2>10
      <3>2. k + j \in DOMAIN pending /\ pending[k + j] = pending'[j] BY <2>6
      <3>3. y \in Members(pending[k + j].calls) BY <2>10, <3>1, <3>2, PendingOne
      <3> QED BY <3>2, <3>3 DEF Pending
    <2>11. ASSUME NEW d \in Calls, Pending(d), status[d] = "waiting", ~Pending(d)'
           PROVE  d \in Members(s)
      <3>1. PICK i \in DOMAIN pending : d \in Members(pending[i].calls) BY <2>11 DEF Pending
      <3>2. ~(i < k) BY <2>1, <2>11, <3>1
      <3>3. CASE i > k
        <4>1. i - k \in DOMAIN pending' /\ k + (i - k) = i BY <2>3, <2>5, <3>3
        <4>2. pending'[i - k] = pending[i] BY <2>6, <4>1
        <4>3. Pending(d)' BY <3>1, <4>1, <4>2 DEF Pending
        <4> QED BY <2>11, <4>3
      <3>4. CASE i = k BY <3>1, <3>4 DEF s
      <3>5. i \in Int /\ k \in Int BY <2>3, <2>5
      <3> QED BY <3>2, <3>3, <3>4, <3>5
    <2>12. h \notin guards /\ batch[h] = <<>>
      <3>1. h \notin guards BY <2>3 DEF Apart
      <3>2. ~Running(h)
        <4>1. SUFFICES ASSUME Running(h) PROVE FALSE OBVIOUS
        <4>2. h \in Members(batch[h]) BY <2>3, <4>1, RunFacts
        <4> QED BY <2>3, <4>2 DEF Apart
      <3> QED BY <3>1, <3>2 DEF Running
    <2>13. batch'[h] = s /\ batch' \in [Calls -> Seq(Calls)]
           /\ \A m \in Calls : m # h => batch'[m] = batch[m]
      BY <1>0, <2>2, <2>3
    <2>14. guards' = (guards \ {l}) \cup {h} BY <2>2
    <2>15. Pending(h) /\ s[1] = h /\ h \in Calls BY <2>3 DEF h
    <2>16. /\ pending' \in Seq(Entry)
           /\ \A i \in DOMAIN pending' : \E j \in DOMAIN pending : pending'[i] = pending[j]
      BY <2>4, <2>6
    <2>17. {h} \in SUBSET Calls BY <2>15
    <2>18. batch'[h] = pending[k].calls BY <2>13 DEF s
    <2> WITNESS {h} \in SUBSET Calls
    <2> QED BY <2>7, <2>9, <2>10, <2>11, <2>12, <2>13, <2>14, <2>15, <2>16, <2>18
         DEF KickedOff
  <1> QED BY <1>1, <1>2, <1>3, KickOffIs

\* A guard that goes keeps the invariant, when its run is over or its caller left it.
LEMMA KickOffKeeps ==
  ASSUME BInv, NEW l \in Calls, NEW status \in [Calls -> PCs], KickOff(l, status),
         \A c \in Calls : status[c] = pc[c] \/ (status[c] = "cancelled" /\ HasCaller(c)),
         batch[l] = <<>> \/ (batch[l] = <<l>> /\ status[l] = "cancelled"),
         UNCHANGED <<dropped, arrival>>
  PROVE  BInv'
  <1> USE DEF BInv
  <1>0. \A c \in Calls : status[c] = "waiting" => pc[c] = "waiting" OBVIOUS
  <1>a. PICK started \in SUBSET Calls : KickedOff(l, status, started)
    BY <1>0, KickOffView
  <1>1. /\ \A m, n \in started : m = n
        /\ \A m \in started : m \notin guards /\ batch[m] = <<>> /\ Pending(m)
        /\ \A m \in started : \E k \in DOMAIN pending :
             batch'[m] = pending[k].calls /\ batch'[m][1] = m
        /\ \A m \in started : \A d \in Members(batch'[m]) : Pending(d) /\ ~Pending(d)'
        /\ \A m \in Calls \ started : batch'[m] = batch[m]
        /\ batch' \in [Calls -> Seq(Calls)]
        /\ guards' = (guards \ {l}) \cup started
        /\ pending' \in Seq(Entry) /\ OneEach(pending)'
        /\ \A i \in DOMAIN pending' : \E j \in DOMAIN pending : pending'[i] = pending[j]
        /\ \A x, y \in Calls :
             Pending(x)' /\ BatcherOf[x] = BatcherOf[y] /\ Pending(y) => Pending(y)'
        /\ \A d \in Calls : Pending(d) /\ status[d] = "waiting" /\ ~Pending(d)' =>
             \E m \in started : d \in Members(batch'[m])
    BY <1>a DEF KickedOff
  <1>2. l \in guards /\ pc' = status BY <1>0, KickOffIs
  <1>3. \A d : Pending(d)' => Pending(d) BY <1>1 DEF Pending
  <1>4. \A c \in Calls : /\ pc'[c] = pc[c] \/ (pc'[c] = "cancelled" /\ pc[c] \in {"inline", "waiting"})
                         /\ arrival'[c] = arrival[c]
    BY <1>2 DEF HasCaller
  <1>5. TypeOK'
    <2>1. ongoing' \in Nat
      <3>1. CASE LeftRunning(l) BY <3>1 DEF LeftRunning, TypeOK
      <3>2. CASE LeftIdle(l) BY <3>2 DEF LeftIdle
      <3>3. CASE \E k \in DOMAIN pending : LeftStarted(l, k) BY <3>3 DEF LeftStarted
      <3> QED BY <1>0, <3>1, <3>2, <3>3, KickOffIs
    <2>2. guards' \subseteq Calls BY <1>1 DEF TypeOK
    <2>3. pending' \in Seq([batcher : Batchers, calls : Seq(Calls)]) BY <1>1 DEF Entry
    <2> QED BY <1>1, <1>2, <2>1, <2>2, <2>3 DEF TypeOK
  <1>6. Numbered'
    <2>1. Arrived' = Arrived BY DEF Arrived
    <2>2. ASSUME NEW c \in Calls PROVE (arrival'[c] = 0) <=> (pc'[c] = "idle")
      <3>1. (arrival[c] = 0) <=> (pc[c] = "idle") BY DEF Numbered
      <3> QED BY <1>4, <3>1
    <2> QED BY <1>4, <2>1, <2>2 DEF Numbered
  <1>7. Counted'
    <2>1. CASE LeftRunning(l)
      <3>1. Cardinality(guards') = Cardinality(guards) - 1 /\ IsFiniteSet(guards')
        BY <1>2, <2>1, FS_RemoveElement DEF Counted, LeftRunning
      <3> QED BY <2>1, <3>1 DEF Counted, GuardsCounted, LeftRunning, TypeOK
    <2>2. CASE LeftIdle(l) BY <2>2, FS_EmptySet DEF LeftIdle, Counted, GuardsCounted
    <2>3. CASE \E k \in DOMAIN pending : LeftStarted(l, k)
      <3>1. PICK x : guards' = {x} /\ ongoing' = 1 BY <2>3 DEF LeftStarted
      <3>2. IsFiniteSet(guards') /\ Cardinality(guards') = 1 BY <3>1, FS_Singleton
      <3> QED BY <3>1, <3>2 DEF Counted, GuardsCounted
    <2> QED BY <1>0, <2>1, <2>2, <2>3, KickOffIs
  <1>8. Formed'
    <2>1. \A d \in Calls : pc[d] \in Queued => arrival'[d] = arrival[d] /\ pc'[d] \in Queued
      BY <1>4 DEF Queued
    <2>2. \A m \in Calls :
            \/ batch'[m] = batch[m]
            \/ \E j \in DOMAIN pending : batch'[m] = pending[j].calls /\ batch'[m][1] = m
      BY <1>1
    <2> QED BY <1>1, <2>1, <2>2, FormedStays
  <1>9. Apart'
    <2>1. \A m \in Calls : m \in started \/ batch'[m] = batch[m] BY <1>1
    <2>2. ASSUME NEW m \in Calls, NEW n \in Calls, NEW d \in Members(batch'[m]), d \in Members(batch'[n])
          PROVE  m = n
      <3>1. CASE m \in started /\ n \in started BY <1>1, <3>1
      <3>2. CASE m \in started /\ batch'[n] = batch[n] BY <1>1, <2>2, <3>2 DEF Apart
      <3>3. CASE batch'[m] = batch[m] /\ n \in started BY <1>1, <2>2, <3>3 DEF Apart
      <3>4. CASE batch'[m] = batch[m] /\ batch'[n] = batch[n] BY <2>2, <3>4 DEF Apart
      <3> QED BY <2>1, <3>1, <3>2, <3>3, <3>4
    <2>3. ASSUME NEW m \in Calls, NEW d \in Members(batch'[m]) PROVE ~Pending(d)'
      <3>1. CASE m \in started BY <1>1, <3>1
      <3>2. CASE batch'[m] = batch[m] BY <1>3, <3>2 DEF Apart
      <3> QED BY <2>1, <3>1, <3>2
    <2>4. ASSUME NEW m \in guards' PROVE ~Pending(m)' /\ arrival'[m] # 0
      <3>1. CASE m \in started
        <4>1. \E k \in DOMAIN pending : batch'[m] = pending[k].calls /\ batch'[m][1] = m BY <1>1, <3>1
        <4>2. m \in Members(batch'[m]) BY <4>1, EntryFacts
        <4>3. ~Pending(m)' /\ m \in Calls /\ Pending(m) BY <1>1, <3>1, <4>2
        <4>4. pc[m] # "idle" BY <4>3, IdleIsOut
        <4> QED BY <1>4, <4>3, <4>4 DEF Numbered
      <3>2. CASE m \in guards BY <1>3, <1>4, <3>2 DEF Apart, TypeOK
      <3> QED BY <1>1, <3>1, <3>2
    <2> QED BY <2>2, <2>3, <2>4 DEF Apart
  <1>10. Led'
    <2>1. ASSUME NEW d \in Calls, pc'[d] = "inline"
          PROVE  d \in guards' /\ ~Pending(d)' /\ batch'[d] = <<d>>
      <3>1. pc[d] = "inline" BY <1>4, <2>1
      <3>2. d \in guards /\ ~Pending(d) /\ batch[d] = <<d>> BY <3>1 DEF Led
      <3>3. d # l BY <1>2, <2>1, <3>2
      <3>4. d \notin started BY <1>1, <3>2
      <3> QED BY <1>1, <1>3, <3>2, <3>3, <3>4
    <2>2. ASSUME NEW m \in Calls, batch'[m] # <<>>, m \notin guards'
          PROVE  batch'[m] = <<m>> /\ pc'[m] = "cancelled"
      <3>1. m \notin started /\ batch'[m] = batch[m] BY <1>1, <2>2
      <3>2. CASE m = l BY <1>2, <2>2, <3>1, <3>2
      <3>3. CASE m # l
        <4>1. m \notin guards BY <1>1, <2>2, <3>3
        <4>2. batch[m] = <<m>> /\ pc[m] = "cancelled" BY <2>2, <3>1, <4>1 DEF Led, Running
        <4> QED BY <1>4, <3>1, <4>2
      <3> QED BY <3>2, <3>3
    <2> QED BY <2>1, <2>2 DEF Led, Running
  <1>11. WaitersAreQueued'
    <2>1. ASSUME NEW d \in Calls, pc'[d] = "waiting"
          PROVE  \/ /\ Pending(d)' /\ BatcherOf[d] \notin dropped'
                    /\ \A m \in Calls : d \notin Members(batch'[m])
                 \/ ~Pending(d)' /\ \E m \in guards' : d \in Members(batch'[m])
      <3>1. pc[d] = "waiting" /\ status[d] = "waiting" BY <1>2, <1>4, <2>1
      <3>2. CASE Pending(d)'
        <4>1. Pending(d) BY <1>3, <3>2
        <4>2. BatcherOf[d] \notin dropped BY <3>1, <4>1, WaitersKnown
        <4>3. \A m \in Calls : d \notin Members(batch'[m])
          <5>1. \A m \in Calls : \A x \in Members(batch'[m]) : ~Pending(x)' BY <1>9 DEF Apart
          <5> QED BY <3>2, <5>1
        <4> QED BY <3>2, <4>2, <4>3
      <3>3. CASE ~Pending(d)' /\ Pending(d)
        <4>1. PICK m \in started : d \in Members(batch'[m]) BY <1>1, <3>1, <3>3
        <4>2. m \in guards' BY <1>1, <4>1
        <4> QED BY <3>3, <4>1, <4>2
      <3>4. CASE ~Pending(d)
        <4>1. PICK m \in guards : d \in Members(batch[m]) BY <3>1, <3>4, WaitersKnown
        <4>2. m # l
          <5>1. SUFFICES ASSUME m = l PROVE FALSE OBVIOUS
          <5>2. batch[l] = <<l>> /\ status[l] = "cancelled" BY <4>1, <5>1 DEF Members
          <5>3. d = l BY <4>1, <5>1, <5>2 DEF Members
          <5> QED BY <3>1, <5>2, <5>3
        <4>3. m \notin started /\ m \in Calls BY <1>1, <4>1 DEF TypeOK
        <4>4. m \in guards' /\ batch'[m] = batch[m] BY <1>1, <4>1, <4>2, <4>3
        <4> QED BY <1>3, <3>4, <4>1, <4>4
      <3> QED BY <3>2, <3>3, <3>4
    <2> QED BY <1>8, <2>1, WaitersQueued
  <1>12. StartsInOrder'
    <2> SUFFICES ASSUME NEW x \in Calls, NEW y \in Calls, BatcherOf[x] = BatcherOf[y],
                        arrival'[x] # 0, arrival'[x] < arrival'[y], Pending(x)'
                 PROVE  Pending(y)'
      BY DEF StartsInOrder
    <2>1. Pending(x) BY <1>3
    <2>2. Pending(y) BY <1>4, <2>1 DEF StartsInOrder
    <2> QED BY <1>1, <2>2
  <1> QED BY <1>5, <1>6, <1>7, <1>8, <1>9, <1>10, <1>11, <1>12

LEMMA ReleaseKeeps ==
  ASSUME BInv, NEW l \in Calls, Release(l)
  PROVE  BInv'
  <1>1. pc \in [Calls -> PCs] /\ batch[l] = <<>> BY DEF BInv, TypeOK, Release, Running
  <1> QED BY <1>1, KickOffKeeps DEF Release

\* A step that starts nothing and leaves the queue and its guards alone.
LEMMA QuietKeeps ==
  ASSUME BInv, UNCHANGED <<ongoing, pending, guards, arrival>>,
         pc' \in [Calls -> PCs], batch' \in [Calls -> Seq(Calls)], dropped' \subseteq Batchers,
         \A m \in Calls : batch'[m] = batch[m] \/ batch'[m] = <<>>,
         \A c \in Calls : pc[c] = "idle" <=> pc'[c] = "idle",
         \A c \in Calls : pc[c] = "cancelled" => pc'[c] = "cancelled",
         \A c \in Calls : pc'[c] = "inline" => pc[c] = "inline" /\ batch'[c] = batch[c],
         \A c \in Calls : pc'[c] = "waiting" =>
           /\ pc[c] = "waiting" /\ (BatcherOf[c] \in dropped' => BatcherOf[c] \in dropped)
           /\ \A m \in Calls : c \in Members(batch[m]) => batch'[m] = batch[m],
         \A c \in Calls : pc[c] \in Queued =>
           \/ pc'[c] \in Queued
           \/ ~Pending(c) /\ \A m \in Calls : c \notin Members(batch'[m])
  PROVE  BInv'
  <1> USE DEF BInv
  <1>0. \A c : Pending(c)' <=> Pending(c) BY DEF Pending
  <1>00. Members(<<>>) = {} BY DEF Members
  <1>1. TypeOK' BY DEF TypeOK
  <1>2. Numbered'
    <2>1. Arrived' = Arrived BY DEF Arrived
    <2>2. ASSUME NEW c \in Calls PROVE (arrival'[c] = 0) <=> (pc'[c] = "idle")
      <3>1. (arrival[c] = 0) <=> (pc[c] = "idle") BY DEF Numbered
      <3> QED BY <3>1
    <2> QED BY <2>1, <2>2 DEF Numbered
  <1>3. Counted' BY DEF Counted, GuardsCounted
  <1>4. Formed'
    <2>1. OneEach(pending)' BY PendingOne DEF OneEach
    <2>2. \A d \in Calls : pc[d] \in Queued =>
            /\ arrival'[d] = arrival[d]
            /\ \/ pc'[d] \in Queued
               \/ ~Pending(d)' /\ \A l \in Calls : d \notin Members(batch'[l])
      BY <1>0
    <2> QED BY <2>1, <2>2, FormedStays
  <1>5. Apart' 
    <2>1. \A m \in Calls : \A c \in Members(batch'[m]) : batch'[m] = batch[m] BY <1>00
    <2>2. \A l, m \in Calls : \A c \in Members(batch'[l]) : c \in Members(batch'[m]) => l = m
      BY <2>1 DEF Apart
    <2>3. \A l \in Calls : \A c \in Members(batch'[l]) : ~Pending(c)' BY <1>0, <2>1 DEF Apart
    <2>4. \A l \in guards' : ~Pending(l)' /\ arrival'[l] # 0 BY <1>0 DEF Apart
    <2> QED BY <2>2, <2>3, <2>4 DEF Apart
  <1>6. Led'
    <2>1. ASSUME NEW c \in Calls, pc'[c] = "inline"
          PROVE  c \in guards' /\ ~Pending(c)' /\ batch'[c] = <<c>>
      BY <1>0, <2>1 DEF Led
    <2>2. ASSUME NEW l \in Calls, batch'[l] # <<>>, l \notin guards'
          PROVE  batch'[l] = <<l>> /\ pc'[l] = "cancelled"
      BY <2>2 DEF Led, Running
    <2> QED BY <2>1, <2>2 DEF Led, Running
  <1>7. WaitersAreQueued'
    <2>1. ASSUME NEW d \in Calls, pc'[d] = "waiting"
          PROVE  \/ /\ Pending(d)' /\ BatcherOf[d] \notin dropped'
                    /\ \A m \in Calls : d \notin Members(batch'[m])
                 \/ ~Pending(d)' /\ \E m \in guards' : d \in Members(batch'[m])
      <3>1. pc[d] = "waiting" /\ (BatcherOf[d] \in dropped' => BatcherOf[d] \in dropped)
            /\ \A m \in Calls : d \in Members(batch[m]) => batch'[m] = batch[m]
        BY <2>1
      <3>2. CASE /\ Pending(d) /\ BatcherOf[d] \notin dropped
                 /\ \A m \in Calls : d \notin Members(batch[m])
        BY <1>0, <1>00, <3>1, <3>2
      <3>3. CASE ~Pending(d) /\ \E m \in guards : d \in Members(batch[m])
        <4>1. PICK m \in guards : d \in Members(batch[m]) BY <3>3
        <4>2. m \in Calls BY DEF TypeOK
        <4> QED BY <1>0, <3>1, <3>3, <4>1, <4>2
      <3> QED BY <3>1, <3>2, <3>3, WaitersKnown
    <2> QED BY <1>4, <2>1, WaitersQueued
  <1>8. StartsInOrder' BY <1>0 DEF StartsInOrder
  <1> QED BY <1>1, <1>2, <1>3, <1>4, <1>5, <1>6, <1>7, <1>8

LEMMA CancelKeeps ==
  ASSUME BInv, NEW c \in Calls, Cancel(c)
  PROVE  BInv'
  <1> DEFINE status == [pc EXCEPT ![c] = "cancelled"]
  <1>1. /\ status \in [Calls -> PCs] /\ status[c] = "cancelled"
        /\ \A d \in Calls : d # c => status[d] = pc[d]
    BY DEF BInv, TypeOK, PCs
  <1>2. HasCaller(c) /\ UNCHANGED <<dropped, arrival>> BY DEF Cancel
  <1>3. \A d \in Calls : status[d] = pc[d] \/ (status[d] = "cancelled" /\ HasCaller(d))
    BY <1>1, <1>2
  <1>4. CASE pc[c] = "inline"
    <2>1. batch[c] = <<c>> BY <1>4 DEF BInv, Led
    <2>2. KickOff(c, status) BY <1>4 DEF Cancel
    <2> HIDE DEF status
    <2> QED BY <1>1, <1>2, <1>3, <2>1, <2>2, KickOffKeeps
  <1>5. CASE pc[c] # "inline"
    <2>1. pc' = status /\ UNCHANGED queue BY <1>5 DEF Cancel
    <2> HIDE DEF status
    <2> QED BY <1>1, <1>2, <1>3, <2>1, QuietKeeps DEF HasCaller, queue, Queued, BInv, TypeOK
  <1> QED BY <1>4, <1>5

LEMMA AnswerKeeps ==
  ASSUME BInv, NEW l \in Calls, NEW res \in {"ok", "err"}, Answer(l, res)
  PROVE  BInv'
  <1>1. /\ Running(l) /\ UNCHANGED <<ongoing, pending, guards, dropped, arrival>>
        /\ pc' = [c \in Calls |-> IF c \in Members(batch[l]) /\ HasCaller(c) THEN res ELSE pc[c]]
        /\ batch' = [batch EXCEPT ![l] = <<>>]
    BY DEF Answer
  <1>2. batch'[l] = <<>> /\ (\A m \in Calls : m # l => batch'[m] = batch[m])
        /\ batch' \in [Calls -> Seq(Calls)]
    BY <1>1 DEF BInv, TypeOK
  <1>3. pc' \in [Calls -> PCs] BY <1>1 DEF BInv, TypeOK, PCs
  <1>4. \A c \in Calls : pc'[c] = IF c \in Members(batch[l]) /\ HasCaller(c) THEN res ELSE pc[c]
    BY <1>1
  <1>5. \A c \in Members(batch[l]) :
          c \in Calls /\ pc[c] \in Queued /\ ~Pending(c)
          /\ \A m \in Calls : c \notin Members(batch'[m])
    <2>1. \A c \in Members(batch[l]) : c \in Calls /\ pc[c] \in Queued /\ ~Pending(c)
      BY RunFacts DEF BInv, Apart
    <2>2. Members(<<>>) = {} BY DEF Members
    <2> QED BY <1>2, <2>1, <2>2 DEF BInv, Apart
  <1>6. \A c \in Calls : pc'[c] = "inline" => pc[c] = "inline" /\ batch'[c] = batch[c]
    <2> SUFFICES ASSUME NEW c \in Calls, pc'[c] = "inline"
                 PROVE  pc[c] = "inline" /\ batch'[c] = batch[c]
      OBVIOUS
    <2>1. pc[c] = "inline" /\ ~(c \in Members(batch[l])) BY <1>4 DEF HasCaller
    <2>2. c # l BY <1>1, <2>1, RunFacts DEF BInv
    <2> QED BY <1>2, <2>1, <2>2
  <1>7. \A c \in Calls : pc'[c] = "waiting" =>
          /\ pc[c] = "waiting" /\ (BatcherOf[c] \in dropped' => BatcherOf[c] \in dropped)
          /\ \A m \in Calls : c \in Members(batch[m]) => batch'[m] = batch[m]
    BY <1>1, <1>2, <1>4 DEF HasCaller
  <1>8. \A c \in Calls : pc[c] = "cancelled" => pc'[c] = "cancelled" BY <1>4 DEF HasCaller
  <1>9. \A c \in Calls : pc[c] = "idle" <=> pc'[c] = "idle" BY <1>4, <1>5 DEF HasCaller
  <1>10. \A c \in Calls : pc[c] \in Queued =>
           \/ pc'[c] \in Queued
           \/ ~Pending(c) /\ \A m \in Calls : c \notin Members(batch'[m])
    BY <1>4, <1>5
  <1>11. dropped' \subseteq Batchers BY <1>1 DEF BInv, TypeOK
  <1>12. \A m \in Calls : batch'[m] = batch[m] \/ batch'[m] = <<>> BY <1>2
  <1> QED BY <1>1, <1>2, <1>3, <1>6, <1>7, <1>8, <1>9, <1>10, <1>11, <1>12, QuietKeeps

LEMMA AbandonKeeps ==
  ASSUME BInv, NEW l \in Calls, Abandon(l)
  PROVE  BInv'
  <1>1. /\ Running(l) /\ UNCHANGED <<ongoing, pending, guards, pc, dropped, arrival>>
        /\ batch' = [batch EXCEPT ![l] = <<>>]
        /\ \A c \in Members(batch[l]) : pc[c] = "cancelled"
    BY DEF Abandon
  <1>2. batch'[l] = <<>> /\ (\A m \in Calls : m # l => batch'[m] = batch[m])
        /\ batch' \in [Calls -> Seq(Calls)]
    BY <1>1 DEF BInv, TypeOK
  <1>3. pc[l] = "cancelled" BY <1>1, RunFacts DEF BInv
  <1>4. \A c \in Calls : pc'[c] = "inline" => pc[c] = "inline" /\ batch'[c] = batch[c]
    BY <1>1, <1>2, <1>3
  <1>5. \A c \in Calls : pc'[c] = "waiting" =>
          /\ pc[c] = "waiting" /\ (BatcherOf[c] \in dropped' => BatcherOf[c] \in dropped)
          /\ \A m \in Calls : c \in Members(batch[m]) => batch'[m] = batch[m]
    BY <1>1, <1>2
  <1>6. dropped' \subseteq Batchers /\ pc' \in [Calls -> PCs] BY <1>1 DEF BInv, TypeOK
  <1>7. \A m \in Calls : batch'[m] = batch[m] \/ batch'[m] = <<>> BY <1>2
  <1> QED BY <1>1, <1>2, <1>4, <1>5, <1>6, <1>7, QuietKeeps

LEMMA DropBatcherKeeps ==
  ASSUME BInv, NEW b \in Batchers, DropBatcher(b)
  PROVE  BInv'
  <1>1. UNCHANGED <<ongoing, pending, batch, guards, pc, arrival>> /\ dropped' = dropped \cup {b}
    BY DEF DropBatcher, queue
  <1>2. \A c \in Calls : pc'[c] = "waiting" =>
          /\ pc[c] = "waiting" /\ (BatcherOf[c] \in dropped' => BatcherOf[c] \in dropped)
          /\ \A m \in Calls : c \in Members(batch[m]) => batch'[m] = batch[m]
    BY <1>1 DEF DropBatcher, HasCaller
  <1>3. /\ pc' \in [Calls -> PCs] /\ batch' \in [Calls -> Seq(Calls)] /\ dropped' \subseteq Batchers
    BY <1>1 DEF BInv, TypeOK
  <1> QED BY <1>1, <1>2, <1>3, QuietKeeps

LEMMA BatcherIdles ==
  ASSUME BInv, UNCHANGED vars
  PROVE  BInv'
  <1>1. UNCHANGED <<ongoing, pending, batch, guards, pc, dropped, arrival>> BY DEF vars, queue
  <1>2. /\ pc' \in [Calls -> PCs] /\ batch' \in [Calls -> Seq(Calls)] /\ dropped' \subseteq Batchers
    BY <1>1 DEF BInv, TypeOK
  <1> QED BY <1>1, <1>2, QuietKeeps

LEMMA BatcherStarts == Init => BInv
  <1> SUFFICES ASSUME Init PROVE BInv OBVIOUS
  <1>0. BatcherOf \in [Calls -> Batchers] BY BatcherConstants
  <1> USE DEF Init
  <1>1. TypeOK BY DEF TypeOK, PCs
  <1>2. Arrived = {} BY DEF Arrived
  <1>3. \A c : ~Pending(c) BY DEF Pending
  <1>4. \A l \in Calls : batch[l] = <<>> /\ Members(batch[l]) = {} BY DEF Members
  <1>5. Numbered BY <1>2, FS_EmptySet DEF Numbered
  <1>6. Counted BY FS_EmptySet DEF Counted, GuardsCounted
  <1>7. Formed BY <1>4 DEF Formed, Running
  <1>8. Apart BY <1>4 DEF Apart
  <1>9. Led BY <1>4 DEF Led, Running
  <1>10. WaitersAreQueued /\ StartsInOrder BY <1>3 DEF WaitersAreQueued, StartsInOrder
  <1> QED BY <1>1, <1>5, <1>6, <1>7, <1>8, <1>9, <1>10 DEF BInv

\* The queue with its calls: each is in one place, numbered as it came, and led.
THEOREM BatcherInvariant == Spec => []BInv
  <1>1. ASSUME BInv, [Next]_vars PROVE BInv'
    <2>1. ASSUME NEW c \in Calls, CallInline(c) PROVE BInv' BY <1>1, <2>1, CallInlineKeeps
    <2>2. ASSUME NEW c \in Calls, CallQueued(c) PROVE BInv' BY <1>1, <2>2, CallQueuedKeeps
    <2>3. ASSUME NEW c \in Calls, Finish(c) PROVE BInv' BY <1>1, <2>3, AnswerKeeps DEF Finish
    <2>4. ASSUME NEW c \in Calls, Release(c) PROVE BInv' BY <1>1, <2>4, ReleaseKeeps
    <2>5. ASSUME NEW c \in Calls, Cancel(c) PROVE BInv' BY <1>1, <2>5, CancelKeeps
    <2>6. ASSUME NEW c \in Calls, Abandon(c) PROVE BInv' BY <1>1, <2>6, AbandonKeeps
    <2>7. ASSUME NEW b \in Batchers, DropBatcher(b) PROVE BInv' BY <1>1, <2>7, DropBatcherKeeps
    <2>8. CASE UNCHANGED vars BY <1>1, <2>8, BatcherIdles
    <2> QED BY <1>1, <2>1, <2>2, <2>3, <2>4, <2>5, <2>6, <2>7, <2>8 DEF Next
  <1> QED BY <1>1, BatcherStarts, PTL DEF Spec

\* The queue's state keeps its types, whatever calls come and go.
THEOREM BatcherTypeCorrect == Spec => []TypeOK
  BY BatcherInvariant, PTL DEF BInv

\* No wakeup and no caller is lost, on whatever way a run ends: the counter of runs is
\* that of the guards that will count it down, and a caller is in exactly one batch.
THEOREM NothingIsLost == Spec => []QueueAccounted
  <1>1. BInv => QueueAccounted BY DEF BInv, Counted, QueueAccounted
  <1> QED BY <1>1, BatcherInvariant, PTL

\* The calls of one batcher start in the order they came, whatever is flushed early,
\* cancelled or dropped on the way.
THEOREM StartOrder == Spec => []StartsInOrder
  BY BatcherInvariant, PTL DEF BInv

-----------------------------------------------------------------------------
Logged(c) == \E i \in DOMAIN log : log[i] = c

\* Calls in the log are done with, and who was answered asked before all who still wait.
LogTells ==
  /\ \A c \in Calls : Logged(c) => /\ pc[c] \in {"ok", "cancelled"} /\ ~Pending(c)
                                   /\ \A l \in Calls : c \notin Members(batch[l])
  /\ \A c, d \in Calls : Logged(c) /\ pc[c] = "ok" /\ HasCaller(d) => arrival[c] < arrival[d]

\* The invariant of the storage.
SInv == StorageTypeOK /\ BInv /\ dropped = {} /\ TransactionsAccounted /\ LogTells /\ CommitsInOrder
-----------------------------------------------------------------------------
LEMMA OneBatcher ==
  /\ \A c, d \in Calls : BatcherOf[c] = BatcherOf[d]
  /\ \A b \in Batchers : MaxSize[b] = 0
  /\ NoWriter \notin Calls /\ InitialMap \in Nat \ {0} /\ MaxFaults \in Nat
  BY StorageAssumption

\* What the log says stays true while it stays as it is: the calls in it are done with,
\* nobody in it is queued again, and who asks is behind everyone.
LEMMA LogStays ==
  ASSUME LogTells, CommitsInOrder, log \in Seq(Calls), log' = log,
         \A c \in Calls : Logged(c) => pc'[c] \in {pc[c], "cancelled"} /\ arrival'[c] = arrival[c],
         \A c \in Calls : Pending(c)' \/ (\E l \in Calls : c \in Members(batch'[l])) =>
           \/ Pending(c) \/ pc[c] = "idle"
           \/ \E l \in Calls : c \in Members(batch[l]),
         \A d \in Calls : pc'[d] \in {"inline", "waiting"} =>
           \/ HasCaller(d) /\ arrival'[d] = arrival[d]
           \/ \A c \in Calls : arrival[c] < arrival'[d]
  PROVE  LogTells' /\ CommitsInOrder'
  <1>0. \A c : Logged(c)' <=> Logged(c) BY DEF Logged
  <1>1. ASSUME NEW c \in Calls, Logged(c)
        PROVE  /\ pc'[c] \in {"ok", "cancelled"} /\ ~Pending(c)'
               /\ \A l \in Calls : c \notin Members(batch'[l])
    BY <1>1 DEF LogTells
  <1>2. ASSUME NEW c \in Calls, NEW d \in Calls, Logged(c), pc'[c] = "ok", HasCaller(d)'
        PROVE  arrival'[c] < arrival'[d]
    <2>1. pc'[d] \in {"inline", "waiting"} BY <1>2 DEF HasCaller
    <2>2. pc[c] = "ok" /\ arrival'[c] = arrival[c] BY <1>2
    <2>3. CASE HasCaller(d) /\ arrival'[d] = arrival[d]
      <3>1. arrival[c] < arrival[d] BY <1>2, <2>2, <2>3 DEF LogTells
      <3> QED BY <2>2, <2>3, <3>1
    <2>4. CASE \A e \in Calls : arrival[e] < arrival'[d] BY <2>2, <2>4
    <2> QED BY <2>1, <2>3, <2>4
  <1>3. CommitsInOrder'
    <2> SUFFICES ASSUME NEW i \in DOMAIN log, NEW j \in DOMAIN log, i < j,
                        pc'[log[i]] # "cancelled", pc'[log[j]] # "cancelled"
                 PROVE  arrival'[log[i]] < arrival'[log[j]]
      BY DEF CommitsInOrder
    <2>1. log[i] \in Calls /\ log[j] \in Calls /\ Logged(log[i]) /\ Logged(log[j]) BY DEF Logged
    <2>2. arrival[log[i]] < arrival[log[j]] BY <2>1 DEF CommitsInOrder
    <2> QED BY <2>1, <2>2
  <1>4. LogTells'
    <2>1. \A c \in Calls : Logged(c)' => /\ pc'[c] \in {"ok", "cancelled"} /\ ~Pending(c)'
                                         /\ \A l \in Calls : c \notin Members(batch'[l])
      BY <1>0, <1>1
    <2>2. \A c, d \in Calls : Logged(c)' /\ pc'[c] = "ok" /\ HasCaller(d)' => arrival'[c] < arrival'[d]
      BY <1>0, <1>2
    <2> QED BY <2>1, <2>2 DEF LogTells
  <1> QED BY <1>3, <1>4

\* The transactions of the runs, apart from the queue.
TxnTypes ==
  /\ log \in Seq(Calls) /\ mapSize \in Nat
  /\ phase \in [Calls -> Phases] /\ done \in [Calls -> Nat]
  /\ writer \in Calls \cup {NoWriter}
  /\ reading \subseteq Readers /\ read \subseteq Readers
  /\ faults \in Nat

TxnsOpen ==
  /\ \A l \in Calls : writer = l <=> phase[l] = "writing"
  /\ \A l \in Calls : phase[l] # "start" => Running(l)

LEMMA SInvParts ==
  SInv <=> /\ BInv /\ ongoing <= 1 /\ dropped = {} /\ TxnTypes /\ TxnsOpen
           /\ LogTells /\ CommitsInOrder
  BY DEF SInv, StorageTypeOK, TxnTypes, TransactionsAccounted, TxnsOpen, BInv, Led, Counted,
         GuardsCounted

LEMMA SInvPartsNext ==
  ASSUME BInv', ongoing' <= 1, dropped' = {}, TxnTypes', TxnsOpen', LogTells', CommitsInOrder'
  PROVE  SInv'
  BY DEF SInv, StorageTypeOK, TxnTypes, TransactionsAccounted, TxnsOpen, BInv, Led, Counted,
         GuardsCounted

LEMMA AskerIsNew ==
  ASSUME BInv, NEW c \in Calls, Arrive(c), NEW q \in {"inline", "waiting"},
         pc' = [pc EXCEPT ![c] = q]
  PROVE  /\ pc[c] = "idle" /\ pc'[c] = q /\ dropped' = dropped
         /\ \A d \in Calls : arrival[d] < arrival'[c]
         /\ \A d \in Calls : d # c => arrival'[d] = arrival[d] /\ pc'[d] = pc[d]
  BY ArriveNumbers DEF PCs, BInv

\* What a call leaves of the queue, under a batcher without a maximal size.
LEMMA AskedIs ==
  ASSUME BInv, ongoing <= 1, NEW c \in Calls, CallInline(c) \/ CallQueued(c)
  PROVE  /\ BInv' /\ ongoing' <= 1 /\ dropped' = dropped
         /\ pc[c] = "idle" /\ pc'[c] \in {"inline", "waiting"}
         /\ \A d \in Calls : arrival[d] < arrival'[c]
         /\ \A d \in Calls : d # c => arrival'[d] = arrival[d] /\ pc'[d] = pc[d]
         /\ \A d \in Calls : Pending(d)' => Pending(d) \/ d = c
         /\ \A m \in Calls : batch'[m] = batch[m] \/ (batch'[m] = <<c>> /\ batch[m] = <<>>)
  <1>1. BInv' BY CallInlineKeeps, CallQueuedKeeps
  <1>2. CASE CallInline(c)
    <2>1. Arrive(c) /\ pc' = [pc EXCEPT ![c] = "inline"] /\ ongoing' = 1 /\ pending' = pending
          /\ batch' = [batch EXCEPT ![c] = <<c>>]
      BY <1>2 DEF CallInline
    <2>2. /\ pc[c] = "idle" /\ pc'[c] = "inline" /\ dropped' = dropped
          /\ \A d \in Calls : arrival[d] < arrival'[c]
          /\ \A d \in Calls : d # c => arrival'[d] = arrival[d] /\ pc'[d] = pc[d]
      BY <2>1, AskerIsNew
    <2>3. batch[c] = <<>>
      <3>1. c \notin Members(batch[c]) BY <2>2, IdleIsOut DEF BInv
      <3> QED BY <3>1, RunFacts DEF BInv, Running
    <2>4. \A m \in Calls : batch'[m] = batch[m] \/ (batch'[m] = <<c>> /\ batch[m] = <<>>)
      BY <2>1, <2>3 DEF BInv, TypeOK
    <2>5. \A d \in Calls : Pending(d)' => Pending(d) BY <2>1 DEF Pending
    <2> QED BY <1>1, <2>1, <2>2, <2>4, <2>5
  <1>3. CASE CallQueued(c)
    <2>1. PICK s : s = Joined(c) OBVIOUS
    <2>2. ~IsFull(BatcherOf[c], s) BY OneBatcher, BatcherConstants DEF IsFull
    <2>3. /\ ongoing' = ongoing /\ batch' = batch
          /\ pending' = Append(OthersPending(BatcherOf[c]), [batcher |-> BatcherOf[c], calls |-> s])
          /\ Arrive(c) /\ pc' = [pc EXCEPT ![c] = "waiting"]
      BY <1>3, <2>1, <2>2 DEF CallQueued
    <2>4. /\ pc[c] = "idle" /\ pc'[c] = "waiting" /\ dropped' = dropped
          /\ \A d \in Calls : arrival[d] < arrival'[c]
          /\ \A d \in Calls : d # c => arrival'[d] = arrival[d] /\ pc'[d] = pc[d]
      BY <2>3, AskerIsNew
    <2>5. ASSUME NEW d \in Calls, Pending(d)' PROVE Pending(d) \/ d = c
      BY <1>3, <2>1, <2>2, <2>5, JoinedPends
    <2> QED BY <1>1, <2>3, <2>4, <2>5
  <1> QED BY <1>2, <1>3

LEMMA RunTxnKeeps ==
  ASSUME SInv, NEW c \in Calls, RunTxn(c)
  PROVE  SInv'
  <1>1. /\ BInv /\ ongoing <= 1 /\ dropped = {} /\ TxnTypes /\ TxnsOpen /\ LogTells /\ CommitsInOrder
    BY SInvParts
  <1>2. /\ BInv' /\ ongoing' <= 1 /\ dropped' = dropped
        /\ pc[c] = "idle" /\ pc'[c] \in {"inline", "waiting"}
        /\ \A d \in Calls : arrival[d] < arrival'[c]
        /\ \A d \in Calls : d # c => arrival'[d] = arrival[d] /\ pc'[d] = pc[d]
        /\ \A d \in Calls : Pending(d)' => Pending(d) \/ d = c
        /\ \A m \in Calls : batch'[m] = batch[m] \/ (batch'[m] = <<c>> /\ batch[m] = <<>>)
    <2>1. CallInline(c) \/ CallQueued(c) BY DEF RunTxn
    <2> QED BY <1>1, <2>1, AskedIs
  <1>3. UNCHANGED <<log, mapSize, phase, done, writer, reading, read, faults>> BY DEF RunTxn, txn
  <1>4. TxnTypes' BY <1>1, <1>3 DEF TxnTypes
  <1>5. TxnsOpen'
    <2>1. \A m \in Calls : batch[m] # <<>> => batch'[m] # <<>> BY <1>2
    <2> QED BY <1>1, <1>3, <2>1 DEF TxnsOpen, Running
  <1>6. LogTells' /\ CommitsInOrder'
    <2>1. \A d \in Calls : Logged(d) => pc'[d] \in {pc[d], "cancelled"} /\ arrival'[d] = arrival[d]
      BY <1>1, <1>2 DEF LogTells
    <2>2. Members(<<c>>) = {c} BY DEF Members
    <2>3. \A d \in Calls : Pending(d)' \/ (\E l \in Calls : d \in Members(batch'[l])) =>
            \/ Pending(d) \/ pc[d] = "idle"
            \/ \E l \in Calls : d \in Members(batch[l])
      BY <1>2, <2>2
    <2>4. \A d \in Calls : pc'[d] \in {"inline", "waiting"} =>
            \/ HasCaller(d) /\ arrival'[d] = arrival[d]
            \/ \A e \in Calls : arrival[e] < arrival'[d]
      BY <1>2 DEF HasCaller
    <2>5. log \in Seq(Calls) BY <1>1 DEF TxnTypes
    <2> QED BY <1>1, <1>3, <2>1, <2>3, <2>4, <2>5, LogStays
  <1> QED BY <1>1, <1>2, <1>4, <1>5, <1>6, SInvPartsNext

\* Steps that leave the queue and the log alone.
LEMMA TxnStepKeeps ==
  ASSUME SInv, UNCHANGED <<vars, log>>, TxnTypes',
         \A l \in Calls : (writer' = l) <=> (phase'[l] = "writing"),
         \A l \in Calls : phase'[l] # "start" => phase[l] # "start" \/ Running(l)
  PROVE  SInv'
  <1>1. /\ BInv /\ ongoing <= 1 /\ dropped = {} /\ TxnTypes /\ TxnsOpen /\ LogTells /\ CommitsInOrder
    BY SInvParts
  <1>2. BInv' BY <1>1, BatcherIdles
  <1>3. UNCHANGED <<ongoing, pending, batch, guards, pc, dropped, arrival>> BY DEF vars, queue
  <1>4. TxnsOpen' BY <1>1, <1>3 DEF TxnsOpen, Running
  <1>5. \A d : Pending(d)' <=> Pending(d) BY <1>3 DEF Pending
  <1>6. log \in Seq(Calls) BY <1>1 DEF TxnTypes
  <1>7. LogTells' /\ CommitsInOrder' BY <1>1, <1>3, <1>5, <1>6, LogStays DEF HasCaller
  <1> QED BY <1>1, <1>2, <1>3, <1>4, <1>7, SInvPartsNext

LEMMA CloseTxnIs ==
  ASSUME TxnTypes, TxnsOpen, NEW l \in Calls, NEW p \in {"start", "full"}, CloseTxn(l, p)
  PROVE  /\ phase' \in [Calls -> Phases] /\ done' \in [Calls -> Nat]
         /\ writer' \in Calls \cup {NoWriter}
         /\ phase'[l] = p /\ \A m \in Calls : m # l => phase'[m] = phase[m]
         /\ \A m \in Calls : (writer' = m) <=> (phase'[m] = "writing")
  <1>1. /\ phase' = [phase EXCEPT ![l] = p] /\ done' = [done EXCEPT ![l] = 0]
        /\ writer' = IF writer = l THEN NoWriter ELSE writer
    BY DEF CloseTxn
  <1>2. phase' \in [Calls -> Phases] /\ done' \in [Calls -> Nat] /\ writer' \in Calls \cup {NoWriter}
    BY <1>1 DEF TxnTypes, Phases
  <1>3. phase'[l] = p /\ \A m \in Calls : m # l => phase'[m] = phase[m] BY <1>1 DEF TxnTypes
  <1>4. ASSUME NEW m \in Calls PROVE (writer' = m) <=> (phase'[m] = "writing")
    <2>1. (writer = m) <=> (phase[m] = "writing") BY DEF TxnsOpen
    <2>2. NoWriter # m BY OneBatcher
    <2>3. CASE m = l BY <1>1, <1>3, <2>2, <2>3
    <2>4. CASE m # l BY <1>1, <1>3, <2>1, <2>2, <2>4
    <2> QED BY <2>3, <2>4
  <1> QED BY <1>2, <1>3, <1>4

LEMMA TxnActionKeeps ==
  ASSUME SInv, NEW l \in Calls, TakeGuard(l) \/ OpenTxn(l) \/ Body(l) \/ Resize(l)
  PROVE  SInv'
  <1>1. TxnTypes /\ TxnsOpen BY SInvParts
  <1>2. CASE TakeGuard(l)
    <2>1. UNCHANGED <<vars, log>> /\ phase' = [phase EXCEPT ![l] = "guarded"]
          /\ UNCHANGED <<mapSize, done, writer, reading, read, faults>>
          /\ Running(l) /\ phase[l] = "start"
      BY <1>2 DEF TakeGuard
    <2>2. TxnTypes' BY <1>1, <2>1 DEF TxnTypes, Phases
    <2>3. \A m \in Calls : (writer' = m) <=> (phase'[m] = "writing")
      BY <1>1, <2>1 DEF TxnTypes, TxnsOpen
    <2>4. \A m \in Calls : phase'[m] # "start" => phase[m] # "start" \/ Running(m)
      BY <1>1, <2>1 DEF TxnTypes
    <2> QED BY <2>1, <2>2, <2>3, <2>4, TxnStepKeeps
  <1>3. CASE OpenTxn(l)
    <2>1. UNCHANGED <<vars, log>> /\ phase' = [phase EXCEPT ![l] = "writing"] /\ writer' = l
          /\ UNCHANGED <<mapSize, done, reading, read, faults>>
          /\ phase[l] = "guarded" /\ writer = NoWriter
      BY <1>3 DEF OpenTxn
    <2>2. TxnTypes' BY <1>1, <2>1 DEF TxnTypes, Phases
    <2>3. \A m \in Calls : (writer' = m) <=> (phase'[m] = "writing")
      <3>1. \A m \in Calls : phase[m] # "writing" BY <1>1, <2>1, OneBatcher DEF TxnsOpen
      <3> QED BY <1>1, <2>1, <3>1 DEF TxnTypes
    <2>4. \A m \in Calls : phase'[m] # "start" => phase[m] # "start" \/ Running(m)
      BY <1>1, <2>1 DEF TxnTypes
    <2> QED BY <2>1, <2>2, <2>3, <2>4, TxnStepKeeps
  <1>4. CASE Body(l)
    <2>1. UNCHANGED <<vars, log>> /\ UNCHANGED <<mapSize, reading, read, faults>>
          /\ phase[l] = "writing"
      BY <1>4 DEF Body
    <2>2. CASE HasRoom(l)
      <3>1. done' = [done EXCEPT ![l] = done[l] + 1] /\ UNCHANGED <<writer, phase>>
        BY <1>4, <2>2 DEF Body
      <3>2. TxnTypes' BY <1>1, <2>1, <3>1 DEF TxnTypes
      <3> QED BY <1>1, <2>1, <3>1, <3>2, TxnStepKeeps DEF TxnsOpen
    <2>3. CASE ~HasRoom(l)
      <3>1. CloseTxn(l, "full") BY <1>4, <2>3 DEF Body
      <3>2. /\ phase' \in [Calls -> Phases] /\ done' \in [Calls -> Nat]
            /\ writer' \in Calls \cup {NoWriter}
            /\ phase'[l] = "full" /\ \A m \in Calls : m # l => phase'[m] = phase[m]
            /\ \A m \in Calls : (writer' = m) <=> (phase'[m] = "writing")
        BY <1>1, <3>1, CloseTxnIs
      <3>3. TxnTypes' BY <1>1, <2>1, <3>2 DEF TxnTypes
      <3>4. \A m \in Calls : phase'[m] # "start" => phase[m] # "start" \/ Running(m)
        BY <2>1, <3>2
      <3> QED BY <2>1, <3>2, <3>3, <3>4, TxnStepKeeps
    <2> QED BY <2>2, <2>3
  <1>5. CASE Resize(l)
    <2>1. UNCHANGED <<vars, log>> /\ phase' = [phase EXCEPT ![l] = "start"] /\ mapSize' = 2 * mapSize
          /\ UNCHANGED <<done, writer, reading, read, faults>> /\ phase[l] = "full"
      BY <1>5 DEF Resize
    <2>2. TxnTypes' BY <1>1, <2>1 DEF TxnTypes, Phases
    <2>3. \A m \in Calls : (writer' = m) <=> (phase'[m] = "writing")
      BY <1>1, <2>1 DEF TxnTypes, TxnsOpen
    <2>4. \A m \in Calls : phase'[m] # "start" => phase[m] # "start" \/ Running(m)
      BY <1>1, <2>1 DEF TxnTypes
    <2> QED BY <2>1, <2>2, <2>3, <2>4, TxnStepKeeps
  <1> QED BY <1>2, <1>3, <1>4, <1>5

LEMMA ReaderKeeps ==
  ASSUME SInv, NEW r \in Readers, StartReading(r) \/ EndReading(r)
  PROVE  SInv'
  <1>1. TxnTypes /\ TxnsOpen BY SInvParts
  <1>2. UNCHANGED <<vars, log, mapSize, phase, done, writer, faults>>
        /\ reading' \subseteq Readers /\ read' \subseteq Readers
    BY <1>1 DEF StartReading, EndReading, TxnTypes
  <1>3. TxnTypes' BY <1>1, <1>2 DEF TxnTypes
  <1> QED BY <1>1, <1>2, <1>3, TxnStepKeeps DEF TxnsOpen

LEMMA StorageIdles ==
  ASSUME SInv, UNCHANGED svars
  PROVE  SInv'
  <1>1. TxnTypes /\ TxnsOpen BY SInvParts
  <1>2. UNCHANGED <<vars, log, mapSize, phase, done, writer, reading, read, faults>> BY DEF svars, txn
  <1>3. TxnTypes' BY <1>1, <1>2 DEF TxnTypes
  <1> QED BY <1>1, <1>2, <1>3, TxnStepKeeps DEF TxnsOpen

-----------------------------------------------------------------------------
\* The answers of a run go to its calls that still have a caller.
LEMMA AnsweredIs ==
  ASSUME BInv, NEW l \in Calls, NEW res \in {"ok", "err"}, Answer(l, res)
  PROVE  /\ BInv' /\ UNCHANGED <<ongoing, pending, guards, dropped, arrival>>
         /\ Running(l) /\ batch'[l] = <<>>
         /\ \A m \in Calls : m # l => batch'[m] = batch[m]
         /\ \A c \in Members(batch[l]) : HasCaller(c) => pc'[c] = res
         /\ \A c \in Members(batch[l]) : ~HasCaller(c) => pc'[c] = "cancelled" /\ pc[c] = "cancelled"
         /\ \A c \in Calls : c \notin Members(batch[l]) => pc'[c] = pc[c]
         /\ \A c \in Members(batch[l]) : c \in Calls /\ ~Pending(c)
         /\ \A c : Pending(c)' <=> Pending(c)
  <1>1. BInv' BY AnswerKeeps
  <1>2. /\ UNCHANGED <<ongoing, pending, guards, dropped, arrival>> /\ Running(l)
        /\ pc' = [c \in Calls |-> IF c \in Members(batch[l]) /\ HasCaller(c) THEN res ELSE pc[c]]
        /\ batch' = [batch EXCEPT ![l] = <<>>]
    BY DEF Answer
  <1>3. batch'[l] = <<>> /\ \A m \in Calls : m # l => batch'[m] = batch[m] BY <1>2 DEF BInv, TypeOK
  <1>4. \A c \in Members(batch[l]) : c \in Calls /\ ~Pending(c) /\ pc[c] \in Queued
    BY RunFacts DEF BInv, Apart
  <1>5. \A c \in Members(batch[l]) : ~HasCaller(c) => pc[c] = "cancelled" BY <1>4 DEF HasCaller, Queued
  <1>6. \A c : Pending(c)' <=> Pending(c) BY <1>2 DEF Pending
  <1> QED BY <1>1, <1>2, <1>3, <1>4, <1>5, <1>6

\* A run that is over or dropped, and its transaction with it.
LEMMA EndsKeep ==
  ASSUME SInv, NEW l \in Calls, BInv', CloseTxn(l, "start"), batch'[l] = <<>>,
         \A m \in Calls : m # l => batch'[m] = batch[m],
         UNCHANGED <<ongoing, dropped, mapSize, reading, read>>,
         log' \in Seq(Calls), faults' \in Nat, LogTells', CommitsInOrder'
  PROVE  SInv'
  <1>1. /\ BInv /\ ongoing <= 1 /\ dropped = {} /\ TxnTypes /\ TxnsOpen BY SInvParts
  <1>2. /\ phase' \in [Calls -> Phases] /\ done' \in [Calls -> Nat]
        /\ writer' \in Calls \cup {NoWriter}
        /\ phase'[l] = "start" /\ \A m \in Calls : m # l => phase'[m] = phase[m]
        /\ \A m \in Calls : (writer' = m) <=> (phase'[m] = "writing")
    BY <1>1, CloseTxnIs
  <1>3. TxnTypes' BY <1>1, <1>2 DEF TxnTypes
  <1>4. TxnsOpen' BY <1>1, <1>2 DEF TxnsOpen, Running
  <1> QED BY <1>1, <1>3, <1>4, SInvPartsNext

LEMMA FailKeeps ==
  ASSUME SInv, NEW l \in Calls, Fail(l)
  PROVE  SInv'
  <1>1. /\ BInv /\ TxnTypes /\ TxnsOpen /\ LogTells /\ CommitsInOrder BY SInvParts
  <1>2. /\ CloseTxn(l, "start") /\ Answer(l, "err") /\ UNCHANGED <<log, mapSize, reading, read>>
        /\ faults' = faults + 1
    BY DEF Fail
  <1>3. /\ BInv' /\ UNCHANGED <<ongoing, pending, guards, dropped, arrival>>
        /\ Running(l) /\ batch'[l] = <<>>
        /\ \A m \in Calls : m # l => batch'[m] = batch[m]
        /\ \A c \in Members(batch[l]) : HasCaller(c) => pc'[c] = "err"
        /\ \A c \in Members(batch[l]) : ~HasCaller(c) => pc'[c] = "cancelled" /\ pc[c] = "cancelled"
        /\ \A c \in Calls : c \notin Members(batch[l]) => pc'[c] = pc[c]
        /\ \A c : Pending(c)' <=> Pending(c)
    BY <1>1, <1>2, AnsweredIs
  <1>4. log \in Seq(Calls) /\ faults' \in Nat BY <1>1, <1>2 DEF TxnTypes
  <1>5. LogTells' /\ CommitsInOrder'
    <2>1. Members(<<>>) = {} BY DEF Members
    <2>2. \A c \in Calls : Logged(c) => pc'[c] \in {pc[c], "cancelled"} /\ arrival'[c] = arrival[c]
      BY <1>1, <1>3 DEF LogTells
    <2>3. \A c \in Calls : Pending(c)' \/ (\E m \in Calls : c \in Members(batch'[m])) =>
            \/ Pending(c) \/ pc[c] = "idle"
            \/ \E m \in Calls : c \in Members(batch[m])
      BY <1>3, <2>1
    <2>4. \A d \in Calls : pc'[d] \in {"inline", "waiting"} =>
            \/ HasCaller(d) /\ arrival'[d] = arrival[d]
            \/ \A c \in Calls : arrival[c] < arrival'[d]
      BY <1>3 DEF HasCaller
    <2> QED BY <1>1, <1>2, <1>4, <2>2, <2>3, <2>4, LogStays
  <1> QED BY <1>2, <1>3, <1>4, <1>5, EndsKeep

LEMMA AbandonTxnKeeps ==
  ASSUME SInv, NEW l \in Calls, AbandonTxn(l)
  PROVE  SInv'
  <1>1. /\ BInv /\ TxnTypes /\ TxnsOpen /\ LogTells /\ CommitsInOrder BY SInvParts
  <1>2. /\ CloseTxn(l, "start") /\ Abandon(l) /\ UNCHANGED <<log, mapSize, reading, read, faults>>
    BY DEF AbandonTxn
  <1>3. /\ UNCHANGED <<ongoing, pending, guards, pc, dropped, arrival>>
        /\ batch' = [batch EXCEPT ![l] = <<>>]
    BY <1>2 DEF Abandon
  <1>4. batch'[l] = <<>> /\ (\A m \in Calls : m # l => batch'[m] = batch[m]) /\ BInv'
    BY <1>1, <1>2, <1>3, AbandonKeeps DEF BInv, TypeOK
  <1>5. log \in Seq(Calls) /\ faults' \in Nat BY <1>1, <1>2 DEF TxnTypes
  <1>6. LogTells' /\ CommitsInOrder'
    <2>1. Members(<<>>) = {} BY DEF Members
    <2>2. \A c : Pending(c)' <=> Pending(c) BY <1>3 DEF Pending
    <2>3. \A c \in Calls : Pending(c)' \/ (\E m \in Calls : c \in Members(batch'[m])) =>
            \/ Pending(c) \/ pc[c] = "idle"
            \/ \E m \in Calls : c \in Members(batch[m])
      BY <1>4, <2>1, <2>2
    <2> QED BY <1>1, <1>2, <1>3, <1>5, <2>3, LogStays DEF HasCaller
  <1> QED BY <1>2, <1>3, <1>4, <1>5, <1>6, EndsKeep

\* Who still waits when a batch with a caller left commits is behind all of it.
LEMMA WaitersAreBehind ==
  ASSUME BInv, ongoing <= 1, NEW l \in Calls, NEW c \in Members(batch[l]), HasCaller(c),
         NEW d \in Calls, HasCaller(d), d \notin Members(batch[l])
  PROVE  arrival[c] < arrival[d]
  <1> USE DEF BInv
  <1>1. Running(l) /\ c \in Calls /\ BatcherOf[c] = BatcherOf[d] /\ ~Pending(c)
    BY RunFacts, OneBatcher DEF Apart
  <1>2. guards = {l}
    <2>1. l \in guards
      <3>1. SUFFICES ASSUME l \notin guards PROVE FALSE OBVIOUS
      <3>2. batch[l] = <<l>> /\ pc[l] = "cancelled" BY <1>1, <3>1 DEF Led
      <3>3. c = l BY <3>2 DEF Members
      <3> QED BY <3>2, <3>3 DEF HasCaller
    <2>2. IsFiniteSet(guards) /\ Cardinality(guards) <= 1 /\ Cardinality(guards) \in Nat
      BY FS_CardinalityType DEF Counted, GuardsCounted
    <2>3. Cardinality(guards) = 1
      <3>1. Cardinality(guards) # 0 BY <2>1, <2>2, FS_EmptySet
      <3> QED BY <2>2, <3>1
    <2>4. \E x : guards = {x} BY <2>2, <2>3, FS_Singleton
    <2> QED BY <2>1, <2>4
  <1>3. Pending(d)
    <2>1. CASE pc[d] = "inline"
      <3>1. d \in guards /\ batch[d] = <<d>> BY <2>1 DEF Led
      <3>2. d = l /\ d \in Members(batch[l]) BY <1>2, <3>1 DEF Members
      <3> QED BY <3>2
    <2>2. CASE pc[d] = "waiting" BY <1>2, <2>2, WaitersKnown
    <2> QED BY <2>1, <2>2 DEF HasCaller
  <1>4. arrival[c] # 0 /\ arrival[d] # 0 /\ arrival[c] \in Nat /\ arrival[d] \in Nat
    BY <1>1 DEF Numbered, TypeOK, HasCaller
  <1>5. arrival[c] # arrival[d] BY <1>1, <1>4 DEF Numbered
  <1>6. ~(arrival[d] < arrival[c]) BY <1>1, <1>3, <1>4 DEF StartsInOrder
  <1> QED BY <1>4, <1>5, <1>6

LEMMA CommitKeeps ==
  ASSUME SInv, NEW l \in Calls, Commit(l)
  PROVE  SInv'
  <1>1. /\ BInv /\ ongoing <= 1 /\ TxnTypes /\ TxnsOpen /\ LogTells /\ CommitsInOrder BY SInvParts
  <1>2. /\ CloseTxn(l, "start") /\ Answer(l, "ok") /\ UNCHANGED <<mapSize, reading, read, faults>>
        /\ log' = log \o batch[l]
    BY DEF Commit
  <1>3. /\ BInv' /\ UNCHANGED <<ongoing, pending, guards, dropped, arrival>>
        /\ Running(l) /\ batch'[l] = <<>>
        /\ \A m \in Calls : m # l => batch'[m] = batch[m]
        /\ \A c \in Members(batch[l]) : HasCaller(c) => pc'[c] = "ok"
        /\ \A c \in Members(batch[l]) : ~HasCaller(c) => pc'[c] = "cancelled" /\ pc[c] = "cancelled"
        /\ \A c \in Calls : c \notin Members(batch[l]) => pc'[c] = pc[c]
        /\ \A c \in Members(batch[l]) : c \in Calls /\ ~Pending(c)
        /\ \A c : Pending(c)' <=> Pending(c)
    BY <1>1, <1>2, AnsweredIs
  <1> DEFINE n == Len(log)
             s == batch[l]
  <1>4. log \in Seq(Calls) /\ s \in Seq(Calls) /\ faults' \in Nat
    BY <1>1, <1>2 DEF TxnTypes, BInv, TypeOK
  <1>5. /\ log' \in Seq(Calls) /\ Len(log') = n + Len(s) /\ n \in Nat /\ Len(s) \in Nat
        /\ \A i \in 1..(n + Len(s)) : log'[i] = IF i <= n THEN log[i] ELSE s[i - n]
    BY <1>2, <1>4, ConcatProperties, LenProperties
  <1>6. DOMAIN log = 1..n /\ DOMAIN s = 1..Len(s) /\ DOMAIN log' = 1..(n + Len(s))
    BY <1>4, <1>5, LenProperties
  <1> HIDE DEF n, s
  <1>7. \A i \in DOMAIN log' : \/ i \in DOMAIN log /\ log'[i] = log[i]
                               \/ i - n \in DOMAIN s /\ i > n /\ log'[i] = s[i - n]
    BY <1>5, <1>6
  <1>8. \A c : Logged(c)' => Logged(c) \/ c \in Members(batch[l])
    BY <1>7 DEF Logged, Members, s
  <1>9. \A c \in Calls : Logged(c) => c \notin Members(batch[l]) /\ pc'[c] = pc[c]
    BY <1>1, <1>3 DEF LogTells
  <1>10. ASSUME NEW c \in Calls, Logged(c)'
         PROVE  /\ pc'[c] \in {"ok", "cancelled"} /\ ~Pending(c)'
                /\ \A m \in Calls : c \notin Members(batch'[m])
    <2>1. Members(<<>>) = {} BY DEF Members
    <2>2. CASE Logged(c) BY <1>1, <1>3, <1>9, <2>1, <2>2 DEF LogTells
    <2>3. CASE c \in Members(batch[l])
      <3>1. \A m \in Calls : m # l => c \notin Members(batch[m]) BY <1>1, <2>3 DEF BInv, Apart
      <3> QED BY <1>3, <2>1, <2>3, <3>1
    <2> QED BY <1>8, <1>10, <2>2, <2>3
  <1>11. ASSUME NEW c \in Calls, NEW d \in Calls, Logged(c)', pc'[c] = "ok", HasCaller(d)'
         PROVE  arrival'[c] < arrival'[d]
    <2>1. HasCaller(d) /\ d \notin Members(batch[l]) BY <1>3, <1>11 DEF HasCaller
    <2>2. CASE Logged(c) BY <1>1, <1>3, <1>9, <1>11, <2>1, <2>2 DEF LogTells
    <2>3. CASE c \in Members(batch[l])
      <3>1. HasCaller(c) BY <1>3, <1>11, <2>3
      <3> QED BY <1>1, <1>3, <2>1, <2>3, <3>1, WaitersAreBehind
    <2> QED BY <1>8, <1>11, <2>2, <2>3
  <1>12. CommitsInOrder'
    <2> SUFFICES ASSUME NEW i \in DOMAIN log', NEW j \in DOMAIN log', i < j,
                        pc'[log'[i]] # "cancelled", pc'[log'[j]] # "cancelled"
                 PROVE  arrival'[log'[i]] < arrival'[log'[j]]
      BY DEF CommitsInOrder
    <2>1. i \in Int /\ j \in Int BY <1>6
    <2>2. CASE i \in DOMAIN log /\ log'[i] = log[i] /\ j \in DOMAIN log /\ log'[j] = log[j]
      <3>1. log[i] \in Calls /\ log[j] \in Calls /\ Logged(log[i]) /\ Logged(log[j])
        BY <1>4, <2>2 DEF Logged
      <3> QED BY <1>1, <1>3, <1>9, <2>2, <3>1 DEF CommitsInOrder
    <2>3. CASE i \in DOMAIN log /\ log'[i] = log[i] /\ j - n \in DOMAIN s /\ log'[j] = s[j - n]
      <3>1. log[i] \in Calls /\ Logged(log[i]) BY <1>4, <2>3 DEF Logged
      <3>2. s[j - n] \in Members(batch[l]) BY <2>3 DEF Members, s
      <3>3. pc[log[i]] = "ok" BY <1>1, <1>9, <2>3, <3>1 DEF LogTells
      <3>4. HasCaller(s[j - n]) /\ s[j - n] \in Calls BY <1>3, <2>3, <3>2
      <3>5. arrival[log[i]] < arrival[s[j - n]] BY <1>1, <3>1, <3>3, <3>4 DEF LogTells
      <3> QED BY <1>3, <2>3, <3>5
    <2>4. CASE i - n \in DOMAIN s /\ log'[i] = s[i - n] /\ j - n \in DOMAIN s /\ log'[j] = s[j - n]
      <3>1. IsBatch(s, BatcherOf[l], pc, arrival) BY <1>1, <1>3 DEF BInv, Formed, s
      <3>2. i - n < j - n BY <1>5, <2>1
      <3> QED BY <1>3, <2>4, <3>1, <3>2 DEF IsBatch
    <2>5. CASE i > n /\ j \in DOMAIN log BY <1>5, <1>6, <2>1, <2>5
    <2> QED BY <1>7, <2>2, <2>3, <2>4, <2>5
  <1>13. LogTells' BY <1>10, <1>11 DEF LogTells
  <1> QED BY <1>2, <1>3, <1>4, <1>5, <1>12, <1>13, EndsKeep

-----------------------------------------------------------------------------
\* A guard that goes, and the transactions and the log beside it.
LEMMA KickOffKeepsTxns ==
  ASSUME SInv, NEW l \in Calls, NEW status \in [Calls -> PCs], KickOff(l, status), BInv',
         \A c \in Calls : status[c] = pc[c] \/ (status[c] = "cancelled" /\ HasCaller(c)),
         UNCHANGED <<dropped, arrival>>,
         UNCHANGED <<log, mapSize, phase, done, writer, reading, read>>, faults' \in Nat
  PROVE  SInv'
  <1>1. /\ BInv /\ ongoing <= 1 /\ dropped = {} /\ TxnTypes /\ TxnsOpen /\ LogTells /\ CommitsInOrder
    BY SInvParts
  <1>2. \A c \in Calls : status[c] = "waiting" => pc[c] = "waiting" OBVIOUS
  <1>3. PICK started \in SUBSET Calls : KickedOff(l, status, started) BY <1>1, <1>2, KickOffView
  <1>4. /\ \A m \in started : batch[m] = <<>> /\ \A d \in Members(batch'[m]) : Pending(d)
        /\ \A m \in Calls \ started : batch'[m] = batch[m]
        /\ \A i \in DOMAIN pending' : \E j \in DOMAIN pending : pending'[i] = pending[j]
    BY <1>3 DEF KickedOff
  <1>5. pc' = status BY <1>1, <1>2, KickOffIs
  <1>6. ongoing' <= 1
    <2>1. CASE LeftRunning(l) BY <1>1, <2>1 DEF LeftRunning, BInv, TypeOK
    <2>2. CASE LeftIdle(l) BY <2>2 DEF LeftIdle
    <2>3. CASE \E k \in DOMAIN pending : LeftStarted(l, k) BY <2>3 DEF LeftStarted
    <2> QED BY <1>1, <1>2, <2>1, <2>2, <2>3, KickOffIs
  <1>7. TxnTypes' BY <1>1 DEF TxnTypes
  <1>8. TxnsOpen'
    <2>1. \A m \in Calls : batch[m] # <<>> => batch'[m] # <<>> BY <1>4
    <2> QED BY <1>1, <2>1 DEF TxnsOpen, Running
  <1>9. LogTells' /\ CommitsInOrder'
    <2>1. \A c \in Calls : Logged(c) => pc'[c] \in {pc[c], "cancelled"} /\ arrival'[c] = arrival[c]
      BY <1>5
    <2>2. \A c \in Calls : Pending(c)' => Pending(c) BY <1>4 DEF Pending
    <2>3. \A c \in Calls : Pending(c)' \/ (\E m \in Calls : c \in Members(batch'[m])) =>
            \/ Pending(c) \/ pc[c] = "idle"
            \/ \E m \in Calls : c \in Members(batch[m])
      BY <1>4, <2>2
    <2>4. \A d \in Calls : pc'[d] \in {"inline", "waiting"} =>
            \/ HasCaller(d) /\ arrival'[d] = arrival[d]
            \/ \A c \in Calls : arrival[c] < arrival'[d]
      BY <1>5 DEF HasCaller
    <2>5. log \in Seq(Calls) BY <1>1 DEF TxnTypes
    <2> QED BY <1>1, <2>1, <2>3, <2>4, <2>5, LogStays
  <1> QED BY <1>1, <1>6, <1>7, <1>8, <1>9, SInvPartsNext

LEMMA EndRunKeeps ==
  ASSUME SInv, NEW l \in Calls, EndRun(l)
  PROVE  SInv'
  <1>1. BInv /\ TxnTypes BY SInvParts
  <1>2. /\ Release(l) /\ KickOff(l, pc) /\ UNCHANGED <<dropped, arrival>>
        /\ UNCHANGED <<log, mapSize, phase, done, writer, reading, read, faults>>
    BY DEF EndRun, Release, txn
  <1>3. BInv' BY <1>1, <1>2, ReleaseKeeps
  <1>4. pc \in [Calls -> PCs] /\ faults' \in Nat BY <1>1, <1>2 DEF BInv, TypeOK, TxnTypes
  <1> QED BY <1>2, <1>3, <1>4, KickOffKeepsTxns

LEMMA CancelCallerKeeps ==
  ASSUME SInv, NEW c \in Calls, CancelCaller(c)
  PROVE  SInv'
  <1> DEFINE status == [pc EXCEPT ![c] = "cancelled"]
  <1>1. /\ BInv /\ ongoing <= 1 /\ dropped = {} /\ TxnTypes /\ TxnsOpen /\ LogTells /\ CommitsInOrder
    BY SInvParts
  <1>2. /\ Cancel(c) /\ HasCaller(c) /\ UNCHANGED <<dropped, arrival>> /\ faults' = faults + 1
        /\ UNCHANGED <<log, mapSize, phase, done, writer, reading, read>>
    BY DEF CancelCaller, Cancel
  <1>3. BInv' BY <1>1, <1>2, CancelKeeps
  <1>4. /\ status \in [Calls -> PCs] /\ faults' \in Nat
        /\ \A d \in Calls : status[d] = pc[d] \/ (status[d] = "cancelled" /\ HasCaller(d))
    BY <1>1, <1>2 DEF BInv, TypeOK, PCs, TxnTypes
  <1>5. CASE pc[c] = "inline"
    <2>1. KickOff(c, status) BY <1>2, <1>5 DEF Cancel
    <2> HIDE DEF status
    <2> QED BY <1>2, <1>3, <1>4, <2>1, KickOffKeepsTxns
  <1>6. CASE pc[c] # "inline"
    <2>1. pc' = status /\ UNCHANGED <<ongoing, pending, batch, guards>>
      BY <1>2, <1>6 DEF Cancel, queue
    <2> HIDE DEF status
    <2>2. TxnTypes' BY <1>1, <1>2, <1>4 DEF TxnTypes
    <2>3. TxnsOpen' BY <1>1, <1>2, <2>1 DEF TxnsOpen, Running
    <2>4. \A d : Pending(d)' <=> Pending(d) BY <2>1 DEF Pending
    <2>5. log \in Seq(Calls) BY <1>1 DEF TxnTypes
    <2>6. LogTells' /\ CommitsInOrder'
      <3>1. \A d \in Calls : Logged(d) => pc'[d] \in {pc[d], "cancelled"} /\ arrival'[d] = arrival[d]
        BY <1>2, <1>4, <2>1
      <3>2. \A d \in Calls : pc'[d] \in {"inline", "waiting"} =>
              \/ HasCaller(d) /\ arrival'[d] = arrival[d]
              \/ \A e \in Calls : arrival[e] < arrival'[d]
        BY <1>2, <1>4, <2>1 DEF HasCaller
      <3> QED BY <1>1, <1>2, <2>1, <2>4, <2>5, <3>1, <3>2, LogStays
    <2> QED BY <1>1, <1>2, <1>3, <2>1, <2>2, <2>3, <2>6, SInvPartsNext
  <1> QED BY <1>5, <1>6

LEMMA CrashKeeps ==
  ASSUME SInv, Crash
  PROVE  SInv'
  <1>1. /\ BInv /\ ongoing <= 1 /\ dropped = {} /\ TxnTypes /\ TxnsOpen /\ LogTells /\ CommitsInOrder
    BY SInvParts
  <1>2. /\ ongoing' = 0 /\ pending' = <<>> /\ guards' = {} /\ writer' = NoWriter /\ reading' = {}
        /\ batch' = [c \in Calls |-> <<>>] /\ faults' = faults + 1
        /\ pc' = [c \in Calls |-> IF HasCaller(c) THEN "cancelled" ELSE pc[c]]
        /\ phase' = [l \in Calls |-> "start"] /\ done' = [l \in Calls |-> 0]
        /\ mapSize' = IF Len(log) > InitialMap THEN Len(log) ELSE InitialMap
        /\ UNCHANGED <<dropped, arrival, log, read>>
    BY DEF Crash
  <1>3. \A c : ~Pending(c)' BY <1>2 DEF Pending
  <1>4. \A l \in Calls : batch'[l] = <<>> /\ Members(batch'[l]) = {} BY <1>2 DEF Members
  <1>5. \A c \in Calls : pc'[c] = IF HasCaller(c) THEN "cancelled" ELSE pc[c] BY <1>2
  <1>6. BInv'
    <2>1. TypeOK'
      <3>1. batch' \in [Calls -> Seq(Calls)] BY <1>2
      <3>2. pc' \in [Calls -> PCs] BY <1>1, <1>2 DEF BInv, TypeOK, PCs
      <3> QED BY <1>1, <1>2, <3>1, <3>2 DEF BInv, TypeOK
    <2>2. Numbered'
      <3>1. Arrived' = Arrived BY <1>2 DEF Arrived
      <3>2. ASSUME NEW c \in Calls PROVE (arrival'[c] = 0) <=> (pc'[c] = "idle")
        <4>1. (arrival[c] = 0) <=> (pc[c] = "idle") BY <1>1 DEF BInv, Numbered
        <4> QED BY <1>2, <1>5, <4>1 DEF HasCaller
      <3> QED BY <1>1, <1>2, <3>1, <3>2 DEF BInv, Numbered
    <2>3. Counted' BY <1>2, FS_EmptySet DEF Counted, GuardsCounted
    <2>4. Formed' BY <1>2, <1>4 DEF Formed, Running
    <2>5. Apart' BY <1>2, <1>4 DEF Apart
    <2>6. Led' BY <1>4, <1>5 DEF Led, Running, HasCaller
    <2>7. WaitersAreQueued' BY <1>5 DEF WaitersAreQueued, HasCaller
    <2>8. StartsInOrder' BY <1>3 DEF StartsInOrder
    <2> QED BY <2>1, <2>2, <2>3, <2>4, <2>5, <2>6, <2>7, <2>8 DEF BInv
  <1>7. TxnTypes'
    <2>1. phase' \in [Calls -> Phases] /\ done' \in [Calls -> Nat] BY <1>2 DEF Phases
    <2>2. mapSize' \in Nat BY <1>1, <1>2, OneBatcher, LenProperties DEF TxnTypes
    <2> QED BY <1>1, <1>2, <2>1, <2>2 DEF TxnTypes
  <1>8. TxnsOpen' BY <1>2, OneBatcher DEF TxnsOpen
  <1>9. LogTells' /\ CommitsInOrder'
    <2>1. log \in Seq(Calls) BY <1>1 DEF TxnTypes
    <2>2. \A c \in Calls : Logged(c) => pc'[c] \in {pc[c], "cancelled"} /\ arrival'[c] = arrival[c]
      BY <1>2, <1>5
    <2>3. \A d \in Calls : pc'[d] \notin {"inline", "waiting"} BY <1>5 DEF HasCaller
    <2> QED BY <1>1, <1>2, <1>3, <1>4, <2>1, <2>2, <2>3, LogStays
  <1> QED BY <1>1, <1>2, <1>6, <1>7, <1>8, <1>9, SInvPartsNext

LEMMA StorageStarts == SInit => SInv
  <1> SUFFICES ASSUME SInit PROVE SInv OBVIOUS
  <1>1. BInv /\ ongoing <= 1 /\ dropped = {} BY BatcherStarts DEF SInit, Init
  <1>2. \A c : ~Logged(c) BY DEF SInit, Logged
  <1>3. TxnTypes BY OneBatcher DEF SInit, TxnTypes, Phases
  <1>4. TxnsOpen BY OneBatcher DEF SInit, TxnsOpen
  <1>5. LogTells /\ CommitsInOrder BY <1>2 DEF SInit, LogTells, CommitsInOrder
  <1> QED BY <1>1, <1>3, <1>4, <1>5, SInvParts

LEMMA StorageSteps == SInv /\ [SNext]_svars => SInv'
  <1> SUFFICES ASSUME SInv, [SNext]_svars PROVE SInv' OBVIOUS
  <1>1. ASSUME NEW c \in Calls, RunTxn(c) PROVE SInv' BY <1>1, RunTxnKeeps
  <1>2. ASSUME NEW c \in Calls, TakeGuard(c) \/ OpenTxn(c) \/ Body(c) \/ Resize(c) PROVE SInv'
    BY <1>2, TxnActionKeeps
  <1>3. ASSUME NEW c \in Calls, Commit(c) PROVE SInv' BY <1>3, CommitKeeps
  <1>4. ASSUME NEW c \in Calls, Fail(c) PROVE SInv' BY <1>4, FailKeeps
  <1>5. ASSUME NEW c \in Calls, AbandonTxn(c) PROVE SInv' BY <1>5, AbandonTxnKeeps
  <1>6. ASSUME NEW c \in Calls, EndRun(c) PROVE SInv' BY <1>6, EndRunKeeps
  <1>7. ASSUME NEW c \in Calls, CancelCaller(c) PROVE SInv' BY <1>7, CancelCallerKeeps
  <1>8. ASSUME NEW r \in Readers, StartReading(r) \/ EndReading(r) PROVE SInv' BY <1>8, ReaderKeeps
  <1>9. CASE Crash BY <1>9, CrashKeeps
  <1>10. CASE UNCHANGED svars BY <1>10, StorageIdles
  <1> QED BY <1>1, <1>2, <1>3, <1>4, <1>5, <1>6, <1>7, <1>8, <1>9, <1>10 DEF SNext

\* Queue, transactions and log agree, whatever fails, is cancelled or crashes.
THEOREM StorageInvariant == SSpec => []SInv
  BY StorageStarts, StorageSteps, PTL DEF SSpec

\* The state of the storage keeps its types.
THEOREM StorageTypeCorrect == SSpec => []StorageTypeOK
  BY StorageInvariant, PTL DEF SInv

\* Batches never overlap, and LMDB's one write transaction never outlives its run.
THEOREM Transactions == SSpec => []TransactionsAccounted
  BY StorageInvariant, PTL DEF SInv

\* Bodies whose callers stay are in the store in the order they were asked for.
THEOREM CommitOrder == SSpec => []CommitsInOrder
  BY StorageInvariant, PTL DEF SInv

-----------------------------------------------------------------------------
LEMMA AnswerIs ==
  ASSUME NEW c \in Calls
  PROVE  /\ pc[c] = "idle" => answer[c] = "none"
         /\ HasCaller(c) => answer[c] = "pending"
         /\ pc[c] = "cancelled" => answer[c] = "gone"
         /\ pc[c] \in {"ok", "err"} => answer[c] = pc[c]
         /\ pc'[c] = "idle" => answer'[c] = "none"
         /\ HasCaller(c)' => answer'[c] = "pending"
         /\ pc'[c] = "cancelled" => answer'[c] = "gone"
         /\ pc'[c] \in {"ok", "err"} => answer'[c] = pc'[c]
         /\ pc'[c] = pc[c] => answer'[c] = answer[c]
  BY DEF answer, HasCaller

LEMMA AnswersAreSame ==
  ASSUME \A c \in Calls : answer'[c] = answer[c]
  PROVE  answer' = answer
  <1>1. answer = [c \in Calls |-> answer[c]] BY DEF answer
  <1>2. answer' = [c \in Calls |-> answer'[c]] BY DEF answer
  <1> QED BY <1>1, <1>2

\* The group of a run gets its answers, the others keep theirs.
LEMMA GroupAnswered ==
  ASSUME SInv, NEW l \in Calls, NEW res \in {"ok", "err"}, Answer(l, res)
  PROVE  /\ Promise!Answers(Members(batch[l]), res)
         /\ \A c \in Members(batch[l]) : c \in Calls /\ Promise!CanJoin(c)
  <1>1. BInv /\ LogTells BY SInvParts
  <1>2. /\ \A c \in Members(batch[l]) : HasCaller(c) => pc'[c] = res
        /\ \A c \in Members(batch[l]) : ~HasCaller(c) => pc'[c] = "cancelled" /\ pc[c] = "cancelled"
        /\ \A c \in Calls : c \notin Members(batch[l]) => pc'[c] = pc[c]
        /\ \A c \in Members(batch[l]) : c \in Calls
    BY <1>1, AnsweredIs
  <1>3. ASSUME NEW c \in Calls
        PROVE  answer'[c] = IF c \in Members(batch[l]) /\ answer[c] = "pending" THEN res ELSE answer[c]
    <2>1. CASE c \in Members(batch[l]) /\ HasCaller(c)
      <3>1. pc'[c] = res BY <1>2, <2>1
      <3> QED BY <2>1, <3>1, AnswerIs
    <2>2. CASE c \in Members(batch[l]) /\ ~HasCaller(c)
      <3>1. pc'[c] = "cancelled" /\ pc[c] = "cancelled" BY <1>2, <2>2
      <3> QED BY <3>1, AnswerIs
    <2>3. CASE c \notin Members(batch[l])
      <3>1. pc'[c] = pc[c] BY <1>2, <2>3
      <3> QED BY <2>3, <3>1, AnswerIs
    <2> QED BY <2>1, <2>2, <2>3
  <1>4. answer' = [c \in Calls |-> answer'[c]] BY DEF answer
  <1>5. Promise!Answers(Members(batch[l]), res) BY <1>3, <1>4 DEF Promise!Answers
  <1>6. ASSUME NEW c \in Members(batch[l]) PROVE Promise!CanJoin(c)
    <2>1. c \in Calls /\ ~Logged(c) BY <1>1, <1>2 DEF LogTells
    <2>2. HasCaller(c) \/ pc[c] = "cancelled" BY <1>2
    <2>3. answer[c] \in {"pending", "gone"} BY <2>1, <2>2, AnswerIs
    <2>4. ~Promise!InLog(c) BY <2>1 DEF Promise!InLog, Logged
    <2> QED BY <2>3, <2>4 DEF Promise!CanJoin
  <1> QED BY <1>2, <1>5, <1>6

LEMMA RunTxnAsks ==
  ASSUME SInv, NEW c \in Calls, RunTxn(c)
  PROVE  Promise!Ask(c)
  <1>1. BInv /\ ongoing <= 1 BY SInvParts
  <1>2. CallInline(c) \/ CallQueued(c) BY DEF RunTxn
  <1>3. /\ pc[c] = "idle" /\ pc'[c] \in {"inline", "waiting"}
        /\ \A d \in Calls : d # c => pc'[d] = pc[d]
    BY <1>1, <1>2, AskedIs
  <1>4. answer[c] = "none" /\ answer'[c] = "pending" BY <1>3, AnswerIs DEF HasCaller
  <1>5. \A d \in Calls : d # c => answer'[d] = answer[d] BY <1>3, AnswerIs
  <1>6. answer' = [d \in Calls |-> answer'[d]] /\ answer = [d \in Calls |-> answer[d]] BY DEF answer
  <1>7. answer' = [answer EXCEPT ![c] = "pending"] BY <1>4, <1>5, <1>6
  <1> QED BY <1>4, <1>7 DEF Promise!Ask, RunTxn, txn

\* What a batch appends to the log, read back.
LEMMA Appended ==
  ASSUME NEW s \in Seq(Calls), NEW t \in Seq(Calls), t # <<>>
  PROVE  /\ Len(s) + 1 \in 1..Len(s \o t)
         /\ SubSeq(s \o t, 1, Len(s)) = s
         /\ SubSeq(s \o t, Len(s) + 1, Len(s \o t)) = t
  <1> DEFINE u == s \o t
             n == Len(s)
  <1>1. /\ u \in Seq(Calls) /\ Len(u) = n + Len(t)
        /\ \A i \in 1..(n + Len(t)) : u[i] = IF i <= n THEN s[i] ELSE t[i - n]
    BY ConcatProperties
  <1>2. n \in Nat /\ Len(t) \in Nat \ {0} BY EmptySeq, LenProperties
  <1> HIDE DEF u, n
  <1>3. \A i \in 1..Len(u) : u[i] \in Calls BY <1>1, ElementOfSeq
  <1>4. SubSeq(u, 1, n) = s
    <2>1. \A i \in 1..n : u[i] \in Calls BY <1>1, <1>2, <1>3
    <2>2. /\ SubSeq(u, 1, n) \in Seq(Calls) /\ Len(SubSeq(u, 1, n)) = IF 1 <= n THEN n - 1 + 1 ELSE 0
          /\ \A i \in 1..(n - 1 + 1) : SubSeq(u, 1, n)[i] = u[1 + i - 1]
      BY <1>2, <2>1, SubSeqProperties
    <2> DEFINE v == SubSeq(u, 1, n)
    <2>3. v \in Seq(Calls) /\ Len(v) = n /\ \A i \in 1..n : v[i] = s[i] BY <1>1, <1>2, <2>2
    <2> HIDE DEF v
    <2>4. v = s BY <2>3, SeqEqual DEF n
    <2> QED BY <2>4 DEF v
  <1>5. SubSeq(u, n + 1, n + Len(t)) = t
    <2>1. \A i \in (n + 1)..(n + Len(t)) : u[i] \in Calls BY <1>1, <1>2, <1>3
    <2> DEFINE v == SubSeq(u, n + 1, n + Len(t))
    <2>2. /\ v \in Seq(Calls)
          /\ Len(v) = IF n + 1 <= n + Len(t) THEN (n + Len(t)) - (n + 1) + 1 ELSE 0
          /\ \A i \in 1..((n + Len(t)) - (n + 1) + 1) : v[i] = u[(n + 1) + i - 1]
      BY <1>2, <2>1, SubSeqProperties
    <2> HIDE DEF v
    <2>3. v \in Seq(Calls) /\ Len(v) = Len(t) /\ \A i \in 1..Len(t) : v[i] = u[n + i] BY <1>2, <2>2
    <2>4. \A i \in 1..Len(t) : u[n + i] = t[i]
      <3> SUFFICES ASSUME NEW i \in 1..Len(t) PROVE u[n + i] = t[i] OBVIOUS
      <3>1. n + i \in 1..(n + Len(t)) /\ ~(n + i <= n) /\ (n + i) - n = i BY <1>2
      <3> QED BY <1>1, <3>1
    <2>5. v = t BY <2>3, <2>4, SeqEqual
    <2> QED BY <2>5 DEF v
  <1> QED BY <1>1, <1>2, <1>4, <1>5 DEF u, n

LEMMA CommitIsPromised ==
  ASSUME SInv, NEW l \in Calls, Commit(l)
  PROVE  Promise!Commit
  <1> DEFINE s == batch[l]
             n == Len(log) + 1
  <1>1. BInv /\ TxnTypes BY SInvParts
  <1>2. Answer(l, "ok") /\ log' = log \o s BY DEF Commit
  <1>3. Running(l) /\ s \in Seq(Calls) /\ log \in Seq(Calls) /\ s # <<>>
    BY <1>1, <1>2 DEF Answer, Running, BInv, TypeOK, TxnTypes
  <1>4. /\ n \in 1..Len(log') /\ SubSeq(log', 1, n - 1) = log
        /\ SubSeq(log', n, Len(log')) = s
    <2>1. n - 1 = Len(log) BY <1>3, LenProperties
    <2> QED BY <1>2, <1>3, <2>1, Appended
  <1>5. \A i, j \in DOMAIN s : i # j => s[i] # s[j]
    <2> SUFFICES ASSUME NEW i \in DOMAIN s, NEW j \in DOMAIN s, i # j, s[i] = s[j] PROVE FALSE
      OBVIOUS
    <2>1. IsBatch(s, BatcherOf[l], pc, arrival) BY <1>1, <1>3 DEF BInv, Formed
    <2>2. arrival[s[i]] \in Nat /\ i \in Int /\ j \in Int BY <1>1, <1>3 DEF BInv, TypeOK
    <2>3. i < j \/ j < i BY <2>2
    <2> QED BY <2>1, <2>2, <2>3 DEF IsBatch
  <1>6. /\ Promise!Answers(Members(s), "ok") /\ \A c \in Members(s) : Promise!CanJoin(c)
    BY <1>2, GroupAnswered
  <1> DEFINE new == SubSeq(log', n, Len(log'))
             group == {new[i] : i \in DOMAIN new}
  <1>7. group = Members(s) BY <1>4 DEF Members
  <1>8. \A i, j \in DOMAIN new : i # j => new[i] # new[j] BY <1>4, <1>5
  <1>9. \A c \in group : Promise!CanJoin(c) BY <1>6, <1>7
  <1>10. Promise!Answers(group, "ok") BY <1>6, <1>7
  <1> HIDE DEF s, n
  <1> QED BY <1>4, <1>8, <1>9, <1>10 DEF Promise!Commit

LEMMA FailIsPromised ==
  ASSUME SInv, NEW l \in Calls, Fail(l)
  PROVE  Promise!Fail
  <1>1. Answer(l, "err") /\ log' = log BY DEF Fail
  <1>2. /\ Promise!Answers(Members(batch[l]), "err")
        /\ \A c \in Members(batch[l]) : c \in Calls /\ Promise!CanJoin(c)
    BY <1>1, GroupAnswered
  <1>3. Members(batch[l]) \in SUBSET {c \in Calls : Promise!CanJoin(c)} BY <1>2
  <1> QED BY <1>1, <1>2, <1>3 DEF Promise!Fail

\* Callers that go away are all a cancellation and a crash show of themselves.
LEMMA LeavingIsPromised ==
  ASSUME log' = log, \A c \in Calls : pc'[c] = pc[c] \/ (HasCaller(c) /\ pc'[c] = "cancelled")
  PROVE  Promise!Leave \/ UNCHANGED Promise!vars
  <1>1. \A c \in Calls : answer'[c] = answer[c] \/ (answer[c] = "pending" /\ answer'[c] = "gone")
    BY AnswerIs
  <1>2. CASE answer' = answer BY <1>2 DEF Promise!vars
  <1>3. CASE answer' # answer BY <1>1, <1>3 DEF Promise!Leave
  <1> QED BY <1>2, <1>3

LEMMA StepIsPromised ==
  ASSUME SInv, [SNext]_svars
  PROVE  [Promise!Next]_Promise!vars
  <1>0. BInv BY SInvParts
  <1>1. ASSUME NEW c \in Calls, RunTxn(c) PROVE Promise!Next
    BY <1>1, RunTxnAsks DEF Promise!Next
  <1>2. ASSUME NEW c \in Calls, Commit(c) PROVE Promise!Next
    BY <1>2, CommitIsPromised DEF Promise!Next
  <1>3. ASSUME NEW c \in Calls, Fail(c) PROVE Promise!Next
    BY <1>3, FailIsPromised DEF Promise!Next
  <1>4. ASSUME log' = log, pc' = pc PROVE UNCHANGED Promise!vars
    BY <1>4, AnswerIs, AnswersAreSame DEF Promise!vars
  <1>5. ASSUME NEW c \in Calls, CancelCaller(c) PROVE Promise!Next \/ UNCHANGED Promise!vars
    <2> DEFINE status == [pc EXCEPT ![c] = "cancelled"]
    <2>1. Cancel(c) /\ log' = log /\ HasCaller(c) BY <1>5 DEF CancelCaller, Cancel
    <2>2. /\ status \in [Calls -> PCs]
          /\ \A d \in Calls : status[d] = pc[d] \/ (HasCaller(d) /\ status[d] = "cancelled")
      BY <1>0, <2>1 DEF BInv, TypeOK, PCs
    <2>3. pc' = status
      <3>1. CASE pc[c] = "inline"
        <4>1. KickOff(c, status) BY <2>1, <3>1 DEF Cancel
        <4>2. \A d \in Calls : status[d] = "waiting" => pc[d] = "waiting" BY <2>2
        <4> HIDE DEF status
        <4> QED BY <1>0, <2>2, <4>1, <4>2, KickOffIs
      <3>2. CASE pc[c] # "inline" BY <2>1, <3>2 DEF Cancel
      <3> QED BY <3>1, <3>2
    <2> HIDE DEF status
    <2> QED BY <2>1, <2>2, <2>3, LeavingIsPromised DEF Promise!Next
  <1>6. ASSUME Crash PROVE Promise!Next \/ UNCHANGED Promise!vars
    <2>1. log' = log /\ \A c \in Calls : pc'[c] = pc[c] \/ (HasCaller(c) /\ pc'[c] = "cancelled")
      BY <1>6 DEF Crash
    <2> QED BY <2>1, LeavingIsPromised DEF Promise!Next
  <1>7. ASSUME NEW c \in Calls,
               TakeGuard(c) \/ OpenTxn(c) \/ Body(c) \/ Resize(c) \/ AbandonTxn(c)
        PROVE  UNCHANGED Promise!vars
    <2>1. log' = log /\ pc' = pc
      BY <1>7 DEF TakeGuard, OpenTxn, Body, Resize, AbandonTxn, Abandon, vars
    <2> QED BY <1>4, <2>1
  <1>8. ASSUME NEW c \in Calls, EndRun(c) PROVE UNCHANGED Promise!vars
    <2>1. KickOff(c, pc) /\ log' = log BY <1>8 DEF EndRun, Release, txn
    <2>2. pc \in [Calls -> PCs] BY <1>0 DEF BInv, TypeOK
    <2>3. pc' = pc BY <1>0, <2>1, <2>2, KickOffIs
    <2> QED BY <1>4, <2>1, <2>3
  <1>9. ASSUME NEW r \in Readers, StartReading(r) \/ EndReading(r) PROVE UNCHANGED Promise!vars
    <2>1. log' = log /\ pc' = pc BY <1>9 DEF StartReading, EndReading, vars
    <2> QED BY <1>4, <2>1
  <1>10. ASSUME UNCHANGED svars PROVE UNCHANGED Promise!vars
    <2>1. log' = log /\ pc' = pc BY <1>10 DEF svars, txn, vars
    <2> QED BY <1>4, <2>1
  <1> QED BY <1>1, <1>2, <1>3, <1>5, <1>6, <1>7, <1>8, <1>9, <1>10 DEF SNext

\* The storage keeps the promise to its callers: a batch commits entirely or not at all,
\* no body twice, and no answer is false.
THEOREM StorageKeepsPromise == SSpec => KeepsPromise
  <1>1. SInit => Promise!Init
    <2> SUFFICES ASSUME SInit PROVE Promise!Init OBVIOUS
    <2>1. \A c \in Calls : answer[c] = "none" BY AnswerIs DEF SInit, Init
    <2>2. answer = [c \in Calls |-> answer[c]] BY DEF answer
    <2>3. answer = [c \in Calls |-> "none"] BY <2>1, <2>2
    <2> QED BY <2>3 DEF Promise!Init, SInit
  <1>2. SInv /\ [SNext]_svars => [Promise!Next]_Promise!vars BY StepIsPromised
  <1> QED BY <1>1, <1>2, StorageInvariant, PTL DEF SSpec, KeepsPromise, Promise!Spec

=============================================================================
