------------------------- MODULE IdSequencer_proof -------------------------
(***************************************************************************)
(* Proofs about IdSequencer, for any calls, keys, batch sizes and bounds:  *)
(* types, uniqueness of ids and that no id is handed out twice, as long as *)
(* an App object is not used again after its drop().                       *)
(***************************************************************************)
EXTENDS IdSequencer, TLAPS

\* A call between its check and its take has an empty buffer before it, and the
\* range it reserved is below the counter and was never handed out.
ReservedIsFresh ==
  \A c \in Calls :
    LET k == keyOf[c] IN
    /\ pc[c] \in {"reserving", "reserved"} => NeedsRefill(k)
    /\ pc[c] = "reserved" =>
         /\ start[c] > 0
         /\ start[c] + seq[k].next_batch_size <= next[k]
         /\ \A n \in used[k] : n < start[c]

HeldAreUsed == \A c \in Calls : id[c] # 0 => id[c] \in used[keyOf[c]]

\* Below a buffer that is not empty lies everything handed out, above it the counter.
BufferIsFresh ==
  \A k \in Keys :
    ~NeedsRefill(k) =>
      /\ seq[k].next_local_id > 0
      /\ seq[k].buffer_end <= next[k]
      /\ \A n \in used[k] : n < seq[k].next_local_id

UsedIsBelow == \A k \in Keys : \A n \in used[k] : n > 0 /\ n < next[k]

IInv ==
  /\ TypeOK /\ LockIsHeld /\ ReservedIsFresh /\ HeldAreUsed
  /\ BufferIsFresh /\ UsedIsBelow /\ IdsAreUnique

-----------------------------------------------------------------------------
LEMMA RefilledType ==
  ASSUME NEW s \in [next_local_id : Nat, buffer_end : Nat, next_batch_size : Nat \ {0}],
         NEW first \in Nat
  PROVE  /\ Refilled(s, first) \in
              [next_local_id : Nat, buffer_end : Nat, next_batch_size : Nat \ {0}]
         /\ Refilled(s, first).next_local_id = first
         /\ Refilled(s, first).buffer_end = first + s.next_batch_size
  BY BatchAssumption DEF Refilled, Smaller

LEMMA InitInv == Init => IInv
  BY BatchAssumption, CallAssumption
  DEF Init, IInv, TypeOK, LockIsHeld, ReservedIsFresh, HeldAreUsed, BufferIsFresh, UsedIsBelow,
      IdsAreUnique, FreshSequencer, NeedsRefill, PCs

LEMMA LockInv == ASSUME IInv, NEW c \in Calls, Lock(c) PROVE IInv'
  BY CallAssumption
  DEF Lock, IInv, TypeOK, LockIsHeld, ReservedIsFresh, HeldAreUsed, BufferIsFresh, UsedIsBelow,
      IdsAreUnique, NeedsRefill, PCs

LEMMA RefillInv == ASSUME IInv, NEW c \in Calls, Refill(c) PROVE IInv'
  BY CallAssumption
  DEF Refill, IInv, TypeOK, LockIsHeld, ReservedIsFresh, HeldAreUsed, BufferIsFresh, UsedIsBelow,
      IdsAreUnique, NeedsRefill, PCs

LEMMA ReserveInv == ASSUME IInv, NEW c \in Calls, Reserve(c) PROVE IInv'
  <1> DEFINE k == keyOf[c]
  <1>1. TypeOK' BY DEF Reserve, IInv, TypeOK, PCs
  <1>2. LockIsHeld' BY DEF Reserve, IInv, TypeOK, LockIsHeld
  <1>3. next'[k] = next[k] + seq[k].next_batch_size /\ \A j \in Keys : next'[j] >= next[j]
    BY DEF Reserve, IInv, TypeOK
  <1>4. ReservedIsFresh'
    <2> SUFFICES ASSUME NEW d \in Calls
                 PROVE  LET j == keyOf[d] IN
                        /\ pc'[d] \in {"reserving", "reserved"} => NeedsRefill(j)'
                        /\ pc'[d] = "reserved" =>
                             /\ start'[d] > 0
                             /\ start'[d] + seq'[j].next_batch_size <= next'[j]
                             /\ \A n \in used'[j] : n < start'[d]
      BY DEF ReservedIsFresh, Reserve
    <2>1. CASE d = c
      BY <2>1, <1>3 DEF Reserve, IInv, TypeOK, ReservedIsFresh, UsedIsBelow, NeedsRefill
    <2>2. CASE d # c
      BY <2>2, <1>3 DEF Reserve, IInv, TypeOK, LockIsHeld, ReservedIsFresh, NeedsRefill
    <2> QED BY <2>1, <2>2
  <1>5. HeldAreUsed' /\ IdsAreUnique' BY DEF Reserve, IInv, HeldAreUsed, IdsAreUnique
  <1>6. BufferIsFresh'
    BY <1>1, <1>3 DEF Reserve, IInv, TypeOK, BufferIsFresh, NeedsRefill
  <1>7. UsedIsBelow' BY <1>1, <1>3 DEF Reserve, IInv, TypeOK, UsedIsBelow
  <1> QED BY <1>1, <1>2, <1>4, <1>5, <1>6, <1>7 DEF IInv

\* Taking the first id of a buffer that is not empty and fresh; both ways to
\* take one are instances.
LEMMA TakeInv ==
  ASSUME IInv, NEW c \in Calls, pc[c] # "idle",
         NEW s \in [next_local_id : Nat, buffer_end : Nat, next_batch_size : Nat \ {0}],
         s.next_local_id > 0, s.next_local_id < s.buffer_end,
         s.buffer_end <= next[keyOf[c]],
         \A n \in used[keyOf[c]] : n < s.next_local_id,
         Take(c, s), UNCHANGED <<next, keyOf, start, left, faults>>
  PROVE  IInv' /\ id'[c] \notin used[keyOf[c]]
  <1> DEFINE k == keyOf[c]
             new == s.next_local_id
  <1>1. TypeOK' BY DEF Take, IInv, TypeOK, PCs
  <1>2. LockIsHeld' BY DEF Take, IInv, TypeOK, LockIsHeld
  <1>3. /\ id' = [id EXCEPT ![c] = new]
        /\ used'[k] = used[k] \cup {new} /\ new \notin used[k]
        /\ \A j \in Keys : j # k => used'[j] = used[j] /\ seq'[j] = seq[j]
        /\ seq'[k].next_local_id = new + 1 /\ seq'[k].buffer_end = s.buffer_end
    BY DEF Take, IInv, TypeOK
  <1>4. ReservedIsFresh'
    <2> SUFFICES ASSUME NEW d \in Calls, pc'[d] # "idle"
                 PROVE  LET j == keyOf[d] IN
                        /\ pc'[d] \in {"reserving", "reserved"} => NeedsRefill(j)'
                        /\ pc'[d] = "reserved" =>
                             /\ start'[d] > 0
                             /\ start'[d] + seq'[j].next_batch_size <= next'[j]
                             /\ \A n \in used'[j] : n < start'[d]
      BY DEF ReservedIsFresh, Take
    <2>1. pc'[d] = pc[d] /\ d # c BY DEF Take, IInv, TypeOK
    <2>2. keyOf[d] # k BY <2>1 DEF IInv, LockIsHeld
    <2> QED BY <2>1, <2>2, <1>3 DEF IInv, TypeOK, ReservedIsFresh, NeedsRefill
  <1>5. HeldAreUsed'
    <2> SUFFICES ASSUME NEW d \in Calls, id'[d] # 0
                 PROVE  id'[d] \in used'[keyOf[d]]
      BY DEF HeldAreUsed
    <2>1. CASE d = c BY <2>1, <1>3 DEF IInv, TypeOK
    <2>2. CASE d # c
      <3>1. id'[d] = id[d] BY <2>2, <1>3 DEF IInv, TypeOK
      <3>2. id[d] \in used[keyOf[d]] BY <3>1 DEF IInv, HeldAreUsed
      <3>3. keyOf[d] \in Keys BY DEF IInv, TypeOK
      <3> QED BY <3>1, <3>2, <3>3, <1>3
    <2> QED BY <2>1, <2>2
  <1>6. BufferIsFresh'
    <2> SUFFICES ASSUME NEW j \in Keys, seq'[j].next_local_id < seq'[j].buffer_end
                 PROVE  /\ seq'[j].next_local_id > 0
                        /\ seq'[j].buffer_end <= next[j]
                        /\ \A n \in used'[j] : n < seq'[j].next_local_id
      BY <1>1 DEF BufferIsFresh, NeedsRefill, TypeOK
    <2>1. CASE j = k
      <3>1. used[k] \subseteq Nat /\ k \in Keys BY DEF IInv, TypeOK
      <3> QED BY <2>1, <3>1, <1>3
    <2>2. CASE j # k
      <3>1. seq[j].next_local_id \in Nat /\ seq[j].buffer_end \in Nat BY DEF IInv, TypeOK
      <3>2. ~NeedsRefill(j) BY <2>2, <3>1, <1>3 DEF NeedsRefill
      <3> QED BY <2>2, <3>2, <1>3 DEF IInv, BufferIsFresh
    <2> QED BY <2>1, <2>2
  <1>7. UsedIsBelow'
    <2> SUFFICES ASSUME NEW j \in Keys, NEW n \in used'[j] PROVE n > 0 /\ n < next[j]
      BY DEF UsedIsBelow, IInv, TypeOK
    <2>1. CASE j = k /\ n = new BY <2>1 DEF IInv, TypeOK
    <2>2. CASE n \in used[j] BY <2>2 DEF IInv, UsedIsBelow
    <2> QED BY <2>1, <2>2, <1>3
  <1>8. IdsAreUnique'
    <2> SUFFICES ASSUME NEW d \in Calls, NEW e \in Calls, d # e, keyOf[d] = keyOf[e], id'[d] # 0
                 PROVE  id'[d] # id'[e]
      BY DEF IdsAreUnique
    <2>1. CASE d # c /\ e # c BY <2>1, <1>3 DEF IInv, TypeOK, IdsAreUnique
    <2>2. CASE d = c
      BY <2>2, <1>3 DEF IInv, TypeOK, HeldAreUsed
    <2>3. CASE e = c
      BY <2>3, <1>3 DEF IInv, TypeOK, HeldAreUsed
    <2> QED BY <2>1, <2>2, <2>3
  <1>9. id'[c] \notin used[k] BY <1>3 DEF IInv, TypeOK
  <1> QED BY <1>1, <1>2, <1>4, <1>5, <1>6, <1>7, <1>8, <1>9 DEF IInv

LEMMA TakeBufferedInv ==
  ASSUME IInv, NEW c \in Calls, TakeBuffered(c)
  PROVE  IInv' /\ id'[c] \notin used[keyOf[c]]
  <1> DEFINE k == keyOf[c]
  <1>1. k \in Keys BY DEF IInv, TypeOK
  <1>2. /\ seq[k] \in [next_local_id : Nat, buffer_end : Nat, next_batch_size : Nat \ {0}]
        /\ next[k] \in Nat
    BY <1>1 DEF IInv, TypeOK
  <1>3. /\ seq[k].next_local_id > 0 /\ seq[k].next_local_id < seq[k].buffer_end
        /\ seq[k].buffer_end <= next[k]
        /\ \A n \in used[k] : n < seq[k].next_local_id
    BY <1>1, <1>2 DEF TakeBuffered, IInv, BufferIsFresh, NeedsRefill
  <1>4. pc[c] # "idle" /\ Take(c, seq[k]) /\ UNCHANGED <<next, keyOf, start, left, faults>>
    BY DEF TakeBuffered
  <1> QED BY <1>2, <1>3, <1>4, TakeInv

LEMMA TakeReservedInv ==
  ASSUME IInv, NEW c \in Calls, TakeReserved(c)
  PROVE  IInv' /\ id'[c] \notin used[keyOf[c]]
  <1> DEFINE k == keyOf[c]
             s == Refilled(seq[k], start[c])
  <1>1. k \in Keys BY DEF IInv, TypeOK
  <1>2. /\ seq[k] \in [next_local_id : Nat, buffer_end : Nat, next_batch_size : Nat \ {0}]
        /\ start[c] \in Nat /\ next[k] \in Nat
    BY <1>1 DEF IInv, TypeOK
  <1>3. /\ s \in [next_local_id : Nat, buffer_end : Nat, next_batch_size : Nat \ {0}]
        /\ s.next_local_id = start[c]
        /\ s.buffer_end = start[c] + seq[k].next_batch_size
    BY <1>2, RefilledType
  <1>4. /\ start[c] > 0
        /\ start[c] + seq[k].next_batch_size <= next[k]
        /\ \A n \in used[k] : n < start[c]
    BY DEF TakeReserved, IInv, ReservedIsFresh
  <1>5. pc[c] # "idle" /\ Take(c, s) /\ UNCHANGED <<next, keyOf, start, left, faults>>
    BY DEF TakeReserved
  <1>6. s.next_local_id < s.buffer_end /\ s.next_local_id > 0 /\ s.buffer_end <= next[k]
    BY <1>2, <1>3, <1>4
  <1>7. \A n \in used[k] : n < s.next_local_id BY <1>3, <1>4
  <1> HIDE DEF s
  <1> QED BY <1>3, <1>5, <1>6, <1>7, TakeInv

LEMMA GiveUpInv == ASSUME IInv, NEW c \in Calls, GiveUp(c) PROVE IInv'
  <1>1. TypeOK' BY DEF GiveUp, IInv, TypeOK, PCs
  <1>2. LockIsHeld' BY DEF GiveUp, IInv, TypeOK, LockIsHeld
  <1>3. ReservedIsFresh' BY DEF GiveUp, IInv, TypeOK, ReservedIsFresh, NeedsRefill
  <1>4. HeldAreUsed' /\ BufferIsFresh' /\ UsedIsBelow' /\ IdsAreUnique'
    BY DEF GiveUp, IInv, HeldAreUsed, BufferIsFresh, UsedIsBelow, IdsAreUnique, NeedsRefill
  <1> QED BY <1>1, <1>2, <1>3, <1>4 DEF IInv

LEMMA ReserveForNobodyInv == ASSUME IInv, ReserveForNobody PROVE IInv'
  <1>1. PICK r \in left : /\ next' = [next EXCEPT ![r[1]] = @ + r[2]]
                          /\ left' = left \ {r}
                          /\ UNCHANGED <<seq, lock, pc, keyOf, start, id, used, faults>>
    BY DEF ReserveForNobody
  <1>2. r[1] \in Keys /\ r[2] \in Nat BY DEF IInv, TypeOK
  <1>3. next' \in [Keys -> Nat \ {0}] /\ \A k \in Keys : next'[k] >= next[k]
    <2>1. next \in [Keys -> Nat \ {0}] BY DEF IInv, TypeOK
    <2> QED BY <1>1, <1>2, <2>1
  <1>4. TypeOK' BY <1>1, <1>3 DEF IInv, TypeOK
  <1>5. LockIsHeld' /\ HeldAreUsed' /\ IdsAreUnique'
    BY <1>1 DEF IInv, LockIsHeld, HeldAreUsed, IdsAreUnique
  <1>6. ReservedIsFresh'
    BY <1>1, <1>3 DEF IInv, TypeOK, ReservedIsFresh, NeedsRefill
  <1>7. BufferIsFresh' BY <1>1, <1>3 DEF IInv, TypeOK, BufferIsFresh, NeedsRefill
  <1>8. UsedIsBelow' BY <1>1, <1>3 DEF IInv, TypeOK, UsedIsBelow
  <1> QED BY <1>4, <1>5, <1>6, <1>7, <1>8 DEF IInv

LEMMA ForgetInv == ASSUME IInv, NEW c \in Calls, Forget(c) PROVE IInv'
  BY DEF Forget, IInv, TypeOK, LockIsHeld, ReservedIsFresh, HeldAreUsed, BufferIsFresh,
         UsedIsBelow, IdsAreUnique, NeedsRefill

LEMMA CrashInv == ASSUME IInv, Crash PROVE IInv'
  BY BatchAssumption
  DEF Crash, IInv, TypeOK, LockIsHeld, ReservedIsFresh, HeldAreUsed, BufferIsFresh,
      UsedIsBelow, IdsAreUnique, NeedsRefill, FreshSequencer, PCs

LEMMA DropAppInv == ASSUME IInv, ~AppIsKept, DropApp PROVE IInv'
  BY BatchAssumption
  DEF DropApp, IInv, TypeOK, LockIsHeld, ReservedIsFresh, HeldAreUsed, BufferIsFresh,
      UsedIsBelow, IdsAreUnique, NeedsRefill, FreshSequencer, PCs

LEMMA StepInv == ASSUME ~AppIsKept, IInv, [Next]_vars PROVE IInv'
  <1>1. CASE \E c \in Calls : Lock(c) \/ Refill(c) \/ Reserve(c) \/ TakeBuffered(c)
                              \/ TakeReserved(c) \/ GiveUp(c) \/ Forget(c)
    BY <1>1, LockInv, RefillInv, ReserveInv, TakeBufferedInv, TakeReservedInv, GiveUpInv, ForgetInv
  <1>2. CASE ReserveForNobody \/ Crash \/ DropApp
    BY <1>2, ReserveForNobodyInv, CrashInv, DropAppInv
  <1>3. CASE UNCHANGED vars
    BY <1>3 DEF vars, IInv, TypeOK, LockIsHeld, ReservedIsFresh, HeldAreUsed, BufferIsFresh,
                UsedIsBelow, IdsAreUnique, NeedsRefill
  <1> QED BY <1>1, <1>2, <1>3 DEF Next

\* Buffers and reserved ranges of IInv are those RangesAreFresh speaks of.
LEMMA RangesFollow == IInv => RangesAreFresh
  BY DEF IInv, TypeOK, BufferIsFresh, UsedIsBelow, RangesAreFresh, Buffered, NeedsRefill

-----------------------------------------------------------------------------
\* The inductive invariant, in every behaviour in which no App object is used after its drop().
THEOREM Invariant == ASSUME ~AppIsKept PROVE Spec => []IInv
  <1>1. Init => IInv BY InitInv
  <1>2. IInv /\ [Next]_vars => IInv' BY StepInv
  <1> QED BY <1>1, <1>2, PTL DEF Spec

\* TypeOK holds: the state of the sequencers stays within its types.
THEOREM TypeCorrect == ASSUME ~AppIsKept PROVE Spec => []TypeOK
  <1>1. IInv => TypeOK BY DEF IInv
  <1> QED BY <1>1, Invariant, PTL

\* No two memoized calls of an app hold the same id of a key (next_id of id_sequencer.rs).
THEOREM Unique == ASSUME ~AppIsKept PROVE Spec => []IdsAreUnique
  <1>1. IInv => IdsAreUnique BY DEF IInv
  <1> QED BY <1>1, Invariant, PTL

\* Buffers and the store's counter stay ahead of every id handed out (refill and
\* reserve_id_range_in_txn).
THEOREM RangesFresh == ASSUME ~AppIsKept PROVE Spec => []RangesAreFresh
  <1>1. IInv => RangesAreFresh BY RangesFollow
  <1> QED BY <1>1, Invariant, PTL

\* No id is handed out twice in the life of an app (take_id).
THEOREM Reissued == ASSUME ~AppIsKept PROVE Spec => NeverReissued
  <1> DEFINE A == \A c \in Calls : id'[c] # id[c] /\ id'[c] # 0 => id'[c] \notin used[keyOf[c]]
  <1>1. ASSUME IInv, [Next]_vars PROVE [A]_vars
    <2>1. CASE \E c \in Calls : TakeBuffered(c) \/ TakeReserved(c)
      <3>1. PICK c \in Calls : TakeBuffered(c) \/ TakeReserved(c) BY <2>1
      <3>2. id'[c] \notin used[keyOf[c]] BY <1>1, <3>1, TakeBufferedInv, TakeReservedInv
      <3>3. \A d \in Calls : d # c => id'[d] = id[d]
        BY <1>1, <3>1 DEF TakeBuffered, TakeReserved, Take, IInv, TypeOK
      <3> QED BY <3>2, <3>3
    <2>2. CASE \E c \in Calls : Lock(c) \/ Refill(c) \/ Reserve(c) \/ GiveUp(c)
      BY <2>2 DEF Lock, Refill, Reserve, GiveUp
    <2>3. CASE \E c \in Calls : Forget(c)
      BY <1>1, <2>3 DEF Forget, IInv, TypeOK
    <2>4. CASE ReserveForNobody \/ Crash \/ DropApp
      BY <2>4 DEF ReserveForNobody, Crash, DropApp
    <2>5. CASE UNCHANGED vars BY <2>5
    <2> QED BY <1>1, <2>1, <2>2, <2>3, <2>4, <2>5 DEF Next
  <1>2. IInv /\ [Next]_vars => [A]_vars BY <1>1
  <1>3. Spec => []IInv BY Invariant
  <1> QED BY <1>2, <1>3, PTL DEF Spec, NeverReissued
=============================================================================
