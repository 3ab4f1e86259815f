---------------------------- MODULE IdSequencer ----------------------------
(***************************************************************************)
(* Stable ids: calls that are memoized with the id they were given, an     *)
(* in-memory buffer of ids per key, and the counter in the app's store     *)
(* from which the buffer is refilled.                                      *)
(* Source: IdSequencerManager::next_id in                                  *)
(* rust/core/src/engine/id_sequencer.rs, reserve_id_range_in_txn in        *)
(* rust/core/src/state_store/app_store.rs, Storage::drop_app in            *)
(* storage.rs, IdGenerator in rust/sdk/grepify/src/id.rs and               *)
(* python/grepify/resources/id.py.                                         *)
(*                                                                         *)
(* The write transaction of a refill is one step that comes after the step *)
(* that hands it to the write batcher: a caller cancelled in between leaves*)
(* a transaction behind that may still commit, to nobody's use.            *)
(***************************************************************************)
EXTENDS Naturals, FiniteSets

CONSTANTS
  Calls,        \* memoized calls that hold an id, by (generator, dep, ordinal)
  Keys,         \* keys of sequencers
  NoCall,       \* nobody holds the lock
  InitialBatch, MaxBatch,  \* INITIAL_BATCH_SIZE and MAX_BATCH_SIZE
  AppIsKept,    \* may the App object be used again after its drop()?
  MaxId,        \* bound on the counter
  MaxFaults     \* bound on crashes and dropped apps

ASSUME BatchAssumption == InitialBatch \in Nat \ {0} /\ MaxBatch \in Nat \ {0}
ASSUME CallAssumption == NoCall \notin Calls
ASSUME IdBounds == AppIsKept \in BOOLEAN /\ MaxId \in Nat /\ MaxFaults \in Nat

VARIABLES
  next,       \* [Keys -> IdSequencerInfo.next_id of the store, 1 without a row]
  seq,        \* [Keys -> SequencerState]
  lock,       \* [Keys -> call that holds the mutex of the sequencer]
  pc,         \* [Calls -> where next_id stands]
  keyOf,      \* [Calls -> key asked for]
  start,      \* [Calls -> first id of the range its transaction reserved]
  left,       \* ranges whose caller is gone and whose transaction may commit: <<key, count>>
  id,         \* [Calls -> id in the memo row of the call, 0 without one]
  used,       \* [Keys -> ids handed out in this life of the app]
  faults

vars == <<next, seq, lock, pc, keyOf, start, left, id, used, faults>>

PCs == {"idle", "locked", "reserving", "reserved"}

\* SequencerState::new
FreshSequencer == [next_local_id |-> 0, buffer_end |-> 0, next_batch_size |-> InitialBatch]

NeedsRefill(k) == seq[k].next_local_id >= seq[k].buffer_end

Smaller(a, b) == IF a <= b THEN a ELSE b

\* refill
Refilled(s, first) ==
  [next_local_id   |-> first,
   buffer_end      |-> first + s.next_batch_size,
   next_batch_size |-> Smaller(s.next_batch_size * 2, MaxBatch)]

-----------------------------------------------------------------------------
Init ==
  /\ next = [k \in Keys |-> 1]
  /\ seq = [k \in Keys |-> FreshSequencer]
  /\ lock = [k \in Keys |-> NoCall]
  /\ pc = [c \in Calls |-> "idle"]
  /\ keyOf \in [Calls -> Keys]
  /\ start = [c \in Calls |-> 0]
  /\ left = {}
  /\ id = [c \in Calls |-> 0]
  /\ used = [k \in Keys |-> {}]
  /\ faults = 0

\* A call without a memo row asks for an id and gets the sequencer's mutex.
Lock(c) ==
  /\ pc[c] = "idle" /\ id[c] = 0
  /\ lock[keyOf[c]] = NoCall
  /\ lock' = [lock EXCEPT ![keyOf[c]] = c]
  /\ pc' = [pc EXCEPT ![c] = "locked"]
  /\ UNCHANGED <<next, seq, keyOf, start, left, id, used, faults>>

\* The buffer is empty: the transaction goes to the write batcher, the mutex stays locked.
Refill(c) ==
  /\ pc[c] = "locked" /\ NeedsRefill(keyOf[c])
  /\ pc' = [pc EXCEPT ![c] = "reserving"]
  /\ UNCHANGED <<next, seq, lock, keyOf, start, left, id, used, faults>>

\* Mutant of Reserve: the counter of the store is read and not written.
ReserveReadOnly(c) ==
  /\ pc[c] = "reserving"
  /\ start' = [start EXCEPT ![c] = next[keyOf[c]]]
  /\ pc' = [pc EXCEPT ![c] = "reserved"]
  /\ UNCHANGED <<next, seq, lock, keyOf, left, id, used, faults>>

\* reserve_id_range_in_txn, committed.
Reserve(c) ==
  LET k == keyOf[c] IN
  /\ pc[c] = "reserving"
  /\ next[k] + seq[k].next_batch_size <= MaxId
  /\ start' = [start EXCEPT ![c] = next[k]]
  /\ next' = [next EXCEPT ![k] = @ + seq[k].next_batch_size]
  /\ pc' = [pc EXCEPT ![c] = "reserved"]
  /\ UNCHANGED <<seq, lock, keyOf, left, id, used, faults>>

\* Mutant of Take: the buffer is not advanced.
TakeAgain(c, s) ==
  LET k == keyOf[c] IN
  /\ id' = [id EXCEPT ![c] = s.next_local_id]
  /\ used' = [used EXCEPT ![k] = @ \cup {s.next_local_id}]
  /\ seq' = [seq EXCEPT ![k] = s]
  /\ lock' = [lock EXCEPT ![k] = NoCall]
  /\ pc' = [pc EXCEPT ![c] = "idle"]

\* take_id on a sequencer s; the call stores the id in its memo row.
Take(c, s) ==
  LET k == keyOf[c] IN
  /\ id' = [id EXCEPT ![c] = s.next_local_id]
  /\ used' = [used EXCEPT ![k] = @ \cup {s.next_local_id}]
  /\ seq' = [seq EXCEPT ![k] = [s EXCEPT !.next_local_id = @ + 1]]
  /\ lock' = [lock EXCEPT ![k] = NoCall]
  /\ pc' = [pc EXCEPT ![c] = "idle"]

TakeBuffered(c) ==
  /\ pc[c] = "locked" /\ ~NeedsRefill(keyOf[c])
  /\ Take(c, seq[keyOf[c]])
  /\ UNCHANGED <<next, keyOf, start, left, faults>>

TakeReserved(c) ==
  /\ pc[c] = "reserved"
  /\ Take(c, Refilled(seq[keyOf[c]], start[c]))
  /\ UNCHANGED <<next, keyOf, start, left, faults>>

\* The transaction fails, or the caller is cancelled, with or without a
\* transaction that the batcher may still run.
GiveUp(c) ==
  /\ pc[c] # "idle"
  /\ lock' = [lock EXCEPT ![keyOf[c]] = NoCall]
  /\ pc' = [pc EXCEPT ![c] = "idle"]
  /\ \/ UNCHANGED left
     \/ /\ pc[c] = "reserving"
        /\ left' = left \cup {<<keyOf[c], seq[keyOf[c]].next_batch_size>>}
  /\ UNCHANGED <<next, seq, keyOf, start, id, used, faults>>

ReserveForNobody ==
  \E r \in left :
    /\ next[r[1]] + r[2] <= MaxId
    /\ next' = [next EXCEPT ![r[1]] = @ + r[2]]
    /\ left' = left \ {r}
    /\ UNCHANGED <<seq, lock, pc, keyOf, start, id, used, faults>>

\* The memo row goes: the call is no longer made, or its run failed.
Forget(c) ==
  /\ id[c] # 0
  /\ id' = [id EXCEPT ![c] = 0]
  /\ UNCHANGED <<next, seq, lock, pc, keyOf, start, left, used, faults>>

\* The process dies and starts again: what is in memory is lost.
Crash ==
  /\ faults < MaxFaults /\ faults' = faults + 1
  /\ seq' = [k \in Keys |-> FreshSequencer]
  /\ lock' = [k \in Keys |-> NoCall]
  /\ pc' = [c \in Calls |-> "idle"]
  /\ left' = {}
  /\ UNCHANGED <<next, keyOf, start, id, used>>

\* Storage::drop_app clears the app's rows, memo rows and counters, while no
\* run of the app is in flight.  The buffers are those of the AppContext, which
\* goes with the App object, unless that is updated again.
DropApp ==
  /\ faults < MaxFaults /\ faults' = faults + 1
  /\ left = {} /\ \A c \in Calls : pc[c] = "idle"
  /\ next' = [k \in Keys |-> 1]
  /\ id' = [c \in Calls |-> 0]
  /\ used' = [k \in Keys |-> {}]
  /\ IF AppIsKept THEN UNCHANGED seq ELSE seq' = [k \in Keys |-> FreshSequencer]
  /\ UNCHANGED <<lock, pc, keyOf, start, left>>

Next ==
  \/ \E c \in Calls : Lock(c) \/ Refill(c) \/ Reserve(c) \/ TakeBuffered(c)
                      \/ TakeReserved(c) \/ GiveUp(c) \/ Forget(c)
  \/ ReserveForNobody \/ Crash \/ DropApp

Spec == Init /\ [][Next]_vars

-----------------------------------------------------------------------------
TypeOK ==
  /\ next \in [Keys -> Nat \ {0}]
  /\ seq \in [Keys -> [next_local_id : Nat, buffer_end : Nat, next_batch_size : Nat \ {0}]]
  /\ lock \in [Keys -> Calls \cup {NoCall}]
  /\ pc \in [Calls -> PCs]
  /\ keyOf \in [Calls -> Keys]
  /\ start \in [Calls -> Nat]
  /\ left \subseteq Keys \X (Nat \ {0})
  /\ id \in [Calls -> Nat]
  /\ used \in [Keys -> SUBSET Nat]
  /\ faults \in Nat

\* Two calls never hold the same id of a key, whatever is cancelled, fails,
\* crashes or is dropped, and no call holds the reserved 0
\* (id_sequencer.rs: "IDs are unique within an app for a given key").
IdsAreUnique ==
  \A c, d \in Calls :
    c # d /\ keyOf[c] = keyOf[d] /\ id[c] # 0 => id[c] # id[d]

\* Stronger, an id is handed out once in the life of an app: what was exported
\* under the id of a call that is forgotten is never confused with a later one.
NeverReissued ==
  [][\A c \in Calls : id'[c] # id[c] /\ id'[c] # 0 => id'[c] \notin used[keyOf[c]]]_vars

\* The mutex is held across the await of the transaction: whoever uses a
\* sequencer between its check and its take is alone.
LockIsHeld == \A c \in Calls : pc[c] # "idle" => lock[keyOf[c]] = c

\* What is buffered or reserved lies below the store's counter and was never handed out.
Buffered(k) == seq[k].next_local_id .. (seq[k].buffer_end - 1)
RangesAreFresh ==
  /\ \A k \in Keys : \A n \in Buffered(k) : n > 0 /\ n < next[k] /\ n \notin used[k]
  /\ \A k \in Keys : \A n \in used[k] : n > 0 /\ n < next[k]
=============================================================================
