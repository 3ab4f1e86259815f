------------------------------ MODULE Storage ------------------------------
(***************************************************************************)
(* The app store's write path: the bodies of Storage::run_txn, batched by  *)
(* Batcher into write transactions, a full map resized under the           *)
(* coordinator's write guard and the batch retried, beside readers that    *)
(* hold the coordinator's read guard.                                      *)
(* Source: StorageInner, TxnRunner and Storage::run_txn in                 *)
(* rust/core/src/state_store/storage.rs, read_txn in app_store.rs, txn.rs. *)
(*                                                                         *)
(* A body writes one row, its call; a row takes one page of the map, which *)
(* is found full by the body (by the commit, with the same effect, in the  *)
(* code).  The storage lives as long as the process, so its batcher is not *)
(* dropped.                                                                *)
(***************************************************************************)
EXTENDS Batcher

CONSTANTS
  Readers,     \* transactions and listings that read
  NoWriter,    \* no write transaction is open
  InitialMap,  \* pages of the map when the store is opened first
  MaxFaults    \* bound on bodies and commits that fail, cancellations and crashes

\* A storage has one batcher, with BatchingOptions::default().
ASSUME StorageAssumption ==
  /\ \A c, d \in Calls : BatcherOf[c] = BatcherOf[d]
  /\ \A b \in Batchers : MaxSize[b] = 0
  /\ NoWriter \notin Calls
  /\ InitialMap \in Nat \ {0} /\ MaxFaults \in Nat

VARIABLES
  log,      \* rows of the store: the calls whose bodies are committed
  mapSize,  \* map_size of the LMDB environment
  phase,    \* [Calls -> where try_run_once of the run led by the call stands]
  done,     \* [Calls -> bodies of the run that are through in this attempt]
  writer,   \* run whose write transaction is open in LMDB
  reading,  \* readers that hold a read guard
  read,     \* readers that are through
  faults

txn == <<log, mapSize, phase, done, writer, reading, read, faults>>
svars == <<vars, txn>>

Phases == {"start", "guarded", "writing", "full"}

\* Runs that hold a read guard of the coordinator.
Guarded == {l \in Calls : phase[l] \in {"guarded", "writing"}}
\* A task waits for the write guard: tokio's lock lets no new reader past it.
Resizing == \E l \in Calls : phase[l] = "full"

-----------------------------------------------------------------------------
SInit ==
  /\ Init
  /\ log = <<>> /\ mapSize = InitialMap
  /\ phase = [l \in Calls |-> "start"] /\ done = [l \in Calls |-> 0]
  /\ writer = NoWriter
  /\ reading = {} /\ read = {}
  /\ faults = 0

\* run_txn: the body goes to the batcher.
RunTxn(c) == (CallInline(c) \/ CallQueued(c)) /\ UNCHANGED txn

\* try_run_once: the read guard, then LMDB's one write transaction.
TakeGuard(l) ==
  /\ Running(l) /\ phase[l] = "start"
  /\ ~Resizing
  /\ phase' = [phase EXCEPT ![l] = "guarded"]
  /\ UNCHANGED <<vars, log, mapSize, done, writer, reading, read, faults>>

OpenTxn(l) ==
  /\ phase[l] = "guarded" /\ writer = NoWriter
  /\ writer' = l
  /\ phase' = [phase EXCEPT ![l] = "writing"]
  /\ UNCHANGED <<vars, log, mapSize, done, reading, read, faults>>

\* Mutant of CloseTxn: the transaction stays open.
CloseTxnNot(l, p) ==
  /\ phase' = [phase EXCEPT ![l] = p]
  /\ done' = [done EXCEPT ![l] = 0]
  /\ UNCHANGED writer

\* The transaction and the guard of l are dropped, in phase p afterwards.
CloseTxn(l, p) ==
  /\ writer' = IF writer = l THEN NoWriter ELSE writer
  /\ phase' = [phase EXCEPT ![l] = p]
  /\ done' = [done EXCEPT ![l] = 0]

HasRoom(l) == Len(log) + done[l] < mapSize

\* The next body.  On a full map the attempt ends.
Body(l) ==
  /\ phase[l] = "writing" /\ done[l] < Len(batch[l])
  /\ IF HasRoom(l)
     THEN done' = [done EXCEPT ![l] = @ + 1] /\ UNCHANGED <<writer, phase>>
     ELSE CloseTxn(l, "full")
  /\ UNCHANGED <<vars, log, mapSize, reading, read, faults>>

\* commit, and the answers of Batcher.
Commit(l) ==
  /\ phase[l] = "writing" /\ done[l] = Len(batch[l])
  /\ log' = log \o batch[l]
  /\ CloseTxn(l, "start")
  /\ Answer(l, "ok")
  /\ UNCHANGED <<mapSize, reading, read, faults>>

\* Mutant of Fail: the bodies before the one that failed are committed.
FailPartly(l) ==
  /\ phase[l] \in {"guarded", "writing", "full"}
  /\ faults < MaxFaults /\ faults' = faults + 1
  /\ log' = log \o SubSeq(batch[l], 1, done[l])
  /\ CloseTxn(l, "start")
  /\ Answer(l, "err")
  /\ UNCHANGED <<mapSize, reading, read>>

\* A body, the commit or the resize returns another error: the whole batch is rolled back.
Fail(l) ==
  /\ phase[l] \in {"guarded", "writing", "full"}
  /\ faults < MaxFaults /\ faults' = faults + 1
  /\ CloseTxn(l, "start")
  /\ Answer(l, "err")
  /\ UNCHANGED <<log, mapSize, reading, read>>

\* Mutant of Resize: the map is as large as it was.
ResizeToSame(l) ==
  /\ phase[l] = "full"
  /\ Guarded = {} /\ reading = {}
  /\ phase' = [phase EXCEPT ![l] = "start"]
  /\ UNCHANGED <<vars, log, mapSize, done, writer, reading, read, faults>>

\* resize_on_map_full: the write guard waits for every transaction of the process.
Resize(l) ==
  /\ phase[l] = "full"
  /\ Guarded = {} /\ reading = {}
  /\ mapSize' = 2 * mapSize
  /\ phase' = [phase EXCEPT ![l] = "start"]
  /\ UNCHANGED <<vars, log, done, writer, reading, read, faults>>

\* The runner's future is dropped: all callers are gone, or the abort takes effect.
AbandonTxn(l) ==
  /\ Abandon(l)
  /\ CloseTxn(l, "start")
  /\ UNCHANGED <<log, mapSize, reading, read, faults>>

EndRun(l) == Release(l) /\ UNCHANGED txn

CancelCaller(c) ==
  /\ faults < MaxFaults /\ faults' = faults + 1
  /\ Cancel(c)
  /\ UNCHANGED <<log, mapSize, phase, done, writer, reading, read>>

\* read_txn: the guard is held until the transaction is dropped.
StartReading(r) ==
  /\ r \notin reading \cup read /\ ~Resizing
  /\ reading' = reading \cup {r}
  /\ UNCHANGED <<vars, log, mapSize, phase, done, writer, read, faults>>

EndReading(r) ==
  /\ r \in reading
  /\ reading' = reading \ {r} /\ read' = read \cup {r}
  /\ UNCHANGED <<vars, log, mapSize, phase, done, writer, faults>>

\* The process dies and opens the store again: what is committed is there, and the
\* map is as large as the settings say and the rows need.
Crash ==
  /\ faults < MaxFaults /\ faults' = faults + 1
  /\ ongoing' = 0 /\ pending' = <<>>
  /\ batch' = [c \in Calls |-> <<>>] /\ guards' = {}
  /\ pc' = [c \in Calls |-> IF HasCaller(c) THEN "cancelled" ELSE pc[c]]
  /\ phase' = [l \in Calls |-> "start"] /\ done' = [l \in Calls |-> 0]
  /\ writer' = NoWriter /\ reading' = {}
  /\ mapSize' = IF Len(log) > InitialMap THEN Len(log) ELSE InitialMap
  /\ UNCHANGED <<dropped, arrival, log, read>>

SNext ==
  \/ \E c \in Calls :
       \/ RunTxn(c) \/ TakeGuard(c) \/ OpenTxn(c) \/ Body(c) \/ Commit(c) \/ Fail(c)
       \/ Resize(c) \/ AbandonTxn(c) \/ EndRun(c) \/ CancelCaller(c)
  \/ \E r \in Readers : StartReading(r) \/ EndReading(r)
  \/ Crash

SSpec == SInit /\ [][SNext]_svars

\* The steps of a run that tokio will poll; an abort is delivered; a reader ends.
RunStep(l) ==
  TakeGuard(l) \/ OpenTxn(l) \/ Body(l) \/ Commit(l) \/ Resize(l) \/ AbandonTxn(l) \/ EndRun(l)

SFairSpec ==
  /\ SSpec
  /\ \A l \in Calls : WF_svars(RunStep(l))
  /\ \A r \in Readers : WF_svars(EndReading(r))

-----------------------------------------------------------------------------
StorageTypeOK ==
  /\ TypeOK
  /\ log \in Seq(Calls) /\ mapSize \in Nat
  /\ phase \in [Calls -> Phases] /\ done \in [Calls -> Nat]
  /\ writer \in Calls \cup {NoWriter}
  /\ reading \subseteq Readers /\ read \subseteq Readers
  /\ faults \in Nat

\* Batches never overlap, but for the transaction of an inline call that was cancelled,
\* and LMDB's one write transaction is open only while a run is in it: it never outlives
\* its run, whether that is answered, retried or abandoned.
TransactionsAccounted ==
  /\ Cardinality(guards) <= 1
  /\ \A l \in Calls : Running(l) /\ l \notin guards =>
       batch[l] = <<l>> /\ pc[l] = "cancelled"
  /\ \A l \in Calls : writer = l <=> phase[l] = "writing"
  /\ \A l \in Calls : phase[l] # "start" => Running(l)

\* Two callers that both stay find their bodies in the store in the order they asked
\* for them ("FIFO: the first caller executes inline; concurrent callers queue up").
CommitsInOrder ==
  \A i, j \in DOMAIN log :
    i < j /\ pc[log[i]] # "cancelled" /\ pc[log[j]] # "cancelled" =>
      arrival[log[i]] < arrival[log[j]]

\* What the caller of a call has of it.
answer ==
  [c \in Calls |->
    CASE pc[c] = "idle" -> "none"
      [] HasCaller(c) -> "pending"
      [] pc[c] = "cancelled" -> "gone"
      [] OTHER -> pc[c]]

Promise == INSTANCE GroupCommit WITH answer <- answer

\* The batches, retries and resizes of the storage implement the promise to its callers:
\* a group commits entirely or not at all, no body twice, and no answer is false.
KeepsPromise == Promise!Spec
=============================================================================
