------------------------------ MODULE Batcher ------------------------------
(***************************************************************************)
(* Calls joined into batches: the first call on an idle queue runs inline, *)
(* later ones join the pending batch of their batcher, and whoever ends a  *)
(* run starts the oldest pending batch.  Callers may be cancelled anywhere.*)
(* Source: rust/utils/src/batching.rs.                                     *)
(*                                                                         *)
(* A run is named by the first of its calls.  What a runner does between   *)
(* the start of a run and its outcome is left to the user of this module   *)
(* (Storage), or to Finish.  A runner that panics, or that returns another *)
(* number of outputs than it had inputs, is one that fails.                *)
(***************************************************************************)
EXTENDS Naturals, Sequences, FiniteSets

CONSTANTS
  Calls,      \* calls of Batcher::run, each made once
  Batchers,   \* batchers that share the queue
  BatcherOf,  \* [Calls -> Batchers]
  MaxSize     \* [Batchers -> max_batch_size, 0 for none]

ASSUME BatcherAssumption == BatcherOf \in [Calls -> Batchers] /\ MaxSize \in [Batchers -> Nat]

VARIABLES
  ongoing,  \* ongoing_count
  pending,  \* pending_batches: <<[batcher, calls], ...>>, oldest first
  batch,    \* [Calls -> calls of the run led by the call, <<>> when there is none]
  guards,   \* leaders whose BatchKickOffNext is alive
  pc,       \* [Calls -> state of the call]
  dropped,  \* batchers that are dropped
  arrival   \* [Calls -> place in the order of arrival, 0 before]

queue == <<ongoing, pending, batch, guards>>
vars  == <<queue, pc, dropped, arrival>>

PCs == {"idle", "inline", "waiting", "ok", "err", "cancelled"}

Members(s) == {s[i] : i \in DOMAIN s}
Running(l) == batch[l] # <<>>
HasCaller(c) == pc[c] \in {"inline", "waiting"}

\* The Arc of a batcher is also held by its runs.
Alive(b) ==
  b \notin dropped \/ \E l \in Calls : BatcherOf[l] = b /\ (l \in guards \/ Running(l))

-----------------------------------------------------------------------------
Init ==
  /\ ongoing = 0 /\ pending = <<>>
  /\ batch = [c \in Calls |-> <<>>] /\ guards = {}
  /\ pc = [c \in Calls |-> "idle"]
  /\ dropped = {}
  /\ arrival = [c \in Calls |-> 0]

Arrive(c) ==
  /\ pc[c] = "idle" /\ BatcherOf[c] \notin dropped
  /\ arrival' = [arrival EXCEPT ![c] = 1 + Cardinality({d \in Calls : arrival[d] # 0})]
  /\ UNCHANGED dropped

\* Mutant of CallInline: whether the queue is idle is not looked at under its lock.
CallInlineAnyway(c) ==
  /\ Arrive(c)
  /\ ongoing' = ongoing + 1
  /\ batch' = [batch EXCEPT ![c] = <<c>>] /\ guards' = guards \cup {c}
  /\ pc' = [pc EXCEPT ![c] = "inline"]
  /\ UNCHANGED pending

\* The queue is idle.
CallInline(c) ==
  /\ Arrive(c) /\ ongoing = 0
  /\ ongoing' = 1
  /\ batch' = [batch EXCEPT ![c] = <<c>>] /\ guards' = guards \cup {c}
  /\ pc' = [pc EXCEPT ![c] = "inline"]
  /\ UNCHANGED pending

\* A batcher has at most one entry in the linked hash map.
HasEntry(b) == \E i \in DOMAIN pending : pending[i].batcher = b
EntryOf(b) == CHOOSE i \in DOMAIN pending : pending[i].batcher = b

\* Mutants of Joined: a new batch replaces the one that pends; the call comes first.
JoinedAlone(c) == <<c>>
JoinedFirst(c) ==
  IF HasEntry(BatcherOf[c]) THEN <<c>> \o pending[EntryOf(BatcherOf[c])].calls ELSE <<c>>

\* entry(..).or_insert_with(..): the entry of the batcher, new or not, goes to the
\* back (hashlink's Entry moves an occupied entry there), with the call added.
Joined(c) ==
  IF HasEntry(BatcherOf[c]) THEN Append(pending[EntryOf(BatcherOf[c])].calls, c) ELSE <<c>>
OthersPending(b) ==
  IF HasEntry(b)
  THEN SubSeq(pending, 1, EntryOf(b) - 1) \o SubSeq(pending, EntryOf(b) + 1, Len(pending))
  ELSE pending

IsFull(b, calls) == MaxSize[b] # 0 /\ Len(calls) >= MaxSize[b]

CallQueued(c) ==
  LET b == BatcherOf[c]
      calls == Joined(c)
  IN /\ Arrive(c) /\ ongoing > 0
     /\ pc' = [pc EXCEPT ![c] = "waiting"]
     /\ IF IsFull(b, calls)
        THEN /\ pending' = OthersPending(b)
             /\ batch' = [batch EXCEPT ![Head(calls)] = calls]
             /\ guards' = guards \cup {Head(calls)}
             /\ ongoing' = ongoing + 1
        ELSE /\ pending' = Append(OthersPending(b), [batcher |-> b, calls |-> calls])
             /\ UNCHANGED <<ongoing, batch, guards>>

\* Batches whose batcher can be upgraded; the others are popped on the way to the first.
Startable == {i \in DOMAIN pending : Alive(pending[i].batcher)}
FirstStartable == CHOOSE i \in Startable : \A j \in Startable : i <= j
Skipped == IF Startable = {} THEN DOMAIN pending ELSE 1..(FirstStartable - 1)

\* Drop of the BatchKickOffNext of l: when no other run is left, the first pending
\* batch of a living batcher is started; those before it are dropped with their
\* senders.  `status` is pc as it stands.
KickOff(l, status) ==
  LET next == pending[FirstStartable].calls
      lost == UNION {Members(pending[i].calls) : i \in Skipped} IN
  /\ l \in guards
  /\ pc' = [c \in Calls |->
             IF ongoing = 1 /\ c \in lost /\ status[c] = "waiting" THEN "err" ELSE status[c]]
  /\ IF ongoing = 1 /\ Startable # {}
     THEN /\ ongoing' = 1
          /\ pending' = SubSeq(pending, FirstStartable + 1, Len(pending))
          /\ guards' = (guards \ {l}) \cup {Head(next)}
          /\ batch' = [batch EXCEPT ![Head(next)] = next]
     ELSE /\ ongoing' = ongoing - 1
          /\ pending' = IF ongoing = 1 THEN <<>> ELSE pending
          /\ guards' = guards \ {l}
          /\ UNCHANGED batch

\* The outcome of a run goes to its calls, those with a caller left; the guard lives on.
Answer(l, res) ==
  /\ Running(l)
  /\ pc' = [c \in Calls |-> IF c \in Members(batch[l]) /\ HasCaller(c) THEN res ELSE pc[c]]
  /\ batch' = [batch EXCEPT ![l] = <<>>]
  /\ UNCHANGED <<ongoing, pending, guards, dropped, arrival>>

Finish(l) == \E res \in {"ok", "err"} : Answer(l, res)

\* Mutant of Release: the guard only counts.
ReleaseQuietly(l) ==
  /\ ~Running(l) /\ l \in guards
  /\ ongoing' = ongoing - 1 /\ guards' = guards \ {l}
  /\ UNCHANGED <<pending, batch, pc, dropped, arrival>>

\* The run is over and its guard goes.
Release(l) ==
  /\ ~Running(l)
  /\ KickOff(l, pc)
  /\ UNCHANGED <<dropped, arrival>>

\* The caller of a call goes away.  Of an inline call, the guard goes at once and
\* the task is aborted, which takes effect when it next waits, or never.
Cancel(c) ==
  LET status == [pc EXCEPT ![c] = "cancelled"] IN
  /\ HasCaller(c)
  /\ IF pc[c] = "inline" THEN KickOff(c, status)
     ELSE pc' = status /\ UNCHANGED queue
  /\ UNCHANGED <<dropped, arrival>>

\* num_cancelled reaches the size of the batch, or the abort takes effect: the runner is dropped.
Abandon(l) ==
  /\ Running(l)
  /\ \A c \in Members(batch[l]) : pc[c] = "cancelled"
  /\ batch' = [batch EXCEPT ![l] = <<>>]
  /\ UNCHANGED <<ongoing, pending, guards, pc, dropped, arrival>>

\* A call borrows its batcher, so the last handle can only go when no caller is left.
DropBatcher(b) ==
  /\ b \notin dropped
  /\ \A c \in Calls : BatcherOf[c] = b => ~HasCaller(c)
  /\ dropped' = dropped \cup {b}
  /\ UNCHANGED <<queue, pc, arrival>>

Next ==
  \/ \E c \in Calls : CallInline(c) \/ CallQueued(c) \/ Finish(c) \/ Release(c) \/ Cancel(c) \/ Abandon(c)
  \/ \E b \in Batchers : DropBatcher(b)

Spec == Init /\ [][Next]_vars

\* Runners return and tokio polls every task that is ready.
FairSpec == Spec /\ \A c \in Calls : WF_vars(Finish(c)) /\ WF_vars(Release(c))

-----------------------------------------------------------------------------
TypeOK ==
  /\ ongoing \in Nat
  /\ pending \in Seq([batcher : Batchers, calls : Seq(Calls)])
  /\ batch \in [Calls -> Seq(Calls)]
  /\ guards \subseteq Calls
  /\ pc \in [Calls -> PCs]
  /\ dropped \subseteq Batchers
  /\ arrival \in [Calls -> Nat]

\* The counter is the number of guards that will count it down, so that a batch that
\* pends has somebody left to start it: no wakeup is lost and none comes twice.
GuardsCounted ==
  /\ ongoing = Cardinality(guards)
  /\ pending # <<>> => ongoing > 0

\* A caller that waits is in one batch, pending under its living batcher or running
\* under a guard: a batch dropped with its batcher never had a caller.
WaitersAreQueued ==
  \A c \in Calls : pc[c] = "waiting" =>
    \/ /\ \E i \in DOMAIN pending :
            /\ c \in Members(pending[i].calls)
            /\ pending[i].batcher = BatcherOf[c] /\ BatcherOf[c] \notin dropped
       /\ \A l \in Calls : c \notin Members(batch[l])
    \/ /\ \E l \in guards : c \in Members(batch[l])
       /\ \A i \in DOMAIN pending : c \notin Members(pending[i].calls)

\* No wakeup is lost and no caller is, on whatever way a run ends.
QueueAccounted == GuardsCounted /\ WaitersAreQueued

\* The calls of one batcher start in the order they came, whatever is flushed early,
\* cancelled or dropped ("processes batches in FIFO order").
Pending(c) == \E i \in DOMAIN pending : c \in Members(pending[i].calls)
StartsInOrder ==
  \A c, d \in Calls :
    /\ BatcherOf[c] = BatcherOf[d]
    /\ arrival[c] # 0 /\ arrival[c] < arrival[d]
    /\ Pending(c)
    => Pending(d)

\* Every call is answered: a batch never pends for good.
EveryCallIsAnswered ==
  \A c \in Calls : HasCaller(c) ~> ~HasCaller(c)
=============================================================================
