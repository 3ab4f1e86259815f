---------------------------- MODULE TargetStates ----------------------------
(***************************************************************************)
(* The submit lifecycle: how the runs of several processing components     *)
(* bring the targets they declare into an external sink, while the LMDB    *)
(* store tracks, per component, what every target may hold (`__track`) and *)
(* per target which component owns it (`__target`).                        *)
(* Source: submit, pre_commit, Committer and cleanup_pending_token in      *)
(* rust/core/src/engine/execution.rs with the transactions of              *)
(* rust/core/src/state_store/submit_session.rs.                            *)
(*                                                                         *)
(* One run of a component: it snapshots what the user's sources want of it *)
(* (process), then pre_commit reconciles in one write transaction, the     *)
(* sink applies the actions one by one, the commit reads its record in a   *)
(* transaction of its own and writes the pruned record in another.  The    *)
(* build semaphore keeps two runs of one component apart; runs of distinct *)
(* components interleave at every step, a target may move from one         *)
(* component to another, sinks and transactions fail, runs are cancelled   *)
(* and the whole process crashes and restarts.                             *)
(***************************************************************************)
EXTENDS Tracking

CONSTANTS
  Components,
  Targets,
  Nobody,             \* no component: an unassigned target, no `__target` row
  MaxPendingRetries,  \* MAX_PENDING_RETRIES of submit
  OverlappingRuns,    \* may a target move while a run that declares it is in flight?
  Cancellation,       \* may runs be cancelled while the process goes on?
  MaxChanges,         \* bound on changes of what the sources want
  MaxInterruptions    \* bound on failed applies and commits, cancellations and crashes

ASSUME NobodyAssumption == Nobody \notin Components
ASSUME BoundsAssumption ==
  /\ MaxPendingRetries \in Nat \ {0}
  /\ MaxChanges \in Nat /\ MaxInterruptions \in Nat
  /\ OverlappingRuns \in BOOLEAN /\ Cancellation \in BOOLEAN

VARIABLES
  \* What the user's sources want.
  assigned,   \* [Targets -> the component that is to declare the target]
  content,    \* [Targets -> the content it is to declare]
  \* The store and the outside world.
  version,    \* [Components -> version of the `__track` row, 0 when there is no row]
  items,      \* [Components -> [Targets -> item]]: target_state_items
  token,      \* [Components -> pending_process_token, 0 for None]
  owner,      \* [Targets -> component of the `__target` row, or Nobody]
  sink,       \* [Targets -> what the external system holds]
  \* The running process.
  process,    \* process_token of this incarnation of the process
  run,        \* [Components -> the component's run in flight, or Idle]
  \* Bookkeeping.
  synced,     \* components whose last run succeeded with what the sources want
  changes, interruptions

wishes == <<assigned, content, changes>>
store  == <<version, items, token, owner>>
vars   == <<wishes, store, sink, process, run, synced, interruptions>>

Nothing == [t \in Targets |-> Absent]
NoItems == [t \in Targets |-> {}]

\* What a commit is to write: the record and the `__target` rows to delete.
\* NoPlan is the plan of a Delete run: the record goes, no owner row does.
Plans == [items : [Targets -> SUBSET Entries], version : Nat, prune : SUBSET Targets]
NoPlan == [items |-> NoItems, version |-> 0, prune |-> {}]

\* decl: what the run declares; ver: curr_version; todo: the targets whose
\* queued sink action is still to be applied; retries: pending_attempt.
Runs == [pc : {"idle", "precommit", "apply", "commit", "cleanup"},
         mode : {"build", "delete"}, full : BOOLEAN,
         decl : [Targets -> States], retries : Nat, ver : Nat,
         todo : SUBSET Targets, plan : Plans]

Idle == [pc |-> "idle", mode |-> "build", full |-> FALSE, decl |-> Nothing,
         retries |-> 0, ver |-> 0, todo |-> {}, plan |-> NoPlan]

\* What the sources want component c to declare now.
Wanted(c) == [t \in Targets |-> IF assigned[t] = c THEN content[t] ELSE Absent]

Init ==
  /\ assigned = [t \in Targets |-> Nobody]
  /\ content \in {[t \in Targets |-> v] : v \in Values}
  /\ version = [c \in Components |-> 0]
  /\ items = [c \in Components |-> NoItems]
  /\ token = [c \in Components |-> 0]
  /\ owner = [t \in Targets |-> Nobody]
  /\ sink = Nothing
  /\ process = 1
  /\ run = [c \in Components |-> Idle]
  /\ synced = Components
  /\ changes = 0 /\ interruptions = 0

-----------------------------------------------------------------------------
(* The user's sources. *)

\* Target t is from now on to be declared by d (or by nobody), with content v.
ChangeWanted(t, d, v) ==
  /\ changes < MaxChanges
  /\ d # assigned[t] \/ v # content[t]
  /\ d = Nobody => v = content[t]
  /\ \/ OverlappingRuns
     \/ d = assigned[t]
     \/ \A c \in Components : run[c].decl[t] = Absent
  /\ assigned' = [assigned EXCEPT ![t] = d]
  /\ content' = [content EXCEPT ![t] = v]
  /\ changes' = changes + 1
  /\ synced' = synced \ {assigned[t], d}
  /\ UNCHANGED <<store, sink, process, run, interruptions>>

-----------------------------------------------------------------------------
(* One run of component c. *)

\* execute_once takes the build semaphore; process() declares what the sources
\* want now, under full_reprocess or not.
StartBuild(c, full) ==
  /\ run[c].pc = "idle"
  /\ run' = [run EXCEPT ![c] = [Idle EXCEPT !.pc = "precommit", !.decl = Wanted(c), !.full = full]]
  /\ synced' = synced \ {c}
  /\ UNCHANGED <<wishes, store, sink, process, interruptions>>

\* The parent no longer mounts c: a Delete run, which declares nothing.
StartDelete(c) ==
  /\ run[c].pc = "idle"
  /\ Wanted(c) = Nothing
  /\ run' = [run EXCEPT ![c] = [Idle EXCEPT !.pc = "precommit", !.mode = "delete"]]
  /\ synced' = synced \ {c}
  /\ UNCHANGED <<wishes, store, sink, process, interruptions>>

\* paths_to_claim: declared targets the component does not track.
Claimed(c) == {t \in Targets : run[c].decl[t] # Absent /\ items[c][t] = {}}

\* Mutant of Preempted: the owner check is inverted.
PreemptedFromSelf(c) == {t \in Claimed(c) : owner[t] = c}

\* Claimed targets whose `__target` row names another component.
Preempted(c) == {t \in Claimed(c) : owner[t] \notin {Nobody, c}}

\* Mutant of MustWait: takes over from a component in flight.
MustWaitNever(c) == FALSE

\* The detection pass: an owner is in flight in this very process and is
\* changing the item this run wants to take over.
MustWait(c) ==
  \E t \in Preempted(c) : token[owner[t]] = process /\ IsPending(items[owner[t]][t])

\* Mutant of PrevItem: a claimed target always starts without history.
PrevItemForgotten(c, t) == items[c][t]

\* prev_item: the component's own item, else the one taken from the old owner.
PrevItem(c, t) ==
  IF t \in Preempted(c) THEN ResetVersions(items[owner[t]][t]) ELSE items[c][t]

\* Mutant of Touched: targets no longer declared are not reconciled.
TouchedIfDeclared(c) == {t \in Targets : run[c].decl[t] # Absent}

\* Declared or tracked: the targets pre_commit reconciles.
Touched(c) == {t \in Targets : run[c].decl[t] # Absent \/ items[c][t] # {}}

Acting(c) ==
  {t \in Touched(c) : ReconcileActs(run[c].decl[t], PrevItem(c, t), run[c].full)}

NextItem(c, t, ver) ==
  IF t \in Touched(c) THEN Reconciled(run[c].decl[t], PrevItem(c, t), run[c].full, ver) ELSE {}

\* PendingRetry: nothing is written; after MAX_PENDING_RETRIES the run fails.
PrecommitRetry(c) ==
  /\ run[c].pc = "precommit"
  /\ MustWait(c)
  /\ \/ /\ run[c].retries + 1 < MaxPendingRetries
        /\ run' = [run EXCEPT ![c].retries = @ + 1]
     \/ /\ run[c].retries + 1 >= MaxPendingRetries
        /\ run' = [run EXCEPT ![c] = Idle]
  /\ UNCHANGED <<wishes, store, sink, process, synced, interruptions>>

\* The version a run of c writes under.  A Delete run of a component without
\* a `__track` row has none, and finds nothing to write.
NextVersion(c) ==
  IF run[c].mode = "delete" /\ version[c] = 0 THEN 0 ELSE version[c] + 1

\* pre_commit with its write plan applied, in one write transaction.
Precommit(c) ==
  LET ver == NextVersion(c)
      acting == Acting(c) IN
  /\ run[c].pc = "precommit"
  /\ ~MustWait(c)
  /\ version' = [version EXCEPT ![c] = ver]
  /\ items' = [d \in Components |-> [t \in Targets |->
                 IF d = c THEN NextItem(c, t, ver)
                 ELSE IF t \in Preempted(c) /\ owner[t] = d THEN {} ELSE items[d][t]]]
  /\ owner' = [t \in Targets |-> IF t \in Claimed(c) THEN c ELSE owner[t]]
  /\ token' = [token EXCEPT ![c] = IF acting = {} THEN 0 ELSE process]
  /\ run' = [run EXCEPT ![c].pc = "apply", ![c].ver = ver, ![c].todo = acting]
  /\ UNCHANGED <<wishes, sink, process, synced, interruptions>>

\* The sink carries out one queued action: an upsert of the declared content
\* or a delete.  The actions of one run go out in no particular order.
ApplyAction(c, t) ==
  /\ run[c].pc = "apply"
  /\ t \in run[c].todo
  /\ sink' = [sink EXCEPT ![t] = run[c].decl[t]]
  /\ run' = [run EXCEPT ![c].todo = @ \ {t}]
  /\ UNCHANGED <<wishes, store, process, synced, interruptions>>

\* A sink fails, with some of the run's actions applied.
SinkFails(c) ==
  /\ run[c].pc = "apply"
  /\ run[c].todo # {}
  /\ interruptions < MaxInterruptions
  /\ interruptions' = interruptions + 1
  /\ run' = [run EXCEPT ![c].pc = "cleanup", ![c].todo = {}]
  /\ UNCHANGED <<wishes, store, sink, process, synced>>

\* What build_commit_writes makes of the record as it is now: version
\* retention, and a fresh version space once every entry is of this run.
CommitWrites(c) ==
  LET ver == run[c].ver
      kept == [t \in Targets |-> Retained(items[c][t], ver)]
      converged == \A t \in Targets : \A e \in kept[t] : e[1] = ver
  IN  IF run[c].mode = "delete" THEN NoPlan
      ELSE [items |-> IF converged THEN [t \in Targets |-> Bump(kept[t], 1)] ELSE kept,
            version |-> IF converged THEN 1 ELSE version[c],
            prune |-> {t \in Targets : Pruned(items[c][t], ver)}]

\* The record is read in a transaction of its own, before the commit's.
CommitRead(c) ==
  /\ run[c].pc = "apply"
  /\ run[c].todo = {}
  /\ run' = [run EXCEPT ![c].pc = "commit", ![c].plan = CommitWrites(c)]
  /\ UNCHANGED <<wishes, store, sink, process, synced, interruptions>>

\* The commit transaction: the planned record replaces the row (or the row
\* goes), the token with it, and the owner rows of pruned targets go.
CommitWrite(c) ==
  LET plan == run[c].plan IN
  /\ run[c].pc = "commit"
  /\ version' = [version EXCEPT ![c] = plan.version]
  /\ items' = [items EXCEPT ![c] = plan.items]
  /\ token' = [token EXCEPT ![c] = 0]
  /\ owner' = [t \in Targets |-> IF t \in plan.prune THEN Nobody ELSE owner[t]]
  /\ synced' = IF run[c].decl = Wanted(c) THEN synced \cup {c} ELSE synced
  /\ run' = [run EXCEPT ![c] = Idle]
  /\ UNCHANGED <<wishes, sink, process, interruptions>>

\* The commit transaction fails as a whole.
CommitFails(c) ==
  /\ run[c].pc = "commit"
  /\ interruptions < MaxInterruptions
  /\ interruptions' = interruptions + 1
  /\ run' = [run EXCEPT ![c].pc = "cleanup"]
  /\ UNCHANGED <<wishes, store, sink, process, synced>>

\* Mutant of CleanupToken: clears the tokens of other processes instead.
CleanupForeignToken(c) ==
  /\ run[c].pc = "cleanup"
  /\ token' = [token EXCEPT ![c] = IF @ = process THEN @ ELSE 0]
  /\ run' = [run EXCEPT ![c] = Idle]
  /\ UNCHANGED <<wishes, version, items, owner, sink, process, synced, interruptions>>

\* cleanup_pending_token: retried until it succeeds, so one step; a token of
\* another process is left alone.  Then the run fails.
CleanupToken(c) ==
  /\ run[c].pc = "cleanup"
  /\ token' = [token EXCEPT ![c] = IF @ = process THEN 0 ELSE @]
  /\ run' = [run EXCEPT ![c] = Idle]
  /\ UNCHANGED <<wishes, version, items, owner, sink, process, synced, interruptions>>

-----------------------------------------------------------------------------
(* Cancellation and crashes. *)

\* The application's cancellation token fires (Ctrl-C, shutdown): the tasks of
\* all Build runs are dropped where they stand, Delete runs go on.  No clean-up
\* runs, and the process goes on: the next update takes a fresh token.
Cancel ==
  /\ Cancellation
  /\ \E c \in Components : run[c].pc # "idle" /\ run[c].mode = "build"
  /\ interruptions < MaxInterruptions
  /\ interruptions' = interruptions + 1
  /\ run' = [c \in Components |-> IF run[c].mode = "build" THEN Idle ELSE run[c]]
  /\ UNCHANGED <<wishes, store, sink, process, synced>>

\* The process dies and starts again with a new process token.
Crash ==
  /\ interruptions < MaxInterruptions
  /\ interruptions' = interruptions + 1
  /\ process' = process + 1
  /\ run' = [c \in Components |-> Idle]
  /\ UNCHANGED <<wishes, store, sink, synced>>

-----------------------------------------------------------------------------
\* The steps of a run that nothing goes wrong in.
Progress(c) ==
  \/ PrecommitRetry(c) \/ Precommit(c)
  \/ \E t \in Targets : ApplyAction(c, t)
  \/ CommitRead(c) \/ CommitWrite(c) \/ CleanupToken(c)

Next ==
  \/ \E t \in Targets, d \in Components \cup {Nobody}, v \in Values : ChangeWanted(t, d, v)
  \/ \E c \in Components :
       \/ \E full \in BOOLEAN : StartBuild(c, full)
       \/ StartDelete(c)
       \/ PrecommitRetry(c) \/ Precommit(c)
       \/ \E t \in Targets : ApplyAction(c, t)
       \/ SinkFails(c)
       \/ CommitRead(c) \/ CommitWrite(c) \/ CommitFails(c) \/ CleanupToken(c)
  \/ Cancel
  \/ Crash

Spec == Init /\ [][Next]_vars

\* The runtime polls every task that can go on, and the user (or the live
\* source) updates again while a component is not up to date.
Fairness ==
  \A c \in Components :
    /\ WF_vars(Progress(c))
    /\ WF_vars(c \notin synced /\ StartBuild(c, FALSE))

FairSpec == Spec /\ Fairness

-----------------------------------------------------------------------------
(* Properties. *)

\* Type invariant of the store, the runs and the bookkeeping.
TypeOK ==
  /\ assigned \in [Targets -> Components \cup {Nobody}]
  /\ content \in [Targets -> Values]
  /\ version \in [Components -> Nat]
  /\ items \in [Components -> [Targets -> SUBSET Entries]]
  /\ token \in [Components -> Nat]
  /\ owner \in [Targets -> Components \cup {Nobody}]
  /\ sink \in [Targets -> States]
  /\ process \in Nat \ {0}
  /\ run \in [Components -> Runs]
  /\ synced \subseteq Components
  /\ changes \in Nat /\ interruptions \in Nat

\* Whatever failed, was cancelled or crashed on the way, what the sink holds
\* is among the contents every tracker of the target knows of, and a target
\* no component tracks is not in the sink: nothing is ever lost sight of.
TrackingCoversSink ==
  \A t \in Targets :
    /\ \A c \in Components : items[c][t] # {} => sink[t] \in Possible(items[c][t])
    /\ (\A c \in Components : items[c][t] = {}) => sink[t] = Absent

\* A target is tracked by its owner only, so no other component will ever
\* delete it.
TrackedByOwner ==
  \A c \in Components, t \in Targets : items[c][t] # {} => owner[t] = c

\* Two runs never hold a queued sink action on the same target: the order in
\* which the sink carries them out would decide what it ends up with.
OneSinkWriter ==
  \A c, d \in Components : c # d => run[c].todo \cap run[d].todo = {}

\* The record a commit read outside its transaction is still the one it replaces.
CommitPlanIsFresh ==
  \A c \in Components : run[c].pc = "commit" => run[c].plan = CommitWrites(c)

\* A component that finished a run with what the sources want has its targets
\* in the sink; once all have, nothing else is there.
SyncedTargetsAreInSink ==
  /\ \A t \in Targets : assigned[t] \in synced => sink[t] = content[t]
  /\ synced = Components => \A t \in Targets : assigned[t] = Nobody => sink[t] = Absent

\* A target survives its move from one component to another whatever the order
\* in which the runs of the two are submitted and interleave: once the last
\* runs of all components succeeded with what the sources want, so does the sink.
TransferSurvives ==
  synced = Components =>
    \A t \in Targets : sink[t] = IF assigned[t] = Nobody THEN Absent ELSE content[t]

\* At rest after a commit with what the sources want, a component knows of
\* every target what it holds: one content, under a version that the retention
\* of the next commit will drop.
SettledItemsAgree ==
  \A c \in synced : run[c].pc = "idle" =>
    \A t \in Targets : \A a, b \in items[c][t] : a[2] = b[2] /\ a[1] <= version[c]

\* A token of this process marks a run in flight, which will clear it: a
\* component that waits for the token waits for somebody.
LiveTokenHasRun ==
  \A c \in Components :
    token[c] = process => run[c].pc \in {"apply", "commit", "cleanup"}

\* Once sources stop changing and faults stop, retries and back-offs end and
\* the sink holds what the sources want.
SinkConverges ==
  <>[](\A t \in Targets : sink[t] = IF assigned[t] = Nobody THEN Absent ELSE content[t])
=============================================================================
