------------------------ MODULE TargetStates_proof ------------------------
(***************************************************************************)
(* Proofs about TargetStates, for any number of components, targets and    *)
(* contents and any bounds.                                                *)
(***************************************************************************)
EXTENDS TargetStates, TLAPS

-----------------------------------------------------------------------------
(* What the item operators of Tracking yield. *)

\* Bumping keeps an item an item.
LEMMA BumpType ==
  ASSUME NEW item \in SUBSET Entries, NEW ver \in Nat
  PROVE  Bump(item, ver) \in SUBSET Entries
<1>1. ASSUME NEW e \in item
      PROVE  <<ver, e[2], Repeated(item, e[2])>> \in Entries
  <2>1. e[2] \in States
    BY DEF Entries
  <2>2. Repeated(item, e[2]) \in BOOLEAN
    BY Zenon DEF Repeated
  <2>. QED  BY <2>1, <2>2 DEF Entries
<1>. QED  BY <1>1 DEF Bump

\* What is pushed is an entry.
LEMMA PushedType ==
  ASSUME NEW ver \in Nat, NEW s \in States
  PROVE  Pushed(ver, s) \in Entries
<1>1. FALSE \in BOOLEAN
  OBVIOUS
<1>. QED  BY <1>1, Zenon DEF Pushed, Entries

\* Reconciling a target yields an item.
LEMMA ReconciledType ==
  ASSUME NEW desired \in States, NEW prev \in SUBSET Entries, NEW full \in BOOLEAN,
         NEW ver \in Nat
  PROVE  Reconciled(desired, prev, full, ver) \in SUBSET Entries
<1>1. Bump(prev, ver) \in SUBSET Entries
  BY BumpType
<1>2. {Pushed(0, Absent), Pushed(ver, desired)} \in SUBSET Entries
  BY PushedType DEF States
<1>3. prev \cup {Pushed(ver, desired)} \in SUBSET Entries
  BY PushedType
<1>. QED  BY <1>1, <1>2, <1>3 DEF Reconciled

\* Version retention yields an item.
LEMMA RetainedType ==
  ASSUME NEW item \in SUBSET Entries, NEW ver \in Nat
  PROVE  Retained(item, ver) \in SUBSET Entries
  BY DEF Retained

-----------------------------------------------------------------------------
(* Type correctness. *)

\* The runs of the model have their type.
LEMMA IdleType == Idle \in Runs
  BY DEF Idle, Runs, NoPlan, Plans, Nothing, NoItems, States

\* The plan of a commit has its type.
LEMMA CommitWritesType ==
  ASSUME TypeOK, NEW c \in Components
  PROVE  CommitWrites(c) \in Plans
<1>1. run[c].ver \in Nat /\ version[c] \in Nat
  BY DEF TypeOK, Runs
<1> DEFINE kept == [t \in Targets |-> Retained(items[c][t], run[c].ver)]
<1>2. kept \in [Targets -> SUBSET Entries]
  BY <1>1, RetainedType DEF TypeOK
<1>3. [t \in Targets |-> Bump(kept[t], 1)] \in [Targets -> SUBSET Entries]
  BY <1>2, BumpType
<1>4. NoPlan \in Plans
  BY DEF NoPlan, Plans, NoItems
<1>. QED  BY <1>1, <1>2, <1>3, <1>4 DEF CommitWrites, Plans

\* pre_commit leaves items in the record.
LEMMA NextItemType ==
  ASSUME TypeOK, NEW c \in Components, NEW t \in Targets, NEW ver \in Nat
  PROVE  NextItem(c, t, ver) \in SUBSET Entries
<1>1. PrevItem(c, t) \in SUBSET Entries
  <2>1. CASE t \in Preempted(c)
    <3>1. owner[t] \in Components
      BY <2>1 DEF Preempted, Claimed, TypeOK
    <3>2. items[owner[t]][t] \in SUBSET Entries
      BY <3>1 DEF TypeOK
    <3>. QED  BY <2>1, <3>2, BumpType DEF PrevItem, ResetVersions
  <2>2. CASE t \notin Preempted(c)
    BY <2>2 DEF PrevItem, TypeOK
  <2>. QED  BY <2>1, <2>2
<1>2. run[c].decl[t] \in States /\ run[c].full \in BOOLEAN
  BY DEF TypeOK, Runs
<1>. QED  BY <1>1, <1>2, ReconciledType DEF NextItem

\* What the sources want is a declaration.
LEMMA WantedType ==
  ASSUME TypeOK, NEW c \in Components
  PROVE  Wanted(c) \in [Targets -> States]
  BY DEF Wanted, TypeOK, States

\* The type invariant holds of every state the runs can reach.
THEOREM TypeCorrect == Spec => []TypeOK
<1>1. Init => TypeOK
  BY IdleType DEF Init, TypeOK, NoItems, Nothing, States
<1>2. TypeOK /\ [Next]_vars => TypeOK'
  <2> SUFFICES ASSUME TypeOK, [Next]_vars PROVE TypeOK'
    OBVIOUS
  <2>1. ASSUME NEW t \in Targets, NEW d \in Components \cup {Nobody}, NEW v \in Values,
               ChangeWanted(t, d, v)
        PROVE  TypeOK'
    BY <2>1 DEF ChangeWanted, TypeOK, store
  <2>2. ASSUME NEW c \in Components, NEW full \in BOOLEAN, StartBuild(c, full)
        PROVE  TypeOK'
    <3>1. [Idle EXCEPT !.pc = "precommit", !.decl = Wanted(c), !.full = full] \in Runs
      BY IdleType, WantedType DEF Runs
    <3>. QED  BY <2>2, <3>1 DEF StartBuild, TypeOK, store, wishes
  <2>3. ASSUME NEW c \in Components, StartDelete(c)
        PROVE  TypeOK'
    <3>1. [Idle EXCEPT !.pc = "precommit", !.mode = "delete"] \in Runs
      BY IdleType DEF Runs
    <3>. QED  BY <2>3, <3>1 DEF StartDelete, TypeOK, store, wishes
  <2>4. ASSUME NEW c \in Components, PrecommitRetry(c)
        PROVE  TypeOK'
    <3>1. run[c] \in Runs /\ run[c].retries + 1 \in Nat
      BY DEF Runs, TypeOK
    <3>2. [run[c] EXCEPT !.retries = run[c].retries + 1] \in Runs
      BY <3>1 DEF Runs
    <3>. QED  BY <2>4, <3>2, IdleType DEF PrecommitRetry, TypeOK, store, wishes
  <2>5. ASSUME NEW c \in Components, Precommit(c)
        PROVE  TypeOK'
    <3> DEFINE ver == NextVersion(c)
               acting == Acting(c)
    <3>1. ver \in Nat
      BY DEF NextVersion, TypeOK
    <3>2. acting \subseteq Targets
      BY DEF Acting, Touched
    <3>3. version' \in [Components -> Nat]
      BY <2>5, <3>1 DEF Precommit, TypeOK
    <3>4. items' \in [Components -> [Targets -> SUBSET Entries]]
      BY <2>5, <3>1, NextItemType DEF Precommit, TypeOK
    <3>5. owner' \in [Targets -> Components \cup {Nobody}]
      BY <2>5 DEF Precommit, TypeOK
    <3>6. token' \in [Components -> Nat]
      BY <2>5 DEF Precommit, TypeOK
    <3>7. run' \in [Components -> Runs]
      <4>1. [run[c] EXCEPT !.pc = "apply", !.ver = ver, !.todo = acting] \in Runs
        BY <3>1, <3>2 DEF Runs, TypeOK
      <4>. QED  BY <2>5, <4>1 DEF Precommit, TypeOK
    <3>. QED  BY <2>5, <3>3, <3>4, <3>5, <3>6, <3>7 DEF Precommit, TypeOK, wishes
  <2>6. ASSUME NEW c \in Components, NEW t \in Targets, ApplyAction(c, t)
        PROVE  TypeOK'
    <3>1. [run[c] EXCEPT !.todo = run[c].todo \ {t}] \in Runs /\ run[c].decl[t] \in States
      BY DEF Runs, TypeOK
    <3>. QED  BY <2>6, <3>1 DEF ApplyAction, TypeOK, store, wishes
  <2>7. ASSUME NEW c \in Components, SinkFails(c)
        PROVE  TypeOK'
    <3>1. [run[c] EXCEPT !.pc = "cleanup", !.todo = {}] \in Runs
      BY DEF Runs, TypeOK
    <3>. QED  BY <2>7, <3>1 DEF SinkFails, TypeOK, store, wishes
  <2>8. ASSUME NEW c \in Components, CommitRead(c)
        PROVE  TypeOK'
    <3>1. [run[c] EXCEPT !.pc = "commit", !.plan = CommitWrites(c)] \in Runs
      BY CommitWritesType DEF Runs, TypeOK
    <3>. QED  BY <2>8, <3>1 DEF CommitRead, TypeOK, store, wishes
  <2>9. ASSUME NEW c \in Components, CommitWrite(c)
        PROVE  TypeOK'
    <3>1. run[c].plan \in Plans
      BY DEF Runs, TypeOK
    <3>. QED  BY <2>9, <3>1, IdleType DEF CommitWrite, TypeOK, wishes, Plans
  <2>10. ASSUME NEW c \in Components, CommitFails(c)
         PROVE  TypeOK'
    <3>1. [run[c] EXCEPT !.pc = "cleanup"] \in Runs
      BY DEF Runs, TypeOK
    <3>. QED  BY <2>10, <3>1 DEF CommitFails, TypeOK, store, wishes
  <2>11. ASSUME NEW c \in Components, CleanupToken(c)
         PROVE  TypeOK'
    BY <2>11, IdleType DEF CleanupToken, TypeOK, wishes
  <2>12. CASE Cancel
    BY <2>12, IdleType DEF Cancel, TypeOK, store, wishes
  <2>13. CASE Crash
    BY <2>13, IdleType DEF Crash, TypeOK, store, wishes
  <2>14. CASE UNCHANGED vars
    BY <2>14 DEF vars, TypeOK, store, wishes
  <2>. QED
    BY <2>1, <2>2, <2>3, <2>4, <2>5, <2>6, <2>7, <2>8, <2>9, <2>10, <2>11, <2>12, <2>13, <2>14
    DEF Next
<1>. QED  BY <1>1, <1>2, PTL DEF Spec
-----------------------------------------------------------------------------
(* The inductive invariant behind the safety properties, for runs that do  *)
(* not overlap: a target moves only while no run declares it.              *)

\* A run declares targets only, and only those still assigned to its component.
DeclaresAssigned ==
  \A c \in Components :
    /\ run[c].pc = "idle" \/ run[c].mode = "delete" => run[c].decl = Nothing
    /\ \A t \in Targets : run[c].decl[t] # Absent => assigned[t] = c
    /\ run[c].todo # {} => run[c].pc = "apply"

\* No entry is of a version still to come, and without a row there is no item.
VersionsBound ==
  \A c \in Components, t \in Targets :
    /\ \A e \in items[c][t] : e[1] <= version[c]
    /\ version[c] = 0 => items[c][t] = {}

\* The one entry of version ver says s, all others are older.
Newest(item, ver, s) ==
  \E e \in item : /\ e[1] = ver /\ e[2] = s
                  /\ \A x \in item : x = e \/ x[1] < ver

\* There is one entry; it is of version ver and says s.
Sole(item, ver, s) == \E e \in item : item = {e} /\ e[1] = ver /\ e[2] = s

\* The newest entry of an item is what a run that passed pre_commit declares,
\* one it is to delete keeps others out, and what is not queued is done.
RunItem(c, t) ==
  /\ Newest(items[c][t], run[c].ver, run[c].decl[t])
  /\ run[c].decl[t] = Absent => IsPending(items[c][t]) /\ token[c] = process
  /\ t \notin run[c].todo => sink[t] = run[c].decl[t]

\* What the store and the sink know of a run between pre_commit and commit.
RunRecorded(c) ==
  run[c].pc \in {"apply", "commit"} =>
    /\ run[c].ver = version[c]
    /\ \A t \in Targets :
         /\ run[c].decl[t] # Absent \/ t \in run[c].todo => items[c][t] # {}
         /\ items[c][t] # {} => RunItem(c, t)
    /\ run[c].pc = "commit" => run[c].plan = CommitWrites(c)

\* A synced component tracks what the sources want of it and nothing else.
TracksWanted(c) ==
  c \in synced =>
    /\ run[c].pc = "idle"
    /\ \A t \in Targets :
         IF Wanted(c)[t] = Absent THEN items[c][t] = {}
         ELSE \E e \in items[c][t] : e[2] = Wanted(c)[t] /\ items[c][t] = {e}

IInv ==
  /\ TypeOK
  /\ DeclaresAssigned
  /\ VersionsBound
  /\ \A c \in Components : RunRecorded(c) /\ TracksWanted(c)
  /\ TrackedByOwner
  /\ TrackingCoversSink

-----------------------------------------------------------------------------
(* What a step that leaves a component alone preserves. *)

\* Nothing the store says or the sink holds has changed.
LEMMA StoreKept ==
  ASSUME UNCHANGED <<store, sink>>, VersionsBound, TrackedByOwner, TrackingCoversSink
  PROVE  VersionsBound' /\ TrackedByOwner' /\ TrackingCoversSink'
  BY DEF store, VersionsBound, TrackedByOwner, TrackingCoversSink

\* Another component's step that keeps the record of c.
LEMMA RunKept ==
  ASSUME NEW c \in Components, RunRecorded(c),
         run'[c] = run[c], items'[c] = items[c], version'[c] = version[c],
         token'[c] = token[c], process' = process,
         \A t \in Targets : items[c][t] # {} => sink'[t] = sink[t]
  PROVE  RunRecorded(c)'
<1>1. CommitWrites(c)' = CommitWrites(c)
  BY DEF CommitWrites
<1>2. \A t \in Targets : items[c][t] # {} => (RunItem(c, t)' <=> RunItem(c, t))
  BY DEF RunItem
<1>. QED  BY <1>1, <1>2 DEF RunRecorded

\* A run that is not between pre_commit and commit is recorded vacuously.
LEMMA RunElsewhere ==
  ASSUME NEW c \in Components, run'[c].pc \notin {"apply", "commit"}
  PROVE  RunRecorded(c)'
  BY DEF RunRecorded

\* A component that is not synced tracks what it likes.
LEMMA TracksKept ==
  ASSUME NEW c \in Components, TracksWanted(c),
         c \in synced' => /\ c \in synced
                          /\ run'[c].pc = run[c].pc
                          /\ items'[c] = items[c]
                          /\ Wanted(c)' = Wanted(c)
  PROVE  TracksWanted(c)'
  BY DEF TracksWanted

-----------------------------------------------------------------------------
(* Every step preserves the invariant. *)

\* The invariant holds at the start.
LEMMA InitInv == Init => IInv
<1> SUFFICES ASSUME Init PROVE IInv
  OBVIOUS
<1>1. TypeOK
  BY IdleType DEF Init, TypeOK, NoItems, Nothing, States
<1>2. DeclaresAssigned
  BY DEF Init, DeclaresAssigned, Idle, Nothing
<1>3. \A c \in Components : RunRecorded(c)
  BY DEF Init, RunRecorded, Idle
<1>4. \A c \in Components : TracksWanted(c)
  BY NobodyAssumption DEF Init, TracksWanted, Wanted, Idle, NoItems
<1>5. VersionsBound /\ TrackedByOwner /\ TrackingCoversSink
  BY DEF Init, VersionsBound, TrackedByOwner, TrackingCoversSink, NoItems, Nothing
<1>. QED  BY <1>1, <1>2, <1>3, <1>4, <1>5 DEF IInv

\* A change of what the sources want.
LEMMA ChangeWantedInv ==
  ASSUME IInv, ~OverlappingRuns, TypeOK',
         NEW t \in Targets, NEW d \in Components \cup {Nobody}, NEW v \in Values,
         ChangeWanted(t, d, v)
  PROVE  IInv'
<1>1. UNCHANGED <<store, sink>>
  BY DEF ChangeWanted
<1>2. VersionsBound' /\ TrackedByOwner' /\ TrackingCoversSink'
  BY <1>1, StoreKept DEF IInv
<1>3. \A c \in Components : RunRecorded(c)'
  BY RunKept DEF IInv, ChangeWanted, store
<1>4. DeclaresAssigned'
  <2>1. run' = run /\ assigned' = [assigned EXCEPT ![t] = d] /\ assigned \in [Targets -> Components \cup {Nobody}]
    BY DEF ChangeWanted, IInv, TypeOK
  <2>2. d = assigned[t] \/ \A c \in Components : run[c].decl[t] = Absent
    BY DEF ChangeWanted
  <2>3. \A c \in Components, u \in Targets : run[c].decl[u] # Absent => assigned'[u] = c
    BY <2>1, <2>2 DEF IInv, DeclaresAssigned
  <2>. QED  BY <2>1, <2>3 DEF IInv, DeclaresAssigned
<1>5. ASSUME NEW c \in Components PROVE TracksWanted(c)'
  <2>1. CASE c \in synced'
    <3>1. c # assigned[t] /\ c # d
      BY <2>1 DEF ChangeWanted
    <3>2. Wanted(c)' = Wanted(c)
      BY <3>1 DEF ChangeWanted, Wanted, IInv, TypeOK
    <3>. QED  BY <2>1, <3>2, TracksKept DEF IInv, ChangeWanted, store
  <2>. QED  BY <2>1 DEF TracksWanted
<1>. QED  BY <1>2, <1>3, <1>4, <1>5 DEF IInv

\* A run starts.
LEMMA StartInv ==
  ASSUME IInv, TypeOK', NEW c \in Components,
         StartDelete(c) \/ \E full \in BOOLEAN : StartBuild(c, full)
  PROVE  IInv'
<1>1. UNCHANGED <<wishes, store, sink, process>> /\ synced' = synced \ {c}
  BY DEF StartBuild, StartDelete
<1>2. VersionsBound' /\ TrackedByOwner' /\ TrackingCoversSink'
  BY <1>1, StoreKept DEF IInv
<1>3. \A d \in Components \ {c} : run'[d] = run[d]
  BY DEF StartBuild, StartDelete, IInv, TypeOK
<1>4. /\ run'[c].pc = "precommit" /\ run'[c].todo = {}
      /\ \/ run'[c].mode = "build" /\ run'[c].decl = Wanted(c)
         \/ run'[c].decl = Nothing
  <2>1. CASE StartDelete(c)
    <3>1. run'[c] = [Idle EXCEPT !.pc = "precommit", !.mode = "delete"]
      BY <2>1 DEF StartDelete, IInv, TypeOK
    <3>. QED  BY <3>1 DEF Idle
  <2>2. ASSUME NEW full \in BOOLEAN, StartBuild(c, full)
        PROVE  run'[c].pc = "precommit" /\ run'[c].todo = {}
               /\ run'[c].mode = "build" /\ run'[c].decl = Wanted(c)
    <3>1. run'[c] = [Idle EXCEPT !.pc = "precommit", !.decl = Wanted(c), !.full = full]
      BY <2>2 DEF StartBuild, IInv, TypeOK
    <3>. QED  BY <3>1 DEF Idle
  <2>. QED  BY <2>1, <2>2
<1>5. ASSUME NEW d \in Components PROVE RunRecorded(d)'
  <2>1. CASE d = c
    BY <2>1, <1>4, RunElsewhere
  <2>2. CASE d # c
    BY <2>2, <1>1, <1>3, RunKept DEF IInv, store
  <2>. QED  BY <2>1, <2>2
<1>6. ASSUME NEW d \in Components PROVE TracksWanted(d)'
  <2>1. d \in synced' => d # c
    BY <1>1
  <2>2. Wanted(d)' = Wanted(d)
    BY <1>1 DEF wishes, Wanted
  <2>. QED  BY <2>1, <2>2, <1>1, <1>3, TracksKept DEF IInv, store
<1>7. DeclaresAssigned'
  <2>1. assigned' = assigned
    BY <1>1 DEF wishes
  <2>2. \A t \in Targets : Wanted(c)[t] # Absent => assigned[t] = c
    BY DEF Wanted
  <2>. QED  BY <2>1, <2>2, <1>3, <1>4 DEF IInv, DeclaresAssigned, Nothing
<1>. QED  BY <1>2, <1>5, <1>6, <1>7 DEF IInv

\* Run c' is run c, or c's run is over, or it goes on with what it declares.
RunGoesOn(c) ==
  \/ run'[c] = run[c]
  \/ run'[c] = Idle
  \/ /\ run[c].pc # "idle" /\ run'[c].pc # "idle"
     /\ run'[c].decl = run[c].decl /\ run'[c].mode = run[c].mode
     /\ run'[c].todo # {} => run'[c].pc = "apply"

\* A step that touches neither the store nor the sink.
LEMMA RunOnlyInv ==
  ASSUME IInv, TypeOK', UNCHANGED <<wishes, store, sink, synced>>,
         \A c \in Components : RunGoesOn(c) /\ RunRecorded(c)'
  PROVE  IInv'
<1>1. VersionsBound' /\ TrackedByOwner' /\ TrackingCoversSink'
  BY StoreKept DEF IInv
<1>2. DeclaresAssigned'
  <2>1. assigned' = assigned
    BY DEF wishes
  <2>2. Idle.decl = Nothing /\ Idle.todo = {} /\ \A t \in Targets : Nothing[t] = Absent
    BY DEF Idle, Nothing
  <2>. QED  BY <2>1, <2>2 DEF IInv, DeclaresAssigned, RunGoesOn
<1>3. ASSUME NEW c \in Components PROVE TracksWanted(c)'
  <2>1. c \in synced => run[c].pc = "idle" /\ run'[c].pc = "idle"
    BY DEF IInv, TracksWanted, RunGoesOn, Idle
  <2>2. Wanted(c)' = Wanted(c)
    BY DEF wishes, Wanted
  <2>. QED  BY <2>1, <2>2, TracksKept DEF IInv, store
<1>. QED  BY <1>1, <1>2, <1>3 DEF IInv

\* A run waits, fails or is dropped, and no other one notices.
LEMMA RunStepInv ==
  ASSUME IInv, TypeOK', NEW c \in Components,
         PrecommitRetry(c) \/ SinkFails(c) \/ CommitRead(c) \/ CommitFails(c)
  PROVE  IInv'
<1>1. UNCHANGED <<wishes, store, sink, process, synced>>
  BY DEF PrecommitRetry, SinkFails, CommitRead, CommitFails
<1>2. \A d \in Components \ {c} : run'[d] = run[d]
  BY DEF PrecommitRetry, SinkFails, CommitRead, CommitFails, IInv, TypeOK
<1>3. \A d \in Components \ {c} : RunRecorded(d)'
  BY <1>1, <1>2, RunKept DEF IInv, store
<1>4. run[c] \in Runs
  BY DEF IInv, TypeOK
<1>5. RunGoesOn(c) /\ RunRecorded(c)'
  <2>1. CASE PrecommitRetry(c)
    <3>1. run'[c] = Idle \/ run'[c] = [run[c] EXCEPT !.retries = run[c].retries + 1]
      BY <2>1 DEF PrecommitRetry, IInv, TypeOK
    <3>2. run'[c].pc \in {"idle", "precommit"} /\ RunGoesOn(c)
      BY <2>1, <3>1, <1>4 DEF Idle, Runs, RunGoesOn, PrecommitRetry, IInv, DeclaresAssigned
    <3>. QED  BY <3>2, RunElsewhere
  <2>2. CASE SinkFails(c)
    <3>1. run'[c] = [run[c] EXCEPT !.pc = "cleanup", !.todo = {}]
      BY <2>2 DEF SinkFails, IInv, TypeOK
    <3>2. /\ run'[c].pc = "cleanup" /\ run'[c].todo = {}
          /\ run'[c].decl = run[c].decl /\ run'[c].mode = run[c].mode
      BY <3>1, <1>4 DEF Runs
    <3>. QED  BY <2>2, <3>2, RunElsewhere DEF RunGoesOn, SinkFails
  <2>3. CASE CommitFails(c)
    <3>1. run'[c] = [run[c] EXCEPT !.pc = "cleanup"]
      BY <2>3 DEF CommitFails, IInv, TypeOK
    <3>2. run'[c].pc = "cleanup" /\ RunGoesOn(c)
      BY <2>3, <3>1, <1>4 DEF Runs, RunGoesOn, CommitFails, IInv, DeclaresAssigned
    <3>. QED  BY <3>2, RunElsewhere
  <2>4. CASE CommitRead(c)
    <3>1. run'[c] = [run[c] EXCEPT !.pc = "commit", !.plan = CommitWrites(c)]
      BY <2>4 DEF CommitRead, IInv, TypeOK
    <3>2. /\ run'[c].pc = "commit" /\ run'[c].plan = CommitWrites(c)
          /\ run'[c].decl = run[c].decl /\ run'[c].ver = run[c].ver
          /\ run'[c].todo = run[c].todo /\ run'[c].mode = run[c].mode
      BY <3>1, <1>4 DEF Runs
    <3>3. CommitWrites(c)' = CommitWrites(c)
      BY <3>2, <1>1 DEF CommitWrites, store
    <3>4. \A t \in Targets : RunItem(c, t) => RunItem(c, t)'
      BY <3>2, <1>1 DEF RunItem, store
    <3>5. RunRecorded(c)'
      BY <2>4, <3>2, <3>3, <3>4, <1>1 DEF IInv, RunRecorded, CommitRead, store
    <3>. QED  BY <2>4, <3>2, <3>5 DEF RunGoesOn, CommitRead
  <2>. QED  BY <2>1, <2>2, <2>3, <2>4
<1>6. \A d \in Components : RunGoesOn(d) /\ RunRecorded(d)'
  BY <1>2, <1>3, <1>5 DEF RunGoesOn
<1>. QED  BY <1>1, <1>6, RunOnlyInv

\* All Build runs, or all runs, are dropped.
LEMMA DropInv ==
  ASSUME IInv, TypeOK', Cancel \/ Crash
  PROVE  IInv'
<1>1. UNCHANGED <<wishes, store, sink, synced>>
  BY DEF Cancel, Crash
<1>2. ASSUME NEW c \in Components PROVE RunGoesOn(c) /\ RunRecorded(c)'
  <2>1. run'[c] = Idle \/ (run'[c] = run[c] /\ process' = process)
    <3>1. CASE Cancel
      BY <3>1 DEF Cancel
    <3>2. CASE Crash
      BY <3>2 DEF Crash
    <3>. QED  BY <3>1, <3>2
  <2>2. CASE run'[c] = Idle
    BY <2>2, RunElsewhere DEF RunGoesOn, Idle
  <2>3. CASE run'[c] = run[c] /\ process' = process
    BY <2>3, <1>1, RunKept DEF RunGoesOn, IInv, store
  <2>. QED  BY <2>1, <2>2, <2>3
<1>. QED  BY <1>1, <1>2, RunOnlyInv

\* A failed run gives up its token.
LEMMA CleanupInv ==
  ASSUME IInv, TypeOK', NEW c \in Components, CleanupToken(c)
  PROVE  IInv'
<1>1. UNCHANGED <<wishes, version, items, owner, sink, process, synced>> /\ run'[c] = Idle
  BY DEF CleanupToken, IInv, TypeOK
<1>2. \A d \in Components \ {c} : run'[d] = run[d] /\ token'[d] = token[d]
  BY DEF CleanupToken, IInv, TypeOK
<1>3. ASSUME NEW d \in Components PROVE RunRecorded(d)'
  <2>1. CASE d = c
    BY <2>1, <1>1, RunElsewhere DEF Idle
  <2>2. CASE d # c
    BY <2>2, <1>1, <1>2, RunKept DEF IInv
  <2>. QED  BY <2>1, <2>2
<1>4. VersionsBound' /\ TrackedByOwner' /\ TrackingCoversSink'
  BY <1>1 DEF IInv, VersionsBound, TrackedByOwner, TrackingCoversSink
<1>5. DeclaresAssigned'
  <2>1. assigned' = assigned
    BY <1>1 DEF wishes
  <2>2. Idle.decl = Nothing /\ Idle.todo = {} /\ \A t \in Targets : Nothing[t] = Absent
    BY DEF Idle, Nothing
  <2>. QED  BY <1>1, <1>2, <2>1, <2>2 DEF IInv, DeclaresAssigned
<1>6. ASSUME NEW d \in Components PROVE TracksWanted(d)'
  <2>1. Wanted(d)' = Wanted(d)
    BY <1>1 DEF wishes, Wanted
  <2>2. c \notin synced
    BY DEF CleanupToken, IInv, TracksWanted
  <2>. QED  BY <1>1, <1>2, <2>1, <2>2, TracksKept DEF IInv
<1>. QED  BY <1>3, <1>4, <1>5, <1>6 DEF IInv

\* The sink carries out an action: only this run's component tracks the target.
LEMMA ApplyInv ==
  ASSUME IInv, TypeOK', NEW c \in Components, NEW t \in Targets, ApplyAction(c, t)
  PROVE  IInv'
<1>1. UNCHANGED <<wishes, store, process, synced>>
  BY DEF ApplyAction
<1>2. /\ run[c] \in Runs /\ run[c].pc = "apply" /\ t \in run[c].todo
      /\ run'[c] = [run[c] EXCEPT !.todo = run[c].todo \ {t}]
      /\ \A d \in Components \ {c} : run'[d] = run[d]
  BY DEF ApplyAction, IInv, TypeOK
<1>3. /\ run'[c].pc = "apply" /\ run'[c].todo = run[c].todo \ {t}
      /\ run'[c].decl = run[c].decl /\ run'[c].ver = run[c].ver /\ run'[c].mode = run[c].mode
  BY <1>2 DEF Runs
<1>4. sink'[t] = run[c].decl[t] /\ \A u \in Targets \ {t} : sink'[u] = sink[u]
  BY DEF ApplyAction, IInv, TypeOK
<1>5. items[c][t] # {} /\ \E e \in items[c][t] : e[2] = run[c].decl[t]
  BY <1>2 DEF IInv, RunRecorded, RunItem, Newest
<1>6. \A d \in Components \ {c} : items[d][t] = {}
  BY <1>5 DEF IInv, TrackedByOwner
<1>7. ASSUME NEW d \in Components PROVE RunRecorded(d)'
  <2>1. CASE d = c
    <3>1. \A u \in Targets : RunItem(c, u) => RunItem(c, u)'
      BY <1>1, <1>3, <1>4 DEF RunItem, store
    <3>. QED  BY <2>1, <3>1, <1>1, <1>2, <1>3 DEF IInv, RunRecorded, store
  <2>2. CASE d # c
    BY <2>2, <1>1, <1>2, <1>4, <1>6, RunKept DEF IInv, store
  <2>. QED  BY <2>1, <2>2
<1>8. TrackingCoversSink'
  <2>1. run[c].decl[t] \in Possible(items[c][t])
    BY <1>5 DEF Possible
  <2>. QED  BY <2>1, <1>1, <1>4, <1>5, <1>6 DEF IInv, TrackingCoversSink, store
<1>9. VersionsBound' /\ TrackedByOwner'
  BY <1>1 DEF IInv, VersionsBound, TrackedByOwner, store
<1>10. DeclaresAssigned'
  <2>1. assigned' = assigned
    BY <1>1 DEF wishes
  <2>2. \A d \in Components : run'[d].pc = run[d].pc /\ run'[d].mode = run[d].mode
                              /\ run'[d].decl = run[d].decl
                              /\ (run'[d].todo = run[d].todo \/ run'[d].pc = "apply")
    BY <1>2, <1>3
  <2>. QED  BY <2>1, <2>2 DEF IInv, DeclaresAssigned
<1>11. ASSUME NEW d \in Components PROVE TracksWanted(d)'
  <2>1. Wanted(d)' = Wanted(d)
    BY <1>1 DEF wishes, Wanted
  <2>2. c \notin synced
    BY <1>2 DEF IInv, TracksWanted
  <2>. QED  BY <1>1, <1>2, <2>1, <2>2, TracksKept DEF IInv, store
<1>. QED  BY <1>7, <1>8, <1>9, <1>10, <1>11 DEF IInv

\* What the record says of a target after pre_commit, from what it said before:
\* s is what the sink holds of it.
LEMMA ReconciledItem ==
  ASSUME NEW desired \in States, NEW prev \in SUBSET Entries, NEW full \in BOOLEAN,
         NEW ver \in Nat, \A e \in prev : e[1] < ver, 0 < ver,
         NEW s \in States, prev # {} => s \in Possible(prev), prev = {} => s = Absent
  PROVE  /\ Newest(Reconciled(desired, prev, full, ver), ver, desired)
         /\ s \in Possible(Reconciled(desired, prev, full, ver))
         /\ ~ReconcileActs(desired, prev, full) => s = desired
         /\ desired = Absent /\ prev # {} =>
              /\ ReconcileActs(desired, prev, full)
              /\ IsPending(Reconciled(desired, prev, full, ver))
<1> DEFINE item == Reconciled(desired, prev, full, ver)
<1>1. CASE ~ReconcileActs(desired, prev, full)
  <2>1. prev # {} /\ Absent \notin Possible(prev) /\ \A x \in Possible(prev) : x = desired
    BY <1>1 DEF ReconcileActs, MayBeMissing
  <2>2. \A e \in prev : e[2] = desired
    BY <2>1 DEF Possible
  <2>3. Sole(item, ver, desired)
    <3> DEFINE entry == <<ver, desired, Repeated(prev, desired)>>
    <3>1. item = {<<ver, e[2], Repeated(prev, e[2])>> : e \in prev}
      BY <1>1 DEF Reconciled, Bump
    <3>2. item = {entry}
      BY <2>1, <2>2, <3>1
    <3>3. entry[1] = ver /\ entry[2] = desired
      OBVIOUS
    <3> HIDE DEF item, entry
    <3>. QED  BY <3>2, <3>3 DEF Sole
  <2>4. desired \in Possible(item) /\ s = desired /\ desired # Absent
    BY <2>1, <2>2, <2>3 DEF Possible, Sole
  <2>5. Newest(item, ver, desired)
    BY <2>3 DEF Newest, Sole
  <2>. QED  BY <1>1, <2>4, <2>5
<1>2. CASE ReconcileActs(desired, prev, full) /\ prev = {}
  <2>1. item = {Pushed(0, Absent), Pushed(ver, desired)}
    BY <1>2 DEF Reconciled
  <2>2. Absent \in Possible(item)
    BY <2>1 DEF Possible, Pushed
  <2>3. Newest(item, ver, desired)
    BY <2>1 DEF Newest, Pushed
  <2>. QED  BY <1>2, <2>2, <2>3
<1>3. CASE ReconcileActs(desired, prev, full) /\ prev # {}
  <2>1. item = prev \cup {Pushed(ver, desired)}
    BY <1>3 DEF Reconciled
  <2>2. s \in Possible(item)
    BY <1>3, <2>1 DEF Possible
  <2>3. IsPending(item)
    <3>1. PICK e \in prev : TRUE
      BY <1>3
    <3>2. Pushed(ver, desired)[1] = ver /\ e[1] < ver
      BY <3>1 DEF Pushed
    <3>3. ver \in Nat /\ ~(ver < ver)
      OBVIOUS
    <3>. QED  BY <2>1, <3>1, <3>2, <3>3 DEF IsPending
  <2>4. Newest(item, ver, desired)
    <3>1. Pushed(ver, desired)[1] = ver /\ Pushed(ver, desired)[2] = desired
      BY DEF Pushed
    <3>. QED  BY <2>1, <3>1 DEF Newest
  <2>. QED  BY <1>3, <2>2, <2>3, <2>4
<1>. QED  BY <1>1, <1>2, <1>3

\* Bumping changes versions only.
LEMMA BumpPossible ==
  ASSUME NEW item, NEW ver
  PROVE  Possible(Bump(item, ver)) = Possible(item)
<1>1. ASSUME NEW e \in item PROVE \E f \in Bump(item, ver) : f[2] = e[2]
  <2>1. <<ver, e[2], Repeated(item, e[2])>> \in Bump(item, ver)
    BY DEF Bump
  <2>2. <<ver, e[2], Repeated(item, e[2])>>[2] = e[2]
    OBVIOUS
  <2>. QED  BY <2>1, <2>2
<1>2. ASSUME NEW e \in Bump(item, ver) PROVE \E f \in item : e[2] = f[2]
  BY DEF Bump
<1>3. \A x \in Possible(item) : x \in Possible(Bump(item, ver))
  BY <1>1 DEF Possible
<1>4. \A x \in Possible(Bump(item, ver)) : x \in Possible(item)
  BY <1>2 DEF Possible
<1>. QED  BY <1>3, <1>4

\* What a commit keeps of an item whose newest entry is the run's.
LEMMA RetainedNewest ==
  ASSUME NEW item \in SUBSET Entries, NEW ver \in Nat, NEW s \in States,
         Newest(item, ver, s)
  PROVE  IF s = Absent THEN Retained(item, ver) = {} ELSE Sole(Retained(item, ver), ver, s)
<1>1. \A e \in item : e[1] \in Nat
  BY DEF Entries
<1>2. PICK e \in item : e[1] = ver /\ e[2] = s /\ \A x \in item : x = e \/ x[1] < ver
  BY DEF Newest
<1>3. Retained(item, ver) = IF s = Absent THEN {} ELSE {e}
  BY <1>1, <1>2 DEF Retained
<1>. QED  BY <1>2, <1>3 DEF Sole

\* Bumping a single entry leaves a single entry.
LEMMA BumpSole ==
  ASSUME NEW item, NEW old, NEW s, NEW ver, Sole(item, old, s)
  PROVE  Sole(Bump(item, ver), ver, s)
<1>1. PICK e \in item : item = {e} /\ e[1] = old /\ e[2] = s
  BY DEF Sole
<1> DEFINE f == <<ver, s, Repeated(item, s)>>
<1>2. Bump(item, ver) = {f}
  BY <1>1 DEF Bump
<1>3. f[1] = ver /\ f[2] = s
  OBVIOUS
<1> HIDE DEF f
<1>. QED  BY <1>2, <1>3 DEF Sole

\* A previous item tells what the sink holds, under versions already used.
LEMMA PrevItemKnown ==
  ASSUME IInv, NEW c \in Components, NEW t \in Touched(c)
  PROVE  /\ PrevItem(c, t) \in SUBSET Entries
         /\ \A e \in PrevItem(c, t) : e[1] <= version[c]
         /\ PrevItem(c, t) # {} => sink[t] \in Possible(PrevItem(c, t))
         /\ PrevItem(c, t) = {} => sink[t] = Absent
<1>. t \in Targets
  BY DEF Touched
<1>1. CASE t \in Preempted(c)
  <2>1. owner[t] \in Components
    BY <1>1 DEF Preempted, Claimed, IInv, TypeOK
  <2> DEFINE old == items[owner[t]][t]
  <2>2. old \in SUBSET Entries /\ version[c] \in Nat
    BY <2>1 DEF IInv, TypeOK
  <2>3. PrevItem(c, t) = {<<0, e[2], Repeated(old, e[2])>> : e \in old}
    BY <1>1 DEF PrevItem, ResetVersions, Bump
  <2>4. PrevItem(c, t) \in SUBSET Entries /\ \A e \in PrevItem(c, t) : e[1] <= version[c]
    <3>1. PrevItem(c, t) = Bump(old, 0)
      BY <1>1 DEF PrevItem, ResetVersions
    <3>2. \A e \in PrevItem(c, t) : e[1] = 0
      BY <2>3
    <3>. QED  BY <2>2, <3>1, <3>2, BumpType
  <2>5. PrevItem(c, t) # {} => sink[t] \in Possible(PrevItem(c, t))
    <3>1. Possible(PrevItem(c, t)) = Possible(old)
      BY <1>1, BumpPossible DEF PrevItem, ResetVersions
    <3>2. PrevItem(c, t) # {} => old # {}
      BY <2>3
    <3>. QED  BY <2>1, <3>1, <3>2 DEF IInv, TrackingCoversSink
  <2>6. PrevItem(c, t) = {} => sink[t] = Absent
    <3>1. ASSUME old = {} PROVE \A d \in Components : items[d][t] = {}
      BY <3>1 DEF IInv, TrackedByOwner
    <3>. QED  BY <2>3, <3>1 DEF IInv, TrackingCoversSink
  <2>. QED  BY <2>4, <2>5, <2>6
<1>2. CASE t \notin Preempted(c)
  <2>1. PrevItem(c, t) = items[c][t] /\ items[c][t] \in SUBSET Entries
    BY <1>2 DEF PrevItem, IInv, TypeOK
  <2>2. items[c][t] = {} => \A d \in Components : items[d][t] = {}
    BY <1>2, NobodyAssumption DEF IInv, TrackedByOwner, Preempted, Claimed, Touched
  <2>. QED  BY <2>1, <2>2 DEF IInv, VersionsBound, TrackingCoversSink
<1>. QED  BY <1>1, <1>2

\* No run in flight and no synced component loses an item to another's pre_commit.
LEMMA NotPreempted ==
  ASSUME IInv, NEW c \in Components, NEW d \in Components \ {c}, ~MustWait(c),
         run[d].pc \in {"apply", "commit"} \/ d \in synced,
         NEW t \in Preempted(c), owner[t] = d
  PROVE  items[d][t] = {}
<1>1. t \in Targets /\ assigned[t] = c
  BY DEF Preempted, Claimed, IInv, DeclaresAssigned
<1>2. CASE d \in synced
  <2>1. Wanted(d)[t] = Absent
    BY <1>1 DEF Wanted
  <2>. QED  BY <1>1, <1>2, <2>1 DEF IInv, TracksWanted
<1>3. CASE run[d].pc \in {"apply", "commit"}
  <2>1. run[d].decl[t] = Absent
    BY <1>1 DEF IInv, DeclaresAssigned
  <2>2. items[d][t] # {} => IsPending(items[d][t]) /\ token[d] = process
    BY <1>1, <1>3, <2>1 DEF IInv, RunRecorded, RunItem
  <2>. QED  BY <2>2 DEF MustWait
<1>. QED  BY <1>2, <1>3

\* pre_commit: the record takes in what the run is about to do.
LEMMA PrecommitInv ==
  ASSUME IInv, TypeOK', NEW c \in Components, Precommit(c)
  PROVE  IInv'
<1> DEFINE ver == NextVersion(c)
           acting == Acting(c)
<1>1. /\ UNCHANGED <<wishes, sink, process, synced>> /\ ~MustWait(c)
      /\ run[c].pc = "precommit" /\ run[c] \in Runs
  BY DEF Precommit, IInv, TypeOK
<1>2. /\ version'[c] = ver /\ token'[c] = IF acting = {} THEN 0 ELSE process
      /\ run'[c] = [run[c] EXCEPT !.pc = "apply", !.ver = ver, !.todo = acting]
      /\ \A d \in Components \ {c} :
           version'[d] = version[d] /\ token'[d] = token[d] /\ run'[d] = run[d]
  BY DEF Precommit, IInv, TypeOK
<1>3. /\ run'[c].pc = "apply" /\ run'[c].ver = ver /\ run'[c].todo = acting
      /\ run'[c].decl = run[c].decl /\ run'[c].mode = run[c].mode
  BY <1>1, <1>2 DEF Runs
<1>4. \A t \in Targets :
        /\ items'[c][t] = NextItem(c, t, ver)
        /\ \A d \in Components \ {c} :
             items'[d][t] = IF t \in Preempted(c) /\ owner[t] = d THEN {} ELSE items[d][t]
  BY DEF Precommit
<1>5. \A t \in Targets : owner'[t] = IF t \in Claimed(c) THEN c ELSE owner[t]
  BY DEF Precommit
<1>6. ver \in Nat /\ version[c] <= ver
  BY DEF NextVersion, IInv, TypeOK
<1>7. ASSUME NEW t \in Touched(c)
      PROVE  /\ Newest(items'[c][t], ver, run[c].decl[t])
             /\ sink[t] \in Possible(items'[c][t])
             /\ t \notin acting => sink[t] = run[c].decl[t]
             /\ run[c].decl[t] = Absent => t \in acting /\ IsPending(items'[c][t])
             /\ 0 < ver
  <2> DEFINE prev == PrevItem(c, t)
  <2>1. t \in Targets /\ run[c].decl[t] \in States /\ run[c].full \in BOOLEAN /\ sink[t] \in States
    BY <1>1 DEF Touched, Runs, IInv, TypeOK
  <2>2. ver = version[c] + 1 /\ version[c] \in Nat
    <3>1. CASE run[c].mode = "delete" /\ version[c] = 0
      <4>1. run[c].decl[t] = Absent /\ items[c][t] = {}
        BY <2>1, <3>1 DEF IInv, DeclaresAssigned, VersionsBound, Nothing
      <4>. QED  BY <4>1 DEF Touched
    <3>. QED  BY <3>1 DEF NextVersion, IInv, TypeOK
  <2>3. \A e \in prev : e[1] < ver
    <3>1. prev \in SUBSET Entries /\ \A e \in prev : e[1] <= version[c]
      BY PrevItemKnown
    <3>2. \A e \in prev : e[1] \in Nat
      BY <3>1 DEF Entries
    <3>. QED  BY <2>2, <3>1, <3>2
  <2>4. items'[c][t] = Reconciled(run[c].decl[t], prev, run[c].full, ver)
    BY <1>4, <2>1 DEF NextItem
  <2>5. t \in acting <=> ReconcileActs(run[c].decl[t], prev, run[c].full)
    BY DEF Acting
  <2>6. run[c].decl[t] = Absent => prev # {}
    BY <2>1 DEF Touched, PrevItem, Preempted, Claimed
  <2>7. prev \in SUBSET Entries /\ (prev # {} => sink[t] \in Possible(prev))
        /\ (prev = {} => sink[t] = Absent)
    BY PrevItemKnown
  <2>8. 0 < ver
    BY <2>2
  <2> HIDE DEF prev, ver, acting
  <2>. QED  BY <1>6, <2>1, <2>3, <2>4, <2>5, <2>6, <2>7, <2>8, ReconciledItem
<1>8. \A t \in Targets : items'[c][t] # {} <=> t \in Touched(c)
  BY <1>4, <1>7 DEF NextItem, Newest
<1>9. ASSUME NEW d \in Components \ {c}, run[d].pc \in {"apply", "commit"} \/ d \in synced
      PROVE  items'[d] = items[d]
  <2>1. \A t \in Targets : items'[d][t] = items[d][t]
    BY <1>1, <1>4, <1>9, NotPreempted
  <2>. QED  BY <2>1 DEF IInv, TypeOK
<1>10. DeclaresAssigned'
  <2>1. assigned' = assigned
    BY <1>1 DEF wishes
  <2>2. \A d \in Components : /\ run'[d].mode = run[d].mode /\ run'[d].decl = run[d].decl
                              /\ run'[d] = run[d] \/ run'[d].pc = "apply"
    BY <1>2, <1>3
  <2>. QED  BY <2>1, <2>2 DEF IInv, DeclaresAssigned
<1>11. VersionsBound'
  <2>1. ASSUME NEW t \in Touched(c), NEW e \in items'[c][t] PROVE e[1] <= ver
    <3>1. e[1] \in Nat
      BY DEF TypeOK, Entries, Touched
    <3>2. e[1] = ver \/ e[1] < ver
      BY <1>7 DEF Newest
    <3> HIDE DEF ver
    <3>. QED  BY <1>6, <3>1, <3>2
  <2>2. ASSUME NEW t \in Targets
        PROVE  (\A e \in items'[c][t] : e[1] <= version'[c]) /\ (version'[c] = 0 => items'[c][t] = {})
    <3>1. CASE t \in Touched(c)
      <4>1. 0 < ver
        BY <1>7, <3>1
      <4>2. version'[c] = ver
        BY <1>2
      <4> HIDE DEF ver
      <4>. QED  BY <1>6, <2>1, <3>1, <4>1, <4>2
    <3>2. CASE t \notin Touched(c)
      BY <1>8, <3>2
    <3>. QED  BY <3>1, <3>2
  <2>3. ASSUME NEW d \in Components \ {c}, NEW t \in Targets
        PROVE  (\A e \in items'[d][t] : e[1] <= version'[d]) /\ (version'[d] = 0 => items'[d][t] = {})
    BY <1>2, <1>4 DEF IInv, VersionsBound
  <2>. QED  BY <2>2, <2>3 DEF VersionsBound
<1>12. ASSUME NEW d \in Components PROVE RunRecorded(d)'
  <2>1. CASE d = c
    <3>1. \A t \in acting : t \in Touched(c)
      BY DEF Acting
    <3>2. ASSUME NEW t \in Targets, items'[c][t] # {} PROVE RunItem(c, t)'
      BY <1>1, <1>2, <1>3, <1>7, <1>8, <3>2 DEF RunItem
    <3>3. \A t \in Targets : run[c].decl[t] # Absent \/ t \in acting => items'[c][t] # {}
      BY <1>8, <3>1 DEF Touched
    <3>. QED  BY <2>1, <1>2, <1>3, <3>2, <3>3 DEF RunRecorded
  <2>2. CASE d # c /\ run[d].pc \in {"apply", "commit"}
    BY <2>2, <1>1, <1>2, <1>9, RunKept DEF IInv
  <2>3. CASE d # c /\ run[d].pc \notin {"apply", "commit"}
    BY <2>3, <1>2, RunElsewhere
  <2>. QED  BY <2>1, <2>2, <2>3
<1>13. ASSUME NEW d \in Components PROVE TracksWanted(d)'
  <2>1. Wanted(d)' = Wanted(d)
    BY <1>1 DEF wishes, Wanted
  <2>2. c \notin synced
    BY <1>1 DEF IInv, TracksWanted
  <2>. QED  BY <1>1, <1>2, <1>9, <2>1, <2>2, TracksKept DEF IInv
<1>14. TrackedByOwner'
  <2>1. ASSUME NEW t \in Targets, items'[c][t] # {} PROVE owner'[t] = c
    BY <1>5, <1>8, <2>1 DEF IInv, TrackedByOwner, Touched, Claimed
  <2>2. ASSUME NEW d \in Components \ {c}, NEW t \in Targets, items'[d][t] # {} PROVE owner'[t] = d
    <3>1. items[d][t] # {} /\ owner[t] = d /\ t \notin Preempted(c)
      BY <1>4, <2>2 DEF IInv, TrackedByOwner
    <3>2. t \notin Claimed(c)
      BY <3>1, NobodyAssumption DEF Preempted
    <3>. QED  BY <1>5, <3>1, <3>2
  <2>. QED  BY <2>1, <2>2 DEF TrackedByOwner
<1>15. TrackingCoversSink'
  <2>1. ASSUME NEW t \in Targets, NEW d \in Components, items'[d][t] # {}
        PROVE  sink'[t] \in Possible(items'[d][t])
    BY <1>1, <1>4, <1>7, <1>8, <2>1 DEF IInv, TrackingCoversSink
  <2>2. ASSUME NEW t \in Targets, \A d \in Components : items'[d][t] = {}
        PROVE  sink'[t] = Absent
    <3>1. t \notin Touched(c)
      BY <1>8, <2>2
    <3>2. items[c][t] = {} /\ t \notin Preempted(c)
      BY <3>1 DEF Touched, Preempted, Claimed
    <3>3. \A d \in Components : items[d][t] = {}
      BY <1>4, <2>2, <3>2
    <3>. QED  BY <1>1, <3>3 DEF IInv, TrackingCoversSink
  <2>3. \A t \in Targets, d \in Components : Possible(items[d][t])' = Possible(items'[d][t])
    BY DEF Possible
  <2>. QED  BY <2>1, <2>2, <2>3 DEF TrackingCoversSink
<1>. QED  BY <1>10, <1>11, <1>12, <1>13, <1>14, <1>15 DEF IInv

\* The commit transaction: what the run declared, and nothing else, stays recorded.
LEMMA CommitInv ==
  ASSUME IInv, TypeOK', NEW c \in Components, CommitWrite(c)
  PROVE  IInv'
<1> DEFINE plan == run[c].plan
           decl == run[c].decl
<1>1. /\ UNCHANGED <<wishes, sink, process>> /\ run[c].pc = "commit" /\ run[c] \in Runs
      /\ run[c].todo = {}
  BY DEF CommitWrite, IInv, TypeOK, DeclaresAssigned
<1>2. /\ version'[c] = plan.version /\ items'[c] = plan.items /\ run'[c] = Idle
      /\ \A d \in Components \ {c} :
           /\ version'[d] = version[d] /\ items'[d] = items[d]
           /\ token'[d] = token[d] /\ run'[d] = run[d]
  BY DEF CommitWrite, IInv, TypeOK
<1>3. \A t \in Targets : owner'[t] = IF t \in plan.prune THEN Nobody ELSE owner[t]
  BY DEF CommitWrite
<1>4. /\ \A t \in Targets : items[c][t] # {} => RunItem(c, t) /\ sink[t] = decl[t]
      /\ \A t \in Targets : decl[t] # Absent => items[c][t] # {}
      /\ plan = CommitWrites(c)
  BY <1>1 DEF IInv, RunRecorded, RunItem
<1>5. /\ \A t \in Targets : IF decl[t] = Absent THEN plan.items[t] = {}
                             ELSE Sole(plan.items[t], 1, decl[t])
      /\ \A t \in plan.prune : items[c][t] # {} /\ decl[t] = Absent
      /\ plan.version = 0 => \A t \in Targets : plan.items[t] = {}
      /\ plan.version \in {0, 1}
  <2>1. CASE run[c].mode = "delete"
    <3>1. plan = NoPlan /\ decl = Nothing
      BY <1>4, <2>1 DEF CommitWrites, IInv, DeclaresAssigned
    <3>. QED  BY <3>1 DEF NoPlan, NoItems, Nothing
  <2>2. CASE run[c].mode # "delete"
    <3> DEFINE ver == run[c].ver
               kept == [t \in Targets |-> Retained(items[c][t], ver)]
    <3>1. \A t \in Targets : IF decl[t] = Absent THEN Retained(items[c][t], ver) = {}
                             ELSE Sole(Retained(items[c][t], ver), ver, decl[t])
      <4> TAKE t \in Targets
      <4>1. ver \in Nat /\ decl[t] \in States /\ items[c][t] \in SUBSET Entries
        BY <1>1 DEF Runs, IInv, TypeOK
      <4>2. CASE items[c][t] = {}
        BY <1>4, <4>2 DEF Retained
      <4>3. CASE items[c][t] # {}
        <5>1. Newest(items[c][t], ver, decl[t])
          BY <1>4, <4>3 DEF RunItem
        <5>. QED  BY <4>1, <5>1, RetainedNewest
      <4>. QED  BY <4>2, <4>3
    <3>2. ASSUME NEW t \in Targets, NEW e \in kept[t] PROVE e[1] = ver
      <4>1. e \in Retained(items[c][t], ver)
        OBVIOUS
      <4>. QED  BY <3>1, <4>1 DEF Sole
    <3>3. plan = [items |-> [t \in Targets |-> Bump(kept[t], 1)], version |-> 1,
                  prune |-> {t \in Targets : Pruned(items[c][t], ver)}]
      BY <1>4, <2>2, <3>2 DEF CommitWrites
    <3>4. \A t \in Targets : plan.items[t] = Bump(Retained(items[c][t], ver), 1)
      BY <3>3
    <3>5. ASSUME NEW t \in plan.prune PROVE items[c][t] # {} /\ decl[t] = Absent
      <4>1. t \in Targets /\ Pruned(items[c][t], ver)
        BY <3>3
      <4>. QED  BY <3>1, <4>1 DEF Pruned, Sole
    <3>6. Bump({}, 1) = {}
      BY DEF Bump
    <3>7. \A t \in Targets : IF decl[t] = Absent THEN plan.items[t] = {}
                             ELSE Sole(plan.items[t], 1, decl[t])
      BY <3>1, <3>4, <3>6, BumpSole
    <3>8. plan.version = 1
      BY <3>3
    <3> HIDE DEF plan, decl
    <3>. QED  BY <3>5, <3>7, <3>8
  <2>. QED  BY <2>1, <2>2
<1> HIDE DEF plan, decl
<1>6. VersionsBound'
  <2>1. \A t \in Targets : /\ \A e \in items'[c][t] : e[1] <= version'[c]
                           /\ version'[c] = 0 => items'[c][t] = {}
    <3> TAKE t \in Targets
    <3>1. version'[c] = 0 => items'[c][t] = {}
      BY <1>2, <1>5
    <3>2. CASE version'[c] = 0
      BY <3>1, <3>2
    <3>3. CASE version'[c] = 1
      <4>1. \A e \in items'[c][t] : e[1] = 1
        BY <1>2, <1>5 DEF Sole
      <4>. QED  BY <3>1, <3>3, <4>1
    <3>. QED  BY <1>2, <1>5, <3>2, <3>3
  <2>. QED  BY <1>2, <2>1 DEF IInv, VersionsBound
<1>7. TrackedByOwner'
  <2>1. ASSUME NEW t \in Targets, items'[c][t] # {} PROVE owner'[t] = c
    BY <1>2, <1>3, <1>4, <1>5, <2>1 DEF IInv, TrackedByOwner
  <2>2. ASSUME NEW d \in Components \ {c}, NEW t \in Targets, items'[d][t] # {} PROVE owner'[t] = d
    BY <1>2, <1>3, <1>5, <2>2 DEF IInv, TrackedByOwner
  <2>. QED  BY <2>1, <2>2 DEF TrackedByOwner
<1>8. TrackingCoversSink'
  <2>1. ASSUME NEW t \in Targets, items'[c][t] # {} PROVE sink'[t] \in Possible(items'[c][t])
    <3>1. Sole(items'[c][t], 1, decl[t]) /\ sink[t] = decl[t]
      BY <1>2, <1>4, <1>5, <2>1
    <3>. QED  BY <1>1, <3>1 DEF Possible, Sole
  <2>2. ASSUME NEW t \in Targets, \A d \in Components : items'[d][t] = {}
        PROVE  sink'[t] = Absent
    <3>1. decl[t] = Absent
      BY <1>2, <1>5, <2>2 DEF Sole
    <3>2. CASE items[c][t] # {}
      BY <1>1, <1>4, <3>1, <3>2
    <3>3. CASE items[c][t] = {}
      BY <1>1, <1>2, <2>2, <3>3 DEF IInv, TrackingCoversSink
    <3>. QED  BY <3>2, <3>3
  <2>3. \A t \in Targets, d \in Components \ {c} : Possible(items'[d][t]) = Possible(items[d][t])
    BY <1>2
  <2>4. \A t \in Targets, d \in Components : Possible(items[d][t])' = Possible(items'[d][t])
    BY DEF Possible
  <2>. QED  BY <1>1, <1>2, <2>1, <2>2, <2>3, <2>4 DEF IInv, TrackingCoversSink
<1>9. ASSUME NEW d \in Components PROVE RunRecorded(d)'
  <2>1. CASE d = c
    BY <2>1, <1>2, RunElsewhere DEF Idle
  <2>2. CASE d # c
    BY <2>2, <1>1, <1>2, RunKept DEF IInv
  <2>. QED  BY <2>1, <2>2
<1>10. DeclaresAssigned'
  <2>1. assigned' = assigned
    BY <1>1 DEF wishes
  <2>2. Idle.decl = Nothing /\ Idle.todo = {} /\ \A t \in Targets : Nothing[t] = Absent
    BY DEF Idle, Nothing
  <2>. QED  BY <1>2, <2>1, <2>2 DEF IInv, DeclaresAssigned
<1>11. ASSUME NEW d \in Components PROVE TracksWanted(d)'
  <2>1. \A e \in Components : Wanted(e)' = Wanted(e)
    BY <1>1 DEF wishes, Wanted
  <2>2. synced' = IF decl = Wanted(c) THEN synced \cup {c} ELSE synced
    BY DEF CommitWrite, decl
  <2>3. CASE d = c
    <3>1. c \notin synced
      BY <1>1 DEF IInv, TracksWanted
    <3>2. c \in synced' => decl = Wanted(c)
      BY <2>2, <3>1
    <3>3. c \in synced' => \A t \in Targets :
            IF Wanted(c)[t] = Absent THEN items'[c][t] = {}
            ELSE Sole(items'[c][t], 1, Wanted(c)[t])
      BY <1>2, <1>5, <3>2
    <3>4. run'[c].pc = "idle"
      BY <1>2 DEF Idle
    <3>. QED  BY <2>1, <2>3, <3>3, <3>4 DEF TracksWanted, Sole
  <2>4. CASE d # c
    BY <1>2, <2>1, <2>2, <2>4, TracksKept DEF IInv
  <2>. QED  BY <2>3, <2>4
<1>. QED  BY <1>6, <1>7, <1>8, <1>9, <1>10, <1>11 DEF IInv

-----------------------------------------------------------------------------
(* The theorems. *)

\* The invariant holds of every reachable state.
THEOREM Invariant ==
  ASSUME ~OverlappingRuns
  PROVE  Spec => []IInv
<1>1. IInv /\ TypeOK' /\ [Next]_vars => IInv'
  <2> SUFFICES ASSUME IInv, TypeOK', [Next]_vars PROVE IInv'
    OBVIOUS
  <2>1. CASE \E t \in Targets, d \in Components \cup {Nobody}, v \in Values : ChangeWanted(t, d, v)
    BY <2>1, ChangeWantedInv
  <2>2. ASSUME NEW c \in Components, StartDelete(c) \/ \E full \in BOOLEAN : StartBuild(c, full)
        PROVE  IInv'
    BY <2>2, StartInv
  <2>3. ASSUME NEW c \in Components,
               PrecommitRetry(c) \/ SinkFails(c) \/ CommitRead(c) \/ CommitFails(c)
        PROVE  IInv'
    BY <2>3, RunStepInv
  <2>4. ASSUME NEW c \in Components, Precommit(c)
        PROVE  IInv'
    BY <2>4, PrecommitInv
  <2>5. ASSUME NEW c \in Components, NEW t \in Targets, ApplyAction(c, t)
        PROVE  IInv'
    BY <2>5, ApplyInv
  <2>6. ASSUME NEW c \in Components, CommitWrite(c)
        PROVE  IInv'
    BY <2>6, CommitInv
  <2>7. ASSUME NEW c \in Components, CleanupToken(c)
        PROVE  IInv'
    BY <2>7, CleanupInv
  <2>8. CASE Cancel \/ Crash
    BY <2>8, DropInv
  <2>9. CASE UNCHANGED vars
    <3>1. UNCHANGED <<wishes, store, sink, synced, run, process>>
      BY <2>9 DEF vars
    <3>2. \A c \in Components : RunGoesOn(c) /\ RunRecorded(c)'
      BY <3>1, RunKept DEF RunGoesOn, IInv, store
    <3>. QED  BY <3>1, <3>2, RunOnlyInv
  <2>. QED
    BY <2>1, <2>2, <2>3, <2>4, <2>5, <2>6, <2>7, <2>8, <2>9 DEF Next
<1>. QED  BY InitInv, <1>1, TypeCorrect, PTL DEF Spec

\* Nothing is lost sight of: crashes, cancellations and failures included, the
\* sink holds nothing but what the tracking record says it may hold.
THEOREM TrackingCovers ==
  ASSUME ~OverlappingRuns
  PROVE  Spec => []TrackingCoversSink
<1>1. IInv => TrackingCoversSink
  BY DEF IInv
<1>. QED  BY <1>1, Invariant, PTL

\* Only the owner of a target tracks it.
THEOREM OwnersTrack ==
  ASSUME ~OverlappingRuns
  PROVE  Spec => []TrackedByOwner
<1>1. IInv => TrackedByOwner
  BY DEF IInv
<1>. QED  BY <1>1, Invariant, PTL

\* Two runs never have sink actions on one target queued.
THEOREM SinkActionsExclusive ==
  ASSUME ~OverlappingRuns
  PROVE  Spec => []OneSinkWriter
<1>1. IInv => OneSinkWriter
  <2> SUFFICES ASSUME IInv, NEW c \in Components, NEW d \in Components, c # d,
                      NEW t \in run[c].todo \cap run[d].todo
               PROVE  FALSE
    BY DEF OneSinkWriter
  <2>1. run[c].pc = "apply" /\ run[d].pc = "apply" /\ t \in Targets
    BY DEF IInv, DeclaresAssigned, TypeOK, Runs
  <2>2. items[c][t] # {} /\ items[d][t] # {}
    BY <2>1 DEF IInv, RunRecorded
  <2>. QED  BY <2>1, <2>2 DEF IInv, TrackedByOwner
<1>. QED  BY <1>1, Invariant, PTL

\* Nobody writes a record between the read of a commit and its transaction.
THEOREM CommitsAreFresh ==
  ASSUME ~OverlappingRuns
  PROVE  Spec => []CommitPlanIsFresh
<1>1. IInv => CommitPlanIsFresh
  BY DEF IInv, RunRecorded, CommitPlanIsFresh
<1>. QED  BY <1>1, Invariant, PTL

\* A run that succeeds with what the sources want leaves it in the sink.
THEOREM SyncedIsInSink ==
  ASSUME ~OverlappingRuns
  PROVE  Spec => []SyncedTargetsAreInSink
<1>1. IInv => SyncedTargetsAreInSink
  <2> SUFFICES ASSUME IInv PROVE SyncedTargetsAreInSink
    OBVIOUS
  <2>1. ASSUME NEW t \in Targets, assigned[t] \in synced PROVE sink[t] = content[t]
    <3> DEFINE c == assigned[t]
    <3>1. c \in Components /\ Wanted(c)[t] = content[t] /\ content[t] # Absent
      BY <2>1, AbsentAssumption DEF IInv, TypeOK, Wanted
    <3>2. PICK e \in items[c][t] : e[2] = content[t] /\ items[c][t] = {e}
      BY <2>1, <3>1 DEF IInv, TracksWanted
    <3>3. Possible(items[c][t]) = {content[t]}
      BY <3>2 DEF Possible
    <3>. QED  BY <3>1, <3>2, <3>3 DEF IInv, TrackingCoversSink
  <2>2. ASSUME synced = Components, NEW t \in Targets, assigned[t] = Nobody
        PROVE  sink[t] = Absent
    <3>1. \A c \in Components : Wanted(c)[t] = Absent
      BY <2>2, NobodyAssumption DEF Wanted
    <3>. QED  BY <2>2, <3>1 DEF IInv, TracksWanted, TrackingCoversSink
  <2>. QED  BY <2>1, <2>2 DEF SyncedTargetsAreInSink
<1>. QED  BY <1>1, Invariant, PTL

\* After a success a component's record says of every target what it holds.
THEOREM SettledAgree ==
  ASSUME ~OverlappingRuns
  PROVE  Spec => []SettledItemsAgree
<1>1. IInv => SettledItemsAgree
  <2> SUFFICES ASSUME IInv, NEW c \in synced, NEW t \in Targets,
                      NEW a \in items[c][t], NEW b \in items[c][t]
               PROVE  a[2] = b[2] /\ a[1] <= version[c]
    BY DEF SettledItemsAgree
  <2>1. c \in Components
    BY DEF IInv, TypeOK
  <2>2. a = b
    BY <2>1 DEF IInv, TracksWanted
  <2>. QED  BY <2>1, <2>2 DEF IInv, VersionsBound
<1>. QED  BY <1>1, Invariant, PTL

\* Tokens name processes so far, and a live one has its run.
TokenInv ==
  /\ \A c \in Components : token[c] <= process
  /\ LiveTokenHasRun

\* Where nothing is cancelled, who waits for a token waits for a run: no
\* assumption on overlapping runs is needed.
THEOREM LiveTokens ==
  ASSUME ~Cancellation
  PROVE  Spec => []LiveTokenHasRun
<1>1. Init => TokenInv
  BY DEF Init, TokenInv, LiveTokenHasRun
<1>2. TokenInv /\ TypeOK /\ [Next]_vars => TokenInv'
  <2> SUFFICES ASSUME TokenInv, TypeOK, [Next]_vars PROVE TokenInv'
    OBVIOUS
  <2> USE DEF TokenInv, LiveTokenHasRun, TypeOK, store
  <2>1. ASSUME NEW t \in Targets, NEW d \in Components \cup {Nobody}, NEW v \in Values,
               ChangeWanted(t, d, v)
        PROVE  TokenInv'
    BY <2>1 DEF ChangeWanted
  <2>2. ASSUME NEW c \in Components, NEW full \in BOOLEAN, StartBuild(c, full)
        PROVE  TokenInv'
    BY <2>2 DEF StartBuild
  <2>3. ASSUME NEW c \in Components, StartDelete(c)
        PROVE  TokenInv'
    BY <2>3 DEF StartDelete
  <2>4. ASSUME NEW c \in Components, PrecommitRetry(c)
        PROVE  TokenInv'
    BY <2>4 DEF PrecommitRetry
  <2>5. ASSUME NEW c \in Components, Precommit(c)
        PROVE  TokenInv'
    <3>1. run'[c].pc = "apply" /\ token'[c] \in {0, process} /\ process' = process
      BY <2>5 DEF Precommit, Runs
    <3>2. \A d \in Components \ {c} : run'[d] = run[d] /\ token'[d] = token[d]
      BY <2>5 DEF Precommit
    <3>3. token'[c] <= process'
      BY <3>1
    <3>4. \A d \in Components \ {c} :
            /\ token'[d] <= process'
            /\ token'[d] = process' => run'[d].pc \in {"apply", "commit", "cleanup"}
      BY <3>1, <3>2
    <3>. QED  BY <3>1, <3>3, <3>4
  <2>6. ASSUME NEW c \in Components, NEW t \in Targets, ApplyAction(c, t)
        PROVE  TokenInv'
    <3>1. run'[c].pc = run[c].pc
      BY <2>6 DEF ApplyAction, Runs
    <3>. QED  BY <2>6, <3>1 DEF ApplyAction
  <2>7. ASSUME NEW c \in Components, SinkFails(c) \/ CommitRead(c) \/ CommitFails(c)
        PROVE  TokenInv'
    <3>1. run'[c].pc \in {"cleanup", "commit"} /\ UNCHANGED <<token, process>>
      BY <2>7 DEF SinkFails, CommitRead, CommitFails, Runs
    <3>2. \A d \in Components \ {c} : run'[d] = run[d]
      BY <2>7 DEF SinkFails, CommitRead, CommitFails
    <3>. QED  BY <3>1, <3>2
  <2>8. ASSUME NEW c \in Components, CommitWrite(c) \/ CleanupToken(c)
        PROVE  TokenInv'
    <3>1. token'[c] # process /\ token'[c] <= process /\ process' = process
      BY <2>8 DEF CommitWrite, CleanupToken
    <3>2. \A d \in Components \ {c} : run'[d] = run[d] /\ token'[d] = token[d]
      BY <2>8 DEF CommitWrite, CleanupToken
    <3>. QED  BY <3>1, <3>2
  <2>9. CASE Cancel
    BY <2>9 DEF Cancel
  <2>10. CASE Crash
    BY <2>10 DEF Crash
  <2>11. CASE UNCHANGED vars
    BY <2>11 DEF vars
  <2>. QED
    BY <2>1, <2>2, <2>3, <2>4, <2>5, <2>6, <2>7, <2>8, <2>9, <2>10, <2>11 DEF Next
<1>3. TokenInv => LiveTokenHasRun
  BY DEF TokenInv
<1>. QED  BY <1>1, <1>2, <1>3, TypeCorrect, PTL DEF Spec
=============================================================================
