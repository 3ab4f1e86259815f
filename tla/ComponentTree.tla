--------------------------- MODULE ComponentTree ---------------------------
(***************************************************************************)
(* The tree of processing components over the updates of an app: builds    *)
(* of the children a component mounts, component memoization, existence    *)
(* rows and tombstones, and the deletes of components that are no longer   *)
(* mounted.                                                                *)
(* Source: Component::execute_once, run_in_background and delete in        *)
(* rust/core/src/engine/component.rs, submit, the Committer and their      *)
(* helpers in rust/core/src/engine/execution.rs, reconcile_child_existence *)
(* in rust/core/src/state_store/submit_session.rs, App::update in          *)
(* rust/core/src/engine/app.rs.                                            *)
(*                                                                         *)
(* Components below the root are memoized by the content they process,     *)
(* which also says what components they mount in their turn.               *)
(* The target states of a component are one place of the sink that holds   *)
(* the content last applied; how `submit` gets it there is the subject of  *)
(* TargetStates.  Paths of components lie directly below their parent's.   *)
(* An orphan's delete that fails is logged and swallowed, the behaviour    *)
(* of an update of an app without exception handlers.                      *)
(***************************************************************************)
EXTENDS Naturals, FiniteSets

CONSTANTS
  Components, Root,
  Parent,      \* [Components \ {Root} -> Components]
  Contents, Absent,
  Mounts,      \* [Contents -> components below the top that processing it mounts]
  Validated,   \* components whose content is a memo state rather than part of the memo key
  Modes,       \* the values of AppUpdateOptions.full_reprocess that updates use
  Slots,       \* delete runs of one component that may be in flight at once
  MaxChanges,  \* bound on changes of the sources
  MaxFaults,   \* bound on steps that fail and on crashes
  MaxCancels   \* bound on cancelled updates

Children(c) == {d \in Components \ {Root} : Parent[d] = c}
Tops == Children(Root)

\* Trees of two levels below the root are all that is instantiated.
ASSUME TreeAssumption ==
  /\ Root \in Components
  /\ Parent \in [Components \ {Root} -> Components]
  /\ \A c \in Components \ {Root} : c \in Tops \/ Parent[c] \in Tops
ASSUME ContentAssumption == Absent \notin Contents /\ Mounts \in [Contents -> SUBSET Components]
ASSUME TreeBounds ==
  /\ MaxChanges \in Nat /\ MaxFaults \in Nat /\ MaxCancels \in Nat
  /\ Modes \subseteq BOOLEAN /\ Validated \subseteq Components

VARIABLES
  wanted,     \* [Tops -> content]: the sources, what the root is to mount
  exists,     \* components with a `__cex` row under their parent
  tombstones, \* components with a tombstone under their parent
  memo,       \* [Components -> content of the component-memo row]
  sink,       \* [Components -> content its target states have in the sink]
  build,      \* the build of each component
  deletes,    \* the delete runs of each component
  full,       \* does the update in flight run under full_reprocess?
  synced,     \* did the last update succeed with the sources as they are?
  outlived,   \* components of which a delete outlived the update it is from
  bypassed,   \* components that ran past a memo row which stayed, and have not completed since
  changes, faults, cancels

store  == <<exists, tombstones, memo>>
ghosts == <<synced, outlived, bypassed>>
bounds == <<changes, faults, cancels>>
vars   == <<wanted, store, sink, build, deletes, full, ghosts, bounds>>

States == Contents \cup {Absent}

BuildPCs == {"idle", "check", "wait", "process", "applied", "collect", "await", "finish", "done"}
DeletePCs == {"idle", "start", "preflight", "remove", "applied", "collect", "await", "cleanup"}

\* want: what the component was mounted with; failed: has_exception.
Build(pc, want, failed) == [pc |-> pc, want |-> want, failed |-> failed]
NoBuild == Build("idle", Absent, FALSE)

\* waited: is a run of the parent awaiting this delete's handle?
Delete(pc, waited) == [pc |-> pc, waited |-> waited]
NoDelete == Delete("idle", FALSE)

\* Nothing changes but the run's own pc.
GoBuild(c, pc) == build' = [build EXCEPT ![c].pc = pc]
GoDelete(d, s, pc) == deletes' = [deletes EXCEPT ![d][s].pc = pc]

Active(d) == \E s \in Slots : deletes[d][s].pc # "idle"

\* The permit of build_semaphore.
Held(c) ==
  \/ build[c].pc \in {"process", "applied", "collect", "await"}
  \/ \E s \in Slots : deletes[c][s].pc \in {"preflight", "remove", "applied", "collect", "await"}

\* What a build of c that was mounted with `want` mounts d with.
MountedWith(c, want, d) ==
  IF c = Root THEN wanted[d]
  ELSE IF want \in Contents /\ d \in Mounts[want] THEN want ELSE Absent

\* child_path_set of the build of c.
Mounted(c) == {d \in Children(c) : build[d].want # Absent}

\* What the sources ask of c.
Want(c) == IF c \in Tops THEN wanted[c] ELSE MountedWith(Parent[c], wanted[Parent[c]], c)

-----------------------------------------------------------------------------
Init ==
  /\ wanted = [t \in Tops |-> Absent]
  /\ exists = {} /\ tombstones = {}
  /\ memo = [c \in Components |-> Absent]
  /\ sink = [c \in Components |-> Absent]
  /\ build = [c \in Components |-> NoBuild]
  /\ deletes = [c \in Components |-> [s \in Slots |-> NoDelete]]
  /\ full = FALSE
  /\ synced = FALSE /\ outlived = {} /\ bypassed = {}
  /\ changes = 0 /\ faults = 0 /\ cancels = 0

ChangeWanted ==
  /\ changes < MaxChanges
  /\ \E t \in Tops, v \in States :
       /\ v # wanted[t]
       /\ wanted' = [wanted EXCEPT ![t] = v]
  /\ changes' = changes + 1 /\ synced' = FALSE
  /\ UNCHANGED <<store, sink, build, deletes, full, outlived, bypassed, faults, cancels>>

-----------------------------------------------------------------------------
(* Builds.                                                                 *)

\* App::update runs the root, whose processor is not memoized.
StartUpdate ==
  /\ build[Root].pc = "idle"
  /\ full' \in Modes
  /\ GoBuild(Root, "wait")
  /\ UNCHANGED <<wanted, store, sink, deletes, ghosts, bounds>>

\* The build of c ends: its children's contexts go with it.
Ended(c, failed) ==
  [d \in Components |->
     CASE d = c -> IF c = Root THEN NoBuild ELSE Build("done", build[c].want, failed)
       [] d \in Children(c) -> NoBuild
       [] OTHER -> build[d]]

\* Mutant of Reusable: any row will do.
ReusableWhatever(c) == ~full /\ memo[c] # Absent /\ build[c].want # Absent

\* use_or_invalidate_component_memoization finds a valid row: the call
\* returns before it asks for the permit or writes the existence row.
Reusable(c) == ~full /\ memo[c] = build[c].want

Hit(c) ==
  /\ build[c].pc = "check" /\ Reusable(c)
  /\ build' = Ended(c, FALSE)
  /\ UNCHANGED <<wanted, store, sink, deletes, full, ghosts, bounds>>

\* The row is deleted, except under full_reprocess, which returns before it
\* looks at the row, and when it is the memo states that are not valid.
Invalidated(c) == IF full \/ c \in Validated THEN memo ELSE [memo EXCEPT ![c] = Absent]

Miss(c) ==
  /\ build[c].pc = "check" /\ ~Reusable(c)
  /\ memo' = Invalidated(c)
  /\ bypassed' = IF memo'[c] # Absent THEN bypassed \cup {c} ELSE bypassed
  /\ GoBuild(c, "wait")
  /\ UNCHANGED <<wanted, exists, tombstones, sink, deletes, full, synced, outlived, bounds>>

\* Reading or deleting the row failed: logged, and the build goes on.
RestoreFails(c) ==
  /\ build[c].pc = "check"
  /\ faults < MaxFaults /\ faults' = faults + 1
  /\ bypassed' = IF memo[c] # Absent THEN bypassed \cup {c} ELSE bypassed
  /\ GoBuild(c, "wait")
  /\ UNCHANGED <<wanted, store, sink, deletes, full, synced, outlived, changes, cancels>>

\* Mutant of Upserted: leaving the row to the parent's commit.
UpsertedByParent(c) == exists

\* eager_existence_upsert.
Upserted(c) == IF c = Root THEN exists ELSE exists \cup {c}

\* The permit, the existence row, and `process`, which mounts the children.
Process(c) ==
  /\ build[c].pc = "wait" /\ ~Held(c)
  /\ exists' = Upserted(c)
  /\ build' = [d \in Components |->
       CASE d = c -> [build[c] EXCEPT !.pc = "process"]
         [] d \in Children(c) /\ MountedWith(c, build[c].want, d) # Absent ->
              Build("check", MountedWith(c, build[c].want, d), FALSE)
         [] OTHER -> build[d]]
  /\ UNCHANGED <<wanted, tombstones, memo, sink, deletes, full, ghosts, bounds>>

\* readiness().wait() on the children.
ChildrenReady(c) == \A d \in Mounted(c) : build[d].pc = "done"

Apply(c) ==
  /\ build[c].pc = "process" /\ ChildrenReady(c)
  /\ sink' = [sink EXCEPT ![c] = build[c].want]
  /\ GoBuild(c, "applied")
  /\ UNCHANGED <<wanted, store, deletes, full, ghosts, bounds>>

\* reconcile_child_existence of a commit of c that declares `kept`.
Reconcile(c, kept) ==
  /\ exists' = (exists \ Children(c)) \cup kept
  /\ tombstones' = tombstones \cup ((exists \cap Children(c)) \ kept)

Commit(c) ==
  /\ build[c].pc = "applied"
  /\ Reconcile(c, Mounted(c))
  /\ GoBuild(c, "collect")
  /\ UNCHANGED <<wanted, memo, sink, deletes, full, ghosts, bounds>>

\* Mutant of Listed: skips components that have nothing mounted below them now.
ListedOfMounting(c) == IF Mounted(c) = {} THEN {} ELSE tombstones \cap Children(c)

\* list_tombstones of a run of c, which may hold children that exist.
Listed(c) == tombstones \cap Children(c)

\* launch_child_component_gc spawns a delete for each of them.
Free(d) == {s \in Slots : deletes[d][s].pc = "idle"}
Spawned(c, runs) ==
  [d \in Components |->
     IF d \in Listed(c) THEN [runs[d] EXCEPT ![CHOOSE s \in Free(d) : TRUE] = Delete("start", TRUE)]
     ELSE runs[d]]

Collect(c) ==
  /\ build[c].pc = "collect"
  /\ \A d \in Listed(c) : Free(d) # {}
  /\ deletes' = Spawned(c, deletes)
  /\ GoBuild(c, "await")
  /\ UNCHANGED <<wanted, store, sink, full, ghosts, bounds>>

\* The handles of the deletes are resolved; leaving `submit` frees the permit.
HandlesReady(c) == \A d \in Children(c), s \in Slots : ~deletes[d][s].waited

Release(c) ==
  /\ build[c].pc = "await" /\ HandlesReady(c)
  /\ GoBuild(c, "finish")
  /\ UNCHANGED <<wanted, store, sink, deletes, full, ghosts, bounds>>

\* Mutant of ChildFailed: looks at the component's own outcome only.
ChildFailedIgnored(c) == build[c].failed

\* post_submit_for_build writes the memo, unless a component below failed.
ChildFailed(c) == \E d \in Mounted(c) : build[d].failed

UpToDate == \A t \in Tops : build[t].want = wanted[t]

Finish(c) ==
  /\ build[c].pc = "finish"
  /\ memo' = IF c = Root \/ ChildFailed(c) THEN memo ELSE [memo EXCEPT ![c] = build[c].want]
  /\ bypassed' = IF ChildFailed(c) THEN bypassed ELSE bypassed \ {c}
  /\ synced' = IF c = Root THEN UpToDate /\ ~ChildFailed(c) ELSE synced
  /\ build' = Ended(c, ChildFailed(c))
  /\ UNCHANGED <<wanted, exists, tombstones, sink, deletes, full, outlived, bounds>>

\* `process` raises, the sink or a transaction fails: the exception ends in
\* run_in_background, the parent's run goes on.
BuildFails(c) ==
  /\ build[c].pc = "process" => ChildrenReady(c)
  /\ build[c].pc \in {"check", "wait", "process", "applied", "collect", "finish"}
  /\ faults < MaxFaults /\ faults' = faults + 1
  /\ build' = Ended(c, TRUE)
  /\ UNCHANGED <<wanted, store, sink, deletes, full, ghosts, changes, cancels>>

BuildStep(c) ==
  \/ Hit(c) \/ Miss(c) \/ Process(c) \/ Apply(c) \/ Commit(c) \/ Collect(c)
  \/ Release(c) \/ Finish(c)

-----------------------------------------------------------------------------
(* Deletes of components with a tombstone.                                 *)

\* The permit, then the component memo, before anything is read.
StartDelete(d, s) ==
  /\ deletes[d][s].pc = "start" /\ ~Held(d)
  /\ memo' = [memo EXCEPT ![d] = Absent]
  /\ GoDelete(d, s, "preflight")
  /\ UNCHANGED <<wanted, exists, tombstones, sink, build, full, ghosts, bounds>>

\* Mutant of Reinserted: trusts the tombstone.
ReinsertedWithoutTombstone(d) == d \in exists \ tombstones

\* A component that was mounted again in the meantime is left alone.
Reinserted(d) == d \in exists

Preflight(d, s) ==
  /\ deletes[d][s].pc = "preflight"
  /\ GoDelete(d, s, IF Reinserted(d) THEN "cleanup" ELSE "remove")
  /\ UNCHANGED <<wanted, store, sink, build, full, ghosts, bounds>>

Remove(d, s) ==
  /\ deletes[d][s].pc = "remove"
  /\ sink' = [sink EXCEPT ![d] = Absent]
  /\ bypassed' = bypassed \ {d}
  /\ GoDelete(d, s, "applied")
  /\ UNCHANGED <<wanted, store, build, full, synced, outlived, bounds>>

\* The commit of a delete declares no child.
CommitDelete(d, s) ==
  /\ deletes[d][s].pc = "applied"
  /\ Reconcile(d, {})
  /\ GoDelete(d, s, "collect")
  /\ UNCHANGED <<wanted, memo, sink, build, full, ghosts, bounds>>

CollectBelow(d, s) ==
  /\ deletes[d][s].pc = "collect"
  /\ \A e \in Listed(d) : Free(e) # {}
  /\ deletes' = Spawned(d, [deletes EXCEPT ![d][s].pc = "await"])
  /\ UNCHANGED <<wanted, store, sink, build, full, ghosts, bounds>>

ReleaseDelete(d, s) ==
  /\ deletes[d][s].pc = "await" /\ HandlesReady(d)
  /\ GoDelete(d, s, "cleanup")
  /\ UNCHANGED <<wanted, store, sink, build, full, ghosts, bounds>>

\* cleanup_tombstone, after the permit is free again.
Cleanup(d, s) ==
  /\ deletes[d][s].pc = "cleanup"
  /\ tombstones' = tombstones \ {d}
  /\ deletes' = [deletes EXCEPT ![d][s] = NoDelete]
  /\ UNCHANGED <<wanted, exists, memo, sink, build, full, ghosts, bounds>>

\* The error is logged and swallowed: the handle resolves with Ok.
DeleteFails(d, s) ==
  /\ deletes[d][s].pc \in {"start", "preflight", "remove", "applied", "collect", "cleanup"}
  /\ faults < MaxFaults /\ faults' = faults + 1
  /\ deletes' = [deletes EXCEPT ![d][s] = NoDelete]
  /\ UNCHANGED <<wanted, store, sink, build, full, ghosts, changes, cancels>>

DeleteStep(d, s) ==
  \/ StartDelete(d, s) \/ Preflight(d, s) \/ Remove(d, s) \/ CommitDelete(d, s)
  \/ CollectBelow(d, s) \/ ReleaseDelete(d, s) \/ Cleanup(d, s)

-----------------------------------------------------------------------------
(* Cancellation drops the builds; deletes are not raced against the token, *)
(* and those that a dropped build awaited go on alone.                     *)
Cancel ==
  /\ cancels < MaxCancels /\ cancels' = cancels + 1
  /\ build[Root].pc # "idle"
  /\ build' = [c \in Components |-> NoBuild]
  /\ deletes' = [d \in Components |-> [s \in Slots |->
       IF d # Root /\ build[Parent[d]].pc = "await"
       THEN [deletes[d][s] EXCEPT !.waited = FALSE] ELSE deletes[d][s]]]
  /\ outlived' = outlived \cup {d \in Components : Active(d)}
                          \cup UNION {Children(d) : d \in {e \in Components : Active(e)}}
  /\ UNCHANGED <<wanted, store, sink, full, synced, bypassed, changes, faults>>

Crash ==
  /\ faults < MaxFaults /\ faults' = faults + 1
  /\ build' = [c \in Components |-> NoBuild]
  /\ deletes' = [c \in Components |-> [s \in Slots |-> NoDelete]]
  /\ full' = FALSE
  /\ UNCHANGED <<wanted, store, sink, ghosts, changes, cancels>>

Next ==
  \/ ChangeWanted \/ StartUpdate \/ Cancel \/ Crash
  \/ \E c \in Components : BuildStep(c) \/ RestoreFails(c) \/ BuildFails(c)
  \/ \E d \in Components, s \in Slots : DeleteStep(d, s) \/ DeleteFails(d, s)

Spec == Init /\ [][Next]_vars

\* tokio polls what is ready; the app is updated again and again.
FairSpec ==
  /\ Spec
  /\ WF_vars(StartUpdate)
  /\ \A c \in Components : WF_vars(BuildStep(c))
  /\ \A d \in Components, s \in Slots : WF_vars(DeleteStep(d, s))

-----------------------------------------------------------------------------
(* Properties.                                                             *)

\* Every variable holds a value of its type; the root has no existence row,
\* tombstone or memo.
TypeOK ==
  /\ wanted \in [Tops -> States]
  /\ exists \subseteq Components \ {Root} /\ tombstones \subseteq Components \ {Root}
  /\ memo \in [Components -> States] /\ memo[Root] = Absent
  /\ sink \in [Components -> States]
  /\ build \in [Components -> [pc : BuildPCs, want : States, failed : BOOLEAN]]
  /\ deletes \in [Components -> [Slots -> [pc : DeletePCs, waited : BOOLEAN]]]
  /\ full \in BOOLEAN /\ synced \in BOOLEAN
  /\ outlived \subseteq Components /\ bypassed \subseteq Components
  /\ changes \in 0..MaxChanges /\ faults \in 0..MaxFaults /\ cancels \in 0..MaxCancels

\* Components whose state depends on a delete of an earlier update or on a
\* memo, their own or that of the parent, which a run has passed by.
Exempt ==
  bypassed \cup outlived \cup UNION {Children(c) : c \in bypassed \cup outlived}

\* A component with anything in the sink exists or waits to be deleted, in
\* whatever order builds, commits of the parent, deletes, failures and
\* crashes come ("existence covers tracked state", Component::execute_once).
\* A delete that outlived its update cleans up a tombstone it does not own.
ChildrenAccounted ==
  \A c \in Components : sink[c] # Absent => c \in exists \cup tombstones \cup outlived

\* A memo that is there stands for what the component and the components it
\* mounts have in the sink, so that a hit may skip them: a build deletes it
\* before it touches the sink and writes it when all below has succeeded.
\* Exempt are memos a run passed by without deleting them.
MemosMatchSubtree ==
  \A c \in Components \ Exempt : memo[c] # Absent =>
    \A d \in ({c} \cup (Children(c) \cap Mounts[memo[c]])) \ Exempt : sink[d] = memo[c]

\* Once an update succeeded, what the sources want is in the sink, whatever
\* was skipped, retried or still being deleted.
WantedIsInSink ==
  synced => \A c \in Components \ (Exempt \cup {Root}) : Want(c) # Absent => sink[c] = Want(c)

\* The delete of a component never takes away the target states of a
\* component that exists (again): the preflight of `submit` in delete mode.
ExistingAreSpared ==
  [][\A c \in Components \ outlived : sink[c] # Absent /\ sink'[c] = Absent => c \notin exists']_vars

\* Updated again and again, the app gets to a sink that holds what the
\* sources want and nothing of a component the root no longer mounts,
\* as long as no delete outlived its update.
TreeConverges ==
  <>[](\A c \in Components \ (Exempt \cup {Root}) :
         (c \in Tops \/ Want(c) # Absent) => sink[c] = Want(c))

\* What a delete could not delete stays within reach of a later update: the
\* components above it exist or wait to be deleted themselves.
OrphansReachable ==
  \A c \in Components \ (outlived \cup {Root}) : sink[c] # Absent =>
    {c, Parent[c]} \subseteq exists \cup tombstones \cup {Root}
=============================================================================
