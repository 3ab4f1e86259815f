------------------------------ MODULE Inflight ------------------------------
(***************************************************************************)
(* Who waits for whom while the components of an app run: the app-wide     *)
(* inflight permits, the build semaphore of each component, and the        *)
(* readiness a parent waits for before it submits.                         *)
(* Source: Component::run, run_in_background, execute_once and             *)
(* ComponentBgChildReadiness in rust/core/src/engine/component.rs,         *)
(* App::update in rust/core/src/engine/app.rs,                             *)
(* reset_cancellation_token_if_cancelled in rust/core/src/engine/context.rs.*)
(*                                                                         *)
(* A run is a component in one update.  A process may mount each child of  *)
(* its component once, or not at all.  What a run writes is the subject of *)
(* ComponentTree; deletes take no inflight permit and are left out.        *)
(***************************************************************************)
EXTENDS Naturals, FiniteSets

CONSTANTS
  Components, Root,
  Parent,      \* [Components \ {Root} -> Components]
  Updates,     \* calls of App::update
  NoRun,       \* the build permit is free
  Quota,       \* max_inflight_components
  Overlap,     \* may an update be started while runs of another one are in flight?
  MaxFaults,   \* bound on steps that fail
  MaxPanics    \* bound on tasks that panic

Runs == Updates \X Components

ASSUME TreeAssumption == Root \in Components /\ Parent \in [Components \ {Root} -> Components]
ASSUME NoRunAssumption == NoRun \notin Runs
ASSUME QuotaAssumption == Quota \in Nat \ {0}
ASSUME FlagAssumption == Overlap \in BOOLEAN /\ MaxFaults \in Nat /\ MaxPanics \in Nat

VARIABLES
  pc,         \* [Runs -> where the run stands]
  result,     \* [Runs -> what a run that leaves or ended reports upward]
  free,       \* permits left in inflight_semaphore
  permit,     \* runs whose context holds an inflight permit
  sem,        \* [Components -> run that holds the permit of build_semaphore]
  remaining,  \* [Runs -> remaining_count of its components_readiness]
  built,      \* runs that called set_build_done
  exception,  \* runs whose children's merged outcome has an exception
  ready,      \* [Runs -> what the SetOnce `readiness` holds]
  failed,     \* runs whose process returned an error
  token,      \* the app's cancellation token, numbered
  tokenOf,    \* [Runs -> token captured when the task was spawned]
  cancelled,  \* tokens that are cancelled
  faults, panics

permits   == <<free, permit, sem>>
readiness == <<remaining, built, exception, ready>>
tokens    == <<token, tokenOf, cancelled>>
bounds    == <<faults, panics>>
vars      == <<pc, result, permits, readiness, failed, tokens, bounds>>

PCs == {"none", "acquire", "spawned", "wait", "process", "ready", "submit", "leaving", "ended", "dropped"}

Comp(r) == r[2]
IsRoot(r) == r[2] = Root
Above(r) == <<r[1], Parent[r[2]]>>
Below(r) == {q \in Runs : ~IsRoot(q) /\ Above(q) = r}

\* The task of the run exists.
Spawned(r) == pc[r] \in {"spawned", "wait", "process", "ready", "submit", "leaving"}
\* add_child was called for the run and its guard is not resolved yet.
Guarded(r) == {q \in Below(r) : Spawned(q)}

\* Mutant of ReadyAfter: children that still run are not waited for.
ReadyAfterProcess(p, rem, done, exc, broken) ==
  IF ready[p] # "no" THEN ready[p]
  ELSE IF broken THEN "error"
  ELSE IF ~done THEN "no"
  ELSE IF exc THEN "exception" ELSE "ok"

\* maybe_set_readiness of p, after its counter or its outcome changed.
ReadyAfter(p, rem, done, exc, broken) ==
  IF ready[p] # "no" THEN ready[p]
  ELSE IF broken THEN "error"
  ELSE IF rem # 0 \/ ~done THEN "no"
  ELSE IF exc THEN "exception" ELSE "ok"

-----------------------------------------------------------------------------
Init ==
  /\ pc = [r \in Runs |-> "none"]
  /\ result = [r \in Runs |-> "none"]
  /\ free = Quota /\ permit = {}
  /\ sem = [c \in Components |-> NoRun]
  /\ remaining = [r \in Runs |-> 0] /\ built = {} /\ exception = {}
  /\ ready = [r \in Runs |-> "no"]
  /\ failed = {}
  /\ token = 0 /\ tokenOf = [r \in Runs |-> 0] /\ cancelled = {}
  /\ faults = 0 /\ panics = 0

Quiet == \A r \in Runs : pc[r] # "acquire" /\ ~Spawned(r)

\* App::update: a fresh token when the last one was cancelled, and the root is run.
StartUpdate(u) ==
  LET r == <<u, Root>> IN
  /\ pc[r] = "none"
  /\ Overlap \/ Quiet
  /\ token' = IF token \in cancelled THEN token + 1 ELSE token
  /\ tokenOf' = [tokenOf EXCEPT ![r] = token']
  /\ pc' = [pc EXCEPT ![r] = "acquire"]
  /\ UNCHANGED <<result, permits, readiness, failed, cancelled, bounds>>

\* The update is cancelled while its root waits for a permit.
DropUpdate(r) ==
  /\ IsRoot(r) /\ pc[r] = "acquire" /\ tokenOf[r] \in cancelled
  /\ pc' = [pc EXCEPT ![r] = "dropped"]
  /\ UNCHANGED <<result, permits, readiness, failed, tokens, bounds>>

\* run and run_in_background from the permit on: the guard is taken and the task spawned.
Acquire(r) ==
  /\ pc[r] = "acquire" /\ free > 0
  /\ free' = free - 1 /\ permit' = permit \cup {r}
  /\ pc' = [pc EXCEPT ![r] = "spawned"]
  /\ tokenOf' = [tokenOf EXCEPT ![r] = token]
  /\ remaining' = IF IsRoot(r) THEN remaining ELSE [remaining EXCEPT ![Above(r)] = @ + 1]
  /\ UNCHANGED <<result, sem, built, exception, ready, failed, token, cancelled, bounds>>

\* A poll of a task whose token is cancelled drops its work, if that does not
\* complete in the same poll (MemoHit, Submit); the mounts of a process are
\* futures of their own.
Works(r) == tokenOf[r] \notin cancelled

\* The build permit, if the run has it, is released; the handler of errors and
\* post_submit_for_build come after it.
LeaveWith(r, res) ==
  /\ pc' = [pc EXCEPT ![r] = "leaving"]
  /\ result' = [result EXCEPT ![r] = res]
  /\ sem' = [c \in Components |-> IF sem[c] = r THEN NoRun ELSE sem[c]]

\* Component memoization hits, before the build permit; the root is not memoized.
MemoHit(r) ==
  /\ pc[r] = "spawned" /\ ~IsRoot(r)
  /\ LeaveWith(r, "ok")
  /\ UNCHANGED <<free, permit, readiness, failed, tokens, bounds>>

MemoMiss(r) ==
  /\ pc[r] = "spawned" /\ Works(r)
  /\ pc' = [pc EXCEPT ![r] = "wait"]
  /\ UNCHANGED <<result, permits, readiness, failed, tokens, bounds>>

Enter(r) ==
  /\ pc[r] = "wait" /\ Works(r)
  /\ sem[Comp(r)] = NoRun
  /\ sem' = [sem EXCEPT ![Comp(r)] = r]
  /\ pc' = [pc EXCEPT ![r] = "process"]
  /\ UNCHANGED <<result, free, permit, readiness, failed, tokens, bounds>>

\* Mutant of Release: a permit is given back whether the run has it or not.
ReleaseTwice(r) == permit' = permit \ {r} /\ free' = free + 1

\* release_inflight_permit of a run: does nothing without a permit.
Release(r) ==
  /\ permit' = permit \ {r}
  /\ free' = IF r \in permit THEN free + 1 ELSE free

\* Mutant of Mount: the parent keeps its permit.
MountHolding(r) ==
  /\ pc[r] = "process"
  /\ \E q \in Below(r) :
       /\ pc[q] = "none"
       /\ pc' = [pc EXCEPT ![q] = "acquire"]
  /\ UNCHANGED <<result, permits, readiness, failed, tokens, bounds>>

\* The process of r mounts a child: the first mount gives up the permit of r.
Mount(r) ==
  /\ pc[r] = "process"
  /\ \E q \in Below(r) :
       /\ pc[q] = "none"
       /\ pc' = [pc EXCEPT ![q] = "acquire"]
  /\ Release(r)
  /\ UNCHANGED <<result, sem, readiness, failed, tokens, bounds>>

\* process returned, its mounts awaited: set_build_done and the wait for readiness.
ProcessDone(r) ==
  /\ built' = built \cup {r}
  /\ ready' = [ready EXCEPT ![r] = ReadyAfter(r, remaining[r], TRUE, r \in exception, FALSE)]

Process(r) ==
  /\ pc[r] = "process" /\ Works(r)
  /\ \A q \in Below(r) : pc[q] # "acquire"
  /\ ProcessDone(r)
  /\ pc' = [pc EXCEPT ![r] = "ready"]
  /\ UNCHANGED <<result, permits, remaining, exception, failed, tokens, bounds>>

\* process raises: mounts that wait for a permit are dropped with it, and the
\* error is kept until the children are ready.
ProcessFails(r) ==
  /\ pc[r] = "process" /\ Works(r)
  /\ faults < MaxFaults /\ faults' = faults + 1
  /\ ProcessDone(r)
  /\ failed' = failed \cup {r}
  /\ pc' = [q \in Runs |-> IF q = r THEN "ready"
                           ELSE IF q \in Below(r) /\ pc[q] = "acquire" THEN "dropped" ELSE pc[q]]
  /\ UNCHANGED <<result, permits, remaining, exception, tokens, panics>>

\* The children are ready, or one of them was lost, which does not wait for the others.
ChildrenReady(r) ==
  /\ pc[r] = "ready" /\ ready[r] # "no" /\ Works(r)
  /\ IF ready[r] = "error" \/ r \in failed
     THEN LeaveWith(r, "exception")
     ELSE pc' = [pc EXCEPT ![r] = "submit"] /\ UNCHANGED <<result, sem>>
  /\ UNCHANGED <<free, permit, readiness, failed, tokens, bounds>>

\* Mutant of Submit: what the children reported is forgotten.
SubmitRegardless(r) ==
  /\ pc[r] = "submit"
  /\ LeaveWith(r, "ok")
  /\ UNCHANGED <<free, permit, readiness, failed, tokens, bounds>>

\* submit, and post_submit_for_build unless a child had an exception.
Submit(r) ==
  /\ pc[r] = "submit"
  /\ LeaveWith(r, IF ready[r] = "exception" THEN "exception" ELSE "ok")
  /\ UNCHANGED <<free, permit, readiness, failed, tokens, bounds>>

SubmitFails(r) ==
  /\ pc[r] = "submit" /\ faults < MaxFaults /\ faults' = faults + 1
  /\ LeaveWith(r, "exception")
  /\ UNCHANGED <<free, permit, readiness, failed, tokens, panics>>

\* The guard of the run in its parent's readiness is resolved, or dropped when `broken`.
ResolveGuard(r, res, broken) ==
  IF IsRoot(r) THEN UNCHANGED <<remaining, exception, ready>>
  ELSE LET p == Above(r)
           exc == p \in exception \/ (~broken /\ res = "exception")
       IN /\ remaining' = [remaining EXCEPT ![p] = @ - 1]
          /\ exception' = IF exc THEN exception \cup {p} ELSE exception
          /\ ready' = [ready EXCEPT
                        ![p] = ReadyAfter(p, remaining[p] - 1, p \in built, exc, broken)]

\* The task ends: what it held is released and its guard resolved.  The mounts
\* its process was waiting for are dropped with it.
EndWith(r, res, broken) ==
  /\ pc' = [q \in Runs |-> IF q = r THEN "ended"
                           ELSE IF q \in Below(r) /\ pc[q] = "acquire" THEN "dropped" ELSE pc[q]]
  /\ result' = [result EXCEPT ![r] = res]
  /\ sem' = [c \in Components |-> IF sem[c] = r THEN NoRun ELSE sem[c]]
  /\ Release(r)
  /\ ResolveGuard(r, res, broken)
  /\ UNCHANGED <<built, failed, tokens>>

End(r) ==
  /\ pc[r] = "leaving"
  /\ EndWith(r, result[r], FALSE)
  /\ UNCHANGED bounds

\* The app's token is cancelled (shutdown, drop of the app).
Cancel ==
  /\ token \notin cancelled
  /\ ~Quiet
  /\ cancelled' = cancelled \cup {token}
  /\ UNCHANGED <<pc, result, permits, readiness, failed, token, tokenOf, bounds>>

\* The select! of a task sees the token it captured cancelled and drops the work.
CancelRun(r) ==
  /\ Spawned(r) /\ pc[r] # "leaving" /\ tokenOf[r] \in cancelled
  /\ EndWith(r, "exception", FALSE)
  /\ UNCHANGED bounds

\* The task panics: everything it owns is dropped, its guard unresolved.
Panic(r) ==
  /\ Spawned(r) /\ panics < MaxPanics /\ panics' = panics + 1
  /\ EndWith(r, "exception", TRUE)
  /\ UNCHANGED faults

RunStep(r) ==
  \/ DropUpdate(r) \/ Acquire(r) \/ MemoHit(r) \/ MemoMiss(r) \/ Enter(r) \/ Process(r)
  \/ ChildrenReady(r) \/ Submit(r) \/ End(r) \/ CancelRun(r)

Next ==
  \/ \E u \in Updates : StartUpdate(u)
  \/ \E r \in Runs : RunStep(r) \/ Mount(r) \/ ProcessFails(r) \/ SubmitFails(r) \/ Panic(r)
  \/ Cancel

Spec == Init /\ [][Next]_vars

\* tokio polls every task that is ready, its semaphores are fair, and a process returns.
FairSpec == Spec /\ \A r \in Runs : WF_vars(RunStep(r))

-----------------------------------------------------------------------------
TypeOK ==
  /\ pc \in [Runs -> PCs]
  /\ result \in [Runs -> {"none", "ok", "exception"}]
  /\ free \in Nat /\ permit \subseteq Runs
  /\ sem \in [Components -> Runs \cup {NoRun}]
  /\ remaining \in [Runs -> Nat]
  /\ built \subseteq Runs /\ exception \subseteq Runs /\ failed \subseteq Runs
  /\ ready \in [Runs -> {"no", "ok", "exception", "error"}]
  /\ token \in Nat /\ tokenOf \in [Runs -> Nat] /\ cancelled \subseteq Nat
  /\ faults \in Nat /\ panics \in Nat

\* No permit is lost or made up on any way a run can end, a run that ended keeps none,
\* and a parent's counter is the number of its children's tasks that still run.
PermitsAccounted ==
  /\ free + Cardinality(permit) = Quota
  /\ \A r \in permit : Spawned(r)
GuardsCounted == \A r \in Runs : remaining[r] = Cardinality(Guarded(r))
Accounted == PermitsAccounted /\ GuardsCounted

\* A component submits only after everything it mounted has ended, its whole
\* subtree included (the wait for readiness in execute_once).
SubmitsAfterChildren ==
  \A r \in Runs : pc[r] = "submit" =>
    \A q \in Below(r) : pc[q] \in {"none", "ended", "dropped"}

\* Success is reported upward only when the whole subtree succeeded: no exception
\* below is lost on its way to the component whose memo would hide it.
SuccessCoversSubtree ==
  \A r \in Runs : result[r] = "ok" =>
    \A q \in Below(r) : pc[q] \in {"none", "dropped"} \/ (pc[q] = "ended" /\ result[q] = "ok")

\* Every update ends: the waits for permits, for build semaphores and for readiness
\* never form a circle ("Release parent's inflight permit (deadlock prevention)").
UpdatesEnd ==
  \A u \in Updates : pc[<<u, Root>>] # "none" ~> pc[<<u, Root>>] \in {"ended", "dropped"}
=============================================================================
