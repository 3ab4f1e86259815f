--------------------------- MODULE LiveComponent ---------------------------
(***************************************************************************)
(* One live component: its update_full, the incremental updates and        *)
(* deletes of its children, coalesced per subpath and run by one drain     *)
(* task each, and the rows and target states of the children they leave.   *)
(* Source: rust/core/src/engine/live_component.rs; the runs of the         *)
(* children, Component::execute_once and submit in                         *)
(* rust/core/src/engine/component.rs and execution.rs, as in ComponentTree.*)
(*                                                                         *)
(* A child is one place of the sink and has no children.  Calls for one    *)
(* subpath are issued one after another, each when the one before returned *)
(* its handle.  The wait of a Notified that is enabled under the lock is   *)
(* the wait for the condition.  What is left of a mounted component whose  *)
(* process_live was started again is not modelled.                         *)
(***************************************************************************)
EXTENDS Naturals, FiniteSets

CONSTANTS
  Subpaths,
  Contents, Absent,
  Calls, NoCall,  \* calls of operator.update and operator.delete, each made once
  MaxFulls,       \* bound on calls of update_full
  MaxFaults       \* bound on runs that fail

ASSUME LiveAssumption ==
  /\ Absent \notin Contents /\ NoCall \notin Calls
  /\ MaxFulls \in Nat /\ MaxFaults \in Nat

VARIABLES
  pc,         \* [Calls -> where the call stands, then its outcome]
  path,       \* [Calls -> subpath]
  want,       \* [Calls -> content of an update, Absent for a delete]
  number,     \* [Calls -> place in the order of invocation]
  entry,      \* pending.map: [Subpaths -> [alive, queued, processing]]
  fullPc,     \* where update_full and its build stand
  active,     \* update_full_active
  mounted,    \* [Subpaths -> content that the full build mounts the child with]
  run,        \* [Subpaths -> the build or delete of the child]
  exists, tombstones,  \* children with a row under the component
  memo,       \* [Subpaths -> content of the child's component-memo row]
  sink,       \* [Subpaths -> content of the child's target states]
  cancelled,  \* is cancellation_token cancelled?
  latest,     \* [Subpaths -> call invoked last, unless its effect was rederived by a later update_full]
  raced,      \* subpaths whose tombstone a cleanup took for its own
  fulls, faults

calls    == <<pc, path, want, number>>
full     == <<fullPc, active, mounted>>
children == <<run, exists, tombstones, memo, sink>>
vars     == <<calls, entry, full, children, cancelled, latest, raced, fulls, faults>>

States == Contents \cup {Absent}

\* What a handle resolves to. A run that failed resolves its handle with the
\* error, or, with no handler or one that swallows it, as one that succeeded:
\* "swallowed" is that Ok, told apart here from the Ok of a run that did succeed.
Outcomes == {"executed", "failed", "swallowed", "superseded", "cancelled"}
PCs == {"idle", "deleting", "checking", "queued", "running"} \cup Outcomes
FullPCs == {"idle", "quiesce", "process", "collect", "await"}

NoEntry == [alive |-> FALSE, queued |-> NoCall, processing |-> FALSE]

\* by: the call a run is for, NoCall for a run of the full build.
RunPCs == {"none", "check", "upsert", "apply", "memoize", "delete", "preflight", "remove", "cleanup", "ok", "error"}
Run(state, by) == [pc |-> state, by |-> by]
NoRun == Run("none", NoCall)

Decided(c) == pc[c] \in Outcomes
WantOf(p) == IF run[p].by = NoCall THEN mounted[p] ELSE want[run[p].by]

-----------------------------------------------------------------------------
Init ==
  /\ pc = [c \in Calls |-> "idle"]
  /\ path \in [Calls -> Subpaths] /\ want \in [Calls -> States]
  /\ number = [c \in Calls |-> 0]
  /\ entry = [p \in Subpaths |-> NoEntry]
  /\ fullPc = "idle" /\ active = FALSE
  /\ mounted = [p \in Subpaths |-> Absent]
  /\ run = [p \in Subpaths |-> NoRun]
  /\ exists = {} /\ tombstones = {}
  /\ memo = [p \in Subpaths |-> Absent] /\ sink = [p \in Subpaths |-> Absent]
  /\ cancelled = FALSE
  /\ latest = [p \in Subpaths |-> NoCall]
  /\ raced = {}
  /\ fulls = 0 /\ faults = 0

-----------------------------------------------------------------------------
(* Calls.                                                                  *)

Invoke(c) ==
  /\ pc[c] = "idle"
  /\ \A d \in Calls : path[d] = path[c] => pc[d] \notin {"deleting", "checking"}
  /\ number' = [number EXCEPT ![c] = 1 + Cardinality({d \in Calls : pc[d] # "idle"})]
  /\ latest' = [latest EXCEPT ![path[c]] = c]
  /\ UNCHANGED <<path, want, entry, full, children, cancelled, raced, fulls, faults>>

\* update: on to dispatch, whose check of the token takes no lock.
CheckToken(c) == pc' = [pc EXCEPT ![c] = IF cancelled THEN "cancelled" ELSE "checking"]

Update(c) == want[c] # Absent /\ Invoke(c) /\ CheckToken(c)

\* delete: a transaction first, whatever the token and update_full are at.
Delete(c) == want[c] = Absent /\ Invoke(c) /\ pc' = [pc EXCEPT ![c] = "deleting"]

\* Mutant of RemoveChild: only the row goes.
RemoveChildRow(c) ==
  /\ pc[c] = "deleting"
  /\ exists' = exists \ {path[c]}
  /\ CheckToken(c)
  /\ UNCHANGED <<path, want, number, entry, full, run, tombstones, memo, sink, cancelled, latest, raced, fulls, faults>>

\* remove_child_with_tombstone, then dispatch.  A delete of the child that is about to
\* clean up an older tombstone will take this one.
RemoveChild(c) ==
  /\ pc[c] = "deleting"
  /\ raced' = IF run[path[c]].pc = "cleanup" THEN raced \cup {path[c]} ELSE raced
  /\ exists' = exists \ {path[c]}
  /\ tombstones' = tombstones \cup {path[c]}
  /\ CheckToken(c)
  /\ UNCHANGED <<path, want, number, entry, full, run, memo, sink, cancelled, latest, fulls, faults>>

\* The future of process_live is dropped, and with it the delete that it awaits.
DropCall(c) ==
  /\ pc[c] = "deleting" /\ cancelled
  /\ pc' = [pc EXCEPT ![c] = "cancelled"]
  /\ UNCHANGED <<path, want, number, entry, full, children, cancelled, latest, raced, fulls, faults>>

\* Mutant of Dispatch: what was queued is overwritten.
DispatchOver(c) ==
  /\ pc[c] = "checking"
  /\ entry' = [entry EXCEPT ![path[c]] = [@ EXCEPT !.alive = TRUE, !.queued = c]]
  /\ pc' = [pc EXCEPT ![c] = "queued"]
  /\ UNCHANGED <<path, want, number, full, children, cancelled, latest, raced, fulls, faults>>

\* dispatch under the lock: what is queued is superseded; without an entry a drain task is spawned.
Dispatch(c) ==
  LET p == path[c] IN
  /\ pc[c] = "checking"
  /\ entry' = [entry EXCEPT ![p] = [@ EXCEPT !.alive = TRUE, !.queued = c]]
  /\ pc' = [d \in Calls |-> CASE d = c -> "queued"
                              [] d = entry[p].queued -> "superseded"
                              [] OTHER -> pc[d]]
  /\ UNCHANGED <<path, want, number, full, children, cancelled, latest, raced, fulls, faults>>

-----------------------------------------------------------------------------
(* The drain task of a subpath.                                            *)

Waiting(p) == entry[p].alive /\ ~entry[p].processing

DrainCancelled(p) ==
  /\ Waiting(p) /\ cancelled
  /\ entry' = [entry EXCEPT ![p] = NoEntry]
  /\ pc' = [c \in Calls |-> IF c = entry[p].queued THEN "cancelled" ELSE pc[c]]
  /\ UNCHANGED <<path, want, number, full, children, cancelled, latest, raced, fulls, faults>>

\* Mutant of DrainTakes: the token is not looked at.
DrainTakesAnyway(p) ==
  LET c == entry[p].queued IN
  /\ Waiting(p) /\ ~active
  /\ c # NoCall
  /\ entry' = [entry EXCEPT ![p] = [alive |-> TRUE, queued |-> NoCall, processing |-> TRUE]]
  /\ pc' = [pc EXCEPT ![c] = "running"]
  /\ run' = [run EXCEPT ![p] = Run(IF want[c] = Absent THEN "delete" ELSE "check", c)]
  /\ UNCHANGED <<path, want, number, full, exists, tombstones, memo, sink, cancelled, latest, raced, fulls, faults>>

DrainTakes(p) ==
  LET c == entry[p].queued IN
  /\ Waiting(p) /\ ~cancelled /\ ~active
  /\ c # NoCall
  /\ entry' = [entry EXCEPT ![p] = [alive |-> TRUE, queued |-> NoCall, processing |-> TRUE]]
  /\ pc' = [pc EXCEPT ![c] = "running"]
  /\ run' = [run EXCEPT ![p] = Run(IF want[c] = Absent THEN "delete" ELSE "check", c)]
  /\ UNCHANGED <<path, want, number, full, exists, tombstones, memo, sink, cancelled, latest, raced, fulls, faults>>

DrainExits(p) ==
  /\ Waiting(p) /\ ~cancelled /\ ~active
  /\ entry[p].queued = NoCall
  /\ entry' = [entry EXCEPT ![p] = NoEntry]
  /\ UNCHANGED <<calls, full, children, cancelled, latest, raced, fulls, faults>>

\* The operation is awaited whatever the token says; the token only decides what is reported.
DrainReports(p) ==
  LET c == run[p].by
      told == CASE cancelled -> {"cancelled"}
                [] ~cancelled /\ run[p].pc = "ok" -> {"executed"}
                [] ~cancelled /\ run[p].pc = "error" -> {"failed", "swallowed"} IN
  /\ run[p].pc \in {"ok", "error"} /\ c # NoCall
  /\ \E outcome \in told : pc' = [pc EXCEPT ![c] = outcome]
  /\ entry' = [entry EXCEPT ![p].processing = FALSE]
  /\ run' = [run EXCEPT ![p] = NoRun]
  /\ UNCHANGED <<path, want, number, full, exists, tombstones, memo, sink, cancelled, latest, raced, fulls, faults>>

-----------------------------------------------------------------------------
(* The runs of a child: its build, or its delete.                          *)

GoRun(p, state) == run' = [run EXCEPT ![p].pc = state]

\* Component memoization: a hit returns before anything is written.
Check(p) ==
  /\ run[p].pc = "check"
  /\ IF memo[p] = WantOf(p)
     THEN GoRun(p, "ok") /\ UNCHANGED memo
     ELSE GoRun(p, "upsert") /\ memo' = [memo EXCEPT ![p] = Absent]
  /\ UNCHANGED <<calls, entry, full, exists, tombstones, sink, cancelled, latest, raced, fulls, faults>>

\* eager_existence_upsert
Upsert(p) ==
  /\ run[p].pc = "upsert"
  /\ exists' = exists \cup {p}
  /\ GoRun(p, "apply")
  /\ UNCHANGED <<calls, entry, full, tombstones, memo, sink, cancelled, latest, raced, fulls, faults>>

Apply(p) ==
  /\ run[p].pc = "apply"
  /\ sink' = [sink EXCEPT ![p] = WantOf(p)]
  /\ GoRun(p, "memoize")
  /\ UNCHANGED <<calls, entry, full, exists, tombstones, memo, cancelled, latest, raced, fulls, faults>>

Memoize(p) ==
  /\ run[p].pc = "memoize"
  /\ memo' = [memo EXCEPT ![p] = WantOf(p)]
  /\ GoRun(p, "ok")
  /\ UNCHANGED <<calls, entry, full, exists, tombstones, sink, cancelled, latest, raced, fulls, faults>>

\* Mutant of DeleteMemo: the memo stays.
DeleteMemoNot(p) ==
  /\ run[p].pc = "delete"
  /\ GoRun(p, "preflight")
  /\ UNCHANGED <<calls, entry, full, exists, tombstones, memo, sink, cancelled, latest, raced, fulls, faults>>

\* delete_component_memo, the first thing `submit` does in delete mode.
DeleteMemo(p) ==
  /\ run[p].pc = "delete"
  /\ memo' = [memo EXCEPT ![p] = Absent]
  /\ GoRun(p, "preflight")
  /\ UNCHANGED <<calls, entry, full, exists, tombstones, sink, cancelled, latest, raced, fulls, faults>>

\* A child that exists is left alone.
Preflight(p) ==
  /\ run[p].pc = "preflight"
  /\ GoRun(p, IF p \in exists THEN "cleanup" ELSE "remove")
  /\ UNCHANGED <<calls, entry, full, exists, tombstones, memo, sink, cancelled, latest, raced, fulls, faults>>

Remove(p) ==
  /\ run[p].pc = "remove"
  /\ sink' = [sink EXCEPT ![p] = Absent]
  /\ GoRun(p, "cleanup")
  /\ UNCHANGED <<calls, entry, full, exists, tombstones, memo, cancelled, latest, raced, fulls, faults>>

\* cleanup_tombstone
Cleanup(p) ==
  /\ run[p].pc = "cleanup"
  /\ tombstones' = tombstones \ {p}
  /\ GoRun(p, "ok")
  /\ UNCHANGED <<calls, entry, full, exists, memo, sink, cancelled, latest, raced, fulls, faults>>

RunFails(p) ==
  /\ run[p].pc \notin {"none", "ok", "error"}
  /\ faults < MaxFaults /\ faults' = faults + 1
  /\ GoRun(p, "error")
  /\ UNCHANGED <<calls, entry, full, exists, tombstones, memo, sink, cancelled, latest, raced, fulls>>

RunStep(p) ==
  \/ Check(p) \/ Upsert(p) \/ Apply(p) \/ Memoize(p)
  \/ DeleteMemo(p) \/ Preflight(p) \/ Remove(p) \/ Cleanup(p)

-----------------------------------------------------------------------------
(* update_full.                                                            *)

\* The lock, the token, and the flag.
StartFull ==
  /\ fullPc = "idle" /\ ~cancelled
  /\ fulls < MaxFulls /\ fulls' = fulls + 1
  /\ fullPc' = "quiesce" /\ active' = TRUE
  /\ UNCHANGED <<calls, entry, mounted, children, cancelled, latest, raced, faults>>

\* Mutant of Quiescent: operations in flight are not waited for.
QuiescentAlways == TRUE

\* wait_until_quiescent, then the build: process() reads the source and mounts children.
Quiescent == \A p \in Subpaths : ~entry[p].processing

ProcessFull ==
  /\ fullPc = "quiesce" /\ Quiescent
  /\ fullPc' = "process"
  /\ mounted' \in [Subpaths -> States]
  /\ run' = [p \in Subpaths |-> IF mounted'[p] = Absent THEN NoRun ELSE Run("check", NoCall)]
  /\ latest' = [p \in Subpaths |-> IF latest[p] # NoCall /\ Decided(latest[p]) THEN NoCall ELSE latest[p]]
  /\ UNCHANGED <<calls, entry, active, exists, tombstones, memo, sink, cancelled, raced, fulls, faults>>

RunsOver == \A p \in Subpaths : run[p].pc \in {"none", "ok", "error"}

\* The commit: children that are not mounted lose their row for a tombstone.
CommitFull ==
  LET kept == {p \in Subpaths : mounted[p] # Absent} IN
  /\ fullPc = "process" /\ RunsOver
  /\ exists' = kept /\ tombstones' = tombstones \cup (exists \ kept)
  /\ run' = [p \in Subpaths |-> NoRun]
  /\ fullPc' = "collect"
  /\ UNCHANGED <<calls, entry, active, mounted, memo, sink, cancelled, latest, raced, fulls, faults>>

\* launch_child_component_gc: a delete for every tombstone.
CollectFull ==
  /\ fullPc = "collect"
  /\ run' = [p \in Subpaths |-> IF p \in tombstones THEN Run("delete", NoCall) ELSE NoRun]
  /\ fullPc' = "await"
  /\ UNCHANGED <<calls, entry, active, mounted, exists, tombstones, memo, sink, cancelled, latest, raced, fulls, faults>>

\* Mutant of EndFull: the flag stays.
EndFullActive ==
  /\ fullPc' = "idle" /\ active' = active
  /\ mounted' = [p \in Subpaths |-> Absent]
  /\ run' = [p \in Subpaths |-> NoRun]

\* The flag is cleared on every way out.
EndFull ==
  /\ fullPc' = "idle" /\ active' = FALSE
  /\ mounted' = [p \in Subpaths |-> Absent]
  /\ run' = [p \in Subpaths |-> NoRun]

FinishFull ==
  /\ fullPc = "await" /\ RunsOver
  /\ EndFull
  /\ UNCHANGED <<calls, entry, exists, tombstones, memo, sink, cancelled, latest, raced, fulls, faults>>

\* process() or the commit fails, once the children that were mounted are ready.
FullFails ==
  /\ fullPc \in {"process", "collect"} /\ RunsOver
  /\ faults < MaxFaults /\ faults' = faults + 1
  /\ EndFull
  /\ UNCHANGED <<calls, entry, exists, tombstones, memo, sink, cancelled, latest, raced, fulls>>

FullStep == ProcessFull \/ CommitFull \/ CollectFull \/ FinishFull

\* The token is cancelled (catch-up mark_ready, re-mount, shutdown): process_live
\* is dropped, and with it the future of update_full, whose build goes on alone.
Cancel ==
  /\ ~cancelled /\ cancelled' = TRUE
  /\ active' = FALSE
  /\ fullPc' = IF fullPc = "quiesce" THEN "idle" ELSE fullPc
  /\ UNCHANGED <<calls, entry, mounted, children, latest, raced, fulls, faults>>

-----------------------------------------------------------------------------
CallStep(c) == RemoveChild(c) \/ DropCall(c) \/ Dispatch(c)
DrainStep(p) == DrainCancelled(p) \/ DrainTakes(p) \/ DrainExits(p) \/ DrainReports(p)

Next ==
  \/ \E c \in Calls : Update(c) \/ Delete(c) \/ CallStep(c)
  \/ \E p \in Subpaths : DrainStep(p) \/ RunStep(p) \/ RunFails(p)
  \/ StartFull \/ FullStep \/ FullFails \/ Cancel

Spec == Init /\ [][Next]_vars

\* tokio polls every task that is ready.
FairSpec ==
  /\ Spec
  /\ \A c \in Calls : WF_vars(CallStep(c))
  /\ \A p \in Subpaths : WF_vars(DrainStep(p)) /\ WF_vars(RunStep(p))
  /\ WF_vars(FullStep)

-----------------------------------------------------------------------------
TypeOK ==
  /\ pc \in [Calls -> PCs] /\ path \in [Calls -> Subpaths]
  /\ want \in [Calls -> States] /\ number \in [Calls -> Nat]
  /\ entry \in [Subpaths -> [alive : BOOLEAN, queued : Calls \cup {NoCall}, processing : BOOLEAN]]
  /\ fullPc \in FullPCs /\ active \in BOOLEAN
  /\ mounted \in [Subpaths -> States]
  /\ run \in [Subpaths -> [pc : RunPCs, by : Calls \cup {NoCall}]]
  /\ exists \subseteq Subpaths /\ tombstones \subseteq Subpaths
  /\ memo \in [Subpaths -> States] /\ sink \in [Subpaths -> States]
  /\ cancelled \in BOOLEAN
  /\ latest \in [Subpaths -> Calls \cup {NoCall}]
  /\ raced \subseteq Subpaths
  /\ fulls \in Nat /\ faults \in Nat

\* No operation on a child runs while update_full is past its wait ("if update_full()
\* is running, incremental operations wait until it finishes"), nor beside a build
\* that a dropped update_full left behind.
OpsWaitForFull ==
  fullPc \in {"process", "collect", "await"} =>
    \A p \in Subpaths : ~entry[p].processing /\ run[p].by = NoCall

\* A handle never hangs and never lies: a call that is not decided is where a drain
\* task will find it, and one that is superseded gave way to a later call.
HandlesAreServed ==
  \A c \in Calls :
    /\ pc[c] = "queued" => entry[path[c]].alive /\ entry[path[c]].queued = c
    /\ pc[c] = "running" => entry[path[c]].processing /\ run[path[c]].by = c
    /\ pc[c] = "superseded" =>
         \E d \in Calls : path[d] = path[c] /\ number[d] > number[c] /\ pc[d] \notin {"deleting", "checking"}

\* Once the drain of a cancelled component is over (cancel_and_drain returned, no entry
\* is left), no operation on a child runs any more, that of a call which had passed the
\* check of the token and is dispatched only now included.
Drained == cancelled /\ \A p \in Subpaths : ~entry[p].alive
DrainedStaysQuiet ==
  [](Drained => [](\A p \in Subpaths : ~entry[p].processing /\ run[p].by = NoCall))

\* What a child has in the sink is within reach of a later update_full: the child
\* exists or has a tombstone, in whatever order calls, drains and update_full come
\* ("The tombstone always remains in the DB"), but for one that was raced.
ChildrenReachable ==
  \A p \in Subpaths : sink[p] # Absent => p \in exists \cup tombstones \cup raced

\* The latest call of a subpath, when it is an update that was executed, took effect.
LatestUpdateTakesEffect ==
  \A p \in Subpaths :
    LET c == latest[p] IN
    c # NoCall /\ pc[c] = "executed" /\ want[c] # Absent => sink[p] = want[c]

\* The same of every call ("When multiple operations target the same subpath, only
\* the latest one (by invocation order) takes effect").
LatestTakesEffect ==
  \A p \in Subpaths :
    LET c == latest[p] IN
    c # NoCall /\ pc[c] = "executed" => sink[p] = want[c]

\* Every handle resolves.
HandlesResolve == \A c \in Calls : pc[c] # "idle" ~> Decided(c)
=============================================================================
