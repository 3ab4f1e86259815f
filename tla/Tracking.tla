------------------------------ MODULE Tracking ------------------------------
(***************************************************************************)
(* The tracking record of one component and the arithmetic the engine does *)
(* on it: rust/core/src/state/db_schema.rs (TargetStateInfoItem) and the   *)
(* per-item steps of pre_commit and build_commit_writes in                 *)
(* rust/core/src/engine/execution.rs.                                      *)
(*                                                                         *)
(* An item is the set of the (version, state) entries the code keeps in    *)
(* the vector `states`: every content the target may hold at this moment.  *)
(* A third component says whether the vector holds the entry more than     *)
(* once.  The empty item stands for "no item"; the vector's order, on      *)
(* which nothing depends, is abstracted.                                   *)
(* Targets are top-level ones: their provider is registered for every run  *)
(* and has no generation, so provider_id and provider_schema_version never *)
(* differ between two runs.                                                *)
(***************************************************************************)
EXTENDS Naturals

CONSTANTS
  Values,   \* contents a target can be given
  Absent    \* no content: a target nobody declares, a Deleted entry, an empty sink

ASSUME AbsentAssumption == Absent \notin Values

States == Values \cup {Absent}
Entries == Nat \X States \X BOOLEAN

\* An entry a run appends to an item.
Pushed(ver, state) == <<ver, state, FALSE>>

\* Mutant of IsPending: off by one.
IsPendingFromThree(item) == \E a, b, c \in item : a # b /\ b # c /\ a # c

\* TargetStateInfoItem::is_pending: more than one entry.
IsPending(item) == (\E a, b \in item : a # b) \/ \E e \in item : e[3]

\* The contents the item says the target may hold.
Possible(item) == {e[2] : e \in item}

\* Mutant of Bump: underflows.
BumpBackwards(item, ver) == {<<ver - 1, e[2], e[3]>> : e \in item}

\* Does more than one entry of the vector hold this content?
Repeated(item, state) ==
  \E a, b \in item : a[2] = state /\ b[2] = state /\ (a # b \/ a[3])

\* Every entry gets the version of the run that found it unchanged: entries
\* of one content become equal.
Bump(item, ver) == {<<ver, e[2], Repeated(item, e[2])>> : e \in item}

\* An entry taken over from another component leaves that component's version space.
ResetVersions(item) == Bump(item, 0)

\* prev_may_be_missing: nothing is known, everything is to be redone, or a
\* delete may already have reached the sink.
MayBeMissing(prev, full) == prev = {} \/ full \/ Absent \in Possible(prev)

\* Mutant of ReconcileActs: satisfied when the desired content is one of the possible ones.
ReconcileActsUnlessPossible(desired, prev, full) ==
  \/ MayBeMissing(prev, full)
  \/ desired \notin Possible(prev)

\* TargetHandler::reconcile as the connectors implement it: act unless every
\* possible previous content already is the desired one.
ReconcileActs(desired, prev, full) ==
  \/ MayBeMissing(prev, full)
  \/ \E s \in Possible(prev) : s # desired

\* The item after pre_commit reconciled it: an action pushes the desired
\* content (Absent for a delete), a fresh item also records that the sink was
\* empty, and no action bumps what is there.
Reconciled(desired, prev, full, ver) ==
  CASE ~ReconcileActs(desired, prev, full) -> Bump(prev, ver)
    [] ReconcileActs(desired, prev, full) /\ prev = {} -> {Pushed(0, Absent), Pushed(ver, desired)}
    [] OTHER -> prev \cup {Pushed(ver, desired)}

\* Mutant of Retained: keeps the previous version too.
RetainedFromPrevious(item, ver) == {e \in item : e[1] + 1 >= ver /\ (e[1] = ver => e[2] # Absent)}

\* Version retention at commit.
Retained(item, ver) == {e \in item : e[1] > ver \/ (e[1] = ver /\ e[2] # Absent)}

\* An item a commit leaves with entries loses its owner row only when none remain.
Pruned(item, ver) == item # {} /\ Retained(item, ver) = {}
=============================================================================
