--------------------------- MODULE Inflight_proof ---------------------------
(***************************************************************************)
(* Proofs about Inflight, for any tree of components, any number of        *)
(* updates, permits and faults: permits and guards are accounted for, a    *)
(* component submits after its subtree, and no exception below is lost.    *)
(***************************************************************************)
EXTENDS Inflight, FiniteSetTheorems, TLAPS

\* Permits and guards are finitely many.
PermitsFinite == IsFiniteSet(permit)
GuardsFinite == \A r \in Runs : IsFiniteSet(Guarded(r))

\* A mount waits for its permit only while the process that made it runs.
MountsWait == \A q \in Runs : ~IsRoot(q) /\ pc[q] = "acquire" => pc[Above(q)] = "process"

\* Before its process runs, a component has mounted nothing.
NothingMounted ==
  \A r \in Runs : pc[r] \in {"none", "acquire", "spawned", "wait", "dropped"} =>
    \A q \in Below(r) : pc[q] = "none"

BuiltAfterProcess == \A r \in built : pc[r] \in {"ready", "submit", "leaving", "ended"}

\* Readiness without a lost guard: the process is done, no guard is left.
ReadyMeans ==
  \A r \in Runs : /\ ready[r] \in {"ok", "exception"} => r \in built /\ Guarded(r) = {}
                  /\ ready[r] = "ok" => r \notin exception

SubmitsReady == \A r \in Runs : pc[r] = "submit" => ready[r] \in {"ok", "exception"}

\* What a run reports is known when it leaves, and an exception reaches its parent.
ResultsKnown ==
  \A r \in Runs : result[r] # "none" <=> pc[r] \in {"leaving", "ended"}
ExceptionsReported ==
  \A q \in Runs : ~IsRoot(q) /\ pc[q] = "ended" /\ result[q] = "exception" =>
    Above(q) \in exception \/ ready[Above(q)] = "error"

Counting == PermitsAccounted /\ GuardsCounted /\ PermitsFinite /\ GuardsFinite
Staging ==
  MountsWait /\ NothingMounted /\ BuiltAfterProcess /\ ReadyMeans /\ SubmitsReady
Reporting == ResultsKnown /\ ExceptionsReported /\ SuccessCoversSubtree

IInv == TypeOK /\ Counting /\ Staging /\ Reporting

-----------------------------------------------------------------------------
LEMMA AboveIs == \A q \in Runs : ~IsRoot(q) => Above(q) \in Runs
  BY TreeAssumption DEF Runs, IsRoot, Above

\* Guards are those of children whose task exists.
LEMMA GuardedIs ==
  \A r : Guarded(r) = {q \in Runs : ~IsRoot(q) /\ Above(q) = r /\ Spawned(q)}
  BY DEF Guarded, Below

LEMMA SameGuards ==
  ASSUME \A q \in Runs : Spawned(q)' <=> Spawned(q)
  PROVE  \A r : Guarded(r)' = Guarded(r)
  BY GuardedIs DEF Guarded, Below

\* Steps that spawn no task and end none leave the counts.
LEMMA SameCounts ==
  ASSUME IInv, \A q \in Runs : Spawned(q)' <=> Spawned(q),
         UNCHANGED <<free, permit, remaining>>
  PROVE  Counting'
  <1>1. \A r : Guarded(r)' = Guarded(r) BY SameGuards
  <1>2. PermitsAccounted' /\ PermitsFinite'
    BY DEF IInv, TypeOK, Counting, PermitsAccounted, PermitsFinite
  <1>3. GuardsCounted' /\ GuardsFinite'
    BY <1>1 DEF IInv, Counting, GuardsCounted, GuardsFinite
  <1> QED BY <1>2, <1>3 DEF Counting

LEMMA InitInv == Init => IInv
  <1> SUFFICES ASSUME Init PROVE IInv OBVIOUS
  <1>1. TypeOK BY QuotaAssumption DEF Init, TypeOK, PCs
  <1>2. \A r : Guarded(r) = {} BY GuardedIs DEF Init, Spawned
  <1>3. Counting
    BY <1>2, FS_EmptySet, QuotaAssumption
    DEF Init, Counting, PermitsAccounted, GuardsCounted, PermitsFinite, GuardsFinite
  <1>4. Staging /\ Reporting
    BY DEF Init, Staging, MountsWait, NothingMounted, BuiltAfterProcess, ReadyMeans, SubmitsReady,
           Reporting, ResultsKnown, ExceptionsReported, SuccessCoversSubtree, Below
  <1> QED BY <1>1, <1>3, <1>4 DEF IInv

\* A run moves on, and nothing but its place changes.
LEMMA Moves ==
  ASSUME IInv, NEW r \in Runs, NEW to,
         \/ pc[r] = "none" /\ to = "acquire" /\ IsRoot(r)
         \/ pc[r] = "acquire" /\ to = "dropped" /\ IsRoot(r)
         \/ pc[r] = "spawned" /\ to = "wait"
         \/ pc[r] = "wait" /\ to = "process",
         pc' = [pc EXCEPT ![r] = to],
         UNCHANGED <<result, free, permit, remaining, built, exception, ready>>
  PROVE  Counting' /\ Staging' /\ Reporting'
  <1>1. \A q \in Runs : Spawned(q)' <=> Spawned(q) BY DEF IInv, TypeOK, Spawned
  <1>2. Counting' BY <1>1, SameCounts
  <1>3. \A x : Guarded(x)' = Guarded(x) BY <1>1, SameGuards
  <1>4. MountsWait' /\ NothingMounted'
    BY DEF IInv, TypeOK, Staging, MountsWait, NothingMounted, Below
  <1>5. BuiltAfterProcess' /\ ReadyMeans' /\ SubmitsReady'
    BY <1>3 DEF IInv, TypeOK, Staging, BuiltAfterProcess, ReadyMeans, SubmitsReady
  <1>6. Reporting'
    BY AboveIs
    DEF IInv, TypeOK, Reporting, ResultsKnown, ExceptionsReported, SuccessCoversSubtree, Below
  <1> QED BY <1>2, <1>4, <1>5, <1>6 DEF Staging

LEMMA StartUpdateInv == ASSUME IInv, NEW u \in Updates, StartUpdate(u) PROVE IInv'
  <1> DEFINE r == <<u, Root>>
  <1>1. r \in Runs /\ IsRoot(r) BY TreeAssumption DEF Runs, IsRoot
  <1>2. TypeOK' BY <1>1 DEF StartUpdate, permits, readiness, bounds, IInv, TypeOK, PCs
  <1>3. /\ pc[r] = "none" /\ pc' = [pc EXCEPT ![r] = "acquire"]
        /\ UNCHANGED <<result, free, permit, remaining, built, exception, ready>>
    BY DEF StartUpdate, permits, readiness
  <1> QED BY <1>1, <1>2, <1>3, Moves DEF IInv

LEMMA DropUpdateInv == ASSUME IInv, NEW r \in Runs, DropUpdate(r) PROVE IInv'
  <1>1. TypeOK' BY DEF DropUpdate, permits, readiness, tokens, bounds, IInv, TypeOK, PCs
  <1> QED BY <1>1, Moves DEF DropUpdate, permits, readiness, IInv

LEMMA MemoMissInv == ASSUME IInv, NEW r \in Runs, MemoMiss(r) PROVE IInv'
  <1>1. TypeOK' BY DEF MemoMiss, permits, readiness, tokens, bounds, IInv, TypeOK, PCs
  <1> QED BY <1>1, Moves DEF MemoMiss, permits, readiness, IInv

LEMMA EnterInv == ASSUME IInv, NEW r \in Runs, Enter(r) PROVE IInv'
  <1>1. TypeOK' BY DEF Enter, readiness, tokens, bounds, IInv, TypeOK, PCs, Comp, Runs
  <1> QED BY <1>1, Moves DEF Enter, readiness, IInv

LEMMA CancelInv == ASSUME IInv, Cancel PROVE IInv'
  <1>1. TypeOK' BY DEF Cancel, permits, readiness, bounds, IInv, TypeOK
  <1>2. UNCHANGED <<pc, result, free, permit, remaining, built, exception, ready>>
    BY DEF Cancel, permits, readiness
  <1>3. \A q \in Runs : Spawned(q)' <=> Spawned(q) BY <1>2 DEF Spawned
  <1>4. Counting' BY <1>2, <1>3, SameCounts
  <1>5. \A x : Guarded(x)' = Guarded(x) BY <1>3, SameGuards
  <1> QED BY <1>1, <1>2, <1>4, <1>5
          DEF IInv, Staging, MountsWait, NothingMounted, BuiltAfterProcess, ReadyMeans, SubmitsReady,
              Reporting, ResultsKnown, ExceptionsReported, SuccessCoversSubtree

\* The permit goes back, once.
LEMMA Releases ==
  ASSUME IInv, NEW r \in Runs, Release(r)
  PROVE  /\ free' \in Nat /\ permit' = permit \ {r}
         /\ IsFiniteSet(permit') /\ free' + Cardinality(permit') = Quota
  <1>1. /\ IsFiniteSet(permit \ {r})
        /\ Cardinality(permit \ {r}) = IF r \in permit THEN Cardinality(permit) - 1 ELSE Cardinality(permit)
    BY FS_RemoveElement DEF IInv, Counting, PermitsFinite
  <1>2. Cardinality(permit) \in Nat BY FS_CardinalityType DEF IInv, Counting, PermitsFinite
  <1> QED BY <1>1, <1>2 DEF Release, IInv, TypeOK, Counting, PermitsAccounted

LEMMA AcquireInv == ASSUME IInv, NEW r \in Runs, Acquire(r) PROVE IInv'
  <1>1. /\ pc[r] = "acquire" /\ pc' = [pc EXCEPT ![r] = "spawned"]
        /\ free > 0 /\ free' = free - 1 /\ permit' = permit \cup {r}
        /\ remaining' = IF IsRoot(r) THEN remaining ELSE [remaining EXCEPT ![Above(r)] = @ + 1]
        /\ UNCHANGED <<result, built, exception, ready>>
    BY DEF Acquire
  <1>2. TypeOK' BY AboveIs DEF Acquire, bounds, IInv, TypeOK, PCs
  <1>3. \A q \in Runs : Spawned(q)' <=> (Spawned(q) \/ q = r)
    BY <1>1 DEF IInv, TypeOK, Spawned
  <1>4. ~Spawned(r) /\ r \notin permit
    BY <1>1 DEF Spawned, IInv, Counting, PermitsAccounted
  <1>5. \A x : Guarded(x)' = IF ~IsRoot(r) /\ Above(r) = x THEN Guarded(x) \cup {r} ELSE Guarded(x)
    <2>1. \A x : Guarded(x)' = {q \in Runs : ~IsRoot(q) /\ Above(q) = x /\ Spawned(q)'}
      BY DEF Guarded, Below
    <2> QED BY <1>3, <2>1, GuardedIs
  <1>6. PermitsAccounted' /\ PermitsFinite'
    <2>1. /\ IsFiniteSet(permit \cup {r})
          /\ Cardinality(permit \cup {r}) = Cardinality(permit) + 1
      BY <1>4, FS_AddElement DEF IInv, Counting, PermitsFinite
    <2>2. Cardinality(permit) \in Nat BY FS_CardinalityType DEF IInv, Counting, PermitsFinite
    <2>3. \A q \in permit' : Spawned(q)' BY <1>1, <1>3 DEF IInv, TypeOK, Counting, PermitsAccounted
    <2> QED BY <1>1, <2>1, <2>2, <2>3
            DEF IInv, TypeOK, Counting, PermitsAccounted, PermitsFinite
  <1>7. GuardsCounted' /\ GuardsFinite'
    <2>1. \A x \in Runs : /\ IsFiniteSet(Guarded(x) \cup {r})
                          /\ r \notin Guarded(x)
                          /\ Cardinality(Guarded(x) \cup {r}) = Cardinality(Guarded(x)) + 1
      BY <1>4, GuardedIs, FS_AddElement DEF IInv, Counting, GuardsFinite
    <2> QED BY <1>1, <1>5, <2>1, AboveIs
            DEF IInv, TypeOK, Counting, GuardsCounted, GuardsFinite
  <1>8. MountsWait' /\ NothingMounted' /\ BuiltAfterProcess' /\ SubmitsReady'
    BY <1>1 DEF IInv, TypeOK, Staging, MountsWait, NothingMounted, BuiltAfterProcess,
                SubmitsReady, Below
  <1>9. ReadyMeans'
    <2>1. ~IsRoot(r) => Above(r) \notin built
      BY <1>1 DEF IInv, Staging, MountsWait, BuiltAfterProcess
    <2> QED BY <1>1, <1>5, <2>1 DEF IInv, Staging, ReadyMeans
  <1>10. Reporting'
    BY <1>1, AboveIs
    DEF IInv, TypeOK, Reporting, ResultsKnown, ExceptionsReported, SuccessCoversSubtree, Below
  <1> QED BY <1>2, <1>6, <1>7, <1>8, <1>9, <1>10 DEF IInv, Counting, Staging

-----------------------------------------------------------------------------
(* A run leaves: what it reports is true of its subtree. *)

\* Where readiness is known and was not lost, the children are through.
LEMMA ChildrenThrough ==
  ASSUME IInv, NEW r \in Runs, ready[r] \in {"ok", "exception"}, pc[r] # "process",
         NEW q \in Below(r)
  PROVE  /\ pc[q] \in {"none", "ended", "dropped"}
         /\ ready[r] = "ok" /\ pc[q] = "ended" => result[q] = "ok"
  <1>1. q \in Runs /\ ~IsRoot(q) /\ Above(q) = r BY DEF Below
  <1>2. ~Spawned(q) BY <1>1, GuardedIs DEF IInv, Staging, ReadyMeans
  <1>3. pc[q] # "acquire" BY <1>1 DEF IInv, Staging, MountsWait
  <1>4. pc[q] \in PCs /\ result[q] \in {"none", "ok", "exception"} BY <1>1 DEF IInv, TypeOK
  <1>5. ready[r] = "ok" => r \notin exception BY DEF IInv, Staging, ReadyMeans
  <1>6. pc[q] = "ended" /\ result[q] = "exception" => r \in exception \/ ready[r] = "error"
    BY <1>1 DEF IInv, Reporting, ExceptionsReported
  <1>7. pc[q] = "ended" => result[q] # "none" BY <1>1 DEF IInv, Reporting, ResultsKnown
  <1> QED BY <1>2, <1>3, <1>4, <1>5, <1>6, <1>7 DEF Spawned, PCs

LEMMA Leaves ==
  ASSUME IInv, NEW r \in Runs, NEW res \in {"ok", "exception"},
         pc[r] \in {"spawned", "ready", "submit"},
         res = "ok" => pc[r] = "spawned" \/ (pc[r] = "submit" /\ ready[r] = "ok"),
         pc' = [pc EXCEPT ![r] = "leaving"], result' = [result EXCEPT ![r] = res],
         UNCHANGED <<free, permit, remaining, built, exception, ready>>
  PROVE  Counting' /\ Staging' /\ Reporting'
  <1>1. \A q \in Runs : Spawned(q)' <=> Spawned(q) BY DEF IInv, TypeOK, Spawned
  <1>2. Counting' BY <1>1, SameCounts
  <1>3. \A x : Guarded(x)' = Guarded(x) BY <1>1, SameGuards
  <1>4. MountsWait' /\ NothingMounted'
    BY DEF IInv, TypeOK, Staging, MountsWait, NothingMounted, Below
  <1>5. BuiltAfterProcess' /\ ReadyMeans' /\ SubmitsReady'
    BY <1>3 DEF IInv, TypeOK, Staging, BuiltAfterProcess, ReadyMeans, SubmitsReady
  <1>6. ResultsKnown' /\ ExceptionsReported'
    BY AboveIs DEF IInv, TypeOK, Reporting, ResultsKnown, ExceptionsReported
  <1>7. SuccessCoversSubtree'
    <2> SUFFICES ASSUME NEW x \in Runs, result'[x] = "ok", NEW q \in Below(x)
                 PROVE  pc'[q] \in {"none", "dropped"} \/ (pc'[q] = "ended" /\ result'[q] = "ok")
      BY DEF SuccessCoversSubtree, Below
    <2>1. q \in Runs BY DEF Below
    <2>2. pc[q] \in {"none", "dropped"} \/ (pc[q] = "ended" /\ result[q] = "ok")
      <3>1. CASE x # r
        BY <3>1 DEF IInv, TypeOK, Reporting, SuccessCoversSubtree
      <3>2. CASE x = r /\ pc[r] = "spawned"
        BY <3>2 DEF IInv, Staging, NothingMounted
      <3>3. CASE x = r /\ pc[r] # "spawned"
        BY <3>3, ChildrenThrough DEF IInv, TypeOK
      <3> QED BY <3>1, <3>2, <3>3
    <2> QED BY <2>1, <2>2 DEF IInv, TypeOK
  <1> QED BY <1>2, <1>4, <1>5, <1>6, <1>7 DEF Staging, Reporting

LEMMA LeaveType ==
  ASSUME TypeOK, NEW r \in Runs, NEW res \in {"ok", "exception"}, LeaveWith(r, res)
  PROVE  /\ pc' \in [Runs -> PCs] /\ result' \in [Runs -> {"none", "ok", "exception"}]
         /\ sem' \in [Components -> Runs \cup {NoRun}]
  BY DEF LeaveWith, TypeOK, PCs

LEMMA MemoHitInv == ASSUME IInv, NEW r \in Runs, MemoHit(r) PROVE IInv'
  <1>1. TypeOK' BY LeaveType DEF MemoHit, readiness, tokens, bounds, IInv, TypeOK
  <1> QED BY <1>1, Leaves DEF MemoHit, LeaveWith, readiness, IInv

LEMMA SubmitInv == ASSUME IInv, NEW r \in Runs, Submit(r) PROVE IInv'
  <1> DEFINE res == IF ready[r] = "exception" THEN "exception" ELSE "ok"
  <1>1. /\ pc[r] = "submit" /\ LeaveWith(r, res)
        /\ UNCHANGED <<free, permit, readiness, failed, tokens, bounds>>
    BY DEF Submit
  <1>2. res = "ok" => ready[r] = "ok" BY <1>1 DEF IInv, Staging, SubmitsReady
  <1> HIDE DEF res
  <1>3. res \in {"ok", "exception"} BY DEF res
  <1>4. TypeOK' BY <1>1, <1>3, LeaveType DEF readiness, tokens, bounds, IInv, TypeOK
  <1> QED BY <1>1, <1>2, <1>3, <1>4, Leaves DEF LeaveWith, readiness, IInv

LEMMA SubmitFailsInv == ASSUME IInv, NEW r \in Runs, SubmitFails(r) PROVE IInv'
  <1>1. TypeOK' BY LeaveType DEF SubmitFails, readiness, tokens, IInv, TypeOK
  <1> QED BY <1>1, Leaves DEF SubmitFails, LeaveWith, readiness, IInv

LEMMA ChildrenReadyInv == ASSUME IInv, NEW r \in Runs, ChildrenReady(r) PROVE IInv'
  <1>1. CASE ready[r] = "error" \/ r \in failed
    <2>1. /\ pc[r] = "ready" /\ LeaveWith(r, "exception")
          /\ UNCHANGED <<free, permit, readiness, failed, tokens, bounds>>
      BY <1>1 DEF ChildrenReady
    <2>2. TypeOK' BY <2>1, LeaveType DEF readiness, tokens, bounds, IInv, TypeOK
    <2> QED BY <2>1, <2>2, Leaves DEF LeaveWith, readiness, IInv
  <1>2. CASE ~(ready[r] = "error" \/ r \in failed)
    <2>1. /\ pc[r] = "ready" /\ ready[r] \in {"ok", "exception"}
          /\ pc' = [pc EXCEPT ![r] = "submit"]
          /\ UNCHANGED <<result, sem, free, permit, remaining, built, exception, ready>>
      BY <1>2 DEF ChildrenReady, readiness, IInv, TypeOK
    <2>2. TypeOK'
      BY <1>2, <2>1 DEF ChildrenReady, readiness, tokens, bounds, IInv, TypeOK, PCs
    <2>3. \A q \in Runs : Spawned(q)' <=> Spawned(q) BY <2>1 DEF IInv, TypeOK, Spawned
    <2>4. Counting' BY <2>1, <2>3, SameCounts
    <2>5. \A x : Guarded(x)' = Guarded(x) BY <2>3, SameGuards
    <2>6. MountsWait' /\ NothingMounted'
      BY <2>1 DEF IInv, TypeOK, Staging, MountsWait, NothingMounted, Below
    <2>7. BuiltAfterProcess' /\ ReadyMeans' /\ SubmitsReady'
      BY <2>1, <2>5 DEF IInv, TypeOK, Staging, BuiltAfterProcess, ReadyMeans, SubmitsReady
    <2>8. Reporting'
      BY <2>1, AboveIs
      DEF IInv, TypeOK, Reporting, ResultsKnown, ExceptionsReported, SuccessCoversSubtree, Below
    <2> QED BY <2>2, <2>4, <2>6, <2>7, <2>8 DEF IInv, Staging
  <1> QED BY <1>1, <1>2

-----------------------------------------------------------------------------
(* A process mounts, returns or raises. *)

LEMMA MountInv == ASSUME IInv, NEW r \in Runs, Mount(r) PROVE IInv'
  <1>1. PICK q \in Below(r) : pc[q] = "none" /\ pc' = [pc EXCEPT ![q] = "acquire"]
    BY DEF Mount
  <1>2. q \in Runs /\ ~IsRoot(q) /\ Above(q) = r /\ pc[r] = "process" /\ q # r
    BY <1>1 DEF Below, Mount
  <1>3. UNCHANGED <<result, sem, remaining, built, exception, ready>> BY DEF Mount, readiness
  <1>4. /\ free' \in Nat /\ permit' = permit \ {r}
        /\ IsFiniteSet(permit') /\ free' + Cardinality(permit') = Quota
    BY Releases DEF Mount
  <1>5. TypeOK' BY <1>1, <1>2, <1>4 DEF Mount, readiness, tokens, bounds, IInv, TypeOK, PCs
  <1>6. \A x \in Runs : Spawned(x)' <=> Spawned(x) BY <1>1, <1>2 DEF IInv, TypeOK, Spawned
  <1>7. \A x : Guarded(x)' = Guarded(x) BY <1>6, SameGuards
  <1>8. Counting'
    BY <1>3, <1>4, <1>6, <1>7
    DEF IInv, TypeOK, Counting, PermitsAccounted, PermitsFinite, GuardsCounted, GuardsFinite
  <1>9. MountsWait' /\ NothingMounted'
    BY <1>1, <1>2 DEF IInv, TypeOK, Staging, MountsWait, NothingMounted, Below
  <1>10. BuiltAfterProcess' /\ ReadyMeans' /\ SubmitsReady'
    BY <1>1, <1>2, <1>3, <1>7
    DEF IInv, TypeOK, Staging, BuiltAfterProcess, ReadyMeans, SubmitsReady
  <1>11. Reporting'
    BY <1>1, <1>2, <1>3, AboveIs
    DEF IInv, TypeOK, Reporting, ResultsKnown, ExceptionsReported, SuccessCoversSubtree, Below
  <1> QED BY <1>5, <1>8, <1>9, <1>10, <1>11 DEF IInv, Staging

\* The process of r is done; mounts that were waiting are dropped.
LEMMA Built ==
  ASSUME IInv, NEW r \in Runs, pc[r] = "process", ProcessDone(r),
         pc' = [q \in Runs |-> IF q = r THEN "ready"
                               ELSE IF q \in Below(r) /\ pc[q] = "acquire" THEN "dropped" ELSE pc[q]],
         UNCHANGED <<result, free, permit, remaining, exception>>
  PROVE  Counting' /\ Staging' /\ Reporting' /\ pc' \in [Runs -> PCs]
         /\ built' \subseteq Runs /\ ready' \in [Runs -> {"no", "ok", "exception", "error"}]
  <1>1. /\ built' = built \cup {r}
        /\ ready' = [ready EXCEPT ![r] = ReadyAfter(r, remaining[r], TRUE, r \in exception, FALSE)]
    BY DEF ProcessDone
  <1>2. \A q \in Runs : Spawned(q)' <=> Spawned(q) BY DEF IInv, TypeOK, Spawned
  <1>3. Counting' BY <1>2, SameCounts
  <1>4. \A x : Guarded(x)' = Guarded(x) BY <1>2, SameGuards
  <1>5. pc' \in [Runs -> PCs] BY DEF IInv, TypeOK, PCs
  <1>6. /\ built' \subseteq Runs /\ ready' \in [Runs -> {"no", "ok", "exception", "error"}]
        /\ \A x \in Runs \ {r} : ready'[x] = ready[x]
        /\ ready[r] # "no" => ready'[r] = ready[r]
        /\ ready[r] = "no" /\ ready'[r] # "no" => remaining[r] = 0
        /\ ready[r] = "no" /\ ready'[r] = "ok" => r \notin exception
    BY <1>1 DEF IInv, TypeOK, ReadyAfter
  <1>7. remaining[r] = 0 => Guarded(r) = {}
    BY FS_EmptySet DEF IInv, Counting, GuardsCounted, GuardsFinite
  <1>8. MountsWait' /\ NothingMounted'
    <2>1. MountsWait'
      <3> SUFFICES ASSUME NEW q \in Runs, ~IsRoot(q), pc'[q] = "acquire"
                   PROVE  pc'[Above(q)] = "process"
        BY DEF MountsWait, IsRoot, Above
      <3>1. pc[q] = "acquire" /\ Above(q) # r /\ Above(q) \in Runs BY AboveIs DEF Below
      <3>2. pc[Above(q)] = "process" BY <3>1 DEF IInv, Staging, MountsWait
      <3> QED BY <3>1, <3>2
    <2>2. NothingMounted'
      <3> SUFFICES ASSUME NEW x \in Runs, NEW q \in Below(x),
                          pc'[x] \in {"none", "acquire", "spawned", "wait", "dropped"}
                   PROVE  pc'[q] = "none"
        BY DEF NothingMounted, Below, IsRoot, Above
      <3>1. q \in Runs BY DEF Below
      <3>2. pc[x] \in {"none", "acquire", "spawned", "wait", "dropped"} /\ x # r OBVIOUS
      <3>3. pc[q] = "none" BY <3>2 DEF IInv, Staging, NothingMounted
      <3> QED BY <3>1, <3>3
    <2> QED BY <2>1, <2>2
  <1>9. BuiltAfterProcess' /\ SubmitsReady'
    BY <1>1, <1>6 DEF IInv, TypeOK, Staging, BuiltAfterProcess, SubmitsReady
  <1>10. ReadyMeans' BY <1>1, <1>4, <1>6, <1>7 DEF IInv, Staging, ReadyMeans
  <1>11. ResultsKnown' BY DEF IInv, TypeOK, Reporting, ResultsKnown
  <1>12. ExceptionsReported'
    BY <1>6, AboveIs DEF IInv, TypeOK, Reporting, ExceptionsReported
  <1>13. SuccessCoversSubtree'
    BY DEF IInv, TypeOK, Reporting, ResultsKnown, SuccessCoversSubtree, Below
  <1> QED BY <1>3, <1>5, <1>6, <1>8, <1>9, <1>10, <1>11, <1>12, <1>13 DEF Staging, Reporting

LEMMA ProcessInv == ASSUME IInv, NEW r \in Runs, Process(r) PROVE IInv'
  <1>1. pc' = [q \in Runs |-> IF q = r THEN "ready"
                              ELSE IF q \in Below(r) /\ pc[q] = "acquire" THEN "dropped" ELSE pc[q]]
    BY DEF Process, IInv, TypeOK
  <1>2. Counting' /\ Staging' /\ Reporting' /\ pc' \in [Runs -> PCs]
        /\ built' \subseteq Runs /\ ready' \in [Runs -> {"no", "ok", "exception", "error"}]
    BY <1>1, Built DEF Process, permits
  <1> QED BY <1>2 DEF Process, permits, tokens, bounds, IInv, TypeOK

LEMMA ProcessFailsInv == ASSUME IInv, NEW r \in Runs, ProcessFails(r) PROVE IInv'
  <1>1. Counting' /\ Staging' /\ Reporting' /\ pc' \in [Runs -> PCs]
        /\ built' \subseteq Runs /\ ready' \in [Runs -> {"no", "ok", "exception", "error"}]
    BY Built DEF ProcessFails, permits
  <1> QED BY <1>1 DEF ProcessFails, permits, tokens, IInv, TypeOK

-----------------------------------------------------------------------------
(* A run ends, and its guard with it. *)

LEMMA Ends ==
  ASSUME IInv, NEW r \in Runs, Spawned(r), NEW res \in {"ok", "exception"}, NEW broken \in BOOLEAN,
         res = "ok" => pc[r] = "leaving" /\ result[r] = "ok",
         broken => res = "exception", EndWith(r, res, broken),
         faults' \in Nat, panics' \in Nat
  PROVE  IInv'
  <1> DEFINE up == ~IsRoot(r)
             p == Above(r)
  <1>1. /\ pc' = [q \in Runs |-> IF q = r THEN "ended"
                                 ELSE IF q \in Below(r) /\ pc[q] = "acquire" THEN "dropped" ELSE pc[q]]
        /\ result' = [result EXCEPT ![r] = res]
        /\ UNCHANGED <<built, failed, token, tokenOf, cancelled>>
    BY DEF EndWith, tokens
  <1>2. /\ free' \in Nat /\ permit' = permit \ {r}
        /\ IsFiniteSet(permit') /\ free' + Cardinality(permit') = Quota
    BY Releases DEF EndWith
  <1>3. up => p \in Runs /\ r \in Guarded(p) BY AboveIs, GuardedIs
  <1>4. \A x \in Runs : Spawned(x)' <=> (Spawned(x) /\ x # r)
    BY <1>1 DEF Spawned
  <1>5. \A x : Guarded(x)' = IF up /\ p = x THEN Guarded(x) \ {r} ELSE Guarded(x)
    <2>1. \A x : Guarded(x)' = {q \in Runs : ~IsRoot(q) /\ Above(q) = x /\ Spawned(q)'}
      BY DEF Guarded, Below
    <2> QED BY <1>4, <2>1, GuardedIs
  <1>6. /\ ~up => UNCHANGED <<remaining, exception, ready>>
        /\ up => /\ remaining' = [remaining EXCEPT ![p] = @ - 1]
                 /\ exception' = IF p \in exception \/ (~broken /\ res = "exception")
                                  THEN exception \cup {p} ELSE exception
                 /\ ready' = [ready EXCEPT
                      ![p] = ReadyAfter(p, remaining[p] - 1, p \in built,
                                        p \in exception \/ (~broken /\ res = "exception"), broken)]
    BY DEF EndWith, ResolveGuard
  <1>7. up => /\ IsFiniteSet(Guarded(p) \ {r})
              /\ Cardinality(Guarded(p) \ {r}) = remaining[p] - 1
              /\ remaining[p] - 1 \in Nat
    <2> HAVE up
    <2>1. /\ p \in Runs /\ r \in Guarded(p) /\ IsFiniteSet(Guarded(p))
          /\ remaining[p] = Cardinality(Guarded(p))
      BY <1>3 DEF IInv, Counting, GuardsCounted, GuardsFinite
    <2>2. /\ IsFiniteSet(Guarded(p) \ {r})
          /\ Cardinality(Guarded(p) \ {r}) = Cardinality(Guarded(p)) - 1
      BY <2>1, FS_RemoveElement
    <2>3. Cardinality(Guarded(p) \ {r}) \in Nat BY <2>2, FS_CardinalityType
    <2> QED BY <2>1, <2>2, <2>3
  <1>8. up => ready[p] \in {"no", "error"}
    BY <1>3 DEF IInv, TypeOK, Staging, ReadyMeans
  <1>9. /\ exception \subseteq exception' /\ exception' \subseteq Runs
        /\ ready' \in [Runs -> {"no", "ok", "exception", "error"}]
        /\ \A x \in Runs : ready[x] # "no" => ready'[x] = ready[x]
        /\ \A x \in Runs : ~(up /\ x = p) => ready'[x] = ready[x] /\ (x \in exception' <=> x \in exception)
    BY <1>3, <1>6 DEF IInv, TypeOK, ReadyAfter
  <1>10. up => /\ ready'[p] \in {"ok", "exception"} => p \in built /\ remaining[p] - 1 = 0
               /\ ready'[p] = "ok" => p \notin exception'
               /\ res = "exception" => p \in exception' \/ ready'[p] = "error"
    <2> HAVE up
    <2> QED BY <1>3, <1>6, <1>8 DEF IInv, TypeOK, ReadyAfter
  <1>11. Counting'
    BY <1>2, <1>3, <1>4, <1>5, <1>6, <1>7
    DEF IInv, TypeOK, Counting, PermitsAccounted, PermitsFinite, GuardsCounted, GuardsFinite
  <1>12. MountsWait' /\ NothingMounted'
    <2>1. MountsWait'
      <3> SUFFICES ASSUME NEW q \in Runs, ~IsRoot(q), pc'[q] = "acquire"
                   PROVE  pc'[Above(q)] = "process"
        BY DEF MountsWait, IsRoot, Above
      <3>1. pc[q] = "acquire" /\ Above(q) # r /\ Above(q) \in Runs BY <1>1, AboveIs DEF Below
      <3>2. pc[Above(q)] = "process" BY <3>1 DEF IInv, Staging, MountsWait
      <3> QED BY <1>1, <3>1, <3>2
    <2>2. NothingMounted'
      <3> SUFFICES ASSUME NEW x \in Runs, NEW q \in Below(x),
                          pc'[x] \in {"none", "acquire", "spawned", "wait", "dropped"}
                   PROVE  pc'[q] = "none"
        BY DEF NothingMounted, Below, IsRoot, Above
      <3>1. q \in Runs BY DEF Below
      <3>2. pc[x] \in {"none", "acquire", "spawned", "wait", "dropped"} BY <1>1
      <3>3. pc[q] = "none" BY <3>2 DEF IInv, Staging, NothingMounted
      <3>4. q # r BY <3>3 DEF Spawned
      <3> QED BY <1>1, <3>1, <3>3, <3>4
    <2> QED BY <2>1, <2>2
  <1>13. BuiltAfterProcess' /\ SubmitsReady'
    <2>1. BuiltAfterProcess' BY <1>1 DEF IInv, TypeOK, Staging, BuiltAfterProcess
    <2>2. \A x \in Runs : pc'[x] = "submit" => pc[x] = "submit" BY <1>1
    <2>3. SubmitsReady' BY <1>9, <2>2 DEF IInv, Staging, SubmitsReady
    <2> QED BY <2>1, <2>3
  <1>14. ReadyMeans'
    <2> SUFFICES ASSUME NEW x \in Runs
                 PROVE  /\ ready'[x] \in {"ok", "exception"} => x \in built' /\ Guarded(x)' = {}
                        /\ ready'[x] = "ok" => x \notin exception'
      BY DEF ReadyMeans
    <2>1. CASE up /\ x = p
      <3>1. remaining[p] - 1 = 0 => Guarded(p) \ {r} = {} BY <1>7, <2>1, FS_EmptySet
      <3> QED BY <1>1, <1>5, <1>10, <2>1, <3>1
    <2>2. CASE ~(up /\ x = p)
      <3>1. Guarded(x)' = Guarded(x) /\ built' = built BY <1>1, <1>5, <2>2
      <3> QED BY <1>9, <2>2, <3>1 DEF IInv, Staging, ReadyMeans
    <2> QED BY <2>1, <2>2
  <1>15. ResultsKnown' BY <1>1 DEF IInv, TypeOK, Reporting, ResultsKnown, Spawned
  <1>16. ExceptionsReported'
    <2> SUFFICES ASSUME NEW q \in Runs, ~IsRoot(q), pc'[q] = "ended", result'[q] = "exception"
                 PROVE  Above(q) \in exception' \/ ready'[Above(q)] = "error"
      BY DEF ExceptionsReported, IsRoot, Above
    <2>1. CASE q = r BY <1>1, <1>10, <2>1 DEF IInv, TypeOK
    <2>2. CASE q # r
      <3>1. pc[q] = "ended" /\ result[q] = "exception" BY <1>1, <2>2 DEF IInv, TypeOK
      <3>2. Above(q) \in exception \/ ready[Above(q)] = "error"
        BY <3>1 DEF IInv, Reporting, ExceptionsReported
      <3> QED BY <1>9, <3>2, AboveIs
    <2> QED BY <2>1, <2>2
  <1>17. SuccessCoversSubtree'
    <2> SUFFICES ASSUME NEW x \in Runs, result'[x] = "ok", NEW q \in Below(x)
                 PROVE  pc'[q] \in {"none", "dropped"} \/ (pc'[q] = "ended" /\ result'[q] = "ok")
      BY DEF SuccessCoversSubtree, Below, IsRoot, Above
    <2>1. q \in Runs BY DEF Below
    <2>2. result[x] = "ok" BY <1>1 DEF IInv, TypeOK
    <2>3. pc[q] \in {"none", "dropped"} \/ (pc[q] = "ended" /\ result[q] = "ok")
      BY <2>2 DEF IInv, Reporting, SuccessCoversSubtree
    <2>4. q # r BY <2>3 DEF Spawned
    <2> QED BY <1>1, <2>1, <2>3, <2>4 DEF IInv, TypeOK
  <1>18. sem' \in [Components -> Runs \cup {NoRun}] BY DEF EndWith, IInv, TypeOK
  <1>19. pc' \in [Runs -> PCs] BY <1>1 DEF IInv, TypeOK, PCs
  <1>20. remaining' \in [Runs -> Nat] BY <1>3, <1>6, <1>7 DEF IInv, TypeOK
  <1>21. TypeOK'
    BY <1>1, <1>2, <1>9, <1>18, <1>19, <1>20 DEF IInv, TypeOK
  <1> QED BY <1>11, <1>12, <1>13, <1>14, <1>15, <1>16, <1>17, <1>21 DEF IInv, Staging, Reporting

LEMMA EndInv == ASSUME IInv, NEW r \in Runs, End(r) PROVE IInv'
  <1>1. pc[r] = "leaving" /\ Spawned(r) /\ EndWith(r, result[r], FALSE) /\ UNCHANGED <<faults, panics>>
    BY DEF End, Spawned, bounds
  <1>2. result[r] \in {"ok", "exception"} BY <1>1 DEF IInv, TypeOK, Reporting, ResultsKnown
  <1> QED BY <1>1, <1>2, Ends DEF IInv, TypeOK

LEMMA CancelRunInv == ASSUME IInv, NEW r \in Runs, CancelRun(r) PROVE IInv'
  BY Ends DEF CancelRun, bounds, IInv, TypeOK

LEMMA PanicInv == ASSUME IInv, NEW r \in Runs, Panic(r) PROVE IInv'
  <1>1. Spawned(r) /\ EndWith(r, "exception", TRUE) BY DEF Panic
  <1>2. faults' \in Nat /\ panics' \in Nat BY DEF Panic, IInv, TypeOK
  <1> QED BY <1>1, <1>2, Ends

LEMMA UnchangedInv == ASSUME IInv, UNCHANGED vars PROVE IInv'
  <1>1. UNCHANGED <<pc, result, free, permit, sem, remaining, built, exception, ready, failed,
                    token, tokenOf, cancelled, faults, panics>>
    BY DEF vars, permits, readiness, tokens, bounds
  <1>2. \A q \in Runs : Spawned(q)' <=> Spawned(q) BY <1>1 DEF Spawned
  <1>3. Counting' BY <1>1, <1>2, SameCounts
  <1>4. \A x : Guarded(x)' = Guarded(x) BY <1>2, SameGuards
  <1> QED BY <1>1, <1>3, <1>4
          DEF IInv, TypeOK, Staging, MountsWait, NothingMounted, BuiltAfterProcess, ReadyMeans,
              SubmitsReady, Reporting, ResultsKnown, ExceptionsReported, SuccessCoversSubtree

LEMMA NextInv == ASSUME IInv, [Next]_vars PROVE IInv'
  <1>1. CASE \E u \in Updates : StartUpdate(u) BY <1>1, StartUpdateInv
  <1>2. CASE Cancel BY <1>2, CancelInv
  <1>3. ASSUME NEW r \in Runs, RunStep(r) PROVE IInv'
    BY <1>3, DropUpdateInv, AcquireInv, MemoHitInv, MemoMissInv, EnterInv, ProcessInv,
       ChildrenReadyInv, SubmitInv, EndInv, CancelRunInv
    DEF RunStep
  <1>4. ASSUME NEW r \in Runs, Mount(r) \/ ProcessFails(r) \/ SubmitFails(r) \/ Panic(r) PROVE IInv'
    BY <1>4, MountInv, ProcessFailsInv, SubmitFailsInv, PanicInv
  <1>5. CASE UNCHANGED vars BY <1>5, UnchangedInv
  <1> QED BY <1>1, <1>2, <1>3, <1>4, <1>5 DEF Next

-----------------------------------------------------------------------------
\* The strengthening that the safety properties follow from: permits and guards
\* count what holds them, the stages of a run follow each other, and what a run
\* reports reaches its parent (Component::execute_once).
THEOREM Invariant == Spec => []IInv
  <1> QED BY InitInv, NextInv, PTL DEF Spec

\* Every variable of the scheduler keeps to its type; no counter falls below zero
\* (remaining_count of ComponentBgChildReadiness, the permits of the semaphore).
THEOREM TypeCorrect == Spec => []TypeOK
  <1>1. IInv => TypeOK BY DEF IInv
  <1> QED BY <1>1, Invariant, PTL

\* No inflight permit is lost or doubled, and a parent waits for exactly the children
\* whose tasks run (release_inflight_permit, add_child, the drop of the guard).
THEOREM PermitsAndGuards == Spec => []Accounted
  <1>1. IInv => Accounted BY DEF IInv, Counting, Accounted
  <1> QED BY <1>1, Invariant, PTL

\* A component submits only when everything it mounted has ended: the wait for
\* readiness in execute_once.
THEOREM SubmitsLast == Spec => []SubmitsAfterChildren
  <1>1. ASSUME IInv PROVE SubmitsAfterChildren
    <2> SUFFICES ASSUME NEW r \in Runs, pc[r] = "submit", NEW q \in Below(r)
                 PROVE  pc[q] \in {"none", "ended", "dropped"}
      BY DEF SubmitsAfterChildren
    <2>1. ready[r] \in {"ok", "exception"} BY <1>1 DEF IInv, Staging, SubmitsReady
    <2> QED BY <1>1, <2>1, ChildrenThrough
  <1> QED BY <1>1, Invariant, PTL

\* A run reports success only when its whole subtree succeeded: an exception below
\* reaches every component above it (the merged outcome of components_readiness).
THEOREM SuccessIsTrue == Spec => []SuccessCoversSubtree
  <1>1. IInv => SuccessCoversSubtree BY DEF IInv, Reporting
  <1> QED BY <1>1, Invariant, PTL
=============================================================================
