------------------------ MODULE LiveComponent_proof ------------------------
(***************************************************************************)
(* Proofs about LiveComponent, for any subpaths, contents, calls and any   *)
(* number of full updates and failures.                                    *)
(***************************************************************************)
EXTENDS LiveComponent, FiniteSetTheorems, TLAPS

\* update_full is past its wait for the operations in flight.
Past == fullPc \in {"process", "collect", "await"}
Invoked == {c \in Calls : pc[c] # "idle"}

\* Calls are numbered in the order of invocation, those of a subpath one after another.
Numbered ==
  /\ IsFiniteSet(Invoked)
  /\ \A c \in Calls : number[c] <= Cardinality(Invoked) /\ (pc[c] = "idle" => number[c] = 0)
  /\ \A c, d \in Calls :
       path[c] = path[d] /\ c # d /\ pc[c] \in {"deleting", "checking"} => number[d] < number[c]

\* An entry holds the call that is queued, a run the call it is for.
Placed ==
  \A p \in Subpaths :
    /\ entry[p].queued # NoCall => pc[entry[p].queued] = "queued" /\ path[entry[p].queued] = p
    /\ run[p].by # NoCall => pc[run[p].by] = "running" /\ path[run[p].by] = p
    /\ entry[p].queued # NoCall /\ run[p].by # NoCall => number[run[p].by] < number[entry[p].queued]
    /\ entry[p].processing <=> run[p].by # NoCall
    /\ entry[p].processing => entry[p].alive

\* Drain tasks see update_full coming, and nothing but its build runs children for itself.
FullWaits ==
  /\ fullPc = "quiesce" => active
  /\ Past => active \/ cancelled
  /\ ~Past => \A p \in Subpaths : run[p].by = NoCall => run[p].pc = "none"

\* What a run is about to do to the sink or to a tombstone stays within reach.
RunsReachable ==
  \A p \in Subpaths :
    /\ run[p].pc \in {"apply", "memoize"} => p \in exists \cup tombstones
    /\ run[p].pc = "cleanup" => p \in exists \cup raced \/ sink[p] = Absent

\* A memo tells what is in the sink; a run that changes the sink has none.
MemoTells ==
  \A p \in Subpaths :
    /\ memo[p] # Absent => sink[p] = memo[p]
    /\ run[p].pc \in {"upsert", "apply", "memoize", "preflight", "remove", "cleanup"} => memo[p] = Absent

\* A build for an update gets what the update wants into the sink.
BuildTakesEffect ==
  \A p \in Subpaths :
    /\ run[p].pc = "memoize" => sink[p] = WantOf(p)
    /\ run[p].by # NoCall /\ want[run[p].by] # Absent =>
         /\ run[p].pc \in {"check", "upsert", "apply", "memoize", "ok", "error"}
         /\ run[p].pc = "ok" => sink[p] = want[run[p].by]

\* No call of the subpath came after the latest; once it is executed nothing is under way.
LatestIsLast ==
  \A p \in Subpaths : latest[p] # NoCall =>
    /\ path[latest[p]] = p /\ pc[latest[p]] # "idle"
    /\ \A d \in Calls : path[d] = p => number[d] <= number[latest[p]]
    /\ pc[latest[p]] = "executed" => ~Past /\ entry[p].queued = NoCall /\ run[p].by = NoCall

Queueing == Numbered /\ Placed /\ HandlesAreServed
Fulls    == FullWaits /\ OpsWaitForFull
Reach    == RunsReachable /\ ChildrenReachable
Effects  == MemoTells /\ BuildTakesEffect
Latest   == LatestIsLast /\ LatestUpdateTakesEffect

IInv == TypeOK /\ Queueing /\ Fulls /\ Reach /\ Effects /\ Latest

-----------------------------------------------------------------------------
LEMMA InitInv == Init => IInv
  <1> SUFFICES ASSUME Init PROVE IInv OBVIOUS
  <1>1. TypeOK BY DEF Init, TypeOK, PCs, Outcomes, States, NoEntry, NoRun, Run, RunPCs, FullPCs
  <1>2. Invoked = {} BY DEF Init, Invoked
  <1>3. Numbered BY <1>2, FS_EmptySet DEF Init, Numbered
  <1>4. Placed /\ HandlesAreServed BY DEF Init, Placed, HandlesAreServed, NoEntry, NoRun, Run
  <1>5. Fulls BY DEF Init, Fulls, FullWaits, OpsWaitForFull, Past, NoRun, Run
  <1>6. Reach BY DEF Init, Reach, RunsReachable, ChildrenReachable, NoRun, Run
  <1>7. Effects BY DEF Init, Effects, MemoTells, BuildTakesEffect, NoRun, Run
  <1>8. Latest BY DEF Init, Latest, LatestIsLast, LatestUpdateTakesEffect
  <1> QED BY <1>1, <1>3, <1>4, <1>5, <1>6, <1>7, <1>8 DEF IInv, Queueing

-----------------------------------------------------------------------------
(* Runs of the children. *)

LEMMA RunMoves ==
  ASSUME IInv, NEW p \in Subpaths, NEW state \in RunPCs \ {"none"}, run[p].pc # "none",
         GoRun(p, state), UNCHANGED <<calls, entry, full, cancelled, latest>>,
         \A q \in Subpaths \ {p} : sink'[q] = sink[q]
  PROVE  /\ Queueing' /\ Fulls' /\ Latest'
         /\ run' \in [Subpaths -> [pc : RunPCs, by : Calls \cup {NoCall}]]
         /\ \A q \in Subpaths : run'[q].by = run[q].by /\ WantOf(q)' = WantOf(q)
         /\ \A q \in Subpaths : run'[q].pc = IF q = p THEN state ELSE run[q].pc
  <1>1. UNCHANGED <<pc, path, want, number, entry, fullPc, active, mounted, cancelled, latest>>
    BY DEF calls, full
  <1>2. /\ run' \in [Subpaths -> [pc : RunPCs, by : Calls \cup {NoCall}]]
        /\ \A q \in Subpaths : run'[q].by = run[q].by
        /\ \A q \in Subpaths : run'[q].pc = IF q = p THEN state ELSE run[q].pc
    BY DEF GoRun, IInv, TypeOK
  <1>3. \A q \in Subpaths : WantOf(q)' = WantOf(q) BY <1>1, <1>2 DEF WantOf
  <1>4. Queueing'
    <2>1. Invoked' = Invoked BY <1>1 DEF Invoked
    <2>2. Numbered' BY <1>1, <2>1 DEF IInv, Queueing, Numbered
    <2>3. Placed' /\ HandlesAreServed'
      BY <1>1, <1>2 DEF IInv, TypeOK, Queueing, Placed, HandlesAreServed
    <2> QED BY <2>2, <2>3 DEF Queueing
  <1>5. Fulls' BY <1>1, <1>2 DEF IInv, Fulls, FullWaits, OpsWaitForFull, Past
  <1>6. LatestIsLast' BY <1>1, <1>2 DEF IInv, Latest, LatestIsLast, Past
  <1>7. LatestUpdateTakesEffect'
    <2> SUFFICES ASSUME NEW q \in Subpaths, latest[q] # NoCall, pc[latest[q]] = "executed",
                        want[latest[q]] # Absent
                 PROVE  sink'[q] = want[latest[q]]
      BY <1>1 DEF LatestUpdateTakesEffect
    <2>1. q # p BY DEF IInv, Latest, LatestIsLast, Fulls, FullWaits
    <2> QED BY <2>1 DEF IInv, Latest, LatestUpdateTakesEffect
  <1> QED BY <1>2, <1>3, <1>4, <1>5, <1>6, <1>7 DEF Latest

LEMMA CheckInv == ASSUME IInv, NEW p \in Subpaths, Check(p) PROVE IInv'
  <1> DEFINE to == IF memo[p] = WantOf(p) THEN "ok" ELSE "upsert"
  <1>1. /\ run[p].pc = "check" /\ GoRun(p, to)
        /\ memo' = IF memo[p] = WantOf(p) THEN memo ELSE [memo EXCEPT ![p] = Absent]
        /\ UNCHANGED <<calls, entry, full, exists, tombstones, sink, cancelled, latest, raced, fulls, faults>>
    BY DEF Check
  <1>2. to \in RunPCs \ {"none"} BY DEF RunPCs
  <1>3. /\ Queueing' /\ Fulls' /\ Latest'
        /\ run' \in [Subpaths -> [pc : RunPCs, by : Calls \cup {NoCall}]]
        /\ \A q \in Subpaths : run'[q].by = run[q].by /\ WantOf(q)' = WantOf(q)
        /\ \A q \in Subpaths : run'[q].pc = IF q = p THEN to ELSE run[q].pc
    BY <1>1, <1>2, RunMoves
  <1>4. TypeOK' BY <1>1, <1>3 DEF calls, full, IInv, TypeOK, States
  <1>5. Reach' BY <1>1, <1>3 DEF IInv, Reach, RunsReachable, ChildrenReachable
  <1>6. MemoTells' BY <1>1, <1>3 DEF IInv, TypeOK, Effects, MemoTells
  <1>7. BuildTakesEffect'
    BY <1>1, <1>3 DEF calls, IInv, TypeOK, Effects, MemoTells, BuildTakesEffect, WantOf
  <1> QED BY <1>3, <1>4, <1>5, <1>6, <1>7 DEF IInv, Effects

LEMMA OtherRunStepsInv ==
  ASSUME IInv, NEW p \in Subpaths,
         \/ Upsert(p) \/ Apply(p) \/ Memoize(p) \/ DeleteMemo(p) \/ Preflight(p) \/ Remove(p)
         \/ Cleanup(p) \/ RunFails(p)
  PROVE  IInv'
  <1> DEFINE Moved(to) ==
        /\ Queueing' /\ Fulls' /\ Latest'
        /\ run' \in [Subpaths -> [pc : RunPCs, by : Calls \cup {NoCall}]]
        /\ \A q \in Subpaths : run'[q].by = run[q].by /\ WantOf(q)' = WantOf(q)
        /\ \A q \in Subpaths : run'[q].pc = IF q = p THEN to ELSE run[q].pc
  <1>1. \A q \in Subpaths : WantOf(q) \in States BY DEF IInv, TypeOK, WantOf
  <1>2. CASE Upsert(p)
    <2>1. Moved("apply") BY <1>2, RunMoves DEF Upsert, RunPCs
    <2>2. TypeOK' BY <1>2, <2>1 DEF Upsert, calls, full, IInv, TypeOK
    <2>3. Reach' BY <1>2, <2>1 DEF Upsert, IInv, Reach, RunsReachable, ChildrenReachable
    <2>4. Effects' BY <1>2, <2>1 DEF Upsert, calls, IInv, Effects, MemoTells, BuildTakesEffect
    <2> QED BY <2>1, <2>2, <2>3, <2>4 DEF IInv
  <1>3. CASE Apply(p)
    <2>1. Moved("memoize") BY <1>3, RunMoves DEF Apply, RunPCs, IInv, TypeOK
    <2>2. TypeOK' BY <1>1, <1>3, <2>1 DEF Apply, calls, full, IInv, TypeOK
    <2>3. Reach' BY <1>3, <2>1 DEF Apply, IInv, TypeOK, Reach, RunsReachable, ChildrenReachable
    <2>4. Effects' BY <1>3, <2>1 DEF Apply, calls, IInv, TypeOK, Effects, MemoTells, BuildTakesEffect
    <2> QED BY <2>1, <2>2, <2>3, <2>4 DEF IInv
  <1>4. CASE Memoize(p)
    <2>1. Moved("ok") BY <1>4, RunMoves DEF Memoize, RunPCs
    <2>2. TypeOK' BY <1>1, <1>4, <2>1 DEF Memoize, calls, full, IInv, TypeOK
    <2>3. Reach' BY <1>4, <2>1 DEF Memoize, IInv, Reach, RunsReachable, ChildrenReachable
    <2>4. MemoTells' BY <1>4, <2>1 DEF Memoize, IInv, TypeOK, Effects, MemoTells, BuildTakesEffect
    <2>5. BuildTakesEffect'
      BY <1>4, <2>1 DEF Memoize, calls, IInv, TypeOK, Effects, BuildTakesEffect, WantOf
    <2> QED BY <2>1, <2>2, <2>3, <2>4, <2>5 DEF IInv, Effects
  <1>5. CASE DeleteMemo(p)
    <2>1. Moved("preflight") BY <1>5, RunMoves DEF DeleteMemo, RunPCs
    <2>2. TypeOK' BY <1>5, <2>1 DEF DeleteMemo, calls, full, IInv, TypeOK, States
    <2>3. Reach' BY <1>5, <2>1 DEF DeleteMemo, IInv, Reach, RunsReachable, ChildrenReachable
    <2>4. Effects'
      BY <1>5, <2>1 DEF DeleteMemo, calls, IInv, TypeOK, Effects, MemoTells, BuildTakesEffect
    <2> QED BY <2>1, <2>2, <2>3, <2>4 DEF IInv
  <1>6. CASE Preflight(p)
    <2>1. Moved(IF p \in exists THEN "cleanup" ELSE "remove") BY <1>6, RunMoves DEF Preflight, RunPCs
    <2>2. TypeOK' BY <1>6, <2>1 DEF Preflight, calls, full, IInv, TypeOK
    <2>3. Reach' BY <1>6, <2>1 DEF Preflight, IInv, Reach, RunsReachable, ChildrenReachable
    <2>4. Effects' BY <1>6, <2>1 DEF Preflight, calls, IInv, Effects, MemoTells, BuildTakesEffect
    <2> QED BY <2>1, <2>2, <2>3, <2>4 DEF IInv
  <1>7. CASE Remove(p)
    <2>1. Moved("cleanup") BY <1>7, RunMoves DEF Remove, RunPCs, IInv, TypeOK
    <2>2. TypeOK' BY <1>7, <2>1 DEF Remove, calls, full, IInv, TypeOK, States
    <2>3. Reach' BY <1>7, <2>1 DEF Remove, IInv, TypeOK, Reach, RunsReachable, ChildrenReachable
    <2>4. Effects' BY <1>7, <2>1 DEF Remove, calls, IInv, TypeOK, Effects, MemoTells, BuildTakesEffect
    <2> QED BY <2>1, <2>2, <2>3, <2>4 DEF IInv
  <1>8. CASE Cleanup(p)
    <2>1. Moved("ok") BY <1>8, RunMoves DEF Cleanup, RunPCs
    <2>2. TypeOK' BY <1>8, <2>1 DEF Cleanup, calls, full, IInv, TypeOK
    <2>3. Reach' BY <1>8, <2>1 DEF Cleanup, IInv, Reach, RunsReachable, ChildrenReachable
    <2>4. Effects' BY <1>8, <2>1 DEF Cleanup, calls, IInv, Effects, MemoTells, BuildTakesEffect
    <2> QED BY <2>1, <2>2, <2>3, <2>4 DEF IInv
  <1>9. CASE RunFails(p)
    <2>1. Moved("error") BY <1>9, RunMoves DEF RunFails, RunPCs
    <2>2. TypeOK' BY <1>9, <2>1 DEF RunFails, calls, full, IInv, TypeOK
    <2>3. Reach' BY <1>9, <2>1 DEF RunFails, IInv, Reach, RunsReachable, ChildrenReachable
    <2>4. Effects' BY <1>9, <2>1 DEF RunFails, calls, IInv, Effects, MemoTells, BuildTakesEffect
    <2> QED BY <2>1, <2>2, <2>3, <2>4 DEF IInv
  <1> QED BY <1>2, <1>3, <1>4, <1>5, <1>6, <1>7, <1>8, <1>9

-----------------------------------------------------------------------------
(* Calls. *)

LEMMA InvokeInv ==
  ASSUME IInv, NEW c \in Calls, NEW to \in {"deleting", "checking", "cancelled"},
         Invoke(c), pc' = [pc EXCEPT ![c] = to]
  PROVE  IInv'
  <1>1. /\ pc[c] = "idle" /\ number[c] = 0
        /\ \A d \in Calls : path[d] = path[c] => pc[d] \notin {"deleting", "checking"}
        /\ number' = [number EXCEPT ![c] = 1 + Cardinality(Invoked)]
        /\ latest' = [latest EXCEPT ![path[c]] = c]
        /\ UNCHANGED <<path, want, entry, fullPc, active, mounted, run, exists, tombstones,
                       memo, sink, cancelled, raced, fulls, faults>>
    BY DEF Invoke, Invoked, full, children, IInv, Queueing, Numbered
  <1>2. /\ IsFiniteSet(Invoked) /\ Cardinality(Invoked) \in Nat
        /\ \A d \in Calls : number[d] <= Cardinality(Invoked)
    BY FS_CardinalityType DEF IInv, Queueing, Numbered
  <1>3. Invoked' = Invoked \cup {c} /\ c \notin Invoked BY <1>1 DEF Invoked, IInv, TypeOK
  <1>4. IsFiniteSet(Invoked') /\ Cardinality(Invoked') = Cardinality(Invoked) + 1
    BY <1>2, <1>3, FS_AddElement
  <1>5. /\ pc' \in [Calls -> PCs] /\ number' \in [Calls -> Nat]
        /\ \A d \in Calls : /\ pc'[d] = IF d = c THEN to ELSE pc[d]
                            /\ number'[d] = IF d = c THEN 1 + Cardinality(Invoked) ELSE number[d]
    BY <1>1, <1>2 DEF IInv, TypeOK, PCs, Outcomes
  <1>6. TypeOK' BY <1>1, <1>5 DEF IInv, TypeOK
  <1>7. Numbered'
    <2>1. \A d \in Calls : number'[d] <= Cardinality(Invoked') /\ (pc'[d] = "idle" => number'[d] = 0)
      BY <1>2, <1>4, <1>5 DEF IInv, TypeOK, Queueing, Numbered
    <2>2. \A a, b \in Calls :
            path[a] = path[b] /\ a # b /\ pc'[a] \in {"deleting", "checking"} => number'[b] < number'[a]
      BY <1>1, <1>2, <1>5 DEF IInv, TypeOK, Queueing, Numbered
    <2> QED BY <1>1, <1>4, <2>1, <2>2 DEF Numbered
  <1>8. Placed' BY <1>1, <1>5 DEF IInv, TypeOK, Queueing, Placed
  <1>9. HandlesAreServed'
    <2>1. \A x, d \in Calls : number[d] > number[x] => d # c
      BY <1>1 DEF IInv, TypeOK
    <2>2. ASSUME NEW x \in Calls, pc'[x] = "superseded"
          PROVE  \E d \in Calls : path[d] = path[x] /\ number'[d] > number'[x]
                                  /\ pc'[d] \notin {"deleting", "checking"}
      BY <1>5, <2>1, <2>2 DEF IInv, Queueing, HandlesAreServed
    <2> QED BY <1>1, <1>5, <2>2 DEF IInv, Queueing, HandlesAreServed
  <1>10. Fulls' BY <1>1 DEF IInv, Fulls, FullWaits, OpsWaitForFull, Past
  <1>11. Reach' BY <1>1 DEF IInv, Reach, RunsReachable, ChildrenReachable
  <1>12. Effects' BY <1>1 DEF IInv, Effects, MemoTells, BuildTakesEffect, WantOf
  <1>13. LatestIsLast'
    <2> SUFFICES ASSUME NEW p \in Subpaths, latest'[p] # NoCall
                 PROVE  /\ path[latest'[p]] = p /\ pc'[latest'[p]] # "idle"
                        /\ \A d \in Calls : path[d] = p => number'[d] <= number'[latest'[p]]
                        /\ pc'[latest'[p]] = "executed" =>
                             ~Past /\ entry[p].queued = NoCall /\ run[p].by = NoCall
      BY <1>1 DEF LatestIsLast, Past
    <2>1. CASE p = path[c]
      <3>1. latest'[p] = c BY <1>1, <2>1 DEF IInv, TypeOK
      <3> QED BY <1>2, <1>5, <2>1, <3>1 DEF IInv, TypeOK
    <2>2. CASE p # path[c]
      <3>1. latest'[p] = latest[p] /\ latest[p] \in Calls BY <1>1, <2>2 DEF IInv, TypeOK
      <3>2. path[latest[p]] = p /\ latest[p] # c BY <2>2, <3>1 DEF IInv, Latest, LatestIsLast
      <3> QED BY <1>5, <2>2, <3>1, <3>2 DEF IInv, Latest, LatestIsLast
    <2> QED BY <2>1, <2>2
  <1>14. LatestUpdateTakesEffect'
    <2> SUFFICES ASSUME NEW p \in Subpaths, latest'[p] # NoCall, pc'[latest'[p]] = "executed",
                        want[latest'[p]] # Absent
                 PROVE  sink[p] = want[latest'[p]]
      BY <1>1 DEF LatestUpdateTakesEffect
    <2>1. p # path[c] BY <1>1, <1>5 DEF IInv, TypeOK
    <2>2. latest'[p] = latest[p] /\ latest[p] \in Calls BY <1>1, <2>1 DEF IInv, TypeOK
    <2>3. pc[latest[p]] = "executed" BY <1>5, <2>1, <2>2
    <2> QED BY <2>2, <2>3 DEF IInv, Latest, LatestUpdateTakesEffect
  <1> QED BY <1>6, <1>7, <1>8, <1>9, <1>10, <1>11, <1>12, <1>13, <1>14 DEF IInv, Queueing, Latest

\* A call that was deleting its row goes on, or is dropped.
LEMMA Deleted ==
  ASSUME IInv, NEW c \in Calls, pc[c] = "deleting", NEW to \in {"checking", "cancelled"},
         pc' = [pc EXCEPT ![c] = to],
         UNCHANGED <<path, want, number, entry, full, run, memo, sink, cancelled, latest>>
  PROVE  pc' \in [Calls -> PCs] /\ Queueing' /\ Fulls' /\ Effects' /\ Latest'
  <1>1. /\ pc' \in [Calls -> PCs]
        /\ \A d \in Calls : pc'[d] = IF d = c THEN to ELSE pc[d]
    BY DEF IInv, TypeOK, PCs, Outcomes
  <1>2. Invoked' = Invoked BY <1>1 DEF Invoked
  <1>3. Numbered'
    <2>1. \A a \in Calls : /\ pc'[a] = "idle" <=> pc[a] = "idle"
                           /\ pc'[a] \in {"deleting", "checking"} => pc[a] \in {"deleting", "checking"}
      BY <1>1
    <2> QED BY <1>2, <2>1 DEF IInv, Queueing, Numbered
  <1>4. Placed' BY <1>1 DEF IInv, TypeOK, Queueing, Placed
  <1>5. HandlesAreServed'
    <2>1. ASSUME NEW x \in Calls, pc'[x] = "superseded"
          PROVE  \E d \in Calls : path[d] = path[x] /\ number[d] > number[x]
                                  /\ pc'[d] \notin {"deleting", "checking"}
      <3>1. PICK d \in Calls : path[d] = path[x] /\ number[d] > number[x]
                               /\ pc[d] \notin {"deleting", "checking"}
        BY <1>1, <2>1 DEF IInv, Queueing, HandlesAreServed
      <3> QED BY <1>1, <3>1
    <2> QED BY <1>1, <2>1 DEF IInv, Queueing, HandlesAreServed
  <1>6. Fulls' BY DEF full, IInv, Fulls, FullWaits, OpsWaitForFull, Past
  <1>7. Effects' BY DEF full, IInv, Effects, MemoTells, BuildTakesEffect, WantOf
  <1>8. LatestIsLast' /\ LatestUpdateTakesEffect'
    <2>1. \A p \in Subpaths : latest[p] # NoCall => latest[p] \in Calls BY DEF IInv, TypeOK
    <2>2. \A d \in Calls : /\ pc'[d] = "executed" <=> pc[d] = "executed"
                           /\ pc'[d] = "idle" <=> pc[d] = "idle"
      BY <1>1
    <2>3. fullPc' = fullPc BY DEF full
    <2> QED BY <2>1, <2>2, <2>3 DEF IInv, Latest, LatestIsLast, LatestUpdateTakesEffect, Past
  <1> QED BY <1>1, <1>3, <1>4, <1>5, <1>6, <1>7, <1>8 DEF Queueing, Latest

LEMMA RemoveChildInv == ASSUME IInv, NEW c \in Calls, RemoveChild(c) PROVE IInv'
  <1> DEFINE to == IF cancelled THEN "cancelled" ELSE "checking"
  <1>1. pc[c] = "deleting" /\ pc' = [pc EXCEPT ![c] = to] /\ to \in {"checking", "cancelled"}
    BY DEF RemoveChild, CheckToken
  <1>2. pc' \in [Calls -> PCs] /\ Queueing' /\ Fulls' /\ Effects' /\ Latest'
    BY <1>1, Deleted DEF RemoveChild
  <1>3. TypeOK' BY <1>2 DEF RemoveChild, full, IInv, TypeOK
  <1>4. Reach' BY DEF RemoveChild, IInv, TypeOK, Reach, RunsReachable, ChildrenReachable
  <1> QED BY <1>2, <1>3, <1>4 DEF IInv

LEMMA DropCallInv == ASSUME IInv, NEW c \in Calls, DropCall(c) PROVE IInv'
  <1>1. pc' \in [Calls -> PCs] /\ Queueing' /\ Fulls' /\ Effects' /\ Latest'
    BY Deleted DEF DropCall, children
  <1>2. TypeOK' BY <1>1 DEF DropCall, full, children, IInv, TypeOK
  <1>3. Reach' BY DEF DropCall, children, IInv, Reach, RunsReachable, ChildrenReachable
  <1> QED BY <1>1, <1>2, <1>3 DEF IInv

LEMMA DispatchInv == ASSUME IInv, NEW c \in Calls, Dispatch(c) PROVE IInv'
  <1> DEFINE p == path[c]
             q == entry[p].queued
  <1>1. /\ pc[c] = "checking" /\ p \in Subpaths
        /\ entry' = [entry EXCEPT ![p] = [@ EXCEPT !.alive = TRUE, !.queued = c]]
        /\ pc' = [d \in Calls |-> CASE d = c -> "queued" [] d = q -> "superseded" [] OTHER -> pc[d]]
        /\ UNCHANGED <<path, want, number, fullPc, active, mounted, run, exists, tombstones,
                       memo, sink, cancelled, latest, raced, fulls, faults>>
    BY DEF Dispatch, full, children, IInv, TypeOK
  <1>2. q # NoCall => q \in Calls /\ pc[q] = "queued" /\ path[q] = p
    BY <1>1 DEF IInv, TypeOK, Queueing, Placed
  <1>3. \A d \in Calls : pc'[d] = IF d = c THEN "queued" ELSE IF d = q THEN "superseded" ELSE pc[d]
    <2>1. q # c BY <1>1, <1>2, LiveAssumption
    <2> HIDE DEF q
    <2> QED BY <1>1, <2>1
  <1>4. /\ entry' \in [Subpaths -> [alive : BOOLEAN, queued : Calls \cup {NoCall}, processing : BOOLEAN]]
        /\ entry'[p].alive /\ entry'[p].queued = c /\ entry'[p].processing = entry[p].processing
        /\ \A x \in Subpaths \ {p} : entry'[x] = entry[x]
    BY <1>1 DEF IInv, TypeOK
  <1>5. pc' \in [Calls -> PCs]
    <2> HIDE DEF q
    <2>1. pc' = [d \in Calls |-> pc'[d]] BY <1>1
    <2>2. \A d \in Calls : pc'[d] \in PCs BY <1>3 DEF IInv, TypeOK, PCs, Outcomes
    <2> QED BY <2>1, <2>2
  <1>6. TypeOK' BY <1>1, <1>4, <1>5 DEF IInv, TypeOK
  <1>7. \A d \in Calls : path[d] = p /\ d # c => number[d] < number[c]
    BY <1>1 DEF IInv, Queueing, Numbered
  <1>8. Numbered'
    <2>1. \A a \in Calls : /\ pc'[a] = "idle" <=> pc[a] = "idle"
                           /\ pc'[a] \in {"deleting", "checking"} => pc[a] \in {"deleting", "checking"}
      BY <1>1, <1>2, <1>3, LiveAssumption
    <2>2. Invoked' = Invoked BY <2>1 DEF Invoked
    <2> QED BY <1>1, <2>1, <2>2 DEF IInv, Queueing, Numbered
  <1>9. Placed'
    <2> SUFFICES ASSUME NEW x \in Subpaths
                 PROVE  /\ entry'[x].queued # NoCall =>
                             pc'[entry'[x].queued] = "queued" /\ path[entry'[x].queued] = x
                        /\ run[x].by # NoCall => pc'[run[x].by] = "running" /\ path[run[x].by] = x
                        /\ entry'[x].queued # NoCall /\ run[x].by # NoCall =>
                             number[run[x].by] < number[entry'[x].queued]
                        /\ entry'[x].processing <=> run[x].by # NoCall
                        /\ entry'[x].processing => entry'[x].alive
      BY <1>1 DEF Placed
    <2>1. run[x].by # NoCall =>
            /\ run[x].by \in Calls /\ pc[run[x].by] = "running" /\ path[run[x].by] = x
            /\ run[x].by # c /\ run[x].by # q
      BY <1>1, <1>2 DEF IInv, TypeOK, Queueing, Placed
    <2>2. CASE x = p BY <1>3, <1>4, <1>7, <2>1, <2>2 DEF IInv, Queueing, Placed
    <2>3. CASE x # p
      <3>1. entry'[x] = entry[x] BY <1>4, <2>3
      <3>2. entry[x].queued # NoCall =>
              /\ entry[x].queued \in Calls /\ pc[entry[x].queued] = "queued" /\ path[entry[x].queued] = x
              /\ entry[x].queued # c /\ entry[x].queued # q
        BY <1>1, <1>2, <2>3 DEF IInv, TypeOK, Queueing, Placed
      <3> QED BY <1>3, <2>1, <3>1, <3>2 DEF IInv, Queueing, Placed
    <2> QED BY <2>2, <2>3
  <1>10. HandlesAreServed'
    <2> SUFFICES ASSUME NEW x \in Calls
                 PROVE  /\ pc'[x] = "queued" => entry'[path[x]].alive /\ entry'[path[x]].queued = x
                        /\ pc'[x] = "running" => entry'[path[x]].processing /\ run[path[x]].by = x
                        /\ pc'[x] = "superseded" =>
                             \E d \in Calls : path[d] = path[x] /\ number[d] > number[x]
                                              /\ pc'[d] \notin {"deleting", "checking"}
      BY <1>1 DEF HandlesAreServed
    <2>1. path[x] \in Subpaths BY DEF IInv, TypeOK
    <2>2. pc'[x] = "queued" => entry'[path[x]].alive /\ entry'[path[x]].queued = x
      BY <1>3, <1>4, <2>1 DEF IInv, Queueing, HandlesAreServed
    <2>3. pc'[x] = "running" => entry'[path[x]].processing /\ run[path[x]].by = x
      BY <1>3, <1>4, <2>1 DEF IInv, Queueing, HandlesAreServed
    <2>4. ASSUME pc'[x] = "superseded"
          PROVE  \E d \in Calls : path[d] = path[x] /\ number[d] > number[x]
                                  /\ pc'[d] \notin {"deleting", "checking"}
      <3>1. CASE x = q
        <4>1. x # c /\ path[x] = p BY <1>1, <1>2, <3>1, LiveAssumption
        <4>2. number[c] > number[x] BY <1>7, <4>1 DEF IInv, TypeOK
        <4> QED BY <1>3, <4>1, <4>2
      <3>2. CASE x # q
        <4>1. pc[x] = "superseded" BY <1>3, <2>4, <3>2
        <4>2. PICK d \in Calls : path[d] = path[x] /\ number[d] > number[x]
                                 /\ pc[d] \notin {"deleting", "checking"}
          BY <4>1 DEF IInv, Queueing, HandlesAreServed
        <4> QED BY <1>3, <4>2
      <3> QED BY <3>1, <3>2
    <2> QED BY <2>2, <2>3, <2>4
  <1>11. Fulls' BY <1>1, <1>4 DEF IInv, Fulls, FullWaits, OpsWaitForFull, Past
  <1>12. Reach' BY <1>1 DEF IInv, Reach, RunsReachable, ChildrenReachable
  <1>13. Effects' BY <1>1 DEF IInv, Effects, MemoTells, BuildTakesEffect, WantOf
  <1>14. \A d \in Calls : /\ pc'[d] = "executed" <=> pc[d] = "executed"
                          /\ pc'[d] = "idle" <=> pc[d] = "idle"
    BY <1>1, <1>2, <1>3, LiveAssumption
  <1>15. \A x \in Subpaths : latest[x] # NoCall => latest[x] \in Calls BY DEF IInv, TypeOK
  <1>16. LatestIsLast'
    <2>1. latest[p] # NoCall => pc[latest[p]] # "executed"
      <3>1. SUFFICES ASSUME latest[p] # NoCall, pc[latest[p]] = "executed" PROVE FALSE OBVIOUS
      <3>2. path[latest[p]] = p /\ latest[p] # c /\ number[c] <= number[latest[p]]
        BY <1>1, <3>1 DEF IInv, Latest, LatestIsLast
      <3> QED BY <1>7, <1>15, <3>1, <3>2 DEF IInv, TypeOK
    <2> QED BY <1>1, <1>4, <1>14, <1>15, <2>1 DEF IInv, Latest, LatestIsLast, Past
  <1>17. LatestUpdateTakesEffect'
    BY <1>1, <1>14, <1>15 DEF IInv, Latest, LatestUpdateTakesEffect
  <1> QED BY <1>6, <1>8, <1>9, <1>10, <1>11, <1>12, <1>13, <1>16, <1>17 DEF IInv, Queueing, Latest

-----------------------------------------------------------------------------
(* Drain tasks. *)

\* What a drain task does to a call leaves the numbers, and what others hold.
LEMMA DrainMoves ==
  ASSUME IInv, NEW p \in Subpaths, NEW c \in Calls, pc[c] \in {"queued", "running"}, path[c] = p,
         NEW to \in {"running", "executed", "failed", "swallowed", "cancelled"},
         pc' = [pc EXCEPT ![c] = to],
         entry' \in [Subpaths -> [alive : BOOLEAN, queued : Calls \cup {NoCall}, processing : BOOLEAN]],
         run' \in [Subpaths -> [pc : RunPCs, by : Calls \cup {NoCall}]],
         \A x \in Subpaths \ {p} : entry'[x] = entry[x] /\ run'[x] = run[x],
         entry'[p].processing => entry'[p].alive, entry'[p].processing <=> run'[p].by # NoCall,
         run'[p].by = IF to = "running" THEN c ELSE NoCall,
         pc[c] = "queued" => entry'[p].queued = NoCall /\ ~entry[p].processing,
         pc[c] = "running" => /\ to # "running" /\ entry'[p].queued = entry[p].queued
                              /\ entry'[p].queued # NoCall => entry'[p].alive,
         UNCHANGED <<path, want, number, full, exists, tombstones, memo, sink,
                     cancelled, latest, raced, fulls, faults>>
  PROVE  TypeOK' /\ Queueing'
  <1>1. /\ pc' \in [Calls -> PCs]
        /\ \A d \in Calls : pc'[d] = IF d = c THEN to ELSE pc[d]
    BY DEF IInv, TypeOK, PCs, Outcomes
  <1>2. \A x \in Subpaths \ {p} : entry'[x] = entry[x] OBVIOUS
  <1>3. \A x \in Subpaths \ {p} : run'[x] = run[x] OBVIOUS
  <1>4. TypeOK' BY <1>1 DEF full, IInv, TypeOK
  <1>5. Numbered'
    <2>1. \A a \in Calls : /\ pc'[a] = "idle" <=> pc[a] = "idle"
                           /\ pc'[a] \in {"deleting", "checking"} => pc[a] \in {"deleting", "checking"}
      BY <1>1
    <2>2. Invoked' = Invoked BY <2>1 DEF Invoked
    <2> QED BY <2>1, <2>2 DEF IInv, Queueing, Numbered
  <1>6. Placed'
    <2> SUFFICES ASSUME NEW x \in Subpaths
                 PROVE  /\ entry'[x].queued # NoCall =>
                             pc'[entry'[x].queued] = "queued" /\ path[entry'[x].queued] = x
                        /\ run'[x].by # NoCall => pc'[run'[x].by] = "running" /\ path[run'[x].by] = x
                        /\ entry'[x].queued # NoCall /\ run'[x].by # NoCall =>
                             number[run'[x].by] < number[entry'[x].queued]
                        /\ entry'[x].processing <=> run'[x].by # NoCall
                        /\ entry'[x].processing => entry'[x].alive
      BY DEF Placed
    <2>1. CASE x = p
      <3>1. entry'[p].queued # NoCall =>
              /\ pc[c] = "running" /\ entry'[p].queued = entry[p].queued /\ entry[p].queued \in Calls
              /\ pc[entry[p].queued] = "queued" /\ path[entry[p].queued] = p
        BY DEF IInv, TypeOK, Queueing, Placed
      <3> QED BY <1>1, <1>2, <1>3, <2>1, <3>1
    <2>2. CASE x # p
      <3>1. entry'[x] = entry[x] /\ run'[x] = run[x] BY <1>2, <1>3, <2>2
      <3>2. /\ entry[x].queued # NoCall => entry[x].queued \in Calls /\ entry[x].queued # c
            /\ run[x].by # NoCall => run[x].by \in Calls /\ run[x].by # c
        BY <2>2 DEF IInv, TypeOK, Queueing, Placed
      <3> QED BY <1>1, <3>1, <3>2 DEF IInv, Queueing, Placed
    <2> QED BY <2>1, <2>2
  <1>7. HandlesAreServed'
    <2> SUFFICES ASSUME NEW x \in Calls
                 PROVE  /\ pc'[x] = "queued" => entry'[path[x]].alive /\ entry'[path[x]].queued = x
                        /\ pc'[x] = "running" => entry'[path[x]].processing /\ run'[path[x]].by = x
                        /\ pc'[x] = "superseded" =>
                             \E d \in Calls : path[d] = path[x] /\ number[d] > number[x]
                                              /\ pc'[d] \notin {"deleting", "checking"}
      BY DEF HandlesAreServed
    <2>1. path[x] \in Subpaths BY DEF IInv, TypeOK
    <2>2. pc'[x] = "queued" => entry'[path[x]].alive /\ entry'[path[x]].queued = x
      <3> HAVE pc'[x] = "queued"
      <3>1. x # c /\ pc[x] = "queued" /\ entry[path[x]].alive /\ entry[path[x]].queued = x
        BY <1>1 DEF IInv, Queueing, HandlesAreServed
      <3>2. pc[c] = "queued" => entry[p].queued = c BY DEF IInv, Queueing, HandlesAreServed
      <3>3. x # NoCall BY LiveAssumption
      <3> QED BY <1>2, <2>1, <3>1, <3>2, <3>3
    <2>3. pc'[x] = "running" => entry'[path[x]].processing /\ run'[path[x]].by = x
      <3> HAVE pc'[x] = "running"
      <3>1. CASE x = c BY <1>1, <1>2, <1>3, <3>1, LiveAssumption
      <3>2. CASE x # c
        <4>1. entry[path[x]].processing /\ run[path[x]].by = x
          BY <1>1, <3>2 DEF IInv, Queueing, HandlesAreServed
        <4>2. path[x] # p BY <3>2, <4>1 DEF IInv, Queueing, HandlesAreServed
        <4> QED BY <1>2, <1>3, <2>1, <4>1, <4>2
      <3> QED BY <3>1, <3>2
    <2>4. ASSUME pc'[x] = "superseded"
          PROVE  \E d \in Calls : path[d] = path[x] /\ number[d] > number[x]
                                  /\ pc'[d] \notin {"deleting", "checking"}
      <3>1. PICK d \in Calls : path[d] = path[x] /\ number[d] > number[x]
                               /\ pc[d] \notin {"deleting", "checking"}
        BY <1>1, <2>4 DEF IInv, Queueing, HandlesAreServed
      <3> QED BY <1>1, <3>1
    <2> QED BY <2>2, <2>3, <2>4
  <1> QED BY <1>4, <1>5, <1>6, <1>7 DEF Queueing

LEMMA DrainCancelledInv == ASSUME IInv, NEW p \in Subpaths, DrainCancelled(p) PROVE IInv'
  <1> DEFINE c == entry[p].queued
  <1>1. /\ entry[p].alive /\ ~entry[p].processing /\ run[p].by = NoCall
        /\ entry' = [entry EXCEPT ![p] = NoEntry]
        /\ pc' = [d \in Calls |-> IF d = c THEN "cancelled" ELSE pc[d]]
        /\ UNCHANGED <<path, want, number, full, run, exists, tombstones, memo, sink, cancelled,
                       latest, raced, fulls, faults>>
    BY DEF DrainCancelled, Waiting, children, IInv, Queueing, Placed
  <1>2. UNCHANGED <<fullPc, active, mounted>> BY <1>1 DEF full
  <1>3. c # NoCall => c \in Calls /\ pc[c] = "queued" /\ path[c] = p
    BY DEF IInv, TypeOK, Queueing, Placed
  <1>4. \A x \in Subpaths : entry'[x] = IF x = p THEN NoEntry ELSE entry[x]
    BY <1>1 DEF IInv, TypeOK
  <1>5. TypeOK' /\ Queueing'
    <2>1. CASE c = NoCall
      <3>1. pc' = pc BY <1>1, <2>1, LiveAssumption DEF IInv, TypeOK
      <3>2. entry' \in [Subpaths -> [alive : BOOLEAN, queued : Calls \cup {NoCall}, processing : BOOLEAN]]
        BY <1>1 DEF IInv, TypeOK, NoEntry
      <3>3. TypeOK' BY <1>1, <1>2, <3>1, <3>2 DEF IInv, TypeOK
      <3>4. Numbered'
        <4>1. Invoked' = Invoked BY <3>1 DEF Invoked
        <4> QED BY <1>1, <3>1, <4>1 DEF IInv, Queueing, Numbered
      <3>5. Placed' BY <1>1, <1>4, <3>1 DEF IInv, Queueing, Placed, NoEntry
      <3>6. HandlesAreServed'
        BY <1>1, <1>4, <2>1, <3>1, LiveAssumption DEF IInv, TypeOK, Queueing, HandlesAreServed
      <3> QED BY <3>3, <3>4, <3>5, <3>6 DEF Queueing
    <2>2. CASE c # NoCall
      <3>1. /\ c \in Calls /\ pc[c] = "queued" /\ path[c] = p
            /\ pc' = [pc EXCEPT ![c] = "cancelled"]
        BY <1>1, <1>3, <2>2 DEF IInv, TypeOK
      <3>2. /\ entry' \in [Subpaths -> [alive : BOOLEAN, queued : Calls \cup {NoCall}, processing : BOOLEAN]]
            /\ entry'[p].queued = NoCall /\ ~entry'[p].processing
        BY <1>1, <1>4 DEF IInv, TypeOK, NoEntry
      <3>3. /\ run' \in [Subpaths -> [pc : RunPCs, by : Calls \cup {NoCall}]]
            /\ \A x \in Subpaths \ {p} : entry'[x] = entry[x] /\ run'[x] = run[x]
            /\ run'[p].by = NoCall
        BY <1>1, <1>4 DEF IInv, TypeOK
      <3> HIDE DEF c
      <3>4. entry'[p].processing <=> run'[p].by # NoCall BY <3>2, <3>3
      <3>5. entry'[p].processing => entry'[p].alive BY <3>2
      <3>6. /\ c \in Calls /\ pc[c] \in {"queued", "running"} /\ path[c] = p
            /\ pc[c] = "queued" => entry'[p].queued = NoCall /\ ~entry[p].processing
            /\ pc[c] # "running"
        BY <1>1, <3>1, <3>2
      <3>7. UNCHANGED <<path, want, number, full, exists, tombstones, memo, sink,
                        cancelled, latest, raced, fulls, faults>>
        BY <1>1
      <3>8. PICK to \in {"running", "executed", "failed", "swallowed", "cancelled"} : to = "cancelled"
        OBVIOUS
      <3>9. /\ pc' = [pc EXCEPT ![c] = to]
            /\ run'[p].by = IF to = "running" THEN c ELSE NoCall
        BY <3>1, <3>3, <3>8
      <3>10. /\ entry' \in [Subpaths -> [alive : BOOLEAN, queued : Calls \cup {NoCall}, processing : BOOLEAN]]
             /\ run' \in [Subpaths -> [pc : RunPCs, by : Calls \cup {NoCall}]]
             /\ \A x \in Subpaths \ {p} : entry'[x] = entry[x] /\ run'[x] = run[x]
        BY <3>2, <3>3
      <3> QED BY <3>4, <3>5, <3>6, <3>7, <3>9, <3>10, DrainMoves
    <2> QED BY <2>1, <2>2
  <1>6. Fulls'
    BY <1>1, <1>2, <1>4 DEF NoEntry, IInv, Fulls, FullWaits, OpsWaitForFull, Past
  <1>7. Reach' BY <1>1 DEF IInv, Reach, RunsReachable, ChildrenReachable
  <1>8. Effects' BY <1>1, <1>2 DEF IInv, Effects, MemoTells, BuildTakesEffect, WantOf
  <1>9. \A d \in Calls : /\ pc'[d] = "executed" => pc[d] = "executed"
                         /\ pc'[d] = "idle" <=> pc[d] = "idle"
    BY <1>1, <1>3, LiveAssumption
  <1>10. \A x \in Subpaths : latest[x] # NoCall => latest[x] \in Calls BY DEF IInv, TypeOK
  <1>11. LatestIsLast'
    BY <1>1, <1>2, <1>4, <1>9, <1>10 DEF NoEntry, IInv, Latest, LatestIsLast, Past
  <1>12. LatestUpdateTakesEffect'
    BY <1>1, <1>9, <1>10 DEF IInv, Latest, LatestUpdateTakesEffect
  <1> QED BY <1>5, <1>6, <1>7, <1>8, <1>11, <1>12 DEF IInv, Latest

LEMMA DrainTakesInv == ASSUME IInv, NEW p \in Subpaths, DrainTakes(p) PROVE IInv'
  <1> DEFINE c == entry[p].queued
             e == [alive |-> TRUE, queued |-> NoCall, processing |-> TRUE]
             r == Run(IF want[c] = Absent THEN "delete" ELSE "check", c)
  <1>1. /\ entry[p].alive /\ ~entry[p].processing /\ run[p].by = NoCall
        /\ ~cancelled /\ ~active /\ c # NoCall
        /\ c \in Calls /\ pc[c] = "queued" /\ path[c] = p
        /\ entry' = [entry EXCEPT ![p] = e]
        /\ pc' = [pc EXCEPT ![c] = "running"]
        /\ run' = [run EXCEPT ![p] = r]
        /\ UNCHANGED <<path, want, number, full, exists, tombstones, memo, sink, cancelled,
                       latest, raced, fulls, faults>>
    BY DEF DrainTakes, Waiting, IInv, TypeOK, Queueing, Placed
  <1>2. UNCHANGED <<fullPc, active, mounted>> BY <1>1 DEF full
  <1>3. /\ r.by = c /\ r.pc = IF want[c] = Absent THEN "delete" ELSE "check"
        /\ r \in [pc : RunPCs, by : Calls \cup {NoCall}]
    BY <1>1 DEF Run, RunPCs
  <1>4. TypeOK' /\ Queueing'
    <2>1. /\ entry' \in [Subpaths -> [alive : BOOLEAN, queued : Calls \cup {NoCall}, processing : BOOLEAN]]
          /\ entry'[p].queued = NoCall /\ entry'[p].processing /\ entry'[p].alive
      BY <1>1 DEF IInv, TypeOK
    <2> HIDE DEF r, c, e
    <2>2. /\ run' \in [Subpaths -> [pc : RunPCs, by : Calls \cup {NoCall}]] /\ run'[p].by = c
          /\ \A x \in Subpaths \ {p} : entry'[x] = entry[x] /\ run'[x] = run[x]
      BY <1>1, <1>3 DEF IInv, TypeOK
    <2> QED BY <1>1, <2>1, <2>2, DrainMoves
  <1>5. /\ \A x \in Subpaths : run'[x] = IF x = p THEN r ELSE run[x]
        /\ \A x \in Subpaths \ {p} : entry'[x] = entry[x]
        /\ \A d \in Calls : pc'[d] = IF d = c THEN "running" ELSE pc[d]
    BY <1>1 DEF IInv, TypeOK
  <1>6. ~Past BY <1>1 DEF IInv, Fulls, FullWaits
  <1> HIDE DEF r, c
  <1>7. Fulls' BY <1>1, <1>2, <1>3, <1>5, <1>6 DEF IInv, Fulls, FullWaits, OpsWaitForFull, Past
  <1>8. Reach' BY <1>1, <1>3, <1>5 DEF IInv, Reach, RunsReachable, ChildrenReachable
  <1>9. Effects' BY <1>1, <1>2, <1>3, <1>5 DEF IInv, Effects, MemoTells, BuildTakesEffect, WantOf
  <1>10. \A x \in Subpaths : latest[x] # NoCall => latest[x] \in Calls BY DEF IInv, TypeOK
  <1>11. latest[p] # NoCall => pc[latest[p]] # "executed" BY <1>1 DEF c, IInv, Latest, LatestIsLast
  <1>12. LatestIsLast'
    BY <1>1, <1>2, <1>5, <1>10, <1>11 DEF IInv, Latest, LatestIsLast, Past
  <1>13. LatestUpdateTakesEffect'
    BY <1>1, <1>5, <1>10 DEF IInv, Latest, LatestUpdateTakesEffect
  <1> QED BY <1>4, <1>7, <1>8, <1>9, <1>12, <1>13 DEF IInv, Latest

LEMMA DrainExitsInv == ASSUME IInv, NEW p \in Subpaths, DrainExits(p) PROVE IInv'
  <1>1. /\ entry[p].alive /\ ~entry[p].processing /\ run[p].by = NoCall /\ entry[p].queued = NoCall
        /\ entry' = [entry EXCEPT ![p] = NoEntry]
        /\ UNCHANGED <<pc, path, want, number, fullPc, active, mounted, run, exists, tombstones,
                       memo, sink, cancelled, latest, raced, fulls, faults>>
    BY DEF DrainExits, Waiting, calls, full, children, IInv, Queueing, Placed
  <1>2. \A x \in Subpaths : entry'[x] = IF x = p THEN NoEntry ELSE entry[x]
    BY <1>1 DEF IInv, TypeOK
  <1>3. TypeOK' BY <1>1 DEF IInv, TypeOK, NoEntry
  <1>4. Numbered'
    <2>1. Invoked' = Invoked BY <1>1 DEF Invoked
    <2> QED BY <1>1, <2>1 DEF IInv, Queueing, Numbered
  <1>5. Placed' BY <1>1, <1>2 DEF IInv, Queueing, Placed, NoEntry
  <1>6. HandlesAreServed'
    BY <1>1, <1>2, LiveAssumption DEF IInv, TypeOK, Queueing, HandlesAreServed
  <1>7. Fulls' BY <1>1, <1>2 DEF NoEntry, IInv, Fulls, FullWaits, OpsWaitForFull, Past
  <1>8. Reach' BY <1>1 DEF IInv, Reach, RunsReachable, ChildrenReachable
  <1>9. Effects' BY <1>1 DEF IInv, Effects, MemoTells, BuildTakesEffect, WantOf
  <1>10. Latest'
    BY <1>1, <1>2 DEF NoEntry, IInv, Latest, LatestIsLast, LatestUpdateTakesEffect, Past
  <1> QED BY <1>3, <1>4, <1>5, <1>6, <1>7, <1>8, <1>9, <1>10 DEF IInv, Queueing

LEMMA DrainReportsInv == ASSUME IInv, NEW p \in Subpaths, DrainReports(p) PROVE IInv'
  <1> DEFINE c == run[p].by
             e == [entry[p] EXCEPT !.processing = FALSE]
  <1>0. PICK to \in {"executed", "failed", "swallowed", "cancelled"} :
          /\ pc' = [pc EXCEPT ![c] = to]
          /\ to = "executed" => run[p].pc = "ok"
    BY DEF DrainReports
  <1>1. /\ run[p].pc \in {"ok", "error"} /\ c # NoCall /\ c \in Calls
        /\ pc[c] = "running" /\ path[c] = p
        /\ entry' = [entry EXCEPT ![p] = e]
        /\ run' = [run EXCEPT ![p] = NoRun]
        /\ UNCHANGED <<path, want, number, full, exists, tombstones, memo, sink, cancelled,
                       latest, raced, fulls, faults>>
    BY DEF DrainReports, IInv, TypeOK, Queueing, Placed
  <1>2. UNCHANGED <<fullPc, active, mounted>> BY <1>1 DEF full
  <1>4. NoRun.pc = "none" /\ NoRun.by = NoCall /\ NoRun \in [pc : RunPCs, by : Calls \cup {NoCall}]
    BY DEF NoRun, Run, RunPCs
  <1>5. /\ e \in [alive : BOOLEAN, queued : {NoCall, entry[p].queued}, processing : BOOLEAN]
        /\ e.queued = entry[p].queued /\ ~e.processing /\ e.alive = entry[p].alive
    BY DEF IInv, TypeOK
  <1>6. entry[p].queued # NoCall =>
          /\ entry[p].queued \in Calls /\ path[entry[p].queued] = p /\ entry[p].alive
          /\ number[c] < number[entry[p].queued]
    BY <1>1 DEF IInv, TypeOK, Queueing, Placed, HandlesAreServed
  <1>7. ~Past BY <1>1 DEF IInv, Fulls, OpsWaitForFull, Past
  <1>8. want[c] # Absent /\ run[p].pc = "ok" => sink[p] = want[c]
    BY <1>1 DEF IInv, Effects, BuildTakesEffect
  <1> HIDE DEF c, e
  <1>9. /\ \A x \in Subpaths : run'[x] = IF x = p THEN NoRun ELSE run[x]
        /\ \A x \in Subpaths : entry'[x] = IF x = p THEN e ELSE entry[x]
        /\ pc'[c] = to /\ \A d \in Calls \ {c} : pc'[d] = pc[d]
    <2>1. pc \in [Calls -> PCs] /\ run \in [Subpaths -> [pc : RunPCs, by : Calls \cup {NoCall}]]
      BY DEF IInv, TypeOK
    <2>2. DOMAIN entry = Subpaths BY DEF IInv, TypeOK
    <2>3. \A x \in Subpaths : run'[x] = IF x = p THEN NoRun ELSE run[x] BY <1>1, <2>1
    <2>4. \A x \in Subpaths : entry'[x] = IF x = p THEN e ELSE entry[x] BY <1>1, <2>2
    <2>5. pc'[c] = to /\ \A d \in Calls \ {c} : pc'[d] = pc[d] BY <1>0, <1>1, <2>1
    <2> QED BY <2>3, <2>4, <2>5
  <1>10. TypeOK' /\ Queueing'
    <2>1. /\ entry' \in [Subpaths -> [alive : BOOLEAN, queued : Calls \cup {NoCall}, processing : BOOLEAN]]
          /\ run' \in [Subpaths -> [pc : RunPCs, by : Calls \cup {NoCall}]]
          /\ entry'[p] = e /\ run'[p] = NoRun
          /\ \A x \in Subpaths \ {p} : entry'[x] = entry[x] /\ run'[x] = run[x]
      BY <1>1, <1>4, <1>5, <1>9 DEF IInv, TypeOK
    <2>2. /\ entry'[p].processing <=> run'[p].by # NoCall
          /\ entry'[p].processing => entry'[p].alive
      BY <1>4, <1>5, <2>1
    <2>3. pc[c] # "queued" /\ to # "running" /\ run'[p].by = NoCall BY <1>1, <1>0, <1>4, <2>1
    <2>4. /\ entry'[p].queued = entry[p].queued
          /\ entry'[p].queued # NoCall => entry'[p].alive
      BY <1>5, <1>6, <2>1
    <2> QED BY <1>0, <1>1, <2>1, <2>2, <2>3, <2>4, DrainMoves
  <1>11. Fulls' BY <1>1, <1>2, <1>4, <1>7, <1>9 DEF IInv, Fulls, FullWaits, OpsWaitForFull, Past
  <1>12. Reach' BY <1>1, <1>4, <1>9 DEF IInv, Reach, RunsReachable, ChildrenReachable
  <1>13. Effects'
    BY <1>1, <1>2, <1>4, <1>9 DEF IInv, Effects, MemoTells, BuildTakesEffect, WantOf
  <1>14. \A x \in Subpaths : latest[x] # NoCall => latest[x] \in Calls /\ path[latest[x]] = x
    BY DEF IInv, TypeOK, Latest, LatestIsLast
  <1>15. latest[p] = c => entry[p].queued = NoCall
    <2>1. SUFFICES ASSUME latest[p] = c, entry[p].queued # NoCall PROVE FALSE OBVIOUS
    <2>2. number[entry[p].queued] <= number[c] BY <1>1, <1>6, <2>1 DEF IInv, Latest, LatestIsLast
    <2> QED BY <1>1, <1>6, <2>1, <2>2 DEF IInv, TypeOK
  <1>16. LatestIsLast'
    <2> SUFFICES ASSUME NEW x \in Subpaths, latest[x] # NoCall
                 PROVE  /\ path[latest[x]] = x /\ pc'[latest[x]] # "idle"
                        /\ \A d \in Calls : path[d] = x => number[d] <= number[latest[x]]
                        /\ pc'[latest[x]] = "executed" =>
                             ~Past /\ entry'[x].queued = NoCall /\ run'[x].by = NoCall
      BY <1>1, <1>2 DEF LatestIsLast, Past
    <2>1. CASE latest[x] = c
      <3>1. x = p BY <1>1, <1>14, <2>1
      <3> QED BY <1>1, <1>0, <1>4, <1>5, <1>7, <1>9, <1>15, <2>1, <3>1 DEF IInv, Latest, LatestIsLast
    <2>2. CASE latest[x] # c
      <3>1. pc'[latest[x]] = pc[latest[x]] BY <1>9, <1>14, <2>2
      <3> QED BY <1>4, <1>5, <1>9, <3>1 DEF IInv, Latest, LatestIsLast
    <2> QED BY <2>1, <2>2
  <1>17. LatestUpdateTakesEffect'
    <2> SUFFICES ASSUME NEW x \in Subpaths, latest[x] # NoCall, pc'[latest[x]] = "executed",
                        want[latest[x]] # Absent
                 PROVE  sink[x] = want[latest[x]]
      BY <1>1 DEF LatestUpdateTakesEffect
    <2>1. CASE latest[x] = c BY <1>1, <1>0, <1>8, <1>9, <1>14, <2>1
    <2>2. CASE latest[x] # c
      <3>1. pc[latest[x]] = "executed" BY <1>9, <1>14, <2>2
      <3> QED BY <3>1 DEF IInv, Latest, LatestUpdateTakesEffect
    <2> QED BY <2>1, <2>2
  <1> QED BY <1>10, <1>11, <1>12, <1>13, <1>16, <1>17 DEF IInv, Latest

-----------------------------------------------------------------------------
(* update_full. *)

\* Steps of update_full leave the calls and their entries, and runs that are for calls.
LEMMA FullMoves ==
  ASSUME IInv, UNCHANGED <<calls, entry>>, \A p \in Subpaths : run'[p].by = run[p].by
  PROVE  Queueing'
  <1>1. UNCHANGED <<pc, path, want, number, entry>> BY DEF calls
  <1>2. Numbered'
    <2>1. Invoked' = Invoked BY <1>1 DEF Invoked
    <2> QED BY <1>1, <2>1 DEF IInv, Queueing, Numbered
  <1>3. Placed' BY <1>1 DEF IInv, Queueing, Placed
  <1>4. HandlesAreServed' BY <1>1 DEF IInv, TypeOK, Queueing, HandlesAreServed
  <1> QED BY <1>2, <1>3, <1>4 DEF Queueing

LEMMA StartFullInv == ASSUME IInv, StartFull PROVE IInv'
  <1>1. /\ fullPc = "idle" /\ fullPc' = "quiesce" /\ active' = TRUE /\ fulls' = fulls + 1
        /\ UNCHANGED <<pc, path, want, number, entry, mounted, run, exists, tombstones, memo, sink,
                       cancelled, latest, raced, faults>>
    BY DEF StartFull, calls, children
  <1>2. TypeOK' BY <1>1 DEF IInv, TypeOK, FullPCs
  <1>3. Queueing' BY <1>1, FullMoves DEF calls
  <1>4. Fulls' BY <1>1 DEF IInv, Fulls, FullWaits, OpsWaitForFull, Past
  <1>5. Reach' BY <1>1 DEF IInv, Reach, RunsReachable, ChildrenReachable
  <1>6. Effects' BY <1>1 DEF IInv, Effects, MemoTells, BuildTakesEffect, WantOf
  <1>7. Latest' BY <1>1 DEF IInv, Latest, LatestIsLast, LatestUpdateTakesEffect, Past
  <1> QED BY <1>2, <1>3, <1>4, <1>5, <1>6, <1>7 DEF IInv

LEMMA ProcessFullInv == ASSUME IInv, ProcessFull PROVE IInv'
  <1>1. /\ fullPc = "quiesce" /\ fullPc' = "process" /\ mounted' \in [Subpaths -> States]
        /\ run' = [p \in Subpaths |-> IF mounted'[p] = Absent THEN NoRun ELSE Run("check", NoCall)]
        /\ latest' = [p \in Subpaths |->
                        IF latest[p] # NoCall /\ Decided(latest[p]) THEN NoCall ELSE latest[p]]
        /\ UNCHANGED <<pc, path, want, number, entry, active, exists, tombstones, memo, sink,
                       cancelled, raced, fulls, faults>>
    BY DEF ProcessFull, calls
  <1>2. \A p \in Subpaths : ~entry[p].processing /\ run[p].by = NoCall
    BY DEF ProcessFull, Quiescent, IInv, Queueing, Placed
  <1>3. /\ run' \in [Subpaths -> [pc : RunPCs, by : Calls \cup {NoCall}]]
        /\ \A p \in Subpaths : run'[p].by = NoCall /\ run'[p].pc \in {"none", "check"}
    <2>1. NoRun.by = NoCall /\ NoRun.pc = "none" /\ NoRun \in [pc : RunPCs, by : Calls \cup {NoCall}]
      BY DEF NoRun, Run, RunPCs
    <2>2. /\ Run("check", NoCall).by = NoCall /\ Run("check", NoCall).pc = "check"
          /\ Run("check", NoCall) \in [pc : RunPCs, by : Calls \cup {NoCall}]
      BY DEF Run, RunPCs
    <2> QED BY <1>1, <2>1, <2>2
  <1>4. latest' \in [Subpaths -> Calls \cup {NoCall}] BY <1>1 DEF IInv, TypeOK
  <1>5. TypeOK' BY <1>1, <1>3, <1>4 DEF IInv, TypeOK, FullPCs
  <1>6. Queueing' BY <1>1, <1>2, <1>3, FullMoves DEF calls
  <1>7. Fulls' BY <1>1, <1>2, <1>3 DEF IInv, Fulls, FullWaits, OpsWaitForFull, Past
  <1>8. Reach' BY <1>1, <1>3 DEF IInv, Reach, RunsReachable, ChildrenReachable
  <1>9. Effects' BY <1>1, <1>3 DEF IInv, Effects, MemoTells, BuildTakesEffect
  <1>10. \A p \in Subpaths : latest'[p] # NoCall => latest'[p] = latest[p] /\ pc[latest[p]] # "executed"
    BY <1>1 DEF Decided, Outcomes
  <1>11. LatestIsLast' BY <1>1, <1>10 DEF IInv, Latest, LatestIsLast
  <1>12. LatestUpdateTakesEffect' BY <1>1, <1>10 DEF LatestUpdateTakesEffect
  <1> QED BY <1>5, <1>6, <1>7, <1>8, <1>9, <1>11, <1>12 DEF IInv, Latest

LEMMA CommitFullInv == ASSUME IInv, CommitFull PROVE IInv'
  <1> DEFINE kept == {p \in Subpaths : mounted[p] # Absent}
  <1>1. /\ fullPc = "process" /\ fullPc' = "collect"
        /\ exists' = kept /\ tombstones' = tombstones \cup (exists \ kept)
        /\ run' = [p \in Subpaths |-> NoRun]
        /\ UNCHANGED <<pc, path, want, number, entry, active, mounted, memo, sink, cancelled,
                       latest, raced, fulls, faults>>
    BY DEF CommitFull, calls
  <1>2. \A p \in Subpaths : ~entry[p].processing /\ run[p].by = NoCall
    BY <1>1 DEF IInv, Fulls, OpsWaitForFull
  <1>3. /\ run' \in [Subpaths -> [pc : RunPCs, by : Calls \cup {NoCall}]]
        /\ \A p \in Subpaths : run'[p].by = NoCall /\ run'[p].pc = "none"
    BY <1>1 DEF NoRun, Run, RunPCs
  <1>4. TypeOK' BY <1>1, <1>3 DEF IInv, TypeOK, FullPCs
  <1>5. Queueing' BY <1>1, <1>2, <1>3, FullMoves DEF calls
  <1>6. Fulls' BY <1>1, <1>2, <1>3 DEF IInv, Fulls, FullWaits, OpsWaitForFull, Past
  <1>7. Reach' BY <1>1, <1>3 DEF IInv, Reach, RunsReachable, ChildrenReachable
  <1>8. Effects' BY <1>1, <1>3 DEF IInv, Effects, MemoTells, BuildTakesEffect
  <1>9. Latest' BY <1>1, <1>3 DEF IInv, Latest, LatestIsLast, LatestUpdateTakesEffect, Past
  <1> QED BY <1>4, <1>5, <1>6, <1>7, <1>8, <1>9 DEF IInv

LEMMA CollectFullInv == ASSUME IInv, CollectFull PROVE IInv'
  <1>1. /\ fullPc = "collect" /\ fullPc' = "await"
        /\ run' = [p \in Subpaths |-> IF p \in tombstones THEN Run("delete", NoCall) ELSE NoRun]
        /\ UNCHANGED <<pc, path, want, number, entry, active, mounted, exists, tombstones, memo,
                       sink, cancelled, latest, raced, fulls, faults>>
    BY DEF CollectFull, calls
  <1>2. \A p \in Subpaths : ~entry[p].processing /\ run[p].by = NoCall
    BY <1>1 DEF IInv, Fulls, OpsWaitForFull
  <1>3. /\ run' \in [Subpaths -> [pc : RunPCs, by : Calls \cup {NoCall}]]
        /\ \A p \in Subpaths : run'[p].by = NoCall /\ run'[p].pc \in {"none", "delete"}
    BY <1>1 DEF NoRun, Run, RunPCs
  <1>4. TypeOK' BY <1>1, <1>3 DEF IInv, TypeOK, FullPCs
  <1>5. Queueing' BY <1>1, <1>2, <1>3, FullMoves DEF calls
  <1>6. Fulls' BY <1>1, <1>2, <1>3 DEF IInv, Fulls, FullWaits, OpsWaitForFull, Past
  <1>7. Reach' BY <1>1, <1>3 DEF IInv, Reach, RunsReachable, ChildrenReachable
  <1>8. Effects' BY <1>1, <1>3 DEF IInv, Effects, MemoTells, BuildTakesEffect
  <1>9. Latest' BY <1>1, <1>3 DEF IInv, Latest, LatestIsLast, LatestUpdateTakesEffect, Past
  <1> QED BY <1>4, <1>5, <1>6, <1>7, <1>8, <1>9 DEF IInv

LEMMA EndFullInv == ASSUME IInv, FinishFull \/ FullFails PROVE IInv'
  <1>1. /\ Past /\ fullPc' = "idle" /\ active' = FALSE
        /\ mounted' = [p \in Subpaths |-> Absent] /\ run' = [p \in Subpaths |-> NoRun]
        /\ faults' \in Nat
        /\ UNCHANGED <<pc, path, want, number, entry, exists, tombstones, memo, sink, cancelled,
                       latest, raced, fulls>>
    BY DEF FinishFull, FullFails, EndFull, calls, Past, IInv, TypeOK
  <1>2. \A p \in Subpaths : ~entry[p].processing /\ run[p].by = NoCall
    BY <1>1 DEF Past, IInv, Fulls, OpsWaitForFull
  <1>3. /\ run' \in [Subpaths -> [pc : RunPCs, by : Calls \cup {NoCall}]]
        /\ \A p \in Subpaths : run'[p].by = NoCall /\ run'[p].pc = "none"
    BY <1>1 DEF NoRun, Run, RunPCs
  <1>4. TypeOK' BY <1>1, <1>3 DEF IInv, TypeOK, FullPCs, States
  <1>5. Queueing' BY <1>1, <1>2, <1>3, FullMoves DEF calls
  <1>6. Fulls' BY <1>1, <1>2, <1>3 DEF IInv, Fulls, FullWaits, OpsWaitForFull, Past
  <1>7. Reach' BY <1>1, <1>3 DEF IInv, Reach, RunsReachable, ChildrenReachable
  <1>8. Effects' BY <1>1, <1>3 DEF IInv, Effects, MemoTells, BuildTakesEffect
  <1>9. Latest' BY <1>1, <1>3 DEF IInv, Latest, LatestIsLast, LatestUpdateTakesEffect, Past
  <1> QED BY <1>4, <1>5, <1>6, <1>7, <1>8, <1>9 DEF IInv

LEMMA CancelInv == ASSUME IInv, Cancel PROVE IInv'
  <1>1. /\ cancelled' = TRUE /\ active' = FALSE
        /\ fullPc' = IF fullPc = "quiesce" THEN "idle" ELSE fullPc
        /\ UNCHANGED <<pc, path, want, number, entry, mounted, run, exists, tombstones, memo, sink,
                       latest, raced, fulls, faults>>
    BY DEF Cancel, calls, children
  <1>2. TypeOK' BY <1>1 DEF IInv, TypeOK, FullPCs
  <1>3. Queueing' BY <1>1, FullMoves DEF calls
  <1>4. Fulls' BY <1>1 DEF IInv, Fulls, FullWaits, OpsWaitForFull, Past
  <1>5. Reach' BY <1>1 DEF IInv, Reach, RunsReachable, ChildrenReachable
  <1>6. Effects' BY <1>1 DEF IInv, Effects, MemoTells, BuildTakesEffect, WantOf
  <1>7. Latest' BY <1>1 DEF IInv, Latest, LatestIsLast, LatestUpdateTakesEffect, Past
  <1> QED BY <1>2, <1>3, <1>4, <1>5, <1>6, <1>7 DEF IInv

LEMMA UnchangedInv == ASSUME IInv, UNCHANGED vars PROVE IInv'
  <1>1. UNCHANGED <<pc, path, want, number, entry, fullPc, active, mounted, run, exists, tombstones,
                    memo, sink, cancelled, latest, raced, fulls, faults>>
    BY DEF vars, calls, full, children
  <1>2. TypeOK' BY <1>1 DEF IInv, TypeOK
  <1>3. Queueing' BY <1>1, FullMoves DEF calls
  <1>4. Fulls' BY <1>1 DEF IInv, Fulls, FullWaits, OpsWaitForFull, Past
  <1>5. Reach' BY <1>1 DEF IInv, Reach, RunsReachable, ChildrenReachable
  <1>6. Effects' BY <1>1 DEF IInv, Effects, MemoTells, BuildTakesEffect, WantOf
  <1>7. Latest' BY <1>1 DEF IInv, Latest, LatestIsLast, LatestUpdateTakesEffect, Past
  <1> QED BY <1>2, <1>3, <1>4, <1>5, <1>6, <1>7 DEF IInv

LEMMA NextInv == ASSUME IInv, [Next]_vars PROVE IInv'
  <1>1. ASSUME NEW c \in Calls, Update(c) \/ Delete(c) PROVE IInv'
    BY <1>1, InvokeInv DEF Update, Delete, CheckToken
  <1>2. ASSUME NEW c \in Calls, CallStep(c) PROVE IInv'
    BY <1>2, RemoveChildInv, DropCallInv, DispatchInv DEF CallStep
  <1>3. ASSUME NEW p \in Subpaths, DrainStep(p) PROVE IInv'
    BY <1>3, DrainCancelledInv, DrainTakesInv, DrainExitsInv, DrainReportsInv DEF DrainStep
  <1>4. ASSUME NEW p \in Subpaths, RunStep(p) \/ RunFails(p) PROVE IInv'
    BY <1>4, CheckInv, OtherRunStepsInv DEF RunStep
  <1>5. CASE StartFull \/ FullStep \/ FullFails
    BY <1>5, StartFullInv, ProcessFullInv, CommitFullInv, CollectFullInv, EndFullInv DEF FullStep
  <1>6. CASE Cancel BY <1>6, CancelInv
  <1>7. CASE UNCHANGED vars BY <1>7, UnchangedInv
  <1> QED BY <1>1, <1>2, <1>3, <1>4, <1>5, <1>6, <1>7 DEF Next

-----------------------------------------------------------------------------
\* The strengthening that the safety properties follow from: calls are where their
\* entry and its run say, update_full is alone, and memos and runs tell the truth
\* about the sink (live_component.rs, execute_once).
THEOREM Invariant == Spec => []IInv
  <1> QED BY InitInv, NextInv, PTL DEF Spec

\* Every variable of the live component keeps to its type.
THEOREM TypeCorrect == Spec => []TypeOK
  <1>1. IInv => TypeOK BY DEF IInv
  <1> QED BY <1>1, Invariant, PTL

\* While update_full builds, no operation on a child runs, even when the future of
\* update_full was dropped (wait_until_quiescent, the wait in drain_task_body).
THEOREM FullIsAlone == Spec => []OpsWaitForFull
  <1>1. IInv => OpsWaitForFull BY DEF IInv, Fulls
  <1> QED BY <1>1, Invariant, PTL

\* A handle neither hangs nor lies: a drain task will find the call, and a superseded one
\* gave way to a later one (dispatch, drain_task_body).
THEOREM CallsAreServed == Spec => []HandlesAreServed
  <1>1. IInv => HandlesAreServed BY DEF IInv, Queueing
  <1> QED BY <1>1, Invariant, PTL

\* What a child has in the sink stays within reach of a later update_full, unless a
\* clean-up took the tombstone of another delete (remove_child_with_tombstone,
\* cleanup_tombstone).
THEOREM SinkIsReachable == Spec => []ChildrenReachable
  <1>1. IInv => ChildrenReachable BY DEF IInv, Reach
  <1> QED BY <1>1, Invariant, PTL

\* The latest call of a subpath, when it is an update that was executed, took effect
\* and nothing undid it (dispatch and the memo of the child's build).
THEOREM LatestUpdates == Spec => []LatestUpdateTakesEffect
  <1>1. IInv => LatestUpdateTakesEffect BY DEF IInv, Latest
  <1> QED BY <1>1, Invariant, PTL

\* Once cancel_and_drain is over, no operation runs any more: a call dispatched after it
\* is only told that it was cancelled.
THEOREM StaysQuiet == Spec => DrainedStaysQuiet
  <1> DEFINE Quiet == \A p \in Subpaths : ~entry[p].processing /\ run[p].by = NoCall
             Stopped == cancelled /\ Quiet
  <1>1. IInv /\ Drained => Stopped BY DEF IInv, Queueing, Placed, Drained
  <1>2. IInv /\ Stopped /\ [Next]_vars => Stopped'
    <2> SUFFICES ASSUME IInv, Stopped, [Next]_vars PROVE Stopped' OBVIOUS
    <2>1. ASSUME NEW p \in Subpaths, DrainStep(p) PROVE Stopped'
      <3>1. DrainCancelled(p) \/ DrainExits(p) \/ DrainReports(p) BY <2>1 DEF DrainStep, DrainTakes
      <3>2. ~DrainReports(p) BY DEF DrainReports
      <3>3. entry' = [entry EXCEPT ![p] = NoEntry] /\ UNCHANGED <<run, cancelled>>
        BY <3>1, <3>2 DEF DrainCancelled, DrainExits, children
      <3> QED BY <3>3 DEF NoEntry, IInv, TypeOK
    <2>2. ASSUME NEW p \in Subpaths, RunStep(p) \/ RunFails(p) PROVE Stopped'
      <3>1. /\ \E state \in RunPCs : run' = [run EXCEPT ![p].pc = state]
            /\ UNCHANGED <<entry, cancelled>>
        BY <2>2 DEF RunStep, RunFails, Check, Upsert, Apply, Memoize, DeleteMemo, Preflight, Remove,
                    Cleanup, GoRun, RunPCs
      <3> QED BY <3>1 DEF IInv, TypeOK
    <2>3. ASSUME NEW c \in Calls, Update(c) \/ Delete(c) \/ CallStep(c) PROVE Stopped'
      <3>1. UNCHANGED <<run, cancelled>>
        BY <2>3 DEF Update, Delete, Invoke, CallStep, RemoveChild, DropCall, Dispatch, children
      <3>2. \/ entry' = entry
            \/ entry' = [entry EXCEPT ![path[c]] = [@ EXCEPT !.alive = TRUE, !.queued = c]]
        BY <2>3 DEF Update, Delete, Invoke, CallStep, RemoveChild, DropCall, Dispatch
      <3>3. ASSUME NEW p \in Subpaths PROVE entry'[p].processing = entry[p].processing
        <4>1. /\ entry[p] \in [alive : BOOLEAN, queued : Calls \cup {NoCall}, processing : BOOLEAN]
              /\ DOMAIN entry = Subpaths
          BY DEF IInv, TypeOK
        <4>2. entry'[p] \in {entry[p], [entry[p] EXCEPT !.alive = TRUE, !.queued = c]}
          BY <3>2, <4>1
        <4> QED BY <4>1, <4>2
      <3> QED BY <3>1, <3>3
    <2>4. CASE StartFull \/ FullStep \/ FullFails \/ Cancel
      <3>1. UNCHANGED entry /\ cancelled'
        BY <2>4 DEF StartFull, FullStep, ProcessFull, CommitFull, CollectFull, FinishFull,
                    FullFails, Cancel
      <3>2. CASE StartFull \/ Cancel BY <3>1, <3>2 DEF StartFull, Cancel, children
      <3>3. CASE FullStep \/ FullFails
        <4>1. NoRun.by = NoCall /\ \A state : Run(state, NoCall).by = NoCall BY DEF NoRun, Run
        <4>2. \A p \in Subpaths : run'[p].by = NoCall
          <5>1. CASE ProcessFull BY <4>1, <5>1 DEF ProcessFull
          <5>2. CASE CollectFull BY <4>1, <5>2 DEF CollectFull
          <5>3. CASE CommitFull \/ FinishFull \/ FullFails
            BY <4>1, <5>3 DEF CommitFull, FinishFull, FullFails, EndFull
          <5> QED BY <3>3, <5>1, <5>2, <5>3 DEF FullStep
        <4> QED BY <3>1, <4>2
      <3> QED BY <2>4, <3>2, <3>3
    <2>5. CASE UNCHANGED vars BY <2>5 DEF vars, children
    <2> QED BY <2>1, <2>2, <2>3, <2>4, <2>5 DEF Next
  <1>3. Stopped => Quiet OBVIOUS
  <1> QED BY <1>1, <1>2, <1>3, Invariant, PTL DEF Spec, DrainedStaysQuiet
=============================================================================
