------------------------ MODULE ComponentTree_proof ------------------------
(***************************************************************************)
(* Proofs about ComponentTree, for any tree of two levels, any contents,   *)
(* slots and bounds: what is in the sink is accounted for, deletes spare   *)
(* what exists, memos stand for what is in the sink, and what an update    *)
(* brought there stays.                                                    *)
(***************************************************************************)
EXTENDS ComponentTree, TLAPS

Below == Components \ {Root}

HoldsBuild(c) == build[c].pc \in {"process", "applied", "collect", "await"}
HoldsDelete(c, s) == deletes[c][s].pc \in {"preflight", "remove", "applied", "collect", "await"}

\* The permit of a component has one holder.
Permits ==
  \A c \in Components, s \in Slots : HoldsDelete(c, s) =>
    /\ ~HoldsBuild(c)
    /\ \A t \in Slots : HoldsDelete(c, t) => t = s

\* Builds are nested: a component runs while its parent's process waits for it.
Nested ==
  /\ build[Root].want = Absent
  /\ \A c \in Below : /\ build[c].pc = "idle" <=> build[c].want = Absent
                      /\ build[c].pc \notin {"idle", "done"} => build[Parent[c]].pc = "process"
                      /\ build[Parent[c]].pc \in {"idle", "check", "wait", "done"} => build[c].pc = "idle"

\* A delete that did not outlive its update is awaited by a run of the parent.
Awaited ==
  /\ \A s \in Slots : deletes[Root][s].pc = "idle"
  /\ \A d \in Below \ outlived, s \in Slots : deletes[d][s].pc # "idle" =>
       /\ deletes[d][s].waited
       /\ build[Parent[d]].pc = "await" \/ \E t \in Slots : deletes[Parent[d]][t].pc = "await"

\* What a build is about to put into the sink, or a delete leaves there, exists.
RunsAccounted ==
  /\ sink[Root] = Absent
  /\ \A c \in Below \ outlived :
       /\ build[c].pc = "process" => c \in exists \cup tombstones
       /\ \A s \in Slots : /\ deletes[c][s].pc = "remove" => c \notin exists
                           /\ deletes[c][s].pc \in {"applied", "collect", "await"} => sink[c] = Absent
                           /\ deletes[c][s].pc = "cleanup" => c \in exists \/ sink[c] = Absent

Runs == Permits /\ Nested /\ Awaited
Accounting == RunsAccounted /\ ChildrenAccounted

IInv == TypeOK /\ Runs /\ Accounting

-----------------------------------------------------------------------------
BuildType == [Components -> [pc : BuildPCs, want : States, failed : BOOLEAN]]
DeleteType == [Components -> [Slots -> [pc : DeletePCs, waited : BOOLEAN]]]

LEMMA TreeFacts ==
  /\ Root \in Components /\ \A c : Root \notin Children(c)
  /\ \A c, d : d \in Children(c) <=> d \in Below /\ Parent[d] = c
  /\ \A c \in Below : /\ Parent[c] \in Components /\ Parent[c] # c
                      /\ Parent[c] \in Below => Parent[Parent[c]] # c
  BY TreeAssumption DEF Children, Tops, Below

LEMMA NoRuns ==
  /\ NoBuild \in [pc : BuildPCs, want : States, failed : BOOLEAN]
  /\ NoBuild.pc = "idle" /\ NoBuild.want = Absent
  /\ NoDelete \in [pc : DeletePCs, waited : BOOLEAN] /\ NoDelete.pc = "idle"
  BY DEF NoBuild, Build, NoDelete, Delete, BuildPCs, DeletePCs, States

LEMMA InitInv == Init => IInv
  <1> SUFFICES ASSUME Init PROVE IInv OBVIOUS
  <1>1. TypeOK
    <2>1. build \in [Components -> [pc : BuildPCs, want : States, failed : BOOLEAN]] BY NoRuns DEF Init
    <2>2. deletes \in [Components -> [Slots -> [pc : DeletePCs, waited : BOOLEAN]]] BY NoRuns DEF Init
    <2>3. /\ wanted \in [Tops -> States]
          /\ memo \in [Components -> States] /\ memo[Root] = Absent
          /\ sink \in [Components -> States]
      BY TreeFacts DEF Init, States
    <2>4. changes \in 0..MaxChanges /\ faults \in 0..MaxFaults /\ cancels \in 0..MaxCancels
      BY TreeBounds DEF Init
    <2> QED BY <2>1, <2>2, <2>3, <2>4 DEF Init, TypeOK
  <1>2. Runs BY NoRuns, TreeFacts DEF Init, Runs, Permits, Nested, Awaited, HoldsDelete, Below
  <1>3. Accounting
    BY NoRuns, TreeFacts DEF Init, Accounting, RunsAccounted, ChildrenAccounted, Below
  <1> QED BY <1>1, <1>2, <1>3 DEF IInv

LEMMA GoBuildIs ==
  ASSUME TypeOK, NEW c \in Components, NEW to \in BuildPCs, GoBuild(c, to)
  PROVE  /\ build' \in BuildType
         /\ \A x \in Components : build'[x].want = build[x].want
         /\ \A x \in Components : build'[x].pc = IF x = c THEN to ELSE build[x].pc
  BY DEF TypeOK, BuildType, GoBuild

LEMMA GoDeleteIs ==
  ASSUME TypeOK, NEW d \in Components, NEW s \in Slots, NEW to \in DeletePCs, GoDelete(d, s, to)
  PROVE  /\ deletes' \in DeleteType
         /\ \A x \in Components, t \in Slots : deletes'[x][t].waited = deletes[x][t].waited
         /\ \A x \in Components, t \in Slots :
              deletes'[x][t].pc = IF x = d /\ t = s THEN to ELSE deletes[x][t].pc
  BY DEF TypeOK, DeleteType, GoDelete

\* While a delete of d is in flight that did not outlive its update, no build of d
\* runs and nobody who could say otherwise about d holds its parent's permit.
LEMMA Alone ==
  ASSUME IInv, NEW d \in Below, d \notin outlived, NEW s \in Slots, deletes[d][s].pc # "idle"
  PROVE  /\ build[d].pc \in {"idle", "done"}
         /\ build[Parent[d]].pc \notin {"process", "applied", "collect"}
         /\ \A t \in Slots : deletes[Parent[d]][t].pc \notin {"preflight", "remove", "applied", "collect"}
  <1>1. Parent[d] \in Components BY TreeFacts
  <1>2. build[Parent[d]].pc = "await" \/ \E t \in Slots : deletes[Parent[d]][t].pc = "await"
    BY DEF IInv, Runs, Awaited
  <1>3. build[Parent[d]].pc \notin {"process", "applied", "collect"}
    BY <1>1, <1>2 DEF IInv, Runs, Permits, HoldsBuild, HoldsDelete
  <1>4. build[d].pc \in {"idle", "done"} BY <1>3 DEF IInv, Runs, Nested
  <1>5. ASSUME NEW t \in Slots, deletes[Parent[d]][t].pc \in {"preflight", "remove", "applied", "collect"}
        PROVE  FALSE
    BY <1>1, <1>2, <1>5 DEF IInv, Runs, Permits, HoldsBuild, HoldsDelete
  <1> QED BY <1>3, <1>4, <1>5

\* Steps that leave rows and sink, and bring no run to a point that says something of them.
LEMMA AccountingKept ==
  ASSUME IInv, UNCHANGED <<exists, tombstones, sink>>, outlived \subseteq outlived',
         \A c \in Below : build'[c].pc = "process" => build[c].pc = "process",
         \A c \in Below \ outlived', s \in Slots :
           deletes'[c][s].pc \in {"remove", "applied", "collect", "await", "cleanup"} =>
             deletes[c][s].pc = deletes'[c][s].pc
  PROVE  Accounting'
  <1>1. RunsAccounted' BY DEF IInv, Accounting, RunsAccounted, Below
  <1>2. ChildrenAccounted' BY DEF IInv, Accounting, ChildrenAccounted
  <1> QED BY <1>1, <1>2 DEF Accounting

-----------------------------------------------------------------------------
(* Builds. *)

\* A build gets further, after its children when it is past `process`.
LEMMA NestedMoves ==
  ASSUME IInv, NEW c \in Components, NEW to \in {"wait", "applied", "collect", "await", "finish"},
         GoBuild(c, to), build[c].pc # "done", build[c].pc = "idle" => c = Root,
         to = "wait" => build[c].pc \in {"idle", "check"},
         build[c].pc = "process" => ChildrenReady(c)
  PROVE  /\ Nested' /\ build' \in BuildType
         /\ \A x \in Components : build'[x].pc = "process" => build[x].pc = "process"
         /\ \A x \in Components : build'[x].pc = IF x = c THEN to ELSE build[x].pc
  <1>1. /\ build' \in BuildType
        /\ \A x \in Components : build'[x].want = build[x].want
        /\ \A x \in Components : build'[x].pc = IF x = c THEN to ELSE build[x].pc
    BY GoBuildIs DEF IInv, BuildPCs
  <1>2. \A d \in Below : Parent[d] = c => build[d].pc \in {"idle", "done"}
    BY TreeFacts DEF IInv, Runs, Nested, ChildrenReady, Mounted, Below
  <1>3. Nested'
    <2>1. build'[Root].want = Absent BY <1>1, TreeFacts DEF IInv, Runs, Nested
    <2> SUFFICES ASSUME NEW x \in Below
                 PROVE  /\ build'[x].pc = "idle" <=> build'[x].want = Absent
                        /\ build'[x].pc \notin {"idle", "done"} => build'[Parent[x]].pc = "process"
                        /\ build'[Parent[x]].pc \in {"idle", "check", "wait", "done"} => build'[x].pc = "idle"
      BY <2>1 DEF Nested
    <2>2. x \in Components /\ Parent[x] \in Components /\ Parent[x] # x BY TreeFacts DEF Below
    <2>3. build'[x].pc = "idle" <=> build'[x].want = Absent
      BY <1>1, <2>2 DEF IInv, Runs, Nested, Below
    <2>4. CASE Parent[x] = c
      BY <1>1, <1>2, <2>2, <2>3, <2>4 DEF IInv, Runs, Nested
    <2>5. CASE Parent[x] # c
      <3>1. build'[Parent[x]].pc = build[Parent[x]].pc BY <1>1, <2>2, <2>5
      <3>2. CASE x = c
        BY <1>1, <2>2, <2>3, <3>1, <3>2 DEF IInv, Runs, Nested, Below
      <3>3. CASE x # c BY <1>1, <2>2, <2>3, <3>1, <3>3 DEF IInv, Runs, Nested
      <3> QED BY <3>2, <3>3
    <2> QED BY <2>4, <2>5
  <1> QED BY <1>1, <1>3

LEMMA BuildMoves ==
  ASSUME IInv, NEW c \in Components, NEW to \in {"wait", "applied", "collect", "finish"},
         GoBuild(c, to), UNCHANGED <<deletes, outlived>>,
         build[c].pc # "done", build[c].pc = "idle" => c = Root,
         to = "wait" => build[c].pc \in {"idle", "check"},
         to \in {"applied", "collect"} => HoldsBuild(c),
         build[c].pc = "process" => ChildrenReady(c),
         build[c].pc = "await" => HandlesReady(c)
  PROVE  /\ Runs' /\ build' \in BuildType
         /\ \A x \in Components : build'[x].pc = "process" => build[x].pc = "process"
  <1>1. /\ Nested' /\ build' \in BuildType
        /\ \A x \in Components : build'[x].pc = "process" => build[x].pc = "process"
        /\ \A x \in Components : build'[x].pc = IF x = c THEN to ELSE build[x].pc
    BY NestedMoves
  <1>2. Permits' BY <1>1 DEF IInv, Runs, Permits, HoldsBuild, HoldsDelete
  <1>3. Awaited'
    <2>1. \A s \in Slots : deletes'[Root][s].pc = "idle" BY DEF IInv, Runs, Awaited
    <2> SUFFICES ASSUME NEW d \in Below \ outlived, NEW s \in Slots, deletes[d][s].pc # "idle"
                 PROVE  /\ deletes[d][s].waited
                        /\ \/ build'[Parent[d]].pc = "await"
                           \/ \E t \in Slots : deletes[Parent[d]][t].pc = "await"
      BY <2>1 DEF Awaited
    <2>2. deletes[d][s].waited BY DEF IInv, Runs, Awaited
    <2>3. d \in Children(Parent[d]) /\ Parent[d] \in Components BY TreeFacts
    <2>4. ~(Parent[d] = c /\ build[c].pc = "await") BY <2>2, <2>3 DEF HandlesReady
    <2> QED BY <1>1, <2>2, <2>3, <2>4 DEF IInv, Runs, Awaited
  <1> QED BY <1>1, <1>2, <1>3 DEF Runs

LEMMA StartUpdateInv == ASSUME IInv, StartUpdate PROVE IInv'
  <1>1. /\ Runs' /\ build' \in BuildType
        /\ \A x \in Components : build'[x].pc = "process" => build[x].pc = "process"
    BY BuildMoves, TreeFacts DEF StartUpdate, ghosts
  <1>2. TypeOK' BY <1>1, TreeBounds DEF StartUpdate, store, ghosts, bounds, BuildType, IInv, TypeOK
  <1>3. Accounting' BY <1>1, AccountingKept DEF StartUpdate, store, ghosts, Below
  <1> QED BY <1>1, <1>2, <1>3 DEF IInv

LEMMA MissInv ==
  ASSUME IInv, NEW c \in Components, Miss(c) \/ RestoreFails(c) \/ Release(c) PROVE IInv'
  <1>1. /\ Runs' /\ build' \in BuildType
        /\ \A x \in Components : build'[x].pc = "process" => build[x].pc = "process"
    BY BuildMoves DEF Miss, RestoreFails, Release, ghosts
  <1>2. UNCHANGED <<exists, tombstones, sink, deletes, outlived>>
    BY DEF Miss, RestoreFails, Release, store, ghosts
  <1>3. TypeOK'
    <2>1. CASE Miss(c)
      <3>1. memo' \in [Components -> States] /\ memo'[Root] = Absent
        BY <2>1 DEF Miss, Invalidated, IInv, TypeOK, States
      <3>2. bypassed' \subseteq Components BY <2>1 DEF Miss, IInv, TypeOK
      <3> QED BY <1>1, <2>1, <3>1, <3>2 DEF Miss, bounds, BuildType, IInv, TypeOK
    <2>2. CASE RestoreFails(c) BY <1>1, <2>2, TreeBounds DEF RestoreFails, store, BuildType, IInv, TypeOK
    <2>3. CASE Release(c) BY <1>1, <2>3 DEF Release, store, ghosts, bounds, BuildType, IInv, TypeOK
    <2> QED BY <2>1, <2>2, <2>3
  <1>4. Accounting' BY <1>1, <1>2, AccountingKept DEF Below
  <1> QED BY <1>1, <1>3, <1>4 DEF IInv

LEMMA ApplyInv == ASSUME IInv, NEW c \in Components, Apply(c) PROVE IInv'
  <1>1. /\ Runs' /\ build' \in BuildType
        /\ \A x \in Components : build'[x].pc = "process" => build[x].pc = "process"
    BY BuildMoves DEF Apply, ghosts, HoldsBuild
  <1>2. /\ build[c].pc = "process" /\ sink' = [sink EXCEPT ![c] = build[c].want]
        /\ UNCHANGED <<wanted, exists, tombstones, memo, deletes, full, outlived>>
    BY DEF Apply, store, ghosts
  <1>3. TypeOK' BY <1>1, <1>2 DEF Apply, ghosts, bounds, BuildType, IInv, TypeOK
  <1>4. c \in Below \ outlived => c \in exists \cup tombstones
    BY <1>2 DEF IInv, Accounting, RunsAccounted
  <1>5. c \in Below \ outlived => \A s \in Slots : deletes[c][s].pc = "idle" BY <1>2, Alone
  <1>6. c = Root => sink'[Root] = Absent BY <1>2 DEF IInv, TypeOK, Runs, Nested
  <1>7. \A x \in Components \ {c} : sink'[x] = sink[x] BY <1>2 DEF IInv, TypeOK
  <1>8. RunsAccounted'
    BY <1>1, <1>2, <1>5, <1>6, <1>7, TreeFacts DEF IInv, Accounting, RunsAccounted, Below
  <1>9. ChildrenAccounted'
    BY <1>2, <1>4, <1>6, <1>7 DEF IInv, Accounting, ChildrenAccounted, Below
  <1> QED BY <1>1, <1>3, <1>8, <1>9 DEF IInv, Accounting

LEMMA CommitInv == ASSUME IInv, NEW c \in Components, Commit(c) PROVE IInv'
  <1>1. /\ Runs' /\ build' \in BuildType
        /\ \A x \in Components : build'[x].pc = "process" => build[x].pc = "process"
    BY BuildMoves DEF Commit, ghosts, HoldsBuild
  <1>2. /\ build[c].pc = "applied"
        /\ exists' = (exists \ Children(c)) \cup Mounted(c)
        /\ tombstones' = tombstones \cup ((exists \cap Children(c)) \ Mounted(c))
        /\ UNCHANGED <<wanted, memo, sink, deletes, full, outlived>>
    BY DEF Commit, Reconcile, ghosts
  <1>3. Mounted(c) \subseteq Children(c) /\ Children(c) \subseteq Below BY TreeFacts DEF Mounted
  <1>4. TypeOK' BY <1>1, <1>2, <1>3 DEF Commit, ghosts, bounds, BuildType, IInv, TypeOK, Below
  <1>5. exists \cup tombstones \subseteq exists' \cup tombstones' BY <1>2
  <1>6. \A x \in Below \ outlived, s \in Slots :
          deletes[x][s].pc # "idle" => (x \in exists' <=> x \in exists)
    <2> SUFFICES ASSUME NEW x \in Below \ outlived, NEW s \in Slots, deletes[x][s].pc # "idle"
                 PROVE  x \in exists' <=> x \in exists
      OBVIOUS
    <2>1. Parent[x] # c BY <1>2, Alone
    <2> QED BY <1>2, <1>3, <2>1, TreeFacts
  <1>7. RunsAccounted' BY <1>1, <1>2, <1>5, <1>6 DEF IInv, Accounting, RunsAccounted, Below
  <1>8. ChildrenAccounted' BY <1>2, <1>5 DEF IInv, Accounting, ChildrenAccounted
  <1> QED BY <1>1, <1>4, <1>7, <1>8 DEF IInv, Accounting

LEMMA BuildEnds ==
  ASSUME IInv, NEW c \in Components, NEW f \in BOOLEAN, build' = Ended(c, f), UNCHANGED <<deletes, outlived>>,
         build[c].pc \notin {"idle", "await", "done"}, build[c].pc = "process" => ChildrenReady(c)
  PROVE  /\ Runs' /\ build' \in BuildType
         /\ \A x \in Components : build'[x].pc = "process" => build[x].pc = "process"
  <1>1. \A d \in Below : Parent[d] = c => build[d].pc \in {"idle", "done"}
    BY TreeFacts DEF IInv, Runs, Nested, ChildrenReady, Mounted, Below
  <1>2. c \notin Children(c) BY TreeFacts
  <1>3. build'[c] = IF c = Root THEN NoBuild ELSE Build("done", build[c].want, f) BY <1>2 DEF Ended
  <1>4. \A x \in Children(c) : x # c /\ x \in Components /\ build'[x] = NoBuild
    BY <1>2 DEF Ended, Children
  <1>5. \A x \in Components \ (Children(c) \cup {c}) : build'[x] = build[x] BY DEF Ended
  <1>6. build' \in BuildType
    <2>1. build[c].want \in States BY DEF IInv, TypeOK
    <2>2. Build("done", build[c].want, f) \in [pc : BuildPCs, want : States, failed : BOOLEAN]
      BY <2>1 DEF Build, BuildPCs
    <2>3. \A x \in Components : build'[x] \in [pc : BuildPCs, want : States, failed : BOOLEAN]
      BY <1>3, <1>4, <1>5, <2>2, NoRuns DEF IInv, TypeOK
    <2>4. build' = [x \in Components |-> build'[x]] BY DEF Ended
    <2> QED BY <2>3, <2>4 DEF BuildType
  <1>7. /\ build'[c].pc = (IF c = Root THEN "idle" ELSE "done")
        /\ build'[c].want = (IF c = Root THEN Absent ELSE build[c].want)
    BY <1>3, NoRuns DEF Build
  <1>8. \A x \in Children(c) : build'[x].pc = "idle" /\ build'[x].want = Absent BY <1>4, NoRuns
  <1>9. Permits'
    <2>1. \A x \in Components : HoldsBuild(x)' => HoldsBuild(x) BY <1>5, <1>7, <1>8 DEF HoldsBuild
    <2> QED BY <2>1 DEF IInv, Runs, Permits, HoldsDelete
  <1>10. Nested'
    <2>1. build'[Root].want = Absent
      BY <1>5, <1>7, TreeFacts DEF IInv, Runs, Nested
    <2> SUFFICES ASSUME NEW x \in Below
                 PROVE  /\ build'[x].pc = "idle" <=> build'[x].want = Absent
                        /\ build'[x].pc \notin {"idle", "done"} => build'[Parent[x]].pc = "process"
                        /\ build'[Parent[x]].pc \in {"idle", "check", "wait", "done"} => build'[x].pc = "idle"
      BY <2>1 DEF Nested
    <2>2. x \in Components /\ x # Root /\ Parent[x] \in Components /\ Parent[x] # x BY TreeFacts DEF Below
    <2>3. CASE x = c
      <3>1. build[Parent[x]].pc = "process" BY <2>3 DEF IInv, Runs, Nested
      <3>2. Parent[x] \notin Children(c) BY <2>3, TreeFacts DEF Below
      <3>3. build'[Parent[x]].pc = "process" BY <1>5, <2>2, <2>3, <3>1, <3>2
      <3> QED BY <1>7, <2>2, <2>3, <3>3 DEF IInv, Runs, Nested
    <2>4. CASE x \in Children(c)
      BY <1>8, <2>4
    <2>5. CASE x # c /\ x \notin Children(c)
      <3>1. build'[x] = build[x] BY <1>5, <2>2, <2>5
      <3>2. Parent[x] # c BY <2>5, TreeFacts
      <3>3. CASE Parent[x] \in Children(c)
        <4>1. build[Parent[x]].pc \in {"idle", "done"} BY <1>1, <3>3, TreeFacts
        <4> QED BY <1>8, <3>1, <3>3, <4>1 DEF IInv, Runs, Nested
      <3>4. CASE Parent[x] \notin Children(c)
        <4>1. build'[Parent[x]] = build[Parent[x]] BY <1>5, <2>2, <3>2, <3>4
        <4> QED BY <3>1, <4>1 DEF IInv, Runs, Nested
      <3> QED BY <3>3, <3>4
    <2> QED BY <2>3, <2>4, <2>5
  <1>11. \A x \in Components : build[x].pc = "await" => build'[x].pc = "await"
    BY <1>1, <1>5, TreeFacts
  <1>12. Awaited' BY <1>11, TreeFacts DEF IInv, Runs, Awaited
  <1>13. \A x \in Components : build'[x].pc = "process" => build[x].pc = "process"
    BY <1>5, <1>7, <1>8
  <1> QED BY <1>6, <1>9, <1>10, <1>12, <1>13 DEF Runs

LEMMA EndInv == ASSUME IInv, NEW c \in Components, Hit(c) \/ Finish(c) \/ BuildFails(c) PROVE IInv'
  <1>1. PICK f \in BOOLEAN : build' = Ended(c, f)
    BY DEF Hit, Finish, BuildFails, ChildFailed
  <1>2. /\ UNCHANGED <<exists, tombstones, sink, deletes, outlived>>
        /\ build[c].pc \notin {"idle", "await", "done"}
        /\ build[c].pc = "process" => ChildrenReady(c)
    BY DEF Hit, Finish, BuildFails, store, ghosts
  <1>3. /\ Runs' /\ build' \in BuildType
        /\ \A x \in Components : build'[x].pc = "process" => build[x].pc = "process"
    BY <1>1, <1>2, BuildEnds
  <1>4. TypeOK'
    <2>1. CASE Hit(c) BY <1>3, <2>1 DEF Hit, store, ghosts, bounds, BuildType, IInv, TypeOK
    <2>2. CASE Finish(c)
      <3>1. memo' \in [Components -> States] /\ memo'[Root] = Absent
        BY <2>2 DEF Finish, IInv, TypeOK, States
      <3>2. bypassed' \subseteq Components BY <2>2 DEF Finish, IInv, TypeOK
      <3>3. synced' \in BOOLEAN BY <2>2 DEF Finish, UpToDate, ChildFailed, IInv, TypeOK
      <3> QED BY <1>3, <2>2, <3>1, <3>2, <3>3 DEF Finish, bounds, BuildType, IInv, TypeOK
    <2>3. CASE BuildFails(c)
      <3>1. /\ faults' \in 0..MaxFaults
            /\ UNCHANGED <<wanted, exists, tombstones, memo, sink, deletes, full>>
            /\ UNCHANGED <<synced, outlived, bypassed, changes, cancels>>
        BY <2>3, TreeBounds DEF BuildFails, store, ghosts, IInv, TypeOK
      <3> QED BY <1>3, <3>1 DEF BuildType, IInv, TypeOK
    <2> QED BY <2>1, <2>2, <2>3
  <1>5. Accounting' BY <1>2, <1>3, AccountingKept DEF Below
  <1> QED BY <1>3, <1>4, <1>5 DEF IInv

LEMMA ProcessInv == ASSUME IInv, NEW c \in Components, Process(c) PROVE IInv'
  <1> DEFINE with(d) == MountedWith(c, build[c].want, d)
  <1>1. /\ build[c].pc = "wait" /\ ~Held(c)
        /\ exists' = (IF c = Root THEN exists ELSE exists \cup {c})
        /\ UNCHANGED <<wanted, tombstones, memo, sink, deletes, full, synced, outlived, bypassed>>
        /\ UNCHANGED <<changes, faults, cancels>>
    BY DEF Process, Upserted, ghosts, bounds
  <1>2. c \notin Children(c) BY TreeFacts
  <1>3. build'[c] = [build[c] EXCEPT !.pc = "process"] BY <1>2 DEF Process
  <1>4. \A d \in Children(c) : d \in Components /\ d # c BY <1>2 DEF Children
  <1>5. \A d \in Children(c) : with(d) # Absent => build'[d] = Build("check", with(d), FALSE)
    BY <1>4 DEF Process
  <1>6. \A d \in Children(c) : with(d) = Absent => build'[d] = build[d]
    BY <1>4 DEF Process
  <1>7. \A d \in Components \ (Children(c) \cup {c}) : build'[d] = build[d] BY DEF Process
  <1>8. \A d \in Children(c) : build[d].pc = "idle" /\ build[d].want = Absent
    BY <1>1, TreeFacts DEF IInv, Runs, Nested
  <1>9. build'[c].pc = "process" /\ build'[c].want = build[c].want
    BY <1>3 DEF IInv, TypeOK
  <1>10. \A d \in Children(c) : /\ build'[d].pc \in {"idle", "check"}
                                /\ build'[d].pc = "idle" <=> build'[d].want = Absent
    <2> SUFFICES ASSUME NEW d \in Children(c)
                 PROVE  /\ build'[d].pc \in {"idle", "check"}
                        /\ build'[d].pc = "idle" <=> build'[d].want = Absent
      OBVIOUS
    <2>1. CASE with(d) = Absent BY <1>6, <1>8, <2>1
    <2>2. CASE with(d) # Absent
      <3> HIDE DEF with
      <3>1. build'[d] = Build("check", with(d), FALSE) BY <1>5, <2>2
      <3>2. Build("check", with(d), FALSE).pc = "check" /\ Build("check", with(d), FALSE).want = with(d)
        BY DEF Build
      <3> QED BY <2>2, <3>1, <3>2
    <2> QED BY <2>1, <2>2
  <1>11. build' \in BuildType
    <2>1. \A d \in Children(c) : with(d) \in States
      BY DEF MountedWith, IInv, TypeOK, States, Tops
    <2>2. \A d \in Children(c) :
            Build("check", with(d), FALSE) \in [pc : BuildPCs, want : States, failed : BOOLEAN]
      BY <2>1 DEF Build, BuildPCs
    <2>3. build'[c] \in [pc : BuildPCs, want : States, failed : BOOLEAN]
      BY <1>3 DEF IInv, TypeOK, BuildPCs
    <2> HIDE DEF with
    <2>4. \A x \in Components : build'[x] \in [pc : BuildPCs, want : States, failed : BOOLEAN]
      BY <1>5, <1>6, <1>7, <2>2, <2>3 DEF IInv, TypeOK
    <2>5. build' = [x \in Components |-> build'[x]] BY DEF Process
    <2> QED BY <2>4, <2>5 DEF BuildType
  <1> HIDE DEF with
  <1>12. TypeOK' BY <1>1, <1>11 DEF BuildType, IInv, TypeOK
  <1>13. Permits'
    <2>1. \A x \in Components : x # c => (HoldsBuild(x)' => HoldsBuild(x))
      BY <1>7, <1>10 DEF HoldsBuild
    <2>2. \A s \in Slots : ~HoldsDelete(c, s) BY <1>1 DEF Held, HoldsDelete
    <2> QED BY <1>1, <2>1, <2>2 DEF IInv, Runs, Permits, HoldsDelete
  <1>14. Nested'
    <2>1. build'[Root].want = Absent
      BY <1>7, <1>9, TreeFacts DEF IInv, Runs, Nested
    <2> SUFFICES ASSUME NEW x \in Below
                 PROVE  /\ build'[x].pc = "idle" <=> build'[x].want = Absent
                        /\ build'[x].pc \notin {"idle", "done"} => build'[Parent[x]].pc = "process"
                        /\ build'[Parent[x]].pc \in {"idle", "check", "wait", "done"} => build'[x].pc = "idle"
      BY <2>1 DEF Nested
    <2>2. x \in Components /\ x # Root /\ Parent[x] \in Components /\ Parent[x] # x BY TreeFacts DEF Below
    <2>3. CASE x = c
      <3>1. build[Parent[x]].pc = "process" BY <1>1, <2>3 DEF IInv, Runs, Nested
      <3>2. Parent[x] \notin Children(c) BY <2>3, TreeFacts DEF Below
      <3>3. build'[Parent[x]].pc = "process" BY <1>7, <2>2, <2>3, <3>1, <3>2
      <3> QED BY <1>1, <1>9, <2>2, <2>3, <3>3 DEF IInv, Runs, Nested
    <2>4. CASE x \in Children(c)
      <3>1. Parent[x] = c BY <2>4, TreeFacts
      <3> QED BY <1>9, <1>10, <2>4, <3>1
    <2>5. CASE x # c /\ x \notin Children(c)
      <3>1. build'[x] = build[x] BY <1>7, <2>2, <2>5
      <3>2. Parent[x] # c BY <2>5, TreeFacts
      <3>3. CASE Parent[x] \in Children(c)
        <4>1. build[Parent[x]].pc = "idle" BY <1>8, <3>3
        <4>2. build[x].pc = "idle" /\ build[x].want = Absent BY <4>1 DEF IInv, Runs, Nested
        <4> QED BY <3>1, <4>2
      <3>4. CASE Parent[x] \notin Children(c)
        <4>1. build'[Parent[x]] = build[Parent[x]] BY <1>7, <2>2, <3>2, <3>4
        <4> QED BY <3>1, <4>1 DEF IInv, Runs, Nested
      <3> QED BY <3>3, <3>4
    <2> QED BY <2>3, <2>4, <2>5
  <1>15. \A x \in Components : build[x].pc = "await" => build'[x].pc = "await"
    BY <1>1, <1>7, <1>8
  <1>16. Awaited' BY <1>1, <1>15, TreeFacts DEF IInv, Runs, Awaited
  <1>17. RunsAccounted'
    <2>1. \A x \in Below : x # c => (build'[x].pc = "process" => build[x].pc = "process")
      BY <1>7, <1>10 DEF Below
    <2>2. \A s \in Slots : deletes[c][s].pc # "remove" BY <1>1 DEF Held
    <2> QED BY <1>1, <2>1, <2>2 DEF IInv, Accounting, RunsAccounted, Below
  <1>18. ChildrenAccounted' BY <1>1 DEF IInv, Accounting, ChildrenAccounted
  <1> QED BY <1>12, <1>13, <1>14, <1>16, <1>17, <1>18 DEF IInv, Runs, Accounting

-----------------------------------------------------------------------------
(* Deletes are spawned for the tombstones below. *)

LEMMA SpawnedIs ==
  ASSUME NEW runs \in DeleteType, NEW c \in Components,
         \A d \in Listed(c) : Free(d) # {}
  PROVE  /\ Spawned(c, runs) \in DeleteType
         /\ \A d \in Components, s \in Slots :
              \/ Spawned(c, runs)[d][s] = runs[d][s]
              \/ /\ d \in Listed(c) /\ s \in Free(d)
                 /\ Spawned(c, runs)[d][s] = Delete("start", TRUE)
  <1> DEFINE slot(d) == CHOOSE s \in Free(d) : TRUE
             new == Delete("start", TRUE)
  <1>1. \A d \in Listed(c) : slot(d) \in Free(d) /\ slot(d) \in Slots BY DEF Free
  <1>2. new \in [pc : DeletePCs, waited : BOOLEAN] BY DEF Delete, DeletePCs
  <1> HIDE DEF slot, new
  <1>3. \A d \in Components : Spawned(c, runs)[d] =
          IF d \in Listed(c) THEN [runs[d] EXCEPT ![slot(d)] = new] ELSE runs[d]
    BY DEF Spawned, slot, new
  <1>4. \A d \in Components : runs[d] \in [Slots -> [pc : DeletePCs, waited : BOOLEAN]] BY DEF DeleteType
  <1>5. \A d \in Components : Spawned(c, runs)[d] \in [Slots -> [pc : DeletePCs, waited : BOOLEAN]]
    BY <1>1, <1>2, <1>3, <1>4
  <1>6. Spawned(c, runs) = [d \in Components |-> Spawned(c, runs)[d]] BY DEF Spawned
  <1>7. Spawned(c, runs) \in DeleteType BY <1>5, <1>6 DEF DeleteType
  <1>8. \A d \in Components, s \in Slots :
          \/ Spawned(c, runs)[d][s] = runs[d][s]
          \/ d \in Listed(c) /\ s \in Free(d) /\ Spawned(c, runs)[d][s] = new
    BY <1>1, <1>3, <1>4
  <1> QED BY <1>7, <1>8 DEF new

LEMMA CollectInv == ASSUME IInv, NEW c \in Components, Collect(c) PROVE IInv'
  <1>1. /\ build[c].pc = "collect" /\ GoBuild(c, "await") /\ \A d \in Listed(c) : Free(d) # {}
        /\ deletes' = Spawned(c, deletes)
        /\ UNCHANGED <<wanted, exists, tombstones, memo, sink, full, synced, outlived, bypassed>>
        /\ UNCHANGED <<changes, faults, cancels>>
    BY DEF Collect, store, ghosts, bounds
  <1>2. deletes \in DeleteType BY DEF IInv, TypeOK, DeleteType
  <1>3. /\ deletes' \in DeleteType
        /\ \A d \in Components, s \in Slots :
             \/ deletes'[d][s] = deletes[d][s]
             \/ d \in Listed(c) /\ s \in Free(d) /\ deletes'[d][s] = Delete("start", TRUE)
    BY <1>1, <1>2, SpawnedIs
  <1>4. \A d \in Components, s \in Slots :
          \/ deletes'[d][s] = deletes[d][s]
          \/ /\ d \in Children(c) /\ deletes[d][s].pc = "idle"
             /\ deletes'[d][s].pc = "start" /\ deletes'[d][s].waited
    BY <1>3 DEF Listed, Free, Delete
  <1>5. /\ Nested' /\ build' \in BuildType
        /\ \A x \in Components : build'[x].pc = "process" => build[x].pc = "process"
        /\ \A x \in Components : build'[x].pc = IF x = c THEN "await" ELSE build[x].pc
    BY <1>1, NestedMoves
  <1>6. TypeOK' BY <1>1, <1>3, <1>5 DEF BuildType, DeleteType, IInv, TypeOK
  <1>7. Permits'
    <2>1. \A x \in Components : HoldsBuild(x)' => HoldsBuild(x) BY <1>1, <1>5 DEF HoldsBuild
    <2>2. \A x \in Components, s \in Slots : HoldsDelete(x, s)' => HoldsDelete(x, s)
      BY <1>4 DEF HoldsDelete
    <2> QED BY <2>1, <2>2 DEF IInv, Runs, Permits
  <1>8. Awaited'
    <2>1. \A s \in Slots : deletes'[Root][s].pc = "idle" BY <1>4, TreeFacts DEF IInv, Runs, Awaited
    <2> SUFFICES ASSUME NEW d \in Below \ outlived, NEW s \in Slots, deletes'[d][s].pc # "idle"
                 PROVE  /\ deletes'[d][s].waited
                        /\ \/ build'[Parent[d]].pc = "await"
                           \/ \E t \in Slots : deletes'[Parent[d]][t].pc = "await"
      BY <1>1, <2>1 DEF Awaited
    <2>2. d \in Components /\ Parent[d] \in Components BY TreeFacts DEF Below
    <2>3. CASE d \in Children(c)
      <3>1. Parent[d] = c BY <2>3, TreeFacts
      <3>2. deletes[d][s].pc = "idle" BY <1>1, <3>1, Alone
      <3> QED BY <1>4, <1>5, <2>2, <3>1, <3>2
    <2>4. CASE d \notin Children(c)
      <3>1. deletes'[d][s] = deletes[d][s] BY <1>4, <2>2, <2>4
      <3>2. /\ deletes[d][s].waited
            /\ build[Parent[d]].pc = "await" \/ \E t \in Slots : deletes[Parent[d]][t].pc = "await"
        BY <3>1 DEF IInv, Runs, Awaited
      <3>3. \A t \in Slots : deletes[Parent[d]][t].pc = "await" => deletes'[Parent[d]][t].pc = "await"
        BY <1>4, <2>2
      <3> QED BY <1>5, <2>2, <3>1, <3>2, <3>3
    <2> QED BY <2>3, <2>4
  <1>9. Accounting'
    <2>1. \A x \in Below \ outlived', s \in Slots :
            deletes'[x][s].pc \in {"remove", "applied", "collect", "await", "cleanup"} =>
              deletes[x][s].pc = deletes'[x][s].pc
      BY <1>4 DEF Below
    <2>2. UNCHANGED <<exists, tombstones, sink>> /\ outlived \subseteq outlived' BY <1>1
    <2>3. \A x \in Below : build'[x].pc = "process" => build[x].pc = "process" BY <1>5 DEF Below
    <2> QED BY <2>1, <2>2, <2>3, AccountingKept
  <1> QED BY <1>5, <1>6, <1>7, <1>8, <1>9 DEF IInv, Runs

-----------------------------------------------------------------------------
(* Deletes. *)

\* A delete gets further or ends, after those below it when it awaits them.
LEMMA DeleteMoves ==
  ASSUME IInv, NEW d \in Components, NEW s \in Slots, deletes[d][s].pc # "idle",
         deletes[d][s].pc = "await" => HandlesReady(d), UNCHANGED <<build, outlived>>,
         NEW to \in DeletePCs,
         deletes' \in DeleteType,
         \A x \in Components, t \in Slots : x # d \/ t # s => deletes'[x][t] = deletes[x][t],
         deletes'[d][s].pc = to,
         to # "idle" => deletes'[d][s].waited = deletes[d][s].waited,
         to \in {"preflight", "remove", "applied", "collect", "await"} => HoldsDelete(d, s) \/ ~Held(d)
  PROVE  Runs'
  <1>1. Permits'
    <2>1. \A x \in Components, t \in Slots : x # d \/ t # s => (HoldsDelete(x, t)' <=> HoldsDelete(x, t))
      BY DEF HoldsDelete
    <2>2. \A x \in Components : HoldsBuild(x)' <=> HoldsBuild(x) BY DEF HoldsBuild
    <2>3. HoldsDelete(d, s)' => HoldsDelete(d, s) \/ ~Held(d) BY DEF HoldsDelete
    <2>4. ~Held(d) => ~HoldsBuild(d) /\ \A t \in Slots : ~HoldsDelete(d, t)
      BY DEF Held, HoldsBuild, HoldsDelete
    <2> SUFFICES ASSUME NEW x \in Components, NEW t \in Slots, HoldsDelete(x, t)'
                 PROVE  ~HoldsBuild(x)' /\ \A u \in Slots : HoldsDelete(x, u)' => u = t
      BY DEF Permits
    <2>5. CASE x # d BY <2>1, <2>2, <2>5 DEF IInv, Runs, Permits
    <2>6. CASE x = d /\ t # s
      <3>1. HoldsDelete(d, t) BY <2>1, <2>6
      <3>2. Held(d) BY <2>4, <3>1
      <3>3. ~HoldsDelete(d, s)' BY <2>3, <2>6, <3>1, <3>2 DEF IInv, Runs, Permits
      <3> QED BY <2>1, <2>2, <2>6, <3>1, <3>3 DEF IInv, Runs, Permits
    <2>7. CASE x = d /\ t = s
      <3>1. HoldsDelete(d, s) \/ ~Held(d) BY <2>3, <2>7
      <3> QED BY <2>1, <2>2, <2>4, <2>7, <3>1 DEF IInv, Runs, Permits
    <2> QED BY <2>5, <2>6, <2>7
  <1>2. Nested' BY DEF IInv, Runs, Nested
  <1>3. Awaited'
    <2>1. d # Root BY DEF IInv, Runs, Awaited
    <2>2. \A t \in Slots : deletes'[Root][t].pc = "idle" BY <2>1, TreeFacts DEF IInv, Runs, Awaited
    <2> SUFFICES ASSUME NEW x \in Below \ outlived, NEW t \in Slots, deletes'[x][t].pc # "idle"
                 PROVE  /\ deletes'[x][t].waited
                        /\ \/ build[Parent[x]].pc = "await"
                           \/ \E u \in Slots : deletes'[Parent[x]][u].pc = "await"
      BY <2>2 DEF Awaited
    <2>3. x \in Components /\ Parent[x] \in Components BY TreeFacts DEF Below
    <2>4. deletes[x][t].pc # "idle" /\ deletes'[x][t].waited = deletes[x][t].waited
      BY <2>3
    <2>5. /\ deletes[x][t].waited
          /\ build[Parent[x]].pc = "await" \/ \E u \in Slots : deletes[Parent[x]][u].pc = "await"
      BY <2>4 DEF IInv, Runs, Awaited
    <2>6. CASE build[Parent[x]].pc = "await" BY <2>4, <2>5, <2>6
    <2>7. CASE \E u \in Slots : deletes[Parent[x]][u].pc = "await"
      <3>1. PICK u \in Slots : deletes[Parent[x]][u].pc = "await" BY <2>7
      <3>2. x \in Children(Parent[x]) BY TreeFacts
      <3>3. ~(Parent[x] = d /\ u = s) BY <2>5, <3>1, <3>2 DEF HandlesReady
      <3>4. deletes'[Parent[x]][u] = deletes[Parent[x]][u] BY <2>3, <3>3
      <3> QED BY <2>4, <2>5, <3>1, <3>4
    <2> QED BY <2>5, <2>6, <2>7
  <1> QED BY <1>1, <1>2, <1>3 DEF Runs

LEMMA DeleteGoes ==
  ASSUME IInv, NEW d \in Components, NEW s \in Slots, deletes[d][s].pc # "idle",
         deletes[d][s].pc = "await" => HandlesReady(d), UNCHANGED <<build, outlived>>,
         NEW to \in DeletePCs, GoDelete(d, s, to),
         to \in {"preflight", "remove", "applied", "collect", "await"} => HoldsDelete(d, s) \/ ~Held(d)
  PROVE  /\ Runs' /\ deletes' \in DeleteType
         /\ \A x \in Components, t \in Slots :
              deletes'[x][t].pc = IF x = d /\ t = s THEN to ELSE deletes[x][t].pc
  <1>1. /\ deletes' \in DeleteType
        /\ \A x \in Components, t \in Slots : deletes'[x][t].waited = deletes[x][t].waited
        /\ \A x \in Components, t \in Slots :
             deletes'[x][t].pc = IF x = d /\ t = s THEN to ELSE deletes[x][t].pc
    BY GoDeleteIs DEF IInv
  <1>2. \A x \in Components, t \in Slots : x # d \/ t # s => deletes'[x][t] = deletes[x][t]
    BY DEF GoDelete, IInv, TypeOK
  <1>3. deletes'[d][s].pc = to BY <1>1
  <1>4. to # "idle" => deletes'[d][s].waited = deletes[d][s].waited BY <1>1
  <1>5. Runs' BY <1>1, <1>2, <1>3, <1>4, DeleteMoves
  <1> QED BY <1>1, <1>5

LEMMA DeleteGone ==
  ASSUME IInv, NEW d \in Components, NEW s \in Slots, deletes[d][s].pc \notin {"idle", "await"},
         deletes' = [deletes EXCEPT ![d][s] = NoDelete], UNCHANGED <<build, outlived>>
  PROVE  /\ Runs' /\ deletes' \in DeleteType
         /\ \A x \in Components, t \in Slots :
              deletes'[x][t].pc = IF x = d /\ t = s THEN "idle" ELSE deletes[x][t].pc
  <1>1. deletes' \in DeleteType BY NoRuns DEF IInv, TypeOK, DeleteType
  <1>2. \A x \in Components, t \in Slots : x # d \/ t # s => deletes'[x][t] = deletes[x][t]
    BY DEF IInv, TypeOK
  <1>3. deletes'[d][s].pc = "idle" BY NoRuns DEF IInv, TypeOK
  <1>4. "idle" \in DeletePCs BY DEF DeletePCs
  <1>5. Runs' BY <1>1, <1>2, <1>3, <1>4, DeleteMoves
  <1> QED BY <1>1, <1>2, <1>3, <1>5

LEMMA CollectBelowInv ==
  ASSUME IInv, NEW d \in Components, NEW s \in Slots, CollectBelow(d, s) PROVE IInv'
  <1> DEFINE runs == [deletes EXCEPT ![d][s].pc = "await"]
  <1>1. /\ deletes[d][s].pc = "collect" /\ \A e \in Listed(d) : Free(e) # {}
        /\ deletes' = Spawned(d, runs)
        /\ UNCHANGED <<wanted, exists, tombstones, memo, sink, build, full, synced, outlived, bypassed>>
        /\ UNCHANGED <<changes, faults, cancels>>
    BY DEF CollectBelow, store, ghosts, bounds
  <1>2. /\ runs \in DeleteType
        /\ \A x \in Components, t \in Slots :
             x # d \/ t # s => runs[x][t] = deletes[x][t]
        /\ runs[d][s].pc = "await" /\ runs[d][s].waited = deletes[d][s].waited
    <2>1. deletes \in DeleteType BY DEF IInv, TypeOK, DeleteType
    <2>2. "await" \in DeletePCs BY DEF DeletePCs
    <2>3. runs \in DeleteType BY <2>1, <2>2 DEF DeleteType
    <2>4. \A x \in Components, t \in Slots : x # d \/ t # s => runs[x][t] = deletes[x][t]
      BY <2>1 DEF DeleteType
    <2>5. runs[d][s].pc = "await" /\ runs[d][s].waited = deletes[d][s].waited
      BY <2>1 DEF DeleteType
    <2> QED BY <2>3, <2>4, <2>5
  <1> HIDE DEF runs
  <1>3. /\ deletes' \in DeleteType
        /\ \A e \in Components, t \in Slots :
             \/ deletes'[e][t] = runs[e][t]
             \/ e \in Listed(d) /\ t \in Free(e) /\ deletes'[e][t] = Delete("start", TRUE)
    BY <1>1, <1>2, SpawnedIs
  <1>4. d # Root /\ d \in Below /\ Parent[d] \in Components /\ Parent[d] # d /\ d \notin Children(d)
    BY <1>1, TreeFacts DEF IInv, Runs, Awaited, Below
  <1>5. deletes'[d][s].pc = "await" /\ deletes'[d][s].waited = deletes[d][s].waited
    BY <1>2, <1>3, <1>4 DEF Listed
  <1>6. \A e \in Components, t \in Slots : e # d \/ t # s =>
          \/ deletes'[e][t] = deletes[e][t]
          \/ /\ e \in Children(d) /\ deletes[e][t].pc = "idle"
             /\ deletes'[e][t].pc = "start" /\ deletes'[e][t].waited
    BY <1>2, <1>3 DEF Listed, Free, Delete
  <1>7. TypeOK' BY <1>1, <1>3 DEF DeleteType, IInv, TypeOK
  <1>8. Permits'
    <2>1. \A x \in Components, t \in Slots : HoldsDelete(x, t)' => HoldsDelete(x, t)
      BY <1>1, <1>6 DEF HoldsDelete
    <2> QED BY <1>1, <2>1 DEF IInv, Runs, Permits, HoldsBuild
  <1>9. Nested' BY <1>1 DEF IInv, Runs, Nested
  <1>10. \A x \in Components, t \in Slots : deletes[x][t].pc = "await" => deletes'[x][t].pc = "await"
    BY <1>5, <1>6
  <1>11. Awaited'
    <2>1. \A t \in Slots : deletes'[Root][t].pc = "idle"
      BY <1>4, <1>6, TreeFacts DEF IInv, Runs, Awaited
    <2> SUFFICES ASSUME NEW x \in Below \ outlived, NEW t \in Slots, deletes'[x][t].pc # "idle"
                 PROVE  /\ deletes'[x][t].waited
                        /\ \/ build[Parent[x]].pc = "await"
                           \/ \E u \in Slots : deletes'[Parent[x]][u].pc = "await"
      BY <1>1, <2>1 DEF Awaited
    <2>2. x \in Components /\ Parent[x] \in Components BY TreeFacts DEF Below
    <2>3. CASE x \in Children(d)
      <3>1. Parent[x] = d /\ x # d BY <1>4, <2>3, TreeFacts
      <3>2. deletes[x][t].pc = "idle" BY <1>1, <3>1, Alone
      <3> QED BY <1>5, <1>6, <2>2, <3>1, <3>2
    <2>4. CASE x \notin Children(d)
      <3>1. deletes[x][t].pc # "idle" /\ deletes'[x][t].waited = deletes[x][t].waited
        BY <1>1, <1>5, <1>6, <2>2, <2>4
      <3>2. /\ deletes[x][t].waited
            /\ build[Parent[x]].pc = "await" \/ \E u \in Slots : deletes[Parent[x]][u].pc = "await"
        BY <3>1 DEF IInv, Runs, Awaited
      <3> QED BY <1>10, <2>2, <3>1, <3>2
    <2> QED BY <2>3, <2>4
  <1>12. RunsAccounted'
    <2>1. d \notin outlived => sink[d] = Absent
      BY <1>1, <1>4 DEF IInv, Accounting, RunsAccounted
    <2>2. \A x \in Components, t \in Slots :
            deletes'[x][t].pc \in {"remove", "applied", "collect", "await", "cleanup"} =>
              (x = d /\ t = s) \/ deletes[x][t].pc = deletes'[x][t].pc
      BY <1>6
    <2> QED BY <1>1, <1>5, <2>1, <2>2 DEF IInv, Accounting, RunsAccounted, Below
  <1>13. ChildrenAccounted' BY <1>1 DEF IInv, Accounting, ChildrenAccounted
  <1> QED BY <1>7, <1>8, <1>9, <1>11, <1>12, <1>13 DEF IInv, Runs, Accounting

LEMMA StartDeleteInv ==
  ASSUME IInv, NEW d \in Components, NEW s \in Slots, StartDelete(d, s) PROVE IInv'
  <1>1. /\ deletes[d][s].pc = "start" /\ ~Held(d) /\ GoDelete(d, s, "preflight")
        /\ memo' = [memo EXCEPT ![d] = Absent]
        /\ UNCHANGED <<wanted, exists, tombstones, sink, build, full, synced, outlived, bypassed>>
        /\ UNCHANGED <<changes, faults, cancels>>
    BY DEF StartDelete, ghosts, bounds
  <1>2. "preflight" \in DeletePCs BY DEF DeletePCs
  <1>3. /\ Runs' /\ deletes' \in DeleteType
        /\ \A x \in Components, t \in Slots :
             deletes'[x][t].pc = IF x = d /\ t = s THEN "preflight" ELSE deletes[x][t].pc
    BY <1>1, <1>2, DeleteGoes
  <1>4. memo' \in [Components -> States] /\ memo'[Root] = Absent
    BY <1>1 DEF IInv, TypeOK, States
  <1>5. TypeOK' BY <1>1, <1>3, <1>4 DEF DeleteType, IInv, TypeOK
  <1>6. Accounting' BY <1>1, <1>3, AccountingKept DEF Below
  <1> QED BY <1>3, <1>5, <1>6 DEF IInv

LEMMA PreflightInv ==
  ASSUME IInv, NEW d \in Components, NEW s \in Slots, Preflight(d, s) PROVE IInv'
  <1>1. /\ deletes[d][s].pc = "preflight"
        /\ UNCHANGED <<wanted, exists, tombstones, memo, sink, build, full, synced, outlived, bypassed>>
        /\ UNCHANGED <<changes, faults, cancels>>
    BY DEF Preflight, store, ghosts, bounds
  <1>2. PICK to \in DeletePCs :
          /\ GoDelete(d, s, to)
          /\ to \in {"remove", "cleanup"}
          /\ to = "remove" <=> d \notin exists
    <2>1. "remove" \in DeletePCs /\ "cleanup" \in DeletePCs BY DEF DeletePCs
    <2>2. d \in exists => GoDelete(d, s, "cleanup") BY DEF Preflight, Reinserted, GoDelete
    <2>3. d \notin exists => GoDelete(d, s, "remove") BY DEF Preflight, Reinserted, GoDelete
    <2>4. CASE d \in exists BY <2>1, <2>2, <2>4
    <2>5. CASE d \notin exists BY <2>1, <2>3, <2>5
    <2> QED BY <2>4, <2>5
  <1>3. HoldsDelete(d, s) BY <1>1 DEF HoldsDelete
  <1>4. /\ Runs' /\ deletes' \in DeleteType
        /\ \A x \in Components, t \in Slots :
             deletes'[x][t].pc = IF x = d /\ t = s THEN to ELSE deletes[x][t].pc
    BY <1>1, <1>2, <1>3, DeleteGoes
  <1>5. TypeOK' BY <1>1, <1>4 DEF DeleteType, IInv, TypeOK
  <1>6. Accounting'
    BY <1>1, <1>2, <1>4 DEF IInv, Accounting, RunsAccounted, ChildrenAccounted, Below
  <1> QED BY <1>4, <1>5, <1>6 DEF IInv

LEMMA RemoveInv ==
  ASSUME IInv, NEW d \in Components, NEW s \in Slots, Remove(d, s) PROVE IInv'
  <1>1. /\ deletes[d][s].pc = "remove" /\ GoDelete(d, s, "applied")
        /\ sink' = [sink EXCEPT ![d] = Absent] /\ bypassed' = bypassed \ {d}
        /\ UNCHANGED <<wanted, exists, tombstones, memo, build, full, synced, outlived>>
        /\ UNCHANGED <<changes, faults, cancels>>
    BY DEF Remove, store, bounds
  <1>2. "applied" \in DeletePCs /\ HoldsDelete(d, s) BY <1>1 DEF DeletePCs, HoldsDelete
  <1>3. /\ Runs' /\ deletes' \in DeleteType
        /\ \A x \in Components, t \in Slots :
             deletes'[x][t].pc = IF x = d /\ t = s THEN "applied" ELSE deletes[x][t].pc
    BY <1>1, <1>2, DeleteGoes
  <1>4. /\ sink' \in [Components -> States] /\ sink'[d] = Absent
        /\ \A x \in Components : sink'[x] = sink[x] \/ sink'[x] = Absent
    BY <1>1 DEF IInv, TypeOK, States
  <1>5. TypeOK' BY <1>1, <1>3, <1>4 DEF DeleteType, IInv, TypeOK
  <1>6. Accounting'
    BY <1>1, <1>3, <1>4, TreeFacts DEF IInv, Accounting, RunsAccounted, ChildrenAccounted, Below
  <1> QED BY <1>3, <1>5, <1>6 DEF IInv

LEMMA CommitDeleteInv ==
  ASSUME IInv, NEW d \in Components, NEW s \in Slots, CommitDelete(d, s) PROVE IInv'
  <1>1. /\ deletes[d][s].pc = "applied" /\ GoDelete(d, s, "collect")
        /\ exists' = exists \ Children(d)
        /\ tombstones' = tombstones \cup (exists \cap Children(d))
        /\ UNCHANGED <<wanted, memo, sink, build, full, synced, outlived, bypassed>>
        /\ UNCHANGED <<changes, faults, cancels>>
    BY DEF CommitDelete, Reconcile, ghosts, bounds
  <1>2. "collect" \in DeletePCs /\ HoldsDelete(d, s) BY <1>1 DEF DeletePCs, HoldsDelete
  <1>3. /\ Runs' /\ deletes' \in DeleteType
        /\ \A x \in Components, t \in Slots :
             deletes'[x][t].pc = IF x = d /\ t = s THEN "collect" ELSE deletes[x][t].pc
    BY <1>1, <1>2, DeleteGoes
  <1>4. TypeOK' BY <1>1, <1>3 DEF DeleteType, IInv, TypeOK
  <1>5. exists \cup tombstones = exists' \cup tombstones' BY <1>1
  <1>6. \A x \in Below \ outlived, t \in Slots :
          deletes[x][t].pc # "idle" => (x \in exists' <=> x \in exists)
    <2> SUFFICES ASSUME NEW x \in Below \ outlived, NEW t \in Slots, deletes[x][t].pc # "idle"
                 PROVE  x \in exists' <=> x \in exists
      OBVIOUS
    <2>1. Parent[x] # d BY <1>1, Alone
    <2> QED BY <1>1, <2>1, TreeFacts
  <1>7. d \notin outlived => sink[d] = Absent
    BY <1>1, TreeFacts DEF IInv, Accounting, RunsAccounted, Below
  <1>8. RunsAccounted'
    BY <1>1, <1>3, <1>5, <1>6, <1>7 DEF IInv, Accounting, RunsAccounted, Below
  <1>9. ChildrenAccounted' BY <1>1, <1>5 DEF IInv, Accounting, ChildrenAccounted
  <1> QED BY <1>3, <1>4, <1>8, <1>9 DEF IInv, Accounting

LEMMA ReleaseDeleteInv ==
  ASSUME IInv, NEW d \in Components, NEW s \in Slots, ReleaseDelete(d, s) PROVE IInv'
  <1>1. /\ deletes[d][s].pc = "await" /\ HandlesReady(d) /\ GoDelete(d, s, "cleanup")
        /\ UNCHANGED <<wanted, exists, tombstones, memo, sink, build, full, synced, outlived, bypassed>>
        /\ UNCHANGED <<changes, faults, cancels>>
    BY DEF ReleaseDelete, store, ghosts, bounds
  <1>2. "cleanup" \in DeletePCs BY DEF DeletePCs
  <1>3. /\ Runs' /\ deletes' \in DeleteType
        /\ \A x \in Components, t \in Slots :
             deletes'[x][t].pc = IF x = d /\ t = s THEN "cleanup" ELSE deletes[x][t].pc
    BY <1>1, <1>2, DeleteGoes
  <1>4. TypeOK' BY <1>1, <1>3 DEF DeleteType, IInv, TypeOK
  <1>5. d \notin outlived => sink[d] = Absent
    BY <1>1, TreeFacts DEF IInv, Accounting, RunsAccounted, Below
  <1>6. Accounting'
    BY <1>1, <1>3, <1>5 DEF IInv, Accounting, RunsAccounted, ChildrenAccounted, Below
  <1> QED BY <1>3, <1>4, <1>6 DEF IInv

LEMMA CleanupInv ==
  ASSUME IInv, NEW d \in Components, NEW s \in Slots, Cleanup(d, s) PROVE IInv'
  <1>1. /\ deletes[d][s].pc = "cleanup" /\ deletes' = [deletes EXCEPT ![d][s] = NoDelete]
        /\ tombstones' = tombstones \ {d}
        /\ UNCHANGED <<wanted, exists, memo, sink, build, full, synced, outlived, bypassed>>
        /\ UNCHANGED <<changes, faults, cancels>>
    BY DEF Cleanup, ghosts, bounds
  <1>2. /\ Runs' /\ deletes' \in DeleteType
        /\ \A x \in Components, t \in Slots :
             deletes'[x][t].pc = IF x = d /\ t = s THEN "idle" ELSE deletes[x][t].pc
    BY <1>1, DeleteGone
  <1>3. TypeOK' BY <1>1, <1>2 DEF DeleteType, IInv, TypeOK
  <1>4. d \in Below BY <1>1 DEF IInv, Runs, Awaited, Below
  <1>5. d \notin outlived => build[d].pc # "process" BY <1>1, <1>4, Alone
  <1>6. d \notin outlived => d \in exists \/ sink[d] = Absent
    BY <1>1, <1>4 DEF IInv, Accounting, RunsAccounted
  <1>7. RunsAccounted' BY <1>1, <1>2, <1>5 DEF IInv, Accounting, RunsAccounted, Below
  <1>8. ChildrenAccounted' BY <1>1, <1>6 DEF IInv, Accounting, ChildrenAccounted
  <1> QED BY <1>2, <1>3, <1>7, <1>8 DEF IInv, Accounting

LEMMA DeleteFailsInv ==
  ASSUME IInv, NEW d \in Components, NEW s \in Slots, DeleteFails(d, s) PROVE IInv'
  <1>1. /\ deletes[d][s].pc \notin {"idle", "await"} /\ deletes' = [deletes EXCEPT ![d][s] = NoDelete]
        /\ faults < MaxFaults /\ faults' = faults + 1
        /\ UNCHANGED <<wanted, exists, tombstones, memo, sink, build, full, synced, outlived, bypassed>>
        /\ UNCHANGED <<changes, cancels>>
    BY DEF DeleteFails, store, ghosts
  <1>2. /\ Runs' /\ deletes' \in DeleteType
        /\ \A x \in Components, t \in Slots :
             deletes'[x][t].pc = IF x = d /\ t = s THEN "idle" ELSE deletes[x][t].pc
    BY <1>1, DeleteGone
  <1>3. faults' \in 0..MaxFaults BY <1>1, TreeBounds DEF IInv, TypeOK
  <1>4. TypeOK' BY <1>1, <1>2, <1>3 DEF DeleteType, IInv, TypeOK
  <1>5. Accounting' BY <1>1, <1>2, AccountingKept DEF Below
  <1> QED BY <1>2, <1>4, <1>5 DEF IInv

-----------------------------------------------------------------------------
(* The sources, cancellation and crashes. *)

LEMMA ChangeWantedInv == ASSUME IInv, ChangeWanted PROVE IInv'
  <1>1. /\ changes' = changes + 1 /\ changes < MaxChanges /\ synced' = FALSE
        /\ UNCHANGED <<exists, tombstones, memo, sink, build, deletes, full>>
        /\ UNCHANGED <<outlived, bypassed, faults, cancels>>
    BY DEF ChangeWanted, store
  <1>2. wanted' \in [Tops -> States] BY DEF ChangeWanted, IInv, TypeOK
  <1>3. changes' \in 0..MaxChanges BY <1>1, TreeBounds DEF IInv, TypeOK
  <1>4. TypeOK' BY <1>1, <1>2, <1>3 DEF IInv, TypeOK
  <1>5. Runs'
    BY <1>1 DEF IInv, Runs, Permits, Nested, Awaited, HoldsBuild, HoldsDelete
  <1>6. Accounting' BY <1>1, AccountingKept
  <1> QED BY <1>4, <1>5, <1>6 DEF IInv

LEMMA CancelInv == ASSUME IInv, Cancel PROVE IInv'
  <1>1. /\ cancels < MaxCancels /\ cancels' = cancels + 1
        /\ build' = [c \in Components |-> NoBuild]
        /\ UNCHANGED <<wanted, exists, tombstones, memo, sink, full, synced, bypassed, changes, faults>>
    BY DEF Cancel, store
  <1>2. /\ outlived \subseteq outlived' /\ outlived' \subseteq Components
        /\ \A d \in Components \ outlived' : ~Active(d)
    BY DEF Cancel, Children, IInv, TypeOK
  <1>3. /\ deletes' \in DeleteType
        /\ \A d \in Components, s \in Slots : deletes'[d][s].pc = deletes[d][s].pc
    <2> DEFINE dropped(d) == d # Root /\ build[Parent[d]].pc = "await"
    <2>1. deletes \in DeleteType BY DEF IInv, TypeOK, DeleteType
    <2>2. deletes' = [d \in Components |-> [s \in Slots |->
            IF dropped(d) THEN [deletes[d][s] EXCEPT !.waited = FALSE] ELSE deletes[d][s]]]
      BY DEF Cancel
    <2> HIDE DEF dropped
    <2>3. \A d \in Components, s \in Slots :
            /\ [deletes[d][s] EXCEPT !.waited = FALSE] \in [pc : DeletePCs, waited : BOOLEAN]
            /\ [deletes[d][s] EXCEPT !.waited = FALSE].pc = deletes[d][s].pc
      <3> SUFFICES ASSUME NEW d \in Components, NEW s \in Slots
                   PROVE  /\ [deletes[d][s] EXCEPT !.waited = FALSE] \in [pc : DeletePCs, waited : BOOLEAN]
                          /\ [deletes[d][s] EXCEPT !.waited = FALSE].pc = deletes[d][s].pc
        OBVIOUS
      <3>1. deletes[d][s] \in [pc : DeletePCs, waited : BOOLEAN] BY <2>1 DEF DeleteType
      <3> QED BY <3>1
    <2>4. deletes' \in DeleteType BY <2>1, <2>2, <2>3 DEF DeleteType
    <2>5. \A d \in Components, s \in Slots : deletes'[d][s].pc = deletes[d][s].pc
      BY <2>2, <2>3
    <2> QED BY <2>4, <2>5
  <1>4. build' \in BuildType /\ \A c \in Components : build'[c].pc = "idle" /\ build'[c].want = Absent
    BY <1>1, NoRuns DEF BuildType
  <1>5. cancels' \in 0..MaxCancels BY <1>1, TreeBounds DEF IInv, TypeOK
  <1>6. TypeOK' BY <1>1, <1>2, <1>3, <1>4, <1>5 DEF BuildType, DeleteType, IInv, TypeOK
  <1>7. Permits' BY <1>3, <1>4 DEF IInv, Runs, Permits, HoldsBuild, HoldsDelete
  <1>8. Nested' BY <1>4, TreeFacts DEF Nested, Below
  <1>9. Awaited' BY <1>2, <1>3, TreeFacts DEF IInv, Runs, Awaited, Active, Below
  <1>10. Accounting' BY <1>1, <1>2, <1>3, <1>4, AccountingKept DEF Below
  <1> QED BY <1>6, <1>7, <1>8, <1>9, <1>10 DEF IInv, Runs

LEMMA CrashInv == ASSUME IInv, Crash PROVE IInv'
  <1>1. /\ faults < MaxFaults /\ faults' = faults + 1
        /\ build' = [c \in Components |-> NoBuild]
        /\ deletes' = [c \in Components |-> [s \in Slots |-> NoDelete]]
        /\ full' = FALSE
        /\ UNCHANGED <<wanted, exists, tombstones, memo, sink, synced, outlived, bypassed, changes, cancels>>
    BY DEF Crash, store, ghosts
  <1>2. /\ deletes' \in DeleteType
        /\ \A d \in Components, s \in Slots : deletes'[d][s].pc = "idle"
    BY <1>1, NoRuns DEF DeleteType
  <1>3. build' \in BuildType /\ \A c \in Components : build'[c].pc = "idle" /\ build'[c].want = Absent
    BY <1>1, NoRuns DEF BuildType
  <1>4. faults' \in 0..MaxFaults BY <1>1, TreeBounds DEF IInv, TypeOK
  <1>5. TypeOK' BY <1>1, <1>2, <1>3, <1>4 DEF BuildType, DeleteType, IInv, TypeOK
  <1>6. Runs' BY <1>2, <1>3, TreeFacts DEF Runs, Permits, Nested, Awaited, HoldsDelete, Below
  <1>7. Accounting' BY <1>1, <1>2, <1>3, AccountingKept DEF Below
  <1> QED BY <1>5, <1>6, <1>7 DEF IInv

LEMMA NextInv == IInv /\ [Next]_vars => IInv'
  <1> SUFFICES ASSUME IInv, [Next]_vars PROVE IInv' OBVIOUS
  <1>1. CASE UNCHANGED vars
    <2>1. /\ UNCHANGED <<wanted, exists, tombstones, memo, sink, build, deletes, full>>
          /\ UNCHANGED <<synced, outlived, bypassed, changes, faults, cancels>>
      BY <1>1 DEF vars, store, ghosts, bounds
    <2>2. TypeOK' BY <2>1 DEF IInv, TypeOK
    <2>3. Runs' BY <2>1 DEF IInv, Runs, Permits, Nested, Awaited, HoldsBuild, HoldsDelete
    <2>4. Accounting' BY <2>1, AccountingKept
    <2> QED BY <2>2, <2>3, <2>4 DEF IInv
  <1>2. CASE ChangeWanted \/ StartUpdate \/ Cancel \/ Crash
    BY <1>2, ChangeWantedInv, StartUpdateInv, CancelInv, CrashInv
  <1>3. ASSUME NEW c \in Components, BuildStep(c) \/ RestoreFails(c) \/ BuildFails(c) PROVE IInv'
    BY <1>3, EndInv, MissInv, ProcessInv, ApplyInv, CommitInv, CollectInv DEF BuildStep
  <1>4. ASSUME NEW d \in Components, NEW s \in Slots, DeleteStep(d, s) \/ DeleteFails(d, s) PROVE IInv'
    BY <1>4, StartDeleteInv, PreflightInv, RemoveInv, CommitDeleteInv, CollectBelowInv,
       ReleaseDeleteInv, CleanupInv, DeleteFailsInv DEF DeleteStep
  <1> QED BY <1>1, <1>2, <1>3, <1>4 DEF Next

LEMMA ExistingSparedStep ==
  ASSUME IInv, [Next]_vars, NEW c \in Components \ outlived, sink[c] # Absent, sink'[c] = Absent
  PROVE  c \notin exists'
  <1>1. c \in Below BY DEF IInv, Accounting, RunsAccounted, Below
  <1>2. CASE UNCHANGED sink BY <1>2
  <1>3. ASSUME NEW d \in Components, Apply(d) PROVE c \notin exists'
    <2>1. sink' = [sink EXCEPT ![d] = build[d].want] /\ build[d].pc = "process" BY <1>3 DEF Apply
    <2>2. c = d BY <2>1 DEF IInv, TypeOK
    <2>3. build[c].want # Absent BY <1>1, <2>1, <2>2 DEF IInv, Runs, Nested
    <2> QED BY <2>1, <2>2, <2>3 DEF IInv, TypeOK
  <1>4. ASSUME NEW d \in Components, NEW s \in Slots, Remove(d, s) PROVE c \notin exists'
    <2>1. sink' = [sink EXCEPT ![d] = Absent] /\ deletes[d][s].pc = "remove" /\ exists' = exists
      BY <1>4 DEF Remove, store
    <2>2. c = d BY <2>1 DEF IInv, TypeOK
    <2> QED BY <1>1, <2>1, <2>2 DEF IInv, Accounting, RunsAccounted
  <1>5. \/ UNCHANGED sink \/ \E d \in Components : Apply(d)
        \/ \E d \in Components, s \in Slots : Remove(d, s)
    BY DEF Next, vars, ChangeWanted, StartUpdate, Cancel, Crash, BuildStep, RestoreFails, BuildFails,
           DeleteStep, DeleteFails, Hit, Miss, Process, Commit, Collect, Release, Finish,
           StartDelete, Preflight, CommitDelete, CollectBelow, ReleaseDelete, Cleanup
  <1> QED BY <1>2, <1>3, <1>4, <1>5

-----------------------------------------------------------------------------
(* What memos stand for and what the sources want.  The invariant is the   *)
(* one above with what builds and deletes have done up to their pc.        *)

Running == {"wait", "process", "applied", "collect", "await", "finish"}
Past == {"process", "applied", "collect", "await", "finish"}
InSink == {"applied", "collect", "await", "finish"}
Committed == {"collect", "await", "finish"}
Deleting == {"remove", "applied", "collect", "await"}

\* Components that a delete outlived, and those below them.
BelowOf(cs) == {c \in Below : Parent[c] \in cs}
Gone == outlived \cup BelowOf(outlived)
PassedBy == bypassed \cup Gone

\* A build that is under way has deleted the memo of its component, or passed it by.
BuildMemos ==
  /\ Root \notin bypassed
  /\ \A c \in Below \ outlived : build[c].pc \in Running /\ memo[c] # Absent => c \in bypassed

\* A build leaves in the sink what it was mounted with, and the rows of what it mounts.
BuildEffects ==
  /\ \A c \in Below \ outlived : build[c].pc \in InSink => sink[c] = build[c].want
  /\ \A c \in Components \ outlived : build[c].pc \in Committed => Mounted(c) \subseteq exists
  /\ \A c \in Below : \A d \in Children(c) :
       build[c].pc \in Past => build[d].want = MountedWith(c, build[c].want, d)

\* A delete has taken the memo with it, and meets no component that exists.
DeleteEffects ==
  /\ Root \notin outlived
  /\ \A c \in Below \ outlived, s \in Slots :
       /\ deletes[c][s].pc \notin {"idle", "start"} => memo[c] = Absent
       /\ deletes[c][s].pc \in Deleting => c \notin exists

\* c and what it mounts when it processes v have v in the sink.
Holds(c, v) ==
  /\ sink[c] = v
  /\ \A d \in Children(c) \cap Mounts[v] : d \in exists /\ (d \notin PassedBy => sink[d] = v)

MemosHold == \A c \in Below \ PassedBy : memo[c] # Absent => Holds(c, memo[c])
DoneHold ==
  \A c \in Below \ PassedBy : build[c].pc = "done" /\ ~build[c].failed => Holds(c, build[c].want)

\* Builds of an update after one that succeeded are mounted with what is wanted.
WantsStand == synced /\ build[Root].pc \in Past => UpToDate

\* What is wanted exists and is in the sink.
WantedHolds ==
  synced => \A c \in Below \ (Gone \cup BelowOf(bypassed)) :
    Want(c) # Absent => c \in exists /\ (c \notin bypassed => sink[c] = Want(c))

Effects == BuildMemos /\ BuildEffects /\ DeleteEffects
Holding == MemosHold /\ DoneHold
Wanting == WantsStand /\ WantedHolds

MemoInv == IInv /\ Effects /\ Holding /\ Wanting

LEMMA InitMemoInv == Init => MemoInv
  <1> SUFFICES ASSUME Init PROVE MemoInv OBVIOUS
  <1>1. IInv BY InitInv
  <1>2. /\ \A c \in Components : build[c].pc = "idle" /\ memo[c] = Absent
        /\ \A c \in Components, s \in Slots : deletes[c][s].pc = "idle"
        /\ bypassed = {} /\ outlived = {} /\ synced = FALSE
    BY NoRuns DEF Init
  <1>3. \A c \in Below : c \in Components BY DEF Below
  <1>4. build[Root].pc = "idle" BY <1>2, TreeFacts
  <1>5. Effects
    BY <1>2, <1>3 DEF Effects, BuildMemos, BuildEffects, DeleteEffects, Running, Past, InSink, Committed,
       Deleting
  <1>6. Holding BY <1>2, <1>3 DEF Holding, MemosHold, DoneHold
  <1>7. Wanting BY <1>2 DEF Wanting, WantsStand, WantedHolds
  <1> QED BY <1>1, <1>5, <1>6, <1>7 DEF MemoInv

-----------------------------------------------------------------------------
(* Which steps change what. *)

LEMMA SinkChanges ==
  ASSUME IInv, [Next]_vars, NEW c \in Components
  PROVE  sink'[c] = sink[c] \/ Apply(c) \/ \E s \in Slots : Remove(c, s)
  <1>1. \/ UNCHANGED sink \/ \E d \in Components : Apply(d)
        \/ \E d \in Components, s \in Slots : Remove(d, s)
    BY DEF Next, vars, ChangeWanted, StartUpdate, Cancel, Crash, BuildStep, RestoreFails, BuildFails,
           DeleteStep, DeleteFails, Hit, Miss, Process, Commit, Collect, Release, Finish,
           StartDelete, Preflight, CommitDelete, CollectBelow, ReleaseDelete, Cleanup
  <1>2. ASSUME NEW d \in Components, Apply(d), d # c PROVE sink'[c] = sink[c]
    BY <1>2 DEF Apply, IInv, TypeOK
  <1>3. ASSUME NEW d \in Components, NEW s \in Slots, Remove(d, s), d # c PROVE sink'[c] = sink[c]
    BY <1>3 DEF Remove, IInv, TypeOK
  <1> QED BY <1>1, <1>2, <1>3

LEMMA MemoChanges ==
  ASSUME IInv, [Next]_vars, NEW c \in Components, memo'[c] # memo[c], memo'[c] # Absent
  PROVE  c # Root /\ Finish(c) /\ ~ChildFailed(c) /\ memo'[c] = build[c].want
  <1>1. \/ UNCHANGED memo
        \/ \E d \in Components : Miss(d) \/ Finish(d)
        \/ \E d \in Components, s \in Slots : StartDelete(d, s)
    BY DEF Next, vars, store, ChangeWanted, StartUpdate, Cancel, Crash, BuildStep, RestoreFails, BuildFails,
           DeleteStep, DeleteFails, Hit, Process, Apply, Commit, Collect, Release,
           Preflight, Remove, CommitDelete, CollectBelow, ReleaseDelete, Cleanup
  <1>2. \A d \in Components : ~Miss(d) BY DEF Miss, Invalidated, IInv, TypeOK
  <1>3. \A d \in Components, s \in Slots : ~StartDelete(d, s) BY DEF StartDelete, IInv, TypeOK
  <1>4. PICK d \in Components : Finish(d) BY <1>1, <1>2, <1>3
  <1>5. d # Root /\ ~ChildFailed(d) /\ memo' = [memo EXCEPT ![d] = build[d].want] BY <1>4 DEF Finish
  <1>6. d = c /\ memo'[c] = build[c].want BY <1>5 DEF IInv, TypeOK
  <1> QED BY <1>4, <1>5, <1>6

LEMMA BypassedChanges ==
  ASSUME [Next]_vars, NEW c, c \in bypassed, c \notin bypassed'
  PROVE  c \in Components /\ ((Finish(c) /\ ~ChildFailed(c)) \/ \E s \in Slots : Remove(c, s))
  <1>1. \/ bypassed \subseteq bypassed'
        \/ \E d \in Components : Finish(d)
        \/ \E d \in Components, s \in Slots : Remove(d, s)
    BY DEF Next, vars, ghosts, ChangeWanted, StartUpdate, Cancel, Crash, BuildStep, RestoreFails, BuildFails,
           DeleteStep, DeleteFails, Hit, Miss, Process, Apply, Commit, Collect, Release,
           StartDelete, Preflight, CommitDelete, CollectBelow, ReleaseDelete, Cleanup
  <1>2. ASSUME NEW d \in Components, Finish(d) PROVE c = d /\ ~ChildFailed(d) BY <1>2 DEF Finish
  <1>3. ASSUME NEW d \in Components, NEW s \in Slots, Remove(d, s) PROVE c = d BY <1>3 DEF Remove
  <1> QED BY <1>1, <1>2, <1>3

LEMMA BypassedGrows ==
  ASSUME [Next]_vars, NEW c, c \notin bypassed, c \in bypassed'
  PROVE  memo'[c] # Absent
  <1>1. \/ bypassed' \subseteq bypassed
        \/ \E d \in Components : Miss(d) \/ RestoreFails(d)
    BY DEF Next, vars, ghosts, ChangeWanted, StartUpdate, Cancel, Crash, BuildStep, BuildFails,
           DeleteStep, DeleteFails, Hit, Finish, Process, Apply, Commit, Collect, Release, Remove,
           StartDelete, Preflight, CommitDelete, CollectBelow, ReleaseDelete, Cleanup
  <1>2. ASSUME NEW d \in Components, Miss(d) PROVE memo'[c] # Absent BY <1>2 DEF Miss
  <1>3. ASSUME NEW d \in Components, RestoreFails(d) PROVE memo'[c] # Absent
    BY <1>3 DEF RestoreFails, store
  <1> QED BY <1>1, <1>2, <1>3

LEMMA OutlivedGrows ==
  ASSUME IInv, [Next]_vars
  PROVE  outlived \subseteq outlived' /\ (Root \notin outlived => Root \notin outlived')
  <1>1. UNCHANGED outlived \/ Cancel
    BY DEF Next, vars, ghosts, ChangeWanted, StartUpdate, Crash, BuildStep, BuildFails, RestoreFails, Miss,
           DeleteStep, DeleteFails, Hit, Finish, Process, Apply, Commit, Collect, Release, Remove,
           StartDelete, Preflight, CommitDelete, CollectBelow, ReleaseDelete, Cleanup
  <1>2. ~Active(Root) BY DEF IInv, Runs, Awaited, Active
  <1>3. Cancel => outlived \subseteq outlived' /\ (Root \notin outlived => Root \notin outlived')
    BY <1>2, TreeFacts DEF Cancel
  <1> QED BY <1>1, <1>3

LEMMA ExistsChanges ==
  ASSUME [Next]_vars, NEW c \in Below, ~(c \in exists' <=> c \in exists)
  PROVE  \/ Process(c)
         \/ Commit(Parent[c]) /\ (c \in exists' <=> c \in Mounted(Parent[c]))
         \/ \E s \in Slots : CommitDelete(Parent[c], s) /\ c \notin exists'
  <1>1. \/ UNCHANGED exists
        \/ \E d \in Components : Process(d) \/ Commit(d)
        \/ \E d \in Components, s \in Slots : CommitDelete(d, s)
    BY DEF Next, vars, store, ChangeWanted, StartUpdate, Cancel, Crash, BuildStep, RestoreFails, BuildFails,
           DeleteStep, DeleteFails, Hit, Miss, Finish, Apply, Collect, Release, Remove,
           StartDelete, Preflight, CollectBelow, ReleaseDelete, Cleanup
  <1>2. ASSUME NEW d \in Components, Process(d) PROVE c = d BY <1>2 DEF Process, Upserted
  <1>3. \A d : c \in Children(d) <=> Parent[c] = d BY TreeFacts
  <1>4. ASSUME NEW d \in Components, Commit(d)
        PROVE  d = Parent[c] /\ (c \in exists' <=> c \in Mounted(d))
    <2>1. exists' = (exists \ Children(d)) \cup Mounted(d) BY <1>4 DEF Commit, Reconcile
    <2>2. Mounted(d) \subseteq Children(d) BY DEF Mounted
    <2> QED BY <1>3, <2>1, <2>2
  <1>5. ASSUME NEW d \in Components, NEW s \in Slots, CommitDelete(d, s)
        PROVE  d = Parent[c] /\ c \notin exists'
    <2>1. exists' = exists \ Children(d) BY <1>5 DEF CommitDelete, Reconcile
    <2> QED BY <1>3, <2>1
  <1> QED BY <1>1, <1>2, <1>4, <1>5

LEMMA SyncedChanges ==
  ASSUME [Next]_vars, synced'
  PROVE  wanted' = wanted /\ (synced \/ Finish(Root))
  <1>1. UNCHANGED <<wanted, synced>> \/ ChangeWanted \/ \E d \in Components : Finish(d)
    BY DEF Next, vars, ghosts, StartUpdate, Cancel, Crash, BuildStep, BuildFails, RestoreFails, Miss,
           DeleteStep, DeleteFails, Hit, Process, Apply, Commit, Collect, Release, Remove,
           StartDelete, Preflight, CommitDelete, CollectBelow, ReleaseDelete, Cleanup
  <1>2. ~ChangeWanted BY DEF ChangeWanted
  <1>3. ASSUME NEW d \in Components, Finish(d)
        PROVE  wanted' = wanted /\ (synced \/ d = Root)
    BY <1>3 DEF Finish
  <1> QED BY <1>1, <1>2, <1>3

\* Process mounts the children.
LEMMA ProcessMounts ==
  ASSUME IInv, NEW c \in Components, Process(c)
  PROVE  /\ build[c].pc = "wait" /\ build'[c].pc = "process" /\ build'[c].want = build[c].want
         /\ \A d \in Children(c) : /\ build[d].pc = "idle" /\ build'[d].pc \in {"idle", "check"}
                                   /\ build'[d].want = MountedWith(c, build[c].want, d)
         /\ \A d \in Components \ (Children(c) \cup {c}) : build'[d] = build[d]
  <1> DEFINE with(d) == MountedWith(c, build[c].want, d)
  <1>1. build[c].pc = "wait" BY DEF Process
  <1>2. c \notin Children(c) BY TreeFacts
  <1>3. build'[c] = [build[c] EXCEPT !.pc = "process"] BY <1>2 DEF Process
  <1>4. build'[c].pc = "process" /\ build'[c].want = build[c].want BY <1>3 DEF IInv, TypeOK
  <1>5. \A d \in Children(c) : d \in Components /\ d # c BY <1>2 DEF Children
  <1>6. \A d \in Children(c) : with(d) # Absent => build'[d] = Build("check", with(d), FALSE)
    BY <1>5 DEF Process
  <1>7. \A d \in Children(c) : with(d) = Absent => build'[d] = build[d] BY <1>5 DEF Process
  <1>8. \A d \in Children(c) : build[d].pc = "idle" /\ build[d].want = Absent
    BY <1>1, TreeFacts DEF IInv, Runs, Nested
  <1>9. \A d \in Components \ (Children(c) \cup {c}) : build'[d] = build[d] BY DEF Process
  <1> HIDE DEF with
  <1>10. ASSUME NEW d \in Children(c)
         PROVE  build'[d].pc \in {"idle", "check"} /\ build'[d].want = with(d)
    <2>1. CASE with(d) = Absent BY <1>7, <1>8, <2>1
    <2>2. CASE with(d) # Absent
      <3>1. build'[d] = Build("check", with(d), FALSE) BY <1>6, <2>2
      <3>2. Build("check", with(d), FALSE).pc = "check" /\ Build("check", with(d), FALSE).want = with(d)
        BY DEF Build
      <3> QED BY <3>1, <3>2
    <2> QED BY <2>1, <2>2
  <1> QED BY <1>1, <1>4, <1>8, <1>9, <1>10 DEF with

\* What a step has done to a build that it did not leave alone.
Dropped(x) == build'[x].pc = "idle" /\ (x # Root => build'[Parent[x]].pc \in {"idle", "done"})
MountedBy(x) == x # Root /\ Process(Parent[x]) /\ build'[x].pc \in {"idle", "check"}
EndsIn(x) ==
  /\ build'[x].pc = "done"
  /\ Hit(x) \/ (Finish(x) /\ build'[x].failed = ChildFailed(x)) \/ build'[x].failed = TRUE
GoesOn(x) ==
  \/ x = Root /\ build'[x].pc = "wait"
  \/ (Miss(x) \/ RestoreFails(x)) /\ build'[x].pc = "wait"
  \/ Process(x) /\ build'[x].pc = "process"
  \/ Apply(x) /\ build'[x].pc = "applied"
  \/ Commit(x) /\ build'[x].pc = "collect"
  \/ build[x].pc = "collect" /\ build'[x].pc = "await"
  \/ build[x].pc = "await" /\ build'[x].pc = "finish"

LEMMA EndedIs ==
  ASSUME IInv, NEW c \in Components, NEW f \in BOOLEAN, build' = Ended(c, f)
  PROVE  /\ c = Root => build'[c].pc = "idle"
         /\ c # Root => build'[c].pc = "done" /\ build'[c].want = build[c].want /\ build'[c].failed = f
         /\ \A d \in Children(c) : build'[d].pc = "idle"
         /\ \A d \in Components \ (Children(c) \cup {c}) : build'[d] = build[d]
  <1>1. c \notin Children(c) BY TreeFacts
  <1>2. build'[c] = IF c = Root THEN NoBuild ELSE Build("done", build[c].want, f) BY <1>1 DEF Ended
  <1>3. \A d \in Children(c) : d # c /\ d \in Components /\ build'[d] = NoBuild
    BY <1>1 DEF Ended, Children
  <1>4. \A d \in Components \ (Children(c) \cup {c}) : build'[d] = build[d] BY DEF Ended
  <1>5. /\ Build("done", build[c].want, f).pc = "done"
        /\ Build("done", build[c].want, f).want = build[c].want
        /\ Build("done", build[c].want, f).failed = f
    BY DEF Build
  <1> QED BY <1>2, <1>3, <1>4, <1>5, NoRuns

LEMMA BuildFrame ==
  ASSUME IInv, [Next]_vars, NEW x \in Components
  PROVE  \/ build'[x] = build[x]
         \/ Dropped(x)
         \/ MountedBy(x)
         \/ build'[x].want = build[x].want /\ (EndsIn(x) \/ GoesOn(x))
  <1>1. ASSUME NEW c \in Components, x # c, NEW to \in BuildPCs, GoBuild(c, to)
        PROVE  build'[x] = build[x]
    BY <1>1 DEF GoBuild, IInv, TypeOK
  <1>2. ASSUME NEW to \in BuildPCs, GoBuild(x, to)
        PROVE  build'[x].pc = to /\ build'[x].want = build[x].want
    BY <1>2, GoBuildIs DEF IInv
  <1>3. ASSUME NEW c \in Components, x # c, NEW f \in BOOLEAN, build' = Ended(c, f)
        PROVE  build'[x] = build[x] \/ Dropped(x)
    <2>1. CASE x \in Children(c)
      <3>1. Parent[x] = c BY <2>1, TreeFacts
      <3> QED BY <1>3, <2>1, <3>1, EndedIs DEF Dropped
    <2> QED BY <1>3, <2>1, EndedIs
  <1>4. ASSUME NEW c \in Components, x # c, Process(c) PROVE build'[x] = build[x] \/ MountedBy(x)
    <2>1. CASE x \in Children(c)
      <3>1. Parent[x] = c /\ x # Root BY <2>1, TreeFacts
      <3> QED BY <1>4, <2>1, <3>1, ProcessMounts DEF MountedBy
    <2> QED BY <1>4, <2>1, ProcessMounts
  <1>5. CASE UNCHANGED build BY <1>5
  <1>6. CASE StartUpdate
    <2>1. GoBuild(Root, "wait") /\ Root \in Components /\ "wait" \in BuildPCs
      BY <1>6, TreeFacts DEF StartUpdate, BuildPCs
    <2> QED BY <1>1, <1>2, <2>1 DEF GoesOn
  <1>7. CASE Cancel \/ Crash
    <2>1. \A c \in Components : build'[c].pc = "idle" BY <1>7, NoRuns DEF Cancel, Crash
    <2> QED BY <2>1, TreeFacts DEF Dropped, Below
  <1>8. ASSUME NEW c \in Components, Hit(c) \/ Finish(c) \/ BuildFails(c)
        PROVE  \/ build'[x] = build[x] \/ Dropped(x)
               \/ build'[x].want = build[x].want /\ EndsIn(x)
    <2>1. PICK f \in BOOLEAN :
            build' = Ended(c, f) /\ (Hit(c) \/ (Finish(c) /\ f = ChildFailed(c)) \/ f = TRUE)
      BY <1>8 DEF Hit, Finish, BuildFails, ChildFailed
    <2>2. CASE x # c BY <1>3, <2>1, <2>2
    <2>3. CASE x = c /\ x = Root BY <2>1, <2>3, EndedIs DEF Dropped
    <2>4. CASE x = c /\ x # Root BY <2>1, <2>4, EndedIs DEF EndsIn
    <2> QED BY <2>2, <2>3, <2>4
  <1>9. ASSUME NEW c \in Components,
               Miss(c) \/ RestoreFails(c) \/ Apply(c) \/ Commit(c) \/ Collect(c) \/ Release(c)
        PROVE  build'[x] = build[x] \/ (build'[x].want = build[x].want /\ GoesOn(x))
    <2>1. PICK to \in BuildPCs : /\ GoBuild(c, to)
                                 /\ \/ (Miss(c) \/ RestoreFails(c)) /\ to = "wait"
                                    \/ Apply(c) /\ to = "applied"
                                    \/ Commit(c) /\ to = "collect"
                                    \/ build[c].pc = "collect" /\ to = "await"
                                    \/ build[c].pc = "await" /\ to = "finish"
      <3>1. {"wait", "applied", "collect", "await", "finish"} \subseteq BuildPCs BY DEF BuildPCs
      <3>2. CASE Miss(c) \/ RestoreFails(c) BY <3>1, <3>2 DEF Miss, RestoreFails
      <3>3. CASE Apply(c) BY <3>1, <3>3 DEF Apply
      <3>4. CASE Commit(c) BY <3>1, <3>4 DEF Commit
      <3>5. CASE Collect(c) BY <3>1, <3>5 DEF Collect
      <3>6. CASE Release(c) BY <3>1, <3>6 DEF Release
      <3> QED BY <1>9, <3>2, <3>3, <3>4, <3>5, <3>6
    <2>2. CASE x # c BY <1>1, <2>1, <2>2
    <2>3. CASE x = c BY <1>2, <2>1, <2>3 DEF GoesOn
    <2> QED BY <2>2, <2>3
  <1>10. ASSUME NEW c \in Components, Process(c)
         PROVE  \/ build'[x] = build[x] \/ MountedBy(x)
                \/ build'[x].want = build[x].want /\ GoesOn(x)
    <2>1. CASE x # c BY <1>4, <1>10, <2>1
    <2>2. CASE x = c BY <1>10, <2>2, ProcessMounts DEF GoesOn
    <2> QED BY <2>1, <2>2
  <1>11. ASSUME NEW d \in Components, NEW s \in Slots, DeleteStep(d, s) \/ DeleteFails(d, s)
         PROVE  UNCHANGED build
    BY <1>11 DEF DeleteStep, DeleteFails, StartDelete, Preflight, Remove, CommitDelete, CollectBelow,
           ReleaseDelete, Cleanup
  <1>12. ChangeWanted \/ UNCHANGED vars => UNCHANGED build BY DEF ChangeWanted, vars
  <1> QED BY <1>5, <1>6, <1>7, <1>8, <1>9, <1>10, <1>11, <1>12 DEF Next, BuildStep

LEMMA DeleteFrame ==
  ASSUME IInv, [Next]_vars, NEW x \in Components, NEW t \in Slots
  PROVE  /\ deletes'[x][t].pc \notin {"idle", "start"} =>
              deletes[x][t].pc \notin {"idle", "start"} \/ StartDelete(x, t)
         /\ deletes'[x][t].pc \in Deleting =>
              deletes[x][t].pc \in Deleting \/ (Preflight(x, t) /\ x \notin exists)
  <1> DEFINE Goal == /\ deletes'[x][t].pc \notin {"idle", "start"} =>
                          deletes[x][t].pc \notin {"idle", "start"} \/ StartDelete(x, t)
                     /\ deletes'[x][t].pc \in Deleting =>
                          deletes[x][t].pc \in Deleting \/ (Preflight(x, t) /\ x \notin exists)
  <1> SUFFICES Goal OBVIOUS
  <1>1. ASSUME deletes'[x][t].pc = deletes[x][t].pc \/ deletes'[x][t].pc \in {"idle", "start"} PROVE Goal
    BY <1>1 DEF Deleting
  <1>2. ASSUME NEW d \in Components, NEW s \in Slots, NEW to \in DeletePCs,
               GoDelete(d, s, to), ~(x = d /\ t = s)
        PROVE  Goal
    BY <1>1, <1>2, GoDeleteIs DEF IInv
  <1>3. ASSUME NEW to \in DeletePCs, GoDelete(x, t, to) PROVE deletes'[x][t].pc = to
    BY <1>3, GoDeleteIs DEF IInv
  <1>4. {"preflight", "remove", "applied", "collect", "cleanup"} \subseteq DeletePCs BY DEF DeletePCs
  <1>5. deletes \in DeleteType BY DEF IInv, TypeOK, DeleteType
  <1> HIDE DEF Goal
  <1>6. CASE UNCHANGED deletes BY <1>1, <1>6
  <1>7. ASSUME NEW d \in Components, NEW s \in Slots, DeleteStep(d, s) \/ DeleteFails(d, s) PROVE Goal
    <2>1. CASE StartDelete(d, s)
      <3>1. GoDelete(d, s, "preflight") BY <2>1 DEF StartDelete
      <3>2. CASE x = d /\ t = s BY <1>3, <1>4, <2>1, <3>1, <3>2 DEF Goal, Deleting
      <3> QED BY <1>2, <1>4, <3>1, <3>2
    <2>2. CASE Preflight(d, s)
      <3>1. PICK to \in {"cleanup", "remove"} : GoDelete(d, s, to) /\ (to = "remove" => d \notin exists)
        BY <2>2 DEF Preflight, Reinserted
      <3>2. deletes[d][s].pc = "preflight" BY <2>2 DEF Preflight
      <3>3. to \in DeletePCs BY <1>4, <3>1
      <3>4. CASE x = d /\ t = s BY <1>3, <2>2, <3>1, <3>2, <3>3, <3>4 DEF Goal, Deleting
      <3> QED BY <1>2, <3>1, <3>3, <3>4
    <2>3. CASE Remove(d, s)
      <3>1. GoDelete(d, s, "applied") /\ deletes[d][s].pc = "remove" BY <2>3 DEF Remove
      <3>2. CASE x = d /\ t = s BY <1>3, <1>4, <3>1, <3>2 DEF Goal, Deleting
      <3> QED BY <1>2, <1>4, <3>1, <3>2
    <2>4. CASE CommitDelete(d, s)
      <3>1. GoDelete(d, s, "collect") /\ deletes[d][s].pc = "applied" BY <2>4 DEF CommitDelete
      <3>2. CASE x = d /\ t = s BY <1>3, <1>4, <3>1, <3>2 DEF Goal, Deleting
      <3> QED BY <1>2, <1>4, <3>1, <3>2
    <2>5. CASE ReleaseDelete(d, s)
      <3>1. GoDelete(d, s, "cleanup") /\ deletes[d][s].pc = "await" BY <2>5 DEF ReleaseDelete
      <3>2. CASE x = d /\ t = s BY <1>3, <1>4, <3>1, <3>2 DEF Goal, Deleting
      <3> QED BY <1>2, <1>4, <3>1, <3>2
    <2>6. CASE Cleanup(d, s) \/ DeleteFails(d, s)
      <3>1. deletes' = [deletes EXCEPT ![d][s] = NoDelete] BY <2>6 DEF Cleanup, DeleteFails
      <3> QED BY <1>1, <1>5, <3>1, NoRuns DEF DeleteType
    <2>7. CASE CollectBelow(d, s)
      <3> DEFINE runs == [deletes EXCEPT ![d][s].pc = "await"]
      <3>1. /\ deletes[d][s].pc = "collect" /\ \A e \in Listed(d) : Free(e) # {}
            /\ deletes' = Spawned(d, runs)
        BY <2>7 DEF CollectBelow
      <3>2. "await" \in DeletePCs BY DEF DeletePCs
      <3>3. runs \in DeleteType BY <1>5, <3>2 DEF DeleteType
      <3>4. runs[x][t].pc = IF x = d /\ t = s THEN "await" ELSE deletes[x][t].pc
        BY <1>5 DEF DeleteType
      <3> HIDE DEF runs
      <3>5. deletes'[x][t] = runs[x][t] \/ deletes'[x][t] = Delete("start", TRUE)
        BY <3>1, <3>3, SpawnedIs
      <3> QED BY <1>1, <3>1, <3>4, <3>5 DEF Goal, Delete, Deleting
    <2> QED BY <1>7, <2>1, <2>2, <2>3, <2>4, <2>5, <2>6, <2>7 DEF DeleteStep
  <1>8. ASSUME NEW c \in Components, Collect(c) PROVE Goal
    <2>1. deletes' = Spawned(c, deletes) /\ \A d \in Listed(c) : Free(d) # {} BY <1>8 DEF Collect
    <2>2. deletes'[x][t] = deletes[x][t] \/ deletes'[x][t] = Delete("start", TRUE)
      BY <1>5, <2>1, SpawnedIs
    <2> QED BY <1>1, <2>2 DEF Delete
  <1>9. CASE Cancel
    <2>1. deletes'[x] = [s \in Slots |-> IF x # Root /\ build[Parent[x]].pc = "await"
                            THEN [deletes[x][s] EXCEPT !.waited = FALSE] ELSE deletes[x][s]]
      BY <1>9 DEF Cancel
    <2>2. deletes[x][t] \in [pc : DeletePCs, waited : BOOLEAN] BY <1>5 DEF DeleteType
    <2>3. [deletes[x][t] EXCEPT !.waited = FALSE].pc = deletes[x][t].pc BY <2>2
    <2>4. deletes'[x][t].pc = deletes[x][t].pc BY <2>1, <2>3
    <2> QED BY <1>1, <2>4
  <1>10. CASE Crash
    <2>1. deletes'[x][t] = NoDelete BY <1>10 DEF Crash
    <2>2. deletes'[x][t].pc = "idle" BY <2>1, NoRuns
    <2> QED BY <1>1, <2>2
  <1>11. ASSUME NEW c \in Components, (BuildStep(c) \/ RestoreFails(c) \/ BuildFails(c)), ~Collect(c)
         PROVE  UNCHANGED deletes
    BY <1>11 DEF BuildStep, RestoreFails, BuildFails, Hit, Miss, Process, Apply, Commit, Release, Finish
  <1>12. ChangeWanted \/ StartUpdate \/ UNCHANGED vars => UNCHANGED deletes
    BY DEF ChangeWanted, StartUpdate, vars
  <1>13. ASSUME NEW c \in Components, BuildStep(c) \/ RestoreFails(c) \/ BuildFails(c) PROVE Goal
    BY <1>6, <1>8, <1>11, <1>13
  <1>14. CASE Next BY <1>6, <1>7, <1>9, <1>10, <1>12, <1>13, <1>14 DEF Next
  <1> QED BY <1>6, <1>12, <1>14

-----------------------------------------------------------------------------
(* The parts of the invariant. *)

\* An update that runs a component runs what is above it.
LEMMA ParentRuns ==
  ASSUME IInv, NEW c \in Below, build[c].pc \in Running
  PROVE  /\ c \in Components /\ Parent[c] \in Components /\ c \in Children(Parent[c])
         /\ build[Parent[c]].pc = "process"
         /\ build[c].want # Absent
  BY TreeFacts DEF IInv, Runs, Nested, Running, Below

LEMMA BuildMemosNext == ASSUME MemoInv, [Next]_vars PROVE BuildMemos'
  <1>1. IInv /\ BuildMemos BY DEF MemoInv, Effects
  <1>2. IInv' BY <1>1, NextInv
  <1>3. Root \notin bypassed'
    <2>1. memo'[Root] = Absent BY <1>2 DEF IInv, TypeOK
    <2> QED BY <1>1, <2>1, BypassedGrows DEF BuildMemos
  <1> SUFFICES ASSUME NEW c \in Below \ outlived', build'[c].pc \in Running, memo'[c] # Absent
               PROVE  c \in bypassed'
    BY <1>3 DEF BuildMemos
  <1>4. c \in Components /\ c # Root /\ c \notin outlived BY <1>1, OutlivedGrows DEF Below
  <1>5. ~Finish(c)
    <2>1. Finish(c) => build'[c].pc = "done"
      BY <1>1, <1>4, EndedIs DEF Finish, ChildFailed
    <2> QED BY <2>1 DEF Running
  <1>6. memo[c] # Absent BY <1>1, <1>4, <1>5, MemoChanges
  <1>7. CASE Miss(c) \/ RestoreFails(c)
    BY <1>6, <1>7 DEF Miss, RestoreFails
  <1>8. CASE build[c].pc \in Running
    <2>1. c \in bypassed BY <1>1, <1>4, <1>6, <1>8 DEF BuildMemos
    <2>2. \A s \in Slots : ~Remove(c, s)
      BY <1>1, <1>4, <1>8, Alone DEF Running, Remove
    <2> QED BY <1>5, <2>1, <2>2, BypassedChanges
  <1>9. build[c].pc \in Running \/ Miss(c) \/ RestoreFails(c)
    <2>1. build'[c] = build[c] \/ GoesOn(c)
      BY <1>1, <1>4, BuildFrame DEF Running, Dropped, MountedBy, EndsIn
    <2> QED BY <1>4, <2>1 DEF Running, GoesOn, Process, Apply, Commit
  <1> QED BY <1>7, <1>8, <1>9

LEMMA BuildEffectsNext == ASSUME MemoInv, [Next]_vars PROVE BuildEffects'
  <1>1. IInv /\ BuildEffects BY DEF MemoInv, Effects
  <1>2. IInv' BY <1>1, NextInv
  <1>3. outlived \subseteq outlived' BY <1>1, OutlivedGrows
  <1>4. ASSUME NEW c \in Below \ outlived', build'[c].pc \in InSink
        PROVE  sink'[c] = build'[c].want
    <2>1. c \in Components /\ c # Root /\ c \notin outlived BY <1>3 DEF Below
    <2>2. build'[c].want = build[c].want /\ (build[c].pc \in InSink \/ Apply(c))
      BY <1>1, <1>4, <2>1, BuildFrame DEF InSink, Dropped, MountedBy, EndsIn, GoesOn, Commit
    <2>3. CASE Apply(c) BY <1>1, <2>1, <2>2, <2>3 DEF Apply, IInv, TypeOK
    <2>4. CASE build[c].pc \in InSink
      <3>1. sink[c] = build[c].want BY <1>1, <2>1, <2>4 DEF BuildEffects
      <3>2. ~Apply(c) BY <2>4 DEF Apply, InSink
      <3>3. \A s \in Slots : ~Remove(c, s) BY <1>1, <2>1, <2>4, Alone DEF Remove, InSink
      <3> QED BY <1>1, <2>1, <2>2, <3>1, <3>2, <3>3, SinkChanges
    <2> QED BY <2>2, <2>3, <2>4
  <1>5. ASSUME NEW c \in Components \ outlived', build'[c].pc \in Committed
        PROVE  Mounted(c)' \subseteq exists'
    <2>1. c \notin outlived BY <1>3
    <2>2. build[c].pc \in Committed \/ Commit(c)
      BY <1>1, <1>5, BuildFrame DEF Committed, Dropped, MountedBy, EndsIn, GoesOn
    <2>3. ~Process(c) BY <2>2 DEF Committed, Process, Commit
    <2>4. Mounted(c)' \subseteq Mounted(c)
      <3> SUFFICES ASSUME NEW d \in Children(c), build'[d].want # Absent PROVE build[d].want # Absent
        BY DEF Mounted
      <3>1. d \in Components /\ d \in Below /\ Parent[d] = c BY TreeFacts DEF Below
      <3>2. build'[d].pc # "idle" BY <1>2, <3>1, <1>5 DEF IInv, Runs, Nested
      <3> QED BY <1>1, <2>3, <3>1, <3>2, BuildFrame DEF Dropped, MountedBy
    <2>5. CASE Commit(c)
      <3>1. Mounted(c) \subseteq exists' BY <2>5 DEF Commit, Reconcile
      <3> QED BY <2>4, <3>1
    <2>6. CASE build[c].pc \in Committed
      <3>1. Mounted(c) \subseteq exists BY <1>1, <2>1, <2>6 DEF BuildEffects
      <3> SUFFICES ASSUME NEW d \in Mounted(c), d \notin exists' PROVE FALSE BY <2>4
      <3>2. d \in exists /\ d \in Below /\ Parent[d] = c BY <3>1, TreeFacts DEF Mounted
      <3>3. ~Process(d) BY <3>2 DEF Process, Upserted
      <3>4. ~Commit(c) BY <2>6 DEF Commit, Committed
      <3>5. PICK s \in Slots : CommitDelete(c, s) BY <3>2, <3>3, <3>4, ExistsChanges
      <3>6. deletes[c][s].pc = "applied" BY <3>5 DEF CommitDelete
      <3>7. c \in Below BY <1>1, <3>6 DEF IInv, Runs, Awaited, Below
      <3>8. build[c].pc \in {"idle", "done"} BY <1>1, <2>1, <3>6, <3>7, Alone
      <3> QED BY <2>6, <3>8 DEF Committed
    <2> QED BY <2>2, <2>5, <2>6
  <1>6. ASSUME NEW c \in Below, NEW d \in Children(c), build'[c].pc \in Past
        PROVE  build'[d].want = MountedWith(c, build[c].want, d)' /\ build'[c].want = build[c].want
    <2>1. c \in Components /\ c # Root /\ d \in Components /\ d \in Below /\ Parent[d] = c
      BY TreeFacts DEF Below
    <2>2. build'[c].want = build[c].want /\ (build[c].pc \in Past \/ Process(c))
      BY <1>1, <1>6, <2>1, BuildFrame
      DEF Past, Dropped, MountedBy, EndsIn, GoesOn, Apply, Commit
    <2>3. MountedWith(c, build[c].want, d)' = MountedWith(c, build[c].want, d)
      BY <2>1, <2>2 DEF MountedWith
    <2>4. CASE Process(c) BY <1>1, <2>1, <2>2, <2>3, <2>4, ProcessMounts
    <2>5. CASE build[c].pc \in Past
      <3>1. build[d].want = MountedWith(c, build[c].want, d) BY <1>1, <2>5 DEF BuildEffects
      <3>2. ~Process(c) BY <2>5 DEF Past, Process
      <3>3. build'[c].pc \notin {"idle", "done"} BY <1>6 DEF Past
      <3>4. build'[d].want = build[d].want
        BY <1>1, <2>1, <3>2, <3>3, BuildFrame DEF Dropped, MountedBy, Below
      <3> QED BY <2>2, <2>3, <3>1, <3>4
    <2> QED BY <2>2, <2>4, <2>5
  <1>7. \A c \in Below \ outlived' : build'[c].pc \in InSink => sink'[c] = build'[c].want BY <1>4
  <1>8. \A c \in Components \ outlived' : build'[c].pc \in Committed => Mounted(c)' \subseteq exists'
    BY <1>5
  <1>9. \A c \in Below : \A d \in Children(c) :
          build'[c].pc \in Past => build'[d].want = MountedWith(c, build[c].want, d)'
    BY <1>6
  <1> QED BY <1>7, <1>8, <1>9 DEF BuildEffects

LEMMA DeleteEffectsNext == ASSUME MemoInv, [Next]_vars PROVE DeleteEffects'
  <1>1. IInv /\ DeleteEffects BY DEF MemoInv, Effects
  <1>2. outlived \subseteq outlived' /\ Root \notin outlived' BY <1>1, OutlivedGrows DEF DeleteEffects
  <1>3. ASSUME NEW c \in Below \ outlived', NEW s \in Slots, deletes'[c][s].pc \notin {"idle", "start"}
        PROVE  memo'[c] = Absent
    <2>1. c \in Components /\ c \notin outlived BY <1>2 DEF Below
    <2>2. CASE StartDelete(c, s) BY <1>1, <2>1, <2>2 DEF StartDelete, IInv, TypeOK
    <2>3. CASE deletes[c][s].pc \notin {"idle", "start"}
      <3>1. memo[c] = Absent BY <1>1, <2>1, <2>3 DEF DeleteEffects
      <3>2. ~Finish(c) BY <1>1, <2>1, <2>3, Alone DEF Finish
      <3> QED BY <1>1, <2>1, <3>1, <3>2, MemoChanges
    <2> QED BY <1>1, <1>3, <2>1, <2>2, <2>3, DeleteFrame
  <1>4. ASSUME NEW c \in Below \ outlived', NEW s \in Slots, deletes'[c][s].pc \in Deleting
        PROVE  c \notin exists'
    <2>1. c \in Components /\ c \notin outlived BY <1>2 DEF Below
    <2>2. CASE Preflight(c, s) /\ c \notin exists BY <2>2 DEF Preflight, store
    <2>3. CASE deletes[c][s].pc \in Deleting
      <3>1. c \notin exists BY <1>1, <2>1, <2>3 DEF DeleteEffects
      <3>2. deletes[c][s].pc # "idle" BY <2>3 DEF Deleting
      <3>3. ~Process(c) /\ ~Commit(Parent[c]) BY <1>1, <2>1, <3>2, Alone DEF Process, Commit
      <3> QED BY <3>1, <3>3, ExistsChanges
    <2> QED BY <1>1, <1>4, <2>1, <2>2, <2>3, DeleteFrame
  <1> QED BY <1>2, <1>3, <1>4 DEF DeleteEffects

\* A component below that was mounted and built is not being deleted.
LEMMA DoneSpared ==
  ASSUME MemoInv, NEW c \in Below \ Gone, NEW s \in Slots, deletes[c][s].pc \in Deleting
  PROVE  build[c].pc = "idle"
  <1>1. IInv /\ BuildEffects /\ DeleteEffects BY DEF MemoInv, Effects
  <1>2. /\ c \in Components /\ c \notin outlived /\ Parent[c] \in Components /\ Parent[c] \notin outlived
        /\ c \in Children(Parent[c])
    BY TreeFacts DEF Gone, BelowOf, Below
  <1>3. deletes[c][s].pc # "idle" /\ c \notin exists BY <1>1, <1>2 DEF DeleteEffects, Deleting
  <1>4. build[Parent[c]].pc = "await" \/ \E t \in Slots : deletes[Parent[c]][t].pc = "await"
    BY <1>1, <1>2, <1>3 DEF IInv, Runs, Awaited
  <1>5. CASE build[Parent[c]].pc = "await"
    <2>1. c \notin Mounted(Parent[c]) BY <1>1, <1>2, <1>3, <1>5 DEF BuildEffects, Committed
    <2> QED BY <1>1, <1>2, <2>1 DEF Mounted, IInv, Runs, Nested
  <1>6. CASE \E t \in Slots : deletes[Parent[c]][t].pc = "await"
    <2>1. Parent[c] \in Below BY <1>1, <1>2, <1>6 DEF IInv, Runs, Awaited, Below
    <2>2. build[Parent[c]].pc \in {"idle", "done"} BY <1>1, <1>2, <1>6, <2>1, Alone
    <2> QED BY <1>1, <2>2 DEF IInv, Runs, Nested
  <1> QED BY <1>4, <1>5, <1>6

\* What a component that has nothing under way holds, it goes on holding.
LEMMA HoldsKept ==
  ASSUME MemoInv, [Next]_vars, NEW c \in Below \ Gone', NEW v, Holds(c, v),
         build[c].pc \notin Past, \A s \in Slots : deletes[c][s].pc \notin Deleting
  PROVE  Holds(c, v)'
  <1>1. IInv BY DEF MemoInv
  <1>2. outlived \subseteq outlived' BY <1>1, OutlivedGrows
  <1>3. c \in Components /\ c \notin outlived BY <1>2 DEF Below, Gone
  <1>4. sink'[c] = v
    <2>1. ~Apply(c) /\ \A s \in Slots : ~Remove(c, s) BY DEF Apply, Remove, Past, Deleting
    <2> QED BY <1>1, <1>3, <2>1, SinkChanges DEF Holds
  <1>5. ASSUME NEW d \in Children(c) \cap Mounts[v]
        PROVE  d \in exists' /\ (d \notin PassedBy' => sink'[d] = v)
    <2>1. d \in Below /\ d \in Components /\ Parent[d] = c BY TreeFacts DEF Below
    <2>2. d \in exists /\ (d \notin PassedBy => sink[d] = v) BY DEF Holds
    <2>3. d \in exists'
      <3>1. ~Commit(c) /\ \A s \in Slots : ~CommitDelete(c, s) BY DEF Commit, CommitDelete, Past, Deleting
      <3>2. Process(d) => d \in exists' BY <2>2 DEF Process, Upserted
      <3> QED BY <2>1, <2>2, <3>1, <3>2, ExistsChanges
    <2>4. ASSUME d \notin PassedBy' PROVE sink'[d] = v
      <3>1. d \notin Gone /\ d \notin outlived BY <1>2, <2>4 DEF PassedBy, Gone, BelowOf
      <3>2. build[d].pc \notin Running
        BY <1>1, <2>1, ParentRuns DEF Past
      <3>3. ASSUME NEW s \in Slots PROVE ~Remove(d, s)
        <4> SUFFICES ASSUME Remove(d, s) PROVE FALSE OBVIOUS
        <4>1. deletes[d][s].pc = "remove" BY DEF Remove
        <4>2. build[c].pc = "await" \/ \E t \in Slots : deletes[c][t].pc = "await"
          BY <1>1, <2>1, <3>1, <4>1 DEF IInv, Runs, Awaited
        <4> QED BY <4>2 DEF Past, Deleting
      <3>4. ~Apply(d) /\ ~Finish(d) BY <3>2 DEF Apply, Finish, Running
      <3>5. d \notin bypassed BY <2>4, <3>3, <3>4, BypassedChanges DEF PassedBy
      <3> QED BY <1>1, <2>1, <2>2, <3>1, <3>3, <3>4, <3>5, SinkChanges DEF PassedBy
    <2> QED BY <2>3, <2>4
  <1> QED BY <1>4, <1>5 DEF Holds

\* A build that succeeds, and what it mounts, have what it was mounted with.
LEMMA FinishHolds ==
  ASSUME MemoInv, NEW c \in Below \ Gone, Finish(c), ~ChildFailed(c), NEW v, v = build[c].want
  PROVE  v \in Contents /\ Holds(c, v)'
  <1>1. IInv /\ BuildEffects /\ DoneHold BY DEF MemoInv, Effects, Holding
  <1>2. /\ build[c].pc = "finish" /\ bypassed' = bypassed \ {c}
        /\ UNCHANGED <<exists, sink, outlived>>
    BY DEF Finish
  <1>3. c \in Components /\ c \notin outlived /\ c # Root BY DEF Gone, Below
  <1>4. build[c].want # Absent /\ build[c].want \in States
    BY <1>1, <1>2, <1>3, ParentRuns DEF Running, IInv, TypeOK
  <1>5. build[c].want \in Contents BY <1>4 DEF States
  <1>6. sink[c] = build[c].want BY <1>1, <1>2, <1>3 DEF BuildEffects, InSink
  <1>7. ASSUME NEW d \in Children(c), d \in Mounts[build[c].want]
        PROVE  d \in exists /\ (d \notin PassedBy' => sink[d] = build[c].want)
    <2>1. d \in Below /\ d \in Components /\ Parent[d] = c /\ d # c BY TreeFacts DEF Below
    <2>2. build[d].want = build[c].want
      BY <1>1, <1>2, <1>3, <1>5, <1>7 DEF BuildEffects, Past, MountedWith
    <2>3. d \in Mounted(c) BY <1>4, <2>2 DEF Mounted
    <2>4. d \in exists BY <1>1, <1>2, <1>3, <2>3 DEF BuildEffects, Committed
    <2>5. build[d].pc = "done" BY <1>1, <1>2, <1>4, <2>1, <2>2 DEF IInv, Runs, Nested
    <2>6. ~build[d].failed BY <2>3 DEF ChildFailed
    <2>7. d \notin PassedBy' => d \notin PassedBy BY <1>2, <2>1 DEF PassedBy, Gone
    <2>8. d \notin PassedBy => sink[d] = build[d].want BY <1>1, <2>1, <2>5, <2>6 DEF DoneHold, Holds
    <2> QED BY <2>2, <2>4, <2>7, <2>8
  <1> QED BY <1>2, <1>5, <1>6, <1>7 DEF Holds

LEMMA MemosHoldNext == ASSUME MemoInv, [Next]_vars PROVE MemosHold'
  <1>1. IInv /\ BuildMemos /\ DeleteEffects /\ MemosHold BY DEF MemoInv, Effects, Holding
  <1>2. outlived \subseteq outlived' BY <1>1, OutlivedGrows
  <1> SUFFICES ASSUME NEW c \in Below \ PassedBy', memo'[c] # Absent PROVE Holds(c, memo[c])'
    BY DEF MemosHold
  <1>3. PICK v : v = memo'[c] OBVIOUS
  <1>4. c \in Components /\ c \notin Gone' /\ c \notin Gone /\ c \notin outlived /\ c \notin bypassed'
    BY <1>2 DEF Below, PassedBy, Gone, BelowOf
  <1> SUFFICES Holds(c, v)' BY <1>3 DEF Holds
  <1>5. CASE Finish(c) /\ ~ChildFailed(c)
    <2>1. memo'[c] = build[c].want
      BY <1>1, <1>4, <1>5 DEF Finish, IInv, TypeOK, Below
    <2> QED BY <1>3, <1>4, <1>5, <2>1, FinishHolds
  <1>6. CASE ~(Finish(c) /\ ~ChildFailed(c))
    <2>1. memo[c] = v /\ v # Absent BY <1>1, <1>3, <1>4, <1>6, MemoChanges
    <2>2. \A s \in Slots : deletes[c][s].pc \in {"idle", "start"} BY <1>1, <1>4, <2>1 DEF DeleteEffects
    <2>3. \A s \in Slots : ~Remove(c, s) BY <2>2 DEF Remove
    <2>4. c \notin bypassed BY <1>4, <1>6, <2>3, BypassedChanges
    <2>5. Holds(c, v) BY <1>1, <1>4, <2>1, <2>4 DEF MemosHold, PassedBy
    <2>6. build[c].pc \notin Past BY <1>1, <1>4, <2>1, <2>4 DEF BuildMemos, Running, Past
    <2>7. \A s \in Slots : deletes[c][s].pc \notin Deleting BY <2>2 DEF Deleting
    <2> QED BY <1>4, <2>5, <2>6, <2>7, HoldsKept
  <1> QED BY <1>5, <1>6

LEMMA DoneHoldNext == ASSUME MemoInv, [Next]_vars PROVE DoneHold'
  <1>1. IInv /\ MemosHold /\ DoneHold BY DEF MemoInv, Holding
  <1>2. outlived \subseteq outlived' BY <1>1, OutlivedGrows
  <1> SUFFICES ASSUME NEW c \in Below \ PassedBy', build'[c].pc = "done", ~build'[c].failed
               PROVE  Holds(c, build[c].want)'
    BY DEF DoneHold
  <1>3. PICK v : v = build'[c].want OBVIOUS
  <1>4. c \in Components /\ c \notin Gone' /\ c \notin Gone /\ c \notin bypassed'
    BY <1>2 DEF Below, PassedBy, Gone, BelowOf
  <1> SUFFICES Holds(c, v)' BY <1>3 DEF Holds
  <1>5. \/ build'[c] = build[c]
        \/ build'[c].want = build[c].want /\ (Hit(c) \/ (Finish(c) /\ build'[c].failed = ChildFailed(c)))
    BY <1>1, <1>4, BuildFrame DEF Dropped, MountedBy, EndsIn, GoesOn
  <1>6. CASE build'[c] = build[c]
    <2>1. build[c].pc = "done" /\ ~build[c].failed /\ build[c].want = v BY <1>3, <1>6
    <2>2. \A s \in Slots : deletes[c][s].pc \notin Deleting BY <1>4, <2>1, DoneSpared
    <2>3. \A s \in Slots : ~Remove(c, s) BY <2>2 DEF Remove, Deleting
    <2>4. c \notin bypassed BY <1>4, <2>1, <2>3, BypassedChanges DEF Finish
    <2>5. Holds(c, v) BY <1>1, <1>4, <2>1, <2>4 DEF DoneHold, PassedBy
    <2>6. build[c].pc \notin Past BY <2>1 DEF Past
    <2> QED BY <1>4, <2>2, <2>5, <2>6, HoldsKept
  <1>7. CASE Hit(c) /\ build'[c].want = build[c].want
    <2>1. /\ memo[c] = v /\ build[c].pc = "check" /\ UNCHANGED <<exists, sink, outlived, bypassed>>
      BY <1>3, <1>7 DEF Hit, Reusable, store, ghosts
    <2>2. v # Absent BY <1>1, <1>3, <1>7, <2>1 DEF IInv, Runs, Nested
    <2>3. Holds(c, v) BY <1>1, <1>4, <2>1, <2>2 DEF MemosHold, PassedBy
    <2> QED BY <2>1, <2>3 DEF Holds, PassedBy, Gone
  <1>8. CASE Finish(c) /\ build'[c].failed = ChildFailed(c) /\ build'[c].want = build[c].want
    <2>1. ~ChildFailed(c) BY <1>8
    <2> QED BY <1>3, <1>4, <1>8, <2>1, FinishHolds
  <1> QED BY <1>5, <1>6, <1>7, <1>8

LEMMA WantsStandNext == ASSUME MemoInv, [Next]_vars PROVE WantsStand'
  <1>1. IInv /\ WantsStand BY DEF MemoInv, Wanting
  <1> SUFFICES ASSUME synced', build'[Root].pc \in Past, NEW t \in Tops
               PROVE  build'[t].want = wanted'[t]
    BY DEF WantsStand, UpToDate
  <1>2. /\ Root \in Components /\ t \in Components /\ t \in Children(Root) /\ t \in Below
        /\ Parent[t] = Root /\ t # Root
    BY TreeFacts DEF Tops, Below
  <1>3. ~Finish(Root)
    <2>1. Finish(Root) => build'[Root].pc = "idle" BY <1>1, <1>2, EndedIs DEF Finish, ChildFailed
    <2> QED BY <2>1 DEF Past
  <1>4. synced /\ wanted' = wanted BY <1>3, SyncedChanges
  <1>5. build[Root].pc \in Past \/ Process(Root)
    BY <1>1, <1>2, BuildFrame DEF Past, Dropped, MountedBy, EndsIn, GoesOn, Apply, Commit
  <1>6. CASE Process(Root)
    BY <1>1, <1>2, <1>4, <1>6, ProcessMounts DEF MountedWith
  <1>7. CASE build[Root].pc \in Past
    <2>1. build[t].want = wanted[t] BY <1>1, <1>4, <1>7 DEF WantsStand, UpToDate
    <2>2. ~Process(Root) BY <1>7 DEF Past, Process
    <2>3. build'[Root].pc \notin {"idle", "done"} BY DEF Past
    <2>4. build'[t].want = build[t].want BY <1>1, <1>2, <2>2, <2>3, BuildFrame DEF Dropped, MountedBy
    <2> QED BY <1>4, <2>1, <2>4
  <1> QED BY <1>5, <1>6, <1>7

\* What is mounted in an update after one that succeeded is what the sources ask for.
LEMMA WantIsMounted ==
  ASSUME MemoInv, synced, NEW c \in Below, build[Parent[c]].pc \in Past
  PROVE  build[c].want = Want(c)
  <1>1. IInv /\ BuildEffects /\ WantsStand BY DEF MemoInv, Effects, Wanting
  <1>2. c \in Components /\ Parent[c] \in Components /\ c \in Children(Parent[c]) BY TreeFacts DEF Below
  <1>3. CASE c \in Tops
    <2>1. Parent[c] = Root BY <1>3, TreeFacts DEF Tops
    <2> QED BY <1>1, <1>3, <2>1 DEF WantsStand, UpToDate, Want
  <1>4. CASE c \notin Tops
    <2>1. Parent[c] \in Tops BY <1>4, TreeAssumption DEF Below
    <2>2. Parent[c] \in Below /\ Parent[Parent[c]] = Root /\ Parent[c] # Root
      BY <2>1, TreeFacts DEF Tops, Below
    <2>3. build[c].want = MountedWith(Parent[c], build[Parent[c]].want, c)
      BY <1>1, <1>2, <2>2 DEF BuildEffects
    <2>4. build[Root].pc \in Past
      BY <1>1, <2>2 DEF IInv, Runs, Nested, Past
    <2>5. build[Parent[c]].want = wanted[Parent[c]] BY <1>1, <2>1, <2>4 DEF WantsStand, UpToDate
    <2> QED BY <1>4, <2>3, <2>5 DEF Want
  <1> QED BY <1>3, <1>4

\* What is below a component that is not wanted is not wanted.
LEMMA WantBelow ==
  ASSUME TypeOK, NEW c \in Below, c \notin Tops, Want(c) # Absent
  PROVE  /\ Parent[c] \in Tops /\ Parent[c] \in Below /\ Parent[Parent[c]] = Root
         /\ Want(Parent[c]) = wanted[Parent[c]] /\ Want(Parent[c]) # Absent
         /\ Want(c) = Want(Parent[c]) /\ c \in Mounts[Want(Parent[c])]
  <1>1. Parent[c] \in Tops BY TreeAssumption DEF Below
  <1>2. Parent[c] \in Below /\ Parent[Parent[c]] = Root /\ Parent[c] # Root
    BY <1>1, TreeFacts DEF Tops, Below
  <1>3. wanted[Parent[c]] \in Contents /\ c \in Mounts[wanted[Parent[c]]] /\ Want(c) = wanted[Parent[c]]
    BY <1>2 DEF Want, MountedWith
  <1> QED BY <1>1, <1>2, <1>3, ContentAssumption DEF Want

\* The root's build succeeds with the sources as they are.
LEMMA SyncedHolds ==
  ASSUME MemoInv, [Next]_vars, Finish(Root), synced'
  PROVE  WantedHolds'
  <1>1. /\ IInv /\ BuildMemos /\ BuildEffects /\ DeleteEffects /\ DoneHold
        /\ IInv'
    BY NextInv DEF MemoInv, Effects, Holding
  <1>2. /\ build[Root].pc = "finish" /\ UpToDate /\ ~ChildFailed(Root)
        /\ bypassed' = bypassed \ {Root} /\ UNCHANGED <<wanted, exists, sink, outlived>>
    BY DEF Finish
  <1>3. bypassed' = bypassed /\ Root \in Components /\ Root \notin outlived
    BY <1>1, <1>2, TreeFacts DEF BuildMemos, DeleteEffects
  <1>4. Mounted(Root) \subseteq exists BY <1>1, <1>2, <1>3 DEF BuildEffects, Committed
  <1>5. ASSUME NEW t \in Tops, wanted[t] # Absent
        PROVE  /\ t \in exists
               /\ t \in Below \ PassedBy => Holds(t, wanted[t])
    <2>1. t \in Children(Root) /\ t \in Below /\ Parent[t] = Root BY TreeFacts DEF Tops, Below
    <2>2. build[t].want = wanted[t] BY <1>2 DEF UpToDate
    <2>3. t \in Mounted(Root) BY <1>5, <2>1, <2>2 DEF Mounted
    <2>4. build[t].pc = "done" BY <1>1, <1>2, <1>5, <2>1, <2>2 DEF IInv, Runs, Nested
    <2>5. ~build[t].failed BY <1>2, <2>3 DEF ChildFailed
    <2> QED BY <1>1, <1>4, <2>2, <2>3, <2>4, <2>5 DEF DoneHold
  <1> SUFFICES ASSUME NEW c \in Below \ (Gone \cup BelowOf(bypassed)), Want(c) # Absent
               PROVE  c \in exists /\ (c \notin bypassed => sink[c] = Want(c))
    BY <1>2, <1>3 DEF WantedHolds, Gone, Want, MountedWith
  <1>6. CASE c \in Tops
    BY <1>5, <1>6 DEF Want, Holds, PassedBy
  <1>7. CASE c \notin Tops
    <2>1. /\ Parent[c] \in Tops /\ Parent[c] \in Below /\ Parent[Parent[c]] = Root
          /\ wanted[Parent[c]] # Absent /\ Want(c) = wanted[Parent[c]] /\ c \in Mounts[wanted[Parent[c]]]
      BY <1>1, <1>7, WantBelow DEF IInv
    <2>2. Parent[c] \notin PassedBy BY <1>3, <2>1 DEF PassedBy, Gone, BelowOf
    <2>3. Holds(Parent[c], wanted[Parent[c]]) BY <1>5, <2>1, <2>2
    <2>4. c \in Children(Parent[c]) BY TreeFacts
    <2> QED BY <2>1, <2>3, <2>4 DEF Holds, PassedBy
  <1> QED BY <1>6, <1>7

LEMMA WantedHoldsNext == ASSUME MemoInv, [Next]_vars PROVE WantedHolds'
  <1>1. IInv /\ Effects /\ WantedHolds BY DEF MemoInv, Wanting
  <1>2. IInv' /\ outlived \subseteq outlived' /\ Root \notin outlived /\ Root \notin bypassed
    BY <1>1, NextInv, OutlivedGrows DEF Effects, BuildMemos, DeleteEffects
  <1>3. CASE Finish(Root) BY <1>3, SyncedHolds DEF WantedHolds
  <1>4. CASE ~Finish(Root)
    <2> SUFFICES ASSUME synced', NEW c \in Below \ (Gone' \cup BelowOf(bypassed')), Want(c)' # Absent
                 PROVE  c \in exists' /\ (c \notin bypassed' => sink'[c] = Want(c)')
      BY DEF WantedHolds
    <2>1. synced /\ wanted' = wanted BY <1>4, SyncedChanges
    <2>2. Want(c)' = Want(c) BY <2>1 DEF Want, MountedWith
    <2>3. /\ c \in Components /\ c \notin Gone /\ c \notin outlived /\ Parent[c] \in Components
          /\ Parent[c] \notin outlived /\ Parent[c] \notin bypassed' /\ c \in Children(Parent[c])
      BY <1>2, TreeFacts DEF Gone, BelowOf, Below
    <2>4. Parent[c] \in Below =>
            /\ c \notin Tops /\ Parent[c] \notin Gone /\ Parent[c] \notin BelowOf(bypassed)
            /\ Parent[c] \in exists
      <3> SUFFICES ASSUME Parent[c] \in Below
                   PROVE  /\ c \notin Tops /\ Parent[c] \notin Gone /\ Parent[c] \notin BelowOf(bypassed)
                          /\ Parent[c] \in exists
        OBVIOUS
      <3>1. c \notin Tops BY TreeFacts DEF Tops, Below
      <3>2. /\ Parent[c] \in Tops /\ Parent[c] \in Below /\ Parent[Parent[c]] = Root
            /\ Want(Parent[c]) # Absent
        BY <1>1, <2>2, <3>1, WantBelow DEF IInv
      <3>3. Parent[c] \notin Gone /\ Parent[c] \notin BelowOf(bypassed)
        BY <1>2, <2>3, <3>2 DEF Gone, BelowOf
      <3> QED BY <1>1, <2>1, <3>1, <3>2, <3>3 DEF WantedHolds
    <2>5. \A s \in Slots : deletes[Parent[c]][s].pc \notin Deleting
      <3> SUFFICES ASSUME NEW s \in Slots, deletes[Parent[c]][s].pc \in Deleting PROVE FALSE OBVIOUS
      <3>1. Parent[c] \in Below BY <1>1, <2>3 DEF IInv, Runs, Awaited, Below, Deleting
      <3> QED BY <1>1, <2>3, <2>4, <3>1 DEF Effects, DeleteEffects
    <2>6. build[Parent[c]].pc \in Past => build[c].want = Want(c) BY <2>1, WantIsMounted
    <2>7. CASE Parent[c] \in bypassed
      <3>1. Parent[c] \in Below /\ Parent[c] # Root BY <1>2, <2>3, <2>7 DEF Below
      <3>2. Finish(Parent[c]) /\ ~ChildFailed(Parent[c])
        BY <2>3, <2>5, <2>7, BypassedChanges DEF Remove, Deleting
      <3>3. PICK v : v = build[Parent[c]].want OBVIOUS
      <3>4. v \in Contents /\ Holds(Parent[c], v)' BY <2>4, <3>1, <3>2, <3>3, FinishHolds
      <3>5. build[Parent[c]].pc = "finish" BY <3>2 DEF Finish
      <3>6. build[c].want = MountedWith(Parent[c], v, c)
        BY <1>1, <2>3, <3>1, <3>3, <3>5 DEF Effects, BuildEffects, Past
      <3>7. Want(c) = v /\ c \in Mounts[v]
        BY <2>2, <2>6, <3>1, <3>5, <3>6 DEF Past, MountedWith
      <3>8. c \notin bypassed' => c \notin PassedBy' BY DEF PassedBy
      <3> QED BY <2>2, <2>3, <3>4, <3>7, <3>8 DEF Holds
    <2>8. CASE Parent[c] \notin bypassed
      <3>1. c \in exists /\ (c \notin bypassed => sink[c] = Want(c))
        BY <1>1, <2>1, <2>2, <2>3, <2>8 DEF WantedHolds, BelowOf
      <3>2. c \in exists'
        <4>1. Process(c) => c \in exists' BY <3>1 DEF Process, Upserted
        <4>2. \A s \in Slots : ~CommitDelete(Parent[c], s) BY <2>5 DEF CommitDelete, Deleting
        <4>3. Commit(Parent[c]) => c \in Mounted(Parent[c])
          BY <2>2, <2>3, <2>6 DEF Commit, Past, Mounted
        <4> QED BY <3>1, <4>1, <4>2, <4>3, ExistsChanges
      <3>3. \A s \in Slots : ~Remove(c, s)
        BY <1>1, <2>3, <3>1 DEF Effects, DeleteEffects, Remove, Deleting
      <3>4. build[c].pc \in Running => build[c].want = Want(c)
        BY <1>1, <2>6, ParentRuns DEF Past
      <3>5. ASSUME c \notin bypassed' PROVE sink'[c] = Want(c)
        <4>1. CASE Apply(c) BY <1>1, <2>3, <3>4, <4>1 DEF Apply, Running, IInv, TypeOK
        <4>2. CASE ~Apply(c) /\ c \notin bypassed BY <1>1, <2>3, <3>1, <3>3, <4>2, SinkChanges
        <4>3. CASE ~Apply(c) /\ c \in bypassed
          <5>1. Finish(c) BY <3>3, <3>5, <4>3, BypassedChanges
          <5>2. sink[c] = build[c].want /\ build[c].want = Want(c)
            BY <1>1, <2>3, <3>4, <5>1 DEF Finish, Effects, BuildEffects, InSink, Running
          <5> QED BY <5>1, <5>2 DEF Finish
        <4> QED BY <4>1, <4>2, <4>3
      <3> QED BY <2>2, <3>2, <3>5
    <2> QED BY <2>7, <2>8
  <1> QED BY <1>3, <1>4

LEMMA NextMemoInv == MemoInv /\ [Next]_vars => MemoInv'
  <1> SUFFICES ASSUME MemoInv, [Next]_vars PROVE MemoInv' OBVIOUS
  <1>1. IInv' BY NextInv DEF MemoInv
  <1>2. Effects' BY BuildMemosNext, BuildEffectsNext, DeleteEffectsNext DEF Effects
  <1>3. Holding' BY MemosHoldNext, DoneHoldNext DEF Holding
  <1>4. Wanting' BY WantsStandNext, WantedHoldsNext DEF Wanting
  <1> QED BY <1>1, <1>2, <1>3, <1>4 DEF MemoInv

\* Exempt holds all that the invariant leaves out.
LEMMA ExemptIs ==
  /\ PassedBy \subseteq Exempt /\ BelowOf(bypassed) \subseteq Exempt
  <1>1. \A c \in Below : c \in Children(Parent[c]) BY TreeFacts
  <1> QED BY <1>1 DEF PassedBy, Gone, BelowOf, Exempt

-----------------------------------------------------------------------------
\* The strengthening that the theorems follow from: permits have one holder, builds are
\* nested, deletes are awaited, and runs are about to do only what leaves the sink
\* accounted for (execute_once, Component::delete).
THEOREM Invariant == Spec => []IInv
  <1> QED BY InitInv, NextInv, PTL DEF Spec

\* Every variable of the tree keeps to its type.
THEOREM TypeCorrect == Spec => []TypeOK
  <1>1. IInv => TypeOK BY DEF IInv
  <1> QED BY <1>1, Invariant, PTL

\* A component with anything in the sink exists or waits to be deleted, whatever fails,
\* is cancelled or crashes, unless a delete of it outlived its update ("existence covers
\* tracked state", execute_once; reconcile_child_existence; cleanup_tombstone).
THEOREM SinkIsAccounted == Spec => []ChildrenAccounted
  <1>1. IInv => ChildrenAccounted BY DEF IInv, Accounting
  <1> QED BY <1>1, Invariant, PTL

\* No step of a build or a delete takes away the target states of a component that exists
\* (the preflight of submit in delete mode).
THEOREM ExistingStay == Spec => ExistingAreSpared
  <1> DEFINE Spared == \A c \in Components \ outlived :
                         sink[c] # Absent /\ sink'[c] = Absent => c \notin exists'
  <1>1. IInv /\ [Next]_vars => [Spared]_vars BY ExistingSparedStep
  <1>2. Spec => [][Spared]_vars BY <1>1, Invariant, PTL DEF Spec
  <1> QED BY <1>2 DEF ExistingAreSpared

\* The strengthening for memos and for what the sources want: what builds and deletes have
\* done by the point they are at (run_in_background, submit), that valid memos and finished
\* builds stand for what is in the sink, and that an update after one that succeeded mounts
\* the same again.
THEOREM MemoInvariant == Spec => []MemoInv
  <1> QED BY InitMemoInv, NextMemoInv, PTL DEF Spec

\* A hit may skip a component and what it mounts: a memo that is there, and that no run has
\* passed by, stands for what all of them have in the sink
\* (use_or_invalidate_component_memoization, post_submit_for_build).
THEOREM MemosMatch == Spec => []MemosMatchSubtree
  <1>1. MemoInv => MemosMatchSubtree
    <2> SUFFICES ASSUME MemoInv, NEW c \in Components \ Exempt, memo[c] # Absent,
                        NEW d \in ({c} \cup (Children(c) \cap Mounts[memo[c]])) \ Exempt
                 PROVE  sink[d] = memo[c]
      BY DEF MemosMatchSubtree
    <2>1. c \in Below BY DEF MemoInv, IInv, TypeOK, Below
    <2>2. Holds(c, memo[c]) BY <2>1, ExemptIs DEF MemoInv, Holding, MemosHold
    <2> QED BY <2>2, ExemptIs DEF Holds
  <1> QED BY <1>1, MemoInvariant, PTL

\* Once an update succeeded, what the sources want is in the sink until they change, through
\* later updates, failures, cancellations and crashes (App::update, execute_once).
THEOREM WantedStays == Spec => []WantedIsInSink
  <1>1. MemoInv => WantedIsInSink
    <2> SUFFICES ASSUME MemoInv, synced, NEW c \in Components \ (Exempt \cup {Root}), Want(c) # Absent
                 PROVE  sink[c] = Want(c)
      BY DEF WantedIsInSink
    <2>1. c \in Below /\ c \notin Gone /\ c \notin bypassed /\ c \notin BelowOf(bypassed)
      BY ExemptIs DEF PassedBy, Below
    <2> QED BY <2>1 DEF MemoInv, Wanting, WantedHolds
  <1> QED BY <1>1, MemoInvariant, PTL
=============================================================================
