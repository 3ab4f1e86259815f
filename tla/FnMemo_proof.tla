---------------------------- MODULE FnMemo_proof ----------------------------
(***************************************************************************)
(* Proofs about FnMemo, for any files, chunks, contents and applications   *)
(* and any bounds: reusing calls loses sight of nothing in the sink,       *)
(* leaves every memo backed by what is tracked, and changes nothing about  *)
(* the outcome.                                                            *)
(***************************************************************************)
EXTENDS FnMemo, TLAPS

Plain == ~Timestamps

\* Partial functions over the calls.
Partial(S) == UNION {[D -> S] : D \in SUBSET Calls}

RunType ==
  [pc : {"idle", "process", "apply"}, full : BOOLEAN, toCall : SUBSET Files, seen : [Files -> States],
   whole : BOOLEAN, cache : Partial(Cached), decl : [Calls -> States], ver : Nat, todo : SUBSET Calls]

Typed ==
  /\ application \in Applications
  /\ file \in [Files -> States] /\ mtime \in [Files -> Nat]
  /\ rows \in Partial(Rows)
  /\ version \in Nat /\ items \in [Calls -> SUBSET Entries]
  /\ sink \in [Calls -> States]
  /\ run \in RunType
  /\ synced \in BOOLEAN /\ carried \subseteq Calls
  /\ changes \in Nat /\ faults \in Nat
  /\ run.pc # "idle" => ~synced

\* The contents a commit under version ver leaves in an item.
Left(item, ver) == Possible(Retained(item, ver))

Covers(possible, s) == IF possible = {} THEN s = Absent ELSE s \in possible

\* Versions are never ahead, and an item knows of some content.
ItemsBound ==
  \A t \in Calls : /\ \A e \in items[t] : e[1] <= version
                   /\ items[t] # {} => Possible(items[t]) # {Absent}

\* Between pre_commit and commit: what is queued is recorded, what is not is done.
RunRecorded ==
  run.pc = "apply" =>
    /\ run.ver = version
    /\ \A t \in run.todo : /\ run.decl[t] \in Possible(items[t])
                           /\ Left(items[t], run.ver) = {run.decl[t]} \ {Absent}
    /\ \A t \in Calls \ (carried \cup run.todo) : Covers(Left(items[t], run.ver), sink[t])

Recorded == ItemsBound /\ TrackingCoversSinkUnlessCarried /\ RunRecorded

-----------------------------------------------------------------------------
\* What the memo of call k says.
RowFits(plain, k, row) ==
  /\ plain => row.mtime = 0
  /\ row.content # Absent
  /\ k \in row.paths /\ row.paths \subseteq {k} \cup row.deps
  /\ k \in Files => row.deps = ChunksOf[row.content]
  /\ k \in Chunks => row.deps = {} /\ row.content = ChunkContent

InUse == {k \in DOMAIN run.cache : run.cache[k].status # "stored"}
Fresh == {k \in DOMAIN run.cache : run.cache[k].status = "fresh"}

\* Memos are well formed, and what the run took from the disk is still there.
Structured ==
  /\ Plain => \A f \in Files : mtime[f] = 0
  /\ run.toCall \cap InUse = {}
  /\ \A k \in DOMAIN rows : RowFits(Plain, k, rows[k])
  /\ \A k \in DOMAIN run.cache :
       /\ RowFits(Plain, k, run.cache[k].row)
       /\ k \notin Fresh => k \in DOMAIN rows /\ rows[k] = run.cache[k].row
  /\ run.pc # "idle" => IF run.full THEN DOMAIN run.cache \subseteq Fresh
                                    ELSE DOMAIN rows \subseteq DOMAIN run.cache

\* A hit finds its target's record with the content it stands for.
ContentTracked ==
  Plain /\ ~CaughtErrors => \A k \in DOMAIN rows : rows[k].content \in Possible(items[k])

\* What executed calls left in the cache and declared.
Executions ==
  Plain =>
    /\ \A k \in Fresh : /\ run.decl[k] = run.cache[k].row.content
                        /\ \A t \in run.cache[k].row.paths : run.decl[t] # Absent
                        /\ run.cache[k].row.deps \subseteq InUse
    /\ ~CaughtErrors => \A t \in Calls : run.decl[t] # Absent => t \in Fresh

\* The calls of a run that none has failed in.
Called == {f \in Files : run.seen[f] # Absent}
Progress ==
  Plain /\ run.pc = "process" /\ run.whole =>
    /\ InUse \cap Files = Called
    /\ \A f \in Called : run.cache[f].row.content = run.seen[f]
    /\ \A n \in InUse \cap Chunks : \E f \in Called : n \in ChunksOf[run.seen[f]]

\* Between pre_commit and commit: what is in use will be backed.
UseIsBacked ==
  Plain /\ run.pc = "apply" =>
    \A k \in InUse : /\ \A t \in run.cache[k].row.paths : Left(items[t], run.ver) # {}
                     /\ run.cache[k].row.deps \subseteq InUse
                     /\ ~CaughtErrors => run.cache[k].row.content \in Left(items[k], run.ver)

\* What the files the run has seen want in the sink.
Goal(t) ==
  IF t \in Files THEN run.seen[t]
  ELSE IF \E f \in Called : t \in ChunksOf[run.seen[f]] THEN ChunkContent ELSE Absent

\* A run without failed calls is about to bring about what it has seen.
Outcome ==
  Plain /\ run.pc = "apply" /\ run.whole =>
    /\ InUse = {k \in Calls : Goal(k) # Absent}
    /\ ~CaughtErrors => \A t \in Calls : /\ t \in run.todo => run.decl[t] = Goal(t)
                                         /\ t \notin run.todo \cup carried => sink[t] = Goal(t)

Memos == Structured /\ MemosAreBacked /\ ContentTracked /\ Executions /\ Progress /\ UseIsBacked
Results == Outcome /\ MemosAreExact /\ SinkMatchesUnlessCarried

IInv == Typed /\ Recorded /\ Memos /\ Results

-----------------------------------------------------------------------------
(* Partial functions and items. *)

LEMMA PartialIs ==
  ASSUME NEW S, NEW fun \in Partial(S)
  PROVE  /\ DOMAIN fun \subseteq Calls /\ fun \in [DOMAIN fun -> S]
         /\ \A k \in DOMAIN fun : fun[k] \in S
  <1>1. PICK D \in SUBSET Calls : fun \in [D -> S] BY DEF Partial
  <1> QED BY <1>1

LEMMA PartialMade ==
  ASSUME NEW S, NEW D \in SUBSET Calls, NEW fun \in [D -> S]
  PROVE  fun \in Partial(S) /\ DOMAIN fun = D
  BY DEF Partial

LEMMA BumpLeft ==
  ASSUME NEW item \in SUBSET Entries, NEW ver \in Nat
  PROVE  /\ Bump(item, ver) \in SUBSET Entries
         /\ \A e \in Bump(item, ver) : e[1] = ver
         /\ Possible(Bump(item, ver)) = Possible(item)
         /\ Left(Bump(item, ver), ver) = Possible(item) \ {Absent}
         /\ item = {} <=> Bump(item, ver) = {}
  <1> DEFINE new(e) == <<ver, e[2], Repeated(item, e[2])>>
  <1>1. \A e \in item : e[2] \in States BY DEF Entries
  <1>2. \A e \in item : Repeated(item, e[2]) \in BOOLEAN BY Zenon DEF Repeated
  <1>3. \A e \in item : new(e) \in Entries /\ new(e)[1] = ver /\ new(e)[2] = e[2]
    BY <1>1, <1>2 DEF Entries
  <1>4. Bump(item, ver) = {new(e) : e \in item} BY DEF Bump
  <1> HIDE DEF new
  <1>5. Possible(Bump(item, ver)) = Possible(item) BY <1>3, <1>4 DEF Possible
  <1>6. Retained(Bump(item, ver), ver) = {e \in Bump(item, ver) : e[2] # Absent}
    BY <1>3, <1>4 DEF Retained
  <1>7. Left(Bump(item, ver), ver) = Possible(item) \ {Absent}
    <2>1. ASSUME NEW s \in Left(Bump(item, ver), ver) PROVE s \in Possible(item) \ {Absent}
      <3>1. PICK e \in Retained(Bump(item, ver), ver) : e[2] = s BY <2>1 DEF Left, Possible
      <3>2. e \in Bump(item, ver) /\ e[2] # Absent BY <1>6
      <3>3. PICK old \in item : e = new(old) BY <1>4, <3>2
      <3>4. old[2] = s BY <1>3, <3>1, <3>3
      <3> QED BY <3>1, <3>2, <3>4 DEF Possible
    <2>2. ASSUME NEW e \in item, e[2] # Absent PROVE e[2] \in Left(Bump(item, ver), ver)
      <3>1. new(e) \in Retained(Bump(item, ver), ver) /\ new(e)[2] = e[2] BY <1>3, <1>4, <1>6, <2>2
      <3> QED BY <3>1 DEF Left, Possible
    <2>3. \A s \in Possible(item) \ {Absent} : s \in Left(Bump(item, ver), ver)
      BY <2>2 DEF Possible
    <2> QED BY <2>1, <2>3
  <1> QED BY <1>3, <1>4, <1>5, <1>7

LEMMA ReconciledLeft ==
  ASSUME NEW item \in SUBSET Entries, NEW ver \in Nat, NEW desired \in States, NEW full \in BOOLEAN,
         0 < ver, \A e \in item : e[1] < ver, desired # Absent \/ item # {}
  PROVE  /\ Reconciled(desired, item, full, ver) \in SUBSET Entries
         /\ \A e \in Reconciled(desired, item, full, ver) : e[1] <= ver
         /\ ReconcileActs(desired, item, full) =>
              /\ Possible(item) \cup {desired} \subseteq Possible(Reconciled(desired, item, full, ver))
              /\ item = {} => Absent \in Possible(Reconciled(desired, item, full, ver))
              /\ Left(Reconciled(desired, item, full, ver), ver) = {desired} \ {Absent}
         /\ ~ReconcileActs(desired, item, full) =>
              /\ Possible(item) = {desired} /\ desired # Absent
              /\ Possible(Reconciled(desired, item, full, ver)) = Possible(item)
              /\ Left(Reconciled(desired, item, full, ver), ver) = Possible(item)
  <1> DEFINE next == Reconciled(desired, item, full, ver)
              push == Pushed(ver, desired)
             empty == Pushed(0, Absent)
  <1>1. /\ push \in Entries /\ push[1] = ver /\ push[2] = desired
        /\ empty \in Entries /\ empty[1] = 0 /\ empty[2] = Absent
    BY DEF Pushed, Entries, States
  <1>2. \A e \in item : e[1] \in Nat /\ e[2] \in States BY DEF Entries
  <1> HIDE DEF push, empty
  <1>3. CASE ~ReconcileActs(desired, item, full)
    <2>1. next = Bump(item, ver) BY <1>3 DEF Reconciled
    <2>2. item # {} /\ Absent \notin Possible(item) /\ \A s \in Possible(item) : s = desired
      BY <1>3 DEF ReconcileActs, MayBeMissing
    <2>3. Possible(item) = {desired} /\ desired # Absent BY <2>2 DEF Possible
    <2> HIDE DEF next
    <2>4. next \in SUBSET Entries /\ \A e \in next : e[1] <= ver BY <2>1, BumpLeft
    <2>5. Possible(next) = Possible(item) /\ Left(next, ver) = Possible(item) BY <2>1, <2>3, BumpLeft
    <2> QED BY <1>3, <2>3, <2>4, <2>5 DEF next
  <1>4. CASE ReconcileActs(desired, item, full)
    <2>1. next = item \cup {push} \/ (item = {} /\ next = {empty, push})
      BY <1>4 DEF Reconciled, push, empty
    <2>2. item = {} => next = {empty, push} BY <1>4 DEF Reconciled, push, empty
    <2> HIDE DEF next
    <2>3. next \in SUBSET Entries /\ \A e \in next : e[1] <= ver BY <1>1, <1>2, <2>1
    <2>4. push \in next /\ \A e \in next : e = push \/ e[1] < ver BY <1>1, <1>2, <2>1
    <2>5. Retained(next, ver) = IF desired = Absent THEN {} ELSE {push}
      BY <1>1, <2>3, <2>4, <1>2 DEF Retained, Entries
    <2>6. Left(next, ver) = {desired} \ {Absent} BY <1>1, <2>5 DEF Left, Possible
    <2>7. Possible(item) \cup {desired} \subseteq Possible(next) BY <1>1, <2>1 DEF Possible
    <2>8. item = {} => Absent \in Possible(next) BY <1>1, <2>2 DEF Possible
    <2> QED BY <1>4, <2>3, <2>6, <2>7, <2>8 DEF next
  <1> QED BY <1>3, <1>4

LEMMA RetainedLeft ==
  ASSUME NEW item \in SUBSET Entries, NEW ver \in Nat, \A e \in item : e[1] <= ver
  PROVE  /\ Retained(item, ver) \in SUBSET Entries
         /\ \A e \in Retained(item, ver) : e[1] = ver
         /\ Absent \notin Left(item, ver)
         /\ Left(item, ver) = {} <=> Retained(item, ver) = {}
  <1>1. \A e \in item : e[1] \in Nat BY DEF Entries
  <1>2. \A e \in Retained(item, ver) : e \in item /\ e[1] = ver /\ e[2] # Absent
    BY <1>1 DEF Retained
  <1> QED BY <1>2 DEF Left, Possible

\* What a pre_commit makes of one item.
LEMMA NextItemIs ==
  ASSUME Typed, Recorded, run.pc = "process", NEW t \in Calls
  PROVE  LET ver == version + 1
             next == NextItem(t, ver)
             before == Possible(items[t]) IN
         /\ ver \in Nat /\ next \in SUBSET Entries /\ \A e \in next : e[1] <= ver
         /\ \/ /\ t \in PassedOn /\ t \notin Acting
               /\ t \in Contained /\ run.decl[t] = Absent /\ items[t] # {}
               /\ Possible(next) = before /\ Left(next, ver) = before \ {Absent}
            \/ /\ t \in Acting /\ t \notin PassedOn
               /\ run.decl[t] # Absent \/ (items[t] # {} /\ t \notin Contained)
               /\ before \cup {run.decl[t]} \subseteq Possible(next)
               /\ items[t] = {} => Absent \in Possible(next)
               /\ Left(next, ver) = {run.decl[t]} \ {Absent}
            \/ /\ t \notin PassedOn /\ t \notin Acting
               /\ run.decl[t] # Absent /\ before = {run.decl[t]}
               /\ Possible(next) = before /\ Left(next, ver) = before
            \/ /\ t \notin PassedOn /\ t \notin Acting
               /\ run.decl[t] = Absent /\ items[t] = {} /\ next = {} /\ Left(next, ver) = {}
  <1> DEFINE ver == version + 1
             next == NextItem(t, ver)
  <1>1. /\ ver \in Nat /\ 0 < ver /\ items[t] \in SUBSET Entries
        /\ run.decl[t] \in States /\ run.full \in BOOLEAN
        /\ \A e \in items[t] : e[1] < ver
    <2>1. \A e \in items[t] : e[1] \in Nat /\ e[1] <= version BY DEF Typed, Recorded, ItemsBound, Entries
    <2> QED BY <2>1 DEF Typed, RunType
  <1>2. t \in PassedOn <=> t \in Contained /\ run.decl[t] = Absent /\ items[t] # {}
    BY DEF PassedOn, Contained, Typed, RunType
  <1>3. t \in Reconciles <=> t \notin PassedOn /\ (run.decl[t] # Absent \/ items[t] # {})
    BY DEF Reconciles
  <1>4. t \in Acting <=> t \in Reconciles /\ ReconcileActs(run.decl[t], items[t], run.full)
    BY DEF Acting
  <1>5. next = CASE t \in PassedOn -> Bump(items[t], ver)
                 [] t \in Reconciles -> Reconciled(run.decl[t], items[t], run.full, ver)
                 [] OTHER -> {}
    BY DEF NextItem
  <1> HIDE DEF ver, next
  <1> DEFINE desired == run.decl[t]
             item == items[t]
  <1>6. CASE t \in PassedOn
    <2>1. next = Bump(items[t], ver) BY <1>3, <1>5, <1>6
    <2>2. /\ next \in SUBSET Entries /\ \A e \in next : e[1] = ver
          /\ Possible(next) = Possible(items[t]) /\ Left(next, ver) = Possible(items[t]) \ {Absent}
      BY <1>1, <2>1, BumpLeft
    <2>3. \A e \in next : e[1] <= ver BY <1>1, <2>2
    <2> QED BY <1>1, <1>2, <1>3, <1>4, <1>6, <2>2, <2>3 DEF ver, next
  <1>7. CASE t \in Reconciles
    <2>1. next = Reconciled(run.decl[t], items[t], run.full, ver) BY <1>3, <1>5, <1>7
    <2> DEFINE acts == ReconcileActs(desired, item, run.full)
    <2>2. run.decl[t] # Absent \/ items[t] # {} BY <1>3, <1>7
    <2>3. /\ next \in SUBSET Entries /\ \A e \in next : e[1] <= ver
          /\ acts => /\ Possible(item) \cup {desired} \subseteq Possible(next)
                     /\ item = {} => Absent \in Possible(next)
                     /\ Left(next, ver) = {desired} \ {Absent}
          /\ ~acts => /\ Possible(item) = {desired} /\ desired # Absent
                      /\ Possible(next) = Possible(item) /\ Left(next, ver) = Possible(item)
      <3>1. item \in SUBSET Entries /\ desired \in States /\ run.full \in BOOLEAN BY <1>1
      <3>2. 0 < ver /\ ver \in Nat BY <1>1
      <3>3. \A e \in item : e[1] < ver BY <1>1
      <3>4. desired # Absent \/ item # {} BY <2>2
      <3>5. next = Reconciled(desired, item, run.full, ver) BY <2>1
      <3> DEFINE R == Reconciled(desired, item, run.full, ver)
                 full == run.full
      <3> HIDE DEF desired, item, full
      <3>6. /\ R \in SUBSET Entries /\ \A e \in R : e[1] <= ver
            /\ ReconcileActs(desired, item, full) =>
                 /\ Possible(item) \cup {desired} \subseteq Possible(R)
                 /\ item = {} => Absent \in Possible(R)
                 /\ Left(R, ver) = {desired} \ {Absent}
            /\ ~ReconcileActs(desired, item, full) =>
                 /\ Possible(item) = {desired} /\ desired # Absent
                 /\ Possible(R) = Possible(item) /\ Left(R, ver) = Possible(item)
        BY <3>1, <3>2, <3>3, <3>4, ReconciledLeft DEF full
      <3> QED BY <3>5, <3>6 DEF full
    <2>4. t \in Acting <=> acts BY <1>4, <1>7
    <2> HIDE DEF acts
    <2>5. CASE acts BY <1>1, <1>2, <1>3, <1>7, <2>2, <2>3, <2>4, <2>5 DEF ver, next
    <2>6. CASE ~acts BY <1>1, <1>3, <1>7, <2>3, <2>4, <2>6 DEF ver, next
    <2> QED BY <2>5, <2>6
  <1>8. CASE t \notin PassedOn /\ t \notin Reconciles
    <2>1. next = {} BY <1>5, <1>8
    <2>2. Left({}, ver) = {} BY DEF Left, Retained, Possible
    <2> QED BY <1>1, <1>3, <1>4, <1>8, <2>1, <2>2 DEF ver, next
  <1> QED BY <1>6, <1>7, <1>8

-----------------------------------------------------------------------------
(* Steps that change sources only, and the start and end of runs. *)

LEMMA ConstFacts ==
  /\ \A t \in Calls : t \in Files \/ t \in Chunks
  /\ \A t : ~(t \in Files /\ t \in Chunks)
  /\ \A v \in Values : v # Absent /\ v \in States /\ ChunksOf[v] \subseteq Chunks
  /\ ChunkContent \in Values /\ Absent \in States /\ Files \subseteq Calls /\ Chunks \subseteq Calls
  BY FilesAssumption, ChunksAssumption, AbsentAssumption DEF Calls, States

LEMMA EntryIs ==
  ASSUME NEW status, NEW row
  PROVE  Entry(status, row).status = status /\ Entry(status, row).row = row
  BY DEF Entry

LEMMA IdleIs ==
  /\ Idle \in RunType
  /\ Idle.pc = "idle" /\ DOMAIN Idle.cache = {} /\ Idle.toCall = {}
  /\ \A t \in Calls : Idle.decl[t] = Absent
  <1>1. Empty \in Partial(Cached) /\ DOMAIN Empty = {}
    <2>1. Empty \in [{} -> Cached] BY DEF Empty
    <2> QED BY <2>1, PartialMade
  <1> QED BY <1>1, ConstFacts DEF Idle, RunType

LEMMA InitInv == Init => IInv
  <1> SUFFICES ASSUME Init PROVE IInv OBVIOUS
  <1>1. rows \in Partial(Rows) /\ DOMAIN rows = {}
    <2>1. rows \in [{} -> Rows] BY DEF Init, Empty
    <2> QED BY <2>1, PartialMade
  <1>2. run \in RunType /\ run.pc = "idle" /\ DOMAIN run.cache = {} /\ run.toCall = {}
    BY IdleIs DEF Init
  <1>3. /\ \A t \in Calls : items[t] = {} /\ sink[t] = Absent
        /\ \A f \in Files : mtime[f] = 0 /\ file[f] = Absent
    BY ConstFacts DEF Init
  <1>4. Typed BY <1>1, <1>2, ConstFacts DEF Init, Typed
  <1>5. Recorded BY <1>2, <1>3 DEF Recorded, ItemsBound, TrackingCoversSinkUnlessCarried, RunRecorded
  <1>6. InUse = {} /\ Fresh = {} BY <1>2 DEF InUse, Fresh
  <1>7. Structured BY <1>1, <1>2, <1>3, <1>6 DEF Structured
  <1>8. MemosAreBacked /\ ContentTracked BY <1>1 DEF MemosAreBacked, ContentTracked
  <1>9. Executions BY <1>6, IdleIs DEF Executions, Init
  <1>10. Progress /\ UseIsBacked /\ Outcome BY <1>2 DEF Progress, UseIsBacked, Outcome
  <1>11. \A t \in Calls : Wanted(t) = Absent BY <1>3, ConstFacts DEF Wanted
  <1>12. MemosAreExact /\ SinkMatchesUnlessCarried
    BY <1>1, <1>3, <1>11 DEF MemosAreExact, SinkMatchesUnlessCarried
  <1> QED BY <1>4, <1>5, <1>7, <1>8, <1>9, <1>10, <1>12 DEF IInv, Memos, Results

\* The files change: nothing that a run has done is touched.
LEMMA SourcesInv ==
  ASSUME IInv, UNCHANGED <<application, rows, version, items, sink, run, carried>>,
         file' \in [Files -> States], mtime' \in [Files -> Nat], changes' \in Nat, faults' \in Nat,
         Plain => mtime' = mtime, synced' \in BOOLEAN,
         synced' => synced /\ file' = file
  PROVE  IInv'
  <1>1. Typed' BY DEF IInv, Typed
  <1>2. Recorded' BY DEF IInv, Recorded, ItemsBound, TrackingCoversSinkUnlessCarried, RunRecorded
  <1>3. /\ Plain' = Plain /\ Timestamps' = Timestamps /\ CaughtErrors' = CaughtErrors
        /\ InUse' = InUse /\ Fresh' = Fresh /\ Called' = Called
    BY DEF Plain, Timestamps, CaughtErrors, InUse, Fresh, Called
  <1>4. Structured' BY <1>3 DEF IInv, Memos, Structured, RowFits
  <1>5. MemosAreBacked' /\ ContentTracked' /\ Executions'
    BY <1>3 DEF IInv, Memos, MemosAreBacked, ContentTracked, Executions
  <1>6. Progress' /\ UseIsBacked' BY <1>3 DEF IInv, Memos, Progress, UseIsBacked
  <1>7. Outcome'
    <2>1. \A t : Goal(t)' = Goal(t) BY <1>3 DEF Goal
    <2> QED BY <1>3, <2>1 DEF IInv, Results, Outcome
  <1>8. MemosAreExact' /\ SinkMatchesUnlessCarried'
    <2>1. CASE synced'
      <3>1. synced /\ \A t : Wanted(t)' = Wanted(t) BY <2>1 DEF Wanted
      <3> QED BY <1>3, <3>1 DEF IInv, Results, MemosAreExact, SinkMatchesUnlessCarried
    <2>2. CASE ~synced' BY <2>2 DEF MemosAreExact, SinkMatchesUnlessCarried
    <2> QED BY <2>1, <2>2
  <1> QED BY <1>1, <1>2, <1>4, <1>5, <1>6, <1>7, <1>8 DEF IInv, Memos, Results

LEMMA ChangeInv ==
  ASSUME IInv, NEW f \in Files, (\E v \in States : ChangeFile(f, v)) \/ Touch(f) PROVE IInv'
  <1>1. UNCHANGED <<application, rows, version, items, sink, run, carried, faults>>
    BY DEF ChangeFile, Touch, store
  <1>2. /\ file' \in [Files -> States] /\ mtime' \in [Files -> Nat] /\ changes' \in Nat /\ faults' \in Nat
        /\ Plain => mtime' = mtime
    <2>1. CASE Touch(f) BY <1>1, <2>1 DEF Touch, IInv, Typed, Plain
    <2>2. CASE \E v \in States : ChangeFile(f, v)
      <3>1. PICK v \in States : ChangeFile(f, v) BY <2>2
      <3>2. /\ file' = [file EXCEPT ![f] = v] /\ changes' = changes + 1
            /\ Plain => mtime' = [mtime EXCEPT ![f] = @]
        BY <3>1 DEF ChangeFile, Plain
      <3>3. mtime' \in [Files -> Nat] BY <3>1 DEF ChangeFile, IInv, Typed
      <3>4. Plain => mtime' = mtime BY <3>2, <3>3 DEF IInv, Typed
      <3>5. file' \in [Files -> States] BY <3>2 DEF IInv, Typed
      <3>6. changes' \in Nat /\ faults' \in Nat BY <1>1, <3>2 DEF IInv, Typed
      <3> QED BY <3>3, <3>4, <3>5, <3>6
    <2> QED BY <2>1, <2>2
  <1>3. synced' \in BOOLEAN /\ (synced' => synced /\ file' = file)
    <2>1. CASE Touch(f) BY <2>1 DEF Touch, IInv, Typed
    <2>2. CASE \E v \in States : ChangeFile(f, v) BY <2>2 DEF ChangeFile
    <2> QED BY <2>1, <2>2
  <1> QED BY <1>1, <1>2, <1>3, SourcesInv

\* No call of the run has been made yet, or is remembered.
LEMMA NewRunInv ==
  ASSUME IInv, UNCHANGED <<application, file, mtime, changes, rows, version, items, sink, carried>>,
         faults' \in Nat, synced' \in BOOLEAN, synced' => synced, run' \in RunType,
         run'.pc \in {"idle", "process"}, run'.pc # "idle" => ~synced',
         \A k \in DOMAIN run'.cache : k \in DOMAIN rows /\ run'.cache[k] = Entry("stored", rows[k]),
         run'.pc # "idle" => IF run'.full THEN DOMAIN run'.cache = {} ELSE DOMAIN rows = DOMAIN run'.cache,
         run'.pc # "idle" => \A f \in Files : run'.seen[f] = Absent,
         \A t \in Calls : run'.decl[t] = Absent
  PROVE  IInv'
  <1>1. Typed' BY DEF IInv, Typed
  <1>2. Recorded' BY DEF IInv, Recorded, ItemsBound, TrackingCoversSinkUnlessCarried, RunRecorded
  <1>3. InUse' = {} /\ Fresh' = {}
    <2>1. \A k \in DOMAIN run'.cache : run'.cache[k].status = "stored" BY EntryIs
    <2> QED BY <2>1 DEF InUse, Fresh
  <1>4. Plain' = Plain /\ Timestamps' = Timestamps /\ CaughtErrors' = CaughtErrors
    BY DEF Plain, Timestamps, CaughtErrors
  <1>5. Structured'
    <2>1. \A k \in DOMAIN run'.cache : run'.cache[k].row = rows[k] BY EntryIs
    <2> QED BY <1>3, <1>4, <2>1 DEF IInv, Memos, Structured, RowFits
  <1>6. MemosAreBacked' /\ ContentTracked' /\ Executions'
    BY <1>3, <1>4 DEF IInv, Memos, MemosAreBacked, ContentTracked, Executions
  <1>7. Progress' BY <1>3 DEF Progress, Called
  <1>8. UseIsBacked' /\ Outcome' BY DEF UseIsBacked, Outcome
  <1>9. \A t : Wanted(t)' = Wanted(t) BY DEF Wanted
  <1>10. MemosAreExact' /\ SinkMatchesUnlessCarried'
    BY <1>4, <1>9 DEF IInv, Results, MemosAreExact, SinkMatchesUnlessCarried
  <1> QED BY <1>1, <1>2, <1>5, <1>6, <1>7, <1>8, <1>10 DEF IInv, Memos, Results

LEMMA StartRunInv == ASSUME IInv, NEW full \in BOOLEAN, StartRun(full) PROVE IInv'
  <1> DEFINE cache == IF full THEN Empty ELSE [k \in DOMAIN rows |-> Entry("stored", rows[k])]
             called == {f \in Files : file[f] # Absent}
  <1>1. /\ run' = [Idle EXCEPT !.pc = "process", !.full = full, !.toCall = called, !.cache = cache]
        /\ UNCHANGED <<application, file, mtime, changes, rows, version, items, sink, carried, faults>>
        /\ synced' = FALSE
    BY DEF StartRun, sources, store
  <1>2. cache \in Partial(Cached) /\ DOMAIN cache = IF full THEN {} ELSE DOMAIN rows
    <2>1. DOMAIN rows \subseteq Calls /\ \A k \in DOMAIN rows : rows[k] \in Rows
      BY PartialIs DEF IInv, Typed
    <2>2. \A k \in DOMAIN rows : Entry("stored", rows[k]) \in Cached BY <2>1 DEF Entry, Cached
    <2>3. [k \in DOMAIN rows |-> Entry("stored", rows[k])] \in [DOMAIN rows -> Cached] BY <2>2
    <2>4. Empty \in [{} -> Cached] BY DEF Empty
    <2>5. CASE full BY <2>4, <2>5, PartialMade
    <2>6. CASE ~full BY <2>1, <2>3, <2>6, PartialMade
    <2> QED BY <2>5, <2>6
  <1>3. \A k \in DOMAIN cache : k \in DOMAIN rows /\ cache[k] = Entry("stored", rows[k]) BY <1>2
  <1> HIDE DEF cache
  <1>4. /\ run' \in RunType /\ run'.pc = "process" /\ run'.full = full /\ run'.cache = cache
        /\ \A f \in Files : run'.seen[f] = Absent
        /\ \A t \in Calls : run'.decl[t] = Absent
    BY <1>1, <1>2, ConstFacts DEF Idle, RunType
  <1> QED BY <1>1, <1>2, <1>3, <1>4, NewRunInv DEF IInv, Typed

LEMMA RunEndsInv ==
  ASSUME IInv, RunFails \/ \E f \in Files : CallRaises(f) PROVE IInv'
  <1>1. /\ run' = Idle /\ faults' \in Nat
        /\ UNCHANGED <<application, file, mtime, changes, rows, version, items, sink, carried, synced>>
    BY DEF RunFails, CallRaises, sources, store, IInv, Typed
  <1> QED BY <1>1, IdleIs, NewRunInv DEF IInv, Typed

-----------------------------------------------------------------------------
(* The calls of a run. *)

\* Calls that answer from the cache or write to it: what is in use stays in use.
LEMMA CallKeeps ==
  ASSUME IInv, run.pc = "process", run' \in RunType, run'.pc = "process", run'.full = run.full,
         UNCHANGED <<application, file, mtime, changes, rows, version, items, sink, synced, carried>>,
         faults' \in Nat
  PROVE  /\ Typed' /\ Recorded' /\ MemosAreBacked' /\ ContentTracked' /\ UseIsBacked' /\ Results'
         /\ Plain' = Plain /\ Timestamps' = Timestamps /\ CaughtErrors' = CaughtErrors
  <1>1. Typed' BY DEF IInv, Typed
  <1>2. Recorded' BY DEF IInv, Recorded, ItemsBound, TrackingCoversSinkUnlessCarried, RunRecorded
  <1>3. Plain' = Plain /\ Timestamps' = Timestamps /\ CaughtErrors' = CaughtErrors
    BY DEF Plain, Timestamps, CaughtErrors
  <1>4. MemosAreBacked' /\ ContentTracked'
    BY <1>3 DEF IInv, Memos, MemosAreBacked, ContentTracked
  <1>5. UseIsBacked' /\ Outcome' BY DEF UseIsBacked, Outcome
  <1>6. MemosAreExact' /\ SinkMatchesUnlessCarried'
    BY DEF IInv, Typed, MemosAreExact, SinkMatchesUnlessCarried
  <1> QED BY <1>1, <1>2, <1>3, <1>4, <1>5, <1>6 DEF Results

LEMMA HitIs ==
  ASSUME NEW entry \in Cached
  PROVE  /\ Hit(entry) \in Cached /\ Hit(entry).row = entry.row
         /\ Hit(entry).status = IF entry.status = "stored" THEN "hit" ELSE entry.status
         /\ Hit(entry).status # "stored"
         /\ Hit(entry).status = "fresh" <=> entry.status = "fresh"
  BY DEF Hit, Entry, Cached

LEMMA ReuseInv == ASSUME IInv, NEW f \in Files, ReuseCall(f) PROVE IInv'
  <1> DEFINE hit == Hit(run.cache[f])
             entry == IF hit.row.mtime = mtime[f] THEN hit
                      ELSE Entry("fresh", [hit.row EXCEPT !.mtime = mtime[f]])
  <1>1. /\ run.pc = "process" /\ f \in run.toCall /\ file[f] # Absent /\ CanReuse(f)
        /\ run' = [run EXCEPT !.toCall = @ \ {f}, !.seen[f] = file[f], !.cache[f] = entry]
        /\ UNCHANGED <<application, file, mtime, changes, rows, version, items,
                       sink, synced, carried, faults>>
    BY DEF ReuseCall, sources, store
  <1>2. /\ f \in DOMAIN run.cache /\ run.cache[f] \in Cached /\ run.cache \in [DOMAIN run.cache -> Cached]
        /\ DOMAIN run.cache \subseteq Calls
    BY <1>1, PartialIs DEF CanReuse, IInv, Typed, RunType
  <1>3. hit \in Cached /\ hit.row = run.cache[f].row /\ hit.status # "stored"
        /\ (hit.status = "fresh" <=> run.cache[f].status = "fresh")
    BY <1>2, HitIs
  <1> DEFINE row == [hit.row EXCEPT !.mtime = mtime[f]]
  <1>4. /\ row \in Rows /\ row.content = hit.row.content /\ row.paths = hit.row.paths
        /\ row.deps = hit.row.deps /\ row.mtime = mtime[f]
    BY <1>3 DEF Cached, Rows, IInv, Typed
  <1>5. /\ entry \in Cached /\ entry.status # "stored"
        /\ entry.row.content = hit.row.content /\ entry.row.paths = hit.row.paths
        /\ entry.row.deps = hit.row.deps
        /\ entry.status # "fresh" => entry.row = run.cache[f].row /\ run.cache[f].status # "fresh"
        /\ run.cache[f].status = "fresh" => entry.status = "fresh"
        /\ hit.row.mtime = mtime[f] => entry = hit
        /\ entry.row.mtime = mtime[f]
    <2> HIDE DEF hit, row
    <2>1. CASE hit.row.mtime = mtime[f] BY <1>3, <2>1
    <2>2. CASE hit.row.mtime # mtime[f]
      <3>1. entry = Entry("fresh", row) BY <2>2 DEF row
      <3>2. entry.status = "fresh" /\ entry.row = row BY <3>1, EntryIs
      <3>3. Entry("fresh", row) \in Cached BY <1>4 DEF Entry, Cached
      <3> QED BY <1>3, <1>4, <2>2, <3>1, <3>2, <3>3
    <2> QED BY <2>1, <2>2
  <1> HIDE DEF hit, entry, row
  <1>6. /\ run' \in RunType /\ run'.pc = "process" /\ run'.full = run.full /\ run'.whole = run.whole
        /\ run'.toCall = run.toCall \ {f} /\ run'.decl = run.decl
        /\ run'.cache = [run.cache EXCEPT ![f] = entry]
        /\ run'.seen = [run.seen EXCEPT ![f] = file[f]]
    <2>1. [run.cache EXCEPT ![f] = entry] \in [DOMAIN run.cache -> Cached] BY <1>2, <1>5
    <2>2. [run.cache EXCEPT ![f] = entry] \in Partial(Cached) BY <1>2, <2>1, PartialMade
    <2>3. [run.seen EXCEPT ![f] = file[f]] \in [Files -> States] BY DEF IInv, Typed, RunType
    <2> QED BY <1>1, <2>2, <2>3 DEF IInv, Typed, RunType
  <1>7. /\ DOMAIN run'.cache = DOMAIN run.cache /\ run'.cache[f] = entry
        /\ \A k \in DOMAIN run.cache : k # f => run'.cache[k] = run.cache[k]
    BY <1>2, <1>6
  <1>8. /\ InUse' = InUse \cup {f} /\ Fresh \subseteq Fresh'
        /\ \A k \in DOMAIN run.cache :
             k \notin Fresh' => k \notin Fresh /\ run'.cache[k].row = run.cache[k].row
    BY <1>2, <1>5, <1>7 DEF InUse, Fresh
  <1>9. /\ Typed' /\ Recorded' /\ MemosAreBacked' /\ ContentTracked' /\ UseIsBacked' /\ Results'
        /\ Plain' = Plain /\ Timestamps' = Timestamps /\ CaughtErrors' = CaughtErrors
    BY <1>1, <1>6, CallKeeps DEF IInv, Typed
  <1>10. Structured'
    <2>1. /\ \A k \in DOMAIN rows : RowFits(Plain', k, rows'[k])
          /\ Plain => \A x \in Files : mtime'[x] = 0
          /\ \A k \in DOMAIN run.cache : k \notin Fresh => k \in DOMAIN rows /\ rows[k] = run.cache[k].row
          /\ IF run.full THEN DOMAIN run.cache \subseteq Fresh ELSE DOMAIN rows \subseteq DOMAIN run.cache
      BY <1>1, <1>9 DEF IInv, Memos, Structured, RowFits
    <2>2. \A k \in DOMAIN run'.cache : RowFits(Plain', k, run'.cache[k].row)
      <3> SUFFICES ASSUME NEW k \in DOMAIN run.cache PROVE RowFits(Plain', k, run'.cache[k].row) BY <1>7
      <3>1. RowFits(Plain, k, run.cache[k].row) BY DEF IInv, Memos, Structured
      <3>2. CASE k # f BY <1>7, <1>9, <3>1, <3>2 DEF RowFits
      <3>3. CASE k = f
        <4>1. /\ entry.row.content = run.cache[f].row.content /\ entry.row.paths = run.cache[f].row.paths
              /\ entry.row.deps = run.cache[f].row.deps
          BY <1>3, <1>5
        <4>2. Plain => entry.row.mtime = 0 BY <1>1, <1>5, <2>1
        <4> QED BY <1>7, <1>9, <3>1, <3>3, <4>1, <4>2 DEF RowFits
      <3> QED BY <3>2, <3>3
    <2>3. run'.toCall \cap InUse' = {} BY <1>6, <1>8 DEF IInv, Memos, Structured
    <2> QED BY <1>1, <1>6, <1>7, <1>8, <1>9, <2>1, <2>2, <2>3 DEF Structured
  <1>11. Plain => Fresh' = Fresh /\ entry.row = run.cache[f].row
    <2> SUFFICES ASSUME Plain PROVE Fresh' = Fresh /\ entry.row = run.cache[f].row OBVIOUS
    <2>1. hit.row.mtime = mtime[f] BY <1>2, <1>3 DEF IInv, Memos, Structured, RowFits
    <2>2. entry = hit BY <1>5, <2>1
    <2> QED BY <1>2, <1>3, <1>7, <2>2 DEF Fresh
  <1>12. Executions'
    <2> SUFFICES ASSUME Plain PROVE Executions' BY <1>9 DEF Executions
    <2>1. \A k \in DOMAIN run.cache : run'.cache[k].row = run.cache[k].row BY <1>7, <1>11
    <2>2. Fresh \subseteq DOMAIN run.cache BY DEF Fresh
    <2> QED BY <1>6, <1>8, <1>9, <1>11, <2>1, <2>2 DEF IInv, Memos, Executions
  <1>13. Progress'
    <2> SUFFICES ASSUME Plain, run.whole PROVE Progress' BY <1>6, <1>9 DEF Progress
    <2>1. Called' = Called \cup {f}
      BY <1>1, <1>6 DEF Called, IInv, Typed, RunType
    <2>2. run.cache[f].row.content = file[f] BY <1>1 DEF CanReuse, Plain
    <2>3. \A x \in Files : run'.seen[x] = IF x = f THEN file[f] ELSE run.seen[x]
      BY <1>6 DEF IInv, Typed, RunType
    <2>4. /\ InUse \cap Files = Called /\ \A x \in Called : run.cache[x].row.content = run.seen[x]
          /\ \A n \in InUse \cap Chunks : \E x \in Called : n \in ChunksOf[run.seen[x]]
      BY <1>1 DEF IInv, Memos, Progress
    <2>5. f \notin Called /\ f \notin Chunks BY <1>1, <2>4, ConstFacts DEF IInv, Memos, Structured
    <2>6. Called \subseteq Files /\ Called \subseteq DOMAIN run.cache BY <2>4 DEF Called, InUse
    <2>7. InUse' \cap Files = Called' BY <1>8, <2>1, <2>4
    <2>8. \A x \in Called' : run'.cache[x].row.content = run'.seen[x]
      BY <1>7, <1>11, <2>1, <2>2, <2>3, <2>4, <2>5, <2>6
    <2>9. \A n \in InUse' \cap Chunks : \E x \in Called' : n \in ChunksOf[run'.seen[x]]
      BY <1>8, <2>1, <2>3, <2>4, <2>5, <2>6
    <2> QED BY <2>7, <2>8, <2>9 DEF Progress
  <1> QED BY <1>9, <1>10, <1>12, <1>13 DEF IInv, Memos

LEMMA FailInv == ASSUME IInv, NEW f \in Files, FailCall(f) PROVE IInv'
  <1> DEFINE cache == [k \in DOMAIN run.cache |-> IF k = f THEN Hit(run.cache[k]) ELSE run.cache[k]]
  <1>1. /\ run.pc = "process" /\ f \in run.toCall /\ file[f] # Absent /\ ~CanReuse(f) /\ CaughtErrors
        /\ run' = [run EXCEPT !.toCall = @ \ {f}, !.whole = FALSE, !.decl[f] = file[f], !.cache = cache]
        /\ faults' = faults + 1
        /\ UNCHANGED <<application, file, mtime, changes, rows, version, items, sink, synced, carried>>
    BY DEF FailCall, sources, store
  <1>2. DOMAIN run.cache \subseteq Calls /\ \A k \in DOMAIN run.cache : run.cache[k] \in Cached
    BY PartialIs DEF IInv, Typed, RunType
  <1>3. /\ cache \in Partial(Cached) /\ DOMAIN cache = DOMAIN run.cache
        /\ \A k \in DOMAIN run.cache :
             /\ cache[k].row = run.cache[k].row
             /\ cache[k].status = "fresh" <=> run.cache[k].status = "fresh"
             /\ cache[k].status = "stored" <=> k # f /\ run.cache[k].status = "stored"
    <2>1. \A k \in DOMAIN run.cache : cache[k] \in Cached BY <1>2, HitIs
    <2>2. cache \in [DOMAIN run.cache -> Cached] BY <2>1
    <2>3. \A k \in DOMAIN run.cache :
             /\ cache[k].row = run.cache[k].row
             /\ cache[k].status = "fresh" <=> run.cache[k].status = "fresh"
             /\ cache[k].status = "stored" <=> k # f /\ run.cache[k].status = "stored"
      BY <1>2, HitIs
    <2> QED BY <1>2, <2>2, <2>3, PartialMade
  <1> HIDE DEF cache
  <1>4. /\ run' \in RunType /\ run'.pc = "process" /\ run'.full = run.full /\ run'.whole = FALSE
        /\ run'.toCall = run.toCall \ {f} /\ run'.cache = cache
        /\ \A t \in Calls : run'.decl[t] = IF t = f THEN file[f] ELSE run.decl[t]
    <2>1. [run.decl EXCEPT ![f] = file[f]] \in [Calls -> States] BY DEF IInv, Typed, RunType
    <2> QED BY <1>1, <1>3, <2>1, ConstFacts DEF IInv, Typed, RunType
  <1>5. /\ Typed' /\ Recorded' /\ MemosAreBacked' /\ ContentTracked' /\ UseIsBacked' /\ Results'
        /\ Plain' = Plain /\ Timestamps' = Timestamps /\ CaughtErrors' = CaughtErrors
    <2>1. faults' \in Nat BY <1>1 DEF IInv, Typed
    <2> QED BY <1>1, <1>4, <2>1, CallKeeps
  <1>6. /\ Fresh' = Fresh /\ InUse \subseteq InUse' /\ InUse' \subseteq InUse \cup {f}
        /\ \A k \in DOMAIN run.cache : run'.cache[k].row = run.cache[k].row
    BY <1>3, <1>4 DEF Fresh, InUse
  <1>7. f \notin Fresh BY <1>1 DEF Fresh, InUse, IInv, Memos, Structured
  <1>8. Structured'
    <2>1. \A k \in DOMAIN run'.cache : RowFits(Plain', k, run'.cache[k].row)
      BY <1>3, <1>4, <1>5, <1>6 DEF IInv, Memos, Structured, RowFits
    <2>2. \A k \in DOMAIN rows' : RowFits(Plain', k, rows'[k])
      BY <1>1, <1>5 DEF IInv, Memos, Structured, RowFits
    <2>3. run'.toCall \cap InUse' = {} BY <1>4, <1>6 DEF IInv, Memos, Structured
    <2> QED BY <1>1, <1>3, <1>4, <1>5, <1>6, <2>1, <2>2, <2>3 DEF IInv, Memos, Structured
  <1>9. Executions'
    <2> SUFFICES ASSUME Plain PROVE Executions' BY <1>5 DEF Executions
    <2>1. Fresh \subseteq DOMAIN run.cache BY DEF Fresh
    <2>2. \A t \in Calls : run.decl[t] # Absent => run'.decl[t] # Absent BY <1>1, <1>4
    <2>3. \A k \in Fresh : run'.decl[k] = run.decl[k] BY <1>2, <1>4, <1>7, <2>1
    <2>4. \A k \in Fresh : run.cache[k].row.paths \subseteq Calls BY <1>2, <2>1 DEF Cached, Rows
    <2> QED BY <1>1, <1>5, <1>6, <2>1, <2>2, <2>3, <2>4 DEF IInv, Memos, Executions
  <1>10. Progress' BY <1>4 DEF Progress
  <1> QED BY <1>5, <1>8, <1>9, <1>10 DEF IInv, Memos

\* The cache and the declarations an executed call leaves, key by key.
LEMMA ExecutedIs ==
  ASSUME Typed, run.toCall \cap InUse = {}, NEW f \in Files, ExecuteCall(f)
  PROVE  LET chunks == ChunksOf[file[f]] IN
         /\ chunks \subseteq Chunks /\ file[f] \in Values /\ f \notin chunks /\ f \notin InUse
         /\ Executed(file[f]) = chunks \ DOMAIN run.cache
         /\ run' \in RunType /\ run'.pc = "process" /\ run'.full = run.full /\ run'.whole = run.whole
         /\ run'.toCall = run.toCall \ {f}
         /\ \A x \in Files : run'.seen[x] = IF x = f THEN file[f] ELSE run.seen[x]
         /\ \A t \in Calls : run'.decl[t] = IF t = f THEN file[f]
                                         ELSE IF t \in Executed(file[f]) THEN ChunkContent ELSE run.decl[t]
         /\ DOMAIN run'.cache = DOMAIN run.cache \cup chunks \cup {f}
         /\ run'.cache[f] = FileMemo(f)
         /\ \A k \in Executed(file[f]) : run'.cache[k] = ChunkMemo(k)
         /\ \A k \in DOMAIN run.cache \ {f} :
              run'.cache[k] = IF k \in chunks THEN Hit(run.cache[k]) ELSE run.cache[k]
  <1> DEFINE chunks == ChunksOf[file[f]]
             executed == Executed(file[f])
             dom == DOMAIN run.cache \cup chunks \cup {f}
             cache == [k \in dom |-> CASE k = f -> FileMemo(f)
                                     [] k \in executed -> ChunkMemo(k)
                                     [] k \in chunks \ executed -> Hit(run.cache[k])
                                     [] OTHER -> run.cache[k]]
             decl == [t \in Calls |-> IF t = f THEN file[f]
                                     ELSE IF t \in executed THEN ChunkContent ELSE run.decl[t]]
  <1>1. /\ run.pc = "process" /\ f \in run.toCall /\ file[f] # Absent
        /\ run' = [run EXCEPT !.toCall = @ \ {f}, !.seen[f] = file[f], !.cache = cache, !.decl = decl]
    BY DEF ExecuteCall
  <1>2. /\ file[f] \in Values /\ file[f] \in States /\ chunks \subseteq Chunks
        /\ f \notin chunks /\ f \notin InUse
    BY <1>1, ConstFacts DEF Typed, States
  <1>3. executed = chunks \ DOMAIN run.cache BY DEF Executed
  <1>4. DOMAIN run.cache \subseteq Calls /\ \A k \in DOMAIN run.cache : run.cache[k] \in Cached
    BY PartialIs DEF Typed, RunType
  <1>5. dom \subseteq Calls BY <1>2, <1>4, ConstFacts
  <1> HIDE DEF executed
  <1>6. /\ cache[f] = FileMemo(f)
        /\ \A k \in executed : cache[k] = ChunkMemo(k)
        /\ \A k \in DOMAIN run.cache \ {f} :
             cache[k] = IF k \in chunks THEN Hit(run.cache[k]) ELSE run.cache[k]
    <2>1. cache[f] = FileMemo(f)
      <3>1. f \in dom /\ f \notin executed /\ f \notin chunks \ executed BY <1>2, <1>3
      <3> QED BY <3>1
    <2>2. ASSUME NEW k \in executed PROVE cache[k] = ChunkMemo(k) BY <1>2, <1>3
    <2>3. ASSUME NEW k \in DOMAIN run.cache, k # f, k \in chunks PROVE cache[k] = Hit(run.cache[k])
      BY <1>3, <2>3
    <2>4. ASSUME NEW k \in DOMAIN run.cache, k # f, k \notin chunks PROVE cache[k] = run.cache[k]
      BY <1>3, <2>4
    <2> HIDE DEF cache
    <2> QED BY <2>1, <2>2, <2>3, <2>4
  <1>7. \A k \in dom : k = f \/ k \in executed \/ k \in DOMAIN run.cache \ {f} BY <1>3
  <1>8. FileMemo(f) \in Cached
    <2> DEFINE row == [content |-> file[f], mtime |-> mtime[f], paths |-> {f} \cup executed, deps |-> chunks]
    <2>1. row \in Rows BY <1>2, <1>3, ConstFacts DEF Typed, Rows
    <2>2. FileMemo(f) = Entry("fresh", row) BY DEF FileMemo, executed
    <2> HIDE DEF row
    <2> QED BY <2>1, <2>2 DEF Entry, Cached
  <1>9. \A k \in executed : ChunkMemo(k) \in Cached
    <2> SUFFICES ASSUME NEW k \in executed PROVE ChunkMemo(k) \in Cached OBVIOUS
    <2> DEFINE row == [content |-> ChunkContent, mtime |-> 0, paths |-> {k}, deps |-> {}]
    <2>1. row \in Rows BY <1>2, <1>3, ConstFacts DEF Rows
    <2>2. ChunkMemo(k) = Entry("fresh", row) BY DEF ChunkMemo
    <2> HIDE DEF row
    <2> QED BY <2>1, <2>2 DEF Entry, Cached
  <1>10. cache \in Partial(Cached) /\ DOMAIN cache = dom
    <2>1. DOMAIN cache = dom /\ cache = [k \in dom |-> cache[k]] OBVIOUS
    <2> HIDE DEF cache
    <2>2. \A k \in dom : cache[k] \in Cached BY <1>4, <1>6, <1>7, <1>8, <1>9, HitIs
    <2>3. cache \in [dom -> Cached] BY <2>1, <2>2
    <2> QED BY <1>5, <2>1, <2>3, PartialMade
  <1>11. decl \in [Calls -> States] BY <1>2, ConstFacts DEF Typed, RunType
  <1>12. [run.seen EXCEPT ![f] = file[f]] \in [Files -> States] BY <1>2 DEF Typed, RunType
  <1>13. \A t \in Calls :
           decl[t] = IF t = f THEN file[f] ELSE IF t \in executed THEN ChunkContent ELSE run.decl[t]
    OBVIOUS
  <1> HIDE DEF cache, decl, dom
  <1>14. /\ run' \in RunType /\ run'.pc = "process" /\ run'.full = run.full /\ run'.whole = run.whole
         /\ run'.toCall = run.toCall \ {f} /\ run'.cache = cache /\ run'.decl = decl
         /\ \A x \in Files : run'.seen[x] = IF x = f THEN file[f] ELSE run.seen[x]
    BY <1>1, <1>10, <1>11, <1>12 DEF Typed, RunType
  <1> QED BY <1>2, <1>3, <1>6, <1>10, <1>13, <1>14 DEF executed, dom

LEMMA ExecuteInv == ASSUME IInv, NEW f \in Files, ExecuteCall(f) PROVE IInv'
  <1> DEFINE chunks == ChunksOf[file[f]]
             executed == Executed(file[f])
  <1>1. UNCHANGED <<application, file, mtime, changes, rows, version, items, sink, synced, carried, faults>>
    BY DEF ExecuteCall, sources, store
  <1>2. /\ chunks \subseteq Chunks /\ file[f] \in Values /\ f \notin chunks /\ f \notin InUse
        /\ executed = chunks \ DOMAIN run.cache
        /\ run' \in RunType /\ run'.pc = "process" /\ run'.full = run.full /\ run'.whole = run.whole
        /\ run'.toCall = run.toCall \ {f}
        /\ \A x \in Files : run'.seen[x] = IF x = f THEN file[f] ELSE run.seen[x]
        /\ \A t \in Calls : run'.decl[t] = IF t = f THEN file[f]
                                        ELSE IF t \in executed THEN ChunkContent ELSE run.decl[t]
        /\ DOMAIN run'.cache = DOMAIN run.cache \cup chunks \cup {f}
        /\ run'.cache[f] = FileMemo(f)
        /\ \A k \in executed : run'.cache[k] = ChunkMemo(k)
        /\ \A k \in DOMAIN run.cache \ {f} :
             run'.cache[k] = IF k \in chunks THEN Hit(run.cache[k]) ELSE run.cache[k]
    <2>1. Typed /\ run.toCall \cap InUse = {} BY DEF IInv, Memos, Structured
    <2> QED BY <2>1, ExecutedIs
  <1>3. /\ run.pc = "process" /\ f \in run.toCall /\ ~CanReuse(f) /\ file[f] # Absent
    BY DEF ExecuteCall
  <1>4. DOMAIN run.cache \subseteq Calls /\ \A k \in DOMAIN run.cache : run.cache[k] \in Cached
    BY PartialIs DEF IInv, Typed, RunType
  <1> DEFINE new == FileMemo(f)
  <1>5. /\ new.status = "fresh" /\ new.row.content = file[f] /\ new.row.mtime = mtime[f]
        /\ new.row.paths = {f} \cup executed /\ new.row.deps = chunks
    BY EntryIs DEF FileMemo
  <1>6. \A k \in executed :
          /\ run'.cache[k].status = "fresh" /\ run'.cache[k].row.content = ChunkContent
          /\ run'.cache[k].row.mtime = 0 /\ run'.cache[k].row.paths = {k} /\ run'.cache[k].row.deps = {}
    <2> SUFFICES ASSUME NEW k \in executed
                 PROVE  /\ ChunkMemo(k).status = "fresh" /\ ChunkMemo(k).row.content = ChunkContent
                        /\ ChunkMemo(k).row.mtime = 0 /\ ChunkMemo(k).row.paths = {k}
                        /\ ChunkMemo(k).row.deps = {}
      BY <1>2
    <2> QED BY EntryIs DEF ChunkMemo
  <1> HIDE DEF chunks, executed, new
  <1>7. \A k \in DOMAIN run.cache \ {f} :
          /\ run'.cache[k].row = run.cache[k].row
          /\ run'.cache[k].status = "fresh" <=> run.cache[k].status = "fresh"
          /\ run'.cache[k].status = "stored" <=> run.cache[k].status = "stored" /\ k \notin chunks
    <2> SUFFICES ASSUME NEW k \in DOMAIN run.cache \ {f}
                 PROVE  /\ run'.cache[k].row = run.cache[k].row
                        /\ run'.cache[k].status = "fresh" <=> run.cache[k].status = "fresh"
                        /\ run'.cache[k].status = "stored" <=>
                             run.cache[k].status = "stored" /\ k \notin chunks
      OBVIOUS
    <2>1. run.cache[k] \in Cached BY <1>4
    <2>2. CASE k \in chunks
      <3>1. run'.cache[k] = Hit(run.cache[k]) BY <1>2, <2>2
      <3> QED BY <2>1, <2>2, <3>1, HitIs
    <2>3. CASE k \notin chunks
      <3>1. run'.cache[k] = run.cache[k] BY <1>2, <2>3
      <3> QED BY <2>3, <3>1
    <2> QED BY <2>2, <2>3
  <1>8. /\ DOMAIN run'.cache = (DOMAIN run.cache \ {f}) \cup executed \cup {f}
        /\ run'.cache[f] = new /\ f \notin executed
    BY <1>2 DEF new
  <1>9. f \notin Fresh BY <1>2 DEF Fresh, InUse
  <1>10. Fresh' = Fresh \cup {f} \cup executed BY <1>5, <1>6, <1>7, <1>8, <1>9 DEF Fresh
  <1>11. InUse' = InUse \cup {f} \cup chunks
    <2>1. \A k \in executed : k \in InUse' BY <1>6, <1>8 DEF InUse
    <2>2. f \in InUse' BY <1>5, <1>8 DEF InUse
    <2>3. \A k \in DOMAIN run.cache \ {f} : k \in InUse' <=> k \in InUse \/ k \in chunks
      BY <1>7, <1>8 DEF InUse
    <2>4. InUse \subseteq DOMAIN run.cache /\ InUse' \subseteq DOMAIN run'.cache BY DEF InUse
    <2> QED BY <1>2, <1>8, <2>1, <2>2, <2>3, <2>4
  <1>12. /\ Typed' /\ Recorded' /\ MemosAreBacked' /\ ContentTracked' /\ UseIsBacked' /\ Results'
         /\ Plain' = Plain /\ Timestamps' = Timestamps /\ CaughtErrors' = CaughtErrors
    <2>1. faults' \in Nat BY <1>1 DEF IInv, Typed
    <2> QED BY <1>1, <1>2, <1>3, <2>1, CallKeeps
  <1>13. Structured'
    <2>1. /\ \A k \in DOMAIN rows : RowFits(Plain, k, rows[k])
          /\ \A k \in DOMAIN run.cache :
               /\ RowFits(Plain, k, run.cache[k].row)
               /\ k \notin Fresh => k \in DOMAIN rows /\ rows[k] = run.cache[k].row
          /\ Plain => \A x \in Files : mtime[x] = 0
          /\ run.toCall \cap InUse = {}
          /\ IF run.full THEN DOMAIN run.cache \subseteq Fresh ELSE DOMAIN rows \subseteq DOMAIN run.cache
      BY <1>3 DEF IInv, Memos, Structured
    <2>2. RowFits(Plain, f, new.row)
      <3>1. file[f] # Absent /\ f \notin Chunks /\ executed \subseteq chunks BY <1>2, ConstFacts
      <3> QED BY <1>5, <2>1, <3>1 DEF RowFits, chunks
    <2>3. \A k \in executed : RowFits(Plain, k, run'.cache[k].row)
      BY <1>2, <1>6, ConstFacts DEF RowFits
    <2>4. \A k \in DOMAIN run'.cache : RowFits(Plain', k, run'.cache[k].row)
      BY <1>7, <1>8, <1>12, <2>1, <2>2, <2>3
    <2>5. \A k \in DOMAIN run'.cache : k \notin Fresh' => k \in DOMAIN rows /\ rows[k] = run'.cache[k].row
      BY <1>7, <1>8, <1>10, <2>1
    <2>6. \A k \in DOMAIN rows' : RowFits(Plain', k, rows'[k]) BY <1>1, <1>12, <2>1
    <2>7. run'.toCall \cap InUse' = {}
      <3>1. run.toCall \cap chunks = {} BY <1>2, ConstFacts DEF IInv, Typed, RunType
      <3> QED BY <1>2, <1>11, <2>1, <3>1
    <2>8. IF run'.full THEN DOMAIN run'.cache \subseteq Fresh' ELSE DOMAIN rows' \subseteq DOMAIN run'.cache
      BY <1>1, <1>2, <1>8, <1>10, <2>1
    <2> QED BY <1>1, <1>12, <2>1, <2>4, <2>5, <2>6, <2>7, <2>8 DEF Structured
  <1>14. Executions'
    <2> SUFFICES ASSUME Plain PROVE Executions' BY <1>12 DEF Executions
    <2>1. /\ \A k \in Fresh : /\ run.decl[k] = run.cache[k].row.content
                              /\ \A t \in run.cache[k].row.paths : run.decl[t] # Absent
                              /\ run.cache[k].row.deps \subseteq InUse
          /\ ~CaughtErrors => \A t \in Calls : run.decl[t] # Absent => t \in Fresh
      BY DEF IInv, Memos, Executions
    <2>2. \A t \in Calls : run.decl[t] # Absent => run'.decl[t] # Absent BY <1>2, <1>3, ConstFacts
    <2>3. ASSUME NEW k \in Fresh
          PROVE  /\ run'.decl[k] = run'.cache[k].row.content
                 /\ \A t \in run'.cache[k].row.paths : run'.decl[t] # Absent
                 /\ run'.cache[k].row.deps \subseteq InUse'
      <3>1. k \in DOMAIN run.cache \ {f} /\ k \notin executed /\ k \in Calls
        BY <1>2, <1>4, <1>9 DEF Fresh
      <3>2. run'.cache[k].row = run.cache[k].row /\ run'.decl[k] = run.decl[k] BY <1>2, <1>7, <3>1
      <3>3. run.cache[k].row.paths \subseteq Calls BY <1>4, <3>1 DEF Cached, Rows
      <3>4. run'.decl[k] = run'.cache[k].row.content BY <2>1, <3>2
      <3>5. \A t \in run'.cache[k].row.paths : run'.decl[t] # Absent BY <2>1, <2>2, <3>2, <3>3
      <3>6. run.cache[k].row.deps \subseteq InUse /\ InUse \subseteq InUse' BY <1>11, <2>1
      <3>7. run'.cache[k].row.deps \subseteq InUse' BY <3>2, <3>6
      <3> QED BY <3>4, <3>5, <3>7
    <2>4. /\ run'.decl[f] = new.row.content /\ \A t \in new.row.paths : run'.decl[t] # Absent
          /\ new.row.deps \subseteq InUse'
      BY <1>2, <1>3, <1>5, <1>8, <1>11, ConstFacts
    <2>5. ASSUME NEW k \in executed
          PROVE  /\ run'.decl[k] = run'.cache[k].row.content
                 /\ \A t \in run'.cache[k].row.paths : run'.decl[t] # Absent
                 /\ run'.cache[k].row.deps \subseteq InUse'
      <3>1. k \in Calls /\ k # f BY <1>2, ConstFacts
      <3>2. run'.decl[k] = ChunkContent BY <1>2, <3>1
      <3> QED BY <1>6, <3>2, ConstFacts
    <2>6. \A k \in Fresh' : /\ run'.decl[k] = run'.cache[k].row.content
                            /\ \A t \in run'.cache[k].row.paths : run'.decl[t] # Absent
                            /\ run'.cache[k].row.deps \subseteq InUse'
      BY <1>8, <1>10, <2>3, <2>4, <2>5
    <2>7. ~CaughtErrors => \A t \in Calls : run'.decl[t] # Absent => t \in Fresh' BY <1>2, <1>10, <2>1
    <2>8. ~CaughtErrors' => \A t \in Calls : run'.decl[t] # Absent => t \in Fresh' BY <1>12, <2>7
    <2> QED BY <2>6, <2>8 DEF Executions
  <1>15. Progress'
    <2> SUFFICES ASSUME Plain, run.whole PROVE Progress' BY <1>2, <1>12 DEF Progress
    <2>1. /\ InUse \cap Files = Called /\ \A x \in Called : run.cache[x].row.content = run.seen[x]
          /\ \A n \in InUse \cap Chunks : \E x \in Called : n \in ChunksOf[run.seen[x]]
      BY <1>3 DEF IInv, Memos, Progress
    <2>2. Called' = Called \cup {f} BY <1>2, <1>3 DEF Called
    <2>3. f \notin Called /\ f \notin Chunks BY <1>2, <2>1, ConstFacts
    <2>4. Called \subseteq Files /\ Called \subseteq DOMAIN run.cache BY <2>1 DEF Called, InUse
    <2>5. InUse' \cap Files = Called' BY <1>2, <1>11, <2>1, <2>2, ConstFacts
    <2>6. \A x \in Called' : run'.cache[x].row.content = run'.seen[x]
      BY <1>2, <1>5, <1>7, <1>8, <2>1, <2>2, <2>3, <2>4
    <2>7. ASSUME NEW n \in InUse' \cap Chunks PROVE \E x \in Called' : n \in ChunksOf[run'.seen[x]]
      <3>1. CASE n \in InUse
        <4>1. PICK x \in Called : n \in ChunksOf[run.seen[x]] BY <2>1, <2>7, <3>1
        <4> QED BY <1>2, <2>2, <2>3, <2>4, <4>1
      <3>2. CASE n \in chunks
        <4>1. n \in ChunksOf[run'.seen[f]] BY <1>2, <3>2 DEF chunks
        <4> QED BY <2>2, <4>1
      <3> QED BY <1>11, <2>3, <2>7, <3>1, <3>2
    <2> QED BY <2>5, <2>6, <2>7 DEF Progress
  <1> QED BY <1>12, <1>13, <1>14, <1>15 DEF IInv, Memos

-----------------------------------------------------------------------------
(* pre_commit. *)

LEMMA PossibleIs ==
  ASSUME NEW item \in SUBSET Entries
  PROVE  /\ Possible(item) = {} <=> item = {}
         /\ ~IsPending(item) => \A a, b \in Possible(item) : a = b
  BY DEF Possible, IsPending

\* Decoding walked rows changes no row, and puts what hits depend on in use.
LEMMA FinalizedIs ==
  ASSUME IInv, run.pc = "process"
  PROVE  /\ Finalized \in Partial(Cached) /\ DOMAIN Finalized = DOMAIN run.cache
         /\ \A k \in DOMAIN run.cache :
              /\ Finalized[k].row = run.cache[k].row
              /\ Finalized[k].status = "fresh" <=> k \in Fresh
              /\ Finalized[k].status # "stored" <=> k \in InUse \cup Walked
         /\ Hits = InUse \ Fresh /\ Fresh \subseteq InUse /\ InUse \subseteq DOMAIN run.cache
         /\ Walked \subseteq Chunks /\ Walked \subseteq DOMAIN run.cache
  <1>1. DOMAIN run.cache \subseteq Calls /\ \A k \in DOMAIN run.cache : run.cache[k] \in Cached
    BY PartialIs DEF IInv, Typed, RunType
  <1>2. /\ DOMAIN Finalized = DOMAIN run.cache
        /\ \A k \in DOMAIN run.cache :
             Finalized[k] = IF k \in Walked THEN Hit(run.cache[k]) ELSE run.cache[k]
    BY DEF Finalized
  <1>3. \A k \in DOMAIN run.cache :
          /\ Finalized[k] \in Cached /\ Finalized[k].row = run.cache[k].row
          /\ Finalized[k].status = "fresh" <=> run.cache[k].status = "fresh"
          /\ Finalized[k].status = "stored" <=> run.cache[k].status = "stored" /\ k \notin Walked
    <2> SUFFICES ASSUME NEW k \in DOMAIN run.cache
                 PROVE  /\ Finalized[k] \in Cached /\ Finalized[k].row = run.cache[k].row
                        /\ Finalized[k].status = "fresh" <=> run.cache[k].status = "fresh"
                        /\ Finalized[k].status = "stored" <=>
                             run.cache[k].status = "stored" /\ k \notin Walked
      OBVIOUS
    <2>1. CASE k \in Walked
      <3>1. Finalized[k] = Hit(run.cache[k]) BY <1>2, <2>1
      <3> QED BY <1>1, <2>1, <3>1, HitIs
    <2>2. CASE k \notin Walked
      <3>1. Finalized[k] = run.cache[k] BY <1>2, <2>2
      <3> QED BY <1>1, <2>2, <3>1
    <2> QED BY <2>1, <2>2
  <1>4. Finalized \in Partial(Cached)
    <2>1. Finalized = [k \in DOMAIN run.cache |-> Finalized[k]] BY DEF Finalized
    <2>2. Finalized \in [DOMAIN run.cache -> Cached] BY <1>3, <2>1
    <2> QED BY <1>1, <2>2, PartialMade
  <1>5. Hits = InUse \ Fresh
    <2>1. \A k \in DOMAIN run.cache : run.cache[k].status \in {"stored", "hit", "fresh"} BY <1>1 DEF Cached
    <2> QED BY <2>1 DEF Hits, InUse, Fresh
  <1>6. Walked \subseteq Chunks BY <1>1 DEF Walked, Hits, Cached, Rows
  <1>7. Walked \subseteq DOMAIN run.cache BY DEF Walked
  <1> QED BY <1>2, <1>3, <1>4, <1>5, <1>6, <1>7 DEF InUse, Fresh

\* Without modification times, what is in use after the walk stands on the disk
\* or was executed, and depends only on what is in use.
LEMMA WalkIs ==
  ASSUME IInv, run.pc = "process", Plain
  PROVE  /\ \A k \in (InUse \cup Walked) \ Fresh :
              /\ k \in DOMAIN rows /\ rows[k] = run.cache[k].row
              /\ k \in Hits \cup Walked /\ k \in run.cache[k].row.paths
              /\ \A t \in run.cache[k].row.paths : t \in Contained /\ items[t] # {} /\ t \in InUse \cup Walked
         /\ \A k \in InUse \cup Walked : run.cache[k].row.deps \subseteq InUse \cup Walked
         /\ Contained \subseteq InUse \cup Walked
  <1> DEFINE use == InUse \cup Walked
  <1>1. /\ \A k \in DOMAIN run.cache : RowFits(Plain, k, run.cache[k].row)
        /\ \A k \in DOMAIN run.cache : k \notin Fresh => k \in DOMAIN rows /\ rows[k] = run.cache[k].row
        /\ IF run.full THEN DOMAIN run.cache \subseteq Fresh ELSE DOMAIN rows \subseteq DOMAIN run.cache
    BY DEF IInv, Memos, Structured
  <1>2. /\ Hits = InUse \ Fresh /\ Fresh \subseteq InUse /\ InUse \subseteq DOMAIN run.cache
        /\ Walked \subseteq Chunks /\ Walked \subseteq DOMAIN run.cache
    BY FinalizedIs
  <1>3. \A k \in DOMAIN rows : /\ \A t \in rows[k].paths : items[t] # {}
                               /\ rows[k].deps \subseteq DOMAIN rows
    BY DEF IInv, Memos, MemosAreBacked, Plain
  <1>4. ASSUME NEW k \in Hits PROVE run.cache[k].row.deps \subseteq Walked
    <2>1. k \in DOMAIN run.cache /\ k \notin Fresh BY <1>2
    <2>2. k \in DOMAIN rows /\ rows[k] = run.cache[k].row BY <1>1, <2>1
    <2>3. run.cache[k].row.deps \subseteq DOMAIN rows BY <1>3, <2>2
    <2>4. DOMAIN rows \subseteq DOMAIN run.cache BY <1>1, <2>1
    <2> QED BY <2>3, <2>4 DEF Walked
  <1>5. \A k \in Walked : run.cache[k].row.deps = {} /\ run.cache[k].row.paths = {k}
    <2> SUFFICES ASSUME NEW k \in Walked
                 PROVE  run.cache[k].row.deps = {} /\ run.cache[k].row.paths = {k}
      OBVIOUS
    <2>1. RowFits(Plain, k, run.cache[k].row) /\ k \in Chunks BY <1>1, <1>2
    <2> QED BY <2>1 DEF RowFits
  <1>6. \A k \in Fresh : run.cache[k].row.deps \subseteq InUse BY DEF IInv, Memos, Executions
  <1>7. \A k \in use : run.cache[k].row.deps \subseteq use
    <2> SUFFICES ASSUME NEW k \in use PROVE run.cache[k].row.deps \subseteq use OBVIOUS
    <2>1. CASE k \in Fresh BY <1>6, <2>1
    <2>2. CASE k \in Walked BY <1>5, <2>2
    <2>3. CASE k \in Hits BY <1>4, <2>3
    <2> QED BY <1>2, <2>1, <2>2, <2>3
  <1>8. ASSUME NEW k \in use
        PROVE  /\ k \in run.cache[k].row.paths /\ run.cache[k].row.paths \subseteq use
    <2>1. RowFits(Plain, k, run.cache[k].row) BY <1>1, <1>2
    <2>2. k \in run.cache[k].row.paths /\ run.cache[k].row.paths \subseteq {k} \cup run.cache[k].row.deps
      BY <2>1 DEF RowFits
    <2> QED BY <1>7, <1>8, <2>2
  <1>9. ASSUME NEW k \in use \ Fresh
        PROVE  /\ k \in DOMAIN rows /\ rows[k] = run.cache[k].row
               /\ k \in Hits \cup Walked /\ k \in run.cache[k].row.paths
               /\ \A t \in run.cache[k].row.paths : t \in Contained /\ items[t] # {} /\ t \in use
    <2>1. k \in DOMAIN rows /\ rows[k] = run.cache[k].row BY <1>1, <1>2
    <2>2. k \in Hits \cup Walked BY <1>2
    <2>3. \A t \in run.cache[k].row.paths : t \in Contained BY <2>2 DEF Contained
    <2>4. \A t \in run.cache[k].row.paths : items[t] # {} BY <1>3, <2>1
    <2> QED BY <1>8, <2>1, <2>2, <2>3, <2>4
  <1>10. Contained \subseteq use
    <2> SUFFICES ASSUME NEW t \in Contained PROVE t \in use OBVIOUS
    <2>1. PICK k \in Hits \cup Walked : t \in run.cache[k].row.paths BY DEF Contained
    <2>2. k \in use BY <1>2
    <2> QED BY <1>8, <2>1, <2>2
  <1> QED BY <1>7, <1>9, <1>10

\* What a pre_commit leaves, item by item.
LEMMA PrecommitIs ==
  ASSUME IInv, Precommit
  PROVE  /\ run.pc = "process" /\ run.toCall = {} /\ ~synced
         /\ UNCHANGED <<application, file, mtime, changes, rows, sink, synced, faults>>
         /\ version' = version + 1 /\ version \in Nat
         /\ items' = [t \in Calls |-> NextItem(t, version')]
         /\ carried' = carried \cup {t \in PassedOn : IsPending(items[t])}
         /\ run' \in RunType /\ run'.pc = "apply" /\ run'.full = run.full /\ run'.whole = run.whole
         /\ run'.toCall = {} /\ run'.seen = run.seen /\ run'.decl = run.decl
         /\ run'.cache = Finalized /\ run'.ver = version' /\ run'.todo = Acting
  <1>1. /\ run.pc = "process" /\ run.toCall = {} /\ version' = version + 1
        /\ items' = [t \in Calls |-> NextItem(t, version + 1)]
        /\ run' = [run EXCEPT !.pc = "apply", !.ver = version + 1, !.todo = Acting, !.cache = Finalized]
        /\ carried' = carried \cup {t \in PassedOn : IsPending(items[t])}
        /\ UNCHANGED <<application, file, mtime, changes, rows, sink, synced, faults>>
    BY DEF Precommit, sources
  <1>2. version \in Nat /\ ~synced /\ run \in RunType BY <1>1 DEF IInv, Typed
  <1>3. Acting \subseteq Calls BY DEF Acting, Reconciles
  <1>4. Finalized \in Partial(Cached) BY <1>1, FinalizedIs
  <1>5. /\ run' \in RunType /\ run'.pc = "apply" /\ run'.full = run.full /\ run'.whole = run.whole
        /\ run'.toCall = {} /\ run'.seen = run.seen /\ run'.decl = run.decl
        /\ run'.cache = Finalized /\ run'.ver = version + 1 /\ run'.todo = Acting
    <2> DEFINE ver == version + 1
               acting == Acting
    <2>1. ver \in Nat /\ acting \in SUBSET Calls BY <1>2, <1>3
    <2>2. run' = [run EXCEPT !.pc = "apply", !.ver = ver, !.todo = acting, !.cache = Finalized] BY <1>1
    <2> HIDE DEF ver, acting
    <2>3. run' \in RunType BY <1>2, <1>4, <2>1, <2>2 DEF RunType
    <2>4. /\ run'.pc = "apply" /\ run'.full = run.full /\ run'.whole = run.whole
          /\ run'.toCall = run.toCall /\ run'.seen = run.seen /\ run'.decl = run.decl
          /\ run'.cache = Finalized /\ run'.ver = ver /\ run'.todo = acting
      BY <1>2, <2>2 DEF RunType
    <2> QED BY <1>1, <2>3, <2>4 DEF ver, acting
  <1> QED BY <1>1, <1>2, <1>5

\* The four ways of an item through pre_commit.
LEMMA PrecommitItem ==
  ASSUME IInv, Precommit, NEW t \in Calls
  PROVE  /\ items'[t] \in SUBSET Entries /\ \A e \in items'[t] : e[1] <= version'
         /\ \/ /\ t \in PassedOn /\ t \notin Acting
               /\ t \in Contained /\ run.decl[t] = Absent /\ items[t] # {}
               /\ Possible(items'[t]) = Possible(items[t])
               /\ Left(items'[t], version') = Possible(items[t]) \ {Absent}
            \/ /\ t \in Acting /\ t \notin PassedOn
               /\ run.decl[t] # Absent \/ (items[t] # {} /\ t \notin Contained)
               /\ Possible(items[t]) \cup {run.decl[t]} \subseteq Possible(items'[t])
               /\ items[t] = {} => Absent \in Possible(items'[t])
               /\ Left(items'[t], version') = {run.decl[t]} \ {Absent}
            \/ /\ t \notin PassedOn /\ t \notin Acting
               /\ run.decl[t] # Absent /\ Possible(items[t]) = {run.decl[t]}
               /\ Possible(items'[t]) = Possible(items[t])
               /\ Left(items'[t], version') = Possible(items[t])
            \/ /\ t \notin PassedOn /\ t \notin Acting
               /\ run.decl[t] = Absent /\ items[t] = {} /\ items'[t] = {}
               /\ Left(items'[t], version') = {}
  <1>1. items'[t] = NextItem(t, version') /\ version' = version + 1 BY PrecommitIs
  <1>2. Typed /\ Recorded /\ run.pc = "process" BY PrecommitIs DEF IInv
  <1> QED BY <1>1, <1>2, NextItemIs

LEMMA PrecommitRecorded == ASSUME IInv, Precommit PROVE Typed' /\ Recorded'
  <1>1. Typed'
    <2>1. items' \in [Calls -> SUBSET Entries]
      <3>1. \A t \in Calls : items'[t] \in SUBSET Entries BY PrecommitItem
      <3>2. items' = [t \in Calls |-> NextItem(t, version')] BY PrecommitIs
      <3> QED BY <3>1, <3>2
    <2>2. carried' \subseteq Calls
      <3>1. \A k \in DOMAIN run.cache : run.cache[k] \in Cached BY PartialIs DEF IInv, Typed, RunType
      <3>2. Contained \subseteq Calls BY <3>1 DEF Contained, Hits, Walked, Cached, Rows
      <3> QED BY <3>2, PrecommitIs DEF IInv, Typed, PassedOn
    <2> QED BY <2>1, <2>2, PrecommitIs DEF IInv, Typed
  <1>2. ASSUME NEW t \in Calls
        PROVE  /\ Possible(items[t]) # {Absent}
               /\ Possible(items[t]) = {} <=> items[t] = {}
               /\ Possible(items'[t]) = {} <=> items'[t] = {}
               /\ run.decl[t] \in States
    <2>1. items[t] \in SUBSET Entries BY DEF IInv, Typed
    <2>2. items'[t] \in SUBSET Entries BY PrecommitItem
    <2>3. Possible(items[t]) = {} <=> items[t] = {} BY <2>1, PossibleIs
    <2>4. Possible(items'[t]) = {} <=> items'[t] = {} BY <2>2, PossibleIs
    <2>5. items[t] # {} => Possible(items[t]) # {Absent} BY DEF IInv, Recorded, ItemsBound
    <2>6. run.decl[t] \in States BY DEF IInv, Typed, RunType
    <2> QED BY <2>3, <2>4, <2>5, <2>6
  <1>3. ItemsBound'
    <2> SUFFICES ASSUME NEW t \in Calls
                 PROVE  /\ \A e \in items'[t] : e[1] <= version'
                        /\ items'[t] # {} => Possible(items'[t]) # {Absent}
      BY DEF ItemsBound
    <2> QED BY <1>2, PrecommitItem
  <1>4. ASSUME NEW t \in Calls \ carried'
        PROVE  /\ items[t] = {} => sink[t] = Absent
               /\ items[t] # {} => sink[t] \in Possible(items[t])
               /\ t \in PassedOn => \A a, b \in Possible(items[t]) : a = b
    <2>1. t \notin carried /\ (t \in PassedOn => ~IsPending(items[t])) BY PrecommitIs
    <2>2. items[t] \in SUBSET Entries BY DEF IInv, Typed
    <2> QED BY <2>1, <2>2, PossibleIs DEF IInv, Recorded, TrackingCoversSinkUnlessCarried
  <1>5. TrackingCoversSinkUnlessCarried'
    <2> SUFFICES ASSUME NEW t \in Calls \ carried'
                 PROVE  IF items'[t] = {} THEN sink[t] = Absent ELSE sink[t] \in Possible(items'[t])
      BY PrecommitIs DEF TrackingCoversSinkUnlessCarried
    <2> QED BY <1>2, <1>4, PrecommitItem
  <1>6. RunRecorded'
    <2>1. ASSUME NEW t \in Acting
          PROVE  /\ run.decl[t] \in Possible(items'[t])
                 /\ Left(items'[t], version') = {run.decl[t]} \ {Absent}
      <3>1. t \in Calls BY DEF Acting, Reconciles
      <3> QED BY <2>1, <3>1, PrecommitItem
    <2>2. ASSUME NEW t \in Calls \ (carried' \cup Acting)
          PROVE  Covers(Left(items'[t], version'), sink[t])
      <3>1. CASE t \in PassedOn
        <4>1. Left(items'[t], version') = Possible(items[t]) \ {Absent} /\ items[t] # {}
          BY <3>1, PrecommitItem
        <4>2. sink[t] \in Possible(items[t]) /\ \A a, b \in Possible(items[t]) : a = b
          BY <1>4, <3>1, <4>1
        <4>3. Absent \notin Possible(items[t]) BY <1>2, <4>2
        <4> QED BY <4>1, <4>2, <4>3 DEF Covers
      <3>2. CASE t \notin PassedOn
        <4> QED BY <1>2, <1>4, <3>2, PrecommitItem DEF Covers
      <3> QED BY <3>1, <3>2
    <2> QED BY <2>1, <2>2, PrecommitIs DEF RunRecorded
  <1> QED BY <1>1, <1>3, <1>5, <1>6 DEF Recorded

\* What a pre_commit leaves in the cache.
LEMMA PrecommitUse ==
  ASSUME IInv, Precommit
  PROVE  /\ DOMAIN run'.cache = DOMAIN run.cache
         /\ \A k \in DOMAIN run.cache : run'.cache[k].row = run.cache[k].row
         /\ Fresh' = Fresh /\ InUse' = InUse \cup Walked /\ Fresh \subseteq InUse
         /\ InUse \subseteq DOMAIN run.cache /\ Walked \subseteq DOMAIN run.cache
         /\ DOMAIN run.cache \subseteq Calls
         /\ Plain' = Plain /\ Timestamps' = Timestamps /\ CaughtErrors' = CaughtErrors
  <1>1. run.pc = "process" /\ run'.cache = Finalized BY PrecommitIs
  <1>2. /\ DOMAIN Finalized = DOMAIN run.cache
        /\ \A k \in DOMAIN run.cache :
             /\ Finalized[k].row = run.cache[k].row
             /\ Finalized[k].status = "fresh" <=> k \in Fresh
             /\ Finalized[k].status # "stored" <=> k \in InUse \cup Walked
        /\ Fresh \subseteq InUse /\ InUse \subseteq DOMAIN run.cache /\ Walked \subseteq DOMAIN run.cache
    BY <1>1, FinalizedIs
  <1>3. Fresh' = Fresh /\ InUse' = InUse \cup Walked BY <1>1, <1>2 DEF Fresh, InUse
  <1>4. Plain' = Plain /\ Timestamps' = Timestamps /\ CaughtErrors' = CaughtErrors
    BY PrecommitIs DEF Plain, Timestamps, CaughtErrors
  <1>5. DOMAIN run.cache \subseteq Calls BY PartialIs DEF IInv, Typed, RunType
  <1> QED BY <1>1, <1>2, <1>3, <1>4, <1>5

\* What is in use after a pre_commit will be backed by the record it leaves.
LEMMA PrecommitBacks ==
  ASSUME IInv, Precommit, Plain, NEW k \in InUse \cup Walked
  PROVE  /\ \A t \in run.cache[k].row.paths : Left(items'[t], version') # {}
         /\ run.cache[k].row.deps \subseteq InUse \cup Walked
         /\ ~CaughtErrors => run.cache[k].row.content \in Left(items'[k], version')
  <1>1. run.pc = "process" BY PrecommitIs
  <1>2. k \in DOMAIN run.cache /\ k \in Calls BY PrecommitUse
  <1>3. run.cache[k] \in Cached BY <1>2, PartialIs DEF IInv, Typed, RunType
  <1>4. run.cache[k].row.paths \subseteq Calls BY <1>3 DEF Cached, Rows
  <1>5. run.cache[k].row.deps \subseteq InUse \cup Walked BY <1>1, WalkIs
  <1>6. RowFits(Plain, k, run.cache[k].row) BY <1>2 DEF IInv, Memos, Structured
  <1>7. run.cache[k].row.content # Absent BY <1>6 DEF RowFits
  <1>8. CASE k \in Fresh
    <2>1. /\ run.decl[k] = run.cache[k].row.content
          /\ \A t \in run.cache[k].row.paths : run.decl[t] # Absent
      BY <1>8 DEF IInv, Memos, Executions
    <2>2. \A t \in Calls : run.decl[t] # Absent => run.decl[t] \in Left(items'[t], version')
      BY PrecommitItem
    <2> QED BY <1>2, <1>4, <1>5, <1>7, <2>1, <2>2
  <1>9. CASE k \notin Fresh
    <2>1. /\ k \in DOMAIN rows /\ rows[k] = run.cache[k].row
          /\ k \in Hits \cup Walked /\ k \in run.cache[k].row.paths
          /\ \A t \in run.cache[k].row.paths : t \in Contained /\ items[t] # {} /\ t \in InUse \cup Walked
      BY <1>1, <1>9, WalkIs
    <2>2. ASSUME NEW t \in run.cache[k].row.paths PROVE Left(items'[t], version') # {}
      <3>1. t \in Calls /\ t \in Contained /\ items[t] # {} BY <1>4, <2>1
      <3>2. items[t] \in SUBSET Entries /\ Possible(items[t]) # {Absent}
        BY <3>1 DEF IInv, Typed, Recorded, ItemsBound
      <3>3. Possible(items[t]) \ {Absent} # {} BY <3>1, <3>2, PossibleIs
      <3> QED BY <3>1, <3>3, PrecommitItem
    <2>3. ASSUME ~CaughtErrors PROVE run.cache[k].row.content \in Left(items'[k], version')
      <3>1. run.decl[k] = Absent BY <1>2, <1>9, <2>3 DEF IInv, Memos, Executions
      <3>2. rows[k].content \in Possible(items[k]) BY <2>1, <2>3 DEF IInv, Memos, ContentTracked
      <3>3. k \in Contained /\ items[k] # {} BY <2>1
      <3>4. Left(items'[k], version') = Possible(items[k]) \ {Absent} BY <1>2, <3>1, <3>3, PrecommitItem
      <3> QED BY <1>7, <2>1, <3>2, <3>4
    <2> QED BY <1>5, <2>2, <2>3
  <1> QED BY <1>8, <1>9

LEMMA PrecommitMemos == ASSUME IInv, Precommit PROVE Memos'
  <1>1. Structured'
    <2>1. /\ \A k \in DOMAIN rows : RowFits(Plain, k, rows[k])
          /\ \A k \in DOMAIN run.cache :
               /\ RowFits(Plain, k, run.cache[k].row)
               /\ k \notin Fresh => k \in DOMAIN rows /\ rows[k] = run.cache[k].row
          /\ Plain => \A x \in Files : mtime[x] = 0
          /\ IF run.full THEN DOMAIN run.cache \subseteq Fresh ELSE DOMAIN rows \subseteq DOMAIN run.cache
      BY PrecommitIs DEF IInv, Memos, Structured
    <2>2. \A k \in DOMAIN rows' : RowFits(Plain', k, rows'[k]) BY <2>1, PrecommitIs, PrecommitUse
    <2>3. \A k \in DOMAIN run'.cache : RowFits(Plain', k, run'.cache[k].row) BY <2>1, PrecommitUse
    <2>4. \A k \in DOMAIN run'.cache : k \notin Fresh' => k \in DOMAIN rows' /\ rows'[k] = run'.cache[k].row
      BY <2>1, PrecommitIs, PrecommitUse
    <2>5. IF run'.full THEN DOMAIN run'.cache \subseteq Fresh' ELSE DOMAIN rows' \subseteq DOMAIN run'.cache
      BY <2>1, PrecommitIs, PrecommitUse
    <2>6. run'.toCall \cap InUse' = {} BY PrecommitIs
    <2>7. Plain' => \A x \in Files : mtime'[x] = 0 BY <2>1, PrecommitIs, PrecommitUse
    <2> QED BY <2>2, <2>3, <2>4, <2>5, <2>6, <2>7 DEF Structured
  <1>2. \A k \in DOMAIN rows : k \in Calls /\ rows[k].paths \subseteq Calls
    <2>1. DOMAIN rows \subseteq Calls /\ \A k \in DOMAIN rows : rows[k] \in Rows BY PartialIs DEF IInv, Typed
    <2> QED BY <2>1 DEF Rows
  <1>3. \A t \in Calls : /\ Possible(items[t]) \subseteq Possible(items'[t])
                         /\ items[t] # {} => items'[t] # {}
    <2> SUFFICES ASSUME NEW t \in Calls
                 PROVE  /\ Possible(items[t]) \subseteq Possible(items'[t])
                        /\ items[t] # {} => items'[t] # {}
      OBVIOUS
    <2>1. items[t] \in SUBSET Entries BY DEF IInv, Typed
    <2>2. items'[t] \in SUBSET Entries BY PrecommitItem
    <2>3. Possible(items[t]) = {} <=> items[t] = {} BY <2>1, PossibleIs
    <2>4. Possible(items'[t]) = {} <=> items'[t] = {} BY <2>2, PossibleIs
    <2>5. Possible(items[t]) \subseteq Possible(items'[t]) BY <2>3, PrecommitItem
    <2> QED BY <2>3, <2>4, <2>5
  <1>4. MemosAreBacked'
    <2> SUFFICES ASSUME ~Timestamps, NEW k \in DOMAIN rows
                 PROVE  (\A t \in rows[k].paths : items'[t] # {}) /\ rows[k].deps \subseteq DOMAIN rows
      BY PrecommitIs, PrecommitUse DEF MemosAreBacked
    <2>1. (\A t \in rows[k].paths : items[t] # {}) /\ rows[k].deps \subseteq DOMAIN rows
      BY DEF IInv, Memos, MemosAreBacked
    <2> QED BY <1>2, <1>3, <2>1
  <1>5. ContentTracked'
    <2> SUFFICES ASSUME Plain, ~CaughtErrors, NEW k \in DOMAIN rows
                 PROVE  rows[k].content \in Possible(items'[k])
      BY PrecommitIs, PrecommitUse DEF ContentTracked
    <2>1. rows[k].content \in Possible(items[k]) BY DEF IInv, Memos, ContentTracked
    <2> QED BY <1>2, <1>3, <2>1
  <1>6. Executions'
    <2> SUFFICES ASSUME Plain PROVE Executions' BY PrecommitUse DEF Executions
    <2>1. /\ \A k \in Fresh : /\ run.decl[k] = run.cache[k].row.content
                              /\ \A t \in run.cache[k].row.paths : run.decl[t] # Absent
                              /\ run.cache[k].row.deps \subseteq InUse
          /\ ~CaughtErrors => \A t \in Calls : run.decl[t] # Absent => t \in Fresh
      BY DEF IInv, Memos, Executions
    <2>2. \A k \in Fresh : run'.cache[k].row = run.cache[k].row BY PrecommitUse
    <2>3. /\ InUse \subseteq InUse' /\ Fresh' = Fresh /\ CaughtErrors' = CaughtErrors /\ run'.decl = run.decl
      BY PrecommitIs, PrecommitUse
    <2> QED BY <2>1, <2>2, <2>3 DEF Executions
  <1>7. Progress' BY PrecommitIs DEF Progress
  <1>8. UseIsBacked'
    <2> SUFFICES ASSUME Plain, NEW k \in InUse \cup Walked
                 PROVE  /\ \A t \in run.cache[k].row.paths : Left(items'[t], version') # {}
                        /\ run.cache[k].row.deps \subseteq InUse \cup Walked
                        /\ ~CaughtErrors => run.cache[k].row.content \in Left(items'[k], version')
      <3>1. \A k \in InUse \cup Walked : run'.cache[k].row = run.cache[k].row BY PrecommitUse
      <3>2. /\ InUse' = InUse \cup Walked /\ Plain' = Plain /\ CaughtErrors' = CaughtErrors
            /\ run'.ver = version'
        BY PrecommitIs, PrecommitUse
      <3> QED BY <3>1, <3>2 DEF UseIsBacked
    <2> QED BY PrecommitBacks
  <1> QED BY <1>1, <1>4, <1>5, <1>6, <1>7, <1>8 DEF Memos

\* A run whose calls all succeeded uses exactly the calls its files ask for.
LEMMA PrecommitGoal ==
  ASSUME IInv, Precommit, Plain, run.whole
  PROVE  /\ \A k \in InUse \cup Walked : Goal(k) = run.cache[k].row.content /\ Goal(k) # Absent
         /\ \A k \in Calls : Goal(k) # Absent => k \in InUse \cup Walked
  <1>1. run.pc = "process" BY PrecommitIs
  <1>2. /\ InUse \cap Files = Called /\ \A x \in Called : run.cache[x].row.content = run.seen[x]
        /\ \A n \in InUse \cap Chunks : \E x \in Called : n \in ChunksOf[run.seen[x]]
    BY <1>1 DEF IInv, Memos, Progress
  <1>3. /\ Walked \subseteq Chunks /\ Hits \subseteq InUse
        /\ InUse \cup Walked \subseteq DOMAIN run.cache /\ InUse \cup Walked \subseteq Calls
    BY <1>1, FinalizedIs, PrecommitUse
  <1>4. \A k \in DOMAIN run.cache : RowFits(Plain, k, run.cache[k].row) BY DEF IInv, Memos, Structured
  <1>5. ASSUME NEW n \in Walked PROVE \E x \in Called : n \in ChunksOf[run.seen[x]]
    <2>1. PICK k \in Hits : n \in run.cache[k].row.deps BY DEF Walked
    <2>2. k \in InUse /\ RowFits(Plain, k, run.cache[k].row) BY <1>3, <1>4
    <2>3. k \notin Chunks BY <2>1, <2>2 DEF RowFits
    <2>4. k \in Called /\ k \in Files BY <1>2, <1>3, <2>2, <2>3, ConstFacts
    <2>5. n \in ChunksOf[run.seen[k]] BY <1>2, <2>1, <2>2, <2>4 DEF RowFits
    <2> QED BY <2>4, <2>5
  <1>6. ASSUME NEW k \in InUse \cup Walked PROVE Goal(k) = run.cache[k].row.content /\ Goal(k) # Absent
    <2>1. RowFits(Plain, k, run.cache[k].row) BY <1>3, <1>4
    <2>2. CASE k \in Files
      <3>1. k \in Called BY <1>2, <1>3, <2>2, ConstFacts
      <3> QED BY <1>2, <2>1, <2>2, <3>1 DEF Goal, RowFits
    <2>3. CASE k \in Chunks
      <3>1. \E x \in Called : k \in ChunksOf[run.seen[x]] BY <1>2, <1>5, <2>3
      <3>2. k \notin Files BY <2>3, ConstFacts
      <3>3. Goal(k) = ChunkContent BY <3>1, <3>2 DEF Goal
      <3> QED BY <2>1, <2>3, <3>3 DEF RowFits
    <2> QED BY <1>3, <2>2, <2>3, ConstFacts
  <1>7. ASSUME NEW k \in Calls, Goal(k) # Absent PROVE k \in InUse \cup Walked
    <2>1. CASE k \in Files BY <1>2, <1>7, <2>1 DEF Goal, Called
    <2>2. CASE k \notin Files
      <3>1. PICK x \in Called : k \in ChunksOf[run.seen[x]] BY <1>7, <2>2 DEF Goal
      <3>2. x \in InUse /\ x \in Files BY <1>2 DEF Called
      <3>3. RowFits(Plain, x, run.cache[x].row) BY <1>3, <1>4, <3>2
      <3>4. k \in run.cache[x].row.deps BY <1>2, <3>1, <3>2, <3>3 DEF RowFits
      <3>5. run.cache[x].row.deps \subseteq InUse \cup Walked BY <3>2, PrecommitBacks
      <3> QED BY <3>4, <3>5
    <2> QED BY <2>1, <2>2
  <1> QED BY <1>6, <1>7

LEMMA PrecommitResults == ASSUME IInv, Precommit PROVE Results'
  <1>1. ~synced' BY PrecommitIs
  <1>2. MemosAreExact' /\ SinkMatchesUnlessCarried' BY <1>1 DEF MemosAreExact, SinkMatchesUnlessCarried
  <1>3. \A t : Goal(t)' = Goal(t) BY PrecommitIs DEF Goal, Called
  <1>4. Outcome'
    <2> SUFFICES ASSUME Plain, run.whole
                 PROVE  /\ InUse \cup Walked = {k \in Calls : Goal(k) # Absent}
                        /\ ~CaughtErrors =>
                             \A t \in Calls : /\ t \in Acting => run.decl[t] = Goal(t)
                                              /\ t \notin Acting \cup carried' => sink[t] = Goal(t)
      <3>1. InUse' = InUse \cup Walked /\ Plain' = Plain /\ CaughtErrors' = CaughtErrors BY PrecommitUse
      <3>2. run'.whole = run.whole /\ run'.todo = Acting /\ run'.decl = run.decl /\ sink' = sink
        BY PrecommitIs
      <3>3. {k \in Calls : Goal(k) # Absent}' = {k \in Calls : Goal(k) # Absent} BY <1>3
      <3> QED BY <1>3, <3>1, <3>2, <3>3 DEF Outcome
    <2>1. /\ \A k \in InUse \cup Walked : Goal(k) = run.cache[k].row.content /\ Goal(k) # Absent
          /\ \A k \in Calls : Goal(k) # Absent => k \in InUse \cup Walked
      BY PrecommitGoal
    <2>2. InUse \cup Walked \subseteq Calls /\ Fresh \subseteq InUse BY PrecommitUse
    <2>3. run.pc = "process" BY PrecommitIs
    <2>4. ASSUME ~CaughtErrors, NEW t \in Calls
          PROVE  /\ t \in Acting => run.decl[t] = Goal(t)
                 /\ t \notin Acting \cup carried' => sink[t] = Goal(t)
      <3>1. run.decl[t] # Absent => t \in Fresh /\ run.decl[t] = run.cache[t].row.content
        BY <2>4 DEF IInv, Memos, Executions
      <3>2. run.decl[t] # Absent => run.decl[t] = Goal(t) BY <2>1, <2>2, <3>1
      <3>3. t \in Fresh => run.decl[t] # Absent
        <4>1. t \in Fresh => run.decl[t] = run.cache[t].row.content BY DEF IInv, Memos, Executions
        <4> QED BY <2>1, <2>2, <4>1
      <3>4. run.decl[t] = Absent /\ Goal(t) # Absent =>
              /\ t \in DOMAIN rows /\ rows[t] = run.cache[t].row
              /\ t \in Contained /\ items[t] # {}
        <4> SUFFICES ASSUME run.decl[t] = Absent, Goal(t) # Absent
                     PROVE  /\ t \in DOMAIN rows /\ rows[t] = run.cache[t].row
                            /\ t \in Contained /\ items[t] # {}
          OBVIOUS
        <4>1. t \in (InUse \cup Walked) \ Fresh BY <2>1, <3>3
        <4>2. /\ t \in DOMAIN rows /\ rows[t] = run.cache[t].row /\ t \in run.cache[t].row.paths
              /\ \A x \in run.cache[t].row.paths : x \in Contained /\ items[x] # {}
          BY <2>3, <4>1, WalkIs
        <4> QED BY <4>2
      <3>5. t \in Contained => Goal(t) # Absent BY <2>1, <2>3, WalkIs
      <3>6. t \in Acting => run.decl[t] = Goal(t)
        <4> SUFFICES ASSUME t \in Acting, run.decl[t] = Absent PROVE Goal(t) = Absent BY <3>2
        <4>1. t \notin Contained BY PrecommitItem
        <4> QED BY <3>4, <4>1
      <3>7. ASSUME t \notin Acting \cup carried' PROVE sink[t] = Goal(t)
        <4>1. t \notin carried /\ (t \in PassedOn => ~IsPending(items[t])) BY <3>7, PrecommitIs
        <4>2. /\ items[t] = {} => sink[t] = Absent
              /\ items[t] # {} => sink[t] \in Possible(items[t])
          BY <4>1 DEF IInv, Recorded, TrackingCoversSinkUnlessCarried
        <4>3. items[t] \in SUBSET Entries BY DEF IInv, Typed
        <4>4. CASE t \in PassedOn
          <5>1. t \in Contained /\ run.decl[t] = Absent /\ items[t] # {} BY <4>4, PrecommitItem
          <5>2. Goal(t) # Absent BY <3>5, <5>1
          <5>3. t \in DOMAIN rows /\ rows[t] = run.cache[t].row BY <3>4, <5>1, <5>2
          <5>4. rows[t].content \in Possible(items[t]) BY <2>4, <5>3 DEF IInv, Memos, ContentTracked
          <5>5. sink[t] = rows[t].content BY <4>1, <4>2, <4>3, <4>4, <5>1, <5>4, PossibleIs
          <5>6. Goal(t) = run.cache[t].row.content BY <2>1, <5>2
          <5> QED BY <5>3, <5>5, <5>6
        <4>5. CASE t \notin PassedOn /\ run.decl[t] # Absent
          <5>1. Possible(items[t]) = {run.decl[t]} BY <3>7, <4>5, PrecommitItem
          <5>2. items[t] # {} BY <5>1, <4>3, PossibleIs
          <5> QED BY <3>2, <4>2, <4>5, <5>1, <5>2
        <4>6. CASE t \notin PassedOn /\ run.decl[t] = Absent
          <5>1. items[t] = {} BY <3>7, <4>6, PrecommitItem
          <5> QED BY <3>4, <4>2, <4>6, <5>1
        <4> QED BY <4>4, <4>5, <4>6
      <3> QED BY <3>6, <3>7
    <2> QED BY <2>1, <2>2, <2>4
  <1> QED BY <1>2, <1>4 DEF Results

LEMMA PrecommitInv == ASSUME IInv, Precommit PROVE IInv'
  BY PrecommitRecorded, PrecommitMemos, PrecommitResults DEF IInv

-----------------------------------------------------------------------------
(* The sink's actions and the commit. *)

LEMMA ApplyInv == ASSUME IInv, NEW t \in Calls, ApplyAction(t) PROVE IInv'
  <1>1. /\ run.pc = "apply" /\ t \in run.todo
        /\ sink' = [sink EXCEPT ![t] = run.decl[t]]
        /\ run' = [run EXCEPT !.todo = @ \ {t}]
        /\ carried' = carried \ {t}
        /\ UNCHANGED <<application, file, mtime, changes, rows, version, items, synced, faults>>
    BY DEF ApplyAction, sources, store
  <1>2. ~synced /\ run \in RunType /\ run.decl[t] \in States BY <1>1 DEF IInv, Typed, RunType
  <1>3. /\ run' \in RunType /\ run'.pc = "apply" /\ run'.full = run.full /\ run'.whole = run.whole
        /\ run'.toCall = run.toCall /\ run'.seen = run.seen /\ run'.decl = run.decl
        /\ run'.cache = run.cache /\ run'.ver = run.ver /\ run'.todo = run.todo \ {t}
    BY <1>1, <1>2 DEF RunType
  <1>4. sink' \in [Calls -> States] /\ \A x \in Calls : sink'[x] = IF x = t THEN run.decl[t] ELSE sink[x]
    BY <1>1, <1>2 DEF IInv, Typed
  <1>5. Typed' BY <1>1, <1>3, <1>4 DEF IInv, Typed
  <1>6. /\ run.ver = version
        /\ \A x \in run.todo : /\ run.decl[x] \in Possible(items[x])
                               /\ Left(items[x], run.ver) = {run.decl[x]} \ {Absent}
        /\ \A x \in Calls \ (carried \cup run.todo) : Covers(Left(items[x], run.ver), sink[x])
    BY <1>1 DEF IInv, Recorded, RunRecorded
  <1>7. Recorded'
    <2>1. ItemsBound' BY <1>1 DEF IInv, Recorded, ItemsBound
    <2>2. TrackingCoversSinkUnlessCarried'
      <3> SUFFICES ASSUME NEW x \in Calls \ carried'
                   PROVE  IF items[x] = {} THEN sink'[x] = Absent ELSE sink'[x] \in Possible(items[x])
        BY <1>1 DEF TrackingCoversSinkUnlessCarried
      <3>1. CASE x = t
        <4>1. run.decl[t] \in Possible(items[t]) BY <1>1, <1>6
        <4> QED BY <1>4, <3>1, <4>1 DEF Possible
      <3>2. CASE x # t
        BY <1>1, <1>4, <3>2 DEF IInv, Recorded, TrackingCoversSinkUnlessCarried
      <3> QED BY <3>1, <3>2
    <2>3. RunRecorded'
      <3>1. ASSUME NEW x \in Calls \ (carried' \cup run'.todo)
            PROVE  Covers(Left(items[x], run.ver), sink'[x])
        <4>1. CASE x = t BY <1>1, <1>4, <1>6, <4>1 DEF Covers
        <4>2. CASE x # t BY <1>1, <1>3, <1>4, <1>6, <4>2
        <4> QED BY <4>1, <4>2
      <3> QED BY <1>1, <1>3, <1>6, <3>1 DEF RunRecorded
    <2> QED BY <2>1, <2>2, <2>3 DEF Recorded
  <1>8. /\ Plain' = Plain /\ Timestamps' = Timestamps /\ CaughtErrors' = CaughtErrors
        /\ InUse' = InUse /\ Fresh' = Fresh
    BY <1>1, <1>3 DEF Plain, Timestamps, CaughtErrors, InUse, Fresh
  <1>9. Memos'
    <2>1. Structured' BY <1>1, <1>3, <1>8 DEF IInv, Memos, Structured
    <2>2. MemosAreBacked' /\ ContentTracked' BY <1>1, <1>8 DEF IInv, Memos, MemosAreBacked, ContentTracked
    <2>3. Executions' BY <1>3, <1>8 DEF IInv, Memos, Executions
    <2>4. Progress' /\ UseIsBacked' BY <1>1, <1>3, <1>8 DEF IInv, Memos, Progress, UseIsBacked
    <2> QED BY <2>1, <2>2, <2>3, <2>4 DEF Memos
  <1>10. Results'
    <2>1. MemosAreExact' /\ SinkMatchesUnlessCarried'
      BY <1>1, <1>2 DEF MemosAreExact, SinkMatchesUnlessCarried
    <2>2. \A x : Goal(x)' = Goal(x) BY <1>3 DEF Goal, Called
    <2>3. ASSUME Plain, run.whole
          PROVE  /\ InUse = {k \in Calls : Goal(k) # Absent}
                 /\ ~CaughtErrors =>
                      \A x \in Calls : /\ x \in run'.todo => run.decl[x] = Goal(x)
                                       /\ x \notin run'.todo \cup carried' => sink'[x] = Goal(x)
      <3>1. /\ InUse = {k \in Calls : Goal(k) # Absent}
            /\ ~CaughtErrors => \A x \in Calls : /\ x \in run.todo => run.decl[x] = Goal(x)
                                                 /\ x \notin run.todo \cup carried => sink[x] = Goal(x)
        BY <1>1, <2>3 DEF IInv, Results, Outcome
      <3> QED BY <1>1, <1>3, <1>4, <3>1
    <2>4. {k \in Calls : Goal(k) # Absent}' = {k \in Calls : Goal(k) # Absent} BY <2>2
    <2>5. Outcome' BY <1>3, <1>8, <2>2, <2>3, <2>4 DEF Outcome
    <2> QED BY <2>1, <2>5 DEF Results
  <1> QED BY <1>5, <1>7, <1>9, <1>10 DEF IInv

\* The record a commit leaves: every item holds what version retention kept.
LEMMA CommitIs ==
  ASSUME IInv, Commit
  PROVE  /\ run.pc = "apply" /\ run.todo = {} /\ run.ver = version /\ run' = Idle
         /\ UNCHANGED <<application, file, mtime, changes, sink, carried, faults>>
         /\ synced' = (run.whole /\ run.seen = file)
         /\ rows' = Flushed
         /\ version' \in Nat /\ items' \in [Calls -> SUBSET Entries]
         /\ \A t \in Calls : /\ \A e \in items'[t] : e[1] <= version'
                             /\ Possible(items'[t]) = Left(items[t], run.ver)
                             /\ Absent \notin Left(items[t], run.ver)
                             /\ items'[t] = {} <=> Left(items[t], run.ver) = {}
  <1> DEFINE ver == run.ver
             kept == [t \in Calls |-> Retained(items[t], ver)]
             converged == \A t \in Calls : \A e \in kept[t] : e[1] = ver
  <1>1. /\ run.pc = "apply" /\ run.todo = {} /\ run' = Idle /\ rows' = Flushed
        /\ synced' = (run.whole /\ run.seen = file)
        /\ items' = IF converged THEN [t \in Calls |-> Bump(kept[t], 1)] ELSE kept
        /\ version' = IF converged THEN 1 ELSE version
        /\ UNCHANGED <<application, file, mtime, changes, sink, carried, faults>>
    BY DEF Commit, sources
  <1>2. ver = version /\ ver \in Nat BY <1>1 DEF IInv, Typed, RunType, Recorded, RunRecorded
  <1>3. ASSUME NEW t \in Calls
        PROVE  /\ kept[t] \in SUBSET Entries /\ \A e \in kept[t] : e[1] = ver
               /\ Possible(kept[t]) = Left(items[t], ver) /\ Absent \notin Left(items[t], ver)
               /\ Left(items[t], ver) = {} <=> kept[t] = {}
    <2>1. kept[t] = Retained(items[t], ver) OBVIOUS
    <2>2. items[t] \in SUBSET Entries BY DEF IInv, Typed
    <2>3. \A e \in items[t] : e[1] <= ver BY <1>2 DEF IInv, Recorded, ItemsBound
    <2> HIDE DEF ver
    <2>4. /\ Retained(items[t], ver) \in SUBSET Entries /\ \A e \in Retained(items[t], ver) : e[1] = ver
          /\ Absent \notin Left(items[t], ver)
          /\ Left(items[t], ver) = {} <=> Retained(items[t], ver) = {}
      BY <1>2, <2>2, <2>3, RetainedLeft
    <2> HIDE DEF kept
    <2> QED BY <2>1, <2>4 DEF Left
  <1>4. kept = [t \in Calls |-> kept[t]] OBVIOUS
  <1> HIDE DEF kept, ver
  <1>5. converged BY <1>3
  <1>6. version' = 1 /\ items' = [t \in Calls |-> Bump(kept[t], 1)] BY <1>1, <1>5
  <1>7. \A t \in Calls : /\ items'[t] \in SUBSET Entries
                         /\ \A e \in items'[t] : e[1] <= version'
                         /\ Possible(items'[t]) = Left(items[t], ver)
                         /\ Absent \notin Left(items[t], ver)
                         /\ items'[t] = {} <=> Left(items[t], ver) = {}
    <2> SUFFICES ASSUME NEW t \in Calls
                 PROVE  /\ Bump(kept[t], 1) \in SUBSET Entries
                        /\ \A e \in Bump(kept[t], 1) : e[1] = 1
                        /\ Possible(Bump(kept[t], 1)) = Left(items[t], ver)
                        /\ Absent \notin Left(items[t], ver)
                        /\ Bump(kept[t], 1) = {} <=> Left(items[t], ver) = {}
      BY <1>6
    <2>1. 1 \in Nat OBVIOUS
    <2> DEFINE item == kept[t]
    <2>2. item \in SUBSET Entries BY <1>3
    <2> HIDE DEF item
    <2>3. /\ Bump(item, 1) \in SUBSET Entries /\ \A e \in Bump(item, 1) : e[1] = 1
          /\ Possible(Bump(item, 1)) = Possible(item) /\ (item = {} <=> Bump(item, 1) = {})
      BY <2>1, <2>2, BumpLeft
    <2> QED BY <1>3, <2>3 DEF item
  <1>8. items' \in [Calls -> SUBSET Entries] BY <1>6, <1>7
  <1> QED BY <1>1, <1>2, <1>6, <1>7, <1>8 DEF ver

LEMMA FlushedIs ==
  ASSUME IInv, run.pc = "apply"
  PROVE  /\ Flushed \in Partial(Rows) /\ DOMAIN Flushed = InUse
         /\ InUse \subseteq DOMAIN run.cache /\ InUse \subseteq Calls
         /\ \A k \in InUse : Flushed[k] = run.cache[k].row
  <1>1. DOMAIN run.cache \subseteq Calls /\ \A k \in DOMAIN run.cache : run.cache[k] \in Cached
    BY PartialIs DEF IInv, Typed, RunType
  <1>2. Flushed = [k \in InUse |-> IF run.cache[k].status = "hit" THEN rows[k] ELSE run.cache[k].row]
    BY DEF Flushed, InUse
  <1>3. InUse \subseteq DOMAIN run.cache BY DEF InUse
  <1>4. ASSUME NEW k \in InUse PROVE Flushed[k] = run.cache[k].row /\ Flushed[k] \in Rows
    <2>1. run.cache[k].status = "hit" => rows[k] = run.cache[k].row
      BY <1>3 DEF Fresh, IInv, Memos, Structured
    <2>2. Flushed[k] = run.cache[k].row BY <1>2, <2>1
    <2> QED BY <1>1, <1>3, <2>2 DEF Cached
  <1>5. Flushed \in [InUse -> Rows] BY <1>2, <1>4
  <1>6. InUse \subseteq Calls BY <1>1, <1>3
  <1> QED BY <1>3, <1>4, <1>5, <1>6, PartialMade

LEMMA CommitInv == ASSUME IInv, Commit PROVE IInv'
  <1>1. /\ run.pc = "apply" /\ run.todo = {} /\ run.ver = version /\ run' = Idle
        /\ UNCHANGED <<application, file, mtime, changes, sink, carried, faults>>
        /\ synced' = (run.whole /\ run.seen = file)
        /\ rows' = Flushed
        /\ version' \in Nat /\ items' \in [Calls -> SUBSET Entries]
        /\ \A t \in Calls : /\ \A e \in items'[t] : e[1] <= version'
                            /\ Possible(items'[t]) = Left(items[t], run.ver)
                            /\ Absent \notin Left(items[t], run.ver)
                            /\ items'[t] = {} <=> Left(items[t], run.ver) = {}
    BY CommitIs
  <1>2. /\ rows' \in Partial(Rows) /\ DOMAIN rows' = InUse
        /\ InUse \subseteq DOMAIN run.cache /\ InUse \subseteq Calls
        /\ \A k \in InUse : rows'[k] = run.cache[k].row
    BY <1>1, FlushedIs
  <1>3. /\ run' \in RunType /\ run'.pc = "idle" /\ DOMAIN run'.cache = {} /\ run'.toCall = {}
        /\ \A t \in Calls : run'.decl[t] = Absent
    BY <1>1, IdleIs
  <1>4. Typed'
    <2>1. synced' \in BOOLEAN BY <1>1 DEF IInv, Typed, RunType
    <2> QED BY <1>1, <1>2, <1>3, <2>1 DEF IInv, Typed
  <1>5. Recorded'
    <2>1. ItemsBound' BY <1>1 DEF ItemsBound
    <2>2. ASSUME NEW t \in Calls \ carried PROVE Covers(Left(items[t], run.ver), sink[t])
      BY <1>1 DEF IInv, Recorded, RunRecorded
    <2>3. TrackingCoversSinkUnlessCarried' BY <1>1, <2>2 DEF TrackingCoversSinkUnlessCarried, Covers
    <2>4. RunRecorded' BY <1>3 DEF RunRecorded
    <2> QED BY <2>1, <2>3, <2>4 DEF Recorded
  <1>6. /\ Plain' = Plain /\ Timestamps' = Timestamps /\ CaughtErrors' = CaughtErrors
        /\ InUse' = {} /\ Fresh' = {}
    BY <1>1, <1>3 DEF Plain, Timestamps, CaughtErrors, InUse, Fresh
  <1>7. \A k \in InUse : run.cache[k].row.paths \subseteq Calls
    <2>1. \A k \in DOMAIN run.cache : run.cache[k] \in Cached BY PartialIs DEF IInv, Typed, RunType
    <2> QED BY <1>2, <2>1 DEF Cached, Rows
  <1>8. Plain => \A k \in InUse : /\ \A t \in run.cache[k].row.paths : Left(items[t], run.ver) # {}
                                  /\ run.cache[k].row.deps \subseteq InUse
                                  /\ ~CaughtErrors => run.cache[k].row.content \in Left(items[k], run.ver)
    BY <1>1 DEF IInv, Memos, UseIsBacked
  <1>9. Memos'
    <2>1. Structured'
      <3>1. \A k \in DOMAIN run.cache : RowFits(Plain, k, run.cache[k].row) BY DEF IInv, Memos, Structured
      <3>2. \A k \in DOMAIN rows' : RowFits(Plain', k, rows'[k]) BY <1>2, <1>6, <3>1
      <3>3. Plain' => \A x \in Files : mtime'[x] = 0 BY <1>1, <1>6 DEF IInv, Memos, Structured
      <3> QED BY <1>3, <3>2, <3>3 DEF Structured
    <2>2. MemosAreBacked'
      <3> SUFFICES ASSUME Plain, NEW k \in InUse
                   PROVE  /\ \A t \in run.cache[k].row.paths : items'[t] # {}
                          /\ run.cache[k].row.deps \subseteq InUse
        BY <1>2, <1>6 DEF MemosAreBacked, Plain
      <3> QED BY <1>1, <1>7, <1>8
    <2>3. ContentTracked'
      <3> SUFFICES ASSUME Plain, ~CaughtErrors, NEW k \in InUse
                   PROVE  run.cache[k].row.content \in Possible(items'[k])
        BY <1>2, <1>6 DEF ContentTracked
      <3> QED BY <1>1, <1>2, <1>8
    <2>4. Executions' BY <1>3, <1>6 DEF Executions
    <2>5. Progress' /\ UseIsBacked' BY <1>3 DEF Progress, UseIsBacked
    <2> QED BY <2>1, <2>2, <2>3, <2>4, <2>5 DEF Memos
  <1>10. Results'
    <2>1. Outcome' BY <1>3 DEF Outcome
    <2>2. run.seen = file => \A t \in Calls : Wanted(t)' = Goal(t) BY <1>1 DEF Wanted, Goal, Called
    <2>3. MemosAreExact'
      <3> SUFFICES ASSUME run.whole, run.seen = file, Plain
                   PROVE  InUse = {k \in Calls : Wanted(k)' # Absent}
        BY <1>1, <1>2, <1>6 DEF MemosAreExact, Plain
      <3>1. InUse = {k \in Calls : Goal(k) # Absent} BY <1>1 DEF IInv, Results, Outcome
      <3> QED BY <2>2, <3>1
    <2>4. SinkMatchesUnlessCarried'
      <3> SUFFICES ASSUME run.whole, run.seen = file, Plain, ~CaughtErrors, NEW t \in Calls \ carried
                   PROVE  sink[t] = Wanted(t)'
        BY <1>1, <1>6 DEF SinkMatchesUnlessCarried, Plain
      <3>1. sink[t] = Goal(t) BY <1>1 DEF IInv, Results, Outcome
      <3> QED BY <2>2, <3>1
    <2> QED BY <2>1, <2>3, <2>4 DEF Results
  <1> QED BY <1>4, <1>5, <1>9, <1>10 DEF IInv

-----------------------------------------------------------------------------
(* Theorems. *)

LEMMA NextInv == ASSUME IInv, [Next]_vars PROVE IInv'
  <1>1. CASE UNCHANGED vars
    <2>1. /\ UNCHANGED <<application, rows, version, items, sink, run, carried>>
          /\ UNCHANGED <<file, mtime, changes, faults, synced>>
      BY <1>1 DEF vars, sources, store
    <2> QED BY <2>1, SourcesInv DEF IInv, Typed
  <1>2. CASE Next
    <2>1. ASSUME NEW f \in Files, (\E v \in States : ChangeFile(f, v)) \/ Touch(f) PROVE IInv'
      BY <2>1, ChangeInv
    <2>2. ASSUME NEW f \in Files, ReuseCall(f) PROVE IInv' BY <2>2, ReuseInv
    <2>3. ASSUME NEW f \in Files, ExecuteCall(f) PROVE IInv' BY <2>3, ExecuteInv
    <2>4. ASSUME NEW f \in Files, FailCall(f) PROVE IInv' BY <2>4, FailInv
    <2>5. ASSUME NEW f \in Files, CallRaises(f) PROVE IInv' BY <2>5, RunEndsInv
    <2>6. ASSUME NEW full \in BOOLEAN, StartRun(full) PROVE IInv' BY <2>6, StartRunInv
    <2>7. ASSUME Precommit PROVE IInv' BY <2>7, PrecommitInv
    <2>8. ASSUME NEW t \in Calls, ApplyAction(t) PROVE IInv' BY <2>8, ApplyInv
    <2>9. ASSUME Commit PROVE IInv' BY <2>9, CommitInv
    <2>10. ASSUME RunFails PROVE IInv' BY <2>10, RunEndsInv
    <2> QED BY <1>2, <2>1, <2>2, <2>3, <2>4, <2>5, <2>6, <2>7, <2>8, <2>9, <2>10 DEF Next
  <1> QED BY <1>1, <1>2

\* The inductive invariant: what FnMemoCache, the memo rows, the tracking record
\* and the sink have to do with each other at every point of a run.
THEOREM Invariant == Spec => []IInv
  <1>1. Init => IInv BY InitInv
  <1>2. IInv /\ [Next]_vars => IInv' BY NextInv
  <1> QED BY <1>1, <1>2, PTL DEF Spec

\* The store, the cache and the run keep their types.
THEOREM TypeCorrect == Spec => []TypeOK
  <1>1. IInv => TypeOK
    <2> SUFFICES ASSUME IInv PROVE TypeOK OBVIOUS
    <2>1. IsPartial(rows, Rows) BY PartialIs DEF IInv, Typed, IsPartial
    <2>2. run \in RunType BY DEF IInv, Typed
    <2>3. IsPartial(run.cache, Cached) BY <2>2, PartialIs DEF RunType, IsPartial
    <2>4. /\ run.pc \in {"idle", "process", "apply"} /\ run.full \in BOOLEAN /\ run.whole \in BOOLEAN
          /\ run.toCall \subseteq Files /\ run.seen \in [Files -> States]
          /\ run.decl \in [Calls -> States] /\ run.ver \in Nat /\ run.todo \subseteq Calls
      BY <2>2 DEF RunType
    <2> QED BY <2>1, <2>3, <2>4 DEF IInv, Typed, TypeOK
  <1> QED BY <1>1, Invariant, PTL

\* However many calls were reused and however many runs failed half way, the
\* tracking record knows what the sink may hold of every target pre_commit did not
\* pass on unsettled.
THEOREM CoversSink == Spec => []TrackingCoversSinkUnlessCarried
  <1>1. IInv => TrackingCoversSinkUnlessCarried BY DEF IInv, Recorded
  <1> QED BY <1>1, Invariant, PTL

\* A memo row on disk names tracked targets and existing rows: the collection of
\* untouched rows at a flush never takes one that another still depends on.
THEOREM Backed == Spec => []MemosAreBacked
  <1>1. IInv => MemosAreBacked BY DEF IInv, Memos
  <1> QED BY <1>1, Invariant, PTL

\* After a run that succeeded there is a memo row for exactly the calls the files
\* ask for, executed, reused or reached only through another call's memo.
THEOREM Exact == Spec => []MemosAreExact
  <1>1. IInv => MemosAreExact BY DEF IInv, Results
  <1> QED BY <1>1, Invariant, PTL

\* Memoization is transparent: after a run that succeeded, the sink holds what
\* executing every call would have declared, whichever calls were reused.
THEOREM Matches == Spec => []SinkMatchesUnlessCarried
  <1>1. IInv => SinkMatchesUnlessCarried BY DEF IInv, Results
  <1> QED BY <1>1, Invariant, PTL
=============================================================================
