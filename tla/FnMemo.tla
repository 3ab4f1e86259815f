------------------------------- MODULE FnMemo -------------------------------
(***************************************************************************)
(* Function memoization inside the runs of one component: which cached     *)
(* calls a run reuses, which target states that keeps alive ("contained"), *)
(* and what a commit leaves of the memo rows and of the tracking record.   *)
(* Source: FnMemoCache and decode_stored_entry in                          *)
(* rust/core/src/engine/context.rs, rust/core/src/engine/function.rs, its  *)
(* callers in python/grepify/_internal/function.py, and                    *)
(* finalize_fn_call_memoization, pre_commit and the Committer in           *)
(* rust/core/src/engine/execution.rs.                                      *)
(*                                                                         *)
(* The component calls a memoized function for every file it finds; the    *)
(* memo key is the file's path, its memo state the content and, for some   *)
(* applications, the modification time.  The function declares the file's  *)
(* target and calls another memoized function for each chunk of the        *)
(* content, which declares the chunk's target; a chunk is its own memo key *)
(* and has no memo state.  A call and the target it declares share their   *)
(* name.                                                                   *)
(* The calls do not mount components, and the deployed code does not       *)
(* change: decoding a row always yields a memo.                            *)
(***************************************************************************)
EXTENDS Tracking

CONSTANTS
  Files, Chunks,
  ChunksOf,      \* [Values -> SUBSET Chunks]: the chunks of a content
  ChunkContent,  \* what the target of a chunk holds
  Applications,  \* kinds of applications, [timestamps, caught]
  MaxChanges,    \* bound on changes of the files
  MaxFaults      \* bound on calls that raise and runs that fail, are cancelled or crash

ASSUME FilesAssumption == Files \cap Chunks = {}
ASSUME ChunksAssumption == ChunksOf \in [Values -> SUBSET Chunks] /\ ChunkContent \in Values
ASSUME FnMemoBounds ==
  /\ MaxChanges \in Nat /\ MaxFaults \in Nat
  /\ Applications \subseteq [timestamps : BOOLEAN, caught : BOOLEAN]

VARIABLES
  application,  \* the application, which does not change
  file,     \* [Files -> content, Absent for no file]
  mtime,    \* [Files -> modification time]
  rows,     \* the function-memo rows on disk: a function from some of the calls
  version, items,  \* the `__track` row
  sink,
  run,      \* the run in flight
  synced,   \* did the last run succeed with the files as they are?
  carried,  \* targets whose unsettled item a pre_commit passed on unreconciled
  changes, faults

sources == <<application, file, mtime, changes>>
store   == <<rows, version, items>>
vars    == <<sources, store, sink, run, synced, carried, faults>>

Calls == Files \cup Chunks

\* Does a memo state hold the modification time next to the content?
Timestamps == application.timestamps
\* Does the application catch the exception of a call and go on?
CaughtErrors == application.caught

\* FunctionMemoizationEntry: the memo state (content, mtime), the targets the
\* call declared and the memo entries it depends on.
Rows == [content : States, mtime : Nat, paths : SUBSET Calls, deps : SUBSET Chunks]

\* FnCallMemoEntry: "stored" is Stored(bytes), "hit" is Ready with
\* already_stored = true, "fresh" is Ready with already_stored = false.
Entry(status, row) == [status |-> status, row |-> row]
Cached == [status : {"stored", "hit", "fresh"}, row : Rows]

\* A function from some of the calls into S.
IsPartial(fun, S) == DOMAIN fun \subseteq Calls /\ \A k \in DOMAIN fun : fun[k] \in S

Empty == [k \in {} |-> Absent]

\* toCall: files still to be processed; seen: the contents the run read;
\* whole: did every call succeed?  cache: FnMemoCache; decl: what its calls
\* declared; ver, todo: as in TargetStates.
Idle == [pc |-> "idle", full |-> FALSE, toCall |-> {}, seen |-> [f \in Files |-> Absent],
         whole |-> TRUE, cache |-> Empty, decl |-> [t \in Calls |-> Absent], ver |-> 0, todo |-> {}]

\* What the sources want in the sink.
Wanted(t) ==
  IF t \in Files THEN file[t]
  ELSE IF \E f \in Files : file[f] # Absent /\ t \in ChunksOf[file[f]] THEN ChunkContent ELSE Absent

Init ==
  /\ application \in Applications
  /\ file = [f \in Files |-> Absent]
  /\ mtime = [f \in Files |-> 0]
  /\ rows = Empty
  /\ version = 0 /\ items = [t \in Calls |-> {}]
  /\ sink = [t \in Calls |-> Absent]
  /\ run = Idle
  /\ synced = TRUE /\ carried = {}
  /\ changes = 0 /\ faults = 0

-----------------------------------------------------------------------------
(* The sources. *)

\* A file is written, rewritten or removed.
ChangeFile(f, v) ==
  /\ changes < MaxChanges
  /\ v # file[f]
  /\ file' = [file EXCEPT ![f] = v]
  /\ mtime' = [mtime EXCEPT ![f] = IF Timestamps THEN @ + 1 ELSE @]
  /\ changes' = changes + 1
  /\ synced' = FALSE
  /\ UNCHANGED <<application, store, sink, run, carried, faults>>

\* A file gets a new modification time only.
Touch(f) ==
  /\ Timestamps
  /\ changes < MaxChanges
  /\ file[f] # Absent
  /\ mtime' = [mtime EXCEPT ![f] = @ + 1]
  /\ changes' = changes + 1
  /\ UNCHANGED <<application, file, store, sink, run, synced, carried, faults>>

-----------------------------------------------------------------------------
(* The calls of a run. *)

\* prefetch_states: every row is loaded undecoded; full_reprocess loads none.
StartRun(full) ==
  /\ run.pc = "idle"
  /\ run' = [Idle EXCEPT !.pc = "process", !.full = full,
               !.toCall = {f \in Files : file[f] # Absent},
               !.cache = IF full THEN Empty
                         ELSE [k \in DOMAIN rows |-> Entry("stored", rows[k])]]
  /\ synced' = FALSE
  /\ UNCHANGED <<sources, store, sink, carried, faults>>

\* The memo state function: same modification time, or same content.
CanReuse(f) ==
  /\ f \in DOMAIN run.cache
  /\ \/ Timestamps /\ run.cache[f].row.mtime = mtime[f]
     \/ run.cache[f].row.content = file[f]

\* A hit on a decoded row; a hit on an entry of this very run leaves it alone.
Hit(entry) == IF entry.status = "stored" THEN Entry("hit", entry.row) ELSE entry

\* The call of file f reuses its memo; update_memo_states stores a new
\* modification time and marks the entry as not stored.
ReuseCall(f) ==
  /\ run.pc = "process"
  /\ f \in run.toCall
  /\ file[f] # Absent
  /\ CanReuse(f)
  /\ LET hit == Hit(run.cache[f])
         entry == IF hit.row.mtime = mtime[f] THEN hit
                  ELSE Entry("fresh", [hit.row EXCEPT !.mtime = mtime[f]])
     IN  run' = [run EXCEPT !.toCall = @ \ {f}, !.seen[f] = file[f], !.cache[f] = entry]
  /\ UNCHANGED <<sources, store, sink, synced, carried, faults>>

\* Chunks of a content that no memo of this run answers.
Executed(v) == ChunksOf[v] \ DOMAIN run.cache

\* The memo of a chunk that was executed.
ChunkMemo(n) ==
  Entry("fresh", [content |-> ChunkContent, mtime |-> 0, paths |-> {n}, deps |-> {}])

\* The memo of an executed call of f: the targets it and the chunk calls it
\* executed declared, and a dependency on every chunk call.
FileMemo(f) ==
  Entry("fresh", [content |-> file[f], mtime |-> mtime[f],
                  paths |-> {f} \cup Executed(file[f]), deps |-> ChunksOf[file[f]]])

\* The call of file f is executed, with its chunk calls.
ExecuteCall(f) ==
  /\ run.pc = "process"
  /\ f \in run.toCall
  /\ file[f] # Absent
  /\ ~CanReuse(f)
  /\ LET chunks == ChunksOf[file[f]]
         executed == Executed(file[f])
         cache == [k \in DOMAIN run.cache \cup chunks \cup {f} |->
                     CASE k = f -> FileMemo(f)
                       [] k \in executed -> ChunkMemo(k)
                       [] k \in chunks \ executed -> Hit(run.cache[k])
                       [] OTHER -> run.cache[k]]
         decl == [t \in Calls |-> IF t = f THEN file[f]
                                  ELSE IF t \in executed THEN ChunkContent ELSE run.decl[t]]
     IN  run' = [run EXCEPT !.toCall = @ \ {f}, !.seen[f] = file[f], !.cache = cache, !.decl = decl]
  /\ UNCHANGED <<sources, store, sink, synced, carried, faults>>

\* The call of file f declares its target and raises; the application catches
\* the exception.  The guard is dropped unresolved: a decoded row stays as it
\* was, a new entry stays Pending and leaves no row.
FailCall(f) ==
  /\ CaughtErrors /\ faults < MaxFaults
  /\ run.pc = "process"
  /\ f \in run.toCall
  /\ file[f] # Absent
  /\ ~CanReuse(f)
  /\ run' = [run EXCEPT !.toCall = @ \ {f}, !.whole = FALSE, !.decl[f] = file[f],
               !.cache = [k \in DOMAIN @ |-> IF k = f THEN Hit(@[k]) ELSE @[k]]]
  /\ faults' = faults + 1
  /\ UNCHANGED <<sources, store, sink, synced, carried>>

-----------------------------------------------------------------------------
(* submit. *)

\* finalize_fn_call_memoization, the first pass: hits protect what they declared.
Hits == {k \in DOMAIN run.cache : run.cache[k].status = "hit"}

\* Its dependency walk, from the hits only.
Walked == {n \in DOMAIN run.cache : \E k \in Hits : n \in run.cache[k].row.deps}

\* Mutant of Contained: leaves out what the dependencies declared.
ContainedDirectly == UNION {run.cache[k].row.paths : k \in Hits}

\* The contained targets.
Contained == UNION {run.cache[k].row.paths : k \in Hits \cup Walked}

\* Mutant of Finalized: walked rows stay undecoded.
FinalizedHitsOnly == run.cache

\* Walked rows are decoded in place, so that the flush keeps them.
Finalized ==
  [k \in DOMAIN run.cache |-> IF k \in Walked THEN Hit(run.cache[k]) ELSE run.cache[k]]

\* Phase 2 of pre_commit passes these on with a new version and nothing else.
PassedOn == {t \in Contained : run.decl[t] = Absent /\ items[t] # {}}

\* Declared, or tracked and not contained.
Reconciles == {t \in Calls \ PassedOn : run.decl[t] # Absent \/ items[t] # {}}

\* The targets whose reconciliation queues a sink action.
Acting == {t \in Reconciles : ReconcileActs(run.decl[t], items[t], run.full)}

\* Mutant of NextItem: what the target held before is forgotten.
NextItemForgotten(t, ver) ==
  CASE t \in PassedOn -> Bump(items[t], ver)
    [] t \in Acting -> {Pushed(ver, run.decl[t])}
    [] t \in Reconciles \ Acting -> Bump(items[t], ver)
    [] OTHER -> {}

\* The item a pre_commit under version ver leaves.
NextItem(t, ver) ==
  CASE t \in PassedOn -> Bump(items[t], ver)
    [] t \in Reconciles -> Reconciled(run.decl[t], items[t], run.full, ver)
    [] OTHER -> {}

\* The rows are not written before the commit.
Precommit ==
  LET ver == version + 1 IN
  /\ run.pc = "process"
  /\ run.toCall = {}
  /\ version' = ver
  /\ items' = [t \in Calls |-> NextItem(t, ver)]
  /\ run' = [run EXCEPT !.pc = "apply", !.ver = ver, !.todo = Acting, !.cache = Finalized]
  /\ carried' = carried \cup {t \in PassedOn : IsPending(items[t])}
  /\ UNCHANGED <<sources, rows, sink, synced, faults>>

\* The sink carries out one queued action.
ApplyAction(t) ==
  /\ run.pc = "apply"
  /\ t \in run.todo
  /\ sink' = [sink EXCEPT ![t] = run.decl[t]]
  /\ run' = [run EXCEPT !.todo = @ \ {t}]
  /\ carried' = carried \ {t}
  /\ UNCHANGED <<sources, store, synced, faults>>

\* Mutant of Flushed: untouched rows stay.
FlushedKeepsUntouched ==
  [k \in DOMAIN run.cache |->
     IF run.cache[k].status \in {"hit", "stored"} THEN rows[k] ELSE run.cache[k].row]

\* into_flush_plan: hits stay, fresh entries are written, untouched rows go;
\* where nothing was prefetched the range is cleared first.
Flushed ==
  LET stay == {k \in DOMAIN run.cache : run.cache[k].status # "stored"}
  IN  [k \in stay |-> IF run.cache[k].status = "hit" THEN rows[k] ELSE run.cache[k].row]

\* The commit: version retention and the flush of the memo rows, together.
\* One run at a time writes here, so the read before it counts as a part.
Commit ==
  LET kept == [t \in Calls |-> Retained(items[t], run.ver)]
      converged == \A t \in Calls : \A e \in kept[t] : e[1] = run.ver IN
  /\ run.pc = "apply"
  /\ run.todo = {}
  /\ items' = IF converged THEN [t \in Calls |-> Bump(kept[t], 1)] ELSE kept
  /\ version' = IF converged THEN 1 ELSE version
  /\ rows' = Flushed
  /\ synced' = (run.whole /\ run.seen = file)
  /\ run' = Idle
  /\ UNCHANGED <<sources, sink, carried, faults>>

\* The run fails, is cancelled, or the process dies: what is on disk stays.
RunFails ==
  /\ run.pc # "idle"
  /\ faults < MaxFaults
  /\ faults' = faults + 1
  /\ run' = Idle
  /\ UNCHANGED <<sources, store, sink, synced, carried>>

\* A file vanished before its call: reading it raises.
CallRaises(f) ==
  /\ run.pc = "process"
  /\ f \in run.toCall
  /\ file[f] = Absent
  /\ run' = Idle
  /\ UNCHANGED <<sources, store, sink, synced, carried, faults>>

-----------------------------------------------------------------------------
Next ==
  \/ \E f \in Files :
       \/ \E v \in States : ChangeFile(f, v)
       \/ Touch(f)
       \/ ReuseCall(f) \/ ExecuteCall(f) \/ FailCall(f) \/ CallRaises(f)
  \/ \E full \in BOOLEAN : StartRun(full)
  \/ Precommit
  \/ \E t \in Calls : ApplyAction(t)
  \/ Commit
  \/ RunFails

Spec == Init /\ [][Next]_vars

-----------------------------------------------------------------------------
(* Properties. *)

\* Type invariant of the store, the cache and the run.
TypeOK ==
  /\ application \in Applications
  /\ file \in [Files -> States] /\ mtime \in [Files -> Nat]
  /\ IsPartial(rows, Rows)
  /\ version \in Nat /\ items \in [Calls -> SUBSET Entries]
  /\ sink \in [Calls -> States]
  /\ run.pc \in {"idle", "process", "apply"} /\ run.full \in BOOLEAN /\ run.whole \in BOOLEAN
  /\ run.toCall \subseteq Files /\ run.seen \in [Files -> States]
  /\ IsPartial(run.cache, Cached) /\ run.decl \in [Calls -> States]
  /\ run.ver \in Nat /\ run.todo \subseteq Calls
  /\ synced \in BOOLEAN /\ carried \subseteq Calls
  /\ changes \in Nat /\ faults \in Nat

\* After a run that succeeded with the files as they are, reused calls or not,
\* the sink holds exactly what executing every call would declare.
SinkMatches == synced => \A t \in Calls : sink[t] = Wanted(t)

\* The same, of an application without modification times in its memo states and
\* whose exceptions go up, and up to targets whose unsettled item a memo hit passed
\* on: what pre_commit reconciles or passes on settled ends up right.
SinkMatchesUnlessCarried ==
  synced /\ ~Timestamps /\ ~CaughtErrors =>
    \A t \in Calls \ carried : sink[t] = Wanted(t)

\* However many runs failed and whatever memos they reused, the record knows
\* what the sink may hold of every target that was not passed on unsettled.
TrackingCoversSinkUnlessCarried ==
  \A t \in Calls \ carried :
    IF items[t] = {} THEN sink[t] = Absent ELSE sink[t] \in Possible(items[t])

\* A later hit on a row has something to protect: the targets it names are
\* tracked and the rows it depends on exist (without modification times: a hit that
\* only changed the memo state is stored anew with nothing kept for it).
MemosAreBacked ==
  ~Timestamps =>
    \A k \in DOMAIN rows :
      /\ \A t \in rows[k].paths : items[t] # {}
      /\ rows[k].deps \subseteq DOMAIN rows

\* A successful run leaves a memo for every call the sources ask for, and
\* collects all others (without modification times, as above).
MemosAreExact == synced /\ ~Timestamps => DOMAIN rows = {k \in Calls : Wanted(k) # Absent}
=============================================================================
