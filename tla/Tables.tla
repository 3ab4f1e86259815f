------------------------------- MODULE Tables -------------------------------
(***************************************************************************)
(* A container target and its children: a SQL table, declared by a         *)
(* component of its own (mount_table_target), and the rows another         *)
(* component declares in it.  The engine's side is the provider generation *)
(* of rust/core/src/engine/execution.rs: it tells rows that survived a     *)
(* change of the table from rows that did not.  The connector's side is    *)
(* rust/sdk/grepify/src/sqlite.rs on top of statediff.rs: what the spec    *)
(* and the records of earlier runs, some of which never finished, say      *)
(* about the statements to send.                                           *)
(*                                                                         *)
(* The submit lifecycle of one run is TargetStates'; here the table's run  *)
(* and the rows' run follow each other, or, once the table is no longer    *)
(* declared, their Delete runs go on side by side.  Virtual tables, which  *)
(* cannot be altered, the table's name and NOT NULL are left out.          *)
(***************************************************************************)
EXTENDS Naturals, FiniteSets, Functions

CONSTANTS
  Keys, Types,      \* primary keys and column types of specs
  Specs,            \* table specs: key, non-key columns with their types, managed_by
  Cols,             \* non-key columns
  Rows,             \* row keys
  None,             \* no spec, no record, no table
  FullReprocess,    \* may updates ask for full_reprocess?
  MaxChanges,       \* bound on changes of what is declared
  MaxInterruptions  \* bound on failing statements, ending a run or not, cancellations and crashes

Columns == UNION {[C -> Types] : C \in SUBSET Cols}
\* A table of the database: a row has values for some columns.
DbTables == [key : Keys, cols : Columns, rows : UNION {[R -> SUBSET Cols] : R \in SUBSET Rows}]

ASSUME SpecsAssumption ==
  /\ Specs \subseteq [key : Keys, cols : Columns, by : {"system", "user"}]
  /\ None \notin Specs /\ None \notin Keys /\ None \notin Types /\ None \notin DbTables
  /\ \A cs \in SUBSET Cols : cs # None
ASSUME TableBoundsAssumption ==
  MaxChanges \in Nat /\ MaxInterruptions \in Nat /\ FullReprocess \in BOOLEAN

\* A table's item tracks specs, a row's the columns the row has values for.
Record == INSTANCE Tracking WITH Values <- Specs \cup SUBSET Cols, Absent <- None

VARIABLES
  wish,        \* [spec, rows] the program declares now
  table,       \* the table in the database, or None: [key, cols, rows]
  tver, titem, \* the table component's `__track` row: version (0: no row) and item
  gen,         \* provider_generation of that item: [id, ver]
  lastId,      \* last provider id reserved under TARGET_ID_KEY
  rver, ritems,\* the row component's `__track` row: [<<row, provider id>> -> [states, sv]]
  run,         \* the update in flight, or Idle
  \* Bookkeeping.
  settled,     \* the last update succeeded with what is declared
  leftAlone,   \* the connector left a table in place that differs from the spec
  unaltered,   \* columns an ALTER TABLE failed for, until one takes effect
  forgotten,   \* rows of the table no run will look for any more
  stranded,    \* rows whose record outlived the table or the table's record
  changes, interruptions

store == <<tver, titem, gen, lastId, rver, ritems>>
ghosts == <<leftAlone, unaltered, forgotten, stranded>>
vars == <<wish, table, store, run, settled, ghosts, changes, interruptions>>

NoRows == [k \in {} |-> None]
DefaultGen == [id |-> 0, ver |-> 0]   \* TargetStateProviderGeneration::default
Idle == [pc |-> "idle", spec |-> None, rows |-> {}, full |-> FALSE,
         main |-> "none", cols |-> NoRows, todo |-> {}, rowsGone |-> FALSE]

Init ==
  /\ wish = [spec |-> None, rows |-> {}]
  /\ table = None
  /\ tver = 0 /\ titem = {} /\ gen = DefaultGen /\ lastId = 0
  /\ rver = 0 /\ ritems = NoRows
  /\ run = Idle
  /\ settled = TRUE
  /\ leftAlone = FALSE /\ unaltered = {} /\ forgotten = {} /\ stranded = {}
  /\ changes = 0 /\ interruptions = 0

DescribedBy(t, spec) ==
  IF spec = None THEN t = None
  ELSE t # None /\ t.key = spec.key /\ t.cols = spec.cols

\* What CREATE TABLE makes of a spec.
NewTable(spec) == [key |-> spec.key, cols |-> spec.cols, rows |-> NoRows]

-----------------------------------------------------------------------------
(* statediff: from a transition to an action.  A set of records stands for   *)
(* the vector of them: only whether some or all of them agree matters.       *)

\* Mutant of Spared: a dropped table is the user's only if every record says so.
SparedIfAllUser(spec, prev) ==
  IF spec = None THEN \A p \in prev : p.by = "user" ELSE spec.by = "user"

\* resolve_system_transition finds nothing for the system to do.
Spared(spec, prev) ==
  IF spec = None THEN prev = {} \/ \E p \in prev : p.by = "user" ELSE spec.by = "user"

ManagedBySystem(prev) == {p \in prev : p.by = "system"}

\* diff, of a main or of a sub record; None: nothing desired.
Diff(desired, prev, missing) ==
  CASE desired = None /\ prev = {}                       -> "none"
    [] desired = None /\ prev # {}                       -> "delete"
    [] desired # None /\ (\E p \in prev : p # desired)   -> "replace"
    [] desired # None /\ (\A p \in prev : p = desired) /\ ~missing -> "none"
    [] desired # None /\ prev = {} /\ missing            -> "insert"
    [] OTHER                                             -> "upsert"

\* The main half of diff_composite: the key's.
MainAction(spec, prev, missing) ==
  IF Spared(spec, prev) THEN "none"
  ELSE Diff(IF spec = None THEN None ELSE spec.key,
            {p.key : p \in ManagedBySystem(prev)}, missing)

\* Mutant of ColAction: a column some records lack counts as known.
ColActionTrusting(c, spec, prev, missing) ==
  LET having == {p \in ManagedBySystem(prev) : c \in DOMAIN p.cols}
  IN  Diff(IF c \in DOMAIN spec.cols THEN spec.cols[c] ELSE None, {p.cols[c] : p \in having},
           missing)

\* The sub half of diff_composite: a column that is not in every record may be missing.
ColAction(c, spec, prev, missing) ==
  LET having == {p \in ManagedBySystem(prev) : c \in DOMAIN p.cols}
  IN  Diff(IF c \in DOMAIN spec.cols THEN spec.cols[c] ELSE None, {p.cols[c] : p \in having},
           missing \/ having # ManagedBySystem(prev))

\* TableHandler::reconcile: columns change one by one only when the table stays.
ColActions(spec, prev, missing) ==
  LET todo == {c \in Cols : /\ ~Spared(spec, prev)
                            /\ MainAction(spec, prev, missing) = "none"
                            /\ ColAction(c, spec, prev, missing) # "none"}
  IN  [c \in todo |-> ColAction(c, spec, prev, missing)]

\* child_invalidation
Invalidation(main, cols) ==
  IF main = "replace" THEN "destructive"
  ELSE IF \E c \in DOMAIN cols : cols[c] # "insert" THEN "lossy" ELSE "none"

-----------------------------------------------------------------------------
(* The program and its user. *)

Change(spec, rows) ==
  /\ changes < MaxChanges
  /\ <<spec, rows>> # <<wish.spec, wish.rows>>
  /\ spec = None => rows = {}
  /\ wish' = [spec |-> spec, rows |-> rows]
  /\ changes' = changes + 1
  /\ settled' = FALSE
  /\ UNCHANGED <<table, store, run, ghosts, interruptions>>

\* Between updates the user creates the table that is to be user-managed.
UserProvides ==
  /\ run.pc = "idle"
  /\ wish.spec # None /\ table = None
  /\ wish.spec.by = "user"
  /\ table' = NewTable(wish.spec)
  /\ UNCHANGED <<wish, store, run, settled, ghosts, changes, interruptions>>

StartUpdate(full) ==
  /\ run.pc = "idle"
  /\ full => FullReprocess
  /\ wish.spec = None => tver # 0 \/ rver # 0
  /\ run' = [Idle EXCEPT !.spec = wish.spec, !.rows = wish.rows, !.full = full,
                         !.pc = IF wish.spec # None THEN "table"
                                ELSE IF tver = 0 THEN "dropped" ELSE "drop"]
  /\ settled' = FALSE
  /\ leftAlone' = (leftAlone \/ (wish.spec = None /\ tver = 0 /\ table # None))
  /\ UNCHANGED <<wish, table, store, unaltered, forgotten, stranded, changes, interruptions>>

-----------------------------------------------------------------------------
(* The table's run. *)

Prev(item) == Record!Possible(item) \ {None}

\* A table created anew gets a new provider id, one that may have lost data a
\* new schema version.
NextGeneration(invalidation) ==
  CASE invalidation = "destructive" -> [id |-> lastId + 1, ver |-> 0]
    [] invalidation = "lossy"       -> [gen EXCEPT !.ver = @ + 1]
    [] OTHER                        -> gen

\* pre_commit: a declared table is always acted upon, so its spec is pushed.
TablePrecommit ==
  LET prev == Prev(titem)
      missing == Record!MayBeMissing(titem, run.full)
      main == MainAction(run.spec, prev, missing)
      cols == ColActions(run.spec, prev, missing)
      next == NextGeneration(Invalidation(main, cols)) IN
  /\ run.pc = "table"
  /\ tver' = tver + 1
  /\ titem' = {Record!Pushed(tver + 1, run.spec)} \cup
              (IF titem = {} THEN {Record!Pushed(0, None)} ELSE titem)
  /\ gen' = next
  /\ lastId' = IF next.id = lastId + 1 THEN next.id ELSE lastId
  /\ run' = [run EXCEPT !.pc = "ddl", !.main = main, !.cols = cols]
  /\ leftAlone' = \/ leftAlone
                  \/ /\ run.spec.by = "system" /\ prev # {} /\ ManagedBySystem(prev) = {}
                     /\ ~DescribedBy(table, run.spec)
  /\ UNCHANGED <<wish, table, rver, ritems, settled, unaltered, forgotten, stranded,
                 changes, interruptions>>

\* drop_table: the first half of a replace, or all of a delete.
DropTable ==
  /\ run.pc \in {"ddl", "dropping"}
  /\ run.main \in {"replace", "delete"}
  /\ table' = None
  /\ run' = [run EXCEPT !.main = IF @ = "replace" THEN "insert" ELSE "none"]
  /\ leftAlone' = FALSE /\ unaltered' = {} /\ forgotten' = {}
  /\ stranded' = IF run.main = "delete" THEN {k[1] : k \in DOMAIN ritems} ELSE stranded
  /\ UNCHANGED <<wish, store, settled, changes, interruptions>>

\* CREATE TABLE IF NOT EXISTS
Created(spec) ==
  IF table = None THEN NewTable(spec) ELSE table

CreateTable ==
  /\ run.pc = "ddl"
  /\ run.main \in {"insert", "upsert"}
  /\ table' = Created(run.spec)
  /\ leftAlone' = (leftAlone \/ ~DescribedBy(table', run.spec))
  /\ run' = [run EXCEPT !.main = "none"]
  /\ UNCHANGED <<wish, store, settled, unaltered, forgotten, stranded, changes, interruptions>>

WithoutColumn(t, c) ==
  [t EXCEPT !.cols = [d \in DOMAIN @ \ {c} |-> @[d]],
            !.rows = [r \in DOMAIN @ |-> @[r] \ {c}]]

\* Adding a column that is there already fails, which is tolerated.
WithColumn(t, c, type) ==
  [t EXCEPT !.cols = [d \in DOMAIN @ \cup {c} |-> IF d \in DOMAIN @ THEN @[d] ELSE type]]

\* apply_column_actions goes on to the next ALTER TABLE; a replace drops the
\* column and adds it again.
Drops(c) == run.cols[c] \in {"delete", "replace"}
NextStatement(c) ==
  run' = [run EXCEPT !.cols = IF @[c] = "replace" THEN [@ EXCEPT ![c] = "insert"]
                              ELSE Restrict(@, DOMAIN @ \ {c})]

AlterColumn(c) ==
  /\ run.pc = "ddl"
  /\ run.main = "none"
  /\ c \in DOMAIN run.cols
  /\ table' = IF table = None THEN None
              ELSE IF Drops(c) THEN WithoutColumn(table, c)
              ELSE WithColumn(table, c, run.spec.cols[c])
  /\ unaltered' = IF Drops(c) \/ (table # None /\ c \notin DOMAIN table.cols)
                  THEN unaltered \ {c} ELSE unaltered
  /\ NextStatement(c)
  /\ UNCHANGED <<wish, store, settled, leftAlone, forgotten, stranded, changes, interruptions>>

\* run_best_effort: the statement fails, for whatever reason (the database is
\* busy, the column is indexed, the version of SQLite cannot do it), and the
\* run goes on as if it had not.
AlterSkipped(c) ==
  /\ run.pc = "ddl"
  /\ run.main = "none"
  /\ c \in DOMAIN run.cols
  /\ interruptions < MaxInterruptions
  /\ interruptions' = interruptions + 1
  /\ unaltered' = unaltered \cup {c}
  /\ NextStatement(c)
  /\ UNCHANGED <<wish, table, store, settled, leftAlone, forgotten, stranded, changes>>

\* The statements went through: commit; then the rows can be declared.  Rows of
\* an earlier generation stay in a table that was handed to the user.
TableCommit ==
  /\ run.pc = "ddl"
  /\ run.main = "none" /\ run.cols = NoRows
  /\ tver' = 1
  /\ titem' = Record!Bump(Record!Retained(titem, tver), 1)
  /\ run' = [run EXCEPT !.pc = "rows"]
  /\ forgotten' = IF run.spec.by = "user"
                  THEN forgotten \cup {k[1] : k \in {k \in DOMAIN ritems : k[2] # gen.id}}
                  ELSE forgotten
  /\ UNCHANGED <<wish, table, gen, lastId, rver, ritems, settled, leftAlone, unaltered, stranded,
                 changes, interruptions>>

-----------------------------------------------------------------------------
(* The rows' run. *)

\* Entries are found under the provider id of the table's present generation.
Current(r) == <<r, gen.id>>
RowItem(r) == IF Current(r) \in DOMAIN ritems THEN ritems[Current(r)] ELSE [states |-> {}, sv |-> 0]
Desired(r) == IF r \in run.rows THEN DOMAIN run.spec.cols ELSE None

\* Mutant of Redo: the table's schema version is not looked at.
RedoIfFull(r) == run.full

\* A row of another schema version of the table may be missing.
Redo(r) == run.full \/ RowItem(r).sv # gen.ver

\* pre_commit of the rows: declared ones, and tracked ones of this generation
\* that are no longer declared.  Entries of earlier generations are passed over.
RowsPrecommit ==
  LET known == {r \in Rows : Current(r) \in DOMAIN ritems} \cup run.rows IN
  /\ run.pc = "rows"
  /\ rver' = rver + 1
  /\ ritems' = [k \in DOMAIN ritems \cup {Current(r) : r \in known} |->
       IF k[2] # gen.id THEN ritems[k]
       ELSE [states |-> Record!Reconciled(Desired(k[1]), RowItem(k[1]).states, Redo(k[1]), rver + 1),
             sv |-> RowItem(k[1]).sv]]
  /\ run' = [run EXCEPT !.pc = "dml",
       !.todo = {r \in known : Record!ReconcileActs(Desired(r), RowItem(r).states, Redo(r))}]
  /\ UNCHANGED <<wish, table, tver, titem, gen, lastId, settled, ghosts, changes, interruptions>>

\* Would the database accept the statements for the queued rows?
Accepts(t) ==
  /\ t # None
  /\ t.key = run.spec.key
  /\ run.todo \cap run.rows # {} => DOMAIN run.spec.cols \subseteq DOMAIN t.cols

\* The table the row statements meet: a system-managed one is created if need be.
RowTable == IF run.spec.by = "system" THEN Created(run.spec) ELSE table

\* apply_rows: one transaction of upserts and deletes.
ApplyRows ==
  /\ run.pc = "dml"
  /\ run.todo # {}
  /\ Accepts(RowTable)
  /\ table' = [RowTable EXCEPT !.rows =
       [r \in (DOMAIN @ \ run.todo) \cup (run.todo \cap run.rows) |->
          IF r \notin run.todo THEN @[r]
          ELSE (IF r \in DOMAIN @ THEN @[r] ELSE {}) \cup DOMAIN run.spec.cols]]
  /\ forgotten' = forgotten \ run.todo
  /\ run' = [run EXCEPT !.todo = {}]
  /\ UNCHANGED <<wish, store, settled, leftAlone, unaltered, stranded, changes, interruptions>>

\* The database refuses: the transaction is rolled back and the run fails.
RowsRefused ==
  /\ run.pc = "dml"
  /\ run.todo # {}
  /\ ~Accepts(RowTable)
  /\ interruptions < MaxInterruptions
  /\ interruptions' = interruptions + 1
  /\ table' = RowTable
  /\ run' = Idle
  /\ UNCHANGED <<wish, store, settled, ghosts, changes>>

\* Commit of the rows: entries this run did not touch go, those of earlier
\* generations with them; the others are of the table's schema version.  A row
\* is stranded until a run that did not just bump its item gets here.
RowsCommit ==
  LET kept == {k \in DOMAIN ritems : Record!Retained(ritems[k].states, rver) # {}} IN
  /\ run.pc = "dml"
  /\ run.todo = {}
  /\ rver' = 1
  /\ ritems' = [k \in kept |-> [states |-> Record!Bump(Record!Retained(ritems[k].states, rver), 1),
                                sv |-> gen.ver]]
  /\ run' = Idle
  /\ settled' = (run.spec = wish.spec /\ run.rows = wish.rows)
  /\ stranded' = {r \in stranded : \A e \in RowItem(r).states : e[1] = rver}
  /\ UNCHANGED <<wish, table, tver, titem, gen, lastId, leftAlone, unaltered, forgotten,
                 changes, interruptions>>

-----------------------------------------------------------------------------
(* The Delete runs, side by side, when the table is no longer declared. *)

\* pre_commit of the table's Delete run.
DropPrecommit ==
  LET prev == Prev(titem) IN
  /\ run.pc = "drop"
  /\ tver' = tver + 1
  /\ titem' = IF Spared(None, prev) THEN Record!Bump(titem, tver + 1)
              ELSE titem \cup {Record!Pushed(tver + 1, None)}
  /\ run' = [run EXCEPT !.pc = "dropping", !.main = MainAction(None, prev, FALSE)]
  /\ leftAlone' = (leftAlone \/ (Spared(None, prev) /\ table # None))
  /\ UNCHANGED <<wish, table, gen, lastId, rver, ritems, settled, unaltered, forgotten, stranded,
                 changes, interruptions>>

\* Its commit: the record goes, the generation with it; the next record starts
\* with the default generation again, which the rows' record may be of.
DropCommit ==
  /\ run.pc = "dropping"
  /\ run.main = "none"
  /\ tver' = 0 /\ titem' = {} /\ gen' = DefaultGen
  /\ run' = [run EXCEPT !.pc = "dropped"]
  /\ forgotten' = IF table = None THEN {} ELSE DOMAIN table.rows
  /\ stranded' = stranded \cup {k[1] : k \in DOMAIN ritems}
  /\ UNCHANGED <<wish, table, lastId, rver, ritems, settled, leftAlone, unaltered,
                 changes, interruptions>>

\* The row component's Delete run finds no provider for its rows: it deletes
\* none of them, and its record goes.
RowsDelete ==
  /\ run.pc \in {"drop", "dropping", "dropped"}
  /\ ~run.rowsGone
  /\ rver' = 0 /\ ritems' = NoRows
  /\ run' = [run EXCEPT !.rowsGone = TRUE]
  /\ forgotten' = IF table = None THEN {} ELSE DOMAIN table.rows
  /\ stranded' = {}
  /\ UNCHANGED <<wish, table, tver, titem, gen, lastId, settled, leftAlone, unaltered,
                 changes, interruptions>>

EndDrop ==
  /\ run.pc = "dropped"
  /\ run.rowsGone
  /\ run' = Idle
  /\ settled' = (wish.spec = None)
  /\ UNCHANGED <<wish, table, store, ghosts, changes, interruptions>>

\* A statement other than an ALTER TABLE or a commit fails, the update is cancelled
\* or the process dies; what was written stays.
Interrupt ==
  /\ run.pc # "idle"
  /\ interruptions < MaxInterruptions
  /\ interruptions' = interruptions + 1
  /\ run' = Idle
  /\ UNCHANGED <<wish, table, store, settled, ghosts, changes>>

Next ==
  \/ \E spec \in Specs \cup {None}, rows \in SUBSET Rows : Change(spec, rows)
  \/ UserProvides
  \/ \E full \in BOOLEAN : StartUpdate(full)
  \/ TablePrecommit \/ DropTable \/ CreateTable
  \/ \E c \in Cols : AlterColumn(c) \/ AlterSkipped(c)
  \/ TableCommit
  \/ RowsPrecommit \/ ApplyRows \/ RowsRefused \/ RowsCommit
  \/ DropPrecommit \/ DropCommit \/ RowsDelete \/ EndDrop
  \/ Interrupt

Spec == Init /\ [][Next]_vars

-----------------------------------------------------------------------------
(* Properties. *)

SameColumn(t, spec, c) ==
  /\ c \in DOMAIN t.cols <=> c \in DOMAIN spec.cols
  /\ c \in DOMAIN spec.cols => t.cols[c] = spec.cols[c]

\* The table is as the spec says, but for columns an ALTER TABLE failed for.
AlteredTo(t, spec) ==
  IF spec = None THEN t = None
  ELSE /\ t # None /\ t.key = spec.key
       /\ \A c \in Cols \ unaltered : SameColumn(t, spec, c)

\* However many runs stopped between two statements, were repeated or took a
\* change back: after an update that succeeded a table the system manages is the
\* declared one, unless the connector met a table that was there already and
\* left it as it was (execution.rs:966, statediff.rs:diff_composite).  Of its
\* columns those are excepted whose last ALTER TABLE failed without failing the
\* run (sqlite.rs:run_best_effort).
SettledTableMatches ==
  settled /\ ~leftAlone /\ (wish.spec # None => wish.spec.by = "system") =>
    AlteredTo(table, wish.spec)

\* A changed declaration is carried out in place or by creating the table anew
\* (docs/src/content/docs/programming_guide/target_state.mdx:142), and a full
\* reprocess re-applies all target states (app.mdx:65): after the table's run
\* committed, the table is the declared one, failing statements or not.
TableIsAltered ==
  run.pc \in {"rows", "dml"} /\ run.spec.by = "system" /\ (\A p \in Prev(titem) : p.by = "system") =>
    DescribedBy(table, run.spec)

\* After an update that succeeded the table holds the declared rows, every
\* column filled, and no others: rows lost to a replaced table or a dropped
\* column were written again, rows no longer declared are gone.  Excepted are
\* rows whose record outlived the table or its record, and those no run looks
\* for any more.
SettledRowsMatch ==
  settled /\ wish.spec # None =>
    /\ \A r \in wish.rows \ stranded :
         table # None /\ r \in DOMAIN table.rows /\ DOMAIN wish.spec.cols \subseteq table.rows[r]
    /\ table # None => DOMAIN table.rows \subseteq wish.rows \cup forgotten

\* The spec a run declared last, failed runs included, is user-managed.
LastDeclaredByUser ==
  \E e \in titem : /\ e[2] # None /\ e[2].by = "user"
                   /\ \A f \in titem : f[2] # None /\ f[2].by = "system" => f[1] < e[1]

\* A table last declared as the user's is neither dropped nor altered by any
\* run, whatever earlier records say.
UserTableIsLeftAlone ==
  [][LastDeclaredByUser /\ run' # run =>
       IF table = None THEN table' = None
       ELSE table' # None /\ <<table'.key, table'.cols>> = <<table.key, table.cols>>]_vars
=============================================================================
