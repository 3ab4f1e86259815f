---------------------------- MODULE Tables_proof ----------------------------
(***************************************************************************)
(* Proofs about Tables, for any specs, columns, rows and bounds: after an  *)
(* update that succeeded the table is the declared one, but for columns    *)
(* whose ALTER TABLE failed unnoticed, and holds the declared rows, and a  *)
(* table last declared as the user's is left alone.                        *)
(***************************************************************************)
EXTENDS Tables, TLAPS

Actions == {"none", "insert", "upsert", "replace", "delete"}
PCs == {"idle", "table", "ddl", "rows", "dml", "drop", "dropping", "dropped"}

Statements == UNION {[D -> Actions] : D \in SUBSET Cols}
Runs == [pc : PCs, spec : Specs \cup {None}, rows : SUBSET Rows, full : BOOLEAN,
         main : Actions, cols : Statements, todo : SUBSET Rows, rowsGone : BOOLEAN]

\* Items without versions of later runs.
Items(ver) == SUBSET ((0..ver) \X (Specs \cup {None}) \X BOOLEAN)

\* Types, as far as the table and its record go.
TypeOK ==
  /\ wish \in [spec : Specs \cup {None}, rows : SUBSET Rows]
  /\ table \in DbTables \cup {None}
  /\ tver \in Nat
  /\ titem \in Items(tver)
  /\ run \in Runs
  /\ leftAlone \in BOOLEAN
  /\ settled \in BOOLEAN

\* The system's records of the table.
Known == ManagedBySystem(Prev(titem))

TypesDiffer(p, q, c) == c \in DOMAIN p.cols /\ c \in DOMAIN q.cols /\ p.cols[c] # q.cols[c]

\* When the records agree on the key and none says that the table may be
\* missing, it is there with this key, and every column is as some record says
\* or the records differ on its type, so that any run drops it first, or an
\* ALTER TABLE failed for it.
RecordTells ==
  /\ ~leftAlone
  /\ Known # {}
  /\ None \notin Record!Possible(titem)
  /\ \A p, q \in Known : p.key = q.key
  =>
  /\ table # None
  /\ \A p \in Known : table.key = p.key
  /\ \A c \in Cols \ unaltered : \/ \E p \in Known : SameColumn(table, p, c)
                                 \/ \E p, q \in Known : TypesDiffer(p, q, c)

\* What a run is about to do to a column makes it the declared one, unless one
\* of its statements fails or failed before.
ColumnAsDeclared(c) ==
  IF c \notin DOMAIN run.cols THEN c \in unaltered \/ SameColumn(table, run.spec, c)
  ELSE CASE run.cols[c] = "replace" -> \E p \in Known : TypesDiffer(p, run.spec, c)
         [] run.cols[c] \in {"insert", "upsert"} ->
              c \in DOMAIN table.cols => c \in unaltered \/ SameColumn(table, run.spec, c)
         [] OTHER -> run.cols[c] = "delete"

\* While the statements of the table's run are under way, its spec is the
\* newest entry of the record; a user-managed table gets no statement; the
\* statements that are left make a system-managed one the declared one.
StatementsLead ==
  run.pc = "ddl" =>
    /\ run.spec # None
    /\ <<tver, run.spec, FALSE>> \in titem
    /\ \A e \in titem : e[1] = tver => e[2] = run.spec
    /\ run.main # "delete"
    /\ run.main # "none" => run.cols = NoRows
    /\ \A c \in DOMAIN run.cols : run.cols[c] = "delete" <=> c \notin DOMAIN run.spec.cols
    /\ run.main = "replace" => \E p \in Known : p.key # run.spec.key
    /\ run.spec.by = "user" => run.main = "none" /\ run.cols = NoRows
    /\ run.spec.by = "system" /\ run.main = "none" /\ ~leftAlone =>
         table # None /\ table.key = run.spec.key /\ \A c \in Cols : ColumnAsDeclared(c)

\* From the commit of the table's run on its spec is the only record.
CommittedIsDeclared ==
  run.pc \in {"rows", "dml"} =>
    /\ run.spec # None
    /\ \A e \in titem : e[2] = run.spec
    /\ run.spec.by = "system" /\ ~leftAlone => AlteredTo(table, run.spec)

\* A Delete run that drops the table found no record of the user's.
DropsLead ==
  /\ run.pc \in {"drop", "dropping", "dropped"} => run.spec = None
  /\ run.pc = "table" => run.spec # None
  /\ run.pc = "dropping" => run.main \in {"none", "delete"}
  /\ run.pc = "dropping" /\ run.main = "delete" =>
       None \in Record!Possible(titem) /\ \A p \in Prev(titem) : p.by = "system"
  /\ run.pc = "dropped" \/ (run.pc = "dropping" /\ run.main = "none") =>
       table = None \/ leftAlone

SettledInv == SettledTableMatches /\ (settled => run.pc = "idle")

IInv ==
  /\ TypeOK /\ RecordTells /\ StatementsLead /\ CommittedIsDeclared /\ DropsLead /\ SettledInv

-----------------------------------------------------------------------------
\* A bump changes the versions, not the contents.
LEMMA BumpIs ==
  ASSUME NEW ver \in Nat, NEW v \in Nat, NEW item \in Items(v)
  PROVE  /\ Record!Bump(item, ver) \in Items(ver)
         /\ Record!Possible(Record!Bump(item, ver)) = Record!Possible(item)
  <1>1. \A e \in item : /\ e[2] \in Specs \cup {None}
                        /\ <<ver, e[2], Record!Repeated(item, e[2])>> \in Record!Bump(item, ver)
    BY DEF Items, Record!Bump
  <1>2. \A f \in Record!Bump(item, ver) :
          \E e \in item : f = <<ver, e[2], Record!Repeated(item, e[2])>>
    BY DEF Record!Bump
  <1>3. \A s : Record!Repeated(item, s) \in BOOLEAN BY DEF Record!Repeated
  <1>4. Record!Bump(item, ver) \in Items(ver)
    <2> SUFFICES ASSUME NEW f \in Record!Bump(item, ver)
                 PROVE  f \in (0..ver) \X (Specs \cup {None}) \X BOOLEAN
      BY DEF Items
    <2> QED BY <1>1, <1>2, <1>3
  <1>5. \A s : s \in Record!Possible(Record!Bump(item, ver)) <=>
                 \E f \in Record!Bump(item, ver) : f[2] = s
    BY DEF Record!Possible
  <1>6. \A s : s \in Record!Possible(item) <=> \E e \in item : e[2] = s
    BY DEF Record!Possible
  <1>7. \A s : s \in Record!Possible(item) => s \in Record!Possible(Record!Bump(item, ver))
    <2> SUFFICES ASSUME NEW e \in item
                 PROVE  e[2] \in Record!Possible(Record!Bump(item, ver))
      BY <1>6
    <2> DEFINE f == <<ver, e[2], Record!Repeated(item, e[2])>>
    <2>1. f \in Record!Bump(item, ver) /\ f[2] = e[2] BY <1>1
    <2> QED BY <2>1, <1>5
  <1>8. \A s : s \in Record!Possible(Record!Bump(item, ver)) => s \in Record!Possible(item)
    BY <1>2, <1>5, <1>6
  <1> QED BY <1>4, <1>7, <1>8

LEMMA PushedIs ==
  ASSUME NEW v \in Nat, NEW item \in Items(v), NEW s \in Specs \cup {None}
  PROVE  /\ item \cup {Record!Pushed(v + 1, s)} \in Items(v + 1)
         /\ Record!Possible(item \cup {Record!Pushed(v + 1, s)}) = Record!Possible(item) \cup {s}
  <1>1. item \in Items(v + 1)
    <2> SUFFICES ASSUME NEW e \in item
                 PROVE  e \in (0..(v + 1)) \X (Specs \cup {None}) \X BOOLEAN
      BY DEF Items
    <2> QED BY DEF Items
  <1>2. Record!Pushed(v + 1, s) \in (0..(v + 1)) \X (Specs \cup {None}) \X BOOLEAN
    <2>1. v + 1 \in 0..(v + 1) OBVIOUS
    <2> QED BY <2>1 DEF Record!Pushed
  <1>3. item \cup {Record!Pushed(v + 1, s)} \in Items(v + 1)
    BY <1>1, <1>2 DEF Items
  <1>4. Record!Pushed(v + 1, s)[2] = s BY DEF Record!Pushed
  <1> QED BY <1>3, <1>4 DEF Record!Possible

LEMMA KnownIs ==
  ASSUME TypeOK
  PROVE  /\ Known = {p \in Specs : p.by = "system" /\ \E e \in titem : e[2] = p}
         /\ None \in Record!Possible(titem) <=> \E e \in titem : e[2] = None
  BY SpecsAssumption DEF Known, ManagedBySystem, Prev, Record!Possible, TypeOK, Items

LEMMA KnownIsNext ==
  ASSUME TypeOK'
  PROVE  /\ Known' = {p \in Specs : p.by = "system" /\ \E e \in titem' : e[2] = p}
         /\ None \in Record!Possible(titem)' <=> \E e \in titem' : e[2] = None
  BY SpecsAssumption DEF Known, ManagedBySystem, Prev, Record!Possible, TypeOK, Items

\* When neither the table nor its record changes, what the record tells stays.
LEMMA RecordStands ==
  ASSUME RecordTells, UNCHANGED <<table, titem, unaltered>>, leftAlone => leftAlone'
  PROVE  RecordTells' /\ Known' = Known
  BY DEF RecordTells, Known, ManagedBySystem, Prev, Record!Possible, SameColumn, TypesDiffer

LEMMA IdleType == NoRows \in Statements /\ Idle \in Runs
  <1>1. NoRows \in [{} -> Actions] BY DEF NoRows
  <1>2. NoRows \in Statements BY <1>1 DEF Statements
  <1> QED BY <1>2 DEF Idle, Runs, PCs, Actions

LEMMA InitInv == Init => IInv
  <1> SUFFICES ASSUME Init PROVE IInv OBVIOUS
  <1>1. TypeOK BY IdleType DEF Init, TypeOK, Items
  <1>2. RecordTells BY DEF Init, RecordTells, Known, ManagedBySystem, Prev, Record!Possible
  <1>3. StatementsLead /\ CommittedIsDeclared /\ DropsLead
    BY DEF Init, Idle, StatementsLead, CommittedIsDeclared, DropsLead
  <1>4. SettledInv BY DEF Init, Idle, SettledInv, SettledTableMatches, AlteredTo, DescribedBy
  <1> QED BY <1>1, <1>2, <1>3, <1>4 DEF IInv

LEMMA ChangeInv ==
  ASSUME IInv, NEW spec \in Specs \cup {None}, NEW rows \in SUBSET Rows, Change(spec, rows)
  PROVE  IInv'
  <1>1. TypeOK' BY DEF Change, store, ghosts, IInv, TypeOK
  <1>2. RecordTells' /\ Known' = Known BY RecordStands DEF Change, store, ghosts, IInv
  <1>3. StatementsLead' /\ CommittedIsDeclared' /\ DropsLead'
    BY <1>2 DEF Change, store, ghosts, IInv, StatementsLead, CommittedIsDeclared, DropsLead,
                ColumnAsDeclared, SameColumn, TypesDiffer, AlteredTo, Record!Possible, Prev
  <1>4. SettledInv' BY DEF Change, store, ghosts, SettledInv, SettledTableMatches, AlteredTo
  <1> QED BY <1>1, <1>2, <1>3, <1>4 DEF IInv

\* A table created from a spec is as the spec says.
LEMMA NewTableIs ==
  ASSUME NEW spec \in Specs
  PROVE  /\ NewTable(spec) \in DbTables /\ NewTable(spec) # None
         /\ NewTable(spec).key = spec.key /\ NewTable(spec).cols = spec.cols
  <1>1. NoRows \in [{} -> SUBSET Cols] BY DEF NoRows
  <1>2. NoRows \in UNION {[R -> SUBSET Cols] : R \in SUBSET Rows} BY <1>1
  <1>3. NewTable(spec) \in DbTables BY <1>2, SpecsAssumption DEF NewTable, DbTables
  <1> QED BY <1>3, SpecsAssumption DEF NewTable

LEMMA UserProvidesInv == ASSUME IInv, UserProvides PROVE IInv'
  <1>1. TypeOK'
    BY NewTableIs DEF UserProvides, store, ghosts, IInv, TypeOK
  <1>2. RecordTells'
    BY DEF UserProvides, store, ghosts, IInv, RecordTells, Known
  <1>3. StatementsLead' /\ CommittedIsDeclared' /\ DropsLead'
    BY DEF UserProvides, store, ghosts, IInv, StatementsLead, CommittedIsDeclared, DropsLead
  <1>4. SettledInv'
    BY DEF UserProvides, store, ghosts, IInv, SettledInv, SettledTableMatches, AlteredTo
  <1> QED BY <1>1, <1>2, <1>3, <1>4 DEF IInv

LEMMA StartUpdateInv ==
  ASSUME IInv, NEW full \in BOOLEAN, StartUpdate(full)
  PROVE  IInv'
  <1>1. TypeOK'
    <2>1. run' \in Runs BY IdleType DEF StartUpdate, IInv, TypeOK, Runs, PCs
    <2> QED BY <2>1 DEF StartUpdate, store, IInv, TypeOK
  <1>2. RecordTells' BY RecordStands DEF StartUpdate, store, IInv
  <1>3. StatementsLead' /\ CommittedIsDeclared'
    BY DEF StartUpdate, Idle, StatementsLead, CommittedIsDeclared
  <1>4. DropsLead'
    BY DEF StartUpdate, Idle, DropsLead, IInv, TypeOK
  <1>5. SettledInv'
    BY DEF StartUpdate, SettledInv, SettledTableMatches, AlteredTo
  <1> QED BY <1>1, <1>2, <1>3, <1>4, <1>5 DEF IInv

LEMMA InterruptInv == ASSUME IInv, Interrupt PROVE IInv'
  <1>1. TypeOK'
    BY IdleType DEF Interrupt, store, ghosts, IInv, TypeOK
  <1>2. RecordTells' BY RecordStands DEF Interrupt, store, ghosts, IInv
  <1>3. StatementsLead' /\ CommittedIsDeclared' /\ DropsLead'
    BY DEF Interrupt, Idle, StatementsLead, CommittedIsDeclared, DropsLead
  <1>4. SettledInv'
    BY DEF Interrupt, store, ghosts, IInv, SettledInv, SettledTableMatches, AlteredTo, Idle
  <1> QED BY <1>1, <1>2, <1>3, <1>4 DEF IInv

LEMMA EndDropInv == ASSUME IInv, EndDrop PROVE IInv'
  <1>1. TypeOK'
    BY IdleType DEF EndDrop, store, ghosts, IInv, TypeOK
  <1>2. RecordTells' BY RecordStands DEF EndDrop, store, ghosts, IInv
  <1>3. StatementsLead' /\ CommittedIsDeclared' /\ DropsLead'
    BY DEF EndDrop, Idle, StatementsLead, CommittedIsDeclared, DropsLead
  <1>4. SettledInv'
    BY DEF EndDrop, store, ghosts, IInv, SettledInv, SettledTableMatches, AlteredTo, DropsLead, AlteredTo,
           Idle
  <1> QED BY <1>1, <1>2, <1>3, <1>4 DEF IInv

LEMMA RowsDeleteInv == ASSUME IInv, RowsDelete PROVE IInv'
  <1>1. TypeOK' BY DEF RowsDelete, IInv, TypeOK, Runs
  <1>2. RecordTells' /\ Known' = Known BY RecordStands DEF RowsDelete, IInv
  <1>3. StatementsLead' /\ CommittedIsDeclared'
    BY DEF RowsDelete, IInv, TypeOK, Runs, StatementsLead, CommittedIsDeclared
  <1>4. DropsLead'
    BY DEF RowsDelete, IInv, TypeOK, Runs, DropsLead, Record!Possible, Prev
  <1>5. SettledInv'
    BY DEF RowsDelete, IInv, TypeOK, Runs, SettledInv, SettledTableMatches, AlteredTo
  <1> QED BY <1>1, <1>2, <1>3, <1>4, <1>5 DEF IInv

LEMMA RowsPrecommitInv == ASSUME IInv, RowsPrecommit PROVE IInv'
  <1>1. TypeOK'
    <2> DEFINE known == {r \in Rows : Current(r) \in DOMAIN ritems} \cup run.rows
               todo == {r \in known : Record!ReconcileActs(Desired(r), RowItem(r).states, Redo(r))}
    <2>1. run' = [run EXCEPT !.pc = "dml", !.todo = todo] BY DEF RowsPrecommit
    <2>2. todo \in SUBSET Rows BY DEF IInv, TypeOK, Runs
    <2> HIDE DEF todo
    <2>3. run' \in Runs BY <2>1, <2>2 DEF IInv, TypeOK, Runs, PCs
    <2> QED BY <2>3 DEF RowsPrecommit, ghosts, IInv, TypeOK
  <1>2. RecordTells' /\ Known' = Known BY RecordStands DEF RowsPrecommit, ghosts, IInv
  <1>3. /\ run.pc = "rows" /\ run'.pc = "dml" /\ run'.spec = run.spec
        /\ UNCHANGED <<table, titem, leftAlone, unaltered, settled, wish>>
    BY DEF RowsPrecommit, ghosts, IInv, TypeOK, Runs
  <1>4. StatementsLead' /\ CommittedIsDeclared' /\ DropsLead'
    BY <1>3 DEF IInv, StatementsLead, CommittedIsDeclared, DropsLead, AlteredTo
  <1>5. SettledInv' BY <1>3 DEF IInv, SettledInv, SettledTableMatches, AlteredTo
  <1> QED BY <1>1, <1>2, <1>4, <1>5 DEF IInv

LEMMA RowTableIs ==
  ASSUME IInv, run.pc = "dml"
  PROVE  /\ run.spec \in Specs
         /\ RowTable \in DbTables \cup {None}
         /\ table # None => RowTable = table
         /\ table = None /\ run.spec.by = "user" => RowTable = None
         /\ table = None /\ run.spec.by = "system" =>
              /\ RowTable # None
              /\ RowTable.key = run.spec.key /\ RowTable.cols = run.spec.cols
  <1>1. run.spec \in Specs BY DEF IInv, TypeOK, Runs, CommittedIsDeclared
  <1> QED BY <1>1, NewTableIs, SpecsAssumption DEF RowTable, Created, IInv, TypeOK

\* Statements for rows keep the key and the columns of the table, or create it
\* as the run's spec says, which then is the only record.
LEMMA RowsKeepTable ==
  ASSUME IInv, run.pc = "dml", UNCHANGED <<titem, leftAlone, unaltered>>,
         RowTable = None => table' = None,
         RowTable # None => /\ table' # None
                            /\ table'.key = RowTable.key /\ table'.cols = RowTable.cols
  PROVE  RecordTells' /\ Known' = Known
  <1>1. Known' = Known /\ (None \in Record!Possible(titem)' <=> None \in Record!Possible(titem))
    BY DEF Known, ManagedBySystem, Prev, Record!Possible
  <1>2. CASE table # None
    BY <1>1, <1>2, RowTableIs DEF RecordTells, IInv, SameColumn
  <1>3. CASE table = None /\ run.spec.by = "user"
    BY <1>1, <1>3, RowTableIs DEF RecordTells, IInv
  <1>4. CASE table = None /\ run.spec.by = "system"
    <2>1. \A p \in Known : p = run.spec
      BY KnownIs DEF IInv, CommittedIsDeclared
    <2>2. CASE Known = {} BY <1>1, <2>2 DEF RecordTells
    <2>3. CASE Known # {}
      BY <1>1, <1>4, <2>1, <2>3, RowTableIs DEF RecordTells, SameColumn
    <2> QED BY <2>2, <2>3
  <1> QED BY <1>2, <1>3, <1>4, RowTableIs, SpecsAssumption

LEMMA RowsApplied ==
  ASSUME IInv, ApplyRows
  PROVE  /\ run.pc = "dml" /\ RowTable # None
         /\ table'.key = RowTable.key /\ table'.cols = RowTable.cols
         /\ table' \in DbTables /\ table' # None
  <1>1. RowTable \in DbTables /\ run.spec \in Specs /\ run.todo \in SUBSET Rows
    BY RowTableIs DEF ApplyRows, Accepts, IInv, TypeOK, Runs
  <1>2. DOMAIN run.spec.cols \subseteq Cols
    BY <1>1, SpecsAssumption DEF Columns
  <1> DEFINE left == (DOMAIN RowTable.rows \ run.todo) \cup (run.todo \cap run.rows)
             rows == [r \in left |->
                        IF r \notin run.todo THEN RowTable.rows[r]
                        ELSE (IF r \in DOMAIN RowTable.rows THEN RowTable.rows[r] ELSE {})
                             \cup DOMAIN run.spec.cols]
  <1>3. rows \in [left -> SUBSET Cols] /\ left \in SUBSET Rows
    BY <1>1, <1>2 DEF DbTables
  <1>4. rows \in UNION {[R -> SUBSET Cols] : R \in SUBSET Rows} BY <1>3
  <1>5. table' = [RowTable EXCEPT !.rows = rows] BY DEF ApplyRows
  <1> QED BY <1>1, <1>4, <1>5, SpecsAssumption DEF DbTables, ApplyRows, Accepts

LEMMA ApplyRowsInv == ASSUME IInv, ApplyRows PROVE IInv'
  <1>1. /\ run.pc = "dml" /\ RowTable # None
        /\ table'.key = RowTable.key /\ table'.cols = RowTable.cols
        /\ table' \in DbTables
    BY RowsApplied
  <1>2. /\ run' \in Runs /\ run'.pc = "dml" /\ run'.spec = run.spec
        /\ UNCHANGED <<titem, tver, leftAlone, unaltered, settled, wish>>
    BY DEF ApplyRows, store, IInv, TypeOK, Runs
  <1>3. TypeOK' BY <1>1, <1>2 DEF IInv, TypeOK
  <1>4. RecordTells' BY <1>1, <1>2, RowsKeepTable, SpecsAssumption
  <1>5. StatementsLead' /\ DropsLead' BY <1>2 DEF StatementsLead, DropsLead
  <1>6. CommittedIsDeclared'
    BY <1>1, <1>2, RowTableIs, SpecsAssumption DEF IInv, CommittedIsDeclared, AlteredTo, SameColumn
  <1>7. SettledInv' BY <1>1, <1>2 DEF IInv, SettledInv, SettledTableMatches, AlteredTo
  <1> QED BY <1>3, <1>4, <1>5, <1>6, <1>7 DEF IInv

LEMMA RowsRefusedInv == ASSUME IInv, RowsRefused PROVE IInv'
  <1>1. run.pc = "dml" /\ run' = Idle /\ table' = RowTable
        /\ UNCHANGED <<titem, tver, leftAlone, unaltered, settled, wish>>
    BY DEF RowsRefused, store, ghosts
  <1>2. TypeOK' BY <1>1, IdleType, RowTableIs DEF IInv, TypeOK
  <1>3. RecordTells' BY <1>1, RowsKeepTable
  <1>4. StatementsLead' /\ DropsLead' /\ CommittedIsDeclared'
    BY <1>1 DEF Idle, StatementsLead, DropsLead, CommittedIsDeclared
  <1>5. SettledInv' BY <1>1 DEF IInv, SettledInv, SettledTableMatches, AlteredTo
  <1> QED BY <1>2, <1>3, <1>4, <1>5 DEF IInv

LEMMA RowsCommitInv == ASSUME IInv, RowsCommit PROVE IInv'
  <1>1. /\ run.pc = "dml" /\ run' = Idle /\ settled' \in BOOLEAN
        /\ settled' => run.spec = wish.spec
        /\ UNCHANGED <<table, titem, tver, leftAlone, unaltered, wish>>
    BY DEF RowsCommit
  <1>2. TypeOK' BY <1>1, IdleType DEF IInv, TypeOK
  <1>3. RecordTells' BY <1>1, RecordStands DEF IInv
  <1>4. StatementsLead' /\ DropsLead' /\ CommittedIsDeclared'
    BY <1>1 DEF Idle, StatementsLead, DropsLead, CommittedIsDeclared
  <1>5. SettledInv'
    BY <1>1 DEF IInv, SettledInv, SettledTableMatches, AlteredTo, CommittedIsDeclared, Idle
  <1> QED BY <1>2, <1>3, <1>4, <1>5 DEF IInv

-----------------------------------------------------------------------------
(* The Delete run of the table. *)

LEMMA DropPrecommitInv == ASSUME IInv, DropPrecommit PROVE IInv'
  <1> DEFINE prev == Prev(titem)
  <1>1. /\ run.pc = "drop" /\ run'.pc = "dropping" /\ run'.spec = None
        /\ run'.main = MainAction(None, prev, FALSE)
        /\ UNCHANGED <<table, settled, wish, unaltered>>
    BY DEF DropPrecommit, IInv, TypeOK, Runs, DropsLead
  <1>2. CASE Spared(None, prev)
    <2>1. run'.main = "none" BY <1>1, <1>2 DEF MainAction
    <2>2. titem' = Record!Bump(titem, tver + 1) /\ tver' = tver + 1
      BY <1>2 DEF DropPrecommit
    <2>3. /\ tver' \in Nat /\ titem' \in Items(tver')
          /\ Record!Possible(titem') = Record!Possible(titem)
      BY <2>2, BumpIs DEF IInv, TypeOK
    <2>4. Known' = Known BY <2>3 DEF Known, Prev, ManagedBySystem
    <2>5. /\ leftAlone' = (leftAlone \/ table # None) /\ run' \in Runs
      BY <1>1, <1>2, <2>1 DEF DropPrecommit, IInv, TypeOK, Runs, PCs, Actions
    <2>6. TypeOK' BY <1>1, <2>3, <2>5 DEF IInv, TypeOK
    <2>7. RecordTells' BY <1>1, <2>3, <2>4, <2>5 DEF IInv, RecordTells
    <2>8. StatementsLead' /\ CommittedIsDeclared' /\ DropsLead' /\ SettledInv'
      BY <1>1, <2>1, <2>5
      DEF IInv, StatementsLead, CommittedIsDeclared, DropsLead, SettledInv, SettledTableMatches, AlteredTo
    <2> QED BY <2>6, <2>7, <2>8 DEF IInv
  <1>3. CASE ~Spared(None, prev)
    <2>1. prev # {} /\ \A p \in prev : p \in Specs /\ p.by = "system"
      BY <1>3, SpecsAssumption DEF Spared, Prev, Record!Possible, IInv, TypeOK, Items
    <2>2. ManagedBySystem(prev) # {} BY <2>1 DEF ManagedBySystem
    <2>3. run'.main = "delete" BY <1>1, <1>3, <2>2 DEF MainAction, Diff
    <2>4. titem' = titem \cup {Record!Pushed(tver + 1, None)} /\ tver' = tver + 1
      BY <1>3 DEF DropPrecommit
    <2>5. /\ tver' \in Nat /\ titem' \in Items(tver')
          /\ Record!Possible(titem') = Record!Possible(titem) \cup {None}
      <3>1. tver \in Nat /\ titem \in Items(tver) /\ None \in Specs \cup {None}
        BY DEF IInv, TypeOK
      <3> HIDE DEF Items
      <3>2. /\ titem \cup {Record!Pushed(tver + 1, None)} \in Items(tver + 1)
            /\ Record!Possible(titem \cup {Record!Pushed(tver + 1, None)})
                 = Record!Possible(titem) \cup {None}
        BY <3>1, PushedIs
      <3> QED BY <2>4, <3>1, <3>2
    <2>6. leftAlone' = leftAlone /\ run' \in Runs
      BY <1>1, <1>3, <2>3 DEF DropPrecommit, IInv, TypeOK, Runs, PCs, Actions
    <2>7. TypeOK' BY <1>1, <2>4, <2>5, <2>6 DEF IInv, TypeOK
    <2>8. None \in Record!Possible(titem)' /\ Prev(titem)' = prev
      BY <2>5 DEF Prev
    <2>9. RecordTells' BY <2>8 DEF RecordTells
    <2>10. StatementsLead' /\ CommittedIsDeclared' /\ DropsLead' /\ SettledInv'
      BY <1>1, <2>1, <2>3, <2>8
      DEF IInv, StatementsLead, CommittedIsDeclared, DropsLead, SettledInv, SettledTableMatches, AlteredTo
    <2> QED BY <2>7, <2>9, <2>10 DEF IInv
  <1> QED BY <1>2, <1>3

LEMMA DropCommitInv == ASSUME IInv, DropCommit PROVE IInv'
  <1>1. /\ run.pc = "dropping" /\ run.main = "none" /\ run'.pc = "dropped"
        /\ run' \in Runs /\ run'.spec = run.spec /\ titem' = {} /\ tver' = 0
        /\ UNCHANGED <<table, settled, wish, leftAlone, unaltered>>
    BY DEF DropCommit, IInv, TypeOK, Runs, PCs
  <1>2. TypeOK' BY <1>1 DEF IInv, TypeOK, Items
  <1>3. RecordTells' BY <1>1, <1>2, KnownIsNext DEF RecordTells
  <1>4. StatementsLead' /\ CommittedIsDeclared' /\ DropsLead' /\ SettledInv'
    BY <1>1
    DEF IInv, StatementsLead, CommittedIsDeclared, DropsLead, SettledInv, SettledTableMatches, AlteredTo
  <1> QED BY <1>2, <1>3, <1>4 DEF IInv

-----------------------------------------------------------------------------
(* The statements of the table's run. *)

LEMMA DropTableInv == ASSUME IInv, DropTable PROVE IInv'
  <1>1. /\ run.pc \in {"ddl", "dropping"} /\ run.main \in {"replace", "delete"}
        /\ run' = [run EXCEPT !.main = IF @ = "replace" THEN "insert" ELSE "none"]
        /\ table' = None /\ leftAlone' = FALSE
        /\ UNCHANGED <<titem, tver, wish, settled>>
    BY DEF DropTable, store
  <1>2. /\ run' \in Runs /\ run'.pc = run.pc /\ run'.spec = run.spec /\ run'.cols = run.cols
    BY <1>1 DEF IInv, TypeOK, Runs, Actions
  <1>3. TypeOK' BY <1>1, <1>2 DEF IInv, TypeOK
  <1>4. Known' = Known /\ Record!Possible(titem)' = Record!Possible(titem)
    BY <1>1 DEF Known, ManagedBySystem, Prev, Record!Possible
  <1>5. CASE run.pc = "ddl"
    <2>1. /\ run.main = "replace" /\ run'.main = "insert" /\ run.spec \in Specs
          /\ run.spec.by = "system"
      BY <1>1, <1>5, SpecsAssumption DEF IInv, TypeOK, Runs, StatementsLead
    <2>2. run.spec \in Known
      BY <1>5, <2>1, KnownIs DEF IInv, StatementsLead
    <2>3. RecordTells' BY <1>4, <1>5, <2>1, <2>2 DEF IInv, RecordTells, StatementsLead
    <2>4. StatementsLead'
      BY <1>1, <1>2, <1>4, <1>5, <2>1 DEF IInv, StatementsLead
    <2>5. CommittedIsDeclared' /\ DropsLead' /\ SettledInv'
      BY <1>1, <1>2, <1>5
      DEF IInv, CommittedIsDeclared, DropsLead, SettledInv, SettledTableMatches, AlteredTo
    <2> QED BY <1>3, <2>3, <2>4, <2>5 DEF IInv
  <1>6. CASE run.pc = "dropping"
    <2>1. run.main = "delete" /\ run'.main = "none"
      BY <1>1, <1>2, <1>6 DEF IInv, TypeOK, Runs, DropsLead
    <2>2. RecordTells' BY <1>4, <1>6, <2>1 DEF IInv, RecordTells, DropsLead
    <2>3. StatementsLead' /\ CommittedIsDeclared' /\ DropsLead' /\ SettledInv'
      BY <1>1, <1>2, <1>6, <2>1
      DEF IInv, StatementsLead, CommittedIsDeclared, DropsLead, SettledInv, SettledTableMatches, AlteredTo
    <2> QED BY <1>3, <2>2, <2>3 DEF IInv
  <1> QED BY <1>1, <1>5, <1>6

LEMMA SpecIsKnown ==
  ASSUME IInv, run.pc = "ddl", run.spec.by = "system"
  PROVE  run.spec \in Specs /\ run.spec \in Known
  <1>1. run.spec \in Specs BY DEF IInv, TypeOK, Runs, StatementsLead
  <1> QED BY <1>1, KnownIs DEF IInv, StatementsLead

LEMMA CreateTableInv == ASSUME IInv, CreateTable PROVE IInv'
  <1>1. /\ run.pc = "ddl" /\ run.main \in {"insert", "upsert"} /\ table' = Created(run.spec)
        /\ leftAlone' = (leftAlone \/ ~DescribedBy(table', run.spec))
        /\ run' = [run EXCEPT !.main = "none"]
        /\ UNCHANGED <<titem, tver, wish, settled, unaltered>>
    BY DEF CreateTable, store
  <1>2. run' \in Runs /\ run' = [run EXCEPT !.main = "none"]
    BY <1>1 DEF IInv, TypeOK, Runs, Actions
  <1>3. run.spec \in Specs /\ run.spec.by = "system" /\ run.cols = NoRows
    BY <1>1, SpecsAssumption DEF IInv, TypeOK, Runs, StatementsLead
  <1>4. table' \in DbTables BY <1>1, <1>3, NewTableIs DEF Created, IInv, TypeOK
  <1>5. TypeOK' BY <1>1, <1>2, <1>4 DEF IInv, TypeOK
  <1>6. Known' = Known /\ Record!Possible(titem)' = Record!Possible(titem)
    BY <1>1 DEF Known, ManagedBySystem, Prev, Record!Possible
  <1>7. ~leftAlone' => table' # None /\ table'.key = run.spec.key /\ table'.cols = run.spec.cols
    BY <1>1, <1>3, SpecsAssumption DEF DescribedBy
  <1>8. RecordTells'
    <2>1. ~leftAlone' => \A c \in Cols : SameColumn(table', run.spec, c)
      BY <1>7 DEF SameColumn
    <2> QED BY <1>1, <1>3, <1>6, <1>7, <2>1, SpecIsKnown DEF RecordTells
  <1>9. StatementsLead'
    <2>1. \A c \in Cols : ~leftAlone' => ColumnAsDeclared(c)'
      BY <1>1, <1>2, <1>3, <1>7 DEF ColumnAsDeclared, SameColumn, NoRows, IInv, TypeOK, Runs
    <2> QED BY <1>1, <1>2, <1>3, <1>7, <2>1 DEF IInv, TypeOK, Runs, StatementsLead
  <1>10. CommittedIsDeclared' /\ DropsLead' /\ SettledInv'
    BY <1>1, <1>2 DEF IInv, TypeOK, Runs, CommittedIsDeclared, DropsLead, SettledInv,
                      SettledTableMatches, AlteredTo
  <1> QED BY <1>5, <1>8, <1>9, <1>10 DEF IInv

LEMMA WithoutColumnIs ==
  ASSUME NEW t \in DbTables, NEW c \in Cols
  PROVE  /\ WithoutColumn(t, c) \in DbTables
         /\ WithoutColumn(t, c).key = t.key
         /\ DOMAIN WithoutColumn(t, c).cols = DOMAIN t.cols \ {c}
         /\ \A d \in DOMAIN t.cols \ {c} : WithoutColumn(t, c).cols[d] = t.cols[d]
  <1> DEFINE cols == [d \in DOMAIN t.cols \ {c} |-> t.cols[d]]
             rows == [r \in DOMAIN t.rows |-> t.rows[r] \ {c}]
  <1>1. WithoutColumn(t, c) = [key |-> t.key, cols |-> cols, rows |-> rows]
    <2>1. WithoutColumn(t, c) = [t EXCEPT !.cols = cols, !.rows = rows] BY DEF WithoutColumn
    <2> HIDE DEF cols, rows
    <2> QED BY <2>1 DEF DbTables
  <1>2. PICK C \in SUBSET Cols : t.cols \in [C -> Types] BY DEF DbTables, Columns
  <1>3. PICK R \in SUBSET Rows : t.rows \in [R -> SUBSET Cols] BY DEF DbTables
  <1>4. cols \in [C \ {c} -> Types] /\ C \ {c} \in SUBSET Cols BY <1>2
  <1>5. rows \in [R -> SUBSET Cols] BY <1>3
  <1>6. cols \in Columns BY <1>4 DEF Columns
  <1>7. rows \in UNION {[S -> SUBSET Cols] : S \in SUBSET Rows} BY <1>5
  <1>8. t.key \in Keys BY DEF DbTables
  <1> QED BY <1>1, <1>6, <1>7, <1>8 DEF DbTables

LEMMA WithColumnIs ==
  ASSUME NEW t \in DbTables, NEW c \in Cols, NEW type \in Types
  PROVE  /\ WithColumn(t, c, type) \in DbTables
         /\ WithColumn(t, c, type).key = t.key
         /\ DOMAIN WithColumn(t, c, type).cols = DOMAIN t.cols \cup {c}
         /\ \A d \in DOMAIN t.cols : WithColumn(t, c, type).cols[d] = t.cols[d]
         /\ c \notin DOMAIN t.cols => WithColumn(t, c, type).cols[c] = type
  <1> DEFINE cols == [d \in DOMAIN t.cols \cup {c} |-> IF d \in DOMAIN t.cols THEN t.cols[d] ELSE type]
  <1>1. WithColumn(t, c, type) = [key |-> t.key, cols |-> cols, rows |-> t.rows]
    BY DEF WithColumn, DbTables
  <1>2. PICK C \in SUBSET Cols : t.cols \in [C -> Types] BY DEF DbTables, Columns
  <1>3. cols \in [C \cup {c} -> Types] /\ C \cup {c} \in SUBSET Cols BY <1>2
  <1>4. cols \in Columns BY <1>3 DEF Columns
  <1>5. t.key \in Keys /\ t.rows \in UNION {[R -> SUBSET Cols] : R \in SUBSET Rows}
    BY DEF DbTables
  <1> QED BY <1>1, <1>4, <1>5 DEF DbTables

\* A pending statement less, or the second half of a replace.
LEMMA StatementsType ==
  ASSUME NEW f \in Statements, NEW c
  PROVE  /\ Restrict(f, DOMAIN f \ {c}) \in Statements
         /\ [f EXCEPT ![c] = "insert"] \in Statements
         /\ DOMAIN f \subseteq Cols
  <1>1. PICK D \in SUBSET Cols : f \in [D -> Actions] BY DEF Statements
  <1>2. Restrict(f, DOMAIN f \ {c}) \in [D \ {c} -> Actions] BY <1>1 DEF Restrict
  <1>3. [f EXCEPT ![c] = "insert"] \in [D -> Actions] BY <1>1 DEF Actions
  <1> QED BY <1>1, <1>2, <1>3 DEF Statements

\* The run goes on to the next statement.
LEMMA NextStatementIs ==
  ASSUME IInv, NEW c \in Cols, run.pc = "ddl", run.main = "none", c \in DOMAIN run.cols,
         NextStatement(c)
  PROVE  /\ run.spec \in Specs /\ run.spec.by = "system"
         /\ run' \in Runs /\ run'.pc = "ddl" /\ run'.main = "none" /\ run'.spec = run.spec
         /\ run.cols[c] # "delete" => c \in DOMAIN run.spec.cols /\ run.spec.cols[c] \in Types
         /\ c \in DOMAIN run'.cols <=> run.cols[c] = "replace"
         /\ c \in DOMAIN run'.cols => run'.cols[c] = "insert"
         /\ \A d \in Cols \ {c} : /\ d \in DOMAIN run'.cols <=> d \in DOMAIN run.cols
                                  /\ d \in DOMAIN run.cols => run'.cols[d] = run.cols[d]
         /\ \A d \in DOMAIN run'.cols : /\ d \in DOMAIN run.cols
                                        /\ run'.cols[d] = "delete" <=> d \notin DOMAIN run.spec.cols
  <1> DEFINE rest == Restrict(run.cols, DOMAIN run.cols \ {c})
  <1>1. run.spec \in Specs /\ run.spec.by = "system"
    BY SpecsAssumption DEF IInv, TypeOK, Runs, StatementsLead, NoRows
  <1>2. run.cols \in Statements BY DEF IInv, TypeOK, Runs
  <1>3. run.cols[c] # "delete" => c \in DOMAIN run.spec.cols /\ run.spec.cols[c] \in Types
    BY <1>1, SpecsAssumption DEF IInv, StatementsLead, Columns
  <1>4. /\ run' \in Runs /\ run'.pc = "ddl" /\ run'.main = "none" /\ run'.spec = run.spec
        /\ run'.cols = IF run.cols[c] = "replace" THEN [run.cols EXCEPT ![c] = "insert"] ELSE rest
    BY <1>2, StatementsType DEF NextStatement, IInv, TypeOK, Runs
  <1>5. PICK D \in SUBSET Cols : run.cols \in [D -> Actions] BY <1>2 DEF Statements
  <1>6. /\ c \in DOMAIN run'.cols <=> run.cols[c] = "replace"
        /\ c \in DOMAIN run'.cols => run'.cols[c] = "insert"
        /\ \A d \in Cols \ {c} : /\ d \in DOMAIN run'.cols <=> d \in DOMAIN run.cols
                                 /\ d \in DOMAIN run.cols => run'.cols[d] = run.cols[d]
    <2>1. CASE run.cols[c] = "replace" BY <1>4, <1>5, <2>1
    <2>2. CASE run.cols[c] # "replace" BY <1>4, <1>5, <2>2 DEF Restrict
    <2> QED BY <2>1, <2>2
  <1>7. \A d \in DOMAIN run'.cols : d \in DOMAIN run.cols /\ d \in Cols
    BY <1>4, <1>5 DEF Restrict
  <1>8. \A d \in DOMAIN run'.cols : run'.cols[d] = "delete" <=> d \notin DOMAIN run.spec.cols
    BY <1>3, <1>6, <1>7 DEF IInv, StatementsLead
  <1> QED BY <1>1, <1>3, <1>4, <1>6, <1>7, <1>8

LEMMA AlterColumnInv == ASSUME IInv, NEW c \in Cols, AlterColumn(c) PROVE IInv'
  <1>1. /\ run.pc = "ddl" /\ run.main = "none" /\ c \in DOMAIN run.cols
        /\ NextStatement(c)
        /\ UNCHANGED <<titem, tver, wish, settled, leftAlone>>
    BY DEF AlterColumn, store
  <1>2. /\ run.spec \in Specs /\ run.spec.by = "system"
        /\ run' \in Runs /\ run'.pc = "ddl" /\ run'.main = "none" /\ run'.spec = run.spec
        /\ run.cols[c] # "delete" => c \in DOMAIN run.spec.cols /\ run.spec.cols[c] \in Types
        /\ c \in DOMAIN run'.cols <=> run.cols[c] = "replace"
        /\ c \in DOMAIN run'.cols => run'.cols[c] = "insert"
        /\ \A d \in Cols \ {c} : /\ d \in DOMAIN run'.cols <=> d \in DOMAIN run.cols
                                 /\ d \in DOMAIN run.cols => run'.cols[d] = run.cols[d]
        /\ \A d \in DOMAIN run'.cols : /\ d \in DOMAIN run.cols
                                       /\ run'.cols[d] = "delete" <=> d \notin DOMAIN run.spec.cols
    BY <1>1, NextStatementIs
  <1>3. run.spec \in Known BY <1>1, <1>2, SpecIsKnown
  <1>4. Known' = Known /\ Record!Possible(titem)' = Record!Possible(titem)
    BY <1>1 DEF Known, ManagedBySystem, Prev, Record!Possible
  <1>5. \A d \in Cols \ {c} : d \in unaltered' <=> d \in unaltered BY DEF AlterColumn
  <1>8. table' \in DbTables \cup {None} /\ (table = None => table' = None)
    BY <1>2, WithoutColumnIs, WithColumnIs DEF AlterColumn, Drops, IInv, TypeOK
  <1>9. TypeOK' BY <1>1, <1>2, <1>8 DEF IInv, TypeOK
  <1>12. CASE leftAlone
    <2>1. RecordTells' BY <1>1, <1>12 DEF RecordTells
    <2>2. StatementsLead' BY <1>1, <1>2, <1>4, <1>12 DEF IInv, StatementsLead
    <2> QED BY <2>1, <2>2, <1>1, <1>2, <1>9
            DEF IInv, CommittedIsDeclared, DropsLead, SettledInv, SettledTableMatches
  <1>13. CASE ~leftAlone
    <2>1. /\ table \in DbTables /\ table.key = run.spec.key /\ table # None
          /\ \A d \in Cols : ColumnAsDeclared(d)
      BY <1>1, <1>2, <1>13 DEF IInv, TypeOK, StatementsLead
    <2>2. table' = IF Drops(c) THEN WithoutColumn(table, c)
                   ELSE WithColumn(table, c, run.spec.cols[c])
      BY <2>1 DEF AlterColumn
    <2>3. /\ table' \in DbTables /\ table' # None /\ table'.key = table.key
          /\ \A d \in Cols \ {c} : SameColumn(table', table, d)
      <3>1. CASE Drops(c)
        BY <3>1, <2>1, <2>2, WithoutColumnIs, SpecsAssumption DEF SameColumn
      <3>2. CASE ~Drops(c)
        BY <3>2, <2>1, <2>2, <1>2, WithColumnIs, SpecsAssumption DEF SameColumn, Drops
      <3> QED BY <3>1, <3>2
    <2>4. Drops(c) => c \notin DOMAIN table'.cols BY <2>1, <2>2, WithoutColumnIs
    <2>5. run.cols[c] = "delete" => SameColumn(table', run.spec, c)
      BY <1>1, <2>4 DEF SameColumn, Drops, IInv, StatementsLead
    <2>6. ~Drops(c) => c \in unaltered' \/ SameColumn(table', run.spec, c)
      <3> SUFFICES ASSUME ~Drops(c), c \notin unaltered'
                   PROVE  SameColumn(table', run.spec, c)
        OBVIOUS
      <3>1. table' = WithColumn(table, c, run.spec.cols[c]) BY <2>2
      <3>2. c \in DOMAIN table.cols => c \notin unaltered BY <2>1 DEF AlterColumn
      <3>3. c \in DOMAIN table.cols => SameColumn(table, run.spec, c)
        BY <1>1, <2>1, <3>2 DEF ColumnAsDeclared, Drops
      <3> QED BY <1>2, <2>1, <3>1, <3>3, WithColumnIs DEF SameColumn, Drops
    <2>7. run.cols[c] = "replace" => \E p \in Known : TypesDiffer(p, run.spec, c)
      BY <1>1, <2>1 DEF ColumnAsDeclared
    <2>8. RecordTells'
      <3>1. ASSUME NEW d \in Cols \ {c}, NEW p \in Known, SameColumn(table, p, d)
            PROVE  SameColumn(table', p, d)
        BY <3>1, <2>3 DEF SameColumn
      <3>2. \/ c \in unaltered'
            \/ \E p \in Known : SameColumn(table', p, c)
            \/ \E p, q \in Known : TypesDiffer(p, q, c)
        BY <1>3, <2>5, <2>6, <2>7 DEF Drops
      <3>3. SUFFICES ASSUME Known # {}, None \notin Record!Possible(titem),
                            \A p, q \in Known : p.key = q.key
                     PROVE  /\ \A p \in Known : table'.key = p.key
                            /\ \A d \in Cols \ unaltered' :
                                 \/ \E p \in Known : SameColumn(table', p, d)
                                 \/ \E p, q \in Known : TypesDiffer(p, q, d)
        <4> HIDE DEF Known
        <4> QED BY <1>1, <1>4, <2>3 DEF RecordTells
      <3>4. /\ \A p \in Known : table.key = p.key
            /\ \A d \in Cols \ unaltered : \/ \E p \in Known : SameColumn(table, p, d)
                                           \/ \E p, q \in Known : TypesDiffer(p, q, d)
        BY <3>3, <1>13 DEF IInv, RecordTells
      <3>5. \A d \in Cols \ {c} : \/ d \in unaltered'
                                  \/ \E p \in Known : SameColumn(table', p, d)
                                  \/ \E p, q \in Known : TypesDiffer(p, q, d)
        BY <3>4, <3>1, <1>5
      <3> QED BY <3>4, <3>5, <2>3, <3>2
    <2>9. ASSUME NEW d \in Cols PROVE ColumnAsDeclared(d)'
      <3>1. CASE d = c /\ run.cols[c] = "replace"
        BY <3>1, <1>2, <2>4 DEF ColumnAsDeclared, Drops
      <3>2. CASE d = c /\ run.cols[c] # "replace"
        <4>1. c \in unaltered' \/ SameColumn(table', run.spec, c)
          BY <3>2, <2>5, <2>6 DEF Drops
        <4> QED BY <3>2, <4>1, <1>2 DEF ColumnAsDeclared
      <3>3. CASE d # c
        <4>1. /\ d \in DOMAIN run'.cols <=> d \in DOMAIN run.cols
              /\ d \in DOMAIN run.cols => run'.cols[d] = run.cols[d]
              /\ d \in unaltered' <=> d \in unaltered
          BY <3>3, <1>2, <1>5
        <4>2. SameColumn(table, run.spec, d) <=> SameColumn(table', run.spec, d)
          BY <3>3, <2>3 DEF SameColumn
        <4>3. d \in DOMAIN table.cols <=> d \in DOMAIN table'.cols
          BY <3>3, <2>3 DEF SameColumn
        <4> QED BY <4>1, <4>2, <4>3, <1>2, <1>4, <2>1 DEF ColumnAsDeclared
      <3> QED BY <3>1, <3>2, <3>3
    <2>10. StatementsLead'
      BY <1>1, <1>2, <1>4, <2>1, <2>3, <2>9 DEF IInv, StatementsLead
    <2> QED BY <2>8, <2>10, <1>1, <1>2, <1>9
            DEF IInv, CommittedIsDeclared, DropsLead, SettledInv, SettledTableMatches
  <1> QED BY <1>12, <1>13

LEMMA AlterSkippedInv == ASSUME IInv, NEW c \in Cols, AlterSkipped(c) PROVE IInv'
  <1>1. /\ run.pc = "ddl" /\ run.main = "none" /\ c \in DOMAIN run.cols
        /\ NextStatement(c)
        /\ unaltered' = unaltered \cup {c}
        /\ UNCHANGED <<table, titem, tver, wish, settled, leftAlone>>
    BY DEF AlterSkipped, store
  <1>2. /\ run.spec \in Specs /\ run.spec.by = "system"
        /\ run' \in Runs /\ run'.pc = "ddl" /\ run'.main = "none" /\ run'.spec = run.spec
        /\ c \in DOMAIN run'.cols => run'.cols[c] = "insert"
        /\ \A d \in Cols \ {c} : /\ d \in DOMAIN run'.cols <=> d \in DOMAIN run.cols
                                 /\ d \in DOMAIN run.cols => run'.cols[d] = run.cols[d]
        /\ \A d \in DOMAIN run'.cols : /\ d \in DOMAIN run.cols
                                       /\ run'.cols[d] = "delete" <=> d \notin DOMAIN run.spec.cols
    BY <1>1, NextStatementIs
  <1>3. TypeOK' BY <1>1, <1>2 DEF IInv, TypeOK
  <1>4. Known' = Known /\ Record!Possible(titem)' = Record!Possible(titem)
    BY <1>1 DEF Known, ManagedBySystem, Prev, Record!Possible
  <1>5. RecordTells' BY <1>1, <1>4 DEF IInv, RecordTells
  <1>6. ASSUME NEW d \in Cols, ColumnAsDeclared(d) PROVE ColumnAsDeclared(d)'
    <2>1. CASE d = c BY <1>1, <1>2, <2>1 DEF ColumnAsDeclared
    <2>2. CASE d # c BY <1>1, <1>2, <1>4, <1>6, <2>2 DEF ColumnAsDeclared
    <2> QED BY <2>1, <2>2
  <1>7. StatementsLead' BY <1>1, <1>2, <1>4, <1>6 DEF IInv, StatementsLead
  <1> QED BY <1>1, <1>2, <1>3, <1>5, <1>7
          DEF IInv, CommittedIsDeclared, DropsLead, SettledInv, SettledTableMatches

-----------------------------------------------------------------------------
(* Around the statements: pre_commit and commit of the table's run. *)

LEMMA TableCommitInv == ASSUME IInv, TableCommit PROVE IInv'
  <1> DEFINE left == Record!Retained(titem, tver)
  <1>1. /\ run.pc = "ddl" /\ run.main = "none" /\ run.cols = NoRows
        /\ titem' = Record!Bump(left, 1) /\ tver' = 1
        /\ UNCHANGED <<table, wish, settled, leftAlone, unaltered>>
    BY DEF TableCommit, ghosts
  <1>2. run' \in Runs /\ run'.pc = "rows" /\ run'.spec = run.spec
    BY DEF TableCommit, IInv, TypeOK, Runs, PCs
  <1>3. run.spec \in Specs /\ <<tver, run.spec, FALSE>> \in left
    BY <1>1, SpecsAssumption DEF IInv, TypeOK, Runs, StatementsLead, Record!Retained
  <1>4. \A e \in left : e[2] = run.spec
    BY <1>1 DEF IInv, TypeOK, Items, StatementsLead, Record!Retained
  <1>5. tver \in Nat /\ left \in Items(tver) BY DEF IInv, TypeOK, Items, Record!Retained
  <1>6. titem' \in Items(1) /\ Record!Possible(titem') = Record!Possible(left)
    BY <1>1, <1>5, BumpIs
  <1>7. Record!Possible(titem') = {run.spec} BY <1>3, <1>4, <1>6 DEF Record!Possible
  <1>8. TypeOK' BY <1>1, <1>2, <1>6 DEF IInv, TypeOK
  <1>9. run.spec.by = "system" /\ ~leftAlone =>
           /\ table # None /\ table.key = run.spec.key
           /\ \A c \in Cols \ unaltered : SameColumn(table, run.spec, c)
    BY <1>1 DEF IInv, StatementsLead, ColumnAsDeclared, NoRows
  <1>10. \A e \in titem' : e[2] = run.spec BY <1>7 DEF Record!Possible
  <1>11. RecordTells'
    <2>1. Known' = IF run.spec.by = "system" THEN {run.spec} ELSE {}
      BY <1>3, <1>7, SpecsAssumption DEF Known, ManagedBySystem, Prev
    <2> QED BY <1>1, <1>3, <1>9, <2>1, SpecsAssumption DEF RecordTells
  <1>12. CommittedIsDeclared'
    BY <1>1, <1>2, <1>3, <1>9, <1>10, SpecsAssumption DEF CommittedIsDeclared, AlteredTo, SameColumn
  <1>13. StatementsLead' /\ DropsLead' /\ SettledInv'
    BY <1>1, <1>2 DEF IInv, StatementsLead, DropsLead, SettledInv, SettledTableMatches, AlteredTo
  <1> QED BY <1>8, <1>11, <1>12, <1>13 DEF IInv

LEMMA DiffIs ==
  ASSUME NEW desired, NEW prev, NEW missing \in BOOLEAN
  PROVE  /\ Diff(desired, prev, missing) \in Actions
         /\ desired = None /\ prev = {} => Diff(desired, prev, missing) = "none"
         /\ desired = None /\ prev # {} => Diff(desired, prev, missing) = "delete"
         /\ desired # None => Diff(desired, prev, missing) # "delete"
         /\ desired # None => (Diff(desired, prev, missing) = "replace" <=> \E p \in prev : p # desired)
         /\ desired # None => (Diff(desired, prev, missing) = "none" <=>
                                 (\A p \in prev : p = desired) /\ ~missing)
  BY DEF Diff, Actions

\* Does the connector reckon with a table that may be missing?
Missing == Record!MayBeMissing(titem, run.full)

\* What MainAction and ColAction say of a declared system-managed table.
LEMMA MainActionIs ==
  ASSUME TypeOK, NEW spec \in Specs, spec.by = "system"
  PROVE  LET main == MainAction(spec, Prev(titem), Missing) IN
         /\ main \in Actions /\ main # "delete"
         /\ main = "replace" <=> \E p \in Known : p.key # spec.key
         /\ main = "none" <=> (\A p \in Known : p.key = spec.key) /\ ~Missing
  <1>1. spec # None /\ spec.key # None BY SpecsAssumption
  <1>2. Missing \in BOOLEAN BY DEF Missing, Record!MayBeMissing, TypeOK, Runs
  <1>3. MainAction(spec, Prev(titem), Missing) = Diff(spec.key, {p.key : p \in Known}, Missing)
    BY <1>1 DEF MainAction, Spared, Known
  <1>4. /\ (\E k \in {p.key : p \in Known} : k # spec.key) <=> \E p \in Known : p.key # spec.key
        /\ (\A k \in {p.key : p \in Known} : k = spec.key) <=> \A p \in Known : p.key = spec.key
    OBVIOUS
  <1> QED BY <1>1, <1>2, <1>3, <1>4, DiffIs

LEMMA ColActionIs ==
  ASSUME TypeOK, NEW spec \in Specs, spec.by = "system", NEW c \in Cols
  PROVE  LET action == ColAction(c, spec, Prev(titem), Missing)
             having == {p \in Known : c \in DOMAIN p.cols} IN
         /\ action \in Actions
         /\ c \notin DOMAIN spec.cols /\ having = {} => action = "none"
         /\ c \notin DOMAIN spec.cols /\ having # {} => action = "delete"
         /\ c \in DOMAIN spec.cols => action # "delete"
         /\ c \in DOMAIN spec.cols =>
              (action = "replace" <=> \E p \in having : p.cols[c] # spec.cols[c])
         /\ c \in DOMAIN spec.cols =>
              (action = "none" <=> /\ \A p \in having : p.cols[c] = spec.cols[c]
                                   /\ ~Missing /\ having = Known)
  <1> DEFINE having == {p \in Known : c \in DOMAIN p.cols}
             types == {p.cols[c] : p \in having}
             desired == IF c \in DOMAIN spec.cols THEN spec.cols[c] ELSE None
             missing == Missing \/ having # Known
  <1>1. c \in DOMAIN spec.cols => spec.cols[c] # None BY SpecsAssumption DEF Columns
  <1>2. missing \in BOOLEAN BY DEF Missing, Record!MayBeMissing, TypeOK, Runs
  <1>3. ColAction(c, spec, Prev(titem), Missing) = Diff(desired, types, missing)
    BY DEF ColAction, Known
  <1>4. /\ types = {} <=> having = {}
        /\ (\E k \in types : k # desired) <=> \E p \in having : p.cols[c] # desired
        /\ (\A k \in types : k = desired) <=> \A p \in having : p.cols[c] = desired
    OBVIOUS
  <1>5. desired = None <=> c \notin DOMAIN spec.cols BY <1>1
  <1> HIDE DEF types, missing
  <1>6. /\ Diff(desired, types, missing) \in Actions
        /\ desired = None /\ types = {} => Diff(desired, types, missing) = "none"
        /\ desired = None /\ types # {} => Diff(desired, types, missing) = "delete"
        /\ desired # None => Diff(desired, types, missing) # "delete"
        /\ desired # None => (Diff(desired, types, missing) = "replace" <=> \E p \in types : p # desired)
        /\ desired # None => (Diff(desired, types, missing) = "none" <=>
                                 (\A p \in types : p = desired) /\ ~missing)
    BY <1>2, DiffIs
  <1> QED BY <1>3, <1>4, <1>5, <1>6 DEF missing

LEMMA TablePrecommitInv == ASSUME IInv, TablePrecommit PROVE IInv'
  <1> DEFINE prev == Prev(titem)
             main == MainAction(run.spec, prev, Missing)
             cols == ColActions(run.spec, prev, Missing)
             fresh == IF titem = {} THEN {Record!Pushed(0, None)} ELSE titem
  <1>1. /\ run.pc = "table" /\ tver' = tver + 1
        /\ titem' = fresh \cup {Record!Pushed(tver + 1, run.spec)}
        /\ run' = [run EXCEPT !.pc = "ddl", !.main = main, !.cols = cols]
        /\ leftAlone' = \/ leftAlone
                        \/ /\ run.spec.by = "system" /\ prev # {} /\ Known = {}
                           /\ ~DescribedBy(table, run.spec)
        /\ UNCHANGED <<table, wish, settled, unaltered>>
    BY DEF TablePrecommit, Missing, Known
  <1>2. run.spec \in Specs /\ tver \in Nat
    BY <1>1, SpecsAssumption DEF IInv, TypeOK, Runs, DropsLead
  <1>3. fresh \in Items(tver)
    <2>1. 0 \in 0..tver BY <1>2
    <2>2. <<0, None, FALSE>> \in (0..tver) \X (Specs \cup {None}) \X BOOLEAN BY <2>1
    <2> QED BY <2>2 DEF IInv, TypeOK, Items, Record!Pushed
  <1>4. /\ titem = {} => Record!Possible(fresh) = {None}
        /\ titem # {} => fresh = titem
    <2>1. Record!Pushed(0, None)[2] = None BY DEF Record!Pushed
    <2> QED BY <2>1 DEF Record!Possible
  <1> HIDE DEF fresh
  <1>5. /\ titem' \in Items(tver')
        /\ Record!Possible(titem') = Record!Possible(fresh) \cup {run.spec}
    <2>1. /\ fresh \cup {Record!Pushed(tver + 1, run.spec)} \in Items(tver + 1)
          /\ Record!Possible(fresh \cup {Record!Pushed(tver + 1, run.spec)})
               = Record!Possible(fresh) \cup {run.spec}
      BY <1>2, <1>3, PushedIs
    <2> QED BY <1>1, <2>1
  <1>6. /\ <<tver', run.spec, FALSE>> \in titem'
        /\ \A e \in titem' : e[1] = tver' => e[2] = run.spec
    <2> DEFINE pushed == <<tver', run.spec, FALSE>>
    <2>1. \A e \in fresh : e[1] # tver' BY <1>1, <1>2, <1>3 DEF Items
    <2>2. titem' = fresh \cup {pushed} BY <1>1 DEF Record!Pushed
    <2>3. pushed[2] = run.spec OBVIOUS
    <2> HIDE DEF pushed
    <2>4. pushed \in titem' /\ \A e \in titem' : e[1] = tver' => e[2] = run.spec
      BY <2>1, <2>2, <2>3
    <2> QED BY <2>4 DEF pushed
  <1>7. /\ Prev(titem)' = prev \cup {run.spec}
        /\ None \in Record!Possible(titem') <=> titem = {} \/ None \in Record!Possible(titem)
    <2>1. titem = {} => Record!Possible(titem) = {} BY DEF Record!Possible
    <2> QED BY <1>2, <1>5, <1>4, <2>1, SpecsAssumption DEF Prev
  <1>8. Known' = IF run.spec.by = "system" THEN Known \cup {run.spec} ELSE Known
    BY <1>7 DEF Known, ManagedBySystem
  <1>9. \A p \in Known : p \in Specs BY KnownIs DEF IInv
  <1>10. ~Missing => titem # {} /\ None \notin Record!Possible(titem) /\ prev # {}
    BY DEF Missing, Record!MayBeMissing, Prev, Record!Possible
  \* What the reconcile asks for is well typed, whatever the spec.
  <1>11. CASE run.spec.by = "user"
    <2>1. Spared(run.spec, prev) BY <1>2, <1>11, SpecsAssumption DEF Spared
    <2>2. main = "none" BY <2>1 DEF MainAction
    <2>3. cols = NoRows BY <2>1 DEF ColActions, NoRows
    <2>4. /\ run' \in Runs /\ run'.pc = "ddl" /\ run'.spec = run.spec
          /\ run'.main = "none" /\ run'.cols = NoRows
      BY <1>1, <2>2, <2>3, IdleType DEF IInv, TypeOK, Runs, PCs, Actions
    <2>5. leftAlone' = leftAlone BY <1>1, <1>11 DEF IInv, TypeOK
    <2>6. TypeOK' BY <1>1, <1>2, <1>5, <2>4, <2>5 DEF IInv, TypeOK
    <2>7. Known' = Known BY <1>8, <1>11
    <2>8. RecordTells' BY <1>1, <1>7, <2>5, <2>7 DEF IInv, RecordTells
    <2>9. StatementsLead'
      BY <1>2, <1>6, <1>11, <2>4, SpecsAssumption DEF StatementsLead, NoRows
    <2> QED BY <1>1, <2>4, <2>6, <2>8, <2>9
            DEF IInv, CommittedIsDeclared, DropsLead, SettledInv, SettledTableMatches, AlteredTo
  <1>12. CASE run.spec.by = "system"
    <2>1. ~Spared(run.spec, prev) BY <1>2, <1>12, SpecsAssumption DEF Spared
    <2>2. /\ main \in Actions /\ main # "delete"
          /\ main = "replace" <=> \E p \in Known : p.key # run.spec.key
          /\ main = "none" <=> (\A p \in Known : p.key = run.spec.key) /\ ~Missing
      BY <1>2, <1>12, MainActionIs DEF IInv
    <2> DEFINE todo == {c \in Cols : main = "none" /\ ColAction(c, run.spec, prev, Missing) # "none"}
    <2>3. cols = [c \in todo |-> ColAction(c, run.spec, prev, Missing)]
      BY <2>1 DEF ColActions
    <2>4. \A c \in Cols : ColAction(c, run.spec, prev, Missing) \in Actions
      BY <1>2, <1>12, ColActionIs DEF IInv
    <2>5. cols \in [todo -> Actions] BY <2>3, <2>4
    <2>6. cols \in Statements BY <2>5 DEF Statements
    <2>7. main # "none" => cols = NoRows BY <2>3 DEF NoRows
    <2>8. /\ run' \in Runs /\ run'.pc = "ddl" /\ run'.spec = run.spec
          /\ run'.main = main /\ run'.cols = cols
      BY <1>1, <2>2, <2>6 DEF IInv, TypeOK, Runs, PCs
    <2>9. leftAlone' \in BOOLEAN BY <1>1 DEF IInv, TypeOK
    <2>10. TypeOK' BY <1>1, <1>2, <1>5, <2>8, <2>9 DEF IInv, TypeOK
    <2> HIDE DEF main, cols
    <2>11. \A c \in todo : cols[c] = "delete" <=> c \notin DOMAIN run.spec.cols
      <3> SUFFICES ASSUME NEW c \in todo PROVE cols[c] = "delete" <=> c \notin DOMAIN run.spec.cols
        OBVIOUS
      <3>1. cols[c] = ColAction(c, run.spec, prev, Missing) /\ cols[c] # "none" BY <2>3
      <3> QED BY <3>1, <1>2, <1>12, ColActionIs DEF IInv
    \* The table as it is when nobody left a foreign one in place.
    <2>12. ASSUME ~leftAlone', ~Missing, \A p \in Known : p.key = run.spec.key
           PROVE  /\ table # None /\ table.key = run.spec.key
                  /\ Known = {} => table.cols = run.spec.cols
                  /\ Known # {} =>
                       \A c \in Cols \ unaltered : \/ \E p \in Known : SameColumn(table, p, c)
                                                   \/ \E p, q \in Known : TypesDiffer(p, q, c)
      <3>1. CASE Known = {}
        BY <3>1, <2>12, <1>1, <1>2, <1>10, <1>12, SpecsAssumption DEF DescribedBy
      <3>2. CASE Known # {}
        BY <3>2, <2>12, <1>1, <1>10 DEF IInv, RecordTells
      <3> QED BY <3>1, <3>2
    <2>13. RecordTells'
      <3> SUFFICES ASSUME ~leftAlone', None \notin Record!Possible(titem'),
                          \A p, q \in Known' : p.key = q.key
                   PROVE  /\ table # None
                          /\ \A p \in Known' : table.key = p.key
                          /\ \A c \in Cols \ unaltered : \/ \E p \in Known' : SameColumn(table, p, c)
                                                         \/ \E p, q \in Known' : TypesDiffer(p, q, c)
        BY <1>1 DEF RecordTells
      <3>1. /\ run.spec \in Known' /\ \A p \in Known : p \in Known'
            /\ \A p \in Known' : p \in Known \/ p = run.spec
        BY <1>8, <1>12
      <3>2. titem # {} /\ None \notin Record!Possible(titem) BY <1>7
      <3>3. prev # {} BY <3>2, <1>4, <1>7 DEF Prev, Record!Possible
      <3>4. CASE Known = {}
        <4>1. DescribedBy(table, run.spec) BY <3>3, <3>4, <1>1, <1>12
        <4>2. /\ table # None /\ table.key = run.spec.key /\ table.cols = run.spec.cols
          BY <4>1, <1>2, SpecsAssumption DEF DescribedBy
        <4>3. \A c \in Cols : SameColumn(table, run.spec, c) BY <4>2 DEF SameColumn
        <4> QED BY <3>1, <3>4, <4>2, <4>3
      <3>5. CASE Known # {}
        <4>1. \A p, q \in Known : p.key = q.key BY <3>1
        <4>2. /\ table # None /\ \A p \in Known : table.key = p.key
              /\ \A c \in Cols \ unaltered : \/ \E p \in Known : SameColumn(table, p, c)
                                             \/ \E p, q \in Known : TypesDiffer(p, q, c)
          BY <3>2, <3>5, <4>1, <1>1 DEF IInv, RecordTells
        <4>3. \A p \in Known' : table.key = p.key BY <3>1, <3>5, <4>2
        <4> QED BY <3>1, <4>2, <4>3
      <3> QED BY <3>4, <3>5
    <2>14. ASSUME ~leftAlone', main = "none", NEW c \in Cols PROVE ColumnAsDeclared(c)'
      <3> DEFINE having == {p \in Known : c \in DOMAIN p.cols}
                 action == ColAction(c, run.spec, prev, Missing)
      <3>1. ~Missing /\ \A p \in Known : p.key = run.spec.key BY <2>2, <2>14
      <3>2. /\ table # None
            /\ Known = {} => table.cols = run.spec.cols
            /\ Known # {} => \/ c \in unaltered
                             \/ \E p \in Known : SameColumn(table, p, c)
                             \/ \E p, q \in Known : TypesDiffer(p, q, c)
        BY <2>12, <2>14, <3>1
      <3>3. /\ action \in Actions
            /\ c \notin DOMAIN run.spec.cols /\ having = {} => action = "none"
            /\ c \notin DOMAIN run.spec.cols /\ having # {} => action = "delete"
            /\ c \in DOMAIN run.spec.cols => action # "delete"
            /\ c \in DOMAIN run.spec.cols =>
                 (action = "replace" <=> \E p \in having : p.cols[c] # run.spec.cols[c])
            /\ c \in DOMAIN run.spec.cols =>
                 (action = "none" <=> /\ \A p \in having : p.cols[c] = run.spec.cols[c]
                                      /\ ~Missing /\ having = Known)
        BY <1>2, <1>12, ColActionIs DEF IInv
      <3>4. /\ c \in DOMAIN run'.cols <=> action # "none"
            /\ action # "none" => run'.cols[c] = action
        BY <2>3, <2>8, <2>14
      <3> HIDE DEF action
      <3>5. CASE action = "none"
        <4>1. c \in unaltered \/ SameColumn(table, run.spec, c)
          <5>1. Known = {} => SameColumn(table, run.spec, c) BY <3>2 DEF SameColumn
          <5>2. ASSUME c \notin unaltered, c \notin DOMAIN run.spec.cols, Known # {}
                PROVE  SameColumn(table, run.spec, c)
            BY <5>2, <3>2, <3>3, <3>5 DEF SameColumn, TypesDiffer
          <5>3. ASSUME c \notin unaltered, c \in DOMAIN run.spec.cols, Known # {}
                PROVE  SameColumn(table, run.spec, c)
            BY <5>3, <3>2, <3>3, <3>5 DEF SameColumn, TypesDiffer
          <5> QED BY <5>1, <5>2, <5>3
        <4> QED BY <4>1, <3>4, <3>5, <1>1, <2>8 DEF ColumnAsDeclared
      <3>6. CASE action = "replace"
        <4>1. \E p \in Known : TypesDiffer(p, run.spec, c)
          BY <3>3, <3>6 DEF TypesDiffer
        <4> QED BY <4>1, <3>4, <3>6, <1>8, <1>12, <2>8 DEF ColumnAsDeclared
      <3>7. CASE action \in {"insert", "upsert"}
        <4>1. c \in DOMAIN run.spec.cols /\ \A p \in having : p.cols[c] = run.spec.cols[c]
          BY <3>3, <3>7
        <4>2. c \in DOMAIN table.cols => c \in unaltered \/ SameColumn(table, run.spec, c)
          BY <4>1, <3>2 DEF SameColumn, TypesDiffer
        <4> QED BY <4>2, <3>4, <3>7, <1>1, <2>8 DEF ColumnAsDeclared
      <3>8. CASE action = "delete"
        BY <3>4, <3>8 DEF ColumnAsDeclared
      <3> QED BY <3>3, <3>5, <3>6, <3>7, <3>8 DEF Actions
    <2>15. StatementsLead'
      <3>1. run'.main = "replace" => \E p \in Known' : p.key # run'.spec.key
        BY <1>8, <2>2, <2>8
      <3>2. ~leftAlone' /\ main = "none" => table # None /\ table.key = run.spec.key
        BY <2>2, <2>12
      <3>3. \A c \in DOMAIN run'.cols : run'.cols[c] = "delete" <=> c \notin DOMAIN run'.spec.cols
        BY <2>5, <2>8, <2>11
      <3> QED BY <1>1, <1>2, <1>6, <1>12, <2>2, <2>7, <2>8, <2>14, <3>1, <3>2, <3>3, SpecsAssumption
              DEF StatementsLead
    <2> QED BY <1>1, <2>8, <2>10, <2>13, <2>15
            DEF IInv, CommittedIsDeclared, DropsLead, SettledInv, SettledTableMatches, AlteredTo
  <1> QED BY <1>2, <1>11, <1>12, SpecsAssumption

-----------------------------------------------------------------------------
(* Results. *)

LEMMA NextInv == ASSUME IInv, [Next]_vars PROVE IInv'
  <1>1. CASE Next
    <2>1. ASSUME NEW spec \in Specs \cup {None}, NEW rows \in SUBSET Rows, Change(spec, rows)
          PROVE  IInv'
      BY <2>1, ChangeInv
    <2>2. ASSUME NEW full \in BOOLEAN, StartUpdate(full) PROVE IInv'
      BY <2>2, StartUpdateInv
    <2>3. ASSUME NEW c \in Cols, AlterColumn(c) \/ AlterSkipped(c) PROVE IInv'
      BY <2>3, AlterColumnInv, AlterSkippedInv
    <2> QED BY <1>1, <2>1, <2>2, <2>3, UserProvidesInv, TablePrecommitInv, DropTableInv,
               CreateTableInv, TableCommitInv, RowsPrecommitInv, ApplyRowsInv, RowsRefusedInv,
               RowsCommitInv, DropPrecommitInv, DropCommitInv, RowsDeleteInv, EndDropInv,
               InterruptInv DEF Next
  <1>2. CASE UNCHANGED vars
    <2>1. TypeOK' BY <1>2 DEF vars, store, ghosts, IInv, TypeOK
    <2>2. RecordTells' /\ Known' = Known BY <1>2, RecordStands DEF vars, store, ghosts, IInv
    <2>3. StatementsLead' /\ CommittedIsDeclared' /\ DropsLead' /\ SettledInv'
      BY <1>2, <2>2 DEF vars, store, ghosts, IInv, StatementsLead, CommittedIsDeclared, DropsLead,
                        SettledInv, SettledTableMatches, AlteredTo, ColumnAsDeclared, SameColumn, TypesDiffer,
                        Record!Possible, Prev
    <2> QED BY <2>1, <2>2, <2>3 DEF IInv
  <1> QED BY <1>1, <1>2

\* The inductive invariant of Tables: what the record, the statements under way
\* and the table have to do with one another, whichever statements failed, with
\* or without failing their run
\* (rust/core/src/engine/execution.rs:pre_commit, statediff.rs:diff_composite,
\* sqlite.rs:run_best_effort).
THEOREM Invariant == Spec => []IInv
  BY InitInv, NextInv, PTL DEF Spec

\* However many runs stopped between two statements: after an update that
\* succeeded a table the system manages is the declared one, unless one that was
\* there was left in place, and but for the columns whose last ALTER TABLE failed
\* without failing its run (sqlite.rs:TableHandler::reconcile, run_best_effort).
THEOREM TableMatches == Spec => []SettledTableMatches
  <1>1. IInv => SettledTableMatches BY DEF IInv, SettledInv
  <1> QED BY <1>1, Invariant, PTL

\* A table last declared as the user's is neither dropped nor altered by any
\* run, whatever earlier records say (statediff.rs:resolve_system_transition).
THEOREM UserTableStands == Spec => UserTableIsLeftAlone
  <1> DEFINE Kept == IF table = None THEN table' = None
                     ELSE table' # None /\ <<table'.key, table'.cols>> = <<table.key, table.cols>>
  <1>1. ASSUME IInv, [Next]_vars, LastDeclaredByUser, run' # run PROVE Kept
    <2>1. ASSUME run.pc = "ddl" PROVE run.main = "none" /\ run.cols = NoRows
      <3>1. run.spec \in Specs BY <1>1, <2>1 DEF IInv, TypeOK, Runs, StatementsLead
      <3>2. run.spec.by # "system"
        <4>1. PICK e \in titem : \A f \in titem : f[2] # None /\ f[2].by = "system" => f[1] < e[1]
          BY <1>1 DEF LastDeclaredByUser
        <4>2. e[1] <= tver /\ e[1] \in Nat /\ tver \in Nat BY <1>1 DEF IInv, TypeOK, Items
        <4>3. <<tver, run.spec, FALSE>> \in titem /\ run.spec # None
          BY <1>1, <2>1 DEF IInv, StatementsLead
        <4> QED BY <4>1, <4>2, <4>3
      <3> QED BY <1>1, <2>1, <3>1, <3>2, SpecsAssumption DEF IInv, StatementsLead
    <2>2. ASSUME run.pc = "dropping" PROVE run.main = "none"
      BY <1>1, <2>2 DEF IInv, DropsLead, LastDeclaredByUser, Prev, Record!Possible
    <2>3. ASSUME run.pc = "dml" PROVE run.spec.by = "user" /\ RowTable = table
      BY <1>1, <2>3, SpecsAssumption
      DEF IInv, CommittedIsDeclared, LastDeclaredByUser, RowTable
    <2>4. ~DropTable /\ ~CreateTable BY <2>1, <2>2 DEF DropTable, CreateTable
    <2>5. ASSUME NEW c \in Cols, AlterColumn(c) \/ AlterSkipped(c) PROVE FALSE
      BY <2>1, <2>5 DEF AlterColumn, AlterSkipped, NoRows
    <2>6. CASE ApplyRows
      <3>1. run.pc = "dml" /\ table' # None /\ RowTable # None
            /\ table'.key = RowTable.key /\ table'.cols = RowTable.cols
        BY <1>1, <2>6, RowsApplied
      <3> QED BY <2>3, <3>1
    <2>7. CASE RowsRefused BY <2>3, <2>7 DEF RowsRefused
    <2>8. CASE UserProvides BY <1>1, <2>8 DEF UserProvides, store
    <2>9. CASE UNCHANGED vars BY <1>1, <2>9 DEF vars
    <2>10. CASE UNCHANGED table BY <2>10
    <2>11. ASSUME Next PROVE \/ UNCHANGED table \/ UserProvides \/ DropTable \/ CreateTable
                            \/ ApplyRows \/ RowsRefused
      <3>1. ASSUME NEW spec, NEW rows, Change(spec, rows) PROVE UNCHANGED table BY <3>1 DEF Change
      <3>2. ASSUME NEW again, StartUpdate(again) PROVE UNCHANGED table BY <3>2 DEF StartUpdate
      <3>3. TablePrecommit \/ TableCommit \/ RowsPrecommit \/ RowsCommit => UNCHANGED table
        BY DEF TablePrecommit, TableCommit, RowsPrecommit, RowsCommit
      <3>4. DropPrecommit \/ DropCommit \/ RowsDelete \/ EndDrop \/ Interrupt => UNCHANGED table
        BY DEF DropPrecommit, DropCommit, RowsDelete, EndDrop, Interrupt
      <3> QED BY <2>5, <2>11, <3>1, <3>2, <3>3, <3>4, Zenon DEF Next
    <2> QED BY <1>1, <2>4, <2>6, <2>7, <2>8, <2>9, <2>10, <2>11
  <1>2. IInv /\ [Next]_vars => [LastDeclaredByUser /\ run' # run => Kept]_vars BY <1>1
  <1> QED BY <1>2, Invariant, PTL DEF Spec, UserTableIsLeftAlone

-----------------------------------------------------------------------------
(* The rows. *)

RowItems(ver) == SUBSET ((0..ver) \X ((SUBSET Cols) \cup {None}) \X BOOLEAN)

\* The rows' record is of provider ids that were reserved.
RowTypes ==
  /\ gen \in [id : Nat, ver : Nat] /\ lastId \in Nat /\ rver \in Nat
  /\ gen.id <= lastId
  /\ \A k \in DOMAIN ritems : /\ k \in Rows \X (0..lastId)
                              /\ ritems[k] \in [states : RowItems(rver), sv : Nat]

InTable(r) == table # None /\ r \in DOMAIN table.rows
Held(r, cs) == InTable(r) /\ cs \subseteq table.rows[r]

\* Every entry says the same of the row.
AllAre(states, cs) == states # {} /\ \A e \in states : e[2] = cs

\* Items of the table's present generation, and those of them that are to be believed.
Present == {k \in DOMAIN ritems : k[2] = gen.id}
Trusted == {k \in Present : k[1] \notin stranded /\ \A e \in ritems[k].states : e[2] # None}

\* An item of the present schema version whose entries agree tells what the row
\* holds.
ItemTells(k) ==
  /\ ritems[k].sv <= gen.ver
  /\ ritems[k].sv = gen.ver => \A cs \in SUBSET Cols : AllAre(ritems[k].states, cs) => Held(k[1], cs)

ItemsTell == \A k \in Trusted : ItemTells(k)

\* Some records of the table differ in the key: any run of the system's drops it.
KeysDiffer == \E p, q \in Known : p.key # q.key

\* Rows that are to lose something are marked before they do: under a replaced
\* table there is no item yet, under an altered one they are of an earlier
\* schema version.
LossIsMarked ==
  run.pc = "ddl" =>
    /\ run.main = "replace" => Present = {}
    /\ (\E c \in DOMAIN run.cols : run.cols[c] \in {"delete", "replace"}) =>
         \A k \in Trusted : ritems[k].sv < gen.ver
    /\ run.main # "replace" /\ run.spec.by = "system" /\ KeysDiffer => \A r \in Rows : ~InTable(r)

\* A row of the table has an item, of the present generation unless the table
\* is about to be dropped.
TrackedRow(r) == \E k \in DOMAIN ritems : k[1] = r /\ (k[2] = gen.id \/ KeysDiffer)
RowsTracked == \A r \in Rows \ forgotten : InTable(r) => TrackedRow(r)

\* Between pre_commit and commit of the rows' run: what it does not have to
\* write any more is as declared.
RowLeads(r) ==
  LET states == ritems[Current(r)].states IN
  /\ \E e \in states : e[1] = rver
  /\ \A e \in states : e[1] = rver => e[2] = Desired(r)
  /\ r \in run.rows \ run.todo => \/ Held(r, DOMAIN run.spec.cols)
                                  \/ r \in stranded /\ \A e \in states : e[1] = rver
  /\ r \notin run.rows \cup run.todo => ~InTable(r)

RowsLead ==
  run.pc = "dml" =>
    /\ \A r \in run.todo \cup run.rows : Current(r) \in DOMAIN ritems
    /\ \A k \in DOMAIN ritems : k[2] # gen.id => \A e \in ritems[k].states : e[1] < rver
    /\ \A r \in Rows : Current(r) \in DOMAIN ritems => RowLeads(r)

RInv ==
  /\ RowTypes /\ ItemsTell /\ LossIsMarked /\ RowsTracked /\ RowsLead /\ SettledRowsMatch

RowsInv == IInv /\ RInv

\* Items of rows are of contents, and none of them is None.
LEMMA DeclaredCols ==
  ASSUME NEW spec \in Specs
  PROVE  DOMAIN spec.cols \in SUBSET Cols /\ DOMAIN spec.cols # None
  <1>1. DOMAIN spec.cols \in SUBSET Cols BY SpecsAssumption DEF Columns
  <1> QED BY <1>1, SpecsAssumption

\* An item that says the same as another one, all of it of one version.
SaysTheSame(new, states, ver) ==
  /\ new \in RowItems(ver)
  /\ \A e \in states : \E f \in new : f[2] = e[2]
  /\ \A f \in new : f[1] = ver /\ \E e \in states : f[2] = e[2]

LEMMA RowBumpIs ==
  ASSUME NEW ver \in Nat, NEW v \in Nat, NEW states \in RowItems(v)
  PROVE  SaysTheSame(Record!Bump(states, ver), states, ver)
  <1>1. \A e \in states : /\ e[2] \in (SUBSET Cols) \cup {None}
                          /\ <<ver, e[2], Record!Repeated(states, e[2])>> \in Record!Bump(states, ver)
    BY DEF RowItems, Record!Bump
  <1>2. \A f \in Record!Bump(states, ver) :
          \E e \in states : f = <<ver, e[2], Record!Repeated(states, e[2])>>
    BY DEF Record!Bump
  <1>3. \A s : Record!Repeated(states, s) \in BOOLEAN BY DEF Record!Repeated
  <1>4. Record!Bump(states, ver) \in RowItems(ver)
    <2> SUFFICES ASSUME NEW f \in Record!Bump(states, ver)
                 PROVE  f \in (0..ver) \X ((SUBSET Cols) \cup {None}) \X BOOLEAN
      BY DEF RowItems
    <2> QED BY <1>1, <1>2, <1>3
  <1>5. \A e \in states : \E f \in Record!Bump(states, ver) : f[2] = e[2]
    <2> SUFFICES ASSUME NEW e \in states PROVE \E f \in Record!Bump(states, ver) : f[2] = e[2]
      OBVIOUS
    <2> DEFINE f == <<ver, e[2], Record!Repeated(states, e[2])>>
    <2>1. f \in Record!Bump(states, ver) /\ f[2] = e[2] BY <1>1
    <2> QED BY <2>1
  <1>6. \A f \in Record!Bump(states, ver) : f[1] = ver /\ \E e \in states : f[2] = e[2]
    BY <1>2
  <1> QED BY <1>4, <1>5, <1>6 DEF SaysTheSame

\* What pre_commit makes of an item: its newest entries say what is desired, no
\* certainty is added, and an item it does not act upon agrees with what is desired.
Reconciles(new, acts, states, desired, full, ver) ==
  /\ new \in RowItems(ver)
  /\ \E e \in new : e[1] = ver
  /\ \A e \in new : e[1] = ver => e[2] = desired
  /\ ~acts => /\ ~full /\ desired # None /\ AllAre(states, desired)
              /\ \A e \in new : e[1] = ver
  /\ (\A e \in new : e[2] # None) =>
       /\ states # {} /\ \A e \in states : e[2] # None
       /\ \A cs : AllAre(new, cs) => AllAre(states, cs)

LEMMA ReconciledIs ==
  ASSUME NEW v \in Nat, NEW w \in Nat, v < w, NEW states \in RowItems(v),
         NEW desired \in (SUBSET Cols) \cup {None}, NEW full \in BOOLEAN
  PROVE  Reconciles(Record!Reconciled(desired, states, full, w),
                    Record!ReconcileActs(desired, states, full), states, desired, full, w)
  <1> DEFINE new == Record!Reconciled(desired, states, full, w)
             acts == Record!ReconcileActs(desired, states, full)
             pushed == <<w, desired, FALSE>>
             Goal == /\ new \in RowItems(w)
                     /\ \E e \in new : e[1] = w
                     /\ \A e \in new : e[1] = w => e[2] = desired
                     /\ ~acts => /\ ~full /\ desired # None /\ AllAre(states, desired)
                                 /\ \A e \in new : e[1] = w
                     /\ (\A e \in new : e[2] # None) =>
                          /\ states # {} /\ \A e \in states : e[2] # None
                          /\ \A cs : AllAre(new, cs) => AllAre(states, cs)
  <1> SUFFICES Goal BY DEF Reconciles
  <1>1. /\ pushed \in (0..w) \X ((SUBSET Cols) \cup {None}) \X BOOLEAN
        /\ pushed[1] = w /\ pushed[2] = desired
    <2>1. w \in 0..w OBVIOUS
    <2> QED BY <2>1
  <1>2. \A e \in states : /\ e[1] # w
                          /\ e \in (0..w) \X ((SUBSET Cols) \cup {None}) \X BOOLEAN
    <2> SUFFICES ASSUME NEW e \in states
                 PROVE  /\ e[1] # w
                        /\ e \in (0..w) \X ((SUBSET Cols) \cup {None}) \X BOOLEAN
      OBVIOUS
    <2> QED BY DEF RowItems
  <1>3. CASE ~acts
    <2>1. /\ states # {} /\ ~full /\ \A e \in states : e[2] # None /\ e[2] = desired
      BY <1>3 DEF Record!ReconcileActs, Record!MayBeMissing, Record!Possible
    <2>2. new = Record!Bump(states, w) BY <1>3 DEF Record!Reconciled
    <2>3. /\ new \in RowItems(w)
          /\ \A e \in states : \E f \in new : f[2] = e[2]
          /\ \A f \in new : f[1] = w /\ \E e \in states : f[2] = e[2]
      <3>1. SaysTheSame(Record!Bump(states, w), states, w) BY RowBumpIs
      <3> HIDE DEF new
      <3> QED BY <2>2, <3>1 DEF SaysTheSame
    <2> HIDE DEF new
    <2>4. \A cs : AllAre(new, cs) => AllAre(states, cs) BY <2>1, <2>3 DEF AllAre
    <2> QED BY <1>3, <2>1, <2>3, <2>4 DEF AllAre
  <1>4. CASE acts /\ states = {}
    <2>1. new = {<<0, None, FALSE>>, pushed} BY <1>4 DEF Record!Reconciled, Record!Pushed
    <2>2. /\ <<0, None, FALSE>> \in (0..w) \X ((SUBSET Cols) \cup {None}) \X BOOLEAN
          /\ <<0, None, FALSE>>[1] = 0 /\ <<0, None, FALSE>>[2] = None
      <3>1. 0 \in 0..w OBVIOUS
      <3>2. <<0, None, FALSE>> \in (0..w) \X ((SUBSET Cols) \cup {None}) \X BOOLEAN
        BY <3>1
      <3> QED BY <3>2
    <2>3. new \in RowItems(w) BY <1>1, <2>1, <2>2 DEF RowItems
    <2>4. 0 # w OBVIOUS
    <2> HIDE DEF new, pushed
    <2> QED BY <1>1, <1>4, <2>1, <2>2, <2>3, <2>4
  <1>5. CASE acts /\ states # {}
    <2>1. new = states \cup {pushed} BY <1>5 DEF Record!Reconciled, Record!Pushed
    <2>2. new \in RowItems(w) BY <1>1, <1>2, <2>1 DEF RowItems
    <2> HIDE DEF new, pushed
    <2> QED BY <1>1, <1>2, <1>5, <2>1, <2>2 DEF AllAre
  <1> QED BY <1>3, <1>4, <1>5

\* What a commit makes of an item whose newest entries say what is desired.
LEMMA CommittedIs ==
  ASSUME NEW v \in Nat, NEW states \in RowItems(v), NEW desired \in (SUBSET Cols) \cup {None},
         \E e \in states : e[1] = v, \A e \in states : e[1] = v => e[2] = desired
  PROVE  LET new == Record!Bump(Record!Retained(states, v), 1) IN
         /\ Record!Retained(states, v) # {} <=> desired # None
         /\ new \in RowItems(1)
         /\ desired # None => AllAre(new, desired)
  <1>1. Record!Retained(states, v) = {e \in states : e[1] = v /\ e[2] # None}
    BY DEF Record!Retained, RowItems
  <1>2. Record!Retained(states, v) \in RowItems(v) BY <1>1 DEF RowItems
  <1>3. SaysTheSame(Record!Bump(Record!Retained(states, v), 1), Record!Retained(states, v), 1)
    <2>1. PICK w \in Nat : w = 1 OBVIOUS
    <2>2. SaysTheSame(Record!Bump(Record!Retained(states, v), w), Record!Retained(states, v), w)
      BY <1>2, RowBumpIs
    <2> QED BY <2>1, <2>2
  <1>4. Record!Retained(states, v) # {} <=> desired # None
    <2>1. PICK e \in states : e[1] = v OBVIOUS
    <2> QED BY <1>1, <2>1
  <1>5. \A e \in Record!Retained(states, v) : e[2] = desired BY <1>1
  <1> DEFINE kept == Record!Retained(states, v)
             new == Record!Bump(kept, 1)
  <1> HIDE DEF kept, new
  <1>6. /\ \A e \in kept : \E f \in new : f[2] = e[2]
        /\ \A f \in new : \E e \in kept : f[2] = e[2]
        /\ new \in RowItems(1) /\ (kept # {} <=> desired # None) /\ \A e \in kept : e[2] = desired
    BY <1>3, <1>4, <1>5 DEF kept, new, SaysTheSame
  <1>7. desired # None => AllAre(new, desired) BY <1>6 DEF AllAre
  <1> QED BY <1>6, <1>7 DEF kept, new

\* A table is as it was, or created.
TableStands ==
  table' = table \/ (table = None /\ table' # None /\ table'.rows = NoRows)

LEMMA HeldStands ==
  ASSUME TableStands
  PROVE  /\ \A r : InTable(r)' <=> InTable(r)
         /\ \A r, cs : Held(r, cs)' <=> Held(r, cs)
  <1>1. CASE table' = table BY <1>1 DEF InTable, Held
  <1>2. CASE table = None /\ table' # None /\ table'.rows = NoRows
    <2>1. \A r : ~InTable(r) BY <1>2 DEF InTable
    <2>2. \A r : ~InTable(r)' BY <1>2 DEF InTable, NoRows
    <2> QED BY <2>1, <2>2 DEF Held
  <1> QED BY <1>1, <1>2 DEF TableStands

\* What items tell stays true while no row loses anything.
LEMMA ItemsStand ==
  ASSUME RowTypes, ItemsTell, UNCHANGED <<gen, lastId, rver, ritems>>,
         \A r \in stranded : r \in stranded',
         \A r \in Rows, cs \in SUBSET Cols : Held(r, cs) => Held(r, cs)'
  PROVE  RowTypes' /\ ItemsTell'
  <1>1. RowTypes' BY DEF RowTypes
  <1>2. ASSUME NEW k \in Trusted' PROVE ItemTells(k)'
    <2>1. k \in Trusted BY <1>2 DEF Trusted, Present
    <2>2. ItemTells(k) /\ k[1] \in Rows BY <2>1 DEF ItemsTell, RowTypes, Trusted, Present
    <2> QED BY <2>2 DEF ItemTells
  <1> QED BY <1>1, <1>2 DEF ItemsTell

\* Rows stay tracked while records are only added.
LEMMA TrackedStands ==
  ASSUME RowsTracked, gen'.id = gen.id, \A k \in DOMAIN ritems : k \in DOMAIN ritems',
         KeysDiffer => KeysDiffer',
         \A r \in Rows \ forgotten' : InTable(r)' => InTable(r) /\ r \notin forgotten
  PROVE  RowsTracked'
  BY DEF RowsTracked, TrackedRow

LEMMA KeysStillDiffer ==
  ASSUME TypeOK, TypeOK', \A e \in titem : \E f \in titem' : f[2] = e[2]
  PROVE  KeysDiffer => KeysDiffer'
  <1>1. \A p \in Known : p \in Known' BY KnownIs, KnownIsNext
  <1> QED BY <1>1 DEF KeysDiffer

LEMMA KeysStand ==
  ASSUME UNCHANGED titem
  PROVE  KeysDiffer' = KeysDiffer
  BY DEF KeysDiffer, Known, ManagedBySystem, Prev, Record!Possible

\* Steps that have nothing to do with the rows.
Quiet == UNCHANGED <<gen, lastId, rver, ritems, forgotten, stranded>> /\ TableStands

LEMMA QuietStep ==
  ASSUME RInv, Quiet, KeysDiffer => KeysDiffer'
  PROVE  RowTypes' /\ ItemsTell' /\ RowsTracked'
  <1>1. RowTypes' /\ ItemsTell' BY HeldStands, ItemsStand DEF RInv, Quiet
  <1>2. RowsTracked' BY HeldStands, TrackedStands DEF RInv, Quiet
  <1> QED BY <1>1, <1>2

LEMMA QuietRun ==
  ASSUME RInv, Quiet, UNCHANGED <<run, titem>>
  PROVE  LossIsMarked' /\ RowsLead'
  <1>1. KeysDiffer' = KeysDiffer BY KeysStand
  <1>2. /\ \A r : InTable(r)' <=> InTable(r)
        /\ \A r, cs : Held(r, cs)' <=> Held(r, cs)
    BY HeldStands DEF Quiet
  <1>3. Present' = Present /\ Trusted' = Trusted BY DEF Quiet, Present, Trusted
  <1>4. LossIsMarked' BY <1>1, <1>2, <1>3 DEF RInv, LossIsMarked, Quiet
  <1>5. \A r : Current(r)' = Current(r) /\ Desired(r)' = Desired(r) BY DEF Quiet, Current, Desired
  <1>6. \A r : RowLeads(r) => RowLeads(r)' BY <1>2, <1>5 DEF RowLeads, Quiet
  <1>7. RowsLead' BY <1>5, <1>6 DEF RInv, RowsLead, Quiet
  <1> QED BY <1>4, <1>7

LEMMA NoRunLeads ==
  /\ run'.pc # "ddl" => LossIsMarked'
  /\ run'.pc # "dml" => RowsLead'
  /\ ~settled' => SettledRowsMatch'
  BY DEF LossIsMarked, RowsLead, SettledRowsMatch

LEMMA InitRInv == Init => RInv
  <1> SUFFICES ASSUME Init PROVE RInv OBVIOUS
  <1>1. DOMAIN ritems = {} /\ table = None /\ run.pc = "idle" /\ wish.spec = None
    BY DEF Init, NoRows, Idle
  <1>2. gen \in [id : Nat, ver : Nat] /\ gen.id = 0 BY DEF Init, DefaultGen
  <1>3. RowTypes BY <1>1, <1>2 DEF Init, RowTypes
  <1>4. ItemsTell BY <1>1 DEF ItemsTell, Trusted, Present
  <1>5. LossIsMarked /\ RowsTracked /\ RowsLead /\ SettledRowsMatch
    BY <1>1 DEF LossIsMarked, RowsTracked, RowsLead, SettledRowsMatch, InTable
  <1> QED BY <1>3, <1>4, <1>5 DEF RInv

LEMMA ChangeRows ==
  ASSUME RowsInv, NEW spec \in Specs \cup {None}, NEW rows \in SUBSET Rows, Change(spec, rows)
  PROVE  RInv'
  <1>1. RInv /\ Quiet /\ UNCHANGED <<run, titem>> /\ ~settled'
    BY DEF RowsInv, Change, store, ghosts, Quiet, TableStands
  <1> QED BY <1>1, KeysStand, QuietStep, QuietRun, NoRunLeads DEF RInv

LEMMA UserProvidesRows == ASSUME RowsInv, UserProvides PROVE RInv'
  <1>1. wish.spec \in Specs BY DEF UserProvides, RowsInv, IInv, TypeOK
  <1>2. table' = NewTable(wish.spec) /\ table' # None /\ table'.rows = NoRows
    BY <1>1, NewTableIs DEF UserProvides, NewTable
  <1>3. RInv /\ Quiet /\ UNCHANGED <<run, titem, wish, settled, stranded, forgotten>> /\ table = None
    BY <1>2 DEF RowsInv, UserProvides, store, ghosts, Quiet, TableStands
  <1>4. DOMAIN table'.rows = {} BY <1>2 DEF NoRows
  <1>5. SettledRowsMatch' BY <1>3, <1>4 DEF RInv, SettledRowsMatch
  <1> QED BY <1>3, <1>5, KeysStand, QuietStep, QuietRun DEF RInv

LEMMA StartUpdateRows ==
  ASSUME RowsInv, NEW full \in BOOLEAN, StartUpdate(full)
  PROVE  RInv'
  <1>1. RInv /\ Quiet /\ UNCHANGED titem /\ ~settled'
    BY DEF RowsInv, StartUpdate, store, Quiet, TableStands
  <1>2. run'.pc \in {"table", "drop", "dropped"} BY DEF StartUpdate, Idle
  <1> QED BY <1>1, <1>2, KeysStand, QuietStep, NoRunLeads DEF RInv

LEMMA InterruptRows == ASSUME RowsInv, Interrupt PROVE RInv'
  <1>1. RInv /\ Quiet /\ UNCHANGED titem /\ ~settled'
    BY DEF RowsInv, IInv, SettledInv, Interrupt, store, ghosts, Quiet, TableStands
  <1>2. run'.pc = "idle" BY DEF Interrupt, Idle
  <1> QED BY <1>1, <1>2, KeysStand, QuietStep, NoRunLeads DEF RInv

LEMMA EndDropRows == ASSUME RowsInv, EndDrop PROVE RInv'
  <1>1. RInv /\ Quiet /\ UNCHANGED titem BY DEF RowsInv, EndDrop, store, ghosts, Quiet, TableStands
  <1>2. run'.pc = "idle" /\ (settled' => wish'.spec = None) BY DEF EndDrop, Idle
  <1>3. SettledRowsMatch' BY <1>2 DEF SettledRowsMatch
  <1> QED BY <1>1, <1>2, <1>3, KeysStand, QuietStep, NoRunLeads DEF RInv

LEMMA RowsRefusedRows == ASSUME RowsInv, RowsRefused PROVE RInv'
  <1>1. run.pc = "dml" /\ table' = RowTable /\ run'.pc = "idle"
    BY DEF RowsRefused, Idle
  <1>2. TableStands
    <2>1. CASE table # None BY <1>1, <2>1, RowTableIs DEF RowsInv, TableStands
    <2>2. CASE table = None /\ run.spec.by = "user"
      BY <1>1, <2>2, RowTableIs DEF RowsInv, TableStands
    <2>3. CASE table = None /\ run.spec.by = "system"
      <3>1. RowTable = NewTable(run.spec) /\ RowTable # None
        BY <1>1, <2>3, RowTableIs DEF RowsInv, RowTable, Created
      <3> QED BY <1>1, <2>3, <3>1 DEF TableStands, NewTable
    <2> QED BY <1>1, <2>1, <2>2, <2>3, RowTableIs, SpecsAssumption DEF RowsInv
  <1>3. RInv /\ Quiet /\ UNCHANGED titem /\ ~settled'
    BY <1>1, <1>2 DEF RowsInv, IInv, SettledInv, RowsRefused, store, ghosts, Quiet
  <1> QED BY <1>1, <1>3, KeysStand, QuietStep, NoRunLeads DEF RInv

LEMMA DropPrecommitRows == ASSUME RowsInv, IInv', DropPrecommit PROVE RInv'
  <1>1. RInv /\ Quiet /\ ~settled' /\ run'.pc = "dropping"
    BY DEF RowsInv, IInv, SettledInv, TypeOK, Runs, DropPrecommit, Quiet, TableStands
  <1>2. \A e \in titem : \E f \in titem' : f[2] = e[2]
    <2>1. CASE Spared(None, Prev(titem))
      <3>1. titem' = Record!Bump(titem, tver + 1) BY <2>1 DEF DropPrecommit
      <3>2. PICK w \in Nat : w = tver + 1 BY DEF RowsInv, IInv, TypeOK
      <3>3. Record!Possible(Record!Bump(titem, w)) = Record!Possible(titem)
        BY BumpIs DEF RowsInv, IInv, TypeOK
      <3> QED BY <3>1, <3>2, <3>3 DEF Record!Possible
    <2>2. CASE ~Spared(None, Prev(titem))
      BY <2>2 DEF DropPrecommit
    <2> QED BY <2>1, <2>2
  <1>3. KeysDiffer => KeysDiffer' BY <1>2, KeysStillDiffer DEF RowsInv, IInv
  <1> QED BY <1>1, <1>3, QuietStep, NoRunLeads DEF RInv

LEMMA StutterRows == ASSUME RowsInv, UNCHANGED vars PROVE RInv'
  <1>1. /\ RInv /\ Quiet /\ UNCHANGED <<run, titem, table, wish, settled, stranded, forgotten>>
    BY DEF RowsInv, vars, store, ghosts, Quiet, TableStands
  <1>2. SettledRowsMatch' BY <1>1 DEF RInv, SettledRowsMatch
  <1> QED BY <1>1, <1>2, KeysStand, QuietStep, QuietRun DEF RInv

LEMMA CreateTableRows == ASSUME RowsInv, CreateTable PROVE RInv'
  <1>1. run.pc = "ddl" /\ run.main \in {"insert", "upsert"} /\ table' = Created(run.spec)
    BY DEF CreateTable
  <1>2. run'.pc = "ddl" /\ run'.spec = run.spec /\ run'.cols = run.cols /\ run'.main = "none"
    BY <1>1 DEF CreateTable, RowsInv, IInv, TypeOK, Runs
  <1>3. run.spec \in Specs /\ run.cols = NoRows
    BY <1>1 DEF RowsInv, IInv, TypeOK, Runs, StatementsLead
  <1>4. TableStands BY <1>1, <1>3, NewTableIs DEF Created, TableStands, NewTable
  <1>5. RInv /\ Quiet /\ UNCHANGED titem /\ ~settled'
    BY <1>1, <1>4 DEF RowsInv, IInv, SettledInv, CreateTable, store, Quiet
  <1>6. LossIsMarked'
    <2>1. KeysDiffer' = KeysDiffer /\ \A r : InTable(r)' <=> InTable(r)
      BY <1>4, <1>5, KeysStand, HeldStands
    <2>2. DOMAIN run'.cols = {} BY <1>2, <1>3 DEF NoRows
    <2> QED BY <1>1, <1>2, <1>5, <2>1, <2>2 DEF RInv, LossIsMarked
  <1> QED BY <1>2, <1>5, <1>6, KeysStand, QuietStep, NoRunLeads DEF RInv

\* What is left to do after a statement is no worse for the rows.
LEMMA StatementLeft ==
  ASSUME IInv, NEW c \in Cols, run.pc = "ddl", run.main = "none", c \in DOMAIN run.cols,
         NextStatement(c)
  PROVE  /\ run'.pc = "ddl" /\ run'.main = "none" /\ run'.spec = run.spec
         /\ \A d \in DOMAIN run'.cols : d \in DOMAIN run.cols /\ run'.cols[d] \in {run.cols[d], "insert"}
  <1>1. run.cols \in Statements BY DEF IInv, TypeOK, Runs
  <1>2. \A d \in DOMAIN run.cols : d \in Cols BY <1>1, StatementsType
  <1> QED BY <1>2, NextStatementIs

LEMMA AlterColumnRows == ASSUME RowsInv, NEW c \in Cols, AlterColumn(c) PROVE RInv'
  <1>1. /\ run.pc = "ddl" /\ run.main = "none" /\ c \in DOMAIN run.cols
        /\ UNCHANGED <<titem, gen, lastId, rver, ritems, forgotten, stranded>>
        /\ RInv /\ ~settled'
    BY DEF AlterColumn, store, RowsInv, IInv, SettledInv
  <1>2. /\ run'.pc = "ddl" /\ run'.main = "none" /\ run'.spec = run.spec
        /\ \A d \in DOMAIN run'.cols : d \in DOMAIN run.cols /\ run'.cols[d] \in {run.cols[d], "insert"}
    BY <1>1, StatementLeft DEF RowsInv, AlterColumn
  <1>4. KeysDiffer' = KeysDiffer BY <1>1, KeysStand
  <1>5. table \in DbTables \cup {None} BY DEF RowsInv, IInv, TypeOK
  \* The rows stay in the table; if the column is dropped they lose its values.
  <1>6. /\ \A r : InTable(r)' <=> InTable(r)
        /\ ~Drops(c) => \A r, cs : Held(r, cs) => Held(r, cs)'
    <2>1. CASE table = None
      <3>1. table' = None BY <2>1 DEF AlterColumn
      <3> QED BY <2>1, <3>1 DEF InTable, Held
    <2>2. CASE table # None /\ Drops(c)
      <3>1. table' = WithoutColumn(table, c) BY <2>2 DEF AlterColumn
      <3>2. table' # None BY <1>5, <2>2, <3>1, WithoutColumnIs, SpecsAssumption
      <3>3. DOMAIN table'.rows = DOMAIN table.rows BY <1>5, <2>2, <3>1 DEF WithoutColumn, DbTables
      <3> QED BY <2>2, <3>2, <3>3 DEF InTable
    <2>3. CASE table # None /\ ~Drops(c)
      <3> DEFINE type == run.spec.cols[c]
                 cols == [d \in DOMAIN table.cols \cup {c} |->
                            IF d \in DOMAIN table.cols THEN table.cols[d] ELSE type]
      <3>1. table' = WithColumn(table, c, type) BY <2>3 DEF AlterColumn
      <3>2. table' = [table EXCEPT !.cols = cols] BY <3>1 DEF WithColumn
      <3> HIDE DEF cols, type
      <3>3. table'.rows = table.rows BY <1>5, <2>3, <3>2 DEF DbTables
      <3>4. table' # None
        <4>1. type \in Types
          <5>1. run.spec \in Specs BY <1>1 DEF RowsInv, IInv, TypeOK, Runs, StatementsLead
          <5>2. c \in DOMAIN run.spec.cols BY <1>1, <2>3 DEF Drops, RowsInv, IInv, StatementsLead
          <5> QED BY <5>1, <5>2, SpecsAssumption DEF Columns, type
        <4> QED BY <1>5, <2>3, <3>1, <4>1, WithColumnIs, SpecsAssumption
      <3> QED BY <2>3, <3>3, <3>4 DEF InTable, Held
    <2> QED BY <2>1, <2>2, <2>3
  <1>7. Present' = Present /\ Trusted' = Trusted BY <1>1 DEF Present, Trusted
  <1>8. LossIsMarked' BY <1>1, <1>2, <1>4, <1>6, <1>7 DEF RInv, LossIsMarked
  <1>9. RowTypes' /\ ItemsTell'
    <2>1. CASE ~Drops(c)
      BY <1>1, <1>6, <2>1, ItemsStand DEF RInv
    <2>2. CASE Drops(c)
      <3>1. RowTypes' BY <1>1 DEF RInv, RowTypes
      <3>2. ASSUME NEW k \in Trusted' PROVE ItemTells(k)'
        <4>1. k \in Trusted /\ ritems[k].sv < gen.ver /\ ritems[k].sv \in Nat /\ gen.ver \in Nat
          BY <1>1, <1>7, <2>2, <3>2 DEF Drops, RInv, LossIsMarked, RowTypes, Trusted, Present
        <4> QED BY <1>1, <4>1 DEF ItemTells
      <3> QED BY <3>1, <3>2 DEF ItemsTell
    <2> QED BY <2>1, <2>2
  <1>10. RowsTracked' BY <1>1, <1>4, <1>6, TrackedStands DEF RInv
  <1> QED BY <1>1, <1>2, <1>8, <1>9, <1>10, NoRunLeads DEF RInv

LEMMA AlterSkippedRows == ASSUME RowsInv, NEW c \in Cols, AlterSkipped(c) PROVE RInv'
  <1>1. /\ run.pc = "ddl" /\ run.main = "none" /\ c \in DOMAIN run.cols /\ NextStatement(c)
        /\ RInv /\ IInv /\ Quiet /\ UNCHANGED titem /\ ~settled'
    BY DEF AlterSkipped, store, RowsInv, IInv, SettledInv, Quiet, TableStands
  <1>2. /\ run'.pc = "ddl" /\ run'.main = "none" /\ run'.spec = run.spec
        /\ \A d \in DOMAIN run'.cols : d \in DOMAIN run.cols /\ run'.cols[d] \in {run.cols[d], "insert"}
    BY <1>1, StatementLeft
  <1>3. KeysDiffer' = KeysDiffer BY <1>1, KeysStand
  <1>4. \A r : InTable(r)' <=> InTable(r) BY <1>1, HeldStands DEF Quiet
  <1>5. Present' = Present /\ Trusted' = Trusted BY <1>1 DEF Quiet, Present, Trusted
  <1>6. LossIsMarked' BY <1>1, <1>2, <1>3, <1>4, <1>5 DEF RInv, LossIsMarked, Quiet
  <1> QED BY <1>1, <1>2, <1>3, <1>6, QuietStep, NoRunLeads DEF RInv

LEMMA DropTableRows == ASSUME RowsInv, DropTable PROVE RInv'
  <1>1. /\ run.pc \in {"ddl", "dropping"} /\ run.main \in {"replace", "delete"} /\ table' = None
        /\ UNCHANGED <<titem, gen, lastId, rver, ritems>>
        /\ RInv /\ ~settled'
        /\ stranded' = IF run.main = "delete" THEN {k[1] : k \in DOMAIN ritems} ELSE stranded
    BY DEF DropTable, store, RowsInv, IInv, SettledInv
  <1>2. run'.pc = run.pc /\ run'.main # "replace" /\ run'.cols = run.cols
        /\ (run.pc = "ddl" => run.main = "replace" /\ run'.cols = NoRows)
    BY <1>1 DEF DropTable, RowsInv, IInv, TypeOK, Runs, StatementsLead
  <1>3. \A r : ~InTable(r)' BY <1>1 DEF InTable
  <1>4. Trusted' = {}
    <2>1. CASE run.main = "delete" BY <1>1, <2>1 DEF Trusted, Present
    <2>2. CASE run.main = "replace"
      <3>1. run.pc = "ddl" BY <1>1, <2>2 DEF RowsInv, IInv, DropsLead
      <3> QED BY <1>1, <2>2, <3>1 DEF RInv, LossIsMarked, Trusted, Present
    <2> QED BY <1>1, <2>1, <2>2
  <1>5. RowTypes' /\ ItemsTell' BY <1>1, <1>4 DEF RInv, RowTypes, ItemsTell
  <1>6. RowsTracked' BY <1>3 DEF RowsTracked
  <1>7. LossIsMarked' BY <1>2, <1>3 DEF LossIsMarked, NoRows
  <1> QED BY <1>1, <1>2, <1>5, <1>6, <1>7, NoRunLeads DEF RInv

LEMMA DropCommitRows == ASSUME RowsInv, DropCommit PROVE RInv'
  <1>1. /\ gen' = DefaultGen /\ UNCHANGED <<table, lastId, rver, ritems>>
        /\ forgotten' = IF table = None THEN {} ELSE DOMAIN table.rows
        /\ stranded' = stranded \cup {k[1] : k \in DOMAIN ritems}
        /\ RInv /\ ~settled'
    BY DEF DropCommit, RowsInv, IInv, SettledInv
  <1>2. run'.pc = "dropped" BY DEF DropCommit, RowsInv, IInv, TypeOK, Runs
  <1>3. Trusted' = {} BY <1>1 DEF Trusted, Present
  <1>4. RowTypes' BY <1>1 DEF RInv, RowTypes, DefaultGen
  <1>5. ItemsTell' BY <1>3 DEF ItemsTell
  <1>6. RowsTracked' BY <1>1 DEF RowsTracked, InTable
  <1> QED BY <1>1, <1>2, <1>4, <1>5, <1>6, NoRunLeads DEF RInv

LEMMA RowsDeleteRows == ASSUME RowsInv, RowsDelete PROVE RInv'
  <1>1. /\ UNCHANGED <<table, lastId, gen>> /\ ritems' = NoRows /\ rver' = 0
        /\ forgotten' = IF table = None THEN {} ELSE DOMAIN table.rows
        /\ RInv /\ ~settled'
    BY DEF RowsDelete, RowsInv, IInv, SettledInv
  <1>2. run'.pc \in {"drop", "dropping", "dropped"} BY DEF RowsDelete, RowsInv, IInv, TypeOK, Runs
  <1>3. DOMAIN ritems' = {} BY <1>1 DEF NoRows
  <1>4. RowTypes' BY <1>1, <1>3 DEF RInv, RowTypes
  <1>5. ItemsTell' BY <1>3 DEF ItemsTell, Trusted, Present
  <1>6. RowsTracked' BY <1>1 DEF RowsTracked, InTable
  <1> QED BY <1>1, <1>2, <1>4, <1>5, <1>6, NoRunLeads DEF RInv

LEMMA TableCommitRows == ASSUME RowsInv, IInv', TableCommit PROVE RInv'
  <1>1. /\ run.pc = "ddl" /\ run.main = "none"
        /\ UNCHANGED <<table, gen, lastId, rver, ritems, stranded>>
        /\ forgotten' = IF run.spec.by = "user"
                        THEN forgotten \cup {k[1] : k \in {k \in DOMAIN ritems : k[2] # gen.id}}
                        ELSE forgotten
        /\ RInv /\ ~settled'
    BY DEF TableCommit, RowsInv, IInv, SettledInv
  <1>2. run'.pc = "rows" BY DEF TableCommit, RowsInv, IInv, TypeOK, Runs
  <1>3. run.spec \in Specs BY <1>1 DEF RowsInv, IInv, TypeOK, Runs, StatementsLead
  <1>4. RowTypes' /\ ItemsTell' BY <1>1, ItemsStand DEF RInv, Held, InTable
  <1>5. ASSUME NEW r \in Rows \ forgotten', InTable(r)' PROVE TrackedRow(r)'
    <2>1. InTable(r) /\ r \notin forgotten BY <1>1, <1>5 DEF InTable
    <2>2. PICK k \in DOMAIN ritems : k[1] = r /\ (k[2] = gen.id \/ KeysDiffer)
      BY <1>5, <2>1, <1>1 DEF RInv, RowsTracked, TrackedRow
    <2>3. k[2] = gen.id
      <3>1. CASE run.spec.by = "user" BY <1>1, <1>5, <2>2, <3>1
      <3>2. CASE run.spec.by = "system"
        BY <1>1, <1>5, <2>1, <2>2, <3>2 DEF RInv, LossIsMarked
      <3> QED BY <1>3, <3>1, <3>2, SpecsAssumption
    <2> QED BY <1>1, <2>2, <2>3 DEF TrackedRow
  <1>6. RowsTracked' BY <1>5 DEF RowsTracked
  <1> QED BY <1>1, <1>2, <1>4, <1>6, NoRunLeads DEF RInv

LEMMA TablePrecommitRows == ASSUME RowsInv, IInv', TablePrecommit PROVE RInv'
  <1> DEFINE prev == Prev(titem)
             main == MainAction(run.spec, prev, Missing)
             cols == ColActions(run.spec, prev, Missing)
             next == NextGeneration(Invalidation(main, cols))
             lossy == \E c \in DOMAIN cols : cols[c] # "insert"
  <1>1. /\ run.pc = "table"
        /\ titem' = {Record!Pushed(tver + 1, run.spec)} \cup
                    (IF titem = {} THEN {Record!Pushed(0, None)} ELSE titem)
        /\ gen' = next /\ lastId' = IF next.id = lastId + 1 THEN next.id ELSE lastId
        /\ run' = [run EXCEPT !.pc = "ddl", !.main = main, !.cols = cols]
        /\ UNCHANGED <<table, rver, ritems, forgotten, stranded>>
        /\ RInv /\ ~settled'
    BY DEF TablePrecommit, Missing, RowsInv, IInv, SettledInv
  <1>2. run'.pc = "ddl" /\ run'.spec = run.spec /\ run'.main = main /\ run'.cols = cols
    BY <1>1 DEF RowsInv, IInv, TypeOK, Runs
  <1>3. run.spec \in Specs /\ tver \in Nat
    BY <1>1, SpecsAssumption DEF RowsInv, IInv, TypeOK, Runs, DropsLead
  <1>4. main = "replace" => run.spec.by = "system"
    BY <1>3, SpecsAssumption DEF MainAction, Spared
  <1>5. run.spec.by = "system" => (main = "replace" <=> \E p \in Known : p.key # run.spec.key)
    BY <1>3, MainActionIs DEF RowsInv, IInv
  <1>6. /\ main = "replace" => next = [id |-> lastId + 1, ver |-> 0]
        /\ main # "replace" => next = IF lossy THEN [gen EXCEPT !.ver = @ + 1] ELSE gen
    BY DEF NextGeneration, Invalidation
  <1>7. gen \in [id : Nat, ver : Nat] /\ lastId \in Nat /\ gen.id <= lastId
    BY <1>1 DEF RInv, RowTypes
  <1> HIDE DEF main, cols, next, lossy
  <1>8. main = "replace" => gen'.id = lastId + 1 /\ gen'.ver = 0 /\ lastId' = lastId + 1
    BY <1>1, <1>6
  <1>9. main # "replace" => /\ gen'.id = gen.id /\ lastId' = lastId
                            /\ gen'.ver = IF lossy THEN gen.ver + 1 ELSE gen.ver
    BY <1>1, <1>6, <1>7
  <1>10. gen' \in [id : Nat, ver : Nat] BY <1>1, <1>6, <1>7
  <1>11. RowTypes' BY <1>1, <1>7, <1>8, <1>9, <1>10 DEF RInv, RowTypes
  <1>12. main = "replace" => Present' = {}
    BY <1>1, <1>7, <1>8 DEF RInv, RowTypes, Present
  <1>13. main # "replace" => Trusted' = Trusted BY <1>1, <1>9 DEF Trusted, Present
  <1>14. \A k \in Trusted : ItemTells(k) /\ ritems[k].sv \in Nat
    BY <1>1 DEF RInv, ItemsTell, RowTypes, Trusted, Present
  <1>15. ASSUME NEW k \in Trusted'
         PROVE  ItemTells(k)' /\ (lossy => ritems'[k].sv < gen'.ver)
    <2>1. main # "replace" /\ k \in Trusted BY <1>12, <1>13, <1>15 DEF Trusted
    <2>2. ItemTells(k) /\ ritems[k].sv \in Nat BY <1>14, <2>1
    <2>3. CASE lossy
      <3>1. ritems'[k].sv < gen'.ver BY <1>1, <1>7, <1>9, <2>1, <2>2, <2>3 DEF ItemTells
      <3>2. gen'.ver \in Nat /\ ritems'[k].sv \in Nat BY <1>1, <1>10, <2>2
      <3>3. ItemTells(k)' BY <3>1, <3>2 DEF ItemTells
      <3> QED BY <3>1, <3>3
    <2>4. CASE ~lossy
      <3>1. gen'.ver = gen.ver BY <1>9, <2>1, <2>4
      <3> QED BY <1>1, <2>2, <2>4, <3>1 DEF ItemTells, Held, InTable
    <2> QED BY <2>3, <2>4
  <1>16. ItemsTell' BY <1>15 DEF ItemsTell
  <1>17. /\ \A p \in Known' : p \in Known \/ p = run.spec
         /\ \A p \in Known : p \in Known'
         /\ run.spec.by = "system" => run.spec \in Known'
    <2>1. Record!Pushed(tver + 1, run.spec)[2] = run.spec /\ Record!Pushed(0, None)[2] = None
      BY DEF Record!Pushed
    <2>2. Known = {p \in Specs : p.by = "system" /\ \E e \in titem : e[2] = p}
      BY KnownIs DEF RowsInv, IInv
    <2>3. Known' = {p \in Specs : p.by = "system" /\ \E e \in titem' : e[2] = p}
      BY KnownIsNext DEF IInv
    <2>4. \A e \in titem' : e[2] = run.spec \/ e[2] = None \/ e \in titem BY <1>1, <2>1
    <2>5. \A e \in titem : e \in titem' BY <1>1
    <2>6. \E e \in titem' : e[2] = run.spec BY <1>1, <2>1
    <2> QED BY <1>3, <2>2, <2>3, <2>4, <2>5, <2>6, SpecsAssumption
  <1>18. LossIsMarked'
    <2>1. run.spec.by = "system" /\ KeysDiffer' => main = "replace"
      BY <1>5, <1>17 DEF KeysDiffer
    <2>2. (\E c \in DOMAIN cols : cols[c] \in {"delete", "replace"}) => lossy BY DEF lossy
    <2> QED BY <1>2, <1>12, <1>15, <2>1, <2>2 DEF LossIsMarked
  <1>19. RowsTracked'
    <2>1. CASE main # "replace"
      <3>1. KeysDiffer => KeysDiffer' BY <1>17 DEF KeysDiffer
      <3> QED BY <1>1, <1>9, <2>1, <3>1, TrackedStands DEF RInv, InTable
    <2>2. CASE main = "replace"
      <3>1. KeysDiffer' BY <1>4, <1>5, <1>17, <2>2 DEF KeysDiffer
      <3> QED BY <1>1, <3>1 DEF RInv, RowsTracked, TrackedRow, InTable
    <2> QED BY <2>1, <2>2
  <1> QED BY <1>1, <1>2, <1>11, <1>16, <1>18, <1>19, NoRunLeads DEF RInv

\* Current names the items of the present generation.
LEMMA CurrentIs ==
  ASSUME RowTypes
  PROVE  /\ \A k \in DOMAIN ritems : k[1] \in Rows /\ (k[2] = gen.id => k = Current(k[1]))
         /\ \A r : Current(r)[1] = r /\ Current(r)[2] = gen.id
         /\ \A r, s : Current(r) = Current(s) => r = s
  BY DEF RowTypes, Current

LEMMA RowItemIs ==
  ASSUME RowTypes, NEW r
  PROVE  /\ RowItem(r).states \in RowItems(rver) /\ RowItem(r).sv \in Nat
         /\ Current(r) \in DOMAIN ritems => RowItem(r) = ritems[Current(r)]
         /\ Current(r) \notin DOMAIN ritems => RowItem(r).states = {}
  <1>1. {} \in RowItems(rver) BY DEF RowItems
  <1> QED BY <1>1 DEF RowTypes, RowItem

LEMMA DesiredIs ==
  ASSUME IInv, run.pc \in {"rows", "dml"}, NEW r
  PROVE  /\ Desired(r) \in (SUBSET Cols) \cup {None}
         /\ r \in run.rows => Desired(r) = DOMAIN run.spec.cols
         /\ Desired(r) # None <=> r \in run.rows
         /\ ~KeysDiffer
  <1>1. run.spec \in Specs /\ \A e \in titem : e[2] = run.spec
    BY DEF IInv, TypeOK, Runs, CommittedIsDeclared
  <1>2. \A p \in Known : p = run.spec BY <1>1, KnownIs DEF IInv
  <1> QED BY <1>1, <1>2, DeclaredCols DEF Desired, KeysDiffer

LEMMA RowsPrecommitRows == ASSUME RowsInv, RowsPrecommit PROVE RInv'
  <1> DEFINE known == {r \in Rows : Current(r) \in DOMAIN ritems} \cup run.rows
             Acts(r) == Record!ReconcileActs(Desired(r), RowItem(r).states, Redo(r))
             New(r) == Record!Reconciled(Desired(r), RowItem(r).states, Redo(r), rver + 1)
             keys == DOMAIN ritems \cup {Current(r) : r \in known}
  <1>1. /\ run.pc = "rows" /\ rver' = rver + 1
        /\ ritems' = [k \in keys |-> IF k[2] # gen.id THEN ritems[k]
                                     ELSE [states |-> New(k[1]), sv |-> RowItem(k[1]).sv]]
        /\ run' = [run EXCEPT !.pc = "dml", !.todo = {r \in known : Acts(r)}]
        /\ UNCHANGED <<table, titem, gen, lastId, forgotten, stranded>>
        /\ RInv /\ RowTypes /\ IInv /\ ~settled'
    BY DEF RowsPrecommit, ghosts, RowsInv, RInv, IInv, SettledInv
  <1>2. run'.pc = "dml" /\ run'.spec = run.spec /\ run'.rows = run.rows
        /\ run'.todo = {r \in known : Acts(r)}
    BY <1>1 DEF IInv, TypeOK, Runs
  <1>3. run.rows \subseteq Rows /\ rver \in Nat BY <1>1 DEF IInv, TypeOK, Runs, RowTypes
  \* What becomes of a row's item.
  <1>4. ASSUME NEW r \in Rows
        PROVE  /\ New(r) \in RowItems(rver + 1)
               /\ \E e \in New(r) : e[1] = rver + 1
               /\ \A e \in New(r) : e[1] = rver + 1 => e[2] = Desired(r)
               /\ ~Acts(r) => /\ ~Redo(r) /\ Desired(r) # None /\ AllAre(RowItem(r).states, Desired(r))
                              /\ \A e \in New(r) : e[1] = rver + 1
               /\ (\A e \in New(r) : e[2] # None) =>
                    /\ RowItem(r).states # {} /\ \A e \in RowItem(r).states : e[2] # None
                    /\ \A cs : AllAre(New(r), cs) => AllAre(RowItem(r).states, cs)
    <2>1. RowItem(r).states \in RowItems(rver) BY <1>1, RowItemIs
    <2>2. Desired(r) \in (SUBSET Cols) \cup {None} BY <1>1, DesiredIs
    <2>3. PICK full \in BOOLEAN : full = Redo(r) BY <1>1 DEF Redo, IInv, TypeOK, Runs
    <2>4. PICK states \in RowItems(rver) : states = RowItem(r).states BY <2>1
    <2>5. PICK desired \in (SUBSET Cols) \cup {None} : desired = Desired(r) BY <2>2
    <2>6. PICK w \in Nat : w = rver + 1 BY <1>3
    <2>7. rver < w BY <1>3, <2>6
    <2> DEFINE new == Record!Reconciled(desired, states, full, w)
               acts == Record!ReconcileActs(desired, states, full)
    <2>8. Reconciles(new, acts, states, desired, full, w) BY <1>3, <2>7, ReconciledIs
    <2>9. New(r) = new /\ Acts(r) = acts BY <2>3, <2>4, <2>5, <2>6
    <2> HIDE DEF new, acts, New, Acts
    <2>10. Reconciles(New(r), acts, RowItem(r).states, Desired(r), full, rver + 1)
      BY <2>4, <2>5, <2>6, <2>8, <2>9
    <2> QED BY <2>3, <2>9, <2>10 DEF Reconciles
  <1> HIDE DEF Acts, New
  <1>5. /\ \A r \in known : Current(r) \in DOMAIN ritems'
        /\ \A r \in Rows : Current(r) \in DOMAIN ritems' => r \in known
        /\ \A k \in DOMAIN ritems : k \in DOMAIN ritems'
        /\ \A k \in DOMAIN ritems' : k[2] # gen.id => k \in DOMAIN ritems /\ ritems'[k] = ritems[k]
        /\ \A k \in DOMAIN ritems' : k[2] = gen.id => k[1] \in known /\ k = Current(k[1])
        /\ \A r \in known : /\ ritems'[Current(r)] = [states |-> New(r), sv |-> RowItem(r).sv]
                            /\ ritems'[Current(r)].states = New(r)
                            /\ ritems'[Current(r)].sv = RowItem(r).sv
    <2>1. DOMAIN ritems' = keys BY <1>1
    <2>2. /\ \A k \in DOMAIN ritems : k[1] \in Rows /\ (k[2] = gen.id => k = Current(k[1]))
          /\ \A r : Current(r)[1] = r /\ Current(r)[2] = gen.id
          /\ \A r, s : Current(r) = Current(s) => r = s
      BY <1>1, CurrentIs
    <2>3. \A r \in known : ritems'[Current(r)] = [states |-> New(r), sv |-> RowItem(r).sv]
      BY <1>1, <2>1, <2>2
    <2>4. \A r \in known : /\ ritems'[Current(r)].states = New(r)
                          /\ ritems'[Current(r)].sv = RowItem(r).sv
      <3> SUFFICES ASSUME NEW r \in known
                   PROVE  /\ ritems'[Current(r)].states = New(r)
                          /\ ritems'[Current(r)].sv = RowItem(r).sv
        OBVIOUS
      <3>1. ritems'[Current(r)] = [states |-> New(r), sv |-> RowItem(r).sv] BY <2>3
      <3> QED BY <3>1
    <2> QED BY <1>1, <2>1, <2>2, <2>3, <2>4
  <1> HIDE DEF known, keys
  <1>6. RowTypes'
    <2>1. known \subseteq Rows BY <1>3 DEF known
    <2>2. ASSUME NEW k \in DOMAIN ritems'
          PROVE  k \in Rows \X (0..lastId) /\ ritems'[k] \in [states : RowItems(rver + 1), sv : Nat]
      <3>1. CASE k[2] # gen.id
        <4>1. k \in Rows \X (0..lastId) /\ ritems'[k] \in [states : RowItems(rver), sv : Nat]
          BY <1>1, <1>5, <3>1 DEF RowTypes
        <4>2. \A states \in RowItems(rver) : states \in RowItems(rver + 1)
          BY <1>3 DEF RowItems
        <4> QED BY <4>1, <4>2
      <3>2. CASE k[2] = gen.id
        <4>1. k[1] \in Rows /\ k = <<k[1], gen.id>> /\ gen.id \in 0..lastId
          BY <1>1, <1>5, <2>1, <3>2 DEF Current, RowTypes
        <4>2. New(k[1]) \in RowItems(rver + 1) /\ RowItem(k[1]).sv \in Nat
          BY <1>1, <1>4, <4>1, RowItemIs
        <4>3. ritems'[k] = [states |-> New(k[1]), sv |-> RowItem(k[1]).sv]
          BY <1>5, <3>2
        <4> QED BY <4>1, <4>2, <4>3
      <3> QED BY <3>1, <3>2
    <2> QED BY <1>1, <1>3, <2>2 DEF RowTypes
  <1>7. ItemsTell'
    <2> SUFFICES ASSUME NEW k \in Trusted' PROVE ItemTells(k)' BY DEF ItemsTell
    <2>1. k \in DOMAIN ritems' /\ k[2] = gen.id /\ k[1] \notin stranded
          /\ \A e \in ritems'[k].states : e[2] # None
      BY <1>1 DEF Trusted, Present
    <2>2. PICK r \in known : r = k[1] /\ k = Current(r) BY <1>5, <2>1
    <2>3. r \in Rows /\ ritems'[k].states = New(r) /\ ritems'[k].sv = RowItem(r).sv
      BY <1>3, <1>5, <2>2 DEF known
    <2>4. /\ RowItem(r).states # {} /\ \A e \in RowItem(r).states : e[2] # None
          /\ \A cs : AllAre(New(r), cs) => AllAre(RowItem(r).states, cs)
      BY <1>4, <2>1, <2>3
    <2>5. k \in DOMAIN ritems /\ RowItem(r) = ritems[k] BY <1>1, <2>2, <2>4, RowItemIs
    <2>6. k \in Trusted BY <2>1, <2>4, <2>5 DEF Trusted, Present
    <2>7. ItemTells(k) BY <1>1, <2>6 DEF RInv, ItemsTell
    <2> QED BY <1>1, <2>3, <2>4, <2>5, <2>7 DEF ItemTells, Held, InTable
  <1>8. RowsTracked'
    <2>1. KeysDiffer' = KeysDiffer BY <1>1, KeysStand
    <2> QED BY <1>1, <1>5, <2>1, TrackedStands DEF RInv, InTable
  <1>9. ASSUME NEW r \in Rows, Current(r) \in DOMAIN ritems' PROVE RowLeads(r)'
    <2>1. r \in known /\ ritems'[Current(r)].states = New(r) BY <1>5, <1>9
    <2>2. Current(r)' = Current(r) /\ Desired(r)' = Desired(r) BY <1>1, <1>2 DEF Current, Desired
    <2>3. ASSUME r \in run.rows, ~Acts(r)
          PROVE  \/ Held(r, DOMAIN run.spec.cols)
                 \/ r \in stranded /\ \A e \in New(r) : e[1] = rver + 1
      <3>1. /\ ~Redo(r) /\ Desired(r) # None /\ AllAre(RowItem(r).states, Desired(r))
            /\ \A e \in New(r) : e[1] = rver + 1
        BY <1>4, <2>3
      <3>2. Current(r) \in DOMAIN ritems /\ RowItem(r) = ritems[Current(r)]
        BY <1>1, <3>1, RowItemIs DEF AllAre
      <3>3. ritems[Current(r)].sv = gen.ver BY <3>1, <3>2 DEF Redo
      <3>4. Desired(r) = DOMAIN run.spec.cols /\ Desired(r) \in SUBSET Cols
        BY <1>1, <2>3, <3>1, DesiredIs
      <3>5. CASE r \notin stranded
        <4>1. Current(r)[1] = r /\ Current(r)[2] = gen.id BY DEF Current
        <4>2. Current(r) \in Trusted
          BY <3>1, <3>2, <3>5, <4>1 DEF Trusted, Present, AllAre
        <4>3. ItemTells(Current(r)) BY <1>1, <4>2 DEF RInv, ItemsTell
        <4> QED BY <3>1, <3>2, <3>3, <3>4, <4>1, <4>3 DEF ItemTells
      <3> QED BY <3>1, <3>5
    <2>4. Acts(r) \/ r \in run.rows BY <1>1, <1>4, DesiredIs
    <2>5. r \in run'.todo <=> Acts(r) BY <1>2, <2>1
    <2>6. /\ \E e \in New(r) : e[1] = rver + 1
          /\ \A e \in New(r) : e[1] = rver + 1 => e[2] = Desired(r)
      BY <1>4
    <2> QED BY <1>1, <1>2, <2>1, <2>2, <2>3, <2>4, <2>5, <2>6 DEF RowLeads, Held, InTable
  <1>10. RowsLead'
    <2>1. \A r : Current(r)' = Current(r) BY <1>1 DEF Current
    <2>2. \A r \in run'.todo \cup run'.rows : r \in known BY <1>2 DEF known
    <2>3. ASSUME NEW k \in DOMAIN ritems', k[2] # gen.id, NEW e \in ritems'[k].states
          PROVE  e[1] < rver + 1
      <3>1. ritems[k] \in [states : RowItems(rver), sv : Nat] /\ e \in ritems[k].states
        BY <1>1, <1>5, <2>3 DEF RowTypes
      <3> QED BY <1>3, <3>1 DEF RowItems
    <2> QED BY <1>1, <1>2, <1>5, <1>9, <2>1, <2>2, <2>3 DEF RowsLead
  <1> QED BY <1>1, <1>2, <1>6, <1>7, <1>8, <1>10, NoRunLeads DEF RInv

\* What the transaction does to a row.
LEMMA RowsWritten ==
  ASSUME IInv, ApplyRows, NEW r
  PROVE  /\ r \notin run.todo => /\ InTable(r)' <=> InTable(r)
                                 /\ \A cs : Held(r, cs) => Held(r, cs)'
         /\ r \in run.todo \cap run.rows => /\ Held(r, DOMAIN run.spec.cols)'
                                            /\ \A cs : Held(r, cs) => Held(r, cs)'
         /\ r \in run.todo \ run.rows => ~InTable(r)'
  <1> DEFINE left == (DOMAIN RowTable.rows \ run.todo) \cup (run.todo \cap run.rows)
             rows == [s \in left |->
                        IF s \notin run.todo THEN RowTable.rows[s]
                        ELSE (IF s \in DOMAIN RowTable.rows THEN RowTable.rows[s] ELSE {})
                             \cup DOMAIN run.spec.cols]
  <1>1. run.pc = "dml" /\ RowTable # None /\ table' # None /\ RowTable \in DbTables
    BY RowsApplied, RowTableIs
  <1>2. table' = [RowTable EXCEPT !.rows = rows] BY DEF ApplyRows
  <1> HIDE DEF rows, left
  <1>3. table'.rows = rows BY <1>1, <1>2 DEF DbTables
  <1>4. \A s : (table # None => RowTable = table) /\ (InTable(s) => s \in DOMAIN RowTable.rows)
    BY <1>1, RowTableIs DEF InTable
  <1>5. \A s \in DOMAIN RowTable.rows : InTable(s)
    <2>1. CASE table # None BY <1>4, <2>1 DEF InTable
    <2>2. CASE table = None
      <3>1. RowTable.rows = NoRows BY <1>1, <2>2 DEF RowTable, Created, NewTable
      <3> QED BY <3>1 DEF NoRows
    <2> QED BY <2>1, <2>2
  <1>6. InTable(r)' <=> r \in left BY <1>1, <1>3 DEF InTable, rows
  <1>7. r \in left => table'.rows[r] = rows[r] BY <1>3
  <1>8. CASE r \notin run.todo
    <2>1. r \in left => rows[r] = RowTable.rows[r] BY <1>8 DEF rows
    <2>2. InTable(r)' <=> InTable(r) BY <1>4, <1>5, <1>6, <1>8 DEF left
    <2>3. InTable(r) => table'.rows[r] = table.rows[r]
      BY <1>4, <1>6, <1>7, <2>1, <2>2 DEF InTable
    <2> QED BY <1>8, <2>2, <2>3 DEF Held
  <1>9. CASE r \in run.todo \cap run.rows
    <2>1. r \in left /\ InTable(r)' BY <1>6, <1>9 DEF left
    <2>2. /\ DOMAIN run.spec.cols \subseteq table'.rows[r]
          /\ InTable(r) => table.rows[r] \subseteq table'.rows[r]
      BY <1>4, <1>7, <1>9, <2>1 DEF rows, InTable
    <2>3. run'.spec = run.spec BY DEF ApplyRows, IInv, TypeOK, Runs
    <2> QED BY <1>9, <2>1, <2>2, <2>3 DEF Held
  <1>10. CASE r \in run.todo \ run.rows
    BY <1>6, <1>10 DEF left
  <1> QED BY <1>8, <1>9, <1>10

LEMMA ApplyRowsRows == ASSUME RowsInv, ApplyRows PROVE RInv'
  <1>1. /\ run.pc = "dml" /\ UNCHANGED <<titem, gen, lastId, rver, ritems, stranded>>
        /\ forgotten' = forgotten \ run.todo
        /\ RInv /\ RowTypes /\ IInv /\ ~settled'
    BY DEF ApplyRows, store, RowsInv, RInv, IInv, SettledInv
  <1>2. run'.pc = "dml" /\ run'.spec = run.spec /\ run'.rows = run.rows /\ run'.todo = {}
    BY <1>1 DEF ApplyRows, IInv, TypeOK, Runs
  <1>3. ASSUME NEW r
        PROVE  /\ r \notin run.todo => /\ InTable(r)' <=> InTable(r)
                                       /\ \A cs : Held(r, cs) => Held(r, cs)'
               /\ r \in run.todo \cap run.rows => /\ Held(r, DOMAIN run.spec.cols)'
                                                  /\ \A cs : Held(r, cs) => Held(r, cs)'
               /\ r \in run.todo \ run.rows => ~InTable(r)'
    BY <1>1, RowsWritten
  <1>4. /\ \A r \in run.todo \cup run.rows : Current(r) \in DOMAIN ritems
        /\ \A r \in Rows : Current(r) \in DOMAIN ritems => RowLeads(r)
        /\ \A r : Current(r)' = Current(r) /\ Desired(r)' = Desired(r)
    BY <1>1, <1>2 DEF RInv, RowsLead, Current, Desired
  <1>5. \A r : /\ Current(r)[1] = r /\ Current(r)[2] = gen.id
               /\ Desired(r) # None <=> r \in run.rows
    BY <1>1, DesiredIs DEF Current
  <1>6. RowTypes' BY <1>1 DEF RowTypes
  <1>7. ItemsTell'
    <2> SUFFICES ASSUME NEW k \in Trusted' PROVE ItemTells(k)' BY DEF ItemsTell
    <2>1. k \in Trusted /\ ItemTells(k) BY <1>1 DEF RInv, ItemsTell, Trusted, Present
    <2>2. PICK r \in Rows : r = k[1] /\ k = Current(r) /\ k \in DOMAIN ritems
      BY <1>1, <2>1, CurrentIs DEF Trusted, Present
    <2>3. ~(r \in run.todo \ run.rows)
      <3>1. RowLeads(r) BY <1>4, <2>2
      <3>2. /\ \E e \in ritems[k].states : e[1] = rver
            /\ \A e \in ritems[k].states : e[1] = rver => e[2] = Desired(r)
        BY <2>2, <3>1 DEF RowLeads
      <3> QED BY <1>5, <2>1, <3>2 DEF Trusted
    <2>4. \A cs : Held(r, cs) => Held(r, cs)' BY <1>3, <2>3
    <2> QED BY <1>1, <2>1, <2>2, <2>4 DEF ItemTells
  <1>8. RowsTracked'
    <2>1. KeysDiffer' = KeysDiffer BY <1>1, KeysStand
    <2> SUFFICES ASSUME NEW r \in Rows \ forgotten', InTable(r)' PROVE TrackedRow(r)'
      BY DEF RowsTracked
    <2>2. CASE r \in run.todo
      <3>1. r \in run.rows BY <1>3, <2>2
      <3>2. Current(r) \in DOMAIN ritems /\ Current(r)[1] = r /\ Current(r)[2] = gen.id
        BY <1>4, <1>5, <3>1
      <3> QED BY <1>1, <3>2 DEF TrackedRow
    <2>3. CASE r \notin run.todo
      <3>1. TrackedRow(r) BY <1>1, <1>3, <2>3 DEF RInv, RowsTracked
      <3> QED BY <1>1, <2>1, <3>1 DEF TrackedRow
    <2> QED BY <2>2, <2>3
  <1>9. ASSUME NEW r \in Rows, Current(r) \in DOMAIN ritems PROVE RowLeads(r)'
    <2>1. RowLeads(r) BY <1>4, <1>9
    <2>2. r \in run.rows => \/ Held(r, DOMAIN run.spec.cols)'
                            \/ r \in stranded /\ \A e \in ritems[Current(r)].states : e[1] = rver
      BY <1>2, <1>3, <2>1 DEF RowLeads
    <2>3. r \notin run.rows => ~InTable(r)' BY <1>3, <2>1 DEF RowLeads
    <2> QED BY <1>1, <1>2, <1>4, <2>1, <2>2, <2>3 DEF RowLeads
  <1>10. RowsLead' BY <1>1, <1>2, <1>4, <1>9 DEF RInv, RowsLead
  <1> QED BY <1>1, <1>2, <1>6, <1>7, <1>8, <1>10, NoRunLeads DEF RInv

LEMMA RowsCommitRows == ASSUME RowsInv, RowsCommit PROVE RInv'
  <1> DEFINE Kept(k) == Record!Retained(ritems[k].states, rver)
             kept == {k \in DOMAIN ritems : Kept(k) # {}}
             New(k) == Record!Bump(Kept(k), 1)
  <1>1. /\ run.pc = "dml" /\ run.todo = {} /\ rver' = 1 /\ run' = Idle
        /\ ritems' = [k \in kept |-> [states |-> New(k), sv |-> gen.ver]]
        /\ settled' = (run.spec = wish.spec /\ run.rows = wish.rows)
        /\ stranded' = {r \in stranded : \A e \in RowItem(r).states : e[1] = rver}
        /\ UNCHANGED <<wish, table, titem, gen, lastId, forgotten>>
        /\ RInv /\ RowTypes /\ IInv
    BY DEF RowsCommit, RowsInv, RInv
  <1>2. /\ \A r \in run.rows : Current(r) \in DOMAIN ritems
        /\ \A k \in DOMAIN ritems : k[2] # gen.id => \A e \in ritems[k].states : e[1] < rver
        /\ \A r \in Rows : Current(r) \in DOMAIN ritems => RowLeads(r)
        /\ run.rows \subseteq Rows
    BY <1>1 DEF RInv, RowsLead, IInv, TypeOK, Runs
  <1>3. /\ \A k \in DOMAIN ritems : k[1] \in Rows /\ (k[2] = gen.id => k = Current(k[1]))
        /\ \A r : Current(r)[1] = r /\ Current(r)[2] = gen.id
    BY <1>1, CurrentIs
  <1>4. ASSUME NEW k \in DOMAIN ritems, k[2] # gen.id PROVE k \notin kept
    <2>1. ritems[k].states \in RowItems(rver) /\ rver \in Nat BY <1>1 DEF RowTypes
    <2>2. \A e \in ritems[k].states : e[1] \in Nat /\ e[1] < rver
      BY <1>2, <1>4, <2>1 DEF RowItems
    <2> QED BY <2>1, <2>2 DEF Record!Retained
  <1>5. ASSUME NEW k \in DOMAIN ritems, k[2] = gen.id
        PROVE  /\ k[1] \in Rows /\ k = Current(k[1]) /\ RowLeads(k[1])
               /\ k \in kept <=> k[1] \in run.rows
               /\ New(k) \in RowItems(1)
               /\ k[1] \in run.rows => AllAre(New(k), DOMAIN run.spec.cols)
    <2>1. k[1] \in Rows /\ k = Current(k[1]) /\ RowLeads(k[1]) BY <1>2, <1>3, <1>5
    <2>2. PICK states \in RowItems(rver) : states = ritems[k].states BY <1>1 DEF RowTypes
    <2>3. PICK desired \in (SUBSET Cols) \cup {None} : desired = Desired(k[1])
      BY <1>1, DesiredIs
    <2>4. /\ \E e \in states : e[1] = rver
          /\ \A e \in states : e[1] = rver => e[2] = desired
      BY <2>1, <2>2, <2>3 DEF RowLeads
    <2> DEFINE left == Record!Retained(states, rver)
               new == Record!Bump(left, 1)
    <2>5. rver \in Nat BY <1>1 DEF RowTypes
    <2>6. /\ left # {} <=> desired # None
          /\ new \in RowItems(1)
          /\ desired # None => AllAre(new, desired)
      BY <2>4, <2>5, CommittedIs
    <2>7. Kept(k) = left /\ New(k) = new BY <2>2
    <2>8. /\ desired # None <=> k[1] \in run.rows
          /\ k[1] \in run.rows => desired = DOMAIN run.spec.cols
      BY <1>1, <2>3, DesiredIs
    <2>9. k \in kept <=> left # {} BY <1>5, <2>7
    <2> HIDE DEF kept, Kept, New, left, new
    <2> QED BY <2>1, <2>6, <2>7, <2>8, <2>9
  <1>6. DOMAIN ritems' = kept /\ \A k \in kept : /\ k \in DOMAIN ritems
                                                 /\ ritems'[k].states = New(k)
                                                 /\ ritems'[k].sv = gen.ver
                                                 /\ ritems'[k] = [states |-> New(k), sv |-> gen.ver]
    BY <1>1
  <1> HIDE DEF kept, Kept, New
  <1>7. \A k \in kept : k[2] = gen.id BY <1>4, <1>6
  \* Every declared row that is not stranded any more is in the table.
  <1>8. ASSUME NEW r \in run.rows, r \notin stranded' PROVE Held(r, DOMAIN run.spec.cols)
    <2>1. r \in Rows /\ Current(r) \in DOMAIN ritems /\ RowLeads(r) BY <1>2
    <2>2. RowItem(r).states = ritems[Current(r)].states BY <1>1, <2>1, RowItemIs
    <2> QED BY <1>1, <1>8, <2>1, <2>2 DEF RowLeads
  <1>9. RowTypes'
    <2> SUFFICES ASSUME NEW k \in DOMAIN ritems'
                 PROVE  k \in Rows \X (0..lastId) /\ ritems'[k] \in [states : RowItems(1), sv : Nat]
      BY <1>1 DEF RowTypes
    <2>1. k \in DOMAIN ritems /\ k[2] = gen.id /\ k \in kept BY <1>6, <1>7
    <2>2. New(k) \in RowItems(1) BY <1>5, <2>1
    <2> QED BY <1>1, <1>6, <2>1, <2>2 DEF RowTypes
  <1>10. ItemsTell'
    <2> SUFFICES ASSUME NEW k \in Trusted' PROVE ItemTells(k)' BY DEF ItemsTell
    <2>1. k \in kept /\ k \in DOMAIN ritems /\ k[2] = gen.id /\ k[1] \notin stranded'
      BY <1>6, <1>7 DEF Trusted, Present
    <2>2. k[1] \in run.rows /\ AllAre(New(k), DOMAIN run.spec.cols) BY <1>5, <2>1
    <2>3. Held(k[1], DOMAIN run.spec.cols) BY <1>8, <2>1, <2>2
    <2>4. \A cs : AllAre(New(k), cs) => cs = DOMAIN run.spec.cols BY <2>2 DEF AllAre
    <2>5. ritems'[k].states = New(k) /\ ritems'[k].sv = gen.ver /\ gen.ver \in Nat
      BY <1>1, <1>6, <2>1 DEF RowTypes
    <2> QED BY <1>1, <2>3, <2>4, <2>5 DEF ItemTells, Held, InTable
  \* Every row of the table is declared, or nobody looks for it.
  <1>11. ASSUME NEW r \in Rows \ forgotten, InTable(r) PROVE r \in run.rows
    <2>1. PICK k \in DOMAIN ritems : k[1] = r /\ k[2] = gen.id
      BY <1>1, <1>11, DesiredIs DEF RInv, RowsTracked, TrackedRow
    <2>2. RowLeads(r) BY <1>5, <2>1
    <2> QED BY <1>1, <1>11, <2>2 DEF RowLeads
  <1>12. RowsTracked'
    <2> SUFFICES ASSUME NEW r \in Rows \ forgotten, InTable(r)
                 PROVE  \E k \in DOMAIN ritems' : k[1] = r /\ k[2] = gen'.id
      BY <1>1 DEF RowsTracked, TrackedRow, InTable
    <2>1. r \in run.rows BY <1>11
    <2>2. Current(r) \in DOMAIN ritems /\ Current(r)[1] = r /\ Current(r)[2] = gen.id
      BY <1>2, <1>3, <2>1
    <2>3. Current(r) \in kept BY <1>5, <2>1, <2>2
    <2> QED BY <1>1, <1>6, <2>2, <2>3
  <1>13. SettledRowsMatch'
    <2> SUFFICES ASSUME run.spec = wish.spec, run.rows = wish.rows
                 PROVE  /\ \A r \in run.rows \ stranded' : Held(r, DOMAIN run.spec.cols)
                        /\ table # None => DOMAIN table.rows \subseteq run.rows \cup forgotten
      BY <1>1 DEF SettledRowsMatch, Held, InTable
    <2>1. table # None => DOMAIN table.rows \subseteq Rows BY <1>1 DEF IInv, TypeOK, DbTables
    <2> QED BY <1>8, <1>11, <2>1 DEF InTable
  <1>14. run'.pc = "idle" BY <1>1 DEF Idle
  <1> QED BY <1>9, <1>10, <1>12, <1>13, <1>14, NoRunLeads DEF RInv

LEMMA NextRows == ASSUME RowsInv, [Next]_vars PROVE RowsInv'
  <1>1. IInv' BY NextInv DEF RowsInv
  <1>2. ASSUME NEW spec \in Specs \cup {None}, NEW rows \in SUBSET Rows, Change(spec, rows)
        PROVE  RInv'
    BY <1>2, ChangeRows
  <1>3. ASSUME NEW full \in BOOLEAN, StartUpdate(full) PROVE RInv'
    BY <1>3, StartUpdateRows
  <1>4. ASSUME NEW c \in Cols, AlterColumn(c) \/ AlterSkipped(c) PROVE RInv'
    BY <1>4, AlterColumnRows, AlterSkippedRows
  <1>5. RInv'
    BY <1>1, <1>2, <1>3, <1>4, UserProvidesRows, TablePrecommitRows, DropTableRows, CreateTableRows,
       TableCommitRows, RowsPrecommitRows, ApplyRowsRows, RowsRefusedRows, RowsCommitRows,
       DropPrecommitRows, DropCommitRows, RowsDeleteRows, EndDropRows, InterruptRows, StutterRows
    DEF Next
  <1> QED BY <1>1, <1>5 DEF RowsInv

\* The inductive invariant with the rows: what their record and the table's
\* generation tell of the table's rows at any point of a run
\* (rust/core/src/engine/execution.rs:pre_commit, commit).
THEOREM RowsInvariant == Spec => []RowsInv
  <1>1. Init => RowsInv BY InitInv, InitRInv DEF RowsInv
  <1> QED BY <1>1, NextRows, PTL DEF Spec

\* After an update that succeeded the table holds the declared rows, every
\* column filled, and no others, whatever was dropped, altered, interrupted or
\* taken back before; but for stranded and forgotten rows
\* (sqlite.rs:RowHandler::reconcile, execution.rs:966).
THEOREM RowsMatch == Spec => []SettledRowsMatch
  <1>1. RowsInv => SettledRowsMatch BY DEF RowsInv, RInv
  <1> QED BY <1>1, RowsInvariant, PTL
=============================================================================
