---------------------------- MODULE ChMigrations ----------------------------
(***************************************************************************)
(* ClickHouse migrations (migrations/clickhouse/): commands that processes *)
(* run against one database, statement by statement.  ClickHouse has no    *)
(* transactions: a command that fails leaves what it has done, and nothing *)
(* keeps two commands apart.                                               *)
(*                                                                         *)
(* A table is known by its columns.  Types and engines, whose changes diff *)
(* reports and never generates, are left out; so is the creation of the    *)
(* history table, which every command begins with and which repeats well.  *)
(***************************************************************************)
EXTENDS Naturals, SequencesExt, FiniteSets

CONSTANTS Processes,
          Tables, Columns,
          Absent,       \* no such table
          Models,       \* what the code may declare: [Tables -> columns or Absent]
          ByHand,       \* migrations written by hand
          MaxCommands,  \* bound: commands
          MaxEdits,     \* bound: edits of models, migrations written, create_all
          MaxFailures   \* bound: statements that fail

Operation ==
    [op : {"create", "add", "drop", "droptable"}, table : Tables, cols : SUBSET Columns]
    \cup [op : {"raw"}, table : Tables, cols : SUBSET Columns, to : Columns]

ASSUME MigrationsAssumption ==
    /\ IsFiniteSet(Tables) /\ IsFiniteSet(Columns) /\ \A cols \in SUBSET Columns : cols # Absent
    /\ Models \subseteq [Tables -> {Absent} \cup SUBSET Columns]
    /\ ByHand \subseteq [up : Seq(Operation), down : Seq(Operation), byHand : {TRUE}]

VARIABLES models,     \* the declared models
          schema,     \* the live tables
          files,      \* the migrations directory; a revision is an index
          history,    \* the revisions in _alchemiq_migrations, which the
                      \* code reads as a set and removes with all their rows
          proc,       \* the command of every process
          commands, edits, failures,
          \* What has happened, for the properties only:
          unfinished, \* revisions that a failed command may have left halfway
          outside,    \* tables made or dropped other than by migrations, or
                      \* read by makemigrations when such a revision was theirs
          overlap     \* "none" while no two commands overlapped, "migrate"
                      \* while only commands migrate did, then "other"

migrationVars == <<models, schema, files, history, proc, commands, edits,
                   failures, unfinished, outside, overlap>>

(* plan are the revisions to go through, todo the statements of the first. *)
Idle == [cmd |-> "none", pc |-> "idle", plan |-> {}, todo |-> <<>>, tables |-> {}]

MigrationInit ==
    /\ models \in Models
    /\ schema = [t \in Tables |-> Absent]
    /\ files = <<>>
    /\ history = {}
    /\ proc = [p \in Processes |-> Idle]
    /\ commands = 0 /\ edits = 0 /\ failures = 0
    /\ unfinished = {} /\ outside = {} /\ overlap = "none"

-----------------------------------------------------------------------------
(* Operations and what the server makes of their SQL.                      *)

CreateTable(t, cols) == [op |-> "create", table |-> t, cols |-> cols]
AddColumn(t, c)      == [op |-> "add", table |-> t, cols |-> {c}]
DropColumn(t, c)     == [op |-> "drop", table |-> t, cols |-> {c}]
DropTable(t)         == [op |-> "droptable", table |-> t, cols |-> {}]

(* RawSQL is represented by RENAME COLUMN, which does not repeat. *)
RawSQL(t, from, to)  == [op |-> "raw", table |-> t, cols |-> {from}, to |-> to]

(* Variant: CREATE TABLE without IF NOT EXISTS. *)
RejectedAgain(op, db) ==
    \/ op.op = "create" /\ db[op.table] # Absent
    \/ op.op \in {"add", "drop", "raw"} /\ db[op.table] = Absent
    \/ op.op = "raw" /\ (~(op.cols \subseteq db[op.table]) \/ op.to \in db[op.table])

Rejected(op, db) ==
    \/ op.op \in {"add", "drop", "raw"} /\ db[op.table] = Absent
    \/ op.op = "raw" /\ (~(op.cols \subseteq db[op.table]) \/ op.to \in db[op.table])

(* IF NOT EXISTS and IF EXISTS are in the SQL of every operation. *)
Applied(op, db) ==
    CASE op.op = "create"    -> IF db[op.table] = Absent
                                THEN [db EXCEPT ![op.table] = op.cols] ELSE db
      [] op.op = "droptable" -> [db EXCEPT ![op.table] = Absent]
      [] op.op = "add"       -> [db EXCEPT ![op.table] = @ \cup op.cols]
      [] op.op = "drop"      -> [db EXCEPT ![op.table] = @ \ op.cols]
      [] op.op = "raw"       -> [db EXCEPT ![op.table] = (@ \ op.cols) \cup {op.to}]

InverseOf(op) ==
    IF op.op = "create" THEN DropTable(op.table) ELSE [op EXCEPT !.op = "drop"]

(* autogen.diff: the safe changes, of tables and columns that were read.   *)
Diff(tables, columns) ==
    LET declared == {t \in Tables : models[t] # Absent}
    IN SetToSeq({CreateTable(t, models[t]) : t \in declared \ tables}
                \cup UNION {{AddColumn(t, c) : c \in models[t] \ columns[t]} :
                            t \in declared \cap tables})

Generated(ops) ==
    [up |-> ops, down |-> [i \in DOMAIN ops |-> InverseOf(ops[i])], byHand |-> FALSE]

Pending(applied) == (DOMAIN files) \ applied

(* Revisions are taken in order. *)
First(plan) == CHOOSE r \in plan : \A s \in plan : r <= s

Latest(known) == CHOOSE r \in known : \A s \in known : s <= r

(* The tables that a migration touches. *)
TablesOf(file) ==
    {file.up[i].table : i \in DOMAIN file.up} \cup {file.down[i].table : i \in DOMAIN file.down}

-----------------------------------------------------------------------------
(* Commands.                                                               *)

Running(p) == proc[p].cmd # "none"

Ends(p) == proc' = [proc EXCEPT ![p] = Idle]

Goes(p, pc, plan, todo, tables) ==
    proc' = [proc EXCEPT ![p] = [cmd |-> @.cmd, pc |-> pc, plan |-> plan,
                                 todo |-> todo, tables |-> tables]]

(* Statements of one revision after the other. *)
Takes(p, plan) ==
    IF plan = {} THEN Ends(p)
    ELSE Goes(p, "run", plan, IF proc[p].cmd = "rollback" THEN files[First(plan)].down
                              ELSE files[First(plan)].up, {})

Begin(p, cmd) ==
    /\ ~Running(p) /\ commands < MaxCommands
    /\ proc' = [proc EXCEPT ![p] = [cmd |-> cmd, pc |-> "read", plan |-> {},
                                    todo |-> <<>>, tables |-> {}]]
    /\ commands' = commands + 1
    /\ overlap' = IF \A o \in Processes : ~Running(o) THEN overlap
                  ELSE IF overlap # "other" /\ \A o \in Processes : {cmd, proc[o].cmd} \subseteq {"migrate", "none"}
                  THEN "migrate" ELSE "other"
    /\ UNCHANGED <<models, schema, files, history, edits, failures, unfinished, outside>>

(* applied_revisions is read once; the directory is loaded at once after.  *)
ReadHistory(p) ==
    /\ proc[p].pc = "read"
    /\ LET known == history \cap DOMAIN files
       IN \/ proc[p].cmd = "migrate" /\ Takes(p, Pending(history))
          \/ proc[p].cmd = "rollback" /\ Takes(p, IF known = {} THEN {} ELSE {Latest(known)})
          \/ /\ proc[p].cmd = "makemigrations"
             /\ IF Pending(history) # {} THEN Ends(p) ELSE Goes(p, "tables", {}, <<>>, {})
    /\ UNCHANGED <<models, schema, files, history, commands, edits, failures,
                   unfinished, outside, overlap>>

Statement(p) ==
    /\ proc[p].pc = "run" /\ proc[p].todo # <<>>
    /\ LET op == Head(proc[p].todo)
       IN IF Rejected(op, schema)
          THEN /\ Ends(p)
               /\ unfinished' = unfinished \cup {First(proc[p].plan)}
               /\ UNCHANGED schema
          ELSE /\ schema' = Applied(op, schema)
               /\ Goes(p, "run", proc[p].plan, Tail(proc[p].todo), {})
               /\ UNCHANGED unfinished
    /\ UNCHANGED <<models, files, history, commands, edits, failures, outside, overlap>>

(* record_applied or remove_applied *)
Settled(cmd, revision) ==
    IF cmd = "rollback" THEN history \ {revision} ELSE history \cup {revision}

Settle(p) ==
    /\ proc[p].pc = "run" /\ proc[p].todo = <<>>
    /\ LET revision == First(proc[p].plan)
       IN /\ history' = Settled(proc[p].cmd, revision)
          /\ unfinished' = unfinished \ {revision}
          /\ Takes(p, proc[p].plan \ {revision})
    /\ UNCHANGED <<models, schema, files, commands, edits, failures, outside, overlap>>

(* A request fails, and the command with it.  The server may have carried  *)
(* it out.                                                                 *)
Fails(p) ==
    /\ Running(p) /\ failures < MaxFailures
    /\ failures' = failures + 1
    /\ Ends(p)
    /\ IF proc[p].pc = "run"
       THEN LET revision == First(proc[p].plan)
                todo     == proc[p].todo
            IN \/ /\ unfinished' = unfinished \cup {revision}
                  /\ UNCHANGED <<schema, history>>
               \/ /\ todo # <<>> /\ ~Rejected(Head(todo), schema)
                  /\ schema' = Applied(Head(todo), schema)
                  /\ unfinished' = unfinished \cup {revision}
                  /\ UNCHANGED history
               \/ /\ todo = <<>>
                  /\ history' = Settled(proc[p].cmd, revision)
                  /\ unfinished' = unfinished \ {revision}
                  /\ UNCHANGED schema
       ELSE UNCHANGED <<schema, history, unfinished>>
    /\ UNCHANGED <<models, files, commands, edits, outside, overlap>>

LiveTables(p) ==
    /\ proc[p].pc = "tables"
    /\ Goes(p, "columns", {}, <<>>, {t \in Tables : schema[t] # Absent})
    /\ UNCHANGED <<models, schema, files, history, commands, edits, failures,
                   unfinished, outside, overlap>>

(* A table dropped since live_tables has no columns. *)
ColumnsRead == [t \in Tables |-> IF schema[t] = Absent THEN {} ELSE schema[t]]

(* The revision after the last one in the directory. *)
Numbered(file) == Append(files, file)

LiveColumns(p) ==
    /\ proc[p].pc = "columns"
    /\ LET safe == Diff(proc[p].tables, ColumnsRead)
       IN /\ files' = IF safe = <<>> THEN files ELSE Numbered(Generated(safe))
          /\ outside' = outside \cup (TablesOf(Generated(safe))
                                     \cap UNION {TablesOf(files[r]) : r \in unfinished})
    /\ Ends(p)
    /\ UNCHANGED <<models, schema, history, commands, edits, failures,
                   unfinished, overlap>>

-----------------------------------------------------------------------------
(* Developers and applications.                                            *)

Edit == edits < MaxEdits /\ edits' = edits + 1

EditModels ==
    /\ Edit
    /\ models' \in Models \ {models}
    /\ UNCHANGED <<schema, files, history, proc, commands, failures, unfinished, outside, overlap>>

WriteByHand ==
    /\ Edit
    /\ \E file \in ByHand : files' = Append(files, file)
    /\ UNCHANGED <<models, schema, history, proc, commands, failures, unfinished, outside, overlap>>

(* create_clickhouse_tables, at the start of an application *)
CreateAll ==
    /\ Edit
    /\ LET made == {t \in Tables : schema[t] = Absent /\ models[t] # Absent}
       IN /\ schema' = [t \in Tables |-> IF t \in made THEN models[t] ELSE schema[t]]
          /\ outside' = outside \cup made
    /\ UNCHANGED <<models, files, history, proc, commands, failures, unfinished, overlap>>

(* drop_clickhouse_tables *)
DropAll ==
    /\ Edit
    /\ LET dropped == {t \in Tables : models[t] # Absent}
       IN /\ schema' = [t \in Tables |-> IF t \in dropped THEN Absent ELSE schema[t]]
          /\ outside' = outside \cup dropped
    /\ UNCHANGED <<models, files, history, proc, commands, failures, unfinished, overlap>>

MigrationNext ==
    \/ \E p \in Processes :
          \/ \E cmd \in {"migrate", "rollback", "makemigrations"} : Begin(p, cmd)
          \/ ReadHistory(p) \/ Statement(p) \/ Settle(p) \/ Fails(p)
          \/ LiveTables(p) \/ LiveColumns(p)
    \/ EditModels \/ WriteByHand \/ CreateAll \/ DropAll

MigrationSpec == MigrationInit /\ [][MigrationNext]_migrationVars

-----------------------------------------------------------------------------
(* Properties.                                                             *)

MigrationTypeOK ==
    /\ models \in Models
    /\ schema \in [Tables -> {Absent} \cup SUBSET Columns]
    /\ history \subseteq DOMAIN files
    /\ \A p \in Processes :
          /\ proc[p].pc \in {"idle", "read", "run", "tables", "columns"}
          /\ proc[p].plan \subseteq DOMAIN files
          /\ proc[p].pc = "run" <=> proc[p].plan # {}
    /\ unfinished \subseteq DOMAIN files /\ outside \subseteq Tables

(* What migrations make, one statement and one revision after the other.   *)
After(op, db) == IF Rejected(op, db) THEN db ELSE Applied(op, db)

AfterAll(ops, db) ==
    LET run[i \in 0..Len(ops)] == IF i = 0 THEN db ELSE After(ops[i], run[i - 1])
    IN run[Len(ops)]

Made(n) ==
    LET made[i \in 0..Len(files)] ==
            IF i = 0 THEN [t \in Tables |-> Absent] ELSE AfterAll(files[i].up, made[i - 1])
    IN made[n]

(* Revisions that some command is at work on. *)
Under == {First(proc[p].plan) : p \in {o \in Processes : proc[o].plan # {}}}

ByHandTables == UNION {TablesOf(files[r]) : r \in {f \in DOMAIN files : files[f].byHand}}

(* Tables that migrations do not have to themselves, or that a migration   *)
(* takes something from, which a slower process then adds again.           *)
Disturbed == outside \cup IF overlap = "none" THEN {} ELSE ByHandTables

(* Revisions are recorded in order. *)
HistoryInOrder == history = 1..Cardinality(history)

(* A table differs from what the recorded migrations make only while a     *)
(* command is at work on it, or one that failed on it was not repeated.    *)
TablesFollow(ts) ==
    LET made == Made(Cardinality(history))
    IN \A t \in ts : \/ schema[t] = made[t]
                     \/ \E r \in Under \cup unfinished : t \in TablesOf(files[r])

(* Repeating is never in vain: a generated statement is not rejected for   *)
(* what an earlier attempt did.                                            *)
NeverInVain(ts) ==
    \A p \in Processes : proc[p].todo # <<>> =>
        LET op == Head(proc[p].todo)
            revision == First(proc[p].plan)
        IN \/ files[revision].byHand \/ op.table \notin ts
           \/ \E r \in unfinished : r < revision /\ op.table \in TablesOf(files[r])
           \/ ~Rejected(op, schema)

(* The schema is what the recorded migrations make, in spite of commands   *)
(* that fail halfway and are run again and of processes that migrate at    *)
(* the same time.  None of this holds when rollback or makemigrations      *)
(* overlaps another command, nor for tables that the application makes or  *)
(* drops; when two migrate, only for tables that no migration takes        *)
(* columns from.  And a rollback that fails halfway has to be repeated     *)
(* before anything else: its revision is still recorded, so later ones     *)
(* find its tables gone, and makemigrations generates them once more.      *)
SchemaFollowsHistory ==
    overlap # "other" =>
        /\ HistoryInOrder
        /\ TablesFollow(Tables \ Disturbed)
        /\ NeverInVain(Tables \ Disturbed)
=============================================================================
