---------------------------- MODULE MCClickHouse ----------------------------
(* Instances for model checking of machines that share no state: commands  *)
(* on ClickHouse migrations, a process's client, a table, and the class    *)
(* statements of a program.  A behaviour is one of one of them.            *)
EXTENDS ChMigrations, ChConnection, ChTable, ModelClasses, TLC

SomeModels == {[t |-> {"a"}, u |-> Absent], [t |-> {"a", "b"}, u |-> {"a"}]}

(* Drops a column and renames another, and back. *)
SomeByHand ==
    {[up   |-> <<DropColumn("t", "a"), RawSQL("t", "b", "c")>>,
      down |-> <<RawSQL("t", "c", "b"), AddColumn("t", "a")>>, byHand |-> TRUE]}

SomeKeys == {<<1, 1>>, <<1, 2>>}

Symmetry == Permutations(Processes) \cup Permutations(Writers)

Field(kind, name) ==
    [kind |-> kind, name |-> name, target |-> "", back |-> "", join |-> "", native |-> FALSE]

Relation(kind, name, target, back, join) ==
    [Field(kind, name) EXCEPT !.target = target, !.back = back, !.join = join]

Class(name, body) ==
    [name |-> name, table |-> name, schema |-> FALSE, injects |-> {}, body |-> body]

Id == Field("pk", "id")

ManyTags == Relation("many_to_many", "tags", "tag", "", "")

(* Class statements that succeed, that are refused at once, half way and   *)
(* after the class was mapped, and that refer to each other in every way.  *)
SomeStatements ==
    {Class("tag", <<Id>>),
     [Class("tag", <<Id>>) EXCEPT !.schema = TRUE],
     Class("tag", <<Id, Field("column", "post_set")>>),
     Class("post", <<Id, ManyTags, Relation("many_to_one", "main", "tag", "mains", "")>>),
     Class("post", <<Id, ManyTags, Field("unknown", "title")>>),
     Class("post", <<Id, Relation("many_to_one", "tag", "tag", "", ""),
                     Field("password", "old"), Field("password", "new")>>),
     Class("post", <<Field("native_pk", "id"), ManyTags>>),
     [Class("post", <<Id, Relation("many_to_one", "tag", "tag", "owned", "")>>)
         EXCEPT !.table = "posts"],
     Class("node", <<Id, Relation("many_to_one", "parent", "node", "", ""),
                     Relation("many_to_one", "node_set", "tag", "", "")>>),
     Class("node", <<Id, Relation("one_to_one", "tag", "tag", "", ""),
                     Relation("many_to_many", "posts", "post", "", "post_tag")>>),
     Class("node", <<Id, [Relation("many_to_one", "tag", "tag", "post_set", "")
                             EXCEPT !.native = TRUE]>>),
     [Class("node", <<Id, Field("column", "deleted_at")>>) EXCEPT !.injects = {"deleted_at"}],
     Class("post_tag", <<Id, Relation("many_to_one", "post", "post", "tagged", ""),
                         Relation("one_to_one", "tag", "tag", "", "")>>)}

NoMigrations == MigrationInit /\ models = [t |-> {"a"}, u |-> Absent]
NoConnection == ConnectionInit
NoTable      == TableInit /\ engine = "plain"
NoClasses    == ClassInit

Init ==
    /\ MigrationInit /\ ConnectionInit /\ TableInit /\ ClassInit
    /\ NoMigrations \/ NoTable

Next ==
    \/ /\ NoConnection /\ NoTable /\ NoClasses /\ MigrationNext
       /\ UNCHANGED <<connectionVars, tableVars, classVars>>
    \/ /\ NoMigrations /\ NoTable /\ NoClasses /\ ConnectionNext
       /\ UNCHANGED <<migrationVars, tableVars, classVars>>
    \/ /\ NoMigrations /\ NoConnection /\ NoClasses /\ TableNext
       /\ UNCHANGED <<migrationVars, connectionVars, classVars>>
    \/ /\ NoMigrations /\ NoConnection /\ NoTable /\ ClassNext
       /\ UNCHANGED <<migrationVars, connectionVars, tableVars>>

Spec == Init /\ [][Next]_<<migrationVars, connectionVars, tableVars, classVars>>

(* Types of the four. *)
TypeOK == MigrationTypeOK /\ ConnectionTypeOK /\ TableTypeOK /\ ClassTypeOK
=============================================================================
