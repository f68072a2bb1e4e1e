----------------------------- MODULE MCQueries ------------------------------
(* Instances of QuerySets and CursorWalk for model checking: one client,   *)
(* which either composes queries or walks over a table.                    *)
EXTENDS QuerySets, CursorWalk, TLC

Lookup1(path, op, args) == [path |-> path, op |-> op, arg |-> args]

(* A model with a to-many relationship, another to the same table, and a   *)
(* self-reference; its primary key is a UUID.  The last three leaves are   *)
(* refused when they are compiled, and pk <> NULL when it is decoded.      *)
SomeLeaves ==
    {Lookup1(<<"val">>, "exact", <<1>>), Lookup1(<<"val">>, "gt", <<1>>),
     Lookup1(<<"val">>, "isnull", <<>>), Lookup1(<<"val">>, "in", <<1, Null>>),
     Lookup1(<<"pk">>, "ne", <<Null>>),
     Lookup1(<<"tags", "name">>, "exact", <<1>>),
     Lookup1(<<"labels", "name">>, "ne", <<1>>),
     Lookup1(<<"parent", "val">>, "exact", <<1>>),
     Lookup1(<<"val">>, "gt", <<Null>>),
     Lookup1(<<"parent", "parent", "val">>, "exact", <<1>>),
     Lookup1(<<"tags", "item", "val">>, "exact", <<1>>)}

SomeTarget ==
    (<<"item", "tags">> :> "tag") @@ (<<"item", "labels">> :> "tag")
    @@ (<<"item", "parent">> :> "item") @@ (<<"tag", "item">> :> "item")

SomeFields == [item |-> {"pk", "val"}, tag |-> {"name"}]

SomeTyped == [item |-> {"pk"}, tag |-> {}]

Tags(names) == {[name |-> n, dead |-> FALSE] : n \in names}

Item(pk, v, d) == [pk |-> pk, val |-> v, dead |-> d]

Row(v, d, tags, labels, parent) ==
    [val |-> v, dead |-> d,
     related |-> [tags |-> Tags(tags), labels |-> Tags(labels), parent |-> parent]]

(* Rows with no, one and two tags, a NULL, children of live rows and of a  *)
(* tombstone; two rows that differ in nothing but the key.                 *)
SomeTables ==
    {<<Row(1, FALSE, {1, 2}, {}, {}),
       Row(2, FALSE, {1}, {2}, {Item(1, 1, FALSE)}),
       Row(Null, FALSE, {}, {1}, {Item(2, 2, FALSE)})>>,
     <<Row(1, TRUE, {2}, {2}, {}),
       Row(1, FALSE, {1, 2}, {}, {Item(1, 1, TRUE)}),
       Row(2, FALSE, {}, {1}, {Item(1, 1, TRUE)})>>,
     <<Row(1, FALSE, {}, {}, {}), Row(1, FALSE, {}, {}, {})>>}

SomeOrders == {<<>>, <<Asc("val")>>, <<Desc("val"), Asc("pk")>>}

NoWalk ==
    /\ table = [r \in Rows |-> Absent] /\ order = <<>> /\ size = 1 /\ repeated = {}
    /\ page = NoPage /\ changes = MaxChanges
    /\ mark = [r \in Rows |-> "free"] /\ twice = {}

NoQueries ==
    /\ soft = FALSE /\ rows = (CHOOSE t \in Tables : TRUE)
    /\ q = Unset /\ qs = NewQuerySet /\ calls = MaxCalls

Init == (QueryInit /\ NoWalk) \/ (WalkInit /\ NoQueries)

Next == (QueryNext /\ UNCHANGED walkVars) \/ (WalkNext /\ UNCHANGED queryVars)

Spec == Init /\ [][Next]_<<queryVars, walkVars>>

(* Types of both machines. *)
TypeOK == QueryTypeOK /\ WalkTypeOK
=============================================================================
