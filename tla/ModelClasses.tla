---------------------------- MODULE ModelClasses ----------------------------
(***************************************************************************)
(* Model classes in the making (model/base.py, model/pipeline.py,          *)
(* model/relationships.py): a program executes class statements, some of   *)
(* which are refused half way, and uses the classes it has.  What a        *)
(* statement leaves in the registries of other classes is the point here;  *)
(* columns matter for their names and for being the key.                   *)
(*                                                                         *)
(* A class is the number of its statement: a refused statement has made a  *)
(* class object all the same, which the registries may refer to.           *)
(***************************************************************************)
EXTENDS Naturals, Sequences, FiniteSets

CONSTANTS Statements,     \* class statements the program may execute
          MaxStatements   \* bound: statements executed

(* An annotation has a kind, a name and, if it is a relationship, a target, *)
(* the names of the reverse accessor and of the join table ("" if not      *)
(* given), and whether it is SQLAlchemy's own.                             *)
Annotation == [kind : STRING, name : STRING, target : STRING, back : STRING,
               join : STRING, native : BOOLEAN]

(* Annotations are a dictionary, by name. *)
ASSUME ModelClassesAssumption ==
    /\ MaxStatements \in Nat
    /\ \A stmt \in Statements :
          /\ stmt \in [name : STRING, table : STRING, schema : BOOLEAN,
                       injects : SUBSET STRING, body : Seq(Annotation)]
          /\ \A i, j \in DOMAIN stmt.body : stmt.body[i].name = stmt.body[j].name => i = j

VARIABLES classes,        \* the statements executed, and what came of each
          metadata        \* names of the tables in the shared MetaData

classVars == <<classes, metadata>>

-----------------------------------------------------------------------------
(* Class statements.                                                       *)

Relations == {"many_to_one", "many_to_many", "one_to_one"}

IsRelation(a) == a.kind \in Relations

Body(stmt) == {stmt.body[i] : i \in DOMAIN stmt.body}

RelationsOf(stmt) == {a \in Body(stmt) : IsRelation(a)}

(* _inject_structural: a flag of Meta owns the column that it injects. *)
Claimed(stmt) == stmt.injects \cap {a.name : a \in Body(stmt)} # {}

TableKey(stmt) == IF stmt.schema THEN "schema." \o stmt.table ELSE stmt.table

(* Names that a statement has bound, and the class of each.                *)
Bound(cs) == {cs[c].stmt.name : c \in {d \in DOMAIN cs : cs[d].accepted}}

ClassOf(cs, self, name) ==
    IF name = cs[self].stmt.name THEN self
    ELSE CHOOSE c \in DOMAIN cs : cs[c].accepted /\ cs[c].stmt.name = name

NewClass(stmt) ==
    [stmt |-> stmt, accepted |-> FALSE, mapped |-> FALSE, rels |-> <<>>, seen |-> 0]

-----------------------------------------------------------------------------
(* One annotation after the other.  A statement under way is a record of   *)
(* the registries, whether a key has been declared, and whether all is ok. *)

Self(w) == Len(w.classes)

Refuse(w) == [w EXCEPT !.ok = FALSE]

Mirror(kind) == IF kind = "many_to_one" THEN "one_to_many" ELSE kind

(* Variant: the name is looked up among the relationships of the class     *)
(* that declares it.                                                       *)
TakenAtHome(w, t, back) == back \in DOMAIN w.classes[Self(w)].rels

(* The reverse accessor is looked up among the relationships of the        *)
(* target, not among its columns.                                          *)
Taken(w, t, back) == back \in DOMAIN w.classes[t].rels

(* _target_pk: a native key raises; in the class under way it is not       *)
(* known to be a key before the class is mapped.                           *)
KeysIn(stmt) == SelectSeq(stmt.body, LAMBDA a : a.kind \in {"pk", "native_pk"})

Referable(w, t) ==
    IF t = Self(w) THEN w.keyed
    ELSE Head(KeysIn(w.classes[t].stmt)).kind = "pk"

(* The reverse of a one-to-one has the name of the class, whatever is set. *)
Back(stmt, a) ==
    IF a.native THEN a.back
    ELSE IF a.kind = "one_to_one" THEN stmt.name
    ELSE IF a.back # "" THEN a.back ELSE stmt.name \o "_set"

(* The table names in either order: the same name from both sides.         *)
JoinTable(a, here, there) ==
    IF a.join # "" THEN a.join
    ELSE CHOOSE n \in {here.table \o "_" \o there.table, there.table \o "_" \o here.table} : TRUE

JoinOf(w, a, t) == JoinTable(a, w.classes[Self(w)].stmt, w.classes[t].stmt)

Entered(rels, name, info) ==
    [n \in DOMAIN rels \cup {name} |-> IF n = name THEN info ELSE rels[n]]

(* Both ends are registered when the statement comes to the annotation.    *)
Wire(w, a, t, back, joins) ==
    LET here  == [to |-> t, kind |-> a.kind]
        there == [to |-> Self(w), kind |-> Mirror(a.kind)]
        one   == [w.classes EXCEPT ![Self(w)].rels = Entered(@, a.name, here)]
    IN [w EXCEPT !.classes = [one EXCEPT ![t].rels = Entered(@, back, there)],
                 !.metadata = @ \cup joins]

BuildManyToOne(w, a, t, back) ==
    IF Taken(w, t, back) \/ ~Referable(w, t) THEN Refuse(w) ELSE Wire(w, a, t, back, {})

BuildManyToMany(w, a, t, back) ==
    IF \/ t = Self(w) \/ Taken(w, t, back) \/ JoinOf(w, a, t) \in w.metadata
       \/ ~Referable(w, Self(w)) \/ ~Referable(w, t)
    THEN Refuse(w) ELSE Wire(w, a, t, back, {JoinOf(w, a, t)})

BuildOneToOne(w, a, t, back) ==
    IF Taken(w, t, back) \/ ~Referable(w, t) THEN Refuse(w) ELSE Wire(w, a, t, back, {})

(* prepare_fields, for one annotation: what SQLAlchemy owns is left alone, *)
(* and an annotation that is neither a field nor a relationship raises.    *)
BuildAnnotation(w, a) ==
    IF ~w.ok \/ a.native THEN w
    ELSE IF IsRelation(a)
         THEN LET t    == ClassOf(w.classes, Self(w), a.target)
                  back == Back(w.classes[Self(w)].stmt, a)
              IN CASE a.kind = "many_to_one"  -> BuildManyToOne(w, a, t, back)
                   [] a.kind = "many_to_many" -> BuildManyToMany(w, a, t, back)
                   [] a.kind = "one_to_one"   -> BuildOneToOne(w, a, t, back)
         ELSE [w EXCEPT !.ok = a.kind # "unknown", !.keyed = @ \/ a.kind = "pk"]

Begun(cs, md, stmt) ==
    [classes |-> Append(cs, NewClass(stmt)), metadata |-> md,
     keyed |-> FALSE, ok |-> ~Claimed(stmt)]

Prepared(cs, md, stmt) ==
    LET w[i \in 0..Len(stmt.body)] ==
            IF i = 0 THEN Begun(cs, md, stmt) ELSE BuildAnnotation(w[i - 1], stmt.body[i])
    IN w[Len(stmt.body)]

(* SQLAlchemy makes the table, under a name that must be new, and then the *)
(* mapper, which wants a key.                                              *)
MapClass(w) ==
    LET stmt == w.classes[Self(w)].stmt
    IN IF ~w.ok \/ TableKey(stmt) \in w.metadata THEN Refuse(w)
       ELSE [w EXCEPT !.metadata = @ \cup {TableKey(stmt)},
                      !.ok = KeysIn(stmt) # <<>>,
                      !.classes[Self(w)].mapped = KeysIn(stmt) # <<>>]

(* Last of all, and when the class is mapped, its passwords are counted.   *)
OnePassword(stmt) == Cardinality({a \in Body(stmt) : a.kind = "password"}) <= 1

Executed(cs, md, stmt) ==
    LET w == MapClass(Prepared(cs, md, stmt))
    IN [classes  |-> [w.classes EXCEPT ![Self(w)].accepted = w.ok /\ OnePassword(stmt)],
        metadata |-> w.metadata]

-----------------------------------------------------------------------------
(* What SQLAlchemy makes of the mapped classes.  That Python may collect a *)
(* class which no name and no registry refers to is left out.              *)

MappedOf(cs) == {c \in DOMAIN cs : cs[c].mapped}

(* The relationships of a class: its own, and the reverse accessors of     *)
(* others.  since is the class that brings it about.                       *)
SqlRelations(cs, c) ==
    {[name |-> a.name, to |-> ClassOf(cs, c, a.target), kind |-> a.kind,
      native |-> a.native, since |-> c] : a \in RelationsOf(cs[c].stmt)}
    \cup
    UNION {{[name |-> Back(cs[e].stmt, a), to |-> e, kind |-> Mirror(a.kind),
             native |-> a.native, since |-> e] :
                a \in {b \in RelationsOf(cs[e].stmt) :
                          ClassOf(cs, e, b.target) = c /\ (b.native => b.back # "")}} :
           e \in MappedOf(cs)}

ColumnsOf(stmt) ==
    stmt.injects \cup {a.name : a \in Body(stmt) \ RelationsOf(stmt)}
    \cup {a.name \o "_id" : a \in {b \in RelationsOf(stmt) :
                                      ~b.native /\ b.kind # "many_to_many"}}

(* Foreign keys name the table of their target without its schema, and     *)
(* relationships the class of their target by its name alone.              *)
Misses(cs, c) ==
    \E a \in RelationsOf(cs[c].stmt) :
        /\ ~a.native
        /\ \/ cs[ClassOf(cs, c, a.target)].stmt.schema
           \/ (a.kind = "many_to_many" /\ cs[c].stmt.schema)
           \/ \E d \in MappedOf(cs) \ {ClassOf(cs, c, a.target)} : cs[d].stmt.name = a.target

(* configure_mappers() *)
Configures(cs) ==
    \A c \in MappedOf(cs) :
        /\ ~Misses(cs, c)
        /\ \A r \in SqlRelations(cs, c) :
              /\ r.name \notin ColumnsOf(cs[c].stmt)
              /\ \A s \in SqlRelations(cs, c) : r.name = s.name => r = s

-----------------------------------------------------------------------------
ClassInit == classes = <<>> /\ metadata = {}

(* Python looks the targets up when it evaluates the annotations.  A       *)
(* statement that succeeded may be executed again, as by a reload; that a  *)
(* name is bound to a second table is left out.                            *)
Declare(stmt) ==
    /\ Len(classes) < MaxStatements
    /\ stmt.name \in Bound(classes) => TableKey(stmt) \in metadata
    /\ \A a \in RelationsOf(stmt) : a.target \in Bound(classes) \cup {stmt.name}
    /\ classes' = Executed(classes, metadata, stmt).classes
    /\ metadata' = Executed(classes, metadata, stmt).metadata

(* register_native_relationships, once for a class: when a query on it is  *)
(* compiled, or a relationship that is not loaded is read.                 *)
Register(c) ==
    /\ classes[c].accepted /\ classes[c].seen = 0
    /\ Configures(classes)
    /\ LET new  == {r \in SqlRelations(classes, c) : r.name \notin DOMAIN classes[c].rels}
           rels == [n \in DOMAIN classes[c].rels \cup {r.name : r \in new} |->
                       IF n \in DOMAIN classes[c].rels THEN classes[c].rels[n]
                       ELSE LET r == CHOOSE s \in new : s.name = n
                            IN [to |-> r.to, kind |-> r.kind]]
       IN classes' = [classes EXCEPT ![c].rels = rels, ![c].seen = Len(classes)]
    /\ UNCHANGED metadata

ClassNext ==
    \/ \E stmt \in Statements : Declare(stmt)
    \/ \E c \in DOMAIN classes : Register(c)

ClassSpec == ClassInit /\ [][ClassNext]_classVars

-----------------------------------------------------------------------------
(* Properties.                                                             *)

(* Types; a class that is bound to its name is mapped and has a table.     *)
ClassTypeOK ==
    /\ \A c \in DOMAIN classes :
          LET class == classes[c]
          IN /\ class.stmt \in Statements /\ class.seen \in c..Len(classes) \cup {0}
             /\ class.accepted => class.mapped
             /\ \A n \in DOMAIN class.rels :
                   class.rels[n] \in [to : DOMAIN classes, kind : Relations \cup {"one_to_many"}]
    /\ {TableKey(classes[c].stmt) : c \in MappedOf(classes)} \subseteq metadata

(* An entry of a registry is the relationship that SQLAlchemy maps.        *)
EntriesAreMapped(cs) ==
    \A c \in MappedOf(cs) : \A n \in DOMAIN cs[c].rels :
        LET info == cs[c].rels[n]
        IN cs[info.to].mapped =>
              \E r \in SqlRelations(cs, c) :
                  r.name = n /\ r.to = info.to /\ r.kind = info.kind

(* Every relationship is registered: at once if the library made it, else  *)
(* from the first use of the class on.                                     *)
AllRegistered(cs) ==
    \A c \in MappedOf(cs) : \A r \in SqlRelations(cs, c) :
        ~r.native \/ r.since <= cs[c].seen => r.name \in DOMAIN cs[c].rels

(* No two relationships that the library made have one name on a class,    *)
(* unless the class refers to itself under it.                             *)
NoneClash(cs) ==
    \A c \in MappedOf(cs) : \A r, s \in SqlRelations(cs, c) :
        ~r.native /\ ~s.native /\ r.name = s.name =>
            r = s \/ c \in {r.to, s.to}

(* Whatever the order in which the accepted classes are declared, and      *)
(* without the refused ones, all are accepted and related in the same way. *)
Related(cs) ==
    UNION {{<<cs[c].stmt.name, r.name, cs[r.to].stmt.name, r.kind>> :
               r \in {s \in SqlRelations(cs, c) :
                         /\ ~s.native /\ cs[s.to].accepted
                         /\ s.name \in DOMAIN cs[c].rels
                         /\ cs[c].rels[s.name] = [to |-> s.to, kind |-> s.kind]}} :
           c \in {d \in DOMAIN cs : cs[d].accepted}}

Replay(stmts) ==
    LET w[i \in 0..Len(stmts)] ==
            IF i = 0 THEN [classes |-> <<>>, metadata |-> {}]
            ELSE Executed(w[i - 1].classes, w[i - 1].metadata, stmts[i])
    IN w[Len(stmts)].classes

OrderIrrelevant(cs) ==
    LET kept == {c \in DOMAIN cs : cs[c].accepted}
        orders == {p \in [1..Cardinality(kept) -> kept] :
                      /\ \A i, j \in DOMAIN p : i # j => p[i] # p[j]
                      /\ \A i \in DOMAIN p : \A a \in RelationsOf(cs[p[i]].stmt) :
                            \E j \in 1..i : cs[p[j]].stmt.name = a.target}
    IN \A p \in orders :
          LET again == Replay([i \in DOMAIN p |-> cs[p[i]].stmt])
          IN /\ \A i \in DOMAIN again : again[i].accepted
             /\ Related(again) = Related(cs)

(* The registries, which queries resolve names by, tell the truth about    *)
(* the mappers, however many class statements have been refused half way   *)
(* and in whichever order modules were imported.                           *)
RegistryTruthful ==
    /\ EntriesAreMapped(classes)
    /\ AllRegistered(classes)
    /\ NoneClash(classes)
    /\ OrderIrrelevant(classes)
=============================================================================
