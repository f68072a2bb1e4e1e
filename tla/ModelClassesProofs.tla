------------------------- MODULE ModelClassesProofs -------------------------
(***************************************************************************)
(* Proofs about ModelClasses, for any set of class statements: its types,  *)
(* and RegistryTruthful.                                                   *)
(*                                                                         *)
(* A statement goes from annotation to annotation, so first comes what one *)
(* annotation does to the registries (BuildIs), then what all up to the    *)
(* J-th have done (Shape, PreparedReached), then what the statement does   *)
(* as a whole (Outcome, ExecutedIs).  With that Sound, which is about all  *)
(* classes and tables at once, is inductive.  It says more than the        *)
(* property: that a class is Whole, all that it declares registered at     *)
(* both ends, that two are Apart, neither wanting a name or a table of the *)
(* other's, and that what refused statements left is accounted for.        *)
(* Whole and Apart speak of statements, not of the order they came in,     *)
(* which is why the accepted ones can be executed in another (AgainNext),  *)
(* and why the same relationships come of it (RelatedIs).                  *)
(***************************************************************************)
EXTENDS ModelClasses, TLAPS, FiniteSetTheorems, NaturalsInduction, WellFoundedInduction

-----------------------------------------------------------------------------
(* Induction, for sets of numbers, and functions that it defines.          *)

(* A set of numbers that is not empty has a least one. *)
LEMMA Smallest ==
    ASSUME NEW T \in SUBSET Nat, T # {}
    PROVE  \E x \in T : \A y \in T : x <= y
<1>1. PICK x \in T : \A y \in T : ~(<<y, x>> \in OpToRel(<, Nat))
  BY NatLessThanWellFounded, WFMin
<1>2. ASSUME NEW y \in T PROVE x <= y
  <2>1. x \in Nat /\ y \in Nat
    OBVIOUS
  <2>2. ~(y < x)
    BY <1>1, <2>1 DEF OpToRel
  <2>3. QED
    BY <2>1, <2>2
<1>3. QED
  BY <1>2

(* Induction up to N, for a set instead of a predicate. *)
LEMMA Induct ==
    ASSUME NEW N \in Nat, NEW P, 0 \in P, \A i \in 1..N : i - 1 \in P => i \in P
    PROVE  \A i \in 0..N : i \in P
<1> DEFINE Rest == (0..N) \ P
<1>1. CASE Rest # {}
  <2>1. Rest \in SUBSET Nat
    OBVIOUS
  <2> HIDE DEF Rest
  <2>2. PICK x \in Rest : \A y \in Rest : x <= y
    BY <1>1, <2>1, Smallest
  <2> USE DEF Rest
  <2>3. x \in 1..N
    BY <2>2
  <2>4. x - 1 \in P
    BY <2>2, <2>3
  <2>5. QED
    BY <2>2, <2>3, <2>4
<1>2. QED
  BY <1>1

(* f is what g makes of a, step after step. *)
Iterates(f, N, D, a, g) ==
    f \in [0..N -> D] /\ f[0] = a /\ \A i \in 1..N : f[i] = g[i][f[i - 1]]

(* Such an f exists for every g. *)
LEMMA Iterated ==
    ASSUME NEW N \in Nat, NEW D, NEW a \in D, NEW g \in [1..N -> [D -> D]]
    PROVE  \E f : Iterates(f, N, D, a, g)
<1> DEFINE Reached(n) == \E f \in [0..n -> D] : f[0] = a /\ \A i \in 1..n : f[i] = g[i][f[i - 1]]
           P == {n \in 0..N : Reached(n)}
<1>1. Reached(0)
  <2> DEFINE f == [i \in 0..0 |-> a]
  <2>1. f \in [0..0 -> D] /\ f[0] = a /\ \A i \in 1..0 : f[i] = g[i][f[i - 1]]
    OBVIOUS
  <2>2. QED
    BY <2>1
<1>2. ASSUME NEW n \in 1..N, Reached(n - 1) PROVE Reached(n)
  <2>1. PICK e \in [0..(n - 1) -> D] : e[0] = a /\ \A i \in 1..(n - 1) : e[i] = g[i][e[i - 1]]
    BY <1>2
  <2> DEFINE f == [i \in 0..n |-> IF i = n THEN g[n][e[n - 1]] ELSE e[i]]
  <2>2. n - 1 \in 0..(n - 1)
    OBVIOUS
  <2>3. g[n] \in [D -> D] /\ e[n - 1] \in D
    BY <2>2
  <2>4. f \in [0..n -> D]
    BY <2>2, <2>3
  <2>5. f[0] = a
    BY <2>1, <2>2
  <2>6. ASSUME NEW i \in 1..n PROVE f[i] = g[i][f[i - 1]]
    <3>1. f[i - 1] = e[i - 1] /\ i - 1 \in 0..(n - 1)
      BY <2>2
    <3>2. CASE i = n
      BY <3>1, <3>2
    <3>3. CASE i # n
      BY <2>1, <3>1, <3>3
    <3>4. QED
      BY <3>2, <3>3
  <2> HIDE DEF f
  <2>7. QED
    BY <2>4, <2>5, <2>6
<1> HIDE DEF Reached
<1>3. 0 \in P /\ \A i \in 1..N : i - 1 \in P => i \in P
  BY <1>1, <1>2
<1> HIDE DEF P
<1>4. N \in P
  <2>1. \A i \in 0..N : i \in P
    BY <1>3, Induct
  <2>2. QED
    BY <2>1
<1>5. Reached(N)
  BY <1>4 DEF P
<1>6. QED
  <2>1. PICK f \in [0..N -> D] : f[0] = a /\ \A i \in 1..N : f[i] = g[i][f[i - 1]]
    BY <1>5 DEF Reached
  <2>2. QED
    BY <2>1 DEF Iterates

-----------------------------------------------------------------------------
(* Types.                                                                  *)

(* Names of entries, and what is entered. *)
Names ==
    UNION {{a.name : a \in Body(s)} \cup {Back(s, a) : a \in Body(s)} : s \in Statements}

(* Kinds of entries: the reverse of many-to-one is one-to-many. *)
Kinds == Relations \cup {"one_to_many"}

Info == [to : Nat, kind : Kinds]

Registry == UNION {[D -> Info] : D \in SUBSET Names}

Class ==
    [stmt : Statements, accepted : BOOLEAN, mapped : BOOLEAN, rels : Registry, seen : Nat]

TableNames ==
    {TableKey(s) : s \in Statements}
    \cup UNION {{JoinTable(a, s, t) : a \in Body(s), t \in Statements} : s \in Statements}

Work == [classes : Seq(Class), metadata : SUBSET TableNames, keyed : BOOLEAN, ok : BOOLEAN]

(* The annotations of a statement, by position and by name. *)
LEMMA BodyIs ==
    ASSUME NEW s \in Statements
    PROVE  /\ Len(s.body) \in Nat /\ DOMAIN s.body = 1..Len(s.body)
           /\ \A j \in 1..Len(s.body) : s.body[j] \in Body(s) /\ s.body[j] \in Annotation
           /\ \A a \in Body(s) : a \in Annotation /\ \E j \in 1..Len(s.body) : a = s.body[j]
           /\ \A a, b \in Body(s) : a.name = b.name => a = b
<1>1. s.body \in Seq(Annotation)
  BY ModelClassesAssumption
<1>2. \A i, j \in DOMAIN s.body : s.body[i].name = s.body[j].name => i = j
  BY ModelClassesAssumption
<1>3. Len(s.body) \in Nat /\ DOMAIN s.body = 1..Len(s.body)
  BY <1>1
<1>4. \A j \in 1..Len(s.body) : s.body[j] \in Body(s) /\ s.body[j] \in Annotation
  BY <1>1, <1>3 DEF Body
<1>5. \A a \in Body(s) : \E j \in 1..Len(s.body) : a = s.body[j]
  BY <1>3 DEF Body
<1>6. \A a \in Body(s) : a \in Annotation
  BY <1>4, <1>5
<1>7. ASSUME NEW a \in Body(s), NEW b \in Body(s), a.name = b.name PROVE a = b
  <2>1. PICK i \in DOMAIN s.body : a = s.body[i]
    BY <1>3, <1>5
  <2>2. PICK j \in DOMAIN s.body : b = s.body[j]
    BY <1>3, <1>5
  <2>3. i = j
    BY <1>2, <1>7, <2>1, <2>2
  <2>4. QED
    BY <2>1, <2>2, <2>3
<1>8. QED
  BY <1>3, <1>4, <1>5, <1>6, <1>7

(* The names that an annotation may enter. *)
LEMMA NamesAre ==
    ASSUME NEW s \in Statements, NEW a \in Body(s)
    PROVE  a.name \in Names /\ Back(s, a) \in Names
  BY DEF Names

(* The tables that a statement may make. *)
LEMMA TablesAre ==
    ASSUME NEW s \in Statements
    PROVE  /\ TableKey(s) \in TableNames
           /\ \A a \in Body(s), t \in Statements : JoinTable(a, s, t) \in TableNames
  BY DEF TableNames

(* Both ends of a relationship have a kind. *)
LEMMA KindsAre ==
    ASSUME NEW a, IsRelation(a)
    PROVE  a.kind \in Kinds /\ Mirror(a.kind) \in Kinds
  BY DEF IsRelation, Kinds, Mirror, Relations

(* An entry adds to a registry, or replaces. *)
LEMMA EnteredIs ==
    ASSUME NEW r \in Registry, NEW n \in Names, NEW i \in Info
    PROVE  /\ Entered(r, n, i) \in Registry
           /\ DOMAIN Entered(r, n, i) = DOMAIN r \cup {n}
           /\ Entered(r, n, i)[n] = i
           /\ \A m \in DOMAIN r : m # n => Entered(r, n, i)[m] = r[m]
<1>1. PICK D \in SUBSET Names : r \in [D -> Info]
  BY DEF Registry
<1>2. Entered(r, n, i) \in [D \cup {n} -> Info]
  BY <1>1 DEF Entered
<1>3. D \cup {n} \in SUBSET Names
  OBVIOUS
<1>4. QED
  BY <1>1, <1>2, <1>3 DEF Registry, Entered

(* A registry maps names to entries. *)
LEMMA RegistryIs ==
    ASSUME NEW r \in Registry
    PROVE  /\ DOMAIN r \subseteq Names /\ r = [n \in DOMAIN r |-> r[n]]
           /\ \A n \in DOMAIN r : r[n] \in Info
  BY DEF Registry

(* A new class has entered nothing. *)
LEMMA NothingEntered == <<>> \in Registry /\ DOMAIN <<>> = {}
<1>1. <<>> \in [{} -> Info]
  OBVIOUS
<1>2. QED
  BY <1>1 DEF Registry

(* What a statement begins with. *)
LEMMA NewClassIs ==
    ASSUME NEW s \in Statements
    PROVE  /\ NewClass(s) \in Class /\ NewClass(s).stmt = s /\ ~NewClass(s).accepted
           /\ ~NewClass(s).mapped /\ NewClass(s).rels = <<>> /\ NewClass(s).seen = 0
  BY NothingEntered DEF NewClass, Class

-----------------------------------------------------------------------------
(* Names and the classes that they mean.                                   *)

(* Classes that differ in their registries at most. *)
Like(x, y) ==
    x.stmt = y.stmt /\ x.accepted = y.accepted /\ x.mapped = y.mapped /\ x.seen = y.seen

(* Class by class. *)
Alike(ds, cs) == Len(ds) = Len(cs) /\ \A c \in 1..Len(cs) : Like(ds[c], cs[c])

(* A statement under way, the last of cs. *)
Frame(cs) == {w \in Work : Alike(w.classes, cs)}

(* A name is bound to one class. *)
Unique(cs) ==
    \A c, d \in 1..Len(cs) :
        cs[c].accepted /\ cs[d].accepted /\ cs[c].stmt.name = cs[d].stmt.name => c = d

(* In the statement of class c, the name stands for class t. *)
Means(cs, c, name, t) ==
    /\ t \in 1..c
    /\ IF name = cs[c].stmt.name THEN t = c ELSE cs[t].accepted /\ cs[t].stmt.name = name

(* All targets of class c are there. *)
Resolved(cs, c) == \A a \in RelationsOf(cs[c].stmt) : \E t : Means(cs, c, a.target, t)

(* Relationships that the library makes. *)
Link(a) == IsRelation(a) /\ ~a.native

(* Of the j-th annotation of class c: its target, and its reverse. *)
Ann(cs, c, j)  == cs[c].stmt.body[j]
To(cs, c, j)   == ClassOf(cs, c, Ann(cs, c, j).target)
Rev(cs, c, j)  == Back(cs[c].stmt, Ann(cs, c, j))
Size(cs, c)    == Len(cs[c].stmt.body)
Links(cs, c)   == {j \in 1..Size(cs, c) : Link(Ann(cs, c, j))}

(* What a class of the sequence is made of. *)
LEMMA ClassIs ==
    ASSUME NEW cs \in Seq(Class), NEW c \in 1..Len(cs)
    PROVE  /\ cs[c] \in Class /\ cs[c].stmt \in Statements /\ cs[c].rels \in Registry
           /\ cs[c].accepted \in BOOLEAN /\ cs[c].mapped \in BOOLEAN /\ cs[c].seen \in Nat
           /\ Size(cs, c) \in Nat
           /\ \A j \in 1..Size(cs, c) : /\ Ann(cs, c, j) \in Body(cs[c].stmt)
                                        /\ Ann(cs, c, j) \in Annotation
           /\ \A a \in Body(cs[c].stmt) : \E j \in 1..Size(cs, c) : a = Ann(cs, c, j)
<1>1. cs[c] \in Class
  OBVIOUS
<1>2. cs[c].stmt \in Statements
  BY <1>1 DEF Class
<1>3. QED
  BY <1>1, <1>2, BodyIs DEF Class, Size, Ann

(* The class that a name stands for is the one ClassOf finds. *)
LEMMA ClassOfIs ==
    ASSUME NEW cs \in Seq(Class), Unique(cs), NEW c \in 1..Len(cs), NEW name, NEW t,
           Means(cs, c, name, t)
    PROVE  ClassOf(cs, c, name) = t
<1>1. CASE name = cs[c].stmt.name
  BY <1>1 DEF Means, ClassOf
<1>2. CASE name # cs[c].stmt.name
  <2>1. t \in DOMAIN cs /\ cs[t].accepted /\ cs[t].stmt.name = name
    BY <1>2 DEF Means
  <2>2. \A d \in DOMAIN cs : cs[d].accepted /\ cs[d].stmt.name = name => d = t
    BY <2>1 DEF Unique
  <2>3. (CHOOSE d \in DOMAIN cs : cs[d].accepted /\ cs[d].stmt.name = name) = t
    BY <2>1, <2>2
  <2>4. QED
    BY <1>2, <2>3 DEF ClassOf
<1>3. QED
  BY <1>1, <1>2

(* Targets and reverse accessors of a class whose targets are there. *)
LEMMA ToIs ==
    ASSUME NEW cs \in Seq(Class), Unique(cs), NEW c \in 1..Len(cs), Resolved(cs, c)
    PROVE  /\ \A a \in RelationsOf(cs[c].stmt) :
                 Means(cs, c, a.target, ClassOf(cs, c, a.target))
           /\ \A j \in Links(cs, c) :
                 /\ To(cs, c, j) \in 1..c /\ Means(cs, c, Ann(cs, c, j).target, To(cs, c, j))
                 /\ Rev(cs, c, j) \in Names /\ Ann(cs, c, j).name \in Names
                 /\ Ann(cs, c, j).kind \in Kinds /\ Mirror(Ann(cs, c, j).kind) \in Kinds
<1>1. ASSUME NEW a \in RelationsOf(cs[c].stmt)
      PROVE  Means(cs, c, a.target, ClassOf(cs, c, a.target))
  BY ClassOfIs DEF Resolved
<1>2. ASSUME NEW j \in Links(cs, c)
      PROVE  /\ To(cs, c, j) \in 1..c /\ Means(cs, c, Ann(cs, c, j).target, To(cs, c, j))
             /\ Rev(cs, c, j) \in Names /\ Ann(cs, c, j).name \in Names
             /\ Ann(cs, c, j).kind \in Kinds /\ Mirror(Ann(cs, c, j).kind) \in Kinds
  <2>1. /\ Ann(cs, c, j) \in RelationsOf(cs[c].stmt) /\ Ann(cs, c, j) \in Body(cs[c].stmt)
        /\ cs[c].stmt \in Statements /\ IsRelation(Ann(cs, c, j))
    BY ClassIs DEF Links, Link, RelationsOf
  <2>2. Means(cs, c, Ann(cs, c, j).target, To(cs, c, j))
    BY <1>1, <2>1 DEF To
  <2>3. QED
    BY <2>1, <2>2, NamesAre, KindsAre DEF Means, Rev
<1>3. QED
  BY <1>1, <1>2

(* None of this depends on registries. *)
LEMMA AlikeIs ==
    ASSUME NEW cs \in Seq(Class), NEW ds \in Seq(Class), Alike(ds, cs), Unique(cs)
    PROVE  /\ Unique(ds)
           /\ \A c \in 1..Len(cs) : Resolved(cs, c) =>
                 /\ Resolved(ds, c)
                 /\ \A a \in RelationsOf(cs[c].stmt) :
                       ClassOf(ds, c, a.target) = ClassOf(cs, c, a.target)
<1>1. Unique(ds)
  BY DEF Unique, Alike, Like
<1>2. ASSUME NEW c \in 1..Len(cs), NEW name, NEW t, Means(cs, c, name, t)
      PROVE  Means(ds, c, name, t)
  BY <1>2 DEF Means, Alike, Like
<1>3. ASSUME NEW c \in 1..Len(cs), Resolved(cs, c)
      PROVE  /\ Resolved(ds, c)
             /\ \A a \in RelationsOf(cs[c].stmt) :
                   ClassOf(ds, c, a.target) = ClassOf(cs, c, a.target)
  <2>1. ds[c].stmt = cs[c].stmt /\ c \in 1..Len(ds)
    BY DEF Alike, Like
  <2>2. Resolved(ds, c)
    BY <1>2, <1>3, <2>1 DEF Resolved
  <2>3. ASSUME NEW a \in RelationsOf(cs[c].stmt)
        PROVE  ClassOf(ds, c, a.target) = ClassOf(cs, c, a.target)
    <3>1. PICK t : Means(cs, c, a.target, t)
      BY <1>3 DEF Resolved
    <3>2. QED
      BY <1>1, <1>2, <2>1, <3>1, ClassOfIs
  <2>4. QED
    BY <2>2, <2>3
<1>4. QED
  BY <1>1, <1>3

-----------------------------------------------------------------------------
(* One annotation.                                                         *)

(* What the n-th class, the one being made, adds to the registry of c for  *)
(* a relationship with t.                                                  *)
Wired(rels, c, n, a, t, back) ==
    LET one == IF c = n THEN Entered(rels, a.name, [to |-> t, kind |-> a.kind]) ELSE rels
    IN IF c = t THEN Entered(one, back, [to |-> n, kind |-> Mirror(a.kind)]) ELSE one

(* Wire changes two registries at most, and adds the join table. *)
LEMMA WireIs ==
    ASSUME NEW cs \in Seq(Class), NEW w \in Frame(cs), NEW n \in 1..Len(cs), n = Len(cs),
           NEW a, IsRelation(a), NEW t \in 1..n, NEW back \in Names, a.name \in Names,
           NEW joins \in SUBSET TableNames
    PROVE  LET v == Wire(w, a, t, back, joins)
           IN /\ v \in Frame(cs) /\ v.ok = w.ok /\ v.keyed = w.keyed
              /\ v.metadata = w.metadata \cup joins
              /\ \A c \in 1..n : v.classes[c].rels = Wired(w.classes[c].rels, c, n, a, t, back)
<1> DEFINE here  == [to |-> t, kind |-> a.kind]
           there == [to |-> n, kind |-> Mirror(a.kind)]
           ds  == w.classes
           one == [ds EXCEPT ![n].rels = Entered(@, a.name, here)]
           two == [one EXCEPT ![t].rels = Entered(@, back, there)]
           v   == Wire(w, a, t, back, joins)
<1>1. w \in Work /\ Alike(ds, cs) /\ ds \in Seq(Class) /\ Len(ds) = n
  BY DEF Frame, Work, Alike
<1>2. here \in Info /\ there \in Info
  BY KindsAre DEF Info
<1>3. v = [w EXCEPT !.classes = two, !.metadata = @ \cup joins]
  BY <1>1 DEF Wire, Self
<1>4. \A c \in 1..n : ds[c] \in Class /\ ds[c].rels \in Registry
  BY <1>1, ClassIs
<1> HIDE DEF here, there
<1>5. /\ one \in Seq(Class) /\ Len(one) = n
      /\ \A c \in 1..n : /\ Like(one[c], ds[c])
                         /\ one[c].rels = IF c = n THEN Entered(ds[c].rels, a.name, here)
                                          ELSE ds[c].rels
  <2>1. Entered(ds[n].rels, a.name, here) \in Registry
    BY <1>2, <1>4, EnteredIs
  <2>2. [ds[n] EXCEPT !.rels = Entered(ds[n].rels, a.name, here)] \in Class
    BY <1>4, <2>1 DEF Class
  <2>3. one = [ds EXCEPT ![n] = [ds[n] EXCEPT !.rels = Entered(ds[n].rels, a.name, here)]]
    OBVIOUS
  <2>4. one \in Seq(Class) /\ Len(one) = n
    BY <1>1, <2>2, <2>3
  <2>5. ASSUME NEW c \in 1..n
        PROVE  /\ Like(one[c], ds[c])
               /\ one[c].rels = IF c = n THEN Entered(ds[c].rels, a.name, here) ELSE ds[c].rels
    BY <1>1, <1>4, <2>2, <2>3 DEF Class, Like
  <2>6. QED
    BY <2>4, <2>5
<1>6. \A c \in 1..n : one[c] \in Class /\ one[c].rels \in Registry
  BY <1>5, ClassIs
<1> HIDE DEF one
<1>7. /\ two \in Seq(Class) /\ Len(two) = n
      /\ \A c \in 1..n : /\ Like(two[c], one[c])
                         /\ two[c].rels = IF c = t THEN Entered(one[c].rels, back, there)
                                          ELSE one[c].rels
  <2>1. Entered(one[t].rels, back, there) \in Registry
    BY <1>2, <1>6, EnteredIs
  <2>2. [one[t] EXCEPT !.rels = Entered(one[t].rels, back, there)] \in Class
    BY <1>6, <2>1 DEF Class
  <2>3. two = [one EXCEPT ![t] = [one[t] EXCEPT !.rels = Entered(one[t].rels, back, there)]]
    OBVIOUS
  <2>4. two \in Seq(Class) /\ Len(two) = n
    BY <1>5, <2>2, <2>3
  <2>5. ASSUME NEW c \in 1..n
        PROVE  /\ Like(two[c], one[c])
               /\ two[c].rels = IF c = t THEN Entered(one[c].rels, back, there) ELSE one[c].rels
    BY <1>5, <1>6, <2>2, <2>3 DEF Class, Like
  <2>6. QED
    BY <2>4, <2>5
<1> HIDE DEF two
<1>8. Alike(two, cs)
  BY <1>1, <1>5, <1>7 DEF Alike, Like
<1>9. v.classes = two /\ v.metadata = w.metadata \cup joins /\ v.ok = w.ok /\ v.keyed = w.keyed
  BY <1>1, <1>3 DEF Work
<1>10. v \in Work
  BY <1>1, <1>3, <1>7 DEF Work
<1>11. \A c \in 1..n : two[c].rels = Wired(ds[c].rels, c, n, a, t, back)
  BY <1>5, <1>7 DEF Wired, here, there
<1>12. QED
  BY <1>8, <1>9, <1>10, <1>11 DEF Frame

(* A key of the class can be referred to. *)
KeyOf(stmt) == Head(KeysIn(stmt)).kind = "pk"

(* Join tables of the j-th annotation of class c. *)
JoinsOf(cs, c, j) ==
    IF Ann(cs, c, j).kind = "many_to_many"
    THEN {JoinTable(Ann(cs, c, j), cs[c].stmt, cs[To(cs, c, j)].stmt)} ELSE {}

(* The j-th annotation, a relationship of the last class, is not refused. *)
Fits(cs, w, j) ==
    LET n == Len(cs)
        t == To(cs, n, j)
    IN /\ Rev(cs, n, j) \notin DOMAIN w.classes[t].rels
       /\ IF t = n THEN w.keyed ELSE KeyOf(cs[t].stmt)
       /\ Ann(cs, n, j).kind = "many_to_many" =>
             t # n /\ w.keyed /\ JoinsOf(cs, n, j) \cap w.metadata = {}

(* What comes of it: v of w. *)
Wires(cs, w, v, j) ==
    LET n == Len(cs)
    IN /\ v.ok /\ v.keyed = w.keyed /\ v.metadata = w.metadata \cup JoinsOf(cs, n, j)
       /\ \A c \in 1..n : v.classes[c].rels =
             Wired(w.classes[c].rels, c, n, Ann(cs, n, j), To(cs, n, j), Rev(cs, n, j))

(* What BuildAnnotation makes of w: nothing, a check, or both ends of a relationship. *)
Built(cs, w, v, j) ==
    LET a == Ann(cs, Len(cs), j)
    IN /\ (~w.ok \/ a.native) => v = w
       /\ w.ok /\ ~a.native /\ ~IsRelation(a) =>
             /\ v.classes = w.classes /\ v.metadata = w.metadata
             /\ v.ok <=> a.kind # "unknown"
             /\ v.keyed <=> w.keyed \/ a.kind = "pk"
       /\ w.ok /\ Link(a) =>
             \/ (Fits(cs, w, j) /\ Wires(cs, w, v, j))
             \/ (~Fits(cs, w, j) /\ v.classes = w.classes /\ v.metadata = w.metadata /\ ~v.ok)

(* Join tables are names of tables. *)
LEMMA JoinsAre ==
    ASSUME NEW cs \in Seq(Class), NEW c \in 1..Len(cs), NEW j \in 1..Size(cs, c),
           To(cs, c, j) \in 1..Len(cs)
    PROVE  JoinsOf(cs, c, j) \in SUBSET TableNames
<1>1. cs[c].stmt \in Statements /\ cs[To(cs, c, j)].stmt \in Statements
      /\ Ann(cs, c, j) \in Body(cs[c].stmt)
  BY ClassIs
<1>2. QED
  BY <1>1, TablesAre DEF JoinsOf

(* BuildAnnotation keeps to that. *)
LEMMA BuildIs ==
    ASSUME NEW cs \in Seq(Class), Unique(cs), NEW n \in 1..Len(cs), n = Len(cs), Resolved(cs, n),
           NEW w \in Frame(cs), NEW j \in 1..Size(cs, n)
    PROVE  /\ BuildAnnotation(w, Ann(cs, n, j)) \in Frame(cs)
           /\ Built(cs, w, BuildAnnotation(w, Ann(cs, n, j)), j)
<1> DEFINE a    == Ann(cs, n, j)
           t    == To(cs, n, j)
           back == Rev(cs, n, j)
           v    == BuildAnnotation(w, a)
<1>1. /\ w \in Work /\ Alike(w.classes, cs) /\ w.classes \in Seq(Class) /\ Len(w.classes) = n
      /\ w.ok \in BOOLEAN /\ w.keyed \in BOOLEAN
  BY DEF Frame, Work, Alike
<1>2. Self(w) = n /\ \A c \in 1..n : w.classes[c].stmt = cs[c].stmt
  BY <1>1 DEF Self, Alike, Like
<1>3. a \in Body(cs[n].stmt) /\ a \in Annotation /\ cs[n].stmt \in Statements
  BY ClassIs
<1>4. CASE ~w.ok \/ a.native
  BY <1>4 DEF BuildAnnotation, Built, Link
<1>5. CASE w.ok /\ ~a.native /\ ~IsRelation(a)
  <2>1. v = [w EXCEPT !.ok = a.kind # "unknown", !.keyed = @ \/ a.kind = "pk"]
    BY <1>5 DEF BuildAnnotation
  <2>2. /\ v \in Work /\ v.classes = w.classes /\ v.metadata = w.metadata
        /\ v.ok <=> a.kind # "unknown"
        /\ v.keyed <=> w.keyed \/ a.kind = "pk"
    BY <1>1, <2>1 DEF Work
  <2>3. v \in Frame(cs)
    BY <1>1, <2>2 DEF Frame
  <2>4. QED
    BY <1>5, <2>2, <2>3 DEF Built, Link
<1>6. CASE w.ok /\ Link(a)
  <2>1. /\ j \in Links(cs, n) /\ a \in RelationsOf(cs[n].stmt) /\ IsRelation(a) /\ ~a.native
    BY <1>3, <1>6 DEF Links, Link, RelationsOf
  <2>2. t \in 1..n /\ back \in Names /\ a.name \in Names
    BY <2>1, ToIs
  <2>3. ClassOf(w.classes, n, a.target) = t
    BY <1>1, <2>1, AlikeIs DEF To
  <2>4. Back(w.classes[n].stmt, a) = back
    BY <1>2 DEF Rev
  <2>5. Taken(w, t, back) <=> back \in DOMAIN w.classes[t].rels
    BY DEF Taken
  <2>6. Referable(w, t) <=> IF t = n THEN w.keyed ELSE KeyOf(cs[t].stmt)
    BY <1>2, <2>2 DEF Referable, KeyOf
  <2>7. Referable(w, n) <=> w.keyed
    BY <1>2 DEF Referable
  <2>8. JoinOf(w, a, t) = JoinTable(a, cs[n].stmt, cs[t].stmt)
    BY <1>2, <2>2 DEF JoinOf
  <2>9. Refuse(w) = [w EXCEPT !.ok = FALSE]
    BY DEF Refuse
  <2>10. /\ Refuse(w) \in Frame(cs) /\ Refuse(w).classes = w.classes
         /\ Refuse(w).metadata = w.metadata /\ ~Refuse(w).ok
    BY <1>1, <2>9 DEF Frame, Work
  <2>11. v = IF Fits(cs, w, j) THEN Wire(w, a, t, back, JoinsOf(cs, n, j)) ELSE Refuse(w)
    <3>1. CASE a.kind = "many_to_one"
      <4>1. v = BuildManyToOne(w, a, t, back)
        BY <1>2, <1>6, <2>1, <2>3, <2>4, <3>1 DEF BuildAnnotation
      <4>2. JoinsOf(cs, n, j) = {}
        BY <3>1 DEF JoinsOf
      <4>3. QED
        BY <3>1, <4>1, <4>2, <2>5, <2>6 DEF BuildManyToOne, Fits
    <3>2. CASE a.kind = "one_to_one"
      <4>1. v = BuildOneToOne(w, a, t, back)
        BY <1>2, <1>6, <2>1, <2>3, <2>4, <3>2 DEF BuildAnnotation
      <4>2. JoinsOf(cs, n, j) = {}
        BY <3>2 DEF JoinsOf
      <4>3. QED
        BY <3>2, <4>1, <4>2, <2>5, <2>6 DEF BuildOneToOne, Fits
    <3>3. CASE a.kind = "many_to_many"
      <4>1. v = BuildManyToMany(w, a, t, back)
        BY <1>2, <1>6, <2>1, <2>3, <2>4, <3>3 DEF BuildAnnotation
      <4>2. JoinsOf(cs, n, j) = {JoinOf(w, a, t)}
        BY <3>3, <2>8 DEF JoinsOf
      <4>3. JoinOf(w, a, t) \in w.metadata <=> JoinsOf(cs, n, j) \cap w.metadata # {}
        BY <4>2
      <4>4. QED
        BY <1>2, <3>3, <4>1, <4>2, <4>3, <2>5, <2>6, <2>7 DEF BuildManyToMany, Fits
    <3>4. QED
      BY <2>1, <3>1, <3>2, <3>3 DEF IsRelation, Relations
  <2>12. CASE Fits(cs, w, j)
    <3>1. JoinsOf(cs, n, j) \in SUBSET TableNames
      BY <2>2, JoinsAre
    <3>2. v = Wire(w, a, t, back, JoinsOf(cs, n, j))
      BY <2>11, <2>12
    <3>3. /\ v \in Frame(cs) /\ v.ok = w.ok /\ v.keyed = w.keyed
          /\ v.metadata = w.metadata \cup JoinsOf(cs, n, j)
          /\ \A c \in 1..n : v.classes[c].rels = Wired(w.classes[c].rels, c, n, a, t, back)
      BY <2>1, <2>2, <3>1, <3>2, WireIs
    <3>4. QED
      BY <1>6, <2>12, <3>3 DEF Built, Wires, Link
  <2>13. CASE ~Fits(cs, w, j)
    BY <1>6, <2>10, <2>11, <2>13 DEF Built, Link
  <2>14. QED
    BY <2>12, <2>13
<1>7. QED
  BY <1>1, <1>4, <1>5, <1>6 DEF Link

-----------------------------------------------------------------------------
(* The annotations of a statement, one after the other.                    *)

(* cs with the class that stmt is about to make. *)
With(cs, stmt) == Append(cs, NewClass(stmt))

(* The classes with one more, as its statement begins. *)
LEMMA WithIs ==
    ASSUME NEW cs \in Seq(Class), NEW s \in Statements
    PROVE  /\ With(cs, s) \in Seq(Class) /\ Len(With(cs, s)) = Len(cs) + 1
           /\ With(cs, s)[Len(cs) + 1] = NewClass(s)
           /\ \A c \in 1..Len(cs) : With(cs, s)[c] = cs[c]
           /\ Size(With(cs, s), Len(cs) + 1) = Len(s.body)
           /\ \A j \in 1..Len(s.body) : Ann(With(cs, s), Len(cs) + 1, j) = s.body[j]
<1>1. NewClass(s) \in Class /\ NewClass(s).stmt = s
  BY NewClassIs
<1>2. /\ With(cs, s) \in Seq(Class) /\ Len(With(cs, s)) = Len(cs) + 1
      /\ With(cs, s)[Len(cs) + 1] = NewClass(s)
      /\ \A c \in 1..Len(cs) : With(cs, s)[c] = cs[c]
  BY <1>1 DEF With
<1>3. QED
  BY <1>1, <1>2 DEF Size, Ann

(* The statement under way after each annotation. *)
Fold(w, cs, md, s) ==
    /\ w \in [0..Len(s.body) -> Frame(With(cs, s))] /\ w[0] = Begun(cs, md, s)
    /\ \A j \in 1..Len(s.body) : w[j] = BuildAnnotation(w[j - 1], s.body[j])
    /\ Prepared(cs, md, s) = w[Len(s.body)]

(* Prepared is what its annotations make, one after the other. *)
LEMMA PreparedIs ==
    ASSUME NEW cs \in Seq(Class), NEW md \in SUBSET TableNames, NEW s \in Statements,
           Unique(With(cs, s)), Resolved(With(cs, s), Len(cs) + 1)
    PROVE  \E w : Fold(w, cs, md, s)
<1> DEFINE N == Len(s.body)
           D == Frame(With(cs, s))
           start == Begun(cs, md, s)
           g == [i \in 1..N |-> [v \in D |-> BuildAnnotation(v, s.body[i])]]
           Fix(f) == f = [i \in 0..N |-> IF i = 0 THEN start
                                         ELSE BuildAnnotation(f[i - 1], s.body[i])]
           w == CHOOSE f : Fix(f)
<1>1. N \in Nat
  BY BodyIs
<1>2. start \in D
  <2>1. With(cs, s) \in Seq(Class)
    BY WithIs
  <2>2. start.classes = With(cs, s) /\ start \in Work
    BY <2>1 DEF Begun, Work, With
  <2>3. QED
    BY <2>2 DEF Frame, Alike, Like
<1>3. \A i \in 1..N : \A v \in D : BuildAnnotation(v, s.body[i]) \in D
  <2>1. ASSUME NEW i \in 1..N, NEW v \in D PROVE BuildAnnotation(v, s.body[i]) \in D
    <3>1. PICK n : n = Len(With(cs, s))
      OBVIOUS
    <3>2. /\ n = Len(cs) + 1 /\ n \in 1..n /\ With(cs, s) \in Seq(Class)
          /\ i \in 1..Size(With(cs, s), n) /\ Ann(With(cs, s), n, i) = s.body[i]
      BY <3>1, WithIs
    <3>3. QED
      BY <3>1, <3>2, BuildIs
  <2>2. QED
    BY <2>1
<1>4. g \in [1..N -> [D -> D]]
  BY <1>3
<1> HIDE DEF N, g, D, start
<1>5. PICK f : Iterates(f, N, D, start, g)
  BY <1>1, <1>2, <1>4, Iterated
<1>6. f \in [0..N -> D] /\ f[0] = start /\ \A i \in 1..N : f[i] = g[i][f[i - 1]]
  BY <1>5 DEF Iterates
<1>7. \A i \in 1..N : f[i] = BuildAnnotation(f[i - 1], s.body[i])
  <2>1. ASSUME NEW i \in 1..N PROVE f[i] = BuildAnnotation(f[i - 1], s.body[i])
    <3>1. i - 1 \in 0..N
      BY <1>1
    <3>2. QED
      BY <1>6, <3>1 DEF g
  <2>2. QED
    BY <2>1
<1>8. Fix(f)
  <2>1. \A i \in 0..N : f[i] = IF i = 0 THEN start ELSE BuildAnnotation(f[i - 1], s.body[i])
    BY <1>1, <1>6, <1>7
  <2>2. f = [i \in 0..N |-> f[i]]
    BY <1>6
  <2>3. QED
    BY <2>1, <2>2
<1>9. Fix(w)
  <2>1. \E h : Fix(h)
    BY <1>8
  <2> HIDE DEF Fix
  <2>2. QED
    BY <2>1, Zenon
<1>10. Prepared(cs, md, s) = w[N]
  BY DEF Prepared, N, start
<1> HIDE DEF w
<1>11. /\ w[0] = start /\ \A i \in 1..N : w[i] = BuildAnnotation(w[i - 1], s.body[i])
       /\ w = [i \in 0..N |-> w[i]]
  <2>1. w = [i \in 0..N |-> IF i = 0 THEN start ELSE BuildAnnotation(w[i - 1], s.body[i])]
    BY <1>9
  <2>2. PICK h : h = [i \in 0..N |-> IF i = 0 THEN start ELSE BuildAnnotation(w[i - 1], s.body[i])]
    OBVIOUS
  <2>3. /\ h = [i \in 0..N |-> h[i]]
        /\ \A i \in 0..N : h[i] = IF i = 0 THEN start ELSE BuildAnnotation(w[i - 1], s.body[i])
    BY <2>2
  <2>4. w = h
    BY <2>1, <2>2
  <2>5. w[0] = start
    BY <1>1, <2>3, <2>4
  <2>6. ASSUME NEW i \in 1..N PROVE w[i] = BuildAnnotation(w[i - 1], s.body[i])
    <3>1. i \in 0..N /\ i # 0
      BY <1>1
    <3>2. QED
      BY <2>3, <2>4, <3>1
  <2>7. QED
    BY <2>3, <2>4, <2>5, <2>6
<1>12. \A i \in 0..N : w[i] \in D
  <2> DEFINE P == {i \in 0..N : w[i] \in D}
  <2>1. 0 \in P
    BY <1>1, <1>2, <1>11
  <2>2. \A i \in 1..N : i - 1 \in P => i \in P
    <3>1. ASSUME NEW i \in 1..N, i - 1 \in P PROVE i \in P
      <4>1. w[i - 1] \in D /\ i \in 0..N
        BY <1>1, <3>1
      <4>2. w[i] \in D
        BY <1>3, <1>11, <4>1
      <4>3. QED
        BY <4>1, <4>2
    <3>2. QED
      BY <3>1
  <2> HIDE DEF P
  <2>3. \A i \in 0..N : i \in P
    BY <1>1, <2>1, <2>2, Induct
  <2>4. QED
    BY <2>3 DEF P
<1>13. w \in [0..N -> D]
  BY <1>11, <1>12
<1>14. Fold(w, cs, md, s)
  BY <1>10, <1>11, <1>13 DEF Fold, N, D, start
<1>15. QED
  BY <1>14

-----------------------------------------------------------------------------
(* What a statement under way has registered by the j-th annotation.       *)

(* A key of class c is declared before the j-th annotation. *)
KeyBefore(cs, c, j) ==
    \E k \in 1..(j - 1) : Ann(cs, c, k).kind = "pk" /\ ~Ann(cs, c, k).native

(* The j-th annotation of class c goes with those before it. *)
Fine(cs, c, j) ==
    LET t == To(cs, c, j)
    IN /\ ~Ann(cs, c, j).native => Ann(cs, c, j).kind # "unknown"
       /\ j \in Links(cs, c) =>
             /\ IF t = c THEN KeyBefore(cs, c, j) ELSE KeyOf(cs[t].stmt)
             /\ Ann(cs, c, j).kind = "many_to_many" => t # c /\ KeyBefore(cs, c, j)
             /\ \A k \in Links(cs, c) : k < j =>
                   /\ To(cs, c, k) = t => Rev(cs, c, k) # Rev(cs, c, j)
                   /\ t = c => Ann(cs, c, k).name # Rev(cs, c, j)
                   /\ JoinsOf(cs, c, k) \cap JoinsOf(cs, c, j) = {}

(* It goes with the classes before the last. *)
Free(cs, md, j) ==
    LET n == Len(cs)
    IN j \in Links(cs, n) =>
          /\ To(cs, n, j) # n => Rev(cs, n, j) \notin DOMAIN cs[To(cs, n, j)].rels
          /\ JoinsOf(cs, n, j) \cap md = {}

(* The j-th annotation of the last class is not refused. *)
Good(cs, md, j) == Fine(cs, Len(cs), j) /\ Free(cs, md, j)

(* The registry of class c, before the last, with what the last has added  *)
(* up to its J-th annotation.                                              *)
Grown(cs, c, rels, J) ==
    LET n == Len(cs)
    IN /\ \A m \in DOMAIN cs[c].rels : m \in DOMAIN rels /\ rels[m] = cs[c].rels[m]
       /\ \A k \in Links(cs, n) : k <= J /\ To(cs, n, k) = c =>
             /\ Rev(cs, n, k) \in DOMAIN rels
             /\ rels[Rev(cs, n, k)] = [to |-> n, kind |-> Mirror(Ann(cs, n, k).kind)]
       /\ \A m \in DOMAIN rels : m \notin DOMAIN cs[c].rels =>
             \E k \in Links(cs, n) : k <= J /\ To(cs, n, k) = c /\ m = Rev(cs, n, k)

(* What the annotations of class c up to the J-th leave in its own         *)
(* registry: of a relationship with itself, the later entry.               *)
Valued(cs, c, rels, J) ==
    \A k \in Links(cs, c) : k <= J =>
        /\ Ann(cs, c, k).name \in DOMAIN rels
        /\ (To(cs, c, k) # c \/ Rev(cs, c, k) # Ann(cs, c, k).name) =>
              rels[Ann(cs, c, k).name] = [to |-> To(cs, c, k), kind |-> Ann(cs, c, k).kind]
        /\ To(cs, c, k) = c =>
              /\ Rev(cs, c, k) \in DOMAIN rels
              /\ (\A i \in Links(cs, c) : k < i /\ i <= J => Ann(cs, c, i).name # Rev(cs, c, k)) =>
                    rels[Rev(cs, c, k)] = [to |-> c, kind |-> Mirror(Ann(cs, c, k).kind)]

(* They leave nothing else in it. *)
Only(cs, c, rels, J) ==
    \A m \in DOMAIN rels : \E k \in Links(cs, c) :
        k <= J /\ (m = Ann(cs, c, k).name \/ (To(cs, c, k) = c /\ m = Rev(cs, c, k)))

(* The statement under way, after J annotations of the last class. *)
Shape(cs, md, w, J) ==
    LET n == Len(cs)
    IN /\ w \in Frame(cs)
       /\ \A c \in 1..n : c # n => Grown(cs, c, w.classes[c].rels, J)
       /\ Valued(cs, n, w.classes[n].rels, J) /\ Only(cs, n, w.classes[n].rels, J)
       /\ \A x : x \in w.metadata <=>
             x \in md \/ \E k \in Links(cs, n) : k <= J /\ x \in JoinsOf(cs, n, k)

(* Entries by name. *)
WiredTo(v, r, c, n, a, t, back) ==
    /\ \A m : m \in DOMAIN v <=> m \in DOMAIN r \/ (c = n /\ m = a.name) \/ (c = t /\ m = back)
    /\ c = t => v[back] = [to |-> n, kind |-> Mirror(a.kind)]
    /\ c = n /\ (c # t \/ back # a.name) => v[a.name] = [to |-> t, kind |-> a.kind]
    /\ \A m \in DOMAIN r : (c = n => m # a.name) /\ (c = t => m # back) => v[m] = r[m]

(* Wired enters just that. *)
LEMMA WiredIs ==
    ASSUME NEW r \in Registry, NEW c, NEW n \in Nat, NEW t \in Nat, NEW a, IsRelation(a),
           a.name \in Names, NEW back \in Names
    PROVE  WiredTo(Wired(r, c, n, a, t, back), r, c, n, a, t, back)
<1> DEFINE here  == [to |-> t, kind |-> a.kind]
           there == [to |-> n, kind |-> Mirror(a.kind)]
           one   == IF c = n THEN Entered(r, a.name, here) ELSE r
           two   == IF c = t THEN Entered(one, back, there) ELSE one
<1>1. here \in Info /\ there \in Info
  BY KindsAre DEF Info
<1> HIDE DEF here, there
<1>2. /\ one \in Registry
      /\ \A m : m \in DOMAIN one <=> m \in DOMAIN r \/ (c = n /\ m = a.name)
      /\ c = n => one[a.name] = here
      /\ \A m \in DOMAIN r : (c = n => m # a.name) => one[m] = r[m]
  <2>1. CASE c = n
    <3>1. /\ Entered(r, a.name, here) \in Registry
          /\ DOMAIN Entered(r, a.name, here) = DOMAIN r \cup {a.name}
          /\ Entered(r, a.name, here)[a.name] = here
          /\ \A m \in DOMAIN r : m # a.name => Entered(r, a.name, here)[m] = r[m]
      BY <1>1, EnteredIs
    <3>2. QED
      BY <2>1, <3>1
  <2>2. CASE c # n
    BY <2>2
  <2>3. QED
    BY <2>1, <2>2
<1> HIDE DEF one
<1>3. /\ two \in Registry
      /\ \A m : m \in DOMAIN two <=> m \in DOMAIN one \/ (c = t /\ m = back)
      /\ c = t => two[back] = there
      /\ \A m \in DOMAIN one : (c = t => m # back) => two[m] = one[m]
  <2>1. CASE c = t
    <3>1. /\ Entered(one, back, there) \in Registry
          /\ DOMAIN Entered(one, back, there) = DOMAIN one \cup {back}
          /\ Entered(one, back, there)[back] = there
          /\ \A m \in DOMAIN one : m # back => Entered(one, back, there)[m] = one[m]
      BY <1>1, <1>2, EnteredIs
    <3>2. QED
      BY <2>1, <3>1
  <2>2. CASE c # t
    BY <1>2, <2>2
  <2>3. QED
    BY <2>1, <2>2
<1>4. Wired(r, c, n, a, t, back) = two
  BY DEF Wired, two, one, here, there
<1> HIDE DEF two
<1>5. QED
  BY <1>2, <1>3, <1>4 DEF here, there, WiredTo

(* An annotation is refused if it does not go with what is there. *)
LEMMA FitsIs ==
    ASSUME NEW cs \in Seq(Class), Unique(cs), NEW n \in 1..Len(cs), n = Len(cs), Resolved(cs, n),
           NEW md, NEW j \in Links(cs, n), NEW w, Shape(cs, md, w, j - 1),
           w.keyed <=> KeyBefore(cs, n, j)
    PROVE  Fits(cs, w, j) <=> Good(cs, md, j)
<1> DEFINE t == To(cs, n, j)
           back == Rev(cs, n, j)
<1>1. /\ t \in 1..n /\ j \in 1..Size(cs, n) /\ Size(cs, n) \in Nat
      /\ \A k \in Links(cs, n) : k \in 1..Size(cs, n) /\ (k <= j - 1 <=> k < j)
  BY ToIs, ClassIs DEF Links
<1>2. Ann(cs, n, j).kind # "unknown"
  BY DEF Links, Link, IsRelation, Relations
<1>3. /\ \A c \in 1..n : c # n => Grown(cs, c, w.classes[c].rels, j - 1)
      /\ Valued(cs, n, w.classes[n].rels, j - 1) /\ Only(cs, n, w.classes[n].rels, j - 1)
      /\ \A x : x \in w.metadata <=>
            x \in md \/ \E k \in Links(cs, n) : k <= j - 1 /\ x \in JoinsOf(cs, n, k)
  BY DEF Shape
<1>4. CASE t # n
  <2>1. back \notin DOMAIN w.classes[t].rels <=>
           /\ back \notin DOMAIN cs[t].rels
           /\ \A k \in Links(cs, n) : k < j => (To(cs, n, k) = t => Rev(cs, n, k) # back)
    <3>1. Grown(cs, t, w.classes[t].rels, j - 1)
      BY <1>1, <1>3, <1>4
    <3>2. QED
      BY <1>1, <3>1 DEF Grown
  <2>2. JoinsOf(cs, n, j) \cap w.metadata = {} <=>
           /\ JoinsOf(cs, n, j) \cap md = {}
           /\ \A k \in Links(cs, n) : k < j => JoinsOf(cs, n, k) \cap JoinsOf(cs, n, j) = {}
    BY <1>1, <1>3
  <2>3. Ann(cs, n, j).kind # "many_to_many" => JoinsOf(cs, n, j) = {}
    BY DEF JoinsOf
  <2>4. QED
    BY <1>2, <1>4, <2>1, <2>2, <2>3 DEF Fits, Good, Fine, Free
<1>5. CASE t = n
  <2>1. back \notin DOMAIN w.classes[t].rels <=>
           \A k \in Links(cs, n) : k < j =>
               /\ To(cs, n, k) = t => Rev(cs, n, k) # back
               /\ Ann(cs, n, k).name # back
    <3>1. ASSUME back \notin DOMAIN w.classes[n].rels, NEW k \in Links(cs, n), k < j
          PROVE  /\ To(cs, n, k) = n => Rev(cs, n, k) # back
                 /\ Ann(cs, n, k).name # back
      <4>1. k <= j - 1
        BY <1>1, <3>1
      <4>2. QED
        BY <1>3, <3>1, <4>1 DEF Valued
    <3>2. ASSUME back \in DOMAIN w.classes[n].rels
          PROVE  \E k \in Links(cs, n) : /\ k < j
                    /\ (back = Ann(cs, n, k).name \/ (To(cs, n, k) = n /\ back = Rev(cs, n, k)))
      <4>1. PICK k \in Links(cs, n) :
               k <= j - 1 /\ (back = Ann(cs, n, k).name \/ (To(cs, n, k) = n /\ back = Rev(cs, n, k)))
        BY <1>3, <3>2 DEF Only
      <4>2. QED
        BY <1>1, <4>1
    <3>3. QED
      BY <1>5, <3>1, <3>2
  <2>2. Ann(cs, n, j).kind # "many_to_many" => JoinsOf(cs, n, j) = {}
    BY DEF JoinsOf
  <2>3. QED
    BY <1>2, <1>5, <2>1, <2>2 DEF Fits, Good, Fine, Free
<1>6. QED
  BY <1>4, <1>5

(* An annotation that is not refused adds its entries. *)
LEMMA WiresIs ==
    ASSUME NEW cs \in Seq(Class), Unique(cs), NEW n \in 1..Len(cs), n = Len(cs), Resolved(cs, n),
           NEW md, NEW j \in Links(cs, n), NEW w, Shape(cs, md, w, j - 1), Good(cs, md, j),
           NEW v \in Frame(cs), Wires(cs, w, v, j)
    PROVE  Shape(cs, md, v, j)
<1> DEFINE t == To(cs, n, j)
           back == Rev(cs, n, j)
           a == Ann(cs, n, j)
           old(c) == w.classes[c].rels
           new(c) == v.classes[c].rels
<1>1. /\ t \in 1..n /\ j \in 1..Size(cs, n) /\ Size(cs, n) \in Nat /\ back \in Names
      /\ a.name \in Names /\ IsRelation(a) /\ n \in Nat /\ t \in Nat
      /\ \A k \in Links(cs, n) : k \in 1..Size(cs, n) /\ (k <= j <=> k <= j - 1 \/ k = j)
  BY ToIs, ClassIs DEF Links, Link
<1>2. /\ \A c \in 1..n : c # n => Grown(cs, c, old(c), j - 1)
      /\ Valued(cs, n, old(n), j - 1) /\ Only(cs, n, old(n), j - 1)
      /\ \A x : x \in w.metadata <=>
            x \in md \/ \E k \in Links(cs, n) : k <= j - 1 /\ x \in JoinsOf(cs, n, k)
      /\ w \in Frame(cs)
  BY DEF Shape
<1>3. \A c \in 1..n : old(c) \in Registry
  BY <1>2, ClassIs DEF Frame, Work, Alike
<1>4. ASSUME NEW c \in 1..n
      PROVE  /\ \A m : m \in DOMAIN new(c) <=>
                   m \in DOMAIN old(c) \/ (c = n /\ m = a.name) \/ (c = t /\ m = back)
             /\ c = t => new(c)[back] = [to |-> n, kind |-> Mirror(a.kind)]
             /\ c = n /\ (c # t \/ back # a.name) => new(c)[a.name] = [to |-> t, kind |-> a.kind]
             /\ \A m \in DOMAIN old(c) :
                   (c = n => m # a.name) /\ (c = t => m # back) => new(c)[m] = old(c)[m]
  <2>1. new(c) = Wired(old(c), c, n, a, t, back)
    BY DEF Wires
  <2>2. old(c) \in Registry
    BY <1>3
  <2> HIDE DEF t, back, a, old, new
  <2>3. WiredTo(Wired(old(c), c, n, a, t, back), old(c), c, n, a, t, back)
    BY <1>1, <2>2, WiredIs
  <2>4. QED
    BY <2>1, <2>3 DEF WiredTo
<1>5. \A k \in Links(cs, n) : k # j => Ann(cs, n, k).name # a.name
  <2>1. cs[n].stmt \in Statements
    BY ClassIs
  <2>2. \A k \in Links(cs, n) : k \in DOMAIN cs[n].stmt.body
    BY <1>1, <2>1, BodyIs DEF Size
  <2>3. QED
    BY <2>1, <2>2, ModelClassesAssumption DEF Ann
<1>6. /\ t # n => back \notin DOMAIN cs[t].rels
      /\ \A k \in Links(cs, n) : k <= j - 1 =>
            /\ To(cs, n, k) = t => Rev(cs, n, k) # back
            /\ t = n => Ann(cs, n, k).name # back
  BY <1>1 DEF Good, Fine, Free
<1> HIDE DEF t, back, a, old, new
<1>7. ASSUME NEW c \in 1..n, c # n PROVE Grown(cs, c, new(c), j)
  <2>1. Grown(cs, c, old(c), j - 1)
    BY <1>2, <1>7
  <2>2. \A m \in DOMAIN cs[c].rels : m \in DOMAIN new(c) /\ new(c)[m] = cs[c].rels[m]
    BY <1>4, <1>6, <1>7, <2>1 DEF Grown
  <2>3. ASSUME NEW k \in Links(cs, n), k <= j, To(cs, n, k) = c
        PROVE  /\ Rev(cs, n, k) \in DOMAIN new(c)
               /\ new(c)[Rev(cs, n, k)] = [to |-> n, kind |-> Mirror(Ann(cs, n, k).kind)]
    <3>1. CASE k = j
      BY <1>4, <2>3, <3>1 DEF t, back, a
    <3>2. CASE k <= j - 1
      <4>1. /\ Rev(cs, n, k) \in DOMAIN old(c)
            /\ old(c)[Rev(cs, n, k)] = [to |-> n, kind |-> Mirror(Ann(cs, n, k).kind)]
        BY <2>1, <2>3, <3>2 DEF Grown
      <4>2. c = t => Rev(cs, n, k) # back
        BY <1>6, <2>3, <3>2
      <4>3. QED
        BY <1>4, <1>7, <4>1, <4>2
    <3>3. QED
      BY <1>1, <2>3, <3>1, <3>2
  <2>4. ASSUME NEW m \in DOMAIN new(c), m \notin DOMAIN cs[c].rels
        PROVE  \E k \in Links(cs, n) : k <= j /\ To(cs, n, k) = c /\ m = Rev(cs, n, k)
    <3>1. CASE c = t /\ m = back
      BY <1>1, <3>1 DEF t, back
    <3>2. CASE m \in DOMAIN old(c)
      BY <1>1, <2>1, <2>4, <3>2 DEF Grown
    <3>3. QED
      BY <1>4, <1>7, <2>4, <3>1, <3>2
  <2>5. QED
    BY <2>2, <2>3, <2>4 DEF Grown
<1>8. Valued(cs, n, new(n), j)
  <2> SUFFICES ASSUME NEW k \in Links(cs, n), k <= j
        PROVE  /\ Ann(cs, n, k).name \in DOMAIN new(n)
               /\ (To(cs, n, k) # n \/ Rev(cs, n, k) # Ann(cs, n, k).name) =>
                     new(n)[Ann(cs, n, k).name] =
                         [to |-> To(cs, n, k), kind |-> Ann(cs, n, k).kind]
               /\ To(cs, n, k) = n =>
                     /\ Rev(cs, n, k) \in DOMAIN new(n)
                     /\ (\A i \in Links(cs, n) : k < i /\ i <= j =>
                            Ann(cs, n, i).name # Rev(cs, n, k)) =>
                           new(n)[Rev(cs, n, k)] =
                               [to |-> n, kind |-> Mirror(Ann(cs, n, k).kind)]
    BY DEF Valued
  <2>1. CASE k = j
    BY <1>4, <2>1 DEF t, back, a
  <2>2. CASE k <= j - 1
    <3>1. /\ Ann(cs, n, k).name \in DOMAIN old(n)
          /\ (To(cs, n, k) # n \/ Rev(cs, n, k) # Ann(cs, n, k).name) =>
                old(n)[Ann(cs, n, k).name] =
                    [to |-> To(cs, n, k), kind |-> Ann(cs, n, k).kind]
          /\ To(cs, n, k) = n =>
                /\ Rev(cs, n, k) \in DOMAIN old(n)
                /\ (\A i \in Links(cs, n) : k < i /\ i <= j - 1 =>
                       Ann(cs, n, i).name # Rev(cs, n, k)) =>
                      old(n)[Rev(cs, n, k)] =
                          [to |-> n, kind |-> Mirror(Ann(cs, n, k).kind)]
      BY <1>2, <2>2 DEF Valued
    <3>2. Ann(cs, n, k).name # a.name /\ (n = t => Ann(cs, n, k).name # back)
      BY <1>1, <1>5, <1>6, <2>2
    <3>3. /\ Ann(cs, n, k).name \in DOMAIN new(n)
          /\ (To(cs, n, k) # n \/ Rev(cs, n, k) # Ann(cs, n, k).name) =>
                new(n)[Ann(cs, n, k).name] =
                    [to |-> To(cs, n, k), kind |-> Ann(cs, n, k).kind]
      BY <1>4, <3>1, <3>2
    <3>4. ASSUME To(cs, n, k) = n
          PROVE  /\ Rev(cs, n, k) \in DOMAIN new(n)
                 /\ (\A i \in Links(cs, n) : k < i /\ i <= j =>
                        Ann(cs, n, i).name # Rev(cs, n, k)) =>
                       new(n)[Rev(cs, n, k)] =
                           [to |-> n, kind |-> Mirror(Ann(cs, n, k).kind)]
      <4>1. n = t => Rev(cs, n, k) # back
        BY <1>6, <2>2, <3>4
      <4>2. Rev(cs, n, k) \in DOMAIN old(n) /\ Rev(cs, n, k) \in DOMAIN new(n)
        BY <1>4, <3>1, <3>4
      <4>3. ASSUME \A i \in Links(cs, n) : k < i /\ i <= j => Ann(cs, n, i).name # Rev(cs, n, k)
            PROVE  new(n)[Rev(cs, n, k)] = [to |-> n, kind |-> Mirror(Ann(cs, n, k).kind)]
        <5>1. Rev(cs, n, k) # a.name
          BY <1>1, <2>2, <4>3 DEF a
        <5>2. \A i \in Links(cs, n) : k < i /\ i <= j - 1 => Ann(cs, n, i).name # Rev(cs, n, k)
          BY <1>1, <4>3
        <5>3. old(n)[Rev(cs, n, k)] = [to |-> n, kind |-> Mirror(Ann(cs, n, k).kind)]
          BY <3>1, <3>4, <5>2
        <5>4. QED
          BY <1>4, <4>1, <4>2, <5>1, <5>3
      <4>4. QED
        BY <4>2, <4>3
    <3>5. QED
      BY <3>3, <3>4
  <2>3. QED
    BY <1>1, <2>1, <2>2
<1>9. Only(cs, n, new(n), j)
  <2> SUFFICES ASSUME NEW m \in DOMAIN new(n)
        PROVE  \E k \in Links(cs, n) :
                   k <= j /\ (m = Ann(cs, n, k).name \/ (To(cs, n, k) = n /\ m = Rev(cs, n, k)))
    BY DEF Only
  <2>1. CASE m \in DOMAIN old(n)
    BY <1>1, <1>2, <2>1 DEF Only
  <2>2. CASE m = a.name
    BY <1>1, <2>2 DEF a
  <2>3. CASE n = t /\ m = back
    BY <1>1, <2>3 DEF t, back
  <2>4. QED
    BY <1>4, <2>1, <2>2, <2>3
<1>10. \A x : x \in v.metadata <=>
          x \in md \/ \E k \in Links(cs, n) : k <= j /\ x \in JoinsOf(cs, n, k)
  <2>1. v.metadata = w.metadata \cup JoinsOf(cs, n, j)
    BY DEF Wires
  <2>2. QED
    BY <1>1, <1>2, <2>1
<1>11. QED
  BY <1>7, <1>8, <1>9, <1>10 DEF Shape, new

(* A statement under way after J annotations: it has stopped at the first  *)
(* that does not go.                                                       *)
Reached(cs, md, w, J) ==
    LET n == Len(cs)
    IN /\ w.ok <=> ~Claimed(cs[n].stmt) /\ \A j \in 1..J : Good(cs, md, j)
       /\ w.ok => (w.keyed <=> KeyBefore(cs, n, J + 1))
       /\ \E K \in 0..J : /\ Shape(cs, md, w, K) /\ (w.ok => K = J)
                          /\ \A j \in 1..K : Good(cs, md, j)

(* One annotation more. *)
LEMMA Advance ==
    ASSUME NEW cs \in Seq(Class), Unique(cs), NEW n \in 1..Len(cs), n = Len(cs), Resolved(cs, n),
           NEW md, NEW j \in 1..Size(cs, n), NEW w \in Frame(cs), Reached(cs, md, w, j - 1),
           NEW v \in Frame(cs), Built(cs, w, v, j)
    PROVE  Reached(cs, md, v, j)
<1> DEFINE a == Ann(cs, n, j)
<1>1. /\ Size(cs, n) \in Nat /\ a \in Annotation /\ j \in Nat /\ j - 1 \in Nat /\ (j - 1) + 1 = j
      /\ w.ok \in BOOLEAN /\ v.ok \in BOOLEAN
  BY ClassIs DEF Frame, Work
<1>2. /\ w.ok <=> ~Claimed(cs[n].stmt) /\ \A i \in 1..(j - 1) : Good(cs, md, i)
      /\ w.ok => (w.keyed <=> KeyBefore(cs, n, j))
  BY <1>1 DEF Reached
<1>3. PICK K \in 0..(j - 1) :
         Shape(cs, md, w, K) /\ (w.ok => K = j - 1) /\ \A i \in 1..K : Good(cs, md, i)
  BY DEF Reached
<1>4. (\A i \in 1..j : Good(cs, md, i)) <=> Good(cs, md, j) /\ \A i \in 1..(j - 1) : Good(cs, md, i)
  <2>1. \A i \in 1..j : i = j \/ i \in 1..(j - 1)
    BY <1>1
  <2>2. \A i \in 1..(j - 1) : i \in 1..j
    BY <1>1
  <2>3. QED
    BY <1>1, <2>1, <2>2
<1>5. KeyBefore(cs, n, j + 1) <=> KeyBefore(cs, n, j) \/ (a.kind = "pk" /\ ~a.native)
  <2>1. \A i \in 1..((j + 1) - 1) : i = j \/ i \in 1..(j - 1)
    BY <1>1
  <2>2. \A i \in 1..(j - 1) : i \in 1..((j + 1) - 1)
    BY <1>1
  <2>3. j \in 1..((j + 1) - 1)
    BY <1>1
  <2>4. QED
    BY <2>1, <2>2, <2>3 DEF KeyBefore
<1>6. CASE ~w.ok
  <2>1. v = w
    BY <1>6 DEF Built
  <2>2. K \in 0..j
    BY <1>1
  <2>3. QED
    BY <1>2, <1>3, <1>4, <1>6, <2>1, <2>2 DEF Reached
<1>7. CASE w.ok /\ j \notin Links(cs, n)
  <2>1. Shape(cs, md, w, j - 1)
    BY <1>3, <1>7
  <2>2. \A k \in Links(cs, n) : k \in Nat /\ (k <= j - 1 <=> k <= j)
    BY <1>1, <1>7 DEF Links
  <2>3. ~Link(a)
    BY <1>7 DEF Links
  <2>4. v.classes = w.classes /\ v.metadata = w.metadata
    BY <1>7, <2>3 DEF Built, Link
  <2>5. Shape(cs, md, v, j - 1) /\ Shape(cs, md, v, j)
    <3>1. Shape(cs, md, v, j - 1)
      BY <2>1, <2>4 DEF Shape
    <3>2. \A c \in 1..n : c # n => Grown(cs, c, v.classes[c].rels, j)
      BY <2>2, <3>1 DEF Shape, Grown
    <3>3. Valued(cs, n, v.classes[n].rels, j)
      BY <2>2, <3>1 DEF Shape, Valued
    <3>4. Only(cs, n, v.classes[n].rels, j)
      BY <2>2, <3>1 DEF Shape, Only
    <3>5. \A x : x \in v.metadata <=>
             x \in md \/ \E k \in Links(cs, n) : k <= j /\ x \in JoinsOf(cs, n, k)
      BY <2>2, <3>1 DEF Shape
    <3>6. QED
      BY <3>1, <3>2, <3>3, <3>4, <3>5 DEF Shape
  <2>6. v.ok <=> Good(cs, md, j)
    <3>1. CASE a.native
      BY <1>7, <3>1 DEF Built, Good, Fine, Free
    <3>2. CASE ~a.native
      BY <1>7, <2>3, <3>2 DEF Built, Good, Fine, Free, Link
    <3>3. QED
      BY <3>1, <3>2
  <2>7. v.keyed <=> KeyBefore(cs, n, j + 1)
    <3>1. CASE a.native
      BY <1>2, <1>5, <1>7, <3>1 DEF Built
    <3>2. CASE ~a.native
      BY <1>2, <1>5, <1>7, <2>3, <3>2 DEF Built, Link
    <3>3. QED
      BY <3>1, <3>2
  <2>8. v.ok => \A i \in 1..j : Good(cs, md, i)
    BY <1>2, <1>4, <1>7, <2>6
  <2>9. \E L \in 0..j : /\ Shape(cs, md, v, L) /\ (v.ok => L = j)
                        /\ \A i \in 1..L : Good(cs, md, i)
    <3>1. CASE v.ok
      <4>1. j \in 0..j
        BY <1>1
      <4>2. QED
        BY <2>5, <2>8, <3>1, <4>1
    <3>2. CASE ~v.ok
      <4>1. j - 1 \in 0..j /\ \A i \in 1..(j - 1) : Good(cs, md, i)
        BY <1>1, <1>2, <1>7
      <4>2. QED
        BY <2>5, <3>2, <4>1
    <3>3. QED
      BY <3>1, <3>2
  <2>10. QED
    BY <1>2, <1>4, <1>7, <2>6, <2>7, <2>9 DEF Reached
<1>8. CASE w.ok /\ j \in Links(cs, n)
  <2>1. Shape(cs, md, w, j - 1) /\ (w.keyed <=> KeyBefore(cs, n, j)) /\ Link(a)
    BY <1>2, <1>3, <1>8 DEF Links
  <2>2. Fits(cs, w, j) <=> Good(cs, md, j)
    BY <1>8, <2>1, FitsIs
  <2>3. a.kind # "pk"
    BY <2>1 DEF Link, IsRelation, Relations
  <2>4. CASE Fits(cs, w, j) /\ Wires(cs, w, v, j)
    <3>1. Shape(cs, md, v, j)
      BY <1>8, <2>1, <2>2, <2>4, WiresIs
    <3>2. v.ok /\ v.keyed = w.keyed
      BY <2>4 DEF Wires
    <3>3. j \in 0..j /\ \A i \in 1..j : Good(cs, md, i)
      BY <1>1, <1>2, <1>4, <1>8, <2>2, <2>4
    <3>4. QED
      BY <1>2, <1>5, <1>8, <2>1, <2>3, <3>1, <3>2, <3>3 DEF Reached
  <2>5. CASE ~Fits(cs, w, j) /\ v.classes = w.classes /\ v.metadata = w.metadata /\ ~v.ok
    <3>1. Shape(cs, md, v, j - 1)
      BY <2>1, <2>5 DEF Shape
    <3>2. j - 1 \in 0..j /\ \A i \in 1..(j - 1) : Good(cs, md, i)
      BY <1>1, <1>2, <1>8
    <3>3. QED
      BY <1>4, <2>2, <2>5, <3>1, <3>2 DEF Reached
  <2>6. QED
    BY <1>8, <2>1, <2>4, <2>5 DEF Built
<1>9. QED
  BY <1>6, <1>7, <1>8

(* Prepared has gone through all annotations, or stopped at the first that is refused. *)
LEMMA PreparedReached ==
    ASSUME NEW cs \in Seq(Class), NEW md \in SUBSET TableNames, NEW s \in Statements,
           Unique(With(cs, s)), Resolved(With(cs, s), Len(cs) + 1)
    PROVE  /\ Prepared(cs, md, s) \in Frame(With(cs, s))
           /\ Reached(With(cs, s), md, Prepared(cs, md, s), Len(s.body))
<1> DEFINE ds == With(cs, s)
           n  == Len(cs) + 1
           N  == Len(s.body)
<1>1. /\ ds \in Seq(Class) /\ Len(ds) = n /\ n \in 1..n /\ ds[n] = NewClass(s)
      /\ Size(ds, n) = N /\ N \in Nat /\ \A j \in 1..N : Ann(ds, n, j) = s.body[j]
  BY WithIs, BodyIs
<1>2. PICK w : Fold(w, cs, md, s)
  BY PreparedIs
<1>3. /\ w \in [0..N -> Frame(ds)] /\ w[0] = Begun(cs, md, s)
      /\ \A j \in 1..N : w[j] = BuildAnnotation(w[j - 1], s.body[j])
      /\ Prepared(cs, md, s) = w[N]
  BY <1>2 DEF Fold
<1>4. Reached(ds, md, w[0], 0)
  <2>1. /\ w[0].classes = ds /\ w[0].metadata = md /\ w[0].keyed = FALSE
        /\ w[0].ok = ~Claimed(s) /\ w[0] \in Frame(ds)
    BY <1>1, <1>3 DEF Begun, With
  <2>2. ds[n].stmt = s /\ ds[n].rels = <<>> /\ DOMAIN <<>> = {}
    BY <1>1, NewClassIs, NothingEntered
  <2>3. \A k \in Links(ds, n) : ~(k <= 0)
    BY <1>1 DEF Links
  <2>4. Shape(ds, md, w[0], 0)
    <3>1. \A c \in 1..n : c # n => Grown(ds, c, ds[c].rels, 0)
      BY <1>1, <2>3 DEF Grown
    <3>2. Valued(ds, n, ds[n].rels, 0)
      BY <2>3 DEF Valued
    <3>3. Only(ds, n, ds[n].rels, 0)
      BY <2>2 DEF Only
    <3>4. \A x : x \in md <=> x \in md \/ \E k \in Links(ds, n) : k <= 0 /\ x \in JoinsOf(ds, n, k)
      BY <2>3
    <3>5. QED
      BY <1>1, <2>1, <3>1, <3>2, <3>3, <3>4 DEF Shape
  <2>5. ~KeyBefore(ds, n, 0 + 1)
    BY DEF KeyBefore
  <2>6. \E K \in 0..0 : /\ Shape(ds, md, w[0], K) /\ (w[0].ok => K = 0)
                         /\ \A j \in 1..K : Good(ds, md, j)
    <3>1. 0 \in 0..0 /\ \A j \in 1..0 : Good(ds, md, j)
      OBVIOUS
    <3>2. QED
      BY <2>4, <3>1
  <2>7. w[0].ok <=> ~Claimed(ds[n].stmt) /\ \A j \in 1..0 : Good(ds, md, j)
    <3>1. w[0].ok <=> ~Claimed(ds[n].stmt)
      BY <2>1, <2>2 DEF Claimed
    <3>2. \A j \in 1..0 : Good(ds, md, j)
      OBVIOUS
    <3>3. QED
      BY <3>1, <3>2
  <2>8. w[0].ok => (w[0].keyed <=> KeyBefore(ds, n, 0 + 1))
    BY <2>1, <2>5
  <2> HIDE DEF ds, n
  <2>9. QED
    BY <1>1, <2>6, <2>7, <2>8 DEF Reached
<1>5. \A j \in 0..N : Reached(ds, md, w[j], j)
  <2> DEFINE P == {j \in 0..N : Reached(ds, md, w[j], j)}
  <2>1. 0 \in P
    BY <1>1, <1>4
  <2>2. \A j \in 1..N : j - 1 \in P => j \in P
    <3>1. ASSUME NEW j \in 1..N, j - 1 \in P PROVE j \in P
      <4>1. /\ j \in 0..N /\ j - 1 \in 0..N /\ Reached(ds, md, w[j - 1], j - 1)
            /\ w[j - 1] \in Frame(ds) /\ w[j] \in Frame(ds) /\ j \in 1..Size(ds, n)
        <5>1. j \in 0..N /\ j - 1 \in 0..N /\ j \in 1..Size(ds, n)
          BY <1>1
        <5>2. Reached(ds, md, w[j - 1], j - 1)
          BY <3>1, <5>1
        <5>3. w[j - 1] \in Frame(ds) /\ w[j] \in Frame(ds)
          BY <1>3, <5>1
        <5>4. QED
          BY <5>1, <5>2, <5>3
      <4>2. w[j] = BuildAnnotation(w[j - 1], Ann(ds, n, j))
        BY <1>1, <1>3
      <4> HIDE DEF ds, n, N
      <4>3. Unique(ds) /\ Resolved(ds, n)
        BY DEF ds, n
      <4>4. Built(ds, w[j - 1], w[j], j)
        BY <1>1, <4>1, <4>2, <4>3, BuildIs
      <4>5. Reached(ds, md, w[j], j)
        BY <1>1, <4>1, <4>3, <4>4, Advance
      <4>6. QED
        BY <4>1, <4>5
    <3>2. QED
      BY <3>1
  <2> HIDE DEF P
  <2>3. \A j \in 0..N : j \in P
    BY <1>1, <2>1, <2>2, Induct
  <2>4. QED
    BY <2>3 DEF P
<1>6. N \in 0..N
  BY <1>1
<1>7. QED
  BY <1>3, <1>5, <1>6

-----------------------------------------------------------------------------
(* What comes of a statement, the last class of cs, as far as it came.     *)

(* The registries and tables after a statement that came to annotation K. *)
Stops(cs, md, ds, ts, K) ==
    LET n == Len(cs)
    IN /\ \A j \in 1..K : Good(cs, md, j)
       /\ \A c \in 1..n : c # n => Grown(cs, c, ds[c].rels, K)
       /\ Valued(cs, n, ds[n].rels, K) /\ Only(cs, n, ds[n].rels, K)
       /\ md \subseteq ts /\ \A k \in Links(cs, n) : k <= K => JoinsOf(cs, n, k) \subseteq ts
       /\ \A x \in ts : \/ x \in md
                        \/ (x = TableKey(cs[n].stmt) /\ x \notin md)
                        \/ (\E k \in Links(cs, n) : k <= K /\ x \in JoinsOf(cs, n, k))
       /\ ds[n].mapped => K = Size(cs, n) /\ TableKey(cs[n].stmt) \in ts

(* The last class is mapped. *)
Maps(cs, md) ==
    LET n == Len(cs)
    IN /\ ~Claimed(cs[n].stmt) /\ \A j \in 1..Size(cs, n) : Good(cs, md, j)
       /\ TableKey(cs[n].stmt) \notin md
       /\ \A k \in Links(cs, n) : TableKey(cs[n].stmt) \notin JoinsOf(cs, n, k)
       /\ KeysIn(cs[n].stmt) # <<>>

(* What a statement does: ds and ts of cs and md. *)
Outcome(cs, md, ds, ts) ==
    LET n == Len(cs)
    IN /\ ds \in Seq(Class) /\ ts \in SUBSET TableNames /\ Len(ds) = n
       /\ \A c \in 1..n : c # n => Like(ds[c], cs[c])
       /\ ds[n].stmt = cs[n].stmt /\ ds[n].seen = 0
       /\ ds[n].mapped <=> Maps(cs, md)
       /\ ds[n].accepted <=> ds[n].mapped /\ OnePassword(cs[n].stmt)
       /\ \E K \in 0..Size(cs, n) : Stops(cs, md, ds, ts, K)

(* A class with another flag is a class. *)
LEMMA Edited ==
    ASSUME NEW x \in Class, NEW b \in BOOLEAN
    PROVE  LET y == [x EXCEPT !.accepted = b]
               z == [x EXCEPT !.mapped = b]
           IN /\ y \in Class /\ y.stmt = x.stmt /\ y.accepted = b /\ y.mapped = x.mapped
              /\ y.seen = x.seen /\ y.rels = x.rels
              /\ z \in Class /\ z.stmt = x.stmt /\ z.accepted = x.accepted /\ z.mapped = b
              /\ z.seen = x.seen /\ z.rels = x.rels
  BY DEF Class

(* Executed does that. *)
LEMMA ExecutedIs ==
    ASSUME NEW cs \in Seq(Class), NEW md \in SUBSET TableNames, NEW s \in Statements,
           Unique(With(cs, s)), Resolved(With(cs, s), Len(cs) + 1)
    PROVE  Outcome(With(cs, s), md, Executed(cs, md, s).classes, Executed(cs, md, s).metadata)
<1> DEFINE ws == With(cs, s)
           n  == Len(cs) + 1
           N  == Len(s.body)
           key == TableKey(s)
           u  == Prepared(cs, md, s)
           w  == MapClass(u)
           ds == Executed(cs, md, s).classes
           ts == Executed(cs, md, s).metadata
<1>1. /\ ws \in Seq(Class) /\ Len(ws) = n /\ n \in 1..n /\ ws[n] = NewClass(s)
      /\ Size(ws, n) = N /\ N \in Nat /\ ws[n].stmt = s /\ ~ws[n].accepted /\ ~ws[n].mapped
      /\ ws[n].seen = 0 /\ key \in TableNames
  BY WithIs, BodyIs, NewClassIs, TablesAre
<1>2. u \in Frame(ws) /\ Reached(ws, md, u, N)
  BY PreparedReached
<1>3. /\ u \in Work /\ u.classes \in Seq(Class) /\ Len(u.classes) = n /\ Self(u) = n
      /\ \A c \in 1..n : Like(u.classes[c], ws[c]) /\ u.classes[c] \in Class
      /\ u.ok \in BOOLEAN /\ u.metadata \in SUBSET TableNames
  BY <1>1, <1>2, ClassIs DEF Frame, Alike, Work, Self
<1>4. /\ u.classes[n].stmt = s /\ ~u.classes[n].accepted /\ ~u.classes[n].mapped
      /\ u.classes[n].seen = 0
  BY <1>1, <1>3 DEF Like
<1>5. PICK K \in 0..N : /\ Shape(ws, md, u, K) /\ (u.ok => K = N)
                        /\ \A j \in 1..K : Good(ws, md, j)
  BY <1>1, <1>2 DEF Reached
<1>6. u.ok <=> ~Claimed(s) /\ \A j \in 1..N : Good(ws, md, j)
  BY <1>1, <1>2 DEF Reached
<1>7. /\ \A c \in 1..n : c # n => Grown(ws, c, u.classes[c].rels, K)
      /\ Valued(ws, n, u.classes[n].rels, K) /\ Only(ws, n, u.classes[n].rels, K)
      /\ \A x : x \in u.metadata <=>
            x \in md \/ (\E k \in Links(ws, n) : k <= K /\ x \in JoinsOf(ws, n, k))
  BY <1>1, <1>5 DEF Shape
<1>8. \A k \in Links(ws, n) : k <= N
  BY <1>1 DEF Links
<1>9. Maps(ws, md) <=> u.ok /\ key \notin u.metadata /\ KeysIn(s) # <<>>
  <2>1. u.ok => (key \notin u.metadata <=>
                    key \notin md /\ \A k \in Links(ws, n) : key \notin JoinsOf(ws, n, k))
    BY <1>5, <1>7, <1>8
  <2>2. Maps(ws, md) <=> /\ u.ok /\ key \notin md /\ KeysIn(s) # <<>>
                         /\ \A k \in Links(ws, n) : key \notin JoinsOf(ws, n, k)
    BY <1>1, <1>6 DEF Maps
  <2>3. QED
    BY <2>1, <2>2
<1>10. ts = w.metadata
  BY DEF Executed
<1>11. ds = [w.classes EXCEPT ![Self(w)].accepted = w.ok /\ OnePassword(s)]
  BY DEF Executed
<1> SUFFICES Outcome(ws, md, ds, ts)
  OBVIOUS
<1> HIDE DEF ds, ts, ws, n, N, key
<1>12. CASE ~u.ok \/ key \in u.metadata
  <2>1. w = Refuse(u)
    BY <1>3, <1>4, <1>12 DEF MapClass, key
  <2>2. w.classes = u.classes /\ w.metadata = u.metadata /\ w.ok = FALSE /\ Self(w) = n
    BY <1>3, <2>1 DEF Refuse, Work, Self
  <2>3. ds = [u.classes EXCEPT ![n] = [u.classes[n] EXCEPT !.accepted = FALSE]]
    <3>1. (w.ok /\ OnePassword(s)) = FALSE
      BY <2>2
    <3>2. ds = [u.classes EXCEPT ![n].accepted = FALSE]
      BY <1>11, <2>2, <3>1
    <3>3. QED
      BY <3>2
  <2>4. u.classes[n] \in Class /\ [u.classes[n] EXCEPT !.accepted = FALSE] \in Class
    BY <1>1, <1>3, Edited
  <2>5. /\ ds \in Seq(Class) /\ Len(ds) = n
        /\ \A c \in 1..n : c # n => ds[c] = u.classes[c]
        /\ ds[n].stmt = s /\ ~ds[n].accepted /\ ~ds[n].mapped /\ ds[n].seen = 0
        /\ ds[n].rels = u.classes[n].rels
    BY <1>1, <1>3, <1>4, <2>3, <2>4 DEF Class
  <2>6. Stops(ws, md, ds, ts, K)
    <3>1. \A c \in 1..n : c # n => Grown(ws, c, ds[c].rels, K)
      BY <1>7, <2>5
    <3>2. Valued(ws, n, ds[n].rels, K) /\ Only(ws, n, ds[n].rels, K)
      BY <1>7, <2>5
    <3>3. md \subseteq ts /\ \A k \in Links(ws, n) : k <= K => JoinsOf(ws, n, k) \subseteq ts
      BY <1>7, <1>10, <2>2
    <3>4. \A x \in ts : \/ x \in md
                         \/ (x = TableKey(ws[n].stmt) /\ x \notin md)
                         \/ (\E k \in Links(ws, n) : k <= K /\ x \in JoinsOf(ws, n, k))
      <4> SUFFICES ASSUME NEW x \in ts
                   PROVE  \/ x \in md
                          \/ (x = TableKey(ws[n].stmt) /\ x \notin md)
                          \/ (\E k \in Links(ws, n) : k <= K /\ x \in JoinsOf(ws, n, k))
        OBVIOUS
      <4>1. x \in u.metadata
        BY <1>10, <2>2
      <4>2. QED
        BY <1>7, <4>1
    <3>5. ds[n].mapped => K = Size(ws, n) /\ TableKey(ws[n].stmt) \in ts
      BY <1>1, <1>10, <2>2, <2>5
    <3>6. QED
      BY <1>1, <1>5, <3>1, <3>2, <3>3, <3>4, <3>5 DEF Stops
  <2>7. QED
    <3>1. ds \in Seq(Class) /\ ts \in SUBSET TableNames /\ Len(ds) = n
      BY <1>1, <1>3, <1>10, <2>2, <2>5
    <3>2. \A c \in 1..n : c # n => Like(ds[c], ws[c])
      BY <1>3, <2>5
    <3>3. /\ ds[n].stmt = ws[n].stmt /\ ds[n].seen = 0 /\ (ds[n].mapped <=> Maps(ws, md))
          /\ ds[n].accepted <=> ds[n].mapped /\ OnePassword(ws[n].stmt)
      BY <1>1, <1>9, <1>12, <2>5
    <3>4. \E L \in 0..Size(ws, n) : Stops(ws, md, ds, ts, L)
      BY <1>1, <2>6
    <3>5. QED
      BY <1>1, <3>1, <3>2, <3>3, <3>4 DEF Outcome
<1>13. CASE u.ok /\ key \notin u.metadata
  <2> DEFINE keyed == KeysIn(s) # <<>>
  <2>1. w = [u EXCEPT !.metadata = @ \cup {key}, !.ok = keyed, !.classes[n].mapped = keyed]
    BY <1>3, <1>4, <1>13 DEF MapClass, key
  <2> HIDE DEF w
  <2>2. /\ w.classes = [u.classes EXCEPT ![n].mapped = keyed]
        /\ w.metadata = u.metadata \cup {key} /\ w.ok = keyed
    <3> HIDE DEF keyed
    <3>1. w = [u EXCEPT !.metadata = u.metadata \cup {key}, !.ok = keyed,
                       !.classes = [u.classes EXCEPT ![n].mapped = keyed]]
      BY <2>1
    <3>2. QED
      BY <1>3, <3>1 DEF Work
  <2>3. u.classes[n] \in Class /\ [u.classes[n] EXCEPT !.mapped = keyed] \in Class
    <3>1. keyed \in BOOLEAN
      OBVIOUS
    <3> HIDE DEF keyed
    <3>2. QED
      BY <1>1, <1>3, <3>1, Edited
  <2>4. /\ w.classes \in Seq(Class) /\ Len(w.classes) = n
        /\ w.classes[n] = [u.classes[n] EXCEPT !.mapped = keyed]
        /\ \A c \in 1..n : c # n => w.classes[c] = u.classes[c]
    BY <1>1, <1>3, <2>2, <2>3
  <2> DEFINE fine == keyed /\ OnePassword(s)
  <2>5. ds = [w.classes EXCEPT ![n] = [w.classes[n] EXCEPT !.accepted = fine]]
    BY <1>11, <2>2, <2>4 DEF Self
  <2>6. fine \in BOOLEAN
    OBVIOUS
  <2> HIDE DEF fine, keyed
  <2>7. w.classes[n] \in Class /\ [w.classes[n] EXCEPT !.accepted = fine] \in Class
    BY <2>3, <2>4, <2>6 DEF Class
  <2>8. /\ ds \in Seq(Class) /\ Len(ds) = n
        /\ \A c \in 1..n : c # n => ds[c] = u.classes[c]
        /\ ds[n] = [w.classes[n] EXCEPT !.accepted = fine]
    BY <1>1, <2>4, <2>5, <2>7
  <2>9. /\ ds[n].stmt = s /\ ds[n].accepted = fine /\ ds[n].mapped = keyed /\ ds[n].seen = 0
        /\ ds[n].rels = u.classes[n].rels
    BY <1>4, <2>3, <2>4, <2>7, <2>8 DEF Class
  <2>10. /\ ds[n].mapped <=> Maps(ws, md)
         /\ ds[n].accepted <=> ds[n].mapped /\ OnePassword(s)
    BY <1>9, <1>13, <2>9 DEF fine, keyed
  <2>11. key \notin md /\ K = N
    BY <1>5, <1>7, <1>13
  <2>12. Stops(ws, md, ds, ts, K)
    <3>1. \A c \in 1..n : c # n => Grown(ws, c, ds[c].rels, K)
      BY <1>7, <2>8
    <3>2. Valued(ws, n, ds[n].rels, K) /\ Only(ws, n, ds[n].rels, K)
      BY <1>7, <2>9
    <3>3. md \subseteq ts /\ \A k \in Links(ws, n) : k <= K => JoinsOf(ws, n, k) \subseteq ts
      BY <1>7, <1>10, <2>2
    <3>4. \A x \in ts : \/ x \in md
                         \/ (x = TableKey(ws[n].stmt) /\ x \notin md)
                         \/ (\E k \in Links(ws, n) : k <= K /\ x \in JoinsOf(ws, n, k))
      <4> SUFFICES ASSUME NEW x \in ts
                   PROVE  \/ x \in md
                          \/ (x = TableKey(ws[n].stmt) /\ x \notin md)
                          \/ (\E k \in Links(ws, n) : k <= K /\ x \in JoinsOf(ws, n, k))
        OBVIOUS
      <4>1. x \in u.metadata \/ x = key
        BY <1>10, <2>2
      <4>2. QED
        BY <1>1, <2>11, <1>7, <4>1 DEF key
    <3>5. ds[n].mapped => K = Size(ws, n) /\ TableKey(ws[n].stmt) \in ts
      BY <1>1, <1>10, <2>2, <2>11 DEF key
    <3>6. QED
      BY <1>1, <1>5, <3>1, <3>2, <3>3, <3>4, <3>5 DEF Stops
  <2>13. QED
    <3>1. ds \in Seq(Class) /\ ts \in SUBSET TableNames /\ Len(ds) = n
      BY <1>1, <1>3, <1>10, <2>2, <2>8
    <3>2. \A c \in 1..n : c # n => Like(ds[c], ws[c])
      BY <1>3, <2>8
    <3>3. /\ ds[n].stmt = ws[n].stmt /\ ds[n].seen = 0 /\ (ds[n].mapped <=> Maps(ws, md))
          /\ ds[n].accepted <=> ds[n].mapped /\ OnePassword(ws[n].stmt)
      BY <1>1, <2>9, <2>10
    <3>4. \E L \in 0..Size(ws, n) : Stops(ws, md, ds, ts, L)
      BY <1>1, <2>12
    <3>5. QED
      BY <1>1, <3>1, <3>2, <3>3, <3>4 DEF Outcome
<1>14. QED
  BY <1>3, <1>12, <1>13

-----------------------------------------------------------------------------
(* What holds of all classes, whatever statements have been executed.      *)

(* The class under name m of the registry of c is that of a relationship,  *)
(* or has one with c.                                                      *)
Raw(cs, c, m) ==
    LET info == cs[c].rels[m]
    IN \/ \E a \in RelationsOf(cs[c].stmt) :
             m = a.name /\ info = [to |-> ClassOf(cs, c, a.target), kind |-> a.kind]
       \/ \E e \in 1..Len(cs) : \E a \in RelationsOf(cs[e].stmt) :
             /\ m = Back(cs[e].stmt, a) /\ (a.native => a.back # "")
             /\ ClassOf(cs, e, a.target) = c /\ info = [to |-> e, kind |-> Mirror(a.kind)]

(* Class c is mapped: its annotations go together, all is registered. *)
Whole(cs, md, c) ==
    LET key == TableKey(cs[c].stmt)
    IN /\ ~Claimed(cs[c].stmt) /\ KeysIn(cs[c].stmt) # <<>> /\ key \in md
       /\ \A j \in 1..Size(cs, c) : Fine(cs, c, j)
       /\ Valued(cs, c, cs[c].rels, Size(cs, c))
       /\ \A j \in Links(cs, c) :
             /\ JoinsOf(cs, c, j) \subseteq md /\ key \notin JoinsOf(cs, c, j)
             /\ To(cs, c, j) # c =>
                   /\ Rev(cs, c, j) \in DOMAIN cs[To(cs, c, j)].rels
                   /\ cs[To(cs, c, j)].rels[Rev(cs, c, j)] =
                         [to |-> c, kind |-> Mirror(Ann(cs, c, j).kind)]

(* Neither of two mapped classes is in the way of the other. *)
Apart(cs, c, d) ==
    /\ TableKey(cs[c].stmt) # TableKey(cs[d].stmt)
    /\ \A j \in Links(cs, c) :
          /\ TableKey(cs[d].stmt) \notin JoinsOf(cs, c, j)
          /\ \A k \in Links(cs, d) :
                /\ JoinsOf(cs, c, j) \cap JoinsOf(cs, d, k) = {}
                /\ To(cs, c, j) = To(cs, d, k) => Rev(cs, c, j) # Rev(cs, d, k)
                /\ To(cs, c, j) = d => Rev(cs, c, j) # Ann(cs, d, k).name

(* The inductive invariant, of classes cs and tables md. *)
Sound(cs, md) ==
    /\ cs \in Seq(Class) /\ md \in SUBSET TableNames /\ Unique(cs)
    /\ \A c \in 1..Len(cs) :
          /\ Resolved(cs, c)
          /\ cs[c].accepted => cs[c].mapped /\ OnePassword(cs[c].stmt)
          /\ cs[c].mapped => Whole(cs, md, c)
          /\ \A m \in DOMAIN cs[c].rels : Raw(cs, c, m)
    /\ \A c, d \in 1..Len(cs) : cs[c].mapped /\ cs[d].mapped /\ c # d => Apart(cs, c, d)

-----------------------------------------------------------------------------
(* What is said of a class stays true when others follow.                  *)

(* ds has the statements of cs, and what cs accepts. *)
Agree(ds, cs) ==
    /\ Len(cs) <= Len(ds)
    /\ \A c \in 1..Len(cs) : ds[c].stmt = cs[c].stmt /\ (cs[c].accepted => ds[c].accepted)

(* What the statement of class c means in cs, it means in ds. *)
Same(ds, cs, c) ==
    /\ Resolved(ds, c) /\ ds[c].stmt = cs[c].stmt
    /\ \A a \in RelationsOf(cs[c].stmt) : ClassOf(ds, c, a.target) = ClassOf(cs, c, a.target)
    /\ Links(ds, c) = Links(cs, c) /\ Size(ds, c) = Size(cs, c)
    /\ \A j : Ann(ds, c, j) = Ann(cs, c, j) /\ Rev(ds, c, j) = Rev(cs, c, j)
    /\ \A j \in Links(cs, c) :
          To(ds, c, j) = To(cs, c, j) /\ JoinsOf(ds, c, j) = JoinsOf(cs, c, j)
    /\ \A j : Fine(ds, c, j) <=> Fine(cs, c, j)
    /\ \A rels, J : Valued(ds, c, rels, J) <=> Valued(cs, c, rels, J)
    /\ \A rels, J : Only(ds, c, rels, J) <=> Only(cs, c, rels, J)

(* Names keep their meaning. *)
LEMMA AgreeIs ==
    ASSUME NEW cs \in Seq(Class), NEW ds \in Seq(Class), Unique(cs), Unique(ds), Agree(ds, cs),
           NEW c \in 1..Len(cs), Resolved(cs, c)
    PROVE  Same(ds, cs, c)
<1>1. /\ ds[c].stmt = cs[c].stmt /\ c \in 1..Len(ds) /\ Len(cs) \in Nat /\ Len(ds) \in Nat
      /\ \A d \in 1..c : d \in 1..Len(cs) /\ ds[d].stmt = cs[d].stmt
      /\ \A d \in 1..c : cs[d].accepted => ds[d].accepted
  BY DEF Agree
<1>2. ASSUME NEW name, NEW t, Means(cs, c, name, t) PROVE Means(ds, c, name, t)
  BY <1>1, <1>2 DEF Means
<1>3. Resolved(ds, c)
  BY <1>1, <1>2 DEF Resolved
<1>4. ASSUME NEW a \in RelationsOf(cs[c].stmt)
      PROVE  ClassOf(ds, c, a.target) = ClassOf(cs, c, a.target)
  <2>1. PICK t : Means(cs, c, a.target, t)
    BY DEF Resolved
  <2>2. ClassOf(cs, c, a.target) = t
    BY <2>1, ClassOfIs
  <2>3. Means(ds, c, a.target, t)
    BY <1>2, <2>1
  <2>4. ClassOf(ds, c, a.target) = t
    BY <1>1, <2>3, ClassOfIs
  <2>5. QED
    BY <2>2, <2>4
<1>5. \A j : Ann(ds, c, j) = Ann(cs, c, j) /\ Rev(ds, c, j) = Rev(cs, c, j)
  BY <1>1 DEF Ann, Rev
<1>6. Size(ds, c) = Size(cs, c)
  BY <1>1 DEF Size
<1>7. Links(ds, c) = Links(cs, c)
  BY <1>5, <1>6 DEF Links
<1>8. ASSUME NEW j \in Links(cs, c)
      PROVE  /\ To(ds, c, j) = To(cs, c, j) /\ JoinsOf(ds, c, j) = JoinsOf(cs, c, j)
             /\ cs[To(cs, c, j)].stmt = ds[To(cs, c, j)].stmt
  <2>1. Ann(cs, c, j) \in RelationsOf(cs[c].stmt)
    BY ClassIs DEF Links, Link, RelationsOf
  <2>2. To(ds, c, j) = To(cs, c, j)
    BY <1>4, <1>5, <2>1 DEF To
  <2>3. To(cs, c, j) \in 1..c
    BY ToIs
  <2>4. ds[To(cs, c, j)].stmt = cs[To(cs, c, j)].stmt
    BY <1>1, <2>3
  <2>5. JoinTable(Ann(ds, c, j), ds[c].stmt, ds[To(ds, c, j)].stmt) =
           JoinTable(Ann(cs, c, j), cs[c].stmt, cs[To(cs, c, j)].stmt)
    BY <1>1, <1>5, <2>2, <2>4
  <2>6. JoinsOf(ds, c, j) = JoinsOf(cs, c, j)
    BY <1>5, <2>5 DEF JoinsOf
  <2>7. QED
    BY <2>2, <2>4, <2>6
<1>9. \A j : KeyBefore(ds, c, j) <=> KeyBefore(cs, c, j)
  BY <1>5 DEF KeyBefore
<1>10. ASSUME NEW j PROVE Fine(ds, c, j) <=> Fine(cs, c, j)
  <2>1. CASE j \in Links(cs, c)
    BY <1>5, <1>7, <1>8, <1>9, <2>1 DEF Fine
  <2>2. CASE j \notin Links(cs, c)
    BY <1>5, <1>7, <2>2 DEF Fine
  <2>3. QED
    BY <2>1, <2>2
<1>11. ASSUME NEW rels, NEW J
       PROVE  /\ Valued(ds, c, rels, J) <=> Valued(cs, c, rels, J)
              /\ Only(ds, c, rels, J) <=> Only(cs, c, rels, J)
  <2>1. Valued(ds, c, rels, J) <=> Valued(cs, c, rels, J)
    BY <1>5, <1>7, <1>8 DEF Valued
  <2>2. Only(ds, c, rels, J) <=> Only(cs, c, rels, J)
    BY <1>5, <1>7, <1>8 DEF Only
  <2>3. QED
    BY <2>1, <2>2
<1>12. QED
  BY <1>1, <1>3, <1>4, <1>5, <1>6, <1>7, <1>8, <1>10, <1>11 DEF Same

(* ds has the classes of cs, with their entries and perhaps more. *)
Extends(ds, cs) ==
    /\ Len(cs) <= Len(ds)
    /\ \A c \in 1..Len(cs) :
          /\ ds[c].stmt = cs[c].stmt /\ ds[c].accepted = cs[c].accepted
          /\ ds[c].mapped = cs[c].mapped
          /\ \A m \in DOMAIN cs[c].rels : m \in DOMAIN ds[c].rels /\ ds[c].rels[m] = cs[c].rels[m]

(* The classes of cs are as whole and as far apart in ds. *)
LEMMA Kept ==
    ASSUME NEW cs, NEW md, Sound(cs, md), NEW ds \in Seq(Class), NEW ts, md \subseteq ts,
           Unique(ds), Extends(ds, cs)
    PROVE  /\ \A c \in 1..Len(cs) :
                 /\ Same(ds, cs, c) /\ (ds[c].mapped => Whole(ds, ts, c))
                 /\ \A m \in DOMAIN cs[c].rels : Raw(ds, c, m)
           /\ \A c, d \in 1..Len(cs) : ds[c].mapped /\ ds[d].mapped /\ c # d => Apart(ds, c, d)
<1>1. /\ cs \in Seq(Class) /\ Unique(cs) /\ Len(cs) \in Nat /\ Len(ds) \in Nat
      /\ \A c \in 1..Len(cs) :
            /\ Resolved(cs, c) /\ (cs[c].mapped => Whole(cs, md, c))
            /\ \A m \in DOMAIN cs[c].rels : Raw(cs, c, m)
      /\ \A c, d \in 1..Len(cs) : cs[c].mapped /\ cs[d].mapped /\ c # d => Apart(cs, c, d)
  BY DEF Sound
<1>2. Agree(ds, cs)
  BY DEF Agree, Extends
<1>3. \A c \in 1..Len(cs) : Same(ds, cs, c)
  BY <1>1, <1>2, AgreeIs
<1>4. ASSUME NEW c \in 1..Len(cs), ds[c].mapped PROVE Whole(ds, ts, c)
  <2>1. Whole(cs, md, c) /\ Same(ds, cs, c)
    BY <1>1, <1>3, <1>4 DEF Extends
  <2>2. \A j \in Links(cs, c) : To(cs, c, j) \in 1..Len(cs)
    BY <1>1, ToIs
  <2>3. \A m \in DOMAIN cs[c].rels : m \in DOMAIN ds[c].rels /\ ds[c].rels[m] = cs[c].rels[m]
    BY DEF Extends
  <2>4. Valued(cs, c, ds[c].rels, Size(cs, c))
    <3>1. Valued(cs, c, cs[c].rels, Size(cs, c))
      BY <2>1 DEF Whole
    <3>2. QED
      BY <2>3, <3>1 DEF Valued
  <2>5. Valued(ds, c, ds[c].rels, Size(ds, c))
    BY <2>1, <2>4 DEF Same
  <2>6. ASSUME NEW j \in Links(ds, c)
        PROVE  /\ JoinsOf(ds, c, j) \subseteq ts /\ TableKey(ds[c].stmt) \notin JoinsOf(ds, c, j)
               /\ To(ds, c, j) # c =>
                     /\ Rev(ds, c, j) \in DOMAIN ds[To(ds, c, j)].rels
                     /\ ds[To(ds, c, j)].rels[Rev(ds, c, j)] =
                           [to |-> c, kind |-> Mirror(Ann(ds, c, j).kind)]
    <3>1. /\ j \in Links(cs, c) /\ To(ds, c, j) = To(cs, c, j) /\ Rev(ds, c, j) = Rev(cs, c, j)
          /\ JoinsOf(ds, c, j) = JoinsOf(cs, c, j) /\ Ann(ds, c, j) = Ann(cs, c, j)
          /\ ds[c].stmt = cs[c].stmt
      BY <2>1 DEF Same
    <3>2. /\ JoinsOf(cs, c, j) \subseteq md /\ TableKey(cs[c].stmt) \notin JoinsOf(cs, c, j)
          /\ To(cs, c, j) # c =>
                /\ Rev(cs, c, j) \in DOMAIN cs[To(cs, c, j)].rels
                /\ cs[To(cs, c, j)].rels[Rev(cs, c, j)] =
                      [to |-> c, kind |-> Mirror(Ann(cs, c, j).kind)]
      BY <2>1, <3>1 DEF Whole
    <3>3. QED
      BY <2>2, <3>1, <3>2 DEF Extends
  <2>7. /\ ~Claimed(ds[c].stmt) /\ KeysIn(ds[c].stmt) # <<>> /\ TableKey(ds[c].stmt) \in ts
        /\ \A j \in 1..Size(ds, c) : Fine(ds, c, j)
    BY <2>1 DEF Whole, Same
  <2>8. QED
    BY <2>5, <2>6, <2>7 DEF Whole
<1>5. ASSUME NEW c \in 1..Len(cs), NEW m \in DOMAIN cs[c].rels PROVE Raw(ds, c, m)
  <2>1. Raw(cs, c, m) /\ Same(ds, cs, c) /\ ds[c].rels[m] = cs[c].rels[m]
    BY <1>1, <1>3 DEF Extends
  <2>2. CASE \E a \in RelationsOf(cs[c].stmt) :
                m = a.name /\ cs[c].rels[m] = [to |-> ClassOf(cs, c, a.target), kind |-> a.kind]
    BY <2>1, <2>2 DEF Raw, Same
  <2>3. CASE \E e \in 1..Len(cs) : \E a \in RelationsOf(cs[e].stmt) :
                /\ m = Back(cs[e].stmt, a) /\ (a.native => a.back # "")
                /\ ClassOf(cs, e, a.target) = c
                /\ cs[c].rels[m] = [to |-> e, kind |-> Mirror(a.kind)]
    <3>1. PICK e \in 1..Len(cs) : \E a \in RelationsOf(cs[e].stmt) :
                /\ m = Back(cs[e].stmt, a) /\ (a.native => a.back # "")
                /\ ClassOf(cs, e, a.target) = c
                /\ cs[c].rels[m] = [to |-> e, kind |-> Mirror(a.kind)]
      BY <2>3
    <3>2. PICK a \in RelationsOf(cs[e].stmt) :
                /\ m = Back(cs[e].stmt, a) /\ (a.native => a.back # "")
                /\ ClassOf(cs, e, a.target) = c
                /\ cs[c].rels[m] = [to |-> e, kind |-> Mirror(a.kind)]
      BY <3>1
    <3>3. Same(ds, cs, e) /\ e \in 1..Len(ds)
      BY <1>1, <1>3 DEF Extends
    <3>4. a \in RelationsOf(ds[e].stmt) /\ ds[e].stmt = cs[e].stmt /\ ClassOf(ds, e, a.target) = c
      BY <3>2, <3>3 DEF Same
    <3>5. QED
      BY <2>1, <3>2, <3>3, <3>4 DEF Raw
  <2>4. QED
    BY <2>1, <2>2, <2>3 DEF Raw
<1>6. ASSUME NEW c \in 1..Len(cs), NEW d \in 1..Len(cs), ds[c].mapped, ds[d].mapped, c # d
      PROVE  Apart(ds, c, d)
  <2>1. Apart(cs, c, d) /\ Same(ds, cs, c) /\ Same(ds, cs, d)
    BY <1>1, <1>3, <1>6 DEF Extends
  <2>2. QED
    BY <2>1 DEF Apart, Same
<1>7. QED
  BY <1>3, <1>4, <1>5, <1>6

-----------------------------------------------------------------------------
(* A statement keeps to what holds of all classes.                         *)

(* Two annotations of a class have two names. *)
LEMMA NamesApart ==
    ASSUME NEW cs \in Seq(Class), NEW c \in 1..Len(cs), NEW j \in 1..Size(cs, c),
           NEW k \in 1..Size(cs, c), j # k
    PROVE  Ann(cs, c, j).name # Ann(cs, c, k).name
<1>1. cs[c].stmt \in Statements
  BY ClassIs
<1>2. j \in DOMAIN cs[c].stmt.body /\ k \in DOMAIN cs[c].stmt.body
  BY <1>1, BodyIs DEF Size
<1>3. QED
  BY <1>1, <1>2, ModelClassesAssumption DEF Ann

(* The entries that a statement leaves in the registry of its class. *)
LEMMA ValueIs ==
    ASSUME NEW cs \in Seq(Class), NEW c \in 1..Len(cs), NEW J \in Nat, NEW rels,
           Valued(cs, c, rels, J), Only(cs, c, rels, J), NEW m \in DOMAIN rels
    PROVE  \E k \in Links(cs, c) :
              \/ (m = Ann(cs, c, k).name /\ 
                  rels[m] = [to |-> To(cs, c, k), kind |-> Ann(cs, c, k).kind])
              \/ (To(cs, c, k) = c /\ m = Rev(cs, c, k) /\ 
                  rels[m] = [to |-> c, kind |-> Mirror(Ann(cs, c, k).kind)])
<1> DEFINE Goal == \E k \in Links(cs, c) :
              \/ (m = Ann(cs, c, k).name /\ 
                  rels[m] = [to |-> To(cs, c, k), kind |-> Ann(cs, c, k).kind])
              \/ (To(cs, c, k) = c /\ m = Rev(cs, c, k) /\ 
                  rels[m] = [to |-> c, kind |-> Mirror(Ann(cs, c, k).kind)])
<1>1. \A k \in Links(cs, c) : k \in 1..Size(cs, c) /\ k \in Nat
  BY ClassIs DEF Links
<1>2. ASSUME NEW k \in Links(cs, c), k <= J, m = Ann(cs, c, k).name PROVE Goal
  <2>1. CASE To(cs, c, k) # c \/ Rev(cs, c, k) # Ann(cs, c, k).name
    BY <1>2, <2>1 DEF Valued
  <2>2. CASE To(cs, c, k) = c /\ Rev(cs, c, k) = Ann(cs, c, k).name
    <3>1. \A i \in Links(cs, c) : k < i /\ i <= J => Ann(cs, c, i).name # Rev(cs, c, k)
      BY <1>1, <2>2, NamesApart
    <3>2. rels[Rev(cs, c, k)] = [to |-> c, kind |-> Mirror(Ann(cs, c, k).kind)]
      BY <1>2, <2>2, <3>1 DEF Valued
    <3>3. QED
      BY <1>2, <2>2, <3>2
  <2>3. QED
    BY <2>1, <2>2
<1>3. ASSUME NEW k \in Links(cs, c), k <= J, To(cs, c, k) = c, m = Rev(cs, c, k) PROVE Goal
  <2>1. CASE \A i \in Links(cs, c) : k < i /\ i <= J => Ann(cs, c, i).name # Rev(cs, c, k)
    BY <1>3, <2>1 DEF Valued
  <2>2. CASE \E i \in Links(cs, c) : i <= J /\ Ann(cs, c, i).name = m
    <3> HIDE DEF Goal
    <3>1. QED
      BY <1>2, <2>2
  <2>3. QED
    BY <1>3, <2>1, <2>2
<1>4. PICK k \in Links(cs, c) :
         k <= J /\ (m = Ann(cs, c, k).name \/ (To(cs, c, k) = c /\ m = Rev(cs, c, k)))
  BY DEF Only
<1> HIDE DEF Goal
<1>5. Goal
  BY <1>2, <1>3, <1>4
<1>6. QED
  BY <1>5 DEF Goal

(* A statement keeps the invariant if its name is free or it is refused. *)
LEMMA SoundAfter ==
    ASSUME NEW cs, NEW md, Sound(cs, md), NEW s \in Statements,
           Resolved(With(cs, s), Len(cs) + 1),
           NEW ds, NEW ts, Outcome(With(cs, s), md, ds, ts),
           ds[Len(cs) + 1].accepted => s.name \notin Bound(cs)
    PROVE  Sound(ds, ts) /\ Extends(ds, cs) /\ Same(ds, With(cs, s), Len(cs) + 1)
<1> DEFINE ws == With(cs, s)
           n  == Len(cs) + 1
<1>1. /\ cs \in Seq(Class) /\ md \in SUBSET TableNames /\ Unique(cs) /\ Len(cs) \in Nat
      /\ \A c \in 1..Len(cs) :
            /\ Resolved(cs, c) /\ (cs[c].accepted => cs[c].mapped /\ OnePassword(cs[c].stmt))
            /\ (cs[c].mapped => Whole(cs, md, c))
            /\ \A m \in DOMAIN cs[c].rels : Raw(cs, c, m)
      /\ \A c, d \in 1..Len(cs) : cs[c].mapped /\ cs[d].mapped /\ c # d => Apart(cs, c, d)
  BY DEF Sound
<1>2. /\ ws \in Seq(Class) /\ Len(ws) = n /\ n \in 1..n /\ ws[n] = NewClass(s)
      /\ ws[n].stmt = s /\ ~ws[n].accepted /\ ~ws[n].mapped
      /\ \A c \in 1..Len(cs) : ws[c] = cs[c]
      /\ \A c \in 1..n : c # n => c \in 1..Len(cs)
      /\ \A c \in 1..Len(cs) : c \in 1..n /\ c # n
  BY <1>1, WithIs, NewClassIs
<1> HIDE DEF ws, n
<1>3. /\ ds \in Seq(Class) /\ ts \in SUBSET TableNames /\ Len(ds) = n
      /\ \A c \in 1..n : c # n => Like(ds[c], ws[c])
      /\ ds[n].stmt = s /\ ds[n].seen = 0
      /\ ds[n].mapped <=> Maps(ws, md)
      /\ ds[n].accepted <=> ds[n].mapped /\ OnePassword(s)
  <2>1. Outcome(ws, md, ds, ts)
    BY DEF ws
  <2>2. QED
    BY <1>2, <2>1 DEF Outcome
<1>4. PICK K \in 0..Size(ws, n) : Stops(ws, md, ds, ts, K)
  <2>1. Outcome(ws, md, ds, ts)
    BY DEF ws
  <2>2. QED
    BY <1>2, <2>1 DEF Outcome
<1>5. /\ \A j \in 1..K : Good(ws, md, j)
      /\ \A c \in 1..n : c # n => Grown(ws, c, ds[c].rels, K)
      /\ Valued(ws, n, ds[n].rels, K) /\ Only(ws, n, ds[n].rels, K)
      /\ md \subseteq ts /\ \A k \in Links(ws, n) : k <= K => JoinsOf(ws, n, k) \subseteq ts
      /\ ds[n].mapped => K = Size(ws, n) /\ TableKey(s) \in ts
  BY <1>2, <1>4 DEF Stops
<1>6. \A c \in 1..Len(cs) :
         /\ ds[c].stmt = cs[c].stmt /\ ds[c].accepted = cs[c].accepted
         /\ ds[c].mapped = cs[c].mapped
         /\ \A m \in DOMAIN cs[c].rels : m \in DOMAIN ds[c].rels /\ ds[c].rels[m] = cs[c].rels[m]
  BY <1>2, <1>3, <1>5 DEF Grown, Like
<1>7. Extends(ds, cs)
  BY <1>1, <1>3, <1>6 DEF Extends, n
<1>8. Unique(ws)
  BY <1>1, <1>2 DEF Unique
<1>9. Unique(ds)
  <2> SUFFICES ASSUME NEW c \in 1..n, NEW d \in 1..n, ds[c].accepted, ds[d].accepted,
                      ds[c].stmt.name = ds[d].stmt.name
               PROVE  c = d
    BY <1>3 DEF Unique
  <2>1. \A e \in 1..Len(cs) : ds[e].accepted => ds[e].stmt.name \in Bound(cs)
    BY <1>1, <1>6 DEF Bound
  <2>2. ds[n].accepted => ds[n].stmt.name \notin Bound(cs)
    BY <1>3 DEF n
  <2>3. CASE c # n /\ d # n
    BY <1>1, <1>2, <1>6, <2>3 DEF Unique
  <2>4. CASE c = n \/ d = n
    BY <1>2, <2>1, <2>2, <2>4
  <2>5. QED
    BY <2>3, <2>4
<1>10. Agree(ds, ws) /\ Agree(ws, cs)
  BY <1>1, <1>2, <1>3, <1>6 DEF Agree, n
<1>11. Resolved(ws, n)
  BY DEF ws, n
<1>12. Same(ds, ws, n) /\ \A c \in 1..Len(cs) : Same(ws, cs, c)
  BY <1>1, <1>2, <1>3, <1>8, <1>9, <1>10, <1>11, AgreeIs
<1>13. /\ \A c \in 1..Len(cs) :
             /\ Same(ds, cs, c) /\ (ds[c].mapped => Whole(ds, ts, c))
             /\ \A m \in DOMAIN cs[c].rels : Raw(ds, c, m)
       /\ \A c, d \in 1..Len(cs) : ds[c].mapped /\ ds[d].mapped /\ c # d => Apart(ds, c, d)
  BY <1>3, <1>5, <1>7, <1>9, Kept
<1>14. /\ ds[n].stmt = ws[n].stmt /\ Resolved(ds, n)
       /\ Links(ds, n) = Links(ws, n) /\ Size(ds, n) = Size(ws, n) /\ Size(ws, n) \in Nat
       /\ \A j : Ann(ds, n, j) = Ann(ws, n, j) /\ Rev(ds, n, j) = Rev(ws, n, j)
       /\ \A j \in Links(ws, n) :
             /\ To(ds, n, j) = To(ws, n, j) /\ JoinsOf(ds, n, j) = JoinsOf(ws, n, j)
             /\ To(ws, n, j) \in 1..n /\ j \in 1..Size(ws, n)
             /\ Ann(ws, n, j) \in RelationsOf(s) /\ ~Ann(ws, n, j).native
       /\ \A j : Fine(ds, n, j) <=> Fine(ws, n, j)
       /\ \A rels, J : Valued(ds, n, rels, J) <=> Valued(ws, n, rels, J)
  <2>1. \A j \in Links(ws, n) : To(ws, n, j) \in 1..n
    BY <1>2, <1>8, <1>11, ToIs
  <2>2. Size(ws, n) \in Nat
    BY <1>2, ClassIs
  <2>3. \A j \in Links(ws, n) : /\ j \in 1..Size(ws, n)
                                /\ Ann(ws, n, j) \in RelationsOf(s) /\ ~Ann(ws, n, j).native
    BY <1>2, ClassIs DEF Links, Link, RelationsOf
  <2>4. QED
    BY <1>12, <2>1, <2>2, <2>3 DEF Same
<1>15. ASSUME ds[n].mapped
       PROVE  /\ ~Claimed(s) /\ KeysIn(s) # <<>> /\ K = Size(ws, n) /\ TableKey(s) \in ts
              /\ \A j \in 1..Size(ws, n) : Fine(ws, n, j)
              /\ TableKey(s) \notin md
              /\ \A j \in Links(ws, n) :
                    /\ j <= K /\ TableKey(s) \notin JoinsOf(ws, n, j)
                    /\ To(ws, n, j) # n => Rev(ws, n, j) \notin DOMAIN cs[To(ws, n, j)].rels
                    /\ JoinsOf(ws, n, j) \cap md = {}
  <2>1. /\ ~Claimed(s) /\ KeysIn(s) # <<>> /\ TableKey(s) \notin md
        /\ \A j \in 1..Size(ws, n) : Good(ws, md, j)
        /\ \A j \in Links(ws, n) : TableKey(s) \notin JoinsOf(ws, n, j)
    BY <1>2, <1>3, <1>15 DEF Maps
  <2>2. K = Size(ws, n) /\ TableKey(s) \in ts
    BY <1>5, <1>15
  <2>3. \A j \in 1..Size(ws, n) : Fine(ws, n, j) /\ Free(ws, md, j)
    BY <1>2, <2>1 DEF Good
  <2>4. ASSUME NEW j \in Links(ws, n)
        PROVE  /\ To(ws, n, j) # n => Rev(ws, n, j) \notin DOMAIN cs[To(ws, n, j)].rels
               /\ JoinsOf(ws, n, j) \cap md = {}
    <3>1. Free(ws, md, j)
      BY <1>14, <2>3
    <3>2. QED
      BY <1>2, <1>14, <3>1 DEF Free
  <2>5. \A j \in Links(ws, n) : j <= K
    BY <1>14, <2>2
  <2>6. QED
    BY <2>1, <2>2, <2>3, <2>4, <2>5
<1>16. ds[n].mapped => Whole(ds, ts, n)
  <2> SUFFICES ASSUME ds[n].mapped PROVE Whole(ds, ts, n)
    OBVIOUS
  <2>1. Valued(ds, n, ds[n].rels, Size(ds, n))
    BY <1>5, <1>14, <1>15
  <2>2. ASSUME NEW j \in Links(ds, n)
        PROVE  /\ JoinsOf(ds, n, j) \subseteq ts /\ TableKey(ds[n].stmt) \notin JoinsOf(ds, n, j)
               /\ To(ds, n, j) # n =>
                     /\ Rev(ds, n, j) \in DOMAIN ds[To(ds, n, j)].rels
                     /\ ds[To(ds, n, j)].rels[Rev(ds, n, j)] =
                           [to |-> n, kind |-> Mirror(Ann(ds, n, j).kind)]
    <3>1. /\ j \in Links(ws, n) /\ To(ds, n, j) = To(ws, n, j) /\ Rev(ds, n, j) = Rev(ws, n, j)
          /\ JoinsOf(ds, n, j) = JoinsOf(ws, n, j) /\ Ann(ds, n, j) = Ann(ws, n, j)
          /\ j <= K /\ TableKey(s) \notin JoinsOf(ws, n, j) /\ To(ws, n, j) \in 1..n
      BY <1>14, <1>15
    <3>2. To(ws, n, j) # n => Grown(ws, To(ws, n, j), ds[To(ws, n, j)].rels, K)
      BY <1>5, <3>1
    <3>3. QED
      BY <1>2, <1>3, <1>5, <3>1, <3>2 DEF Grown
  <2>3. /\ ~Claimed(ds[n].stmt) /\ KeysIn(ds[n].stmt) # <<>> /\ TableKey(ds[n].stmt) \in ts
        /\ \A j \in 1..Size(ds, n) : Fine(ds, n, j)
    BY <1>3, <1>14, <1>15
  <2>4. QED
    BY <2>1, <2>2, <2>3 DEF Whole
<1>17. ASSUME NEW c \in 1..n, NEW m \in DOMAIN ds[c].rels PROVE Raw(ds, c, m)
  <2>1. CASE c # n /\ m \in DOMAIN cs[c].rels
    BY <1>2, <1>13, <2>1
  <2>2. CASE c # n /\ m \notin DOMAIN cs[c].rels
    <3>1. Grown(ws, c, ds[c].rels, K) /\ m \notin DOMAIN ws[c].rels
      BY <1>2, <1>5, <2>2
    <3>2. PICK k \in Links(ws, n) : /\ k <= K /\ To(ws, n, k) = c /\ m = Rev(ws, n, k)
                                    /\ ds[c].rels[m] = [to |-> n, kind |-> Mirror(Ann(ws, n, k).kind)]
      BY <1>2, <3>1 DEF Grown
    <3> DEFINE a == Ann(ws, n, k)
    <3>3. /\ a \in RelationsOf(ds[n].stmt) /\ ~a.native /\ m = Back(ds[n].stmt, a)
          /\ ClassOf(ds, n, a.target) = c
      BY <1>2, <1>3, <1>14, <3>2 DEF Rev, To
    <3> HIDE DEF a
    <3>4. ds[c].rels[m] = [to |-> n, kind |-> Mirror(a.kind)]
      BY <3>2 DEF a
    <3>5. n \in 1..Len(ds)
      BY <1>2, <1>3
    <3>6. QED
      BY <3>3, <3>4, <3>5 DEF Raw
  <2>3. CASE c = n
    <3>1. K \in Nat /\ n \in 1..Len(ws) /\ m \in DOMAIN ds[n].rels
      BY <1>2, <1>14, <2>3
    <3>2. PICK k \in Links(ws, n) :
              \/ (m = Ann(ws, n, k).name /\
                  ds[n].rels[m] = [to |-> To(ws, n, k), kind |-> Ann(ws, n, k).kind])
              \/ (To(ws, n, k) = n /\ m = Rev(ws, n, k) /\
                  ds[n].rels[m] = [to |-> n, kind |-> Mirror(Ann(ws, n, k).kind)])
      BY <1>2, <1>5, <3>1, ValueIs
    <3> DEFINE a == Ann(ws, n, k)
    <3>3. /\ a \in RelationsOf(ds[n].stmt) /\ ~a.native
          /\ ClassOf(ds, n, a.target) = To(ws, n, k) /\ Rev(ws, n, k) = Back(ds[n].stmt, a)
      BY <1>2, <1>3, <1>14, <3>2 DEF Rev, To
    <3>4. CASE m = a.name /\ ds[n].rels[m] = [to |-> To(ws, n, k), kind |-> a.kind]
      BY <2>3, <3>3, <3>4 DEF Raw
    <3>5. CASE /\ To(ws, n, k) = n /\ m = Rev(ws, n, k)
               /\ ds[n].rels[m] = [to |-> n, kind |-> Mirror(a.kind)]
      <4>1. n \in 1..Len(ds)
        BY <1>2, <1>3
      <4>2. QED
        BY <2>3, <3>3, <3>5, <4>1 DEF Raw
    <3>6. QED
      BY <3>2, <3>4, <3>5
  <2>4. QED
    BY <2>1, <2>2, <2>3
<1>18. ASSUME NEW d \in 1..Len(cs), ds[d].mapped, ds[n].mapped
       PROVE  Apart(ds, n, d) /\ Apart(ds, d, n)
  <2>1. Whole(cs, md, d) /\ Same(ds, cs, d) /\ d \in 1..n /\ d # n
    BY <1>1, <1>2, <1>6, <1>13, <1>18
  <2>2. /\ TableKey(cs[d].stmt) \in md
        /\ \A k \in Links(cs, d) : JoinsOf(cs, d, k) \subseteq md
    BY <2>1 DEF Whole
  <2>3. \A k \in Links(cs, d) : /\ To(cs, d, k) \in 1..d /\ k <= Size(cs, d)
                                /\ Ann(cs, d, k).name \in DOMAIN cs[d].rels
                                /\ Rev(cs, d, k) \in DOMAIN cs[To(cs, d, k)].rels
    <3>1. Valued(cs, d, cs[d].rels, Size(cs, d))
      BY <2>1 DEF Whole
    <3>2. \A k \in Links(cs, d) : To(cs, d, k) \in 1..d /\ k <= Size(cs, d)
      BY <1>1, ToIs, ClassIs DEF Links
    <3>3. \A k \in Links(cs, d) : To(cs, d, k) # d => Rev(cs, d, k) \in DOMAIN cs[To(cs, d, k)].rels
      BY <2>1 DEF Whole
    <3>4. QED
      BY <3>1, <3>2, <3>3 DEF Valued
  <2>4. /\ Links(ds, d) = Links(cs, d) /\ ds[d].stmt = cs[d].stmt
        /\ \A j : Ann(ds, d, j) = Ann(cs, d, j) /\ Rev(ds, d, j) = Rev(cs, d, j)
        /\ \A j \in Links(cs, d) :
              To(ds, d, j) = To(cs, d, j) /\ JoinsOf(ds, d, j) = JoinsOf(cs, d, j)
    BY <2>1 DEF Same
  <2>5. \A k \in Links(cs, d) : To(cs, d, k) # n
    BY <1>2, <2>1, <2>3 DEF n
  <2>6. TableKey(ds[n].stmt) # TableKey(ds[d].stmt)
    BY <1>3, <1>15, <1>18, <2>2, <2>4
  <2>7. ASSUME NEW j \in Links(ds, n), NEW k \in Links(ds, d)
        PROVE  /\ JoinsOf(ds, n, j) \cap JoinsOf(ds, d, k) = {}
               /\ To(ds, n, j) = To(ds, d, k) => Rev(ds, n, j) # Rev(ds, d, k)
               /\ To(ds, n, j) = d => Rev(ds, n, j) # Ann(ds, d, k).name
               /\ To(ds, d, k) # n
    <3>1. /\ j \in Links(ws, n) /\ k \in Links(cs, d) /\ JoinsOf(ds, n, j) = JoinsOf(ws, n, j)
          /\ To(ds, n, j) = To(ws, n, j) /\ Rev(ds, n, j) = Rev(ws, n, j)
      BY <1>14, <2>4
    <3>2. /\ To(ws, n, j) # n => Rev(ws, n, j) \notin DOMAIN cs[To(ws, n, j)].rels
          /\ JoinsOf(ws, n, j) \cap md = {}
      BY <1>15, <1>18, <3>1
    <3>3. QED
      BY <2>1, <2>2, <2>3, <2>4, <2>5, <3>1, <3>2
  <2>8. \A j \in Links(ds, n) : TableKey(ds[d].stmt) \notin JoinsOf(ds, n, j)
    BY <1>14, <1>15, <1>18, <2>2, <2>4
  <2>9. \A k \in Links(ds, d) : TableKey(ds[n].stmt) \notin JoinsOf(ds, d, k)
    BY <1>3, <1>15, <1>18, <2>2, <2>4
  <2>10. Apart(ds, n, d)
    BY <2>6, <2>7, <2>8 DEF Apart
  <2>11. Apart(ds, d, n)
    BY <2>6, <2>7, <2>9 DEF Apart
  <2>12. QED
    BY <2>10, <2>11
<1>19. ASSUME NEW c \in 1..n
       PROVE  /\ Resolved(ds, c)
              /\ ds[c].accepted => ds[c].mapped /\ OnePassword(ds[c].stmt)
              /\ ds[c].mapped => Whole(ds, ts, c)
  <2>1. CASE c = n
    BY <1>3, <1>14, <1>16, <2>1
  <2>2. CASE c # n
    BY <1>1, <1>2, <1>6, <1>13, <2>2 DEF Same
  <2>3. QED
    BY <2>1, <2>2
<1>20. \A c, d \in 1..n : ds[c].mapped /\ ds[d].mapped /\ c # d => Apart(ds, c, d)
  BY <1>2, <1>13, <1>18
<1>21. Sound(ds, ts)
  BY <1>3, <1>9, <1>17, <1>19, <1>20 DEF Sound
<1>22. QED
  BY <1>7, <1>12, <1>21 DEF ws, n

-----------------------------------------------------------------------------
(* What SQLAlchemy makes of the classes.                                   *)

(* The relationship of class c that annotation a declares, and its reverse. *)
OwnOf(cs, c, a) ==
    [name |-> a.name, to |-> ClassOf(cs, c, a.target), kind |-> a.kind,
     native |-> a.native, since |-> c]

OtherOf(cs, e, a) ==
    [name |-> Back(cs[e].stmt, a), to |-> e, kind |-> Mirror(a.kind),
     native |-> a.native, since |-> e]

(* Annotation a of class e gives class c a reverse. *)
Reverse(cs, c, e, a) ==
    /\ e \in MappedOf(cs) /\ a \in RelationsOf(cs[e].stmt)
    /\ ClassOf(cs, e, a.target) = c /\ (a.native => a.back # "")

(* SqlRelations has those, and no others. *)
LEMMA RelationsAre ==
    ASSUME NEW cs, NEW c
    PROVE  \A r : r \in SqlRelations(cs, c) <=>
              \/ (\E a \in RelationsOf(cs[c].stmt) : r = OwnOf(cs, c, a))
              \/ (\E e, a : Reverse(cs, c, e, a) /\ r = OtherOf(cs, e, a))
<1> DEFINE Own == {OwnOf(cs, c, a) : a \in RelationsOf(cs[c].stmt)}
           From(e) == {b \in RelationsOf(cs[e].stmt) :
                          ClassOf(cs, e, b.target) = c /\ (b.native => b.back # "")}
           Other(e) == {OtherOf(cs, e, a) : a \in From(e)}
<1>1. SqlRelations(cs, c) = Own \cup UNION {Other(e) : e \in MappedOf(cs)}
  BY DEF SqlRelations, OwnOf, OtherOf
<1>2. \A r : r \in Own <=> \E a \in RelationsOf(cs[c].stmt) : r = OwnOf(cs, c, a)
  OBVIOUS
<1>3. \A e \in MappedOf(cs) : \A a : a \in From(e) <=> Reverse(cs, c, e, a)
  BY DEF Reverse
<1>4. \A e, r : r \in Other(e) <=> \E a \in From(e) : r = OtherOf(cs, e, a)
  OBVIOUS
<1> HIDE DEF Own, From, Other
<1>5. \A r : r \in SqlRelations(cs, c) <=> (r \in Own \/ \E e \in MappedOf(cs) : r \in Other(e))
  BY <1>1
<1>6. \A e, a : Reverse(cs, c, e, a) => e \in MappedOf(cs)
  BY DEF Reverse
<1>7. \A r : (\E e \in MappedOf(cs) : r \in Other(e)) <=>
                (\E e, a : Reverse(cs, c, e, a) /\ r = OtherOf(cs, e, a))
  BY <1>3, <1>4, <1>6
<1>8. QED
  BY <1>2, <1>5, <1>7

(* The mapped classes, by number. *)
LEMMA MappedIs ==
    ASSUME NEW cs \in Seq(Class)
    PROVE  \A c : c \in MappedOf(cs) <=> c \in 1..Len(cs) /\ cs[c].mapped
<1>1. DOMAIN cs = 1..Len(cs)
  OBVIOUS
<1>2. QED
  BY <1>1 DEF MappedOf

(* An annotation is native or not. *)
LEMMA NativeIs ==
    ASSUME NEW cs \in Seq(Class), NEW c \in 1..Len(cs), NEW a \in RelationsOf(cs[c].stmt)
    PROVE  a.native \in BOOLEAN
<1>1. a \in Annotation
  <2>1. a \in Body(cs[c].stmt) /\ cs[c].stmt \in Statements
    BY ClassIs DEF RelationsOf
  <2>2. QED
    BY <2>1, BodyIs
<1>2. QED
  BY <1>1 DEF Annotation

(* Those that the library makes, by annotation. *)
Declared(cs, c, j, r) ==
    /\ j \in Links(cs, c) /\ r.name = Ann(cs, c, j).name /\ r.to = To(cs, c, j)
    /\ r.kind = Ann(cs, c, j).kind /\ ~r.native /\ r.since = c

(* And the reverse of one. *)
Mirrored(cs, c, e, j, r) ==
    /\ e \in 1..Len(cs) /\ cs[e].mapped /\ j \in Links(cs, e) /\ To(cs, e, j) = c
    /\ r.name = Rev(cs, e, j) /\ r.to = e
    /\ r.kind = Mirror(Ann(cs, e, j).kind) /\ ~r.native /\ r.since = e

(* A relationship that the library makes is one of these. *)
LEMMA MadeAre ==
    ASSUME NEW cs \in Seq(Class), NEW c \in 1..Len(cs), NEW r \in SqlRelations(cs, c), ~r.native
    PROVE  (\E j : Declared(cs, c, j, r)) \/ (\E e, j : Mirrored(cs, c, e, j, r))
<1>1. CASE \E a \in RelationsOf(cs[c].stmt) : r = OwnOf(cs, c, a)
  <2>1. PICK a \in RelationsOf(cs[c].stmt) : r = OwnOf(cs, c, a)
    BY <1>1
  <2>2. PICK j \in 1..Size(cs, c) : a = Ann(cs, c, j)
    BY ClassIs DEF RelationsOf
  <2>3. /\ r.name = a.name /\ r.to = ClassOf(cs, c, a.target) /\ r.kind = a.kind
        /\ r.native = a.native /\ r.since = c
    BY <2>1 DEF OwnOf
  <2>4. j \in Links(cs, c)
    BY <2>1, <2>2, <2>3 DEF Links, Link, RelationsOf
  <2>5. Declared(cs, c, j, r)
    BY <2>2, <2>3, <2>4 DEF Declared, To
  <2>6. QED
    BY <2>5
<1>2. CASE \E e, a : Reverse(cs, c, e, a) /\ r = OtherOf(cs, e, a)
  <2>1. PICK e, a : Reverse(cs, c, e, a) /\ r = OtherOf(cs, e, a)
    BY <1>2
  <2>2. e \in 1..Len(cs) /\ cs[e].mapped /\ a \in RelationsOf(cs[e].stmt)
        /\ ClassOf(cs, e, a.target) = c
    BY <2>1, MappedIs DEF Reverse
  <2>3. PICK j \in 1..Size(cs, e) : a = Ann(cs, e, j)
    BY <2>2, ClassIs DEF RelationsOf
  <2>4. /\ r.name = Back(cs[e].stmt, a) /\ r.to = e /\ r.kind = Mirror(a.kind)
        /\ r.native = a.native /\ r.since = e
    BY <2>1 DEF OtherOf
  <2>5. j \in Links(cs, e)
    BY <2>2, <2>3, <2>4 DEF Links, Link, RelationsOf
  <2>6. Mirrored(cs, c, e, j, r)
    BY <2>2, <2>3, <2>4, <2>5 DEF Mirrored, To, Rev
  <2>7. QED
    BY <2>6
<1>3. QED
  BY <1>1, <1>2, RelationsAre

(* EntriesAreMapped, from the invariant. *)
LEMMA SoundMapped ==
    ASSUME NEW cs, NEW md, Sound(cs, md)
    PROVE  EntriesAreMapped(cs)
<1> SUFFICES ASSUME NEW c \in MappedOf(cs), NEW m \in DOMAIN cs[c].rels,
                    cs[cs[c].rels[m].to].mapped
             PROVE  \E r \in SqlRelations(cs, c) :
                       r.name = m /\ r.to = cs[c].rels[m].to /\ r.kind = cs[c].rels[m].kind
  BY DEF EntriesAreMapped
<1>1. Raw(cs, c, m) /\ cs \in Seq(Class) /\ c \in 1..Len(cs)
  BY DEF Sound, MappedOf
<1>2. CASE \E a \in RelationsOf(cs[c].stmt) :
              m = a.name /\ cs[c].rels[m] = [to |-> ClassOf(cs, c, a.target), kind |-> a.kind]
  <2>1. PICK a \in RelationsOf(cs[c].stmt) :
              m = a.name /\ cs[c].rels[m] = [to |-> ClassOf(cs, c, a.target), kind |-> a.kind]
    BY <1>2
  <2>2. OwnOf(cs, c, a) \in SqlRelations(cs, c)
    BY RelationsAre
  <2>3. QED
    BY <2>1, <2>2 DEF OwnOf
<1>3. CASE \E e \in 1..Len(cs) : \E a \in RelationsOf(cs[e].stmt) :
              /\ m = Back(cs[e].stmt, a) /\ (a.native => a.back # "")
              /\ ClassOf(cs, e, a.target) = c
              /\ cs[c].rels[m] = [to |-> e, kind |-> Mirror(a.kind)]
  <2>1. PICK e \in 1..Len(cs) : \E a \in RelationsOf(cs[e].stmt) :
              /\ m = Back(cs[e].stmt, a) /\ (a.native => a.back # "")
              /\ ClassOf(cs, e, a.target) = c
              /\ cs[c].rels[m] = [to |-> e, kind |-> Mirror(a.kind)]
    BY <1>3
  <2>2. PICK a \in RelationsOf(cs[e].stmt) :
              /\ m = Back(cs[e].stmt, a) /\ (a.native => a.back # "")
              /\ ClassOf(cs, e, a.target) = c
              /\ cs[c].rels[m] = [to |-> e, kind |-> Mirror(a.kind)]
    BY <2>1
  <2> DEFINE info == cs[c].rels[m]
  <2>10. info = [to |-> e, kind |-> Mirror(a.kind)]
    BY <2>2, Zenon
  <2> HIDE DEF info
  <2>11. info.to = e /\ info.kind = Mirror(a.kind)
    BY <2>10
  <2> USE DEF info
  <2>3. Reverse(cs, c, e, a)
    <3>1. cs[c].rels[m].to = e
      BY <2>11
    <3>2. e \in MappedOf(cs)
      BY <1>1, <3>1, MappedIs
    <3>3. QED
      BY <2>2, <3>2 DEF Reverse
  <2>4. OtherOf(cs, e, a) \in SqlRelations(cs, c)
    BY <2>3, RelationsAre
  <2>5. /\ OtherOf(cs, e, a).name = m /\ OtherOf(cs, e, a).to = e
        /\ OtherOf(cs, e, a).kind = Mirror(a.kind)
    BY <2>2 DEF OtherOf
  <2>6. cs[c].rels[m].to = e /\ cs[c].rels[m].kind = Mirror(a.kind)
    BY <2>11
  <2>7. QED
    BY <2>4, <2>5, <2>6
<1>4. QED
  BY <1>1, <1>2, <1>3 DEF Raw

(* What the library makes is registered when the class is mapped. *)
LEMMA SoundRegistered ==
    ASSUME NEW cs, NEW md, Sound(cs, md), NEW c \in MappedOf(cs), NEW r \in SqlRelations(cs, c),
           ~r.native
    PROVE  r.name \in DOMAIN cs[c].rels
<1>1. cs \in Seq(Class) /\ c \in 1..Len(cs)
  BY DEF Sound, MappedOf
<1>2. \A e \in 1..Len(cs) : cs[e].mapped => Whole(cs, md, e)
  BY DEF Sound
<1>3. \A e \in 1..Len(cs) : \A j \in Links(cs, e) : j <= Size(cs, e)
  BY <1>1, ClassIs DEF Links
<1>4. CASE \E j : Declared(cs, c, j, r)
  <2>1. PICK j : Declared(cs, c, j, r)
    BY <1>4
  <2>2. Valued(cs, c, cs[c].rels, Size(cs, c))
    BY <1>1, <1>2 DEF Whole, MappedOf
  <2>3. QED
    BY <1>1, <1>3, <2>1, <2>2 DEF Declared, Valued
<1>5. CASE \E e, j : Mirrored(cs, c, e, j, r)
  <2>1. PICK e, j : Mirrored(cs, c, e, j, r)
    BY <1>5
  <2>2. e \in 1..Len(cs) /\ j \in Links(cs, e) /\ To(cs, e, j) = c /\ r.name = Rev(cs, e, j)
        /\ Whole(cs, md, e)
    BY <1>2, <2>1 DEF Mirrored
  <2>3. CASE e = c
    <3>1. Valued(cs, c, cs[c].rels, Size(cs, c))
      BY <2>2, <2>3 DEF Whole
    <3>2. QED
      BY <1>1, <1>3, <2>2, <2>3, <3>1 DEF Valued
  <2>4. CASE e # c
    BY <2>2, <2>4 DEF Whole
  <2>5. QED
    BY <2>3, <2>4
<1>6. QED
  BY <1>1, <1>4, <1>5, MadeAre

(* NoneClash, from the invariant. *)
LEMMA SoundApart ==
    ASSUME NEW cs, NEW md, Sound(cs, md)
    PROVE  NoneClash(cs)
<1> SUFFICES ASSUME NEW c \in MappedOf(cs), NEW r \in SqlRelations(cs, c),
                    NEW s \in SqlRelations(cs, c), ~r.native, ~s.native, r.name = s.name,
                    r.to # c, s.to # c
             PROVE  r = s
  BY DEF NoneClash
<1>1. /\ cs \in Seq(Class) /\ c \in 1..Len(cs) /\ Unique(cs)
      /\ \A e \in 1..Len(cs) : Resolved(cs, e) /\ (cs[e].mapped => Whole(cs, md, e))
      /\ \A d, e \in 1..Len(cs) : cs[d].mapped /\ cs[e].mapped /\ d # e => Apart(cs, d, e)
      /\ cs[c].mapped
  BY DEF Sound, MappedOf
<1>2. \A e \in 1..Len(cs) : \A j \in Links(cs, e) : j \in 1..Size(cs, e)
  BY DEF Links
<1>3. ASSUME NEW x \in SqlRelations(cs, c), NEW y \in SqlRelations(cs, c),
             x.name = y.name, x.to = y.to, x.kind = y.kind, ~x.native, ~y.native,
             x.since = y.since
      PROVE  x = y
  <2>1. \A z \in SqlRelations(cs, c) :
           z = [name |-> z.name, to |-> z.to, kind |-> z.kind, native |-> z.native, since |-> z.since]
    BY RelationsAre DEF OwnOf, OtherOf
  <2>2. \A z \in SqlRelations(cs, c) : z.native \in BOOLEAN
    <3>1. \A a \in RelationsOf(cs[c].stmt) : OwnOf(cs, c, a).native \in BOOLEAN
      BY <1>1, NativeIs DEF OwnOf
    <3>2. \A e, a : Reverse(cs, c, e, a) => OtherOf(cs, e, a).native \in BOOLEAN
      BY <1>1, NativeIs, MappedIs DEF OtherOf, Reverse
    <3>3. QED
      BY <3>1, <3>2, RelationsAre
  <2>3. x.native = y.native
    BY <1>3, <2>2
  <2>4. QED
    BY <1>3, <2>1, <2>3
<1>4. ASSUME NEW i, NEW j, Declared(cs, c, i, r), Declared(cs, c, j, s) PROVE r = s
  <2>1. i = j
    BY <1>1, <1>2, <1>4, NamesApart DEF Declared
  <2>2. QED
    BY <1>3, <1>4, <2>1 DEF Declared
<1>5. ASSUME NEW x \in SqlRelations(cs, c), NEW y \in SqlRelations(cs, c), x.name = y.name,
             y.to # c, NEW i, NEW e, NEW j, Declared(cs, c, i, x), Mirrored(cs, c, e, j, y)
      PROVE  FALSE
  <2>1. e # c /\ e \in 1..Len(cs) /\ cs[e].mapped /\ j \in Links(cs, e) /\ To(cs, e, j) = c
        /\ Rev(cs, e, j) = Ann(cs, c, i).name /\ i \in Links(cs, c)
    BY <1>5 DEF Declared, Mirrored
  <2>2. Apart(cs, e, c)
    BY <1>1, <2>1
  <2>3. QED
    BY <2>1, <2>2 DEF Apart
<1>6. ASSUME NEW d, NEW i, NEW e, NEW j, Mirrored(cs, c, d, i, r), Mirrored(cs, c, e, j, s)
      PROVE  r = s
  <2>1. /\ d \in 1..Len(cs) /\ e \in 1..Len(cs) /\ cs[d].mapped /\ cs[e].mapped
        /\ i \in Links(cs, d) /\ j \in Links(cs, e) /\ To(cs, d, i) = c /\ To(cs, e, j) = c
        /\ Rev(cs, d, i) = Rev(cs, e, j)
    BY <1>6 DEF Mirrored
  <2>2. d = e
    <3>1. d # e => Apart(cs, d, e)
      BY <1>1, <2>1
    <3>2. QED
      BY <2>1, <3>1 DEF Apart
  <2>3. i = j
    <3>1. /\ i \in 1..Size(cs, d) /\ j \in 1..Size(cs, d) /\ Size(cs, d) \in Nat
          /\ Fine(cs, d, i) /\ Fine(cs, d, j)
      BY <1>1, <1>2, <2>1, <2>2, ClassIs DEF Whole
    <3>2. ~(i < j)
      BY <2>1, <2>2, <3>1 DEF Fine
    <3>3. ~(j < i)
      BY <2>1, <2>2, <3>1 DEF Fine
    <3>4. QED
      BY <3>1, <3>2, <3>3
  <2>4. QED
    BY <1>3, <1>6, <2>2, <2>3 DEF Mirrored
<1>7. (\E j : Declared(cs, c, j, r)) \/ (\E e, j : Mirrored(cs, c, e, j, r))
  BY <1>1, MadeAre
<1>8. (\E j : Declared(cs, c, j, s)) \/ (\E e, j : Mirrored(cs, c, e, j, s))
  BY <1>1, MadeAre
<1>9. QED
  BY <1>4, <1>5, <1>6, <1>7, <1>8

-----------------------------------------------------------------------------
(* The state.                                                              *)

(* A class is first used after it was made. *)
SeenBefore(cs) == \A c \in 1..Len(cs) : cs[c].seen = 0 \/ cs[c].seen \in c..Len(cs)

(* The invariant. *)
ClassesSound ==
    Sound(classes, metadata) /\ SeenBefore(classes) /\ AllRegistered(classes)

(* The invariant holds when there are no classes. *)
LEMMA ClassesInit == ClassInit => ClassesSound
<1> SUFFICES ASSUME ClassInit PROVE ClassesSound
  OBVIOUS
<1>1. classes = <<>> /\ metadata = {}
  BY DEF ClassInit
<1>2. classes \in Seq(Class) /\ Len(classes) = 0 /\ DOMAIN classes = {}
  BY <1>1
<1>3. Sound(classes, metadata)
  BY <1>1, <1>2 DEF Sound, Unique
<1>4. SeenBefore(classes)
  BY <1>2 DEF SeenBefore
<1>5. AllRegistered(classes)
  <2>1. MappedOf(classes) = {}
    BY <1>2 DEF MappedOf
  <2>2. QED
    BY <2>1 DEF AllRegistered
<1>6. QED
  BY <1>3, <1>4, <1>5 DEF ClassesSound

(* Relationships of a class that are there already. *)
LEMMA RelationsKept ==
    ASSUME NEW cs, NEW md, Sound(cs, md), NEW ds \in Seq(Class), Extends(ds, cs),
           \A d \in 1..Len(cs) : Same(ds, cs, d),
           NEW c \in 1..Len(cs), NEW r \in SqlRelations(ds, c), r.since <= Len(cs)
    PROVE  r \in SqlRelations(cs, c)
<1>1. /\ cs \in Seq(Class) /\ Len(cs) \in Nat /\ Len(ds) \in Nat /\ Len(cs) <= Len(ds)
      /\ \A d \in 1..Len(cs) : ds[d].stmt = cs[d].stmt /\ ds[d].mapped = cs[d].mapped
  BY DEF Sound, Extends
<1>2. CASE \E a \in RelationsOf(ds[c].stmt) : r = OwnOf(ds, c, a)
  <2>1. PICK a \in RelationsOf(ds[c].stmt) : r = OwnOf(ds, c, a)
    BY <1>2
  <2>2. a \in RelationsOf(cs[c].stmt) /\ ClassOf(ds, c, a.target) = ClassOf(cs, c, a.target)
    BY <1>1, <2>1 DEF Same
  <2>3. r = OwnOf(cs, c, a)
    BY <2>1, <2>2 DEF OwnOf
  <2>4. QED
    BY <2>2, <2>3, RelationsAre
<1>3. CASE \E e, a : Reverse(ds, c, e, a) /\ r = OtherOf(ds, e, a)
  <2>1. PICK e, a : Reverse(ds, c, e, a) /\ r = OtherOf(ds, e, a)
    BY <1>3
  <2>2. e \in 1..Len(ds) /\ ds[e].mapped /\ r.since = e
    BY <2>1, MappedIs DEF Reverse, OtherOf
  <2>3. e \in 1..Len(cs) /\ cs[e].mapped /\ ds[e].stmt = cs[e].stmt
    BY <1>1, <2>2
  <2>4. e \in MappedOf(cs)
    BY <1>1, <2>3, MappedIs
  <2>5. ClassOf(ds, e, a.target) = ClassOf(cs, e, a.target)
    BY <2>1, <2>3 DEF Reverse, Same
  <2>6. Reverse(cs, c, e, a)
    BY <2>1, <2>3, <2>4, <2>5 DEF Reverse
  <2>7. r = OtherOf(cs, e, a)
    BY <2>1, <2>3 DEF OtherOf
  <2>8. QED
    BY <2>6, <2>7, RelationsAre
<1>4. QED
  BY <1>2, <1>3, RelationsAre

(* A relationship is brought about by a class that is there. *)
LEMMA SinceIs ==
    ASSUME NEW cs \in Seq(Class), NEW c \in 1..Len(cs), NEW r \in SqlRelations(cs, c)
    PROVE  r.since \in 1..Len(cs) /\ r.native \in BOOLEAN
<1>1. CASE \E a \in RelationsOf(cs[c].stmt) : r = OwnOf(cs, c, a)
  BY <1>1, NativeIs DEF OwnOf
<1>2. CASE \E e, a : Reverse(cs, c, e, a) /\ r = OtherOf(cs, e, a)
  <2>1. PICK e, a : Reverse(cs, c, e, a) /\ r = OtherOf(cs, e, a)
    BY <1>2
  <2>2. e \in 1..Len(cs) /\ a \in RelationsOf(cs[e].stmt)
    BY <2>1, MappedIs DEF Reverse
  <2>3. a.native \in BOOLEAN
    BY <2>2, NativeIs
  <2>4. r.since = e /\ r.native = a.native
    BY <2>1 DEF OtherOf
  <2>5. QED
    BY <2>2, <2>3, <2>4
<1>3. QED
  BY <1>1, <1>2, RelationsAre

(* A class statement keeps the invariant, accepted or refused. *)
LEMMA DeclareSound ==
    ASSUME ClassesSound, NEW s \in Statements, Declare(s)
    PROVE  ClassesSound'
<1>1. PICK cs, md : cs = classes /\ md = metadata
  OBVIOUS
<1>2. PICK ds, ts : ds = Executed(cs, md, s).classes /\ ts = Executed(cs, md, s).metadata
  OBVIOUS
<1>3. /\ classes' = ds /\ metadata' = ts
      /\ s.name \in Bound(cs) => TableKey(s) \in md
      /\ \A a \in RelationsOf(s) : a.target \in Bound(cs) \cup {s.name}
  BY <1>1, <1>2 DEF Declare
<1>4. Sound(cs, md) /\ SeenBefore(cs) /\ AllRegistered(cs)
  BY <1>1 DEF ClassesSound
<1>5. PICK n : n = Len(cs) + 1
  OBVIOUS
<1>6. PICK ws : ws = With(cs, s)
  OBVIOUS
<1>7. /\ cs \in Seq(Class) /\ md \in SUBSET TableNames /\ Unique(cs) /\ Len(cs) \in Nat
      /\ n \in Nat /\ n \in 1..n /\ DOMAIN cs = 1..Len(cs)
  BY <1>4, <1>5 DEF Sound
<1>8. /\ ws \in Seq(Class) /\ Len(ws) = n /\ ws[n] = NewClass(s) /\ ws[n].stmt = s
      /\ ~ws[n].accepted /\ \A c \in 1..Len(cs) : ws[c] = cs[c]
  BY <1>5, <1>6, <1>7, WithIs, NewClassIs
<1>9. Unique(ws)
  <2>1. \A c \in 1..n : ws[c].accepted => c \in 1..Len(cs)
    BY <1>5, <1>7, <1>8
  <2>2. QED
    BY <1>7, <1>8, <2>1 DEF Unique
<1>10. Resolved(ws, n)
  <2> SUFFICES ASSUME NEW a \in RelationsOf(s) PROVE \E t : Means(ws, n, a.target, t)
    BY <1>8 DEF Resolved
  <2>1. CASE a.target = s.name
    <3>1. Means(ws, n, a.target, n)
      BY <1>7, <1>8, <2>1 DEF Means
    <3>2. QED
      BY <3>1
  <2>2. CASE a.target # s.name
    <3>1. a.target \in Bound(cs)
      BY <1>3, <2>2
    <3>2. PICK t \in 1..Len(cs) : cs[t].accepted /\ cs[t].stmt.name = a.target
      BY <1>7, <3>1 DEF Bound
    <3>3. Means(ws, n, a.target, t)
      BY <1>5, <1>7, <1>8, <2>2, <3>2 DEF Means
    <3>4. QED
      BY <3>3
  <2>3. QED
    BY <2>1, <2>2
<1>11. Outcome(ws, md, ds, ts)
  BY <1>2, <1>5, <1>6, <1>7, <1>9, <1>10, ExecutedIs
<1>12. /\ ds \in Seq(Class) /\ Len(ds) = n /\ ds[n].seen = 0
       /\ ds[n].accepted => Maps(ws, md)
       /\ \A c \in 1..n : c # n => Like(ds[c], ws[c])
  BY <1>8, <1>11 DEF Outcome
<1>13. ds[n].accepted => s.name \notin Bound(cs)
  BY <1>3, <1>8, <1>12 DEF Maps
<1>14. Sound(ds, ts) /\ Extends(ds, cs)
  BY <1>4, <1>5, <1>6, <1>10, <1>11, <1>13, SoundAfter
<1>15. \A d \in 1..Len(cs) : Same(ds, cs, d)
  <2>1. Unique(ds) /\ \A d \in 1..Len(cs) : Resolved(cs, d)
    BY <1>4, <1>14 DEF Sound
  <2>2. Agree(ds, cs)
    BY <1>14 DEF Agree, Extends
  <2>3. QED
    BY <1>7, <1>12, <2>1, <2>2, AgreeIs
<1>16. \A c \in 1..Len(cs) : ds[c].seen = cs[c].seen
  BY <1>5, <1>7, <1>8, <1>12 DEF Like
<1>17. SeenBefore(ds)
  <2> SUFFICES ASSUME NEW c \in 1..n PROVE ds[c].seen = 0 \/ ds[c].seen \in c..n
    BY <1>12 DEF SeenBefore
  <2>1. CASE c = n
    BY <1>12, <2>1
  <2>2. CASE c # n
    BY <1>4, <1>5, <1>7, <1>16, <2>2 DEF SeenBefore
  <2>3. QED
    BY <2>1, <2>2
<1>18. AllRegistered(ds)
  <2> SUFFICES ASSUME NEW c \in MappedOf(ds), NEW r \in SqlRelations(ds, c),
                      ~r.native \/ r.since <= ds[c].seen
               PROVE  r.name \in DOMAIN ds[c].rels
    BY DEF AllRegistered
  <2>1. c \in 1..n /\ ds[c].mapped /\ r.since \in 1..n
    BY <1>12, MappedIs, SinceIs
  <2>2. CASE ~r.native
    BY <1>14, <2>2, SoundRegistered
  <2>3. CASE r.since <= ds[c].seen
    <3>1. c # n
      BY <1>7, <1>12, <2>1, <2>3
    <3>2. c \in 1..Len(cs)
      BY <1>5, <1>7, <2>1, <3>1
    <3>3. r.since <= cs[c].seen /\ cs[c].seen <= Len(cs) /\ cs[c].seen \in Nat
      BY <1>4, <1>7, <1>16, <2>3, <3>2 DEF SeenBefore
    <3>4. r.since <= Len(cs)
      BY <1>7, <2>1, <3>3
    <3>5. r \in SqlRelations(cs, c)
      BY <1>4, <1>12, <1>14, <1>15, <3>2, <3>4, RelationsKept
    <3>6. c \in MappedOf(cs)
      BY <1>7, <1>14, <2>1, <3>2, MappedIs DEF Extends
    <3>7. r.name \in DOMAIN cs[c].rels
      BY <1>4, <3>3, <3>5, <3>6 DEF AllRegistered
    <3>8. QED
      BY <1>14, <3>2, <3>7 DEF Extends
  <2>4. QED
    BY <2>2, <2>3
<1>19. Sound(classes', metadata') /\ SeenBefore(classes') /\ AllRegistered(classes')
  BY <1>3, <1>14, <1>17, <1>18
<1>20. QED
  BY <1>19 DEF ClassesSound, Sound, SeenBefore, AllRegistered

(* Relationships of a class that stay when others follow. *)
LEMMA RelationsGrow ==
    ASSUME NEW cs, NEW md, Sound(cs, md), NEW ds \in Seq(Class), Extends(ds, cs),
           \A d \in 1..Len(cs) : Same(ds, cs, d),
           NEW c \in 1..Len(cs), NEW r \in SqlRelations(cs, c)
    PROVE  r \in SqlRelations(ds, c)
<1>1. /\ cs \in Seq(Class) /\ Len(cs) \in Nat /\ Len(ds) \in Nat /\ Len(cs) <= Len(ds)
      /\ \A d \in 1..Len(cs) : ds[d].stmt = cs[d].stmt /\ ds[d].mapped = cs[d].mapped
  BY DEF Sound, Extends
<1>2. CASE \E a \in RelationsOf(cs[c].stmt) : r = OwnOf(cs, c, a)
  <2>1. PICK a \in RelationsOf(cs[c].stmt) : r = OwnOf(cs, c, a)
    BY <1>2
  <2>2. a \in RelationsOf(ds[c].stmt) /\ ClassOf(ds, c, a.target) = ClassOf(cs, c, a.target)
    BY <1>1, <2>1 DEF Same
  <2>3. r = OwnOf(ds, c, a)
    BY <2>1, <2>2 DEF OwnOf
  <2>4. QED
    BY <2>2, <2>3, RelationsAre
<1>3. CASE \E e, a : Reverse(cs, c, e, a) /\ r = OtherOf(cs, e, a)
  <2>1. PICK e, a : Reverse(cs, c, e, a) /\ r = OtherOf(cs, e, a)
    BY <1>3
  <2>2. e \in 1..Len(cs) /\ cs[e].mapped
    BY <1>1, <2>1, MappedIs DEF Reverse
  <2>3. e \in 1..Len(ds) /\ ds[e].mapped /\ ds[e].stmt = cs[e].stmt
    BY <1>1, <2>2
  <2>4. e \in MappedOf(ds)
    BY <2>3, MappedIs
  <2>5. ClassOf(ds, e, a.target) = ClassOf(cs, e, a.target)
    BY <2>1, <2>2 DEF Reverse, Same
  <2>6. Reverse(ds, c, e, a)
    BY <2>1, <2>3, <2>4, <2>5 DEF Reverse
  <2>7. r = OtherOf(ds, e, a)
    BY <2>1, <2>3 DEF OtherOf
  <2>8. QED
    BY <2>6, <2>7, RelationsAre
<1>4. QED
  BY <1>2, <1>3, RelationsAre

(* A relationship can be entered. *)
LEMMA RelationTyped ==
    ASSUME NEW cs, NEW md, Sound(cs, md), NEW c \in 1..Len(cs), NEW r \in SqlRelations(cs, c)
    PROVE  r.name \in Names /\ [to |-> r.to, kind |-> r.kind] \in Info
<1>1. cs \in Seq(Class) /\ Unique(cs) /\ \A d \in 1..Len(cs) : Resolved(cs, d)
  BY DEF Sound
<1>2. \A d \in 1..Len(cs) : cs[d].stmt \in Statements
  BY <1>1, ClassIs
<1>3. CASE \E a \in RelationsOf(cs[c].stmt) : r = OwnOf(cs, c, a)
  <2>1. PICK a \in RelationsOf(cs[c].stmt) : r = OwnOf(cs, c, a)
    BY <1>3
  <2>2. r.name = a.name /\ r.to = ClassOf(cs, c, a.target) /\ r.kind = a.kind
    BY <2>1 DEF OwnOf
  <2>3. ClassOf(cs, c, a.target) \in Nat
    BY <1>1, ToIs DEF Means
  <2>4. a.name \in Names /\ a.kind \in Kinds
    BY <1>2, NamesAre, KindsAre DEF RelationsOf
  <2>5. QED
    BY <2>2, <2>3, <2>4 DEF Info
<1>4. CASE \E e, a : Reverse(cs, c, e, a) /\ r = OtherOf(cs, e, a)
  <2>1. PICK e, a : Reverse(cs, c, e, a) /\ r = OtherOf(cs, e, a)
    BY <1>4
  <2>2. e \in 1..Len(cs) /\ a \in RelationsOf(cs[e].stmt)
    BY <1>1, <2>1, MappedIs DEF Reverse
  <2>3. r.name = Back(cs[e].stmt, a) /\ r.to = e /\ r.kind = Mirror(a.kind)
    BY <2>1 DEF OtherOf
  <2>4. a \in Body(cs[e].stmt) /\ IsRelation(a) /\ cs[e].stmt \in Statements
    BY <1>2, <2>2 DEF RelationsOf
  <2>5. r.name \in Names /\ Mirror(a.kind) \in Kinds
    BY <2>3, <2>4, NamesAre, KindsAre
  <2>6. QED
    BY <2>2, <2>3, <2>5 DEF Info
<1>5. QED
  BY <1>3, <1>4, RelationsAre

(* An entry made of a relationship is one. *)
LEMMA RawOf ==
    ASSUME NEW cs \in Seq(Class), NEW c \in 1..Len(cs), NEW r \in SqlRelations(cs, c),
           cs[c].rels[r.name] = [to |-> r.to, kind |-> r.kind]
    PROVE  Raw(cs, c, r.name)
<1>1. CASE \E a \in RelationsOf(cs[c].stmt) : r = OwnOf(cs, c, a)
  <2>1. PICK a \in RelationsOf(cs[c].stmt) : r = OwnOf(cs, c, a)
    BY <1>1
  <2>2. r.name = a.name /\ r.to = ClassOf(cs, c, a.target) /\ r.kind = a.kind
    BY <2>1 DEF OwnOf
  <2>3. QED
    BY <2>1, <2>2 DEF Raw
<1>2. CASE \E e, a : Reverse(cs, c, e, a) /\ r = OtherOf(cs, e, a)
  <2>1. PICK e, a : Reverse(cs, c, e, a) /\ r = OtherOf(cs, e, a)
    BY <1>2
  <2>2. e \in 1..Len(cs) /\ a \in RelationsOf(cs[e].stmt) /\ ClassOf(cs, e, a.target) = c
    BY <2>1, MappedIs DEF Reverse
  <2>3. r.name = Back(cs[e].stmt, a) /\ r.to = e /\ r.kind = Mirror(a.kind)
    BY <2>1 DEF OtherOf
  <2>4. a.native => a.back # ""
    BY <2>1 DEF Reverse
  <2>5. QED
    BY <2>2, <2>3, <2>4 DEF Raw
<1>3. QED
  BY <1>1, <1>2, RelationsAre

(* The first use of a class keeps the invariant. *)
LEMMA RegisterSound ==
    ASSUME ClassesSound, NEW c \in DOMAIN classes, Register(c)
    PROVE  ClassesSound'
<1>1. PICK cs, md : cs = classes /\ md = metadata
  OBVIOUS
<1>2. Sound(cs, md) /\ SeenBefore(cs) /\ AllRegistered(cs)
  BY <1>1 DEF ClassesSound
<1>3. /\ cs \in Seq(Class) /\ md \in SUBSET TableNames /\ Unique(cs) /\ Len(cs) \in Nat
      /\ c \in 1..Len(cs) /\ cs[c] \in Class /\ cs[c].rels \in Registry
      /\ \A d \in 1..Len(cs) : Resolved(cs, d)
  BY <1>1, <1>2, ClassIs DEF Sound
<1> DEFINE new == {r \in SqlRelations(cs, c) : r.name \notin DOMAIN cs[c].rels}
           Entry(n) == LET r == CHOOSE s \in new : s.name = n IN [to |-> r.to, kind |-> r.kind]
           all == [n \in DOMAIN cs[c].rels \cup {r.name : r \in new} |->
                      IF n \in DOMAIN cs[c].rels THEN cs[c].rels[n] ELSE Entry(n)]
<1>4. /\ classes' = [classes EXCEPT ![c].rels = all, ![c].seen = Len(classes)]
      /\ metadata' = metadata /\ cs[c].accepted
  BY <1>1 DEF Register
<1>5. PICK rels : rels = all
  OBVIOUS
<1>6. PICK ds : ds = [cs EXCEPT ![c].rels = rels, ![c].seen = Len(cs)]
  OBVIOUS
<1>7. classes' = ds /\ metadata' = md
  BY <1>1, <1>4, <1>5, <1>6
<1>8. /\ DOMAIN rels = DOMAIN cs[c].rels \cup {r.name : r \in new}
      /\ \A m \in DOMAIN cs[c].rels : rels[m] = cs[c].rels[m]
  BY <1>5
<1>9. ASSUME NEW m \in DOMAIN rels, m \notin DOMAIN cs[c].rels
      PROVE  \E r \in SqlRelations(cs, c) : r.name = m /\ rels[m] = [to |-> r.to, kind |-> r.kind]
  <2>1. \E r \in new : r.name = m
    BY <1>8, <1>9
  <2>2. PICK r : r = CHOOSE s \in new : s.name = m
    OBVIOUS
  <2>3. r \in new /\ r.name = m
    BY <2>1, <2>2
  <2>4. rels[m] = [to |-> r.to, kind |-> r.kind]
    BY <1>5, <1>8, <1>9, <2>2
  <2>5. QED
    BY <2>3, <2>4
<1>10. \A r \in SqlRelations(cs, c) : r.name \in DOMAIN rels
  BY <1>8
<1> HIDE DEF new, Entry, all
<1>11. rels \in Registry
  <2>1. \A m \in DOMAIN rels : m \in Names /\ rels[m] \in Info
    <3>1. ASSUME NEW m \in DOMAIN rels, m \in DOMAIN cs[c].rels
          PROVE  m \in Names /\ rels[m] \in Info
      BY <1>3, <1>8, <3>1, RegistryIs
    <3>2. ASSUME NEW m \in DOMAIN rels, m \notin DOMAIN cs[c].rels
          PROVE  m \in Names /\ rels[m] \in Info
      <4>1. PICK r \in SqlRelations(cs, c) : r.name = m /\ rels[m] = [to |-> r.to, kind |-> r.kind]
        BY <1>9, <3>2
      <4>2. QED
        BY <1>2, <1>3, <4>1, RelationTyped
    <3>3. QED
      BY <3>1, <3>2
  <2>2. rels \in [DOMAIN rels -> Info]
    <3>1. rels = [m \in DOMAIN rels |-> rels[m]]
      BY <1>5 DEF all
    <3>2. QED
      BY <2>1, <3>1
  <2>3. QED
    BY <2>1, <2>2 DEF Registry
<1>12. PICK y : y = [cs[c] EXCEPT !.rels = rels, !.seen = Len(cs)]
  OBVIOUS
<1>13. /\ y \in Class /\ y.rels = rels /\ y.seen = Len(cs) /\ y.stmt = cs[c].stmt
       /\ y.accepted = cs[c].accepted /\ y.mapped = cs[c].mapped
  BY <1>3, <1>11, <1>12 DEF Class
<1>14. ds = [cs EXCEPT ![c] = y]
  BY <1>6, <1>12
<1>15. /\ ds \in Seq(Class) /\ Len(ds) = Len(cs) /\ ds[c] = y
       /\ \A d \in 1..Len(cs) : d # c => ds[d] = cs[d]
  BY <1>3, <1>13, <1>14
<1>16. \A d \in 1..Len(cs) : /\ ds[d].stmt = cs[d].stmt /\ ds[d].accepted = cs[d].accepted
                             /\ ds[d].mapped = cs[d].mapped
  BY <1>13, <1>15
<1>17. Extends(ds, cs)
  <2>1. \A d \in 1..Len(cs) : \A m \in DOMAIN cs[d].rels :
           m \in DOMAIN ds[d].rels /\ ds[d].rels[m] = cs[d].rels[m]
    BY <1>8, <1>13, <1>15
  <2>2. QED
    BY <1>3, <1>15, <1>16, <2>1 DEF Extends
<1>18. Unique(ds)
  BY <1>3, <1>15, <1>16 DEF Unique
<1>19. md \subseteq md
  OBVIOUS
<1>20. /\ \A d \in 1..Len(cs) :
             /\ Same(ds, cs, d) /\ (ds[d].mapped => Whole(ds, md, d))
             /\ \A m \in DOMAIN cs[d].rels : Raw(ds, d, m)
       /\ \A d, e \in 1..Len(cs) : ds[d].mapped /\ ds[e].mapped /\ d # e => Apart(ds, d, e)
  BY <1>2, <1>15, <1>17, <1>18, <1>19, Kept
<1>21. ASSUME NEW d \in 1..Len(cs), NEW m \in DOMAIN ds[d].rels PROVE Raw(ds, d, m)
  <2>1. CASE m \in DOMAIN cs[d].rels
    BY <1>20, <2>1
  <2>2. CASE m \notin DOMAIN cs[d].rels
    <3>1. d = c /\ m \in DOMAIN rels
      BY <1>13, <1>15, <2>2
    <3>2. PICK r \in SqlRelations(cs, c) : r.name = m /\ rels[m] = [to |-> r.to, kind |-> r.kind]
      BY <1>9, <2>2, <3>1
    <3>3. r \in SqlRelations(ds, c)
      BY <1>2, <1>3, <1>15, <1>17, <1>20, RelationsGrow
    <3>4. c \in 1..Len(ds) /\ ds[c].rels[r.name] = [to |-> r.to, kind |-> r.kind]
      BY <1>3, <1>13, <1>15, <3>2
    <3>5. QED
      BY <1>15, <3>1, <3>2, <3>3, <3>4, RawOf
  <2>3. QED
    BY <2>1, <2>2
<1>22. \A d \in 1..Len(cs) :
          /\ Resolved(ds, d)
          /\ ds[d].accepted => ds[d].mapped /\ OnePassword(ds[d].stmt)
  <2>1. \A d \in 1..Len(cs) : cs[d].accepted => cs[d].mapped /\ OnePassword(cs[d].stmt)
    BY <1>2 DEF Sound
  <2>2. QED
    BY <1>16, <1>20, <2>1 DEF Same
<1>23. Sound(ds, md)
  BY <1>3, <1>15, <1>18, <1>20, <1>21, <1>22 DEF Sound
<1>24. SeenBefore(ds)
  BY <1>2, <1>3, <1>13, <1>15 DEF SeenBefore
<1>25. AllRegistered(ds)
  <2> SUFFICES ASSUME NEW d \in MappedOf(ds), NEW r \in SqlRelations(ds, d),
                      ~r.native \/ r.since <= ds[d].seen
               PROVE  r.name \in DOMAIN ds[d].rels
    BY DEF AllRegistered
  <2>1. d \in 1..Len(cs) /\ ds[d].mapped /\ r.since \in 1..Len(cs)
    BY <1>15, MappedIs, SinceIs
  <2>2. r.since <= Len(cs)
    BY <2>1
  <2>3. r \in SqlRelations(cs, d)
    BY <1>2, <1>15, <1>17, <1>20, <2>1, <2>2, RelationsKept
  <2>4. CASE d = c
    BY <1>10, <1>13, <1>15, <2>3, <2>4
  <2>5. CASE d # c
    <3>1. ds[d] = cs[d] /\ d \in MappedOf(cs)
      BY <1>3, <1>15, <2>1, <2>5, MappedIs
    <3>2. QED
      BY <1>2, <2>3, <3>1 DEF AllRegistered
  <2>6. QED
    BY <2>4, <2>5
<1>26. Sound(classes', metadata') /\ SeenBefore(classes') /\ AllRegistered(classes')
  BY <1>7, <1>23, <1>24, <1>25
<1>27. QED
  BY <1>26 DEF ClassesSound, Sound, SeenBefore, AllRegistered

(* Every step keeps it. *)
LEMMA ClassesNext == ClassesSound /\ [ClassNext]_classVars => ClassesSound'
<1> SUFFICES ASSUME ClassesSound, [ClassNext]_classVars PROVE ClassesSound'
  OBVIOUS
<1>1. CASE \E s \in Statements : Declare(s)
  BY <1>1, DeclareSound
<1>2. CASE \E c \in DOMAIN classes : Register(c)
  BY <1>2, RegisterSound
<1>3. CASE UNCHANGED classVars
  BY <1>3 DEF classVars, ClassesSound, Sound, SeenBefore, AllRegistered
<1>4. QED
  BY <1>1, <1>2, <1>3 DEF ClassNext

(* In every state, every name that is bound has one class; every class     *)
(* whose statement got as far as the mapper has all its entries, both      *)
(* ends, and none that another mapped class could want; and what a refused *)
(* statement left behind is an entry that its text accounts for.           *)
THEOREM ClassesAlways == ClassSpec => []ClassesSound
<1>1. ClassInit => ClassesSound
  BY ClassesInit
<1>2. ClassesSound /\ [ClassNext]_classVars => ClassesSound'
  BY ClassesNext
<1>3. QED
  BY <1>1, <1>2, PTL DEF ClassSpec

(* ClassTypeOK, from the invariant. *)
LEMMA SoundTypes == ClassesSound => ClassTypeOK
<1> SUFFICES ASSUME ClassesSound PROVE ClassTypeOK
  OBVIOUS
<1>1. /\ classes \in Seq(Class) /\ metadata \in SUBSET TableNames /\ Len(classes) \in Nat
      /\ DOMAIN classes = 1..Len(classes) /\ Unique(classes)
      /\ \A c \in 1..Len(classes) :
            /\ Resolved(classes, c) /\ (classes[c].accepted => classes[c].mapped)
            /\ (classes[c].mapped => Whole(classes, metadata, c))
            /\ \A m \in DOMAIN classes[c].rels : Raw(classes, c, m)
  BY DEF ClassesSound, Sound
<1>2. ASSUME NEW c \in DOMAIN classes
      PROVE  /\ classes[c].stmt \in Statements /\ classes[c].seen \in c..Len(classes) \cup {0}
             /\ classes[c].accepted => classes[c].mapped
             /\ \A n \in DOMAIN classes[c].rels :
                   classes[c].rels[n] \in [to : DOMAIN classes, kind : Relations \cup {"one_to_many"}]
  <2>1. c \in 1..Len(classes) /\ classes[c].stmt \in Statements /\ classes[c].rels \in Registry
    BY <1>1, ClassIs
  <2>2. classes[c].seen \in c..Len(classes) \cup {0}
    BY <2>1 DEF ClassesSound, SeenBefore
  <2>3. ASSUME NEW n \in DOMAIN classes[c].rels
        PROVE  classes[c].rels[n] \in [to : DOMAIN classes, kind : Relations \cup {"one_to_many"}]
    <3>1. PICK info : info = classes[c].rels[n]
      OBVIOUS
    <3>2. info \in Info
      BY <2>1, <3>1, RegistryIs
    <3>3. \A a \in RelationsOf(classes[c].stmt) : ClassOf(classes, c, a.target) \in 1..Len(classes)
      <4>1. \A a \in RelationsOf(classes[c].stmt) : ClassOf(classes, c, a.target) \in 1..c
        BY <1>1, <2>1, ToIs DEF Means
      <4>2. QED
        BY <1>1, <2>1, <4>1
    <3>4. \E t \in 1..Len(classes) : \E k : info = [to |-> t, kind |-> k]
      <4>1. Raw(classes, c, n)
        BY <1>1, <2>1
      <4>2. \/ \E a \in RelationsOf(classes[c].stmt) :
                  info = [to |-> ClassOf(classes, c, a.target), kind |-> a.kind]
            \/ \E e \in 1..Len(classes) : \E a \in RelationsOf(classes[e].stmt) :
                  info = [to |-> e, kind |-> Mirror(a.kind)]
        BY <3>1, <4>1 DEF Raw
      <4>3. QED
        BY <3>3, <4>2
    <3>5. QED
      BY <1>1, <3>1, <3>2, <3>4 DEF Info, Kinds
  <2>4. QED
    BY <1>1, <2>1, <2>2, <2>3
<1>3. {TableKey(classes[c].stmt) : c \in MappedOf(classes)} \subseteq metadata
  <2>1. \A c \in MappedOf(classes) : TableKey(classes[c].stmt) \in metadata
    BY <1>1, MappedIs DEF Whole
  <2>2. QED
    BY <2>1
<1>4. QED
  BY <1>2, <1>3 DEF ClassTypeOK

(* ClassTypeOK always holds. *)
THEOREM ClassTypes == ClassSpec => []ClassTypeOK
  BY ClassesAlways, SoundTypes, PTL

-----------------------------------------------------------------------------
(* Another order: class i is class p[i] of cs, which is accepted.          *)

Order(cs, p, k) ==
    /\ k \in Nat
    /\ \A i \in 1..k : p[i] \in 1..Len(cs) /\ cs[p[i]].accepted
    /\ \A i, j \in 1..k : p[i] = p[j] => i = j
    /\ \A i \in 1..k : \A a \in RelationsOf(cs[p[i]].stmt) :
          \E j \in 1..i : cs[p[j]].stmt.name = a.target

(* ds has the statements of cs in that order. *)
Follows(ds, cs, p) == \A e \in 1..Len(ds) : ds[e].stmt = cs[p[e]].stmt

(* What is said of class i is said of class p[i]. *)
Pair(ds, cs, p, i) ==
    /\ ds[i].stmt = cs[p[i]].stmt
    /\ Links(ds, i) = Links(cs, p[i]) /\ Size(ds, i) = Size(cs, p[i])
    /\ \A j : Ann(ds, i, j) = Ann(cs, p[i], j) /\ Rev(ds, i, j) = Rev(cs, p[i], j)
    /\ \A j \in Links(cs, p[i]) :
          /\ To(ds, i, j) \in 1..i /\ p[To(ds, i, j)] = To(cs, p[i], j)
          /\ JoinsOf(ds, i, j) = JoinsOf(cs, p[i], j)
          /\ ds[To(ds, i, j)].stmt = cs[To(cs, p[i], j)].stmt

(* A statement means the same in its other place. *)
LEMMA PairIs ==
    ASSUME NEW cs \in Seq(Class), NEW ds \in Seq(Class), Unique(cs), Unique(ds),
           NEW p, NEW k, Order(cs, p, k), Len(ds) <= k, Follows(ds, cs, p),
           NEW i \in 1..Len(ds), Resolved(ds, i), Resolved(cs, p[i])
    PROVE  Pair(ds, cs, p, i)
<1>1. /\ k \in Nat /\ Len(ds) \in Nat /\ \A e \in 1..i : e \in 1..Len(ds) /\ e \in 1..k
      /\ i \in 1..i
  BY DEF Order
<1>2. /\ \A e \in 1..i : p[e] \in 1..Len(cs) /\ cs[p[e]].accepted /\ ds[e].stmt = cs[p[e]].stmt
  BY <1>1 DEF Order, Follows
<1>3. \A j : Ann(ds, i, j) = Ann(cs, p[i], j) /\ Rev(ds, i, j) = Rev(cs, p[i], j)
  BY <1>1, <1>2 DEF Ann, Rev
<1>4. Size(ds, i) = Size(cs, p[i])
  BY <1>1, <1>2 DEF Size
<1>5. Links(ds, i) = Links(cs, p[i])
  BY <1>3, <1>4 DEF Links
<1>6. ASSUME NEW j \in Links(cs, p[i])
      PROVE  /\ To(ds, i, j) \in 1..i /\ p[To(ds, i, j)] = To(cs, p[i], j)
             /\ JoinsOf(ds, i, j) = JoinsOf(cs, p[i], j)
             /\ ds[To(ds, i, j)].stmt = cs[To(cs, p[i], j)].stmt
  <2>1. PICK t, u, name : t = To(ds, i, j) /\ u = To(cs, p[i], j) /\ name = Ann(cs, p[i], j).target
    OBVIOUS
  <2>2. t \in 1..i /\ Means(ds, i, name, t)
    BY <1>3, <1>5, <2>1, ToIs
  <2>3. u \in 1..p[i] /\ Means(cs, p[i], name, u)
    BY <1>1, <1>2, <2>1, ToIs
  <2>4. p[t] = u
    <3>1. CASE name = ds[i].stmt.name
      BY <1>1, <1>2, <2>2, <2>3, <3>1 DEF Means
    <3>2. CASE name # ds[i].stmt.name
      <4>1. ds[t].stmt.name = name /\ cs[u].stmt.name = name /\ cs[u].accepted
        BY <1>1, <1>2, <2>2, <2>3, <3>2 DEF Means
      <4>2. cs[p[t]].stmt.name = name /\ cs[p[t]].accepted /\ p[t] \in 1..Len(cs)
        BY <1>2, <2>2, <4>1
      <4>3. u \in 1..Len(cs)
        BY <1>1, <1>2, <2>3
      <4>4. QED
        BY <4>1, <4>2, <4>3 DEF Unique
    <3>3. QED
      BY <3>1, <3>2
  <2>5. ds[t].stmt = cs[u].stmt
    BY <1>2, <2>2, <2>4
  <2>6. JoinTable(Ann(ds, i, j), ds[i].stmt, ds[t].stmt) =
           JoinTable(Ann(cs, p[i], j), cs[p[i]].stmt, cs[u].stmt)
    BY <1>1, <1>2, <1>3, <2>5
  <2>7. JoinsOf(ds, i, j) = JoinsOf(cs, p[i], j)
    BY <1>3, <2>1, <2>6 DEF JoinsOf
  <2>8. QED
    BY <2>1, <2>2, <2>4, <2>5, <2>7
<1>7. QED
  BY <1>1, <1>2, <1>3, <1>4, <1>5, <1>6 DEF Pair

(* Its annotations go together as well. *)
LEMMA PairFine ==
    ASSUME NEW cs \in Seq(Class), NEW ds \in Seq(Class), NEW p, NEW k, Order(cs, p, k),
           NEW i \in 1..k, Pair(ds, cs, p, i), NEW j, Fine(cs, p[i], j)
    PROVE  Fine(ds, i, j)
<1>1. /\ \A l \in Links(cs, p[i]) :
            /\ To(ds, i, l) \in 1..i /\ p[To(ds, i, l)] = To(cs, p[i], l)
            /\ JoinsOf(ds, i, l) = JoinsOf(cs, p[i], l)
            /\ ds[To(ds, i, l)].stmt = cs[To(cs, p[i], l)].stmt
      /\ \A l : Ann(ds, i, l) = Ann(cs, p[i], l) /\ Rev(ds, i, l) = Rev(cs, p[i], l)
      /\ Links(ds, i) = Links(cs, p[i])
  BY DEF Pair
<1>2. \A s, t \in 1..i : p[s] = p[t] => s = t
  BY DEF Order
<1>3. i \in 1..i
  BY DEF Order
<1>4. KeyBefore(ds, i, j) <=> KeyBefore(cs, p[i], j)
  BY <1>1 DEF KeyBefore
<1>5. CASE j \notin Links(cs, p[i])
  BY <1>1, <1>5 DEF Fine
<1>6. CASE j \in Links(cs, p[i])
  <2>1. To(ds, i, j) = i <=> To(cs, p[i], j) = p[i]
    BY <1>1, <1>2, <1>3, <1>6
  <2>2. \A l \in Links(cs, p[i]) : To(ds, i, l) = To(ds, i, j) => To(cs, p[i], l) = To(cs, p[i], j)
    BY <1>1, <1>6
  <2>3. /\ ~Ann(cs, p[i], j).native => Ann(cs, p[i], j).kind # "unknown"
        /\ IF To(cs, p[i], j) = p[i] THEN KeyBefore(cs, p[i], j) ELSE KeyOf(cs[To(cs, p[i], j)].stmt)
        /\ Ann(cs, p[i], j).kind = "many_to_many" =>
              To(cs, p[i], j) # p[i] /\ KeyBefore(cs, p[i], j)
        /\ \A l \in Links(cs, p[i]) : l < j =>
              /\ To(cs, p[i], l) = To(cs, p[i], j) => Rev(cs, p[i], l) # Rev(cs, p[i], j)
              /\ To(cs, p[i], j) = p[i] => Ann(cs, p[i], l).name # Rev(cs, p[i], j)
              /\ JoinsOf(cs, p[i], l) \cap JoinsOf(cs, p[i], j) = {}
    BY <1>6 DEF Fine
  <2>4. IF To(ds, i, j) = i THEN KeyBefore(ds, i, j) ELSE KeyOf(ds[To(ds, i, j)].stmt)
    BY <1>1, <1>4, <1>6, <2>1, <2>3
  <2>5. QED
    BY <1>1, <1>4, <1>6, <2>1, <2>2, <2>3, <2>4 DEF Fine
<1>7. QED
  BY <1>5, <1>6

-----------------------------------------------------------------------------
(* Executed again in that order, every statement is accepted.              *)

(* Nothing is left but by the classes there are. *)
Exact(ds, ts) ==
    /\ \A c \in 1..Len(ds) : \A m \in DOMAIN ds[c].rels :
          \/ \E k \in Links(ds, c) : m = Ann(ds, c, k).name
          \/ \E e \in 1..Len(ds) : \E k \in Links(ds, e) : To(ds, e, k) = c /\ m = Rev(ds, e, k)
    /\ \A x \in ts : \E c \in 1..Len(ds) :
          \/ x = TableKey(ds[c].stmt)
          \/ \E k \in Links(ds, c) : x \in JoinsOf(ds, c, k)

(* ds and ts are what the first statements of the order have made. *)
Again(ds, ts, cs, p) ==
    /\ Sound(ds, ts) /\ Exact(ds, ts) /\ Follows(ds, cs, p)
    /\ \A e \in 1..Len(ds) : ds[e].accepted

(* The next statement finds its targets, and its name free. *)
LEMMA NextResolved ==
    ASSUME NEW cs, NEW md, Sound(cs, md), NEW p, NEW k, Order(cs, p, k),
           NEW ds, NEW ts, Again(ds, ts, cs, p), Len(ds) + 1 <= k,
           NEW s, s = cs[p[Len(ds) + 1]].stmt
    PROVE  LET ws == With(ds, s)
               n  == Len(ds) + 1
           IN /\ s \in Statements /\ n \in 1..k /\ p[n] \in 1..Len(cs)
              /\ ws \in Seq(Class) /\ Len(ws) = n /\ Unique(ws) /\ Resolved(ws, n)
              /\ Follows(ws, cs, p) /\ s.name \notin Bound(ds)
<1> DEFINE ws == With(ds, s)
           n  == Len(ds) + 1
<1>1. /\ cs \in Seq(Class) /\ Unique(cs) /\ ds \in Seq(Class) /\ Unique(ds)
      /\ Len(ds) \in Nat /\ k \in Nat /\ n \in 1..k /\ n \in 1..n
      /\ \A e \in 1..Len(ds) : ds[e].accepted /\ ds[e].stmt = cs[p[e]].stmt /\ e \in 1..n /\ e # n
      /\ \A e \in 1..n : e \in 1..k /\ (e # n => e \in 1..Len(ds))
  BY DEF Sound, Again, Order, Follows
<1>2. /\ \A e \in 1..n : p[e] \in 1..Len(cs) /\ cs[p[e]].accepted
      /\ \A i, j \in 1..n : p[i] = p[j] => i = j
      /\ \A a \in RelationsOf(s) : \E j \in 1..n : cs[p[j]].stmt.name = a.target
  BY <1>1 DEF Order
<1>3. s \in Statements
  BY <1>1, <1>2, ClassIs
<1>4. /\ ws \in Seq(Class) /\ Len(ws) = n /\ ws[n] = NewClass(s)
      /\ ws[n].stmt = s /\ ~ws[n].accepted
      /\ \A c \in 1..Len(ds) : ws[c] = ds[c]
  BY <1>1, <1>3, WithIs, NewClassIs
<1> HIDE DEF ws, n
<1>5. Unique(ws)
  BY <1>1, <1>4 DEF Unique
<1>6. Resolved(ws, n)
  <2> SUFFICES ASSUME NEW a \in RelationsOf(s) PROVE \E t : Means(ws, n, a.target, t)
    BY <1>4 DEF Resolved
  <2>1. PICK j \in 1..n : cs[p[j]].stmt.name = a.target
    BY <1>2
  <2>2. CASE a.target = s.name
    BY <1>1, <1>4, <2>2 DEF Means
  <2>3. CASE a.target # s.name
    <3>1. j # n
      BY <2>1, <2>3 DEF n
    <3>2. ws[j].accepted /\ ws[j].stmt.name = a.target
      BY <1>1, <1>4, <2>1, <3>1
    <3>3. QED
      BY <1>4, <2>3, <3>2 DEF Means
  <2>4. QED
    BY <2>2, <2>3
<1>7. Follows(ws, cs, p)
  <2>1. ws[n].stmt = cs[p[n]].stmt
    BY <1>4 DEF n
  <2>2. QED
    BY <1>1, <1>4, <2>1 DEF Follows
<1>8. s.name \notin Bound(ds)
  <2> SUFFICES ASSUME s.name \in Bound(ds) PROVE FALSE
    OBVIOUS
  <2>1. DOMAIN ds = 1..Len(ds)
    BY <1>1
  <2>2. PICK d \in 1..Len(ds) : ds[d].stmt.name = s.name
    BY <2>1 DEF Bound
  <2>3. cs[p[d]].stmt.name = cs[p[n]].stmt.name
    BY <1>1, <2>2 DEF n
  <2>4. p[d] = p[n]
    <3>1. /\ p[d] \in 1..Len(cs) /\ cs[p[d]].accepted
          /\ p[n] \in 1..Len(cs) /\ cs[p[n]].accepted
      BY <1>1, <1>2
    <3>2. QED
      BY <1>1, <2>3, <3>1 DEF Unique
  <2>5. QED
    BY <1>1, <1>2, <2>4
<1>9. p[n] \in 1..Len(cs)
  BY <1>1, <1>2
<1>10. QED
  BY <1>1, <1>3, <1>4, <1>5, <1>6, <1>7, <1>8, <1>9 DEF ws, n

(* Nothing is in its way. *)
LEMMA NextMaps ==
    ASSUME NEW cs, NEW md, Sound(cs, md), NEW p, NEW k, Order(cs, p, k),
           NEW ds, NEW ts, Again(ds, ts, cs, p), Len(ds) + 1 <= k,
           NEW s, s = cs[p[Len(ds) + 1]].stmt
    PROVE  Maps(With(ds, s), ts) /\ OnePassword(s)
<1> DEFINE ws == With(ds, s)
           n  == Len(ds) + 1
<1>1. /\ s \in Statements /\ n \in 1..k /\ p[n] \in 1..Len(cs)
      /\ ws \in Seq(Class) /\ Len(ws) = n /\ Unique(ws) /\ Resolved(ws, n)
      /\ Follows(ws, cs, p)
  BY NextResolved
<1>2. /\ cs \in Seq(Class) /\ Unique(cs) /\ ds \in Seq(Class) /\ Unique(ds)
      /\ Len(ds) \in Nat /\ Len(ds) <= k /\ n \in 1..n /\ n <= k
      /\ Follows(ds, cs, p)
      /\ \A e \in 1..Len(ds) : e \in 1..k /\ e # n /\ Resolved(ds, e)
      /\ \A e \in 1..n : e # n => e \in 1..Len(ds)
      /\ \A e \in 1..Len(cs) : Resolved(cs, e)
  BY <1>1 DEF Sound, Again, Order
<1>3. /\ \A e \in 1..k : p[e] \in 1..Len(cs) /\ cs[p[e]].accepted
      /\ \A i, j \in 1..k : p[i] = p[j] => i = j
  BY DEF Order
<1>4. /\ ws[n].stmt = s /\ \A c \in 1..Len(ds) : ws[c] = ds[c]
  BY <1>1, <1>2, WithIs, NewClassIs
<1> DEFINE q == p[n]
<1>5. q \in 1..Len(cs) /\ cs[q].accepted /\ cs[q].mapped /\ OnePassword(s) /\ cs[q].stmt = s
  BY <1>1, <1>3 DEF Sound
<1>6. Whole(cs, md, q)
  BY <1>5 DEF Sound
<1>7. Pair(ws, cs, p, n)
  <2>1. n \in 1..Len(ws) /\ Resolved(cs, p[n]) /\ Len(ws) <= k
    BY <1>1, <1>2
  <2> HIDE DEF ws, n
  <2>2. QED
    BY <1>1, <1>2, <2>1, PairIs
<1>8. \A c \in 1..Len(ds) : Pair(ds, cs, p, c)
  <2>1. \A c \in 1..Len(ds) : Resolved(ds, c) /\ Resolved(cs, p[c])
    BY <1>2, <1>3
  <2>2. QED
    BY <1>2, <2>1, PairIs
<1>9. \A c \in 1..Len(ds) : Apart(cs, q, p[c]) /\ Apart(cs, p[c], q)
  <2>1. \A c \in 1..Len(ds) : p[c] # q /\ p[c] \in 1..Len(cs) /\ cs[p[c]].mapped
    BY <1>1, <1>2, <1>3 DEF Sound
  <2>2. QED
    BY <1>5, <2>1 DEF Sound
<1> HIDE DEF ws, n, q
<1>10. /\ Links(ws, n) = Links(cs, q) /\ Size(ws, n) = Size(cs, q)
       /\ \A j : Ann(ws, n, j) = Ann(cs, q, j) /\ Rev(ws, n, j) = Rev(cs, q, j)
       /\ \A j \in Links(cs, q) :
             /\ To(ws, n, j) \in 1..n /\ p[To(ws, n, j)] = To(cs, q, j)
             /\ JoinsOf(ws, n, j) = JoinsOf(cs, q, j)
  BY <1>7 DEF Pair, q
<1>11. \A c \in 1..Len(ds) :
          /\ ds[c].stmt = cs[p[c]].stmt /\ Links(ds, c) = Links(cs, p[c])
          /\ \A j : Ann(ds, c, j) = Ann(cs, p[c], j) /\ Rev(ds, c, j) = Rev(cs, p[c], j)
          /\ \A j \in Links(cs, p[c]) :
                p[To(ds, c, j)] = To(cs, p[c], j) /\ JoinsOf(ds, c, j) = JoinsOf(cs, p[c], j)
  BY <1>8 DEF Pair
<1>12. /\ ~Claimed(s) /\ KeysIn(s) # <<>>
       /\ \A j \in Links(ws, n) : TableKey(s) \notin JoinsOf(ws, n, j)
  BY <1>5, <1>6, <1>10 DEF Whole
<1>13. \A j \in 1..Size(ws, n) : Fine(ws, n, j)
  <2>1. \A j \in 1..Size(ws, n) : Fine(cs, p[n], j)
    BY <1>6, <1>10 DEF Whole, q
  <2>2. QED
    BY <1>1, <1>2, <1>7, <2>1, PairFine
<1>14. ASSUME NEW j \in Links(ws, n)
       PROVE  /\ To(ws, n, j) # n => Rev(ws, n, j) \notin DOMAIN ws[To(ws, n, j)].rels
              /\ JoinsOf(ws, n, j) \cap ts = {}
  <2>1. j \in Links(cs, q) /\ JoinsOf(ws, n, j) = JoinsOf(cs, q, j) /\ Rev(ws, n, j) = Rev(cs, q, j)
    BY <1>10
  <2>2. ASSUME To(ws, n, j) # n, Rev(ws, n, j) \in DOMAIN ws[To(ws, n, j)].rels PROVE FALSE
    <3>1. PICK t, m : t = To(ws, n, j) /\ m = Rev(ws, n, j)
      OBVIOUS
    <3>2. t \in 1..Len(ds) /\ ws[t] = ds[t] /\ m \in DOMAIN ds[t].rels /\ p[t] = To(cs, q, j)
      BY <1>2, <1>4, <1>10, <2>1, <2>2, <3>1
    <3>3. CASE \E l \in Links(ds, t) : m = Ann(ds, t, l).name
      <4>1. PICK l \in Links(ds, t) : m = Ann(ds, t, l).name
        BY <3>3
      <4>2. l \in Links(cs, p[t]) /\ m = Ann(cs, p[t], l).name /\ m = Rev(cs, q, j)
        BY <1>11, <2>1, <3>1, <3>2, <4>1
      <4>3. Apart(cs, q, p[t])
        BY <1>9, <3>2
      <4>4. QED
        BY <2>1, <3>2, <4>2, <4>3 DEF Apart
    <3>4. CASE \E e \in 1..Len(ds) : \E l \in Links(ds, e) : To(ds, e, l) = t /\ m = Rev(ds, e, l)
      <4>1. PICK e \in 1..Len(ds) : \E l \in Links(ds, e) : To(ds, e, l) = t /\ m = Rev(ds, e, l)
        BY <3>4
      <4>2. PICK l \in Links(ds, e) : To(ds, e, l) = t /\ m = Rev(ds, e, l)
        BY <4>1
      <4>3. /\ l \in Links(cs, p[e]) /\ To(cs, p[e], l) = p[t] /\ m = Rev(cs, p[e], l)
            /\ m = Rev(cs, q, j)
        BY <1>11, <2>1, <3>1, <4>2
      <4>4. Apart(cs, q, p[e])
        BY <1>9
      <4>5. QED
        BY <2>1, <3>2, <4>3, <4>4 DEF Apart
    <3>5. Exact(ds, ts)
      BY DEF Again
    <3>6. QED
      BY <3>2, <3>3, <3>4, <3>5 DEF Exact
  <2>3. ASSUME NEW x \in ts, x \in JoinsOf(ws, n, j) PROVE FALSE
    <3>1. PICK c \in 1..Len(ds) : \/ x = TableKey(ds[c].stmt)
                                  \/ \E l \in Links(ds, c) : x \in JoinsOf(ds, c, l)
      BY DEF Again, Exact
    <3>2. Apart(cs, q, p[c])
      BY <1>9
    <3>3. CASE x = TableKey(ds[c].stmt)
      BY <1>11, <2>1, <2>3, <3>2, <3>3 DEF Apart
    <3>4. CASE \E l \in Links(ds, c) : x \in JoinsOf(ds, c, l)
      BY <1>11, <2>1, <2>3, <3>2, <3>4 DEF Apart
    <3>5. QED
      BY <3>1, <3>3, <3>4
  <2>4. QED
    BY <2>2, <2>3
<1>15. TableKey(s) \notin ts
  <2> SUFFICES ASSUME TableKey(s) \in ts PROVE FALSE
    OBVIOUS
  <2>1. PICK c \in 1..Len(ds) : \/ TableKey(s) = TableKey(ds[c].stmt)
                                \/ \E l \in Links(ds, c) : TableKey(s) \in JoinsOf(ds, c, l)
    BY DEF Again, Exact
  <2>2. Apart(cs, q, p[c]) /\ Apart(cs, p[c], q)
    BY <1>9
  <2>3. CASE TableKey(s) = TableKey(ds[c].stmt)
    BY <1>5, <1>11, <2>2, <2>3 DEF Apart
  <2>4. CASE \E l \in Links(ds, c) : TableKey(s) \in JoinsOf(ds, c, l)
    BY <1>5, <1>11, <2>2, <2>4 DEF Apart
  <2>5. QED
    BY <2>1, <2>3, <2>4
<1>16. \A j \in 1..Size(ws, n) : Good(ws, ts, j)
  <2>1. \A j \in 1..Size(ws, n) : Free(ws, ts, j)
    BY <1>1, <1>14 DEF Free
  <2>2. QED
    BY <1>1, <1>13, <2>1 DEF Good
<1>17. Maps(ws, ts)
  BY <1>1, <1>4, <1>12, <1>15, <1>16 DEF Maps
<1>18. QED
  BY <1>5, <1>17 DEF ws

(* It is accepted, and leaves nothing but what it declares. *)
LEMMA AgainNext ==
    ASSUME NEW cs, NEW md, Sound(cs, md), NEW p, NEW k, Order(cs, p, k),
           NEW ds, NEW ts, Again(ds, ts, cs, p), Len(ds) + 1 <= k,
           NEW s, s = cs[p[Len(ds) + 1]].stmt,
           NEW es, NEW us, es = Executed(ds, ts, s).classes, us = Executed(ds, ts, s).metadata
    PROVE  Again(es, us, cs, p) /\ Len(es) = Len(ds) + 1
<1> DEFINE ws == With(ds, s)
           n  == Len(ds) + 1
<1>1. /\ s \in Statements /\ n \in 1..k /\ p[n] \in 1..Len(cs)
      /\ ws \in Seq(Class) /\ Len(ws) = n /\ Unique(ws) /\ Resolved(ws, n)
      /\ Follows(ws, cs, p) /\ s.name \notin Bound(ds)
  BY NextResolved
<1>2. Maps(ws, ts) /\ OnePassword(s)
  BY NextMaps
<1>3. /\ Sound(ds, ts) /\ Exact(ds, ts) /\ Follows(ds, cs, p)
      /\ \A e \in 1..Len(ds) : ds[e].accepted
      /\ ds \in Seq(Class) /\ ts \in SUBSET TableNames /\ Len(ds) \in Nat /\ n \in 1..n
      /\ \A e \in 1..n : e # n => e \in 1..Len(ds)
      /\ \A e \in 1..Len(ds) : e # n /\ e \in 1..n
  BY DEF Again, Sound
<1>4. ws[n].stmt = s /\ \A c \in 1..Len(ds) : ws[c] = ds[c]
  BY <1>1, <1>3, WithIs, NewClassIs
<1>5. Outcome(ws, ts, es, us)
  BY <1>1, <1>3, ExecutedIs
<1>6. Sound(es, us) /\ Extends(es, ds) /\ Same(es, ws, n)
  BY <1>1, <1>3, <1>5, SoundAfter
<1> HIDE DEF ws, n
<1>7. /\ es \in Seq(Class) /\ Len(es) = n /\ es[n].stmt = s /\ es[n].accepted
      /\ \A c \in 1..n : c # n => Like(es[c], ws[c])
  BY <1>1, <1>2, <1>4, <1>5 DEF Outcome
<1>8. PICK K \in 0..Size(ws, n) : Stops(ws, ts, es, us, K)
  BY <1>1, <1>5 DEF Outcome
<1>9. /\ \A c \in 1..n : c # n => Grown(ws, c, es[c].rels, K)
      /\ Only(ws, n, es[n].rels, K) /\ ts \subseteq us
      /\ \A x \in us : \/ x \in ts
                       \/ x = TableKey(s)
                       \/ (\E l \in Links(ws, n) : x \in JoinsOf(ws, n, l))
  BY <1>1, <1>4, <1>8 DEF Stops
<1>10. \A c \in 1..Len(ds) : Same(es, ds, c)
  <2>1. Unique(es)
    BY <1>6 DEF Sound
  <2>2. QED
    BY <1>3, <1>6, <1>7, <1>9, <2>1, Kept
<1>11. \A e \in 1..n : es[e].accepted /\ es[e].stmt = cs[p[e]].stmt
  <2>1. \A e \in 1..Len(ds) : es[e].accepted /\ es[e].stmt = ds[e].stmt
    BY <1>3, <1>4, <1>7 DEF Like
  <2>2. cs[p[n]].stmt = s
    BY DEF n
  <2>3. ASSUME NEW e \in 1..n PROVE es[e].accepted /\ es[e].stmt = cs[p[e]].stmt
    <3>1. CASE e = n
      BY <1>7, <2>2, <3>1
    <3>2. CASE e # n
      <4>1. e \in 1..Len(ds)
        BY <1>3, <3>2
      <4>2. ds[e].stmt = cs[p[e]].stmt
        BY <1>3, <4>1 DEF Follows
      <4>3. QED
        BY <2>1, <4>1, <4>2
    <3>3. QED
      BY <3>1, <3>2
  <2>4. QED
    BY <2>3
<1>12. Follows(es, cs, p)
  BY <1>7, <1>11 DEF Follows
<1>13. /\ Links(es, n) = Links(ws, n)
       /\ \A j : Ann(es, n, j) = Ann(ws, n, j) /\ Rev(es, n, j) = Rev(ws, n, j)
       /\ \A j \in Links(ws, n) :
             To(es, n, j) = To(ws, n, j) /\ JoinsOf(es, n, j) = JoinsOf(ws, n, j)
  BY <1>6 DEF Same
<1>14. \A c \in 1..Len(ds) :
          /\ Links(es, c) = Links(ds, c) /\ es[c].stmt = ds[c].stmt
          /\ \A j : Ann(es, c, j) = Ann(ds, c, j) /\ Rev(es, c, j) = Rev(ds, c, j)
          /\ \A j \in Links(ds, c) :
                To(es, c, j) = To(ds, c, j) /\ JoinsOf(es, c, j) = JoinsOf(ds, c, j)
  BY <1>10 DEF Same
<1>15. ASSUME NEW c \in 1..n, NEW m \in DOMAIN es[c].rels
       PROVE  \/ \E l \in Links(es, c) : m = Ann(es, c, l).name
              \/ \E e \in 1..n : \E l \in Links(es, e) : To(es, e, l) = c /\ m = Rev(es, e, l)
  <2>1. CASE c = n
    <3>1. PICK l \in Links(ws, n) :
             m = Ann(ws, n, l).name \/ (To(ws, n, l) = n /\ m = Rev(ws, n, l))
      BY <1>9, <1>15, <2>1 DEF Only
    <3>2. QED
      BY <1>3, <1>13, <2>1, <3>1
  <2>2. CASE c # n /\ m \in DOMAIN ds[c].rels
    <3>1. \/ \E l \in Links(ds, c) : m = Ann(ds, c, l).name
          \/ \E e \in 1..Len(ds) : \E l \in Links(ds, e) : To(ds, e, l) = c /\ m = Rev(ds, e, l)
      BY <1>3, <2>2 DEF Exact
    <3>2. c \in 1..Len(ds)
      BY <1>3, <2>2
    <3>3. QED
      BY <1>3, <1>14, <3>1, <3>2
  <2>3. CASE c # n /\ m \notin DOMAIN ds[c].rels
    <3>1. Grown(ws, c, es[c].rels, K) /\ m \notin DOMAIN ws[c].rels
      BY <1>3, <1>4, <1>9, <2>3
    <3>2. PICK l \in Links(ws, n) : To(ws, n, l) = c /\ m = Rev(ws, n, l)
      BY <1>1, <1>15, <3>1 DEF Grown
    <3>3. QED
      BY <1>3, <1>13, <3>2
  <2>4. QED
    BY <2>1, <2>2, <2>3
<1>16. ASSUME NEW x \in us
       PROVE  \E c \in 1..n : \/ x = TableKey(es[c].stmt)
                              \/ \E l \in Links(es, c) : x \in JoinsOf(es, c, l)
  <2>1. CASE x \in ts
    <3>1. PICK c \in 1..Len(ds) : \/ x = TableKey(ds[c].stmt)
                                  \/ \E l \in Links(ds, c) : x \in JoinsOf(ds, c, l)
      BY <1>3, <2>1 DEF Exact
    <3>2. QED
      BY <1>3, <1>14, <3>1
  <2>2. CASE x = TableKey(s)
    BY <1>3, <1>7, <2>2
  <2>3. CASE \E l \in Links(ws, n) : x \in JoinsOf(ws, n, l)
    BY <1>3, <1>13, <2>3
  <2>4. QED
    BY <1>9, <2>1, <2>2, <2>3
<1>17. Exact(es, us)
  <2>1. \A c \in 1..Len(es) : \A m \in DOMAIN es[c].rels :
          \/ \E l \in Links(es, c) : m = Ann(es, c, l).name
          \/ \E e \in 1..Len(es) : \E l \in Links(es, e) : To(es, e, l) = c /\ m = Rev(es, e, l)
    <3> SUFFICES ASSUME NEW c \in 1..Len(es), NEW m \in DOMAIN es[c].rels
                 PROVE  \/ \E l \in Links(es, c) : m = Ann(es, c, l).name
                        \/ \E e \in 1..Len(es) : \E l \in Links(es, e) :
                              To(es, e, l) = c /\ m = Rev(es, e, l)
      OBVIOUS
    <3>1. c \in 1..n
      BY <1>7
    <3>2. \/ \E l \in Links(es, c) : m = Ann(es, c, l).name
          \/ \E e \in 1..n : \E l \in Links(es, e) : To(es, e, l) = c /\ m = Rev(es, e, l)
      BY <1>15, <3>1
    <3>3. QED
      BY <1>7, <3>2
  <2>2. \A x \in us : \E c \in 1..Len(es) :
          \/ x = TableKey(es[c].stmt)
          \/ \E l \in Links(es, c) : x \in JoinsOf(es, c, l)
    BY <1>7, <1>16
  <2>3. QED
    BY <2>1, <2>2 DEF Exact
<1>18. QED
  BY <1>6, <1>7, <1>11, <1>12, <1>17 DEF Again, n

-----------------------------------------------------------------------------
(* The classes after each of the statements.                               *)

(* w[i] is what the first i statements make. *)
Rerun(w, stmts) ==
    /\ w[0] = [classes |-> <<>>, metadata |-> {}]
    /\ \A i \in 1..Len(stmts) :
          w[i] = Executed(w[i - 1].classes, w[i - 1].metadata, stmts[i])
    /\ Replay(stmts) = w[Len(stmts)].classes

(* Replay is the last of such a sequence. *)
LEMMA ReplayIs ==
    ASSUME NEW stmts, Len(stmts) \in Nat
    PROVE  \E w : Rerun(w, stmts)
<1> DEFINE N == Len(stmts)
           start == [classes |-> <<>>, metadata |-> {}]
           Step(v, i) == Executed(v.classes, v.metadata, stmts[i])
           Fix(f, n) == f = [i \in 0..n |-> IF i = 0 THEN start ELSE Step(f[i - 1], i)]
           Determined(n) == \E f : Fix(f, n)
           P == {n \in 0..N : Determined(n)}
<1> HIDE DEF start, Step
<1>1. Determined(0)
  <2>1. Fix([i \in 0..0 |-> start], 0)
    OBVIOUS
  <2>2. QED
    BY <2>1
<1>2. ASSUME NEW n \in 1..N, Determined(n - 1) PROVE Determined(n)
  <2>1. PICK e : Fix(e, n - 1)
    BY <1>2
  <2> DEFINE f == [i \in 0..n |-> IF i = n THEN Step(e[n - 1], n) ELSE e[i]]
  <2>2. \A i \in 0..n : f[i] = IF i = 0 THEN start ELSE Step(f[i - 1], i)
    <3> SUFFICES ASSUME NEW i \in 0..n PROVE f[i] = IF i = 0 THEN start ELSE Step(f[i - 1], i)
      OBVIOUS
    <3>1. CASE i = 0
      <4>1. i \in 0..(n - 1) /\ i # n /\ e[i] = start
        BY <2>1, <3>1
      <4>2. QED
        BY <3>1, <4>1
    <3>2. CASE i # 0 /\ i # n
      <4>1. /\ i \in 0..(n - 1) /\ i - 1 \in 0..n /\ i - 1 # n
            /\ e[i] = Step(e[i - 1], i)
        BY <2>1, <3>2
      <4>2. QED
        BY <3>2, <4>1
    <3>3. CASE i = n
      <4>1. n - 1 \in 0..n /\ n - 1 # n /\ n # 0
        OBVIOUS
      <4>2. QED
        BY <3>3, <4>1
    <3>4. QED
      BY <3>1, <3>2, <3>3
  <2>3. f = [i \in 0..n |-> f[i]]
    OBVIOUS
  <2> HIDE DEF f
  <2>4. Fix(f, n)
    BY <2>2, <2>3
  <2>5. QED
    BY <2>4
<1> HIDE DEF Determined
<1>3. 0 \in P /\ \A i \in 1..N : i - 1 \in P => i \in P
  BY <1>1, <1>2
<1> HIDE DEF P
<1>4. N \in P
  <2>1. \A i \in 0..N : i \in P
    BY <1>3, Induct
  <2>2. QED
    BY <2>1
<1>5. Determined(N)
  BY <1>4 DEF P
<1> DEFINE w == CHOOSE f : Fix(f, N)
<1>6. Fix(w, N)
  <2>1. \E f : Fix(f, N)
    BY <1>5 DEF Determined
  <2> HIDE DEF Fix
  <2>2. QED
    BY <2>1
<1>7. Replay(stmts) = w[N].classes
  BY DEF Replay, Fix, start, Step
<1> HIDE DEF w
<1>8. w[0] = start /\ \A i \in 1..N : w[i] = Step(w[i - 1], i)
  <2>1. \A i \in 0..N : w[i] = IF i = 0 THEN start ELSE Step(w[i - 1], i)
    BY <1>6
  <2>2. QED
    BY <2>1
<1>9. QED
  BY <1>7, <1>8 DEF Rerun, start, Step

(* Replay accepts all. *)
LEMMA ReplayAgain ==
    ASSUME NEW cs, NEW md, Sound(cs, md), NEW p, NEW k, Order(cs, p, k),
           NEW stmts, Len(stmts) = k, \A i \in 1..k : stmts[i] = cs[p[i]].stmt
    PROVE  \E ts : Again(Replay(stmts), ts, cs, p) /\ Len(Replay(stmts)) = k
<1>1. k \in Nat
  BY DEF Order
<1>2. PICK w : Rerun(w, stmts)
  BY <1>1, ReplayIs
<1> DEFINE P == {i \in 0..k : /\ Again(w[i].classes, w[i].metadata, cs, p)
                             /\ Len(w[i].classes) = i}
<1>3. 0 \in P
  <2>1. w[0].classes = <<>> /\ w[0].metadata = {}
    BY <1>2 DEF Rerun
  <2>2. PICK ds, ts : ds = <<>> /\ ts = {}
    OBVIOUS
  <2>3. ds \in Seq(Class) /\ Len(ds) = 0 /\ ts \in SUBSET TableNames
    BY <2>2
  <2>4. Sound(ds, ts)
    BY <2>3 DEF Sound, Unique
  <2>5. Exact(ds, ts)
    BY <2>2, <2>3 DEF Exact
  <2>6. Again(ds, ts, cs, p)
    BY <2>3, <2>4, <2>5 DEF Again, Follows
  <2>7. w[0].classes = ds /\ w[0].metadata = ts
    BY <2>1, <2>2
  <2>8. Again(w[0].classes, w[0].metadata, cs, p) /\ Len(w[0].classes) = 0
    BY <2>3, <2>6, <2>7
  <2>9. QED
    BY <1>1, <2>8
<1>4. ASSUME NEW i \in 1..k, i - 1 \in P PROVE i \in P
  <2>1. PICK ds, ts, s, es, us : /\ ds = w[i - 1].classes /\ ts = w[i - 1].metadata /\ s = stmts[i]
                                 /\ es = w[i].classes /\ us = w[i].metadata
    OBVIOUS
  <2>2. Again(ds, ts, cs, p) /\ Len(ds) = i - 1 /\ Len(ds) + 1 = i
    BY <1>4, <2>1
  <2>3. w[i] = Executed(ds, ts, s)
    BY <1>2, <2>1 DEF Rerun
  <2>4. es = Executed(ds, ts, s).classes /\ us = Executed(ds, ts, s).metadata
    BY <2>1, <2>3
  <2>5. s = cs[p[Len(ds) + 1]].stmt /\ Len(ds) + 1 <= k
    BY <1>1, <2>1, <2>2
  <2>6. Again(es, us, cs, p) /\ Len(es) = Len(ds) + 1
    BY <2>2, <2>4, <2>5, AgainNext
  <2>7. QED
    BY <1>1, <2>1, <2>2, <2>6
<1> HIDE DEF P
<1>5. k \in P
  <2>1. \A i \in 0..k : i \in P
    BY <1>1, <1>3, <1>4, Induct
  <2>2. QED
    BY <1>1, <2>1
<1>6. Replay(stmts) = w[k].classes
  BY <1>2 DEF Rerun
<1>7. QED
  BY <1>5, <1>6 DEF P

-----------------------------------------------------------------------------
(* How the accepted classes are related is a matter of their statements.   *)

(* Of a relationship of a class with itself, whose reverse has its name,   *)
(* the registry has the reverse.                                           *)
OwnShown(cs, c, j) ==
    \/ To(cs, c, j) # c
    \/ Rev(cs, c, j) # Ann(cs, c, j).name
    \/ Mirror(Ann(cs, c, j).kind) = Ann(cs, c, j).kind

(* A later relationship takes the place of the reverse. *)
SelfShown(cs, c, j) ==
    \A i \in Links(cs, c) : j < i /\ Ann(cs, c, i).name = Rev(cs, c, j) =>
        To(cs, c, i) = c /\ Ann(cs, c, i).kind = Mirror(Ann(cs, c, j).kind)

(* What the registries say of the j-th annotation of class c, both ends. *)
Shows(cs, c, j) ==
    LET name == Ann(cs, c, j).name
        rev  == Rev(cs, c, j)
        t    == To(cs, c, j)
        here == [to |-> t, kind |-> Ann(cs, c, j).kind]
        back == [to |-> c, kind |-> Mirror(Ann(cs, c, j).kind)]
    IN /\ name \in DOMAIN cs[c].rels /\ (cs[c].rels[name] = here <=> OwnShown(cs, c, j))
       /\ rev \in DOMAIN cs[t].rels
       /\ cs[t].rels[rev] = back <=> (t = c => SelfShown(cs, c, j))

(* The registries of a mapped class say so. *)
LEMMA ShowsAre ==
    ASSUME NEW cs, NEW md, Sound(cs, md), NEW c \in 1..Len(cs), cs[c].mapped, NEW j \in Links(cs, c)
    PROVE  Shows(cs, c, j)
<1> DEFINE rels == cs[c].rels
           t == To(cs, c, j)
           name == Ann(cs, c, j).name
           rev  == Rev(cs, c, j)
           kind == Ann(cs, c, j).kind
<1>1. cs \in Seq(Class) /\ Unique(cs) /\ Whole(cs, md, c)
  BY DEF Sound
<1>2. \A i \in Links(cs, c) : i \in 1..Size(cs, c) /\ i \in Nat /\ i <= Size(cs, c)
  BY <1>1, ClassIs DEF Links
<1>3. ASSUME NEW i \in Links(cs, c)
      PROVE  /\ Ann(cs, c, i).name \in DOMAIN rels
             /\ (To(cs, c, i) # c \/ Rev(cs, c, i) # Ann(cs, c, i).name) =>
                   rels[Ann(cs, c, i).name] = [to |-> To(cs, c, i), kind |-> Ann(cs, c, i).kind]
             /\ To(cs, c, i) = c =>
                   /\ Rev(cs, c, i) \in DOMAIN rels
                   /\ (\A l \in Links(cs, c) : i < l => Ann(cs, c, l).name # Rev(cs, c, i)) =>
                         rels[Rev(cs, c, i)] = [to |-> c, kind |-> Mirror(Ann(cs, c, i).kind)]
  <2>1. Valued(cs, c, rels, Size(cs, c))
    BY <1>1 DEF Whole
  <2>2. QED
    BY <1>2, <2>1 DEF Valued
<1>4. \A i, l \in Links(cs, c) : i # l => Ann(cs, c, i).name # Ann(cs, c, l).name
  BY <1>1, <1>2, NamesApart
<1>5. rels[name] = [to |-> t, kind |-> kind] <=> OwnShown(cs, c, j)
  <2>1. CASE t # c \/ rev # name
    BY <1>3, <2>1 DEF OwnShown
  <2>2. CASE t = c /\ rev = name
    <3>1. \A l \in Links(cs, c) : j < l => Ann(cs, c, l).name # rev
      BY <1>2, <1>4, <2>2
    <3>2. rels[name] = [to |-> c, kind |-> Mirror(kind)]
      BY <1>3, <2>2, <3>1
    <3>3. OwnShown(cs, c, j) <=> Mirror(kind) = kind
      BY <2>2 DEF OwnShown
    <3> HIDE DEF rels, t, name, kind
    <3>4. [to |-> c, kind |-> Mirror(kind)] = [to |-> t, kind |-> kind] <=> Mirror(kind) = kind
      BY <2>2
    <3>5. QED
      BY <3>2, <3>3, <3>4
  <2>3. QED
    BY <2>1, <2>2
<1>6. ASSUME t # c
      PROVE  rev \in DOMAIN cs[t].rels /\ cs[t].rels[rev] = [to |-> c, kind |-> Mirror(kind)]
  BY <1>1, <1>6 DEF Whole
<1>7. ASSUME t = c
      PROVE  rels[rev] = [to |-> c, kind |-> Mirror(kind)] <=> SelfShown(cs, c, j)
  <2>1. CASE \A l \in Links(cs, c) : j < l => Ann(cs, c, l).name # rev
    BY <1>3, <1>7, <2>1 DEF SelfShown
  <2>2. CASE \E l \in Links(cs, c) : j < l /\ Ann(cs, c, l).name = rev
    <3>1. PICK l \in Links(cs, c) : j < l /\ Ann(cs, c, l).name = rev
      BY <2>2
    <3>2. To(cs, c, l) # c \/ Rev(cs, c, l) # rev
      <4>1. Fine(cs, c, l)
        BY <1>1, <1>2 DEF Whole
      <4>2. QED
        BY <1>7, <3>1, <4>1 DEF Fine
    <3>3. rels[rev] = [to |-> To(cs, c, l), kind |-> Ann(cs, c, l).kind]
      BY <1>3, <3>1, <3>2
    <3>4. SelfShown(cs, c, j) <=> To(cs, c, l) = c /\ Ann(cs, c, l).kind = Mirror(kind)
      BY <1>4, <3>1 DEF SelfShown
    <3>5. PICK u, v : u = To(cs, c, l) /\ v = Ann(cs, c, l).kind
      OBVIOUS
    <3> HIDE DEF rels, t, name, kind, rev
    <3>6. [to |-> u, kind |-> v] = [to |-> c, kind |-> Mirror(kind)] <=> u = c /\ v = Mirror(kind)
      OBVIOUS
    <3>7. QED
      BY <3>3, <3>4, <3>5, <3>6
  <2>3. QED
    BY <2>1, <2>2
<1>8. rev \in DOMAIN cs[t].rels
  BY <1>3, <1>6
<1>9. cs[t].rels[rev] = [to |-> c, kind |-> Mirror(kind)] <=> (t = c => SelfShown(cs, c, j))
  BY <1>6, <1>7
<1>10. QED
  BY <1>3, <1>5, <1>8, <1>9 DEF Shows

(* x is a relationship between the classes, by the j-th annotation of c. *)
Relates(cs, c, j, x) ==
    LET a    == Ann(cs, c, j)
        from == cs[c].stmt.name
        to   == cs[To(cs, c, j)].stmt.name
    IN \/ (OwnShown(cs, c, j) /\ x = <<from, a.name, to, a.kind>>)
       \/ /\ To(cs, c, j) = c => SelfShown(cs, c, j)
          /\ x = <<to, Rev(cs, c, j), from, Mirror(a.kind)>>

(* x is in Related(cs), by relationship r of class c. *)
Listed(cs, c, r, x) ==
    /\ r \in SqlRelations(cs, c) /\ ~r.native /\ cs[r.to].accepted
    /\ r.name \in DOMAIN cs[c].rels /\ cs[c].rels[r.name] = [to |-> r.to, kind |-> r.kind]
    /\ x = <<cs[c].stmt.name, r.name, cs[r.to].stmt.name, r.kind>>

(* Related(cs), element by element. *)
LEMMA RelatedAre ==
    ASSUME NEW cs \in Seq(Class)
    PROVE  \A x : x \in Related(cs) <=>
                     \E c \in 1..Len(cs) : cs[c].accepted /\ \E r : Listed(cs, c, r, x)
<1> DEFINE From(c) == {s \in SqlRelations(cs, c) :
                         /\ ~s.native /\ cs[s.to].accepted
                         /\ s.name \in DOMAIN cs[c].rels
                         /\ cs[c].rels[s.name] = [to |-> s.to, kind |-> s.kind]}
           All(c) == {<<cs[c].stmt.name, r.name, cs[r.to].stmt.name, r.kind>> : r \in From(c)}
           kept == {d \in DOMAIN cs : cs[d].accepted}
<1>1. Related(cs) = UNION {All(c) : c \in kept}
  BY DEF Related
<1>2. \A c : c \in kept <=> c \in 1..Len(cs) /\ cs[c].accepted
  <2>1. DOMAIN cs = 1..Len(cs)
    OBVIOUS
  <2>2. QED
    BY <2>1
<1>3. \A c, x : x \in All(c) <=> \E r : Listed(cs, c, r, x)
  BY DEF Listed
<1> HIDE DEF From, All, kept
<1>4. \A x : x \in Related(cs) <=> \E c \in kept : x \in All(c)
  BY <1>1
<1>5. QED
  BY <1>2, <1>3, <1>4

(* Related(cs) is what the annotations of the accepted classes say. *)
LEMMA RelatedIs ==
    ASSUME NEW cs, NEW md, Sound(cs, md)
    PROVE  \A x : x \in Related(cs) <=>
                     \E c \in 1..Len(cs) : /\ cs[c].accepted
                                           /\ \E j \in Links(cs, c) : Relates(cs, c, j, x)
<1>1. /\ cs \in Seq(Class) /\ Unique(cs) /\ Len(cs) \in Nat
      /\ \A c \in 1..Len(cs) : Resolved(cs, c) /\ (cs[c].accepted => cs[c].mapped)
  BY DEF Sound
<1>2. ASSUME NEW c \in 1..Len(cs), cs[c].accepted, NEW j \in Links(cs, c)
      PROVE  /\ To(cs, c, j) \in 1..Len(cs) /\ cs[To(cs, c, j)].accepted
             /\ Shows(cs, c, j)
             /\ Ann(cs, c, j) \in RelationsOf(cs[c].stmt) /\ ~Ann(cs, c, j).native
  <2>1. To(cs, c, j) \in 1..c /\ Means(cs, c, Ann(cs, c, j).target, To(cs, c, j))
    BY <1>1, ToIs
  <2>2. cs[To(cs, c, j)].accepted
    BY <1>2, <2>1 DEF Means
  <2>3. Shows(cs, c, j)
    BY <1>1, <1>2, ShowsAre
  <2>4. Ann(cs, c, j) \in RelationsOf(cs[c].stmt) /\ ~Ann(cs, c, j).native
    BY <1>1, ClassIs DEF Links, Link, RelationsOf
  <2>5. QED
    BY <1>1, <2>1, <2>2, <2>3, <2>4
<1>3. ASSUME NEW c \in 1..Len(cs), cs[c].accepted, NEW r, NEW x, Listed(cs, c, r, x)
      PROVE  \E e \in 1..Len(cs) : cs[e].accepted /\ \E j \in Links(cs, e) : Relates(cs, e, j, x)
  <2>1. /\ r \in SqlRelations(cs, c) /\ ~r.native /\ cs[r.to].accepted
        /\ cs[c].rels[r.name] = [to |-> r.to, kind |-> r.kind]
        /\ x = <<cs[c].stmt.name, r.name, cs[r.to].stmt.name, r.kind>>
    BY <1>3 DEF Listed
  <2>2. CASE \E j : Declared(cs, c, j, r)
    <3>1. PICK j : Declared(cs, c, j, r)
      BY <2>2
    <3>2. j \in Links(cs, c) /\ Shows(cs, c, j)
      BY <1>2, <1>3, <3>1 DEF Declared
    <3>3. OwnShown(cs, c, j)
      BY <2>1, <3>1, <3>2 DEF Declared, Shows
    <3>4. x = <<cs[c].stmt.name, Ann(cs, c, j).name, cs[To(cs, c, j)].stmt.name, Ann(cs, c, j).kind>>
      BY <2>1, <3>1 DEF Declared
    <3>5. Relates(cs, c, j, x)
      BY <3>3, <3>4 DEF Relates
    <3>6. QED
      BY <1>3, <3>2, <3>5
  <2>3. CASE \E e, j : Mirrored(cs, c, e, j, r)
    <3>1. PICK e, j : Mirrored(cs, c, e, j, r)
      BY <2>3
    <3>2. /\ e \in 1..Len(cs) /\ j \in Links(cs, e) /\ To(cs, e, j) = c
          /\ r.name = Rev(cs, e, j) /\ r.to = e /\ r.kind = Mirror(Ann(cs, e, j).kind)
      BY <3>1 DEF Mirrored
    <3>3. cs[e].accepted
      BY <2>1, <3>2
    <3>4. Shows(cs, e, j)
      BY <1>2, <3>2, <3>3
    <3>5. To(cs, e, j) = e => SelfShown(cs, e, j)
      BY <2>1, <3>2, <3>4 DEF Shows
    <3>6. x = <<cs[To(cs, e, j)].stmt.name, Rev(cs, e, j), cs[e].stmt.name,
                Mirror(Ann(cs, e, j).kind)>>
      BY <2>1, <3>2
    <3>7. Relates(cs, e, j, x)
      BY <3>5, <3>6 DEF Relates
    <3>8. QED
      BY <3>2, <3>3, <3>7
  <2>4. QED
    BY <1>1, <2>1, <2>2, <2>3, MadeAre
<1>4. ASSUME NEW c \in 1..Len(cs), cs[c].accepted, NEW j \in Links(cs, c), NEW x,
             Relates(cs, c, j, x)
      PROVE  \E e \in 1..Len(cs) : cs[e].accepted /\ \E r : Listed(cs, e, r, x)
  <2>1. PICK a, t : a = Ann(cs, c, j) /\ t = To(cs, c, j)
    OBVIOUS
  <2>2. /\ t \in 1..Len(cs) /\ cs[t].accepted /\ Shows(cs, c, j)
        /\ a \in RelationsOf(cs[c].stmt) /\ ~a.native /\ t = ClassOf(cs, c, a.target)
    BY <1>2, <1>4, <2>1 DEF To
  <2>3. CASE OwnShown(cs, c, j) /\ x = <<cs[c].stmt.name, a.name, cs[t].stmt.name, a.kind>>
    <3>1. PICK r : r = OwnOf(cs, c, a)
      OBVIOUS
    <3>2. r \in SqlRelations(cs, c)
      BY <2>2, <3>1, RelationsAre
    <3>3. r.name = a.name /\ r.to = t /\ r.kind = a.kind /\ r.native = a.native
      BY <2>2, <3>1 DEF OwnOf
    <3>4. r.name \in DOMAIN cs[c].rels /\ cs[c].rels[r.name] = [to |-> r.to, kind |-> r.kind]
      BY <2>1, <2>2, <2>3, <3>3 DEF Shows
    <3>5. Listed(cs, c, r, x)
      BY <2>2, <2>3, <3>2, <3>3, <3>4 DEF Listed
    <3>6. QED
      BY <1>4, <3>5
  <2>4. CASE /\ To(cs, c, j) = c => SelfShown(cs, c, j)
             /\ x = <<cs[t].stmt.name, Rev(cs, c, j), cs[c].stmt.name, Mirror(a.kind)>>
    <3>1. PICK r : r = OtherOf(cs, c, a)
      OBVIOUS
    <3>2. r \in SqlRelations(cs, t)
      <4>1. c \in MappedOf(cs)
        BY <1>1, <1>4, MappedIs
      <4>2. Reverse(cs, t, c, a)
        BY <2>2, <4>1 DEF Reverse
      <4>3. QED
        BY <3>1, <4>2, RelationsAre
    <3>3. r.name = Rev(cs, c, j) /\ r.to = c /\ r.kind = Mirror(a.kind) /\ r.native = a.native
      BY <2>1, <3>1 DEF OtherOf, Rev
    <3>4. r.name \in DOMAIN cs[t].rels /\ cs[t].rels[r.name] = [to |-> r.to, kind |-> r.kind]
      BY <2>1, <2>2, <2>4, <3>3 DEF Shows
    <3>5. Listed(cs, t, r, x)
      BY <1>4, <2>2, <2>4, <3>2, <3>3, <3>4 DEF Listed
    <3>6. QED
      BY <2>2, <3>5
  <2>5. QED
    BY <1>4, <2>1, <2>3, <2>4 DEF Relates
<1>5. \A x : x \in Related(cs) <=> \E c \in 1..Len(cs) : cs[c].accepted /\ \E r : Listed(cs, c, r, x)
  BY <1>1, RelatedAre
<1>6. QED
  BY <1>3, <1>4, <1>5

-----------------------------------------------------------------------------
(* In another order, the same relationships.                               *)

(* A statement says the same in its other place. *)
LEMMA PairRelates ==
    ASSUME NEW cs \in Seq(Class), NEW ds \in Seq(Class), NEW p, NEW k, Order(cs, p, k),
           NEW i \in 1..k, Pair(ds, cs, p, i), NEW j \in Links(cs, p[i]), NEW x
    PROVE  Relates(ds, i, j, x) <=> Relates(cs, p[i], j, x)
<1>1. /\ \A l \in Links(cs, p[i]) :
            /\ To(ds, i, l) \in 1..i /\ p[To(ds, i, l)] = To(cs, p[i], l)
            /\ ds[To(ds, i, l)].stmt = cs[To(cs, p[i], l)].stmt
      /\ \A l : Ann(ds, i, l) = Ann(cs, p[i], l) /\ Rev(ds, i, l) = Rev(cs, p[i], l)
      /\ Links(ds, i) = Links(cs, p[i]) /\ ds[i].stmt = cs[p[i]].stmt
  BY DEF Pair
<1>2. \A s, t \in 1..i : p[s] = p[t] => s = t
  BY DEF Order
<1>3. i \in 1..i
  BY DEF Order
<1>4. \A l \in Links(cs, p[i]) : To(ds, i, l) = i <=> To(cs, p[i], l) = p[i]
  BY <1>1, <1>2, <1>3
<1>5. OwnShown(ds, i, j) <=> OwnShown(cs, p[i], j)
  BY <1>1, <1>4 DEF OwnShown
<1>6. SelfShown(ds, i, j) <=> SelfShown(cs, p[i], j)
  BY <1>1, <1>4 DEF SelfShown
<1>7. QED
  BY <1>1, <1>4, <1>5, <1>6 DEF Relates

(* The accepted classes, again in some order, are related as they were. *)
LEMMA RelatedAgain ==
    ASSUME NEW cs, NEW md, Sound(cs, md), NEW p, NEW k, Order(cs, p, k),
           \A c \in 1..Len(cs) : cs[c].accepted => \E i \in 1..k : c = p[i],
           NEW ds, NEW ts, Again(ds, ts, cs, p), Len(ds) = k
    PROVE  Related(ds) = Related(cs)
<1>1. /\ cs \in Seq(Class) /\ Unique(cs) /\ ds \in Seq(Class) /\ Unique(ds) /\ k \in Nat
      /\ Sound(ds, ts) /\ Follows(ds, cs, p)
      /\ \A i \in 1..k : /\ Resolved(ds, i) /\ Resolved(cs, p[i]) /\ p[i] \in 1..Len(cs)
                         /\ cs[p[i]].accepted /\ ds[i].accepted
  BY DEF Sound, Again, Order
<1>2. \A i \in 1..k : Pair(ds, cs, p, i)
  BY <1>1, PairIs
<1>3. \A i \in 1..k : Links(ds, i) = Links(cs, p[i])
  BY <1>2 DEF Pair
<1>4. \A i \in 1..k : \A j \in Links(cs, p[i]) : \A x :
         Relates(ds, i, j, x) <=> Relates(cs, p[i], j, x)
  BY <1>1, <1>2, PairRelates
<1>5. \A x : x \in Related(ds) <=> \E i \in 1..k : \E j \in Links(ds, i) : Relates(ds, i, j, x)
  BY <1>1, RelatedIs
<1>6. \A x : x \in Related(cs) <=>
                \E c \in 1..Len(cs) : cs[c].accepted /\ \E j \in Links(cs, c) : Relates(cs, c, j, x)
  BY RelatedIs
<1>7. ASSUME NEW x PROVE x \in Related(ds) <=> x \in Related(cs)
  <2>1. ASSUME x \in Related(ds) PROVE x \in Related(cs)
    <3>1. PICK i \in 1..k : \E j \in Links(ds, i) : Relates(ds, i, j, x)
      BY <1>5, <2>1
    <3>2. PICK j \in Links(ds, i) : Relates(ds, i, j, x)
      BY <3>1
    <3>3. j \in Links(cs, p[i]) /\ Relates(cs, p[i], j, x)
      BY <1>3, <1>4, <3>2
    <3>4. p[i] \in 1..Len(cs) /\ cs[p[i]].accepted
      BY <1>1
    <3>5. QED
      BY <1>6, <3>3, <3>4
  <2>2. ASSUME x \in Related(cs) PROVE x \in Related(ds)
    <3>1. PICK c \in 1..Len(cs) : cs[c].accepted /\ \E j \in Links(cs, c) : Relates(cs, c, j, x)
      BY <1>6, <2>2
    <3>2. PICK i \in 1..k : c = p[i]
      BY <3>1
    <3>3. PICK j \in Links(cs, p[i]) : Relates(cs, p[i], j, x)
      BY <3>1, <3>2
    <3>4. j \in Links(ds, i) /\ Relates(ds, i, j, x)
      BY <1>3, <1>4, <3>3
    <3>5. QED
      BY <1>5, <3>4
  <2>3. QED
    BY <2>1, <2>2
<1>8. QED
  <2>1. \A x : x \in Related(ds) <=> x \in Related(cs)
    BY <1>7
  <2>2. PICK A, B : A = Related(ds) /\ B = Related(cs)
    OBVIOUS
  <2>3. \A x : x \in A <=> x \in B
    BY <2>1, <2>2
  <2>4. A = B
    BY <2>3
  <2>5. QED
    BY <2>2, <2>4

-----------------------------------------------------------------------------
(* OrderIrrelevant, from the invariant. *)
LEMMA SoundInAnyOrder ==
    ASSUME NEW cs, NEW md, Sound(cs, md)
    PROVE  OrderIrrelevant(cs)
<1> DEFINE kept == {c \in DOMAIN cs : cs[c].accepted}
           k == Cardinality(kept)
<1>1. cs \in Seq(Class) /\ Len(cs) \in Nat /\ DOMAIN cs = 1..Len(cs)
  BY DEF Sound
<1>2. IsFiniteSet(kept) /\ k \in Nat
  <2>1. IsFiniteSet(1..Len(cs)) /\ kept \in SUBSET (1..Len(cs))
    BY <1>1, FS_Interval
  <2>2. QED
    BY <2>1, FS_Subset, FS_CardinalityType
<1>3. \A c : c \in kept <=> c \in 1..Len(cs) /\ cs[c].accepted
  BY <1>1
<1> SUFFICES ASSUME NEW p \in [1..k -> kept],
                    \A i, j \in DOMAIN p : i # j => p[i] # p[j],
                    \A i \in DOMAIN p : \A a \in RelationsOf(cs[p[i]].stmt) :
                        \E j \in 1..i : cs[p[j]].stmt.name = a.target
             PROVE  LET again == Replay([i \in DOMAIN p |-> cs[p[i]].stmt])
                    IN /\ \A i \in DOMAIN again : again[i].accepted
                       /\ Related(again) = Related(cs)
  BY DEF OrderIrrelevant
<1> HIDE DEF kept, k
<1>4. DOMAIN p = 1..k
  OBVIOUS
<1>5. Order(cs, p, k)
  BY <1>2, <1>3, <1>4 DEF Order
<1>6. \A c \in 1..Len(cs) : cs[c].accepted => \E i \in 1..k : c = p[i]
  <2>1. p \in Injection(1..k, kept)
    BY <1>4 DEF Injection, IsInjective
  <2>2. Cardinality(1..k) = k
    BY <1>2, FS_Interval
  <2>3. p \in Surjection(1..k, kept)
    <3>1. Cardinality(1..k) = Cardinality(kept)
      BY <2>2 DEF k
    <3>2. QED
      BY <1>2, <2>1, <3>1, FS_Injection
  <2>4. QED
    BY <1>3, <2>3 DEF Surjection
<1>7. PICK stmts : stmts = [i \in DOMAIN p |-> cs[p[i]].stmt]
  OBVIOUS
<1>8. Len(stmts) = k /\ \A i \in 1..k : stmts[i] = cs[p[i]].stmt
  <2>1. stmts \in [1..k -> Statements]
    BY <1>1, <1>3, <1>4, <1>7, ClassIs
  <2>2. QED
    BY <1>2, <1>4, <1>7, <2>1
<1>9. PICK ds, ts : ds = Replay(stmts) /\ Again(ds, ts, cs, p) /\ Len(ds) = k
  BY <1>5, <1>8, ReplayAgain
<1>10. Related(ds) = Related(cs)
  BY <1>5, <1>6, <1>9, RelatedAgain
<1>11. \A i \in DOMAIN ds : ds[i].accepted
  <2>1. DOMAIN ds = 1..Len(ds)
    BY <1>9 DEF Again, Sound
  <2>2. QED
    BY <1>9, <2>1 DEF Again
<1>12. QED
  BY <1>7, <1>9, <1>10, <1>11

(* RegistryTruthful, from the invariant. *)
LEMMA SoundTruthful == ClassesSound => RegistryTruthful
<1> SUFFICES ASSUME ClassesSound PROVE RegistryTruthful
  OBVIOUS
<1>1. Sound(classes, metadata) /\ AllRegistered(classes)
  BY DEF ClassesSound
<1>2. EntriesAreMapped(classes) /\ NoneClash(classes) /\ OrderIrrelevant(classes)
  BY <1>1, SoundMapped, SoundApart, SoundInAnyOrder
<1>3. QED
  BY <1>1, <1>2 DEF RegistryTruthful

(* RegistryTruthful always holds: whatever statements are executed,        *)
(* accepted or refused half way, and in whichever order, the registries    *)
(* say of every mapped class what SQLAlchemy maps, no two relationships    *)
(* that the library made meet under one name, and the accepted statements, *)
(* executed again in any order that respects their targets, are accepted   *)
(* and related as before.                                                  *)
THEOREM RegistryAlways == ClassSpec => []RegistryTruthful
  BY ClassesAlways, SoundTruthful, PTL
=============================================================================
