----------------------------- MODULE QuerySets ------------------------------
(***************************************************************************)
(* Q (query/q.py), QuerySet (query/queryset.py) and their meaning as SQL   *)
(* (query/compiler.py, query/lookups.py): predicates composed step by step,*)
(* querysets derived from one another, and what each terminal method       *)
(* answers on one table.                                                   *)
(*                                                                         *)
(* A row of the root model has a primary key, a nullable column val, a     *)
(* tombstone flag, and relationships.  Text and JSON lookups, which differ *)
(* from the others in nothing but the comparison, are left out.            *)
(***************************************************************************)
EXTENDS Ordering, Integers, FiniteSets, SequencesExt

CONSTANTS Root,       \* the model of the queryset
          Target,     \* [<<model, relationship>> -> model]
          Fields,     \* [model -> its columns]
          Typed,      \* [model -> those of dates, times, UUIDs, decimals,
                      \* bytes and enums]
          Tables,     \* contents the root table may have
          Leaves,     \* lookups: [path, op, arg]
          Bounds,     \* limits, offsets and ends of slices
          Unset,      \* no limit, no offset, no projection, no predicate
          MaxCalls,   \* bound: calls of Q and of builders, filter excepted
          MaxLookups  \* bound: different lookups in a queryset

Ops == {"exact", "ne", "gt", "lt", "in", "isnull", "notnull"}

ASSUME QuerySetAssumption ==
    /\ MaxCalls \in Nat /\ MaxLookups \in Nat
    /\ Bounds \subseteq Int /\ Unset \notin Int /\ Null \notin Nat
    /\ Orders \subseteq Seq(OrderSpec)
    /\ \A m \in DOMAIN Fields : Typed[m] \subseteq Fields[m]
    /\ \A leaf \in Leaves :
          /\ DOMAIN leaf = {"path", "op", "arg"}
          /\ leaf.path \in Seq(STRING) /\ leaf.path # <<>> /\ leaf.op \in Ops
    /\ \A t \in Tables :
          /\ IsFiniteSet(DOMAIN t) /\ DOMAIN t \subseteq Nat
          /\ \A pk \in DOMAIN t :
                /\ t[pk].val \in Nat \cup {Null}
                /\ \A j \in DOMAIN Target : j[1] = Root => IsFiniteSet(t[pk].related[j[2]])

VARIABLES rows,       \* the table: [pk -> [val, dead, related]]
          soft,       \* Meta.soft_delete
          q,          \* the predicate being composed
          qs,         \* the queryset
          calls       \* calls so far

queryVars == <<rows, soft, q, qs, calls>>

-----------------------------------------------------------------------------
(* Q: a tree of lookups.                                                   *)

Node(children, conn, negated) ==
    [children |-> children, conn |-> conn, negated |-> negated]

Q(children) == Node(children, "AND", FALSE)

Combine(a, b, conn) == Node(<<a, b>>, conn, FALSE)

Invert(node) == Node(node.children, node.conn, ~node.negated)

IsLeaf(child) == "op" \in DOMAIN child

(* Trees of at most n levels.  A call adds a level, and so does filter().  *)
Levels == MaxCalls + 1

Trees[n \in 0..Levels] ==
    IF n = 0 THEN {}
    ELSE [children : Seq(Leaves \cup Trees[n - 1]), conn : {"AND", "OR"}, negated : BOOLEAN]

Predicate == Trees[Levels]

(* The tree that to_data encodes: what the bytes of a predicate stand for. *)
ToData(node) ==
    LET data[t \in Predicate] ==
            [conn     |-> IF t.conn = "OR" THEN 1 ELSE 0,
             neg      |-> IF t.negated THEN 1 ELSE 0,
             children |-> [i \in DOMAIN t.children |->
                              IF IsLeaf(t.children[i]) THEN t.children[i]
                              ELSE data[t.children[i]]]]
    IN data[node]

Encoded[n \in 0..Levels] ==
    IF n = 0 THEN {}
    ELSE [conn : {0, 1}, neg : {0, 1}, children : Seq(Leaves \cup Encoded[n - 1])]

(* Variant: only the root of the tree gets its negation back. *)
DecodedShallow(data) ==
    LET node[d \in Encoded[Levels]] ==
            Node([i \in DOMAIN d.children |->
                     IF IsLeaf(d.children[i]) THEN d.children[i]
                     ELSE node[[d.children[i] EXCEPT !.neg = 0]]],
                 IF d.conn = 1 THEN "OR" ELSE "AND", d.neg = 1)
    IN node[data]

(* The tree that data stands for.  A value of the type of its column, NULL *)
(* excepted, is encoded and decoded to itself.                             *)
Decoded(data) ==
    LET node[d \in Encoded[Levels]] ==
            Node([i \in DOMAIN d.children |->
                     IF IsLeaf(d.children[i]) THEN d.children[i] ELSE node[d.children[i]]],
                 IF d.conn = 1 THEN "OR" ELSE "AND", d.neg = 1)
    IN node[data]

LeavesOf(node) ==
    LET leaves[t \in Predicate] ==
            UNION {IF IsLeaf(child) THEN {child} ELSE leaves[child] : child \in Range(t.children)}
    IN leaves[node]

-----------------------------------------------------------------------------
(* Compilation: paths, joins and what is refused.                          *)

(* The models a path leads through. *)
Through(path) ==
    LET at[i \in 1..Len(path)] ==
            IF i = 1 THEN Root
            ELSE LET step == <<at[i - 1], path[i - 1]>>
                 IN IF step \in DOMAIN Target THEN Target[step] ELSE Unset
    IN at

JoinsOf(path) == {<<Through(path)[i], path[i]>> : i \in 1..Len(path) - 1}

(* A path ends in a column, and goes no further after a self-reference;    *)
(* only = and <> compare with NULL.                                        *)
LeafRefused(leaf) ==
    LET at == Through(leaf.path)
        n  == Len(leaf.path)
    IN \/ \E i \in 1..n : at[i] = Unset
       \/ leaf.path[n] \notin Fields[at[n]]
       \/ \E i \in 1..n - 2 : at[i + 1] = at[i]
       \/ leaf.op \in {"gt", "lt"} /\ leaf.arg = <<Null>>

(* A table is joined once, by one relationship, except by itself. *)
JoinsRefused(joins) ==
    \E j \in joins :
        /\ Target[j] # j[1]
        /\ \/ Target[j] = Root
           \/ \E k \in joins \ {j} : Target[k] # k[1] /\ Target[k] = Target[j]

(* A lookup goes through one relationship at most, unless it is refused.   *)
ASSUME OneRelationship ==
    \A leaf \in Leaves :
        Len(leaf.path) > 2 => LeafRefused(leaf) \/ JoinsRefused(JoinsOf(leaf.path))

(* _check_and_resolve: the leaves that from_data lets a sender name.       *)
(* Without an allow-list these are the columns of the root.                *)
Permitted(leaf, allow) ==
    LET at == Through(leaf.path)
        n  == Len(leaf.path)
    IN /\ IF allow = Unset THEN n = 1 ELSE leaf.path \in allow
       /\ \A i \in 1..n : at[i] # Unset
       /\ leaf.path[n] \in Fields[at[n]]

(* decode_scalar raises on the NULLs of a column of such a type; the flag  *)
(* of isnull is not decoded.                                               *)
Undecodable(leaf) ==
    LET n == Len(leaf.path)
    IN /\ leaf.op \notin {"isnull", "notnull"}
       /\ Null \in Range(leaf.arg)
       /\ leaf.path[n] \in Typed[Through(leaf.path)[n]]

(* from_data under an allow-list: Unset if it raises. *)
FromData(data, allow) ==
    IF \A leaf \in LeavesOf(Decoded(data)) : Permitted(leaf, allow) /\ ~Undecodable(leaf)
    THEN Decoded(data)
    ELSE Unset

WhereLeaves(s) == UNION {LeavesOf(s.where[i]) : i \in DOMAIN s.where}

Joins(s) == UNION {JoinsOf(leaf.path) : leaf \in WhereLeaves(s)}

(* compile() raises, or the database refuses the statement. *)
Fails(s) ==
    \/ \E leaf \in WhereLeaves(s) : LeafRefused(leaf)
    \/ JoinsRefused(Joins(s))
    \/ s.limit # Unset /\ s.limit < 0
    \/ s.offset # Unset /\ s.offset < 0
    \/ s.distinct /\ s.only # Unset /\ \E i \in DOMAIN s.order : s.order[i].col # s.only

-----------------------------------------------------------------------------
(* The predicates of SQL have three values.                                *)

Not3(t) == CASE t = "true" -> "false" [] t = "false" -> "true" [] OTHER -> t

And3(ts) == IF "false" \in ts THEN "false"
            ELSE IF "unknown" \in ts THEN "unknown" ELSE "true"

Or3(ts) == IF "true" \in ts THEN "true"
           ELSE IF "unknown" \in ts THEN "unknown" ELSE "false"

Connected(conn, ts) == IF conn = "OR" /\ ts # {} THEN Or3(ts) ELSE And3(ts)

Bool3(b) == IF b THEN "true" ELSE "false"

(* LOOKUPS: c = None and c <> None become IS NULL and IS NOT NULL. *)
Lookup(op, c, args) ==
    CASE op = "isnull" \/ (op = "exact" /\ args = <<Null>>) -> Bool3(c = Null)
      [] op = "notnull" \/ (op = "ne" /\ args = <<Null>>)   -> Bool3(c # Null)
      [] op = "in" /\ args = <<>> -> "false"
      [] c = Null     -> "unknown"
      [] op = "exact" -> Bool3(c = args[1])
      [] op = "ne"    -> Bool3(c # args[1])
      [] op = "gt"    -> Bool3(c > args[1])
      [] op = "lt"    -> Bool3(c < args[1])
      [] op = "in"    -> Or3({IF v = Null THEN "unknown" ELSE Bool3(c = v) : v \in Range(args)})

(* The column a path denotes in one combination of joined rows. *)
Column(path, env) ==
    IF Len(path) = 1 THEN env.root[path[1]] ELSE env[path[1]][path[2]]

Truth(node, env) ==
    LET truth[t \in Predicate] ==
            LET all == Connected(t.conn, {IF IsLeaf(child)
                                          THEN Lookup(child.op, Column(child.path, env), child.arg)
                                          ELSE truth[child]
                                          : child \in Range(t.children)})
            IN IF t.negated THEN Not3(all) ELSE all
    IN truth[node]

(* deleted_predicate, for the root *)
InMode(row, mode) ==
    CASE ~soft \/ mode = "include" -> TRUE
      [] mode = "exclude" -> ~row.dead
      [] mode = "only"    -> row.dead

Entity(pk) == [pk |-> pk, val |-> rows[pk].val, dead |-> rows[pk].dead]

JoinNames(s) == {j[2] : j \in Joins(s)}

(* The combinations of a root row with its joined rows.  Unless the        *)
(* statement carries another mode, the session's filter takes tombstones   *)
(* of every joined soft-delete model out.                                  *)
Envs(pk, s, mode) ==
    LET names == JoinNames(s)
        alive(e) == ~soft \/ mode # "exclude" \/ ~e.dead
        choices == {f \in [names -> UNION {rows[pk].related[n] : n \in names}] :
                       \A n \in names : f[n] \in rows[pk].related[n]}
    IN {[n \in names \cup {"root"} |-> IF n = "root" THEN Entity(pk) ELSE f[n]] :
            f \in {g \in choices : alive(Entity(pk)) /\ \A n \in names : alive(g[n])}}

Matches(pk, s, mode) ==
    IF ~InMode(rows[pk], s.deleted) THEN {}
    ELSE {env \in Envs(pk, s, mode) :
             \A i \in DOMAIN s.where : Truth(s.where[i], env) = "true"}

-----------------------------------------------------------------------------
(* Execution.  Rows that the order leaves tied are returned by primary     *)
(* key: one of the sequences the database may return.                      *)

SortKey(pk) == [pk |-> pk, val |-> rows[pk].val]

(* The elements of S as a sequence; below[e] are those before e. *)
Ranked(S, below) ==
    [n \in 1..Cardinality(S) |-> CHOOSE e \in S : Cardinality(below[e]) = n - 1]

(* The keys in order, each as often as copies says. *)
Repeated(order, copies) ==
    LET entries == UNION {{k} \X (1..copies[k]) : k \in DOMAIN copies}
        below   == [e \in entries |->
                       {f \in entries : \/ Precedes(order, f[1], e[1])
                                        \/ f[1] = e[1] /\ f[2] < e[2]}]
        entry   == Ranked(entries, below)
    IN [n \in DOMAIN entry |-> entry[n][1]]

Unique(seq) ==
    LET first == {i \in DOMAIN seq : \A j \in 1..i - 1 : seq[j] # seq[i]}
        at    == Ranked(first, [i \in first |-> {j \in first : j < i}])
    IN [n \in DOMAIN at |-> seq[at[n]]]

Window(seq, offset, limit) ==
    LET from == IF offset = Unset THEN 0 ELSE offset
        to   == IF limit = Unset THEN Len(seq) ELSE from + limit
    IN SubSeq(seq, from + 1, IF to < Len(seq) THEN to ELSE Len(seq))

(* The tuples of the statement; mode is the one it carries to the session. *)
Tuples(s, mode) ==
    LET copies == [key \in {SortKey(pk) : pk \in DOMAIN rows} |->
                      Cardinality(Matches(key.pk, s, mode))]
        seq    == Repeated(EffectiveOrder(s.order), copies)
        shown  == [i \in DOMAIN seq |-> IF s.only = Unset THEN seq[i] ELSE seq[i][s.only]]
    IN Window(IF s.distinct THEN Unique(shown) ELSE shown, s.offset, s.limit)

All(s) == Unique(Tuples(s, s.deleted))

FirstOf(s) == All([s EXCEPT !.limit = 1])

(* get() and get_or_none() look at two tuples to see more than one row. *)
GetOf(s) == All([s EXCEPT !.limit = 2])

LastOf(s) == FirstOf([s EXCEPT !.order = IF @ = <<>> THEN <<Desc("pk")>> ELSE ReverseOrder(@)])

Plain(s) == [s EXCEPT !.order = <<>>, !.limit = Unset, !.offset = Unset]

(* The count is taken of a subquery, in a statement that does not carry    *)
(* the deleted-mode of the queryset.                                       *)
Count(s) == Len(Tuples(Plain(s), "exclude"))

(* Variant: LIMIT 1 is all that exists() changes, order and mode included. *)
ExistsFirst(s) == FirstOf([s EXCEPT !.deleted = "exclude"]) # <<>>

Exists(s) == Tuples([s EXCEPT !.order = <<>>, !.limit = 1], s.deleted) # <<>>

(* aggregate(n=Count()): DISTINCT applies to the one row of the aggregate. *)
CountAggregate(s) == Len(Tuples([Plain(s) EXCEPT !.distinct = FALSE], s.deleted))

Slice(s, start, stop) ==
    [s EXCEPT !.offset = IF start = 0 THEN Unset ELSE start,
              !.limit  = IF stop = Unset THEN @ ELSE stop - start]

(* Page.build of the page number, of the given size *)
PageOf(s, number, size) ==
    LET pages == (Count(s) + size - 1) \div size
    IN [items   |-> All(Slice(s, (number - 1) * size, number * size)),
        pages   |-> pages,
        hasNext |-> number < pages]

-----------------------------------------------------------------------------
(* Cache keys.                                                             *)

WhereData(s) == [i \in DOMAIN s.where |-> ToData(s.where[i])]

ScalarKey(s) == <<WhereData(s), s.distinct, s.deleted>>

(* Variant: the shape of a list leaves the deleted-mode out. *)
ListKeyOfLive(s) == <<WhereData(s), s.order, s.limit, s.offset, s.distinct>>

ListKey(s) == <<WhereData(s), s.order, s.limit, s.offset, s.distinct, s.deleted>>

CachesRows(s) == ~s.loaders /\ s.only = Unset

-----------------------------------------------------------------------------
(* Composition.                                                            *)

NewQuerySet ==
    [where |-> <<>>, order |-> <<>>, limit |-> Unset, offset |-> Unset,
     distinct |-> FALSE, only |-> Unset, loaders |-> FALSE, deleted |-> "exclude"]

QueryInit ==
    /\ soft \in BOOLEAN
    /\ rows \in Tables
    /\ ~soft => \A pk \in DOMAIN rows : ~rows[pk].dead
    /\ q = Unset
    /\ qs = NewQuerySet
    /\ calls = 0

Called == calls < MaxCalls /\ calls' = calls + 1

Adds(leaf) ==
    LET before == WhereLeaves(qs) \cup (IF q = Unset THEN {} ELSE LeavesOf(q))
    IN Cardinality(before \cup {leaf}) <= MaxLookups

MakeQ(leaf) ==
    /\ q = Unset
    /\ Called /\ Adds(leaf)
    /\ q' = Q(<<leaf>>)
    /\ UNCHANGED <<rows, soft, qs>>

CombineQ(leaf, conn) ==
    /\ q # Unset
    /\ Called /\ Adds(leaf)
    /\ q' = Combine(q, Q(<<leaf>>), conn)
    /\ UNCHANGED <<rows, soft, qs>>

InvertQ ==
    /\ q # Unset /\ Called
    /\ q' = Invert(q)
    /\ UNCHANGED <<rows, soft, qs>>

(* Variant: filter() forgets the filters before it. *)
FilteredAfresh(s, pred) == [s EXCEPT !.where = <<Q(<<pred>>)>>]

Filtered(s, pred) == [s EXCEPT !.where = Append(@, Q(<<pred>>))]

Excluded(s, pred) == [s EXCEPT !.where = Append(@, Invert(Q(<<pred>>)))]

Filter ==
    /\ q # Unset
    /\ qs' \in {Filtered(qs, q), Excluded(qs, q)}
    /\ q' = Unset
    /\ UNCHANGED <<rows, soft, calls>>

(* The builders that clone with one change. *)
Build(changed) ==
    /\ Called
    /\ qs' = changed
    /\ UNCHANGED <<rows, soft, q>>

OrderBy   == \E order \in Orders : Build([qs EXCEPT !.order = order])
Limit     == \E n \in Bounds : Build([qs EXCEPT !.limit = n])
Offset    == \E n \in Bounds : Build([qs EXCEPT !.offset = n])
GetItem   == \E start \in Bounds, stop \in Bounds \cup {Unset} :
                 start >= 0 /\ (stop # Unset => stop >= 0) /\ Build(Slice(qs, start, stop))
Distinct  == Build([qs EXCEPT !.distinct = TRUE])
Only      == \E field \in {"pk", "val"} : Build([qs EXCEPT !.only = field])
Loaders   == Build([qs EXCEPT !.loaders = TRUE])

(* Variant: any model has tombstones. *)
DeletedAnyway == \E mode \in {"include", "only"} : Build([qs EXCEPT !.deleted = mode])

(* with_deleted() and only_deleted() refuse a model without soft delete. *)
Deleted == soft /\ \E mode \in {"include", "only"} : Build([qs EXCEPT !.deleted = mode])

QueryNext ==
    \/ \E leaf \in Leaves : MakeQ(leaf) \/ \E conn \in {"AND", "OR"} : CombineQ(leaf, conn)
    \/ InvertQ \/ Filter
    \/ OrderBy \/ Limit \/ Offset \/ GetItem \/ Distinct \/ Only \/ Loaders \/ Deleted

QuerySpec == QueryInit /\ [][QueryNext]_queryVars

-----------------------------------------------------------------------------
(* Properties.                                                             *)

QueryTypeOK ==
    /\ rows \in Tables /\ soft \in BOOLEAN /\ calls \in 0..MaxCalls
    /\ q = Unset \/ q \in Trees[calls]
    /\ qs \in [where : Seq(Predicate), order : Orders \cup {<<>>},
              limit : Int \cup {Unset}, offset : Int \cup {Unset},
              distinct : BOOLEAN, only : {"pk", "val", Unset}, loaders : BOOLEAN,
              deleted : {"exclude", "include", "only"}]
    /\ ~soft => qs.deleted = "exclude"

Picks(s) == {pk \in DOMAIN rows : Matches(pk, s, s.deleted) # {}}

Unsliced(s) == s.limit = Unset /\ s.offset = Unset

(* filter(q) and exclude(q) split the rows of a queryset in two, however q *)
(* was composed and whatever was filtered before.  The exceptions are the  *)
(* ones of SQL: a row on which a lookup of q is unknown, or that has       *)
(* nothing to join, is in neither; a row joined to several is perhaps in   *)
(* both.                                                                   *)
ExcludeComplements ==
    LET f == Filtered(qs, q)
        e == Excluded(qs, q)
        unknown(env) == \E leaf \in LeavesOf(q) :
                           Lookup(leaf.op, Column(leaf.path, env), leaf.arg) = "unknown"
    IN q # Unset /\ ~Fails(f) =>
        /\ Picks(f) \cup Picks(e) \subseteq Picks(qs)
        /\ \A pk \in Picks(qs) :
              /\ pk \in Picks(f) \cap Picks(e) =>
                    \E a, b \in Envs(pk, f, f.deleted) : a # b
              /\ pk \notin Picks(f) \cup Picks(e) =>
                    \A env \in Envs(pk, f, f.deleted) :
                        (\A j \in DOMAIN qs.where : Truth(qs.where[j], env) = "true")
                        => unknown(env)

(* A predicate that was sent as data and decoded under an allow-list picks *)
(* the rows it picked before; if decoding raises, the list does not permit *)
(* a lookup or a value is NULL; and what was decoded compiles, as the only *)
(* filter of a queryset, unless it compares with NULL, goes through        *)
(* relationships in a row, or through two to the same table.               *)
DecodedAlike ==
    q # Unset => \A allow \in {Unset, {leaf.path : leaf \in Leaves}} :
        LET sent  == FromData(ToData(q), allow)
            joins == UNION {JoinsOf(leaf.path) : leaf \in LeavesOf(q)}
        IN /\ sent # Unset /\ ~Fails(Filtered(qs, q)) =>
                 Picks(Filtered(qs, sent)) = Picks(Filtered(qs, q))
           /\ sent = Unset =>
                 \E leaf \in LeavesOf(q) : ~Permitted(leaf, allow) \/ Null \in Range(leaf.arg)
           /\ sent # Unset /\ Fails(Filtered(NewQuerySet, sent)) =>
                 \/ \E leaf \in LeavesOf(q) : leaf.arg = <<Null>> \/ Len(leaf.path) > 2
                 \/ \E j, k \in joins : j # k /\ Target[j] = Target[k]

Repeats(s) == \E pk \in DOMAIN rows : Cardinality(Matches(pk, s, s.deleted)) > 1

TotalOrder(s) == s.order # <<>> /\ EffectiveOrder(s.order) = s.order

(* The terminals of one queryset tell the same story: exists(), count(),   *)
(* first(), last(), get() and the pages of paginate() agree with all().    *)
(* It takes a queryset that is not sliced, for they replace limit and      *)
(* offset by their own; a to-many filter that repeats no row; and no       *)
(* deleted-mode, which count() loses.                                      *)
TerminalsAgree ==
    LET all  == All(qs)
        once == qs.only = Unset /\ (qs.distinct \/ ~Repeats(qs))
        total == TotalOrder(qs) /\ qs.only = Unset
    IN q = Unset /\ Unsliced(qs) /\ ~Fails(qs) =>
        /\ Exists(qs) = (all # <<>>)
        /\ once => (Len(GetOf(qs)) > 1) = (Len(all) > 1)
        /\ once /\ qs.deleted = "exclude" => Count(qs) = Len(all)
        /\ qs.deleted = "exclude" /\ ~qs.distinct => CountAggregate(qs) = Count(qs)
        /\ total /\ all = <<>> => FirstOf(qs) = <<>> /\ LastOf(qs) = <<>>
        /\ total /\ all # <<>> => FirstOf(qs) = <<Head(all)>> /\ LastOf(qs) = <<all[Len(all)]>>
        /\ once /\ total /\ qs.deleted = "exclude" =>
              LET pages == PageOf(qs, 1, 2).pages
              IN /\ FlattenSeq([n \in 1..pages |-> PageOf(qs, n, 2).items]) = all
                 /\ \A n \in 1..pages : PageOf(qs, n, 2).hasNext = (n < pages)

(* A builder that changes what a cached terminal would answer changes its  *)
(* key, so no queryset is given the answer of another.  The code fails in  *)
(* these cases: exists() with an offset, count() of a distinct projection, *)
(* and exists() with both, share their keys with the same queryset without.*)
KeysTellApart ==
    [][ /\ q = Unset /\ q' = Unset /\ ~Fails(qs) /\ ~Fails(qs') =>
            /\ CachesRows(qs) /\ CachesRows(qs') /\ ListKey(qs) = ListKey(qs') =>
                  All(qs) = All(qs')
            /\ ScalarKey(qs) = ScalarKey(qs') =>
                  /\ /\ qs.offset = qs'.offset
                     /\ ~qs.distinct \/ qs.only = qs'.only \/ qs.offset \in {Unset, 0}
                     => Exists(qs) = Exists(qs')
                  /\ ~qs.distinct \/ qs.only = qs'.only => Count(qs) = Count(qs')
        /\ q # Unset /\ q' # Unset /\ ToData(q) = ToData(q') /\ ~Fails(Filtered(qs, q)) =>
              Picks(Filtered(qs, q)) = Picks(Filtered(qs, q')) ]_queryVars
=============================================================================
