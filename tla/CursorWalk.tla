----------------------------- MODULE CursorWalk -----------------------------
(***************************************************************************)
(* QuerySet.cursor_paginate (query/queryset.py, query/cursor.py): a client *)
(* walks over a table by cursors, forwards and backwards, while other      *)
(* transactions insert, change and delete rows between its pages.          *)
(*                                                                         *)
(* The table is what the filters of the query select; a row that a to-many *)
(* traversal of the filters matches twice is in the answer of a statement  *)
(* twice.                                                                  *)
(*                                                                         *)
(* A cursor is made of what the statement of its page has read: each page  *)
(* is fetched in a session of its own, where no identity map answers with  *)
(* the columns of an earlier page.                                         *)
(***************************************************************************)
EXTENDS Ordering, FiniteSets

CONSTANTS Rows,       \* primary keys
          Values,     \* values of the nullable column
          Sizes,      \* page sizes
          None,       \* no page, no cursor
          Absent,     \* no such row
          MaxChanges  \* bound: changes of the table during a walk

ASSUME CursorAssumption ==
    /\ Rows \subseteq Nat /\ IsFiniteSet(Rows)
    /\ Values \subseteq Nat
    /\ Null \notin Nat /\ Absent \notin Nat /\ Absent # Null
    /\ Sizes \subseteq Nat \ {0}
    /\ Orders \subseteq Seq(OrderSpec)
    /\ None \notin [pk : Nat, val : Nat \cup {Null}]
    /\ MaxChanges \in Nat

VARIABLES table,      \* the column of every row, or Absent
          order,      \* the order of the query
          size,       \* the page size
          repeated,   \* rows the statement returns twice
          page,       \* the CursorPage the client has
          changes,    \* changes since the walk began
          \* What has happened, for the properties only:
          mark,       \* of every row, in the present direction: "seen",
                      \* "due" since the walk turned, or neither
          twice       \* rows returned a second time in one direction

walkVars == <<table, order, size, repeated, page, changes, mark, twice>>

Key == [pk : Rows, val : Values \cup {Null}]

KeyOf(r) == [pk |-> r, val |-> table[r]]

Present == {KeyOf(r) : r \in {s \in Rows : table[s] # Absent}}

Cursor == Key \cup {None}

Page == [items : SUBSET Key, next : Cursor, prev : Cursor,
         hasNext : BOOLEAN, hasPrev : BOOLEAN, backward : BOOLEAN]

NoPage == [items |-> {}, next |-> None, prev |-> None,
           hasNext |-> FALSE, hasPrev |-> FALSE, backward |-> FALSE]

Effective == EffectiveOrder(order)

Travel(backward) == IF backward THEN ReverseOrder(Effective) ELSE Effective

WalkInit ==
    /\ table \in [Rows -> Values \cup {Null, Absent}]
    /\ order \in Orders
    /\ size \in Sizes
    /\ repeated \in {{}, Rows}
    /\ page = None
    /\ changes = 0
    /\ mark = [r \in Rows |-> "free"]
    /\ twice = {}

-----------------------------------------------------------------------------
(* One page.                                                               *)

(* Variant: the comparison of a descending column is not turned round. *)
BeyondAscending(x, v, desc, backward) ==
    x # Null /\ (IF backward THEN x < v ELSE x > v)

(* c > v or c < v in SQL: not true of a NULL. *)
Beyond(x, v, desc, backward) ==
    x # Null /\ (IF desc = backward THEN x > v ELSE x < v)

(* Variant: the later columns are compared without their prefix. *)
SeekUnprefixed(key, cursor, backward) ==
    \E i \in DOMAIN Effective :
        LET c == Effective[i].col
        IN Beyond(key[c], cursor[c], Effective[i].desc, backward)

(* build_seek: strictly past the cursor in the direction of travel. *)
Seek(key, cursor, backward) ==
    LET o == Effective
    IN \E i \in DOMAIN o :
          /\ \A j \in DOMAIN o : j < i => key[o[j].col] = cursor[o[j].col]
          /\ Beyond(key[o[i].col], cursor[o[i].col], o[i].desc, backward)

(* A NULL in the cursor cannot be compared: SQLAlchemy refuses to build    *)
(* the predicate, decode_cursor to parse most types, and the call raises.  *)
Usable(cursor) ==
    cursor # None => \A i \in DOMAIN Effective : cursor[Effective[i].col] # Null

(* The rows of an answer that is cut after `limit' tuples. *)
TupleCount(S) == Cardinality(S) + Cardinality({k \in S : k.pk \in repeated})

Cut(o, limit, S, got) ==
    /\ got = S \/ TupleCount(got) >= limit
    /\ \A k \in got : TupleCount({l \in got : Precedes(o, l, k)}) < limit
    /\ Leading(o, got, S)

(* Variant: a full page says nothing of a successor. *)
RowLimitOfPage == size

(* One row too many shows that there is a next page. *)
RowLimit == size + 1

Extra(got) == Cardinality(got) > size

(* What is left of the rows, after unique(), without the one too many. *)
Kept(o, got) ==
    IF Extra(got)
    THEN {items \in SUBSET got : Cardinality(items) = size /\ Leading(o, items, got)}
    ELSE {got}

(* The cursors and flags of a page whose first and last rows, in the order *)
(* of the query, are first and last.                                       *)
MakePage(cursor, backward, items, extra, first, last) ==
    [items    |-> items,
     backward |-> backward,
     hasNext  |-> IF backward THEN items # {} ELSE extra,
     hasPrev  |-> IF backward THEN extra ELSE cursor # None,
     next     |-> IF items # {} /\ (backward \/ extra) THEN last ELSE None,
     prev     |-> IF items # {} /\ (IF backward THEN extra ELSE cursor # None)
                  THEN first ELSE None]

Firsts(items) == IF items = {} THEN {None} ELSE {a \in items : IsFirst(Effective, a, items)}
Lasts(items)  == IF items = {} THEN {None} ELSE {a \in items : IsLast(Effective, a, items)}

(* A new direction starts at the cursor: what lies beyond it is due.       *)
Ahead(cursor, backward) ==
    IF cursor = None THEN Present
    ELSE {k \in Present : Precedes(Travel(backward), cursor, k)}

Marks(cursor, backward, turned, items) ==
    [r \in Rows |->
        IF table[r] # Absent /\ KeyOf(r) \in items THEN "seen"
        ELSE IF turned
             THEN IF table[r] # Absent /\ KeyOf(r) \in Ahead(cursor, backward)
                  THEN "due" ELSE "free"
             ELSE mark[r]]

Fetch(cursor, backward) ==
    LET o == Travel(backward)
        S == {k \in Present : cursor # None => Seek(k, cursor, backward)}
        turned == page = None \/ page.backward # backward
    IN /\ Usable(cursor)
       /\ \E got \in SUBSET S :
             /\ Cut(o, RowLimit, S, got)
             /\ \E items \in Kept(o, got) :
                   /\ \E first \in Firsts(items), last \in Lasts(items) :
                         page' = MakePage(cursor, backward, items, Extra(got), first, last)
                   /\ mark' = Marks(cursor, backward, turned, items)
                   /\ twice' = twice \cup
                         IF turned THEN {}
                         ELSE {r \in Rows : mark[r] = "seen" /\ KeyOf(r) \in items}
       /\ UNCHANGED <<table, order, size, repeated, changes>>

FirstPage == page = None /\ Fetch(None, FALSE)

NextPage == page # None /\ page.next # None /\ Fetch(page.next, FALSE)

PrevPage == page # None /\ page.prev # None /\ Fetch(page.prev, TRUE)

(* The call raises and the client has no page to go on from. *)
Refused(cursor) ==
    /\ cursor # None /\ ~Usable(cursor)
    /\ page' = NoPage
    /\ mark' = [r \in Rows |-> "free"]
    /\ UNCHANGED <<table, order, size, repeated, changes, twice>>

RefusedPage == page # None /\ (Refused(page.next) \/ Refused(page.prev))

-----------------------------------------------------------------------------
(* Other transactions: INSERT, DELETE and soft delete, UPDATE.             *)

Change(r, x) ==
    /\ page # None /\ changes < MaxChanges
    /\ table[r] # x
    /\ table' = [table EXCEPT ![r] = x]
    /\ mark' = [mark EXCEPT ![r] = "free"]
    /\ changes' = changes + 1
    /\ UNCHANGED <<order, size, repeated, page, twice>>

InsertRow(r) == table[r] = Absent /\ \E x \in Values \cup {Null} : Change(r, x)
RemoveRow(r) == Change(r, Absent)
UpdateRow(r) == table[r] # Absent /\ \E x \in Values \cup {Null} : Change(r, x)

WalkNext ==
    \/ FirstPage \/ NextPage \/ PrevPage \/ RefusedPage
    \/ \E r \in Rows : InsertRow(r) \/ RemoveRow(r) \/ UpdateRow(r)

WalkSpec == WalkInit /\ [][WalkNext]_walkVars

-----------------------------------------------------------------------------
(* Properties.                                                             *)

WalkTypeOK ==
    /\ table \in [Rows -> Values \cup {Null, Absent}]
    /\ order \in Orders
    /\ size \in Sizes
    /\ repeated \subseteq Rows
    /\ page \in Page \cup {None}
    /\ changes \in Nat
    /\ mark \in [Rows -> {"seen", "due", "free"}]
    /\ twice \subseteq Rows

(* In one direction no row is on two pages, whatever is inserted, deleted  *)
(* or changed between the pages, unless that row itself was changed.       *)
NoRowTwice == twice = {}

(* NULLs that the seek predicate cannot see: val is compared. *)
NullsHidden == \E i \in DOMAIN Effective : Effective[i].col = "val"

(* A direction that ends, with has_next or has_prev false, has returned    *)
(* every row that lay ahead where it began and was not changed since.  The *)
(* code keeps this promise to rows without NULL, and only when no to-many  *)
(* filter repeats rows: there the extra row that shows a successor may be  *)
(* a copy that unique() drops.                                             *)
NoRowLost ==
    page # None /\ repeated = {} /\ (IF page.backward THEN ~page.hasPrev ELSE ~page.hasNext)
    => \A r \in Rows : mark[r] = "due" => NullsHidden /\ table[r] = Null

(* While nothing changes, has_next and has_prev are true exactly when rows *)
(* lie beyond the page, and come with a cursor that leads there.           *)
FlagsHonest ==
    page # None /\ page.items # {} /\ changes = 0 /\ repeated = {}
    /\ (NullsHidden => \A r \in Rows : table[r] # Null)
    => LET beyond(backward) ==
               {k \in Present : \A l \in page.items : Precedes(Travel(backward), l, k)}
       IN /\ page.hasNext = (beyond(FALSE) # {}) /\ page.hasNext = (page.next # None)
          /\ page.hasPrev = (beyond(TRUE) # {}) /\ page.hasPrev = (page.prev # None)
=============================================================================
