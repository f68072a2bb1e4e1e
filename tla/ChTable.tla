------------------------------ MODULE ChTable -------------------------------
(***************************************************************************)
(* A ClickHouse table under its repository (clickhouse/repository.py) and  *)
(* querysets (clickhouse/query.py): nothing is changed or removed, a row   *)
(* is deleted and restored by inserting another with its ORDER BY key, and *)
(* the server keeps the newest row of a key, when it merges or when FINAL  *)
(* asks for it.  The clock is the process's, with the three decimal digits *)
(* of DateTime64(3), so two writes may carry the same time.                *)
(***************************************************************************)
EXTENDS Naturals, FiniteSets

CONSTANTS Writers,
          Keys,       \* values of the ORDER BY columns: pairs of numbers
          Bodies,     \* values of the other column; 0 is its zero value
          Nothing,    \* no write in progress, no row
          MaxTime,    \* bound: ticks of the clock
          MaxWrites   \* bound: writes

Row == [key : Keys, body : Bodies \cup {0}, isDeleted : BOOLEAN, deletedAt : BOOLEAN,
        version : 0..MaxTime]

Write == [rows : SUBSET Row,     \* of one insert, of different keys
          again : SUBSET Keys,   \* keys of those that were read and come again
          alone : SUBSET Keys]   \* keys that no other insert has overlapped

ASSUME TableAssumption ==
    /\ Keys \subseteq Nat \X Nat /\ IsFiniteSet(Keys)
    /\ Bodies \subseteq Nat \ {0}
    /\ MaxTime \in Nat \ {0} /\ MaxWrites \in Nat
    /\ Nothing \notin Row /\ Nothing \notin Write

VARIABLES engine,     \* "plain", "replacing"; "soft" with soft delete, and
                      \* "versioned" with a version column of the user's too
          stored,     \* the physical rows
          clock,
          read,       \* an instance that the program keeps from a query
          write,      \* the insert that every writer is waiting for
          writes,     \* writes so far
          arrivals,   \* inserts that reached the server
          \* What has happened, for the properties only:
          last,       \* of every key: the last write that arrived and was
                      \* not an instance older than what is stored
          contested   \* keys whose last writes overlapped, or failed

tableVars == <<engine, stored, clock, read, write, writes, arrivals, last, contested>>

Soft == engine \in {"soft", "versioned"}

TableInit ==
    /\ engine \in {"plain", "replacing", "soft", "versioned"}
    /\ stored = {}
    /\ clock = 1
    /\ read = Nothing
    /\ write = [w \in Writers |-> Nothing]
    /\ writes = 0 /\ arrivals = 0
    /\ last = [k \in Keys |-> Nothing]
    /\ contested = {}

-----------------------------------------------------------------------------
(* The server.                                                             *)

(* The row of S that replaces the others: highest version, then latest.    *)
Newest(S) ==
    CHOOSE r \in S : \A s \in S \ {r} :
        r.version > s.version \/ (r.version = s.version /\ r.seq > s.seq)

OfKey(k) == {r \in stored : r.key = k}

Collapsed == {Newest(OfKey(k)) : k \in {r.key : r \in stored}}

(* A background merge of some rows of one key. *)
Merge ==
    /\ engine # "plain"
    /\ \E S \in SUBSET stored :
          /\ Cardinality(S) > 1 /\ \E k \in Keys : S \subseteq OfKey(k)
          /\ stored' = (stored \ S) \cup {Newest(S)}
    /\ UNCHANGED <<engine, clock, read, write, writes, arrivals, last, contested>>

-----------------------------------------------------------------------------
(* Querysets and their terminals.                                          *)

DefaultQuerySet == [deleted |-> "exclude", final |-> Soft]

WithDeleted == [deleted |-> "include", final |-> FALSE]
OnlyDeleted == [deleted |-> "only", final |-> FALSE]
Final(qs)   == [qs EXCEPT !.final = TRUE]

(* FINAL takes tombstones out before the filter on deleted_at is asked.    *)
Selected(qs) ==
    {r \in IF qs.final THEN {c \in Collapsed : ~c.isDeleted} ELSE stored :
        \/ ~Soft \/ qs.deleted = "include"
        \/ r.deletedAt = (qs.deleted = "only")}

Count(qs)  == Cardinality(Selected(qs))
Exists(qs) == Selected(qs) # {}

(* get_or_none(key columns): more than one row raises. *)
GetOrNone(qs, k) == {r \in Selected(qs) : r.key = k}

(* The instance made of a row has all its columns.  All rows can be read:  *)
(* with_deleted() asks neither for FINAL nor about tombstones.  (The bound *)
(* on writes ends its use: with the last of them, nothing is kept.)        *)
Read ==
    /\ writes < MaxWrites
    /\ \E r \in Selected(WithDeleted) :
          read' = [key |-> r.key, body |-> r.body, isDeleted |-> r.isDeleted,
                   deletedAt |-> r.deletedAt, version |-> r.version]
    /\ UNCHANGED <<engine, stored, clock, write, writes, arrivals, last, contested>>

-----------------------------------------------------------------------------
(* Inserts: the values of a row are settled when the call begins, and the  *)
(* row arrives, or the call fails, after the awaits.                       *)

(* The column defaults, of what an instance has no value for: _version is  *)
(* the time, is_deleted 0.                                                 *)
NewRow(k, body) ==
    [key |-> k, body |-> body, isDeleted |-> FALSE, deletedAt |-> FALSE,
     version |-> IF engine \in {"plain", "replacing"} THEN 0 ELSE clock]

(* An instance that was read, with another body, has values for all.       *)
Again(body) == [read EXCEPT !.body = body]

(* Variant: the marker takes the zero value of the version column. *)
MarkerUnstamped(k, deleted) ==
    [key |-> k, body |-> 0, isDeleted |-> deleted, deletedAt |-> deleted, version |-> 0]

(* _tombstone: columns that are neither in the key nor in the lookups get  *)
(* their zero value.  The time goes to _version, even when the engine      *)
(* compares another column.                                                *)
Marker(k, deleted) ==
    [key |-> k, body |-> 0, isDeleted |-> deleted, deletedAt |-> deleted,
     version |-> IF engine = "versioned" THEN 0 ELSE clock]

InProgress(k) == \E w \in Writers : write[w] # Nothing /\ \E r \in write[w].rows : r.key = k

Send(w, rows, again) ==
    LET keys == {r.key : r \in rows}
    IN /\ write[w] = Nothing
       /\ writes < MaxWrites
       /\ write' = [v \in Writers |->
              IF v = w THEN [rows |-> rows, again |-> again,
                             alone |-> {k \in keys : ~InProgress(k)}]
              ELSE IF write[v] = Nothing THEN Nothing
              ELSE [rows |-> write[v].rows, again |-> write[v].again,
                    alone |-> write[v].alone \ keys]]
       /\ writes' = writes + 1
       /\ read' = IF writes' = MaxWrites THEN Nothing ELSE read
       /\ UNCHANGED <<engine, stored, clock, arrivals, last, contested>>

(* insert and bulk_insert; the default of _version is a time of its own.   *)
Insert(w) ==
    \E keys \in SUBSET Keys \ {{}}, body \in Bodies :
        \/ Send(w, {NewRow(k, body) : k \in keys}, {})
        \/ /\ read # Nothing /\ read.key \in keys
           /\ Send(w, {Again(body)} \cup {NewRow(k, body) : k \in keys \ {read.key}}, {read.key})

(* delete and restore: lookups give some columns of the key, and one that  *)
(* misses a column of it is refused.                                       *)
Mark(w, deleted) ==
    /\ Soft
    /\ \E k \in Keys, given \in SUBSET {1, 2} :
          /\ {1, 2} \subseteq given
          /\ Send(w, {Marker([i \in {1, 2} |-> IF i \in given THEN k[i] ELSE 0], deleted)}, {})

Delete(w)  == Mark(w, TRUE)
Restore(w) == Mark(w, FALSE)

Stored(w) ==
    stored \cup {[key |-> r.key, body |-> r.body, isDeleted |-> r.isDeleted, version |-> r.version,
                  deletedAt |-> r.deletedAt, seq |-> arrivals] : r \in write[w].rows}

KeysOf(w) == {r.key : r \in write[w].rows}

RowFor(w, k) == CHOOSE r \in write[w].rows : r.key = k

(* Keys whose row is older than one that is stored: it was read before.    *)
Overtaken(w) ==
    {k \in write[w].again : \E s \in OfKey(k) : s.version > RowFor(w, k).version}

Arrive(w) ==
    /\ write[w] # Nothing
    /\ stored' = Stored(w)
    /\ arrivals' = arrivals + 1
    /\ last' = [k \in Keys |-> IF k \in KeysOf(w) \ Overtaken(w) THEN RowFor(w, k) ELSE last[k]]
    /\ contested' = (contested \cup (KeysOf(w) \ write[w].alone))
                       \ (write[w].alone \ Overtaken(w))
    /\ write' = [write EXCEPT ![w] = Nothing]
    /\ UNCHANGED <<engine, clock, read, writes>>

(* The call raises; the rows have arrived or they have not. *)
Fail(w) ==
    /\ write[w] # Nothing
    /\ stored' \in {stored, Stored(w)}
    /\ arrivals' = arrivals + 1
    /\ contested' = contested \cup KeysOf(w)
    /\ write' = [write EXCEPT ![w] = Nothing]
    /\ UNCHANGED <<engine, clock, read, writes, last>>

(* cleanup: OPTIMIZE TABLE ... FINAL CLEANUP *)
Cleanup ==
    /\ Soft
    /\ stored' = {r \in Collapsed : ~r.isDeleted}
    /\ UNCHANGED <<engine, clock, read, write, writes, arrivals, last, contested>>

Tick ==
    /\ clock < MaxTime
    /\ clock' = clock + 1
    /\ UNCHANGED <<engine, stored, read, write, writes, arrivals, last, contested>>

TableNext ==
    \/ \E w \in Writers : Insert(w) \/ Delete(w) \/ Restore(w) \/ Arrive(w) \/ Fail(w)
    \/ Read \/ Cleanup \/ Merge \/ Tick

TableSpec == TableInit /\ [][TableNext]_tableVars

-----------------------------------------------------------------------------
(* Properties.                                                             *)

TableTypeOK ==
    /\ \A r \in stored : r.seq < arrivals /\ \A s \in stored : r.seq = s.seq /\ r.key = s.key => r = s
    /\ write \in [Writers -> Write \cup {Nothing}]
    /\ read \in Row \cup {Nothing}
    /\ \A k \in Keys : last[k] \in Row \cup {Nothing}
    /\ clock \in 1..MaxTime /\ arrivals <= writes

(* A query finds of every key what was written last, whatever was merged   *)
(* and cleaned up: nothing after delete(), one row, never two, after an    *)
(* insert or restore() (which brings the key back and not its body), and   *)
(* only_deleted() and with_deleted() see no less.  The queries of a model  *)
(* without soft delete do so with FINAL.  It takes writes to the key that  *)
(* do not overlap and did not fail, for the earlier of two may carry the   *)
(* later time or a failed one be stored; and an engine that compares       *)
(* _version, since delete() sets no version column of the user's.  And an  *)
(* insert counts as the last write if it is new: an instance that was read *)
(* keeps its _version, and when a newer row of the key is stored, an       *)
(* insert of it changes nothing that a query finds, without an error.      *)
ViewIsLastWrite ==
    \A k \in Keys \ contested :
        LET found == GetOrNone(Final(DefaultQuerySet), k)
            kept  == GetOrNone(WithDeleted, k)
        IN /\ engine \in {"soft", "replacing"} =>
                 IF last[k] = Nothing \/ last[k].isDeleted THEN found = {}
                 ELSE Cardinality(found) = 1 /\ \A r \in found : r.body = last[k].body
           /\ engine = "soft" =>
                 /\ found = GetOrNone(DefaultQuerySet, k)
                 /\ found \cup GetOrNone(OnlyDeleted, k) \subseteq kept
                 /\ last[k] # Nothing /\ ~Exists(WithDeleted) => last[k].isDeleted
                 /\ Count(DefaultQuerySet) <= Cardinality(Keys)
=============================================================================
