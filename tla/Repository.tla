----------------------------- MODULE Repository -----------------------------
(***************************************************************************)
(* The writes of Repository (repository/base.py) and of QuerySet           *)
(* (query/queryset.py) on one table, by units of work that run at the same *)
(* time: optimistic locking, soft delete, get_or_create, set-based writes. *)
(*                                                                         *)
(* A unit is a task with at most one session.  Its scope is a UnitOfWork   *)
(* block, or the session that one repository call opens for itself.  All   *)
(* rows carry the one natural key that get_or_create looks up.             *)
(*                                                                         *)
(* The database is PostgreSQL at READ COMMITTED: a statement sees what is  *)
(* committed and what its own transaction wrote, and waits for a row that  *)
(* another transaction has written.                                        *)
(***************************************************************************)
EXTENDS Naturals, FiniteSets

CONSTANTS Units,      \* tasks that use the repository
          Rows,       \* primary keys
          Models,     \* what the table may be
          None,       \* no scope, nothing drafted, no object held
          MaxOps,     \* bound: calls that write, for each model
          Keys        \* bound: primary keys that occur, for each model

Model == [versioned : BOOLEAN, soft : BOOLEAN, unique : BOOLEAN]

(* What wrote the value of a row. *)
Kinds == {"create", "update", "bulk", "upsert", "rejected"}

Row == [ver : Nat, dead : BOOLEAN, val : Nat, by : Kinds]

ASSUME RepositoryAssumption ==
    /\ Models \subseteq Model
    /\ MaxOps \in [Models -> Nat]
    /\ Keys \in [Models -> SUBSET Rows]
    /\ None \notin Rows \cup Row \cup {"call", "block"}

VARIABLES model,      \* Meta of the mapped class
          rows,       \* committed rows
          scope,      \* the scope a unit is in
          draft,      \* what the open transaction of a unit has written
          held,       \* identity map of the session of a unit
          dirty,      \* objects assigned in the session and not flushed
          known,      \* what the application keeps of its earlier reads
          op,         \* the repository call in progress
          ops,        \* calls that write so far: numbers the values written
          \* What has happened, for the properties only:
          lost,       \* kinds of writes overwritten by an update that missed them
          restarted,  \* rows whose versions do not go on: they were physically
                      \* deleted, or a statement wrote another version
          bulked,     \* rows written by a set-based statement
          serial,     \* one scope at a time, and no row came to life but after
                      \* a lookup of its key
          swallowed,  \* a block went on after a rejected update
          dreamt      \* <<u, r>>: u keeps a version of r that was not committed

data    == <<rows, scope, draft, held, dirty>>
history == <<lost, restarted, bulked, serial, swallowed, dreamt>>
vars    == <<model, data, known, op, ops, history>>

-----------------------------------------------------------------------------
(* Rows, transactions and sessions.                                        *)

Gone == [ver |-> 0, dead |-> FALSE, val |-> 0, by |-> "create"]

NewRow(n, kind) == [ver |-> 1, dead |-> FALSE, val |-> n, by |-> kind]

Idle == [name |-> "idle", row |-> None, base |-> 0, n |-> 0]
Done == [name |-> "done", row |-> None, base |-> 0, n |-> 0]

IsLive(row) == row # Gone /\ ~row.dead

(* What a statement of u reads of r. *)
Visible(u, r) == IF draft[u][r] = None THEN rows[r] ELSE draft[u][r]

LockedByOther(u, r) == \E v \in Units \ {u} : draft[v][r] # None

(* The tombstones a SELECT returns under the deleted-mode of a statement. *)
Shows(row, mode) ==
    /\ row # Gone
    /\ CASE mode = "exclude" -> ~row.dead
         [] mode = "only"    -> row.dead
         [] mode = "include" -> TRUE

(* session.get: the identity map answers first, and no deleted-mode is     *)
(* applied to what it answers.                                             *)
Fetch(u, r, mode) ==
    IF held[u][r] # None THEN held[u][r]
    ELSE IF Shows(Visible(u, r), mode) THEN Visible(u, r) ELSE Gone

Nothing == [r \in Rows |-> None]

Init ==
    /\ model \in Models
    /\ rows \in [Rows -> {Gone, NewRow(0, "create")}]
    /\ \A r \in Rows \ Keys[model] : rows[r] = Gone
    /\ model.unique => Cardinality({r \in Rows : rows[r] # Gone}) <= 1
    /\ \A r, s \in Rows : r # s => ~(IsLive(rows[r]) /\ IsLive(rows[s]))
    /\ scope = [u \in Units |-> None]
    /\ draft = [u \in Units |-> Nothing]
    /\ held = [u \in Units |-> Nothing]
    /\ dirty = [u \in Units |-> {}]
    /\ known = [u \in Units |-> [r \in Rows |-> Gone]]
    /\ op = [u \in Units |-> Idle]
    /\ ops = 0
    /\ lost = {} /\ restarted = {} /\ bulked = {} /\ dreamt = {}
    /\ serial = TRUE /\ swallowed = FALSE

-----------------------------------------------------------------------------
(* Sessions end by a commit or by a rollback.                              *)

(* Variant: the identity map outlives its session. *)
CloseSessionLeaky(u) ==
    /\ scope' = [scope EXCEPT ![u] = None]
    /\ draft' = [draft EXCEPT ![u] = Nothing]
    /\ dirty' = [dirty EXCEPT ![u] = {}]
    /\ op' = [op EXCEPT ![u] = Idle]
    /\ UNCHANGED held

CloseSession(u) ==
    /\ scope' = [scope EXCEPT ![u] = None]
    /\ draft' = [draft EXCEPT ![u] = Nothing]
    /\ held' = [held EXCEPT ![u] = Nothing]
    /\ dirty' = [dirty EXCEPT ![u] = {}]
    /\ op' = [op EXCEPT ![u] = Idle]

(* The session is rolled back and closed: an exception left the scope.     *)
Rollback(u) ==
    /\ CloseSession(u)
    /\ UNCHANGED rows

(* The scope a unit is in, or a new one. *)
Open(u, kind) ==
    scope' = [scope EXCEPT ![u] = IF @ = None THEN kind ELSE @]

Alone(u) == \A v \in Units \ {u} : scope[v] = None

EnterBlock(u) ==
    /\ scope[u] = None
    /\ Open(u, "block")
    /\ serial' = (serial /\ Alone(u))
    /\ UNCHANGED <<model, rows, draft, held, dirty, known, op, ops, lost,
                   restarted, bulked, swallowed, dreamt>>

(* The scope ends without an exception.  What is dirty was flushed.        *)
Commit(u) ==
    /\ \/ scope[u] = "call" /\ op[u].name = "done"
       \/ scope[u] = "block" /\ op[u] = Idle
    /\ dirty[u] = {}
    /\ rows' = [r \in Rows |-> Visible(u, r)]
    /\ CloseSession(u)
    /\ dreamt' = dreamt \ {<<u, r>> : r \in {s \in Rows : known[u][s] = draft[u][s]}}
    /\ UNCHANGED <<model, known, ops, lost, restarted, bulked, serial,
                   swallowed>>

(* The application, a handler or the database raises, here or in a wait    *)
(* for a lock (deadlock, timeout, lost connection).                        *)
Fail(u) ==
    /\ scope[u] # None
    /\ Rollback(u)
    /\ UNCHANGED <<model, known, ops, history>>

(* A call opens a session of its own unless it is in a block, and after a  *)
(* call the block goes on.  Statements flush first what is dirty.          *)
Ready(u) == op[u] = Idle /\ dirty[u] = {} /\ ops < MaxOps[model]

Start(u, name, r, base) ==
    /\ Ready(u)
    /\ Open(u, "call")
    /\ serial' = (serial /\ Alone(u) /\ name \notin {"create", "restore"})
    /\ op' = [op EXCEPT ![u] = [name |-> name, row |-> r, base |-> base, n |-> ops + 1]]
    /\ ops' = ops + 1

Turn(u, name, r, base) ==
    op' = [op EXCEPT ![u] = [name |-> name, row |-> r, base |-> base, n |-> @.n]]

AfterCall(u) == [op EXCEPT ![u] = IF scope[u] = "block" THEN Idle ELSE Done]

-----------------------------------------------------------------------------
(* Reads.                                                                  *)

(* Repository.get: the query decides whether there is a row, the identity  *)
(* map what the application sees of it.                                    *)
Get(u, r) ==
    /\ op[u] = Idle /\ dirty[u] = {}
    /\ IsLive(Visible(u, r))
    /\ LET row == IF held[u][r] = None THEN Visible(u, r) ELSE held[u][r]
       IN /\ known' = [known EXCEPT ![u][r] = row]
          /\ held' = IF scope[u] = "block"
                     THEN [held EXCEPT ![u][r] = row] ELSE held
    /\ dreamt' = IF draft[u][r] = None THEN dreamt \ {<<u, r>>}
                 ELSE dreamt \cup {<<u, r>>}
    /\ UNCHANGED <<model, rows, scope, draft, dirty, op, ops, lost, restarted, bulked,
                   serial, swallowed>>

(* The identity map is weak: an object nobody refers to is dropped.        *)
Forget(u, r) ==
    /\ held[u][r] # None /\ op[u] = Idle /\ dirty[u] = {}
    /\ held' = [held EXCEPT ![u][r] = None]
    /\ UNCHANGED <<model, rows, scope, draft, dirty, known, op, ops, history>>

-----------------------------------------------------------------------------
(* Single-row writes: session.get and the checks, then the flush.          *)

(* The checks of update, delete, restore and hard_delete on what           *)
(* session.get returned.  Only delete looks at deleted_at of an object the *)
(* identity map may have kept.                                             *)
Accepts(name, row) ==
    /\ row # Gone
    /\ name = "delete" /\ model.soft => ~row.dead
    /\ name = "restore" => model.soft /\ row.dead

LoadMode(name) ==
    IF name \in {"restore", "hard_delete"} THEN "include" ELSE "exclude"

(* _assert_version *)
VersionIs(row, expected) == model.versioned /\ row.ver = expected

Load(u, name, r, expect) ==
    LET row == Fetch(u, r, LoadMode(name))
    IN /\ Accepts(name, row)
       /\ expect => /\ known[u][r] # Gone
                    /\ VersionIs(row, known[u][r].ver)
       /\ Start(u, name, r, IF expect THEN known[u][r].val ELSE row.val)
       /\ held' = [held EXCEPT ![u][r] = row]
       /\ UNCHANGED <<model, rows, draft, dirty, known, lost, restarted, bulked,
                      swallowed, dreamt>>

(* Variant: session_scope commits although the call raised. *)
RejectCommitting(u) ==
    /\ op[u].name = "update"
    /\ dirty' = [dirty EXCEPT ![u] = {[row |-> op[u].row, n |-> op[u].n]}]
    /\ op' = AfterCall(u)
    /\ swallowed' = (swallowed \/ scope[u] = "block")
    /\ UNCHANGED <<model, rows, scope, draft, held, known, ops, lost, restarted,
                   bulked, serial, dreamt>>

(* A value fails its validation after another one was assigned, or a       *)
(* pre_update handler raises: the object stays assigned.  Outside a block  *)
(* the session is rolled back; in a block the application may go on.       *)
Reject(u) ==
    /\ op[u].name = "update"
    /\ \/ /\ Rollback(u)
          /\ UNCHANGED swallowed
       \/ /\ scope[u] = "block"
          /\ swallowed' = TRUE
          /\ dirty' = [dirty EXCEPT ![u] = {[row |-> op[u].row, n |-> op[u].n]}]
          /\ op' = [op EXCEPT ![u] = Idle]
          /\ UNCHANGED <<rows, scope, draft, held>>
    /\ UNCHANGED <<model, known, ops, lost, restarted, bulked, serial, dreamt>>

(* Variant: version_id_col is not set on the mapper. *)
MatchesAny(current, object) == current # Gone

(* UPDATE and DELETE of a mapped object: WHERE pk, and the version.        *)
Matches(current, object) ==
    /\ current # Gone
    /\ model.versioned => current.ver = object.ver

(* Variant: tombstones and restored rows keep their version. *)
AssignedUncounted(name, row, n) ==
    [ver  |-> IF model.versioned /\ name = "update" THEN row.ver + 1 ELSE row.ver,
     dead |-> IF name = "delete" THEN TRUE
              ELSE IF name = "restore" THEN FALSE ELSE row.dead,
     val  |-> IF name \in {"update", "rejected"} THEN n ELSE row.val,
     by   |-> IF name \in {"update", "rejected"} THEN name ELSE row.by]

(* The columns an UPDATE writes: those that were assigned, and _version.   *)
Assigned(name, row, n) ==
    [ver  |-> IF model.versioned THEN row.ver + 1 ELSE row.ver,
     dead |-> IF name = "delete" THEN TRUE
              ELSE IF name = "restore" THEN FALSE ELSE row.dead,
     val  |-> IF name \in {"update", "rejected"} THEN n ELSE row.val,
     by   |-> IF name \in {"update", "rejected"} THEN name ELSE row.by]

Missed(u, r, base) ==
    IF Visible(u, r).val # base /\ <<u, r>> \notin dreamt
    THEN lost \cup {<<r, Visible(u, r).by>>} ELSE lost

(* Variant: an UPDATE writes every column of the object. *)
WriteWholeRow(u, r, name, n) ==
    LET object == held[u][r]
    IN /\ ~LockedByOther(u, r)
       /\ Matches(Visible(u, r), object)
       /\ draft' = [draft EXCEPT ![u][r] = Assigned(name, object, n)]
       /\ held' = [held EXCEPT ![u][r] = Assigned(name, object, n)]

WriteRow(u, r, name, n) ==
    LET object == held[u][r]
    IN /\ ~LockedByOther(u, r)
       /\ Matches(Visible(u, r), object)
       /\ draft' = [draft EXCEPT ![u][r] = Assigned(name, Visible(u, r), n)]
       /\ held' = [held EXCEPT ![u][r] = Assigned(name, object, n)]

FlushUpdate(u) ==
    /\ \/ op[u].name \in {"update", "restore"}
       \/ op[u].name = "delete" /\ model.soft
    /\ WriteRow(u, op[u].row, op[u].name, op[u].n)
    /\ lost' = IF op[u].name = "update" THEN Missed(u, op[u].row, op[u].base) ELSE lost
    /\ op' = AfterCall(u)
    /\ UNCHANGED <<model, rows, scope, dirty, known, ops, restarted, bulked,
                   serial, swallowed, dreamt>>

(* The flush that the next statement, or the commit, makes of an object    *)
(* left assigned.                                                          *)
FlushDirty(u) ==
    \E d \in dirty[u] :
        /\ WriteRow(u, d.row, "rejected", d.n)
        /\ dirty' = [dirty EXCEPT ![u] = @ \ {d}]
        /\ UNCHANGED <<model, rows, scope, known, op, ops, history>>

Removes(name) == name = "hard_delete" \/ (name = "delete" /\ ~model.soft)

(* A DELETE that matches no row is an error for a versioned model only.    *)
FlushRemove(u) ==
    LET r == op[u].row
    IN /\ Removes(op[u].name)
       /\ ~LockedByOther(u, r)
       /\ model.versioned => Matches(Visible(u, r), held[u][r])
       /\ draft' = IF Visible(u, r) = Gone THEN draft
                   ELSE [draft EXCEPT ![u][r] = Gone]
       /\ held' = [held EXCEPT ![u][r] = None]
       /\ restarted' = restarted \cup {r}
       /\ op' = AfterCall(u)
       /\ UNCHANGED <<model, rows, scope, dirty, known, ops, lost, bulked, serial,
                      swallowed, dreamt>>

(* _flush_or_conflict: StaleDataError rolls the transaction back.          *)
Conflict(u) ==
    \E r \in Rows :
        /\ ~LockedByOther(u, r)
        /\ \/ /\ op[u].row = r
              /\ op[u].name \in {"update", "delete", "restore", "hard_delete"}
              /\ Removes(op[u].name) => model.versioned
           \/ \E d \in dirty[u] : d.row = r
        /\ ~Matches(Visible(u, r), held[u][r])
        /\ Rollback(u)
        /\ UNCHANGED <<model, known, ops, history>>

-----------------------------------------------------------------------------
(* Inserts.                                                                *)

(* Variant: the lookup runs in a session of its own, block or not. *)
KeyedCommitted(u) == {r \in Rows : IsLive(rows[r])}

Keyed(u) == {r \in Rows : IsLive(Visible(u, r))}

(* create, add, bulk_create *)
Create(u, r) ==
    /\ Start(u, "create", r, 0)
    /\ UNCHANGED <<model, rows, draft, held, dirty, known, lost, restarted, bulked,
                   swallowed, dreamt>>

(* get_or_create and update_or_create look the key up.  Outside a block    *)
(* the lookup's session is closed before the next one is opened.           *)
LookupMisses(u, r) ==
    /\ Keyed(u) = {}
    /\ Start(u, "create_missing", r, 0)
    /\ UNCHANGED <<model, rows, draft, held, dirty, known, lost, restarted, bulked,
                   swallowed, dreamt>>

LookupFinds(u, r) ==
    /\ Keyed(u) = {r}
    /\ Start(u, "update_found", r, 0)
    /\ held' = IF scope[u] = "block" /\ held[u][r] = None
               THEN [held EXCEPT ![u][r] = Visible(u, r)] ELSE held
    /\ UNCHANGED <<model, rows, draft, dirty, known, lost, restarted, bulked,
                   swallowed, dreamt>>

(* update_or_create: the update of the row it found, or, when that row has *)
(* vanished, the creation of another.                                      *)
UpdateFound(u) ==
    LET r   == op[u].row
        row == Fetch(u, r, "exclude")
    IN /\ op[u].name = "update_found"
       /\ \/ /\ row # Gone
             /\ Turn(u, "update", r, row.val)
             /\ held' = [held EXCEPT ![u][r] = row]
          \/ /\ row = Gone
             /\ \E s \in Keys[model] : Turn(u, "create_missing", s, 0)
             /\ UNCHANGED held
       /\ UNCHANGED <<model, rows, scope, draft, dirty, known, ops, history>>

(* The primary key, and the natural key of a unique model, are unique      *)
(* among physical rows, tombstones included; an uncommitted insert is      *)
(* waited for.                                                             *)
Rivals(r) == IF model.unique THEN Rows ELSE {r}

Taken(u, r) == \E s \in Rivals(r) : Visible(u, s) # Gone

FlushInsert(u) ==
    LET r == op[u].row
    IN /\ op[u].name \in {"create", "create_missing"}
       /\ \A s \in Rivals(r) : ~LockedByOther(u, s)
       /\ ~Taken(u, r)
       /\ draft' = [draft EXCEPT ![u][r] = NewRow(op[u].n, "create")]
       /\ held' = [held EXCEPT ![u][r] = NewRow(op[u].n, "create")]
       /\ op' = AfterCall(u)
       /\ UNCHANGED <<model, rows, scope, dirty, known, ops, lost, restarted,
                      bulked, serial, swallowed, dreamt>>

IntegrityError(u) ==
    /\ op[u].name \in {"create", "create_missing"}
    /\ \A s \in Rivals(op[u].row) : ~LockedByOther(u, s)
    /\ Taken(u, op[u].row)
    /\ Rollback(u)
    /\ UNCHANGED <<model, known, ops, history>>

-----------------------------------------------------------------------------
(* Set-based writes: one statement, no version check and no increment, and *)
(* the identity map is not told (synchronize_session=False).               *)

(* Only some columns are sent: those of a QuerySet.update or bulk_update,  *)
(* of update_fields, or of an instance that was not read from the table.   *)

Bulk(row, n) == [ver |-> row.ver, dead |-> row.dead, val |-> n, by |-> "bulk"]

(* All columns of an instance that was read are sent, and among them the   *)
(* _version and the deleted_at it was read with.                           *)
Whole(object, n) == [object EXCEPT !.val = n, !.by = "upsert"]

(* The instances a unit has of a row: one it read, one its session holds.  *)
Instances(u, r) == {known[u][r], held[u][r]} \ {Gone, None}

Stamped(row) == [ver |-> row.ver, dead |-> TRUE, val |-> row.val, by |-> row.by]

(* after[r] is what the statement makes of the row r.                      *)
Statement(u, after) ==
    /\ Ready(u)
    /\ \A r \in DOMAIN after : ~LockedByOther(u, r)
    /\ Open(u, "call")
    /\ draft' = [draft EXCEPT ![u] =
                    [r \in Rows |-> IF r \in DOMAIN after THEN after[r] ELSE @[r]]]
    /\ bulked' = bulked \cup DOMAIN after
    /\ restarted' = restarted \cup
           {r \in DOMAIN after : Visible(u, r) # Gone /\ after[r].ver # Visible(u, r).ver}
    /\ serial' = (serial /\ Alone(u) /\
           \A r \in DOMAIN after : IsLive(after[r]) => IsLive(Visible(u, r)))
    /\ op' = AfterCall(u)
    /\ ops' = ops + 1
    /\ UNCHANGED <<model, rows, held, dirty, known, lost, swallowed, dreamt>>

Matching(u, mode) == {r \in Rows : Shows(Visible(u, r), mode)}

Modes == IF model.soft THEN {"exclude", "include", "only"} ELSE {"exclude"}

(* QuerySet.update, update_all *)
UpdateAll(u) ==
    \E mode \in Modes :
        Statement(u, [r \in Matching(u, mode) |-> Bulk(Visible(u, r), ops + 1)])

(* QuerySet.delete, delete_all *)
DeleteAll(u) ==
    \E mode \in Modes :
        Statement(u, [r \in Matching(u, mode) |->
                         IF model.soft THEN Stamped(Visible(u, r)) ELSE Gone])

(* QuerySet.hard_delete *)
HardDeleteAll(u) ==
    \E mode \in Modes : Statement(u, [r \in Matching(u, mode) |-> Gone])

(* bulk_update of one row: by primary key, tombstones included.  A         *)
(* versioned mapper's bulk path also wants the version, which bulk_update  *)
(* does not send.                                                          *)
BulkUpdate(u, r) ==
    /\ ~model.versioned
    /\ Statement(u, [s \in {r} \cap Matching(u, "include") |->
                        Bulk(Visible(u, s), ops + 1)])

(* bulk_upsert with the primary key as conflict target: an INSERT, or an   *)
(* UPDATE of the physical row, or nothing (ignore_conflicts, no lock       *)
(* taken).  It knows nothing of tombstones and versions: an instance that  *)
(* was read earlier writes back what it has of both.                       *)
Upsert(u, r) ==
    \/ /\ Visible(u, r) # Gone
       /\ \/ Statement(u, [s \in {r} |-> Bulk(Visible(u, s), ops + 1)])
          \/ \E object \in Instances(u, r) :
                Statement(u, [s \in {r} |-> Whole(object, ops + 1)])
          \/ Statement(u, [s \in {} |-> Gone])
    \/ /\ ~Taken(u, r)
       /\ \A s \in Rivals(r) : ~LockedByOther(u, s)
       /\ \/ Statement(u, [s \in {r} |-> NewRow(ops + 1, "bulk")])
          \/ \E object \in Instances(u, r) :
                Statement(u, [s \in {r} |-> Whole(object, ops + 1)])

-----------------------------------------------------------------------------
SingleRow(u) ==
    \/ \E r \in Keys[model], expect \in BOOLEAN, name \in {"update", "delete"} :
          Load(u, name, r, expect)
    \/ \E r \in Keys[model], name \in {"restore", "hard_delete"} : Load(u, name, r, FALSE)
    \/ Reject(u) \/ FlushUpdate(u) \/ FlushDirty(u) \/ FlushRemove(u) \/ Conflict(u)

Inserts(u) ==
    \/ \E r \in Keys[model] : Create(u, r) \/ LookupMisses(u, r) \/ LookupFinds(u, r)
    \/ UpdateFound(u) \/ FlushInsert(u) \/ IntegrityError(u)

SetBased(u) ==
    \/ UpdateAll(u) \/ DeleteAll(u) \/ HardDeleteAll(u)
    \/ \E r \in Keys[model] : BulkUpdate(u, r) \/ Upsert(u, r)

Next ==
    \E u \in Units :
        \/ EnterBlock(u) \/ Commit(u) \/ Fail(u)
        \/ \E r \in Keys[model] : Get(u, r) \/ Forget(u, r)
        \/ SingleRow(u) \/ Inserts(u) \/ SetBased(u)

Spec == Init /\ [][Next]_vars

-----------------------------------------------------------------------------
(* Properties.                                                             *)

Calls == {"idle", "done", "update", "delete", "restore", "hard_delete",
          "create", "create_missing", "update_found"}

(* Types, and that a unit without a scope holds nothing of a session: what *)
(* session_scope and UnitOfWork leave behind is the committed table.       *)
TypeOK ==
    /\ model \in Models
    /\ rows \in [Rows -> Row]
    /\ scope \in [Units -> {None, "call", "block"}]
    /\ draft \in [Units -> [Rows -> Row \cup {None}]]
    /\ held \in [Units -> [Rows -> Row \cup {None}]]
    /\ dirty \in [Units -> SUBSET [row : Rows, n : Nat]]
    /\ known \in [Units -> [Rows -> Row]]
    /\ op \in [Units -> [name : Calls, row : Rows \cup {None}, base : Nat, n : Nat]]
    /\ ops \in Nat
    /\ lost \subseteq Rows \X Kinds
    /\ restarted \subseteq Rows /\ bulked \subseteq Rows
    /\ dreamt \subseteq Units \X Rows
    /\ serial \in BOOLEAN /\ swallowed \in BOOLEAN
    /\ \A u \in Units : scope[u] = None =>
          draft[u] = Nothing /\ held[u] = Nothing /\ dirty[u] = {} /\ op[u] = Idle

(* Optimistic locking: on a versioned model no repository.update           *)
(* overwrites an update that it, or the caller whose expected_version it   *)
(* was given, had not seen.  This holds although expected_version is       *)
(* compared with what the identity map kept.  It ends with a physical      *)
(* delete, since an inserted row starts at version 1 again, and with the   *)
(* bulk_upsert of an instance whose version is not the row's any more:     *)
(* the statement sets the version back, and a later one repeats.           *)
NoLostUpdate ==
    model.versioned => \A r \in Rows \ restarted : <<r, "update">> \notin lost

(* A version names one content of its row: whoever kept a committed row,   *)
(* and finds its version in the table again, finds that row.  Set-based    *)
(* writes do not count versions (a bulk_upsert may set them back), and a   *)
(* physical delete restarts them.                                          *)
VersionNamesContent ==
    model.versioned =>
        \A u \in Units, r \in Rows \ (restarted \cup bulked) :
            /\ known[u][r] # Gone /\ <<u, r>> \notin dreamt
            /\ known[u][r].ver = rows[r].ver
            => known[u][r] = rows[r]

(* Only restore() brings a tombstone back, whatever the session that       *)
(* writes the row has kept of it: all but the bulk_upsert of an instance   *)
(* that was read while the row was live, which sends its deleted_at.  No   *)
(* other set-based write does, on whatever tombstones it works.            *)
OnlyRestoreRevives ==
    [][\A u \in Units, r \in Rows :
          /\ Visible(u, r).dead
          /\ draft'[u][r] \notin {None, draft[u][r]}
          /\ IsLive(draft'[u][r])
          => \/ op[u].name = "restore"
             \/ \E object \in Instances(u, r) :
                   IsLive(object) /\ draft'[u][r] = Whole(object, ops')]_vars

(* get_or_create and update_or_create, one after the other, never make a   *)
(* second live row for a key: that takes two scopes at the same time, or   *)
(* a row that came to life without a lookup (inserted or restored, or      *)
(* revived by a bulk_upsert).  The database need not help.                 *)
DuplicatesNeedOverlap ==
    serial => Cardinality({r \in Rows : IsLive(rows[r])}) <= 1

(* What update() assigned before it was rejected is never committed,       *)
(* unless a block caught the error and went on: then its commit writes it. *)
RejectedStaysOut ==
    ~swallowed => \A r \in Rows : rows[r].by # "rejected"
=============================================================================
