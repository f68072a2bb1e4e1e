-------------------------- MODULE RepositoryProofs --------------------------
(***************************************************************************)
(* What optimistic locking, soft delete and the lookups of get_or_create   *)
(* guarantee, for all models and any number of units, rows and calls.      *)
(***************************************************************************)
EXTENDS Repository, FiniteSetTheorems, TLAPS

(* A call in progress has a row, and the object that it is going to write. *)
InHand ==
    \A u \in Units :
        /\ op[u].name \notin {"idle", "done"} => op[u].row \in Rows
        /\ op[u].name \in {"update", "delete", "restore", "hard_delete"} =>
              held[u][op[u].row] # None
        /\ \A d \in dirty[u] : held[u][d.row] # None
        /\ dirty[u] # {} => op[u].name = "idle"

(* A row is written by one transaction at a time. *)
Locks ==
    \A u, v \in Units, r \in Rows :
        u # v /\ draft[u][r] # None => draft[v][r] = None

(* A row that exists has a version; only existing rows become objects. *)
Stored == {row \in Row : row = Gone \/ row.ver >= 1}
Object == {row \in Row : row.ver >= 1}

Versioned ==
    /\ rows \in [Rows -> Stored]
    /\ draft \in [Units -> [Rows -> Stored \cup {None}]]
    /\ held \in [Units -> [Rows -> Object \cup {None}]]
    /\ known \in [Units -> [Rows -> Stored]]

TInv == TypeOK /\ Versioned /\ InHand /\ Locks

(* Versions of a row that have not started again, as unit u has them:       *)
(* what it has written is ahead of the table, strictly unless set-based     *)
(* statements wrote the row; what it holds or knows is not.  Where versions *)
(* are equal and an update wrote the newer value, the values are equal, and *)
(* so is everything else unless set-based statements wrote the row.         *)
DraftAhead(u, r) ==
    draft[u][r] # None =>
        /\ draft[u][r].ver >= 1 /\ draft[u][r].ver >= rows[r].ver
        /\ draft[u][r].ver = rows[r].ver /\ draft[u][r].by = "update" =>
              rows[r].by = "update" /\ rows[r].val = draft[u][r].val
        /\ r \notin bulked => draft[u][r].ver > rows[r].ver

HeldBehind(u, r) ==
    held[u][r] # None =>
        /\ held[u][r].ver <= Visible(u, r).ver
        /\ held[u][r].ver = Visible(u, r).ver /\ Visible(u, r).by = "update" =>
              held[u][r].val = Visible(u, r).val
        /\ draft[u][r] = None /\ r \notin bulked /\ held[u][r].ver = rows[r].ver =>
              held[u][r] = rows[r]

KnownBehind(u, r) ==
    known[u][r] # Gone /\ <<u, r>> \notin dreamt =>
        /\ known[u][r].ver <= rows[r].ver
        /\ known[u][r].ver = rows[r].ver /\ rows[r].by = "update" =>
              known[u][r].val = rows[r].val
        /\ r \notin bulked /\ known[u][r].ver = rows[r].ver => known[u][r] = rows[r]

(* An update in progress has seen the update it would overwrite. *)
BaseSeen(u, r) ==
    /\ op[u].name = "update" /\ op[u].row = r /\ <<u, r>> \notin dreamt
    /\ Visible(u, r).ver = held[u][r].ver /\ Visible(u, r).by = "update"
    => op[u].base = Visible(u, r).val

Ordered(u, r) == DraftAhead(u, r) /\ HeldBehind(u, r) /\ KnownBehind(u, r) /\ BaseSeen(u, r)

VersionsOrdered ==
    model.versioned =>
        \A r \in Rows \ restarted :
            /\ <<r, "update">> \notin lost
            /\ \A u \in Units : Ordered(u, r)

(* Nothing that was assigned before a rejection is anywhere but in a block  *)
(* that went on.                                                            *)
RejectedNowhere ==
    ~swallowed =>
        /\ \A r \in Rows : rows[r].by # "rejected"
        /\ \A u \in Units : dirty[u] = {}
        /\ \A u \in Units, r \in Rows : draft[u][r] # None => draft[u][r].by # "rejected"

(* While one scope follows another, no unit sees two live rows, and the     *)
(* lookup that a call made is still true.                                   *)
OneLiveRow ==
    serial =>
        /\ \A u, v \in Units : u # v => scope[u] = None \/ scope[v] = None
        /\ \A r, s \in Rows : IsLive(rows[r]) /\ IsLive(rows[s]) => r = s
        /\ \A u \in Units, r, s \in Rows : IsLive(Visible(u, r)) /\ IsLive(Visible(u, s)) => r = s
        /\ \A u \in Units :
              /\ op[u].name \notin {"create", "restore"}
              /\ op[u].name = "create_missing" => Keyed(u) = {}
              /\ op[u].name = "update_found" => IsLive(Visible(u, op[u].row))

IInv == TInv /\ VersionsOrdered /\ RejectedNowhere /\ OneLiveRow

-----------------------------------------------------------------------------
(* Types.                                                                  *)

Op == [name : Calls, row : Rows \cup {None}, base : Nat, n : Nat]

(* How the sets of rows, stored rows and objects lie in each other. *)
LEMMA RowTypes ==
  /\ Gone \in Stored /\ Gone \notin Object
  /\ Object \subseteq Stored /\ Stored \subseteq Row /\ Stored \ {Gone} \subseteq Object /\ None \notin Row
<1>1. Gone \in Row
  BY DEF Gone, Row, Kinds
<1> QED
  BY <1>1, RepositoryAssumption DEF RepositoryAssumption, Stored, Object, Gone

(* New rows, and rows a set-based statement writes or stamps, are objects. *)
LEMMA MadeTypes ==
  /\ \A n \in Nat, kind \in Kinds : NewRow(n, kind) \in Object
  /\ \A row \in Object, n \in Nat : Bulk(row, n) \in Object /\ Stamped(row) \in Object
<1>1. ASSUME NEW n \in Nat, NEW kind \in Kinds PROVE NewRow(n, kind) \in Object
  <2>1. NewRow(n, kind) \in Row /\ NewRow(n, kind).ver = 1
    BY DEF NewRow, Row
  <2> QED
    BY <2>1 DEF Object
<1>2. ASSUME NEW row \in Object, NEW n \in Nat PROVE Bulk(row, n) \in Object /\ Stamped(row) \in Object
  <2>1. row.ver \in Nat /\ row.dead \in BOOLEAN /\ row.val \in Nat /\ row.by \in Kinds /\ row.ver >= 1
    BY DEF Row, Object
  <2>2. "bulk" \in Kinds
    BY DEF Kinds
  <2>3. Bulk(row, n) \in Row /\ Bulk(row, n).ver = row.ver
    BY <2>1, <2>2 DEF Row, Bulk
  <2>4. Stamped(row) \in Row /\ Stamped(row).ver = row.ver
    BY <2>1 DEF Row, Stamped
  <2> QED
    BY <2>1, <2>3, <2>4 DEF Object
<1> QED
  BY <1>1, <1>2

(* An instance that an upsert sends keeps its version and its mark. *)
LEMMA WholeType ==
  ASSUME NEW object \in Object, NEW n \in Nat
  PROVE  /\ Whole(object, n) \in Object
         /\ Whole(object, n).ver = object.ver /\ Whole(object, n).dead = object.dead
         /\ Whole(object, n).by = "upsert"
<1>1. object \in Row /\ object.ver >= 1 /\ "upsert" \in Kinds
  BY DEF Object, Kinds
<1>2. /\ Whole(object, n) \in Row
      /\ Whole(object, n).ver = object.ver /\ Whole(object, n).dead = object.dead
      /\ Whole(object, n).by = "upsert"
  BY <1>1 DEF Whole, Row
<1> QED
  BY <1>1, <1>2 DEF Object

(* The types, one by one, as the provers need them. *)
LEMMA Typed ==
  ASSUME TInv
  PROVE  /\ scope \in [Units -> {None, "call", "block"}]
         /\ draft \in [Units -> [Rows -> Stored \cup {None}]]
         /\ held \in [Units -> [Rows -> Object \cup {None}]]
         /\ known \in [Units -> [Rows -> Stored]]
         /\ op \in [Units -> Op] /\ dirty \in [Units -> SUBSET [row : Rows, n : Nat]]
         /\ rows \in [Rows -> Stored] /\ ops \in Nat
         /\ \A u \in Units, r \in Rows : draft[u][r] # None => draft[u][r] \in Stored
         /\ \A u \in Units, r \in Rows : held[u][r] # None => held[u][r] \in Object
BY DEF TInv, TypeOK, Versioned, Op

(* What a unit sees of a row is a stored row, or nothing. *)
LEMMA VisibleType ==
  ASSUME TInv, NEW u \in Units, NEW r \in Rows
  PROVE  /\ Visible(u, r) \in Stored /\ Visible(u, r) # None
         /\ Visible(u, r) # Gone => Visible(u, r) \in Object
BY Typed, RowTypes DEF Visible

(* The instances a unit has were rows. *)
LEMMA InstanceTypes ==
  ASSUME TInv, NEW u \in Units, NEW r \in Rows
  PROVE  Instances(u, r) \subseteq Object
<1>1. known[u][r] \in Stored /\ (held[u][r] # None => held[u][r] \in Object)
  BY Typed
<1> QED
  BY <1>1, RowTypes DEF Instances

(* So is what a lookup returns, whatever it does with deleted rows. *)
LEMMA FetchType ==
  ASSUME TInv, NEW u \in Units, NEW r \in Rows, NEW mode
  PROVE  /\ Fetch(u, r, mode) \in Stored /\ Fetch(u, r, mode) # None
         /\ Fetch(u, r, mode) # Gone => Fetch(u, r, mode) \in Object
BY Typed, VisibleType, RowTypes DEF Fetch

(* A flush makes an object of an object, of the next version if versioned. *)
LEMMA AssignedType ==
  ASSUME NEW row \in Object, NEW n \in Nat, NEW name
  PROVE  /\ Assigned(name, row, n) \in Object
         /\ Assigned(name, row, n).ver = IF model.versioned THEN row.ver + 1 ELSE row.ver
<1>1. /\ row.ver \in Nat /\ row.ver + 1 \in Nat /\ row.dead \in BOOLEAN /\ row.val \in Nat
      /\ row.by \in Kinds /\ row.ver >= 1
  BY DEF Row, Object
<1>2. name \in {"update", "rejected"} => name \in Kinds
  BY DEF Kinds
<1>3. Assigned(name, row, n) \in Row
  BY <1>1, <1>2 DEF Assigned, Row
<1>4. Assigned(name, row, n).ver = IF model.versioned THEN row.ver + 1 ELSE row.ver
  BY DEF Assigned
<1> QED
  BY <1>1, <1>3, <1>4 DEF Object

(* No call under way and a finished call are operations. *)
LEMMA OpTypes == Idle \in Op /\ Done \in Op
BY DEF Idle, Done, Calls, Op

(* After a call the unit is idle in a block, else its session is to be     *)
(* closed.                                                                 *)
LEMMA AfterCallType ==
  ASSUME TInv, NEW u \in Units
  PROVE  /\ AfterCall(u) \in [Units -> Op]
         /\ \A v \in Units \ {u} : AfterCall(u)[v] = op[v]
         /\ AfterCall(u)[u].name \in {"idle", "done"}
         /\ scope[u] = "block" => AfterCall(u)[u] = Idle
BY OpTypes, Typed DEF AfterCall, Idle, Done

(* Nothing is a draft, and an identity map, of no row. *)
LEMMA NothingType ==
  /\ Nothing \in [Rows -> Stored \cup {None}] /\ Nothing \in [Rows -> Object \cup {None}]
  /\ \A r \in Rows : Nothing[r] = None
BY DEF Nothing

(* What a unit that has no scope has nothing of. *)
NoScope(u) == draft[u] = Nothing /\ held[u] = Nothing /\ dirty[u] = {} /\ op[u] = Idle

(* The step of u leaves the other units alone. *)
OthersKept(u) ==
    \A v \in Units \ {u} :
        /\ scope'[v] = scope[v] /\ draft'[v] = draft[v] /\ held'[v] = held[v]
        /\ dirty'[v] = dirty[v] /\ known'[v] = known[v] /\ op'[v] = op[v]
        /\ \A r \in Rows : <<v, r>> \in dreamt' <=> <<v, r>> \in dreamt

(* A step that keeps the types and the locks. *)
LEMMA StepTypes ==
  ASSUME TInv, NEW u \in Units, OthersKept(u), model' = model,
         rows' \in [Rows -> Stored], ops' \in Nat,
         scope' \in [Units -> {None, "call", "block"}],
         draft' \in [Units -> [Rows -> Stored \cup {None}]],
         held' \in [Units -> [Rows -> Object \cup {None}]],
         known' \in [Units -> [Rows -> Stored]],
         op' \in [Units -> Op],
         dirty' \in [Units -> SUBSET [row : Rows, n : Nat]],
         lost' \subseteq Rows \X Kinds, restarted' \subseteq Rows, bulked' \subseteq Rows,
         dreamt' \subseteq Units \X Rows, serial' \in BOOLEAN, swallowed' \in BOOLEAN,
         scope'[u] = None => NoScope(u)',
         op'[u].name \notin {"idle", "done"} => op'[u].row \in Rows,
         op'[u].name \in {"update", "delete", "restore", "hard_delete"} => held'[u][op'[u].row] # None,
         \A d \in dirty'[u] : held'[u][d.row] # None,
         dirty'[u] # {} => op'[u].name = "idle",
         \A r \in Rows : draft'[u][r] # None => draft[u][r] # None \/ ~LockedByOther(u, r)
  PROVE  TInv'
<1>1. TypeOK'
  <2>1. \A v \in Units : scope'[v] = None => draft'[v] = Nothing /\ held'[v] = Nothing /\ dirty'[v] = {} /\ op'[v] = Idle
    BY DEF OthersKept, TInv, TypeOK, NoScope
  <2>2. /\ rows' \in [Rows -> Row] /\ known' \in [Units -> [Rows -> Row]]
        /\ draft' \in [Units -> [Rows -> Row \cup {None}]] /\ held' \in [Units -> [Rows -> Row \cup {None}]]
    BY RowTypes
  <2> QED
    BY <2>1, <2>2 DEF TypeOK, Op, TInv
<1>2. InHand'
  <2> SUFFICES ASSUME NEW v \in Units
               PROVE  /\ op'[v].name \notin {"idle", "done"} => op'[v].row \in Rows
                      /\ op'[v].name \in {"update", "delete", "restore", "hard_delete"} =>
                            held'[v][op'[v].row] # None
                      /\ \A d \in dirty'[v] : held'[v][d.row] # None
                      /\ dirty'[v] # {} => op'[v].name = "idle"
    BY DEF InHand
  <2>1. CASE v = u
    BY <2>1
  <2>2. CASE v # u
    <3>1. op'[v] = op[v] /\ held'[v] = held[v] /\ dirty'[v] = dirty[v]
      BY <2>2 DEF OthersKept
    <3> QED
      BY <3>1 DEF TInv, InHand
  <2> QED
    BY <2>1, <2>2
<1>3. Locks'
  <2>1. \A v \in Units \ {u} : draft'[v] = draft[v]
    BY DEF OthersKept
  <2>2. \A v \in Units \ {u}, r \in Rows : draft'[u][r] # None => draft[v][r] = None
    BY DEF TInv, Locks, LockedByOther
  <2>3. \A v, w \in Units, r \in Rows : v # w /\ draft[v][r] # None => draft[w][r] = None
    BY DEF TInv, Locks
  <2>4. \A v, w \in Units, r \in Rows : v # w /\ draft'[v][r] # None => draft'[w][r] = None
    <3> SUFFICES ASSUME NEW v \in Units, NEW w \in Units, NEW r \in Rows, v # w, draft'[v][r] # None,
                        draft'[w][r] # None
                 PROVE  FALSE
      OBVIOUS
    <3>1. CASE v = u
      <4>1. w \in Units \ {u} /\ draft'[w] = draft[w] /\ draft'[u][r] # None
        BY <2>1, <3>1
      <4>2. draft[w][r] = None
        BY <2>2, <4>1
      <4> QED
        BY <4>1, <4>2
    <3>2. CASE w = u
      <4>1. v \in Units \ {u} /\ draft'[v] = draft[v] /\ draft'[u][r] # None
        BY <2>1, <3>2
      <4>2. draft[v][r] = None
        BY <2>2, <4>1
      <4> QED
        BY <4>1, <4>2
    <3>3. CASE v # u /\ w # u
      <4>1. draft'[v] = draft[v] /\ draft'[w] = draft[w]
        BY <2>1, <3>3
      <4> QED
        BY <2>3, <4>1
    <3> QED
      BY <3>1, <3>2, <3>3
  <2> QED
    BY <2>4 DEF Locks
<1> QED
  BY <1>1, <1>2, <1>3 DEF TInv, Versioned

-----------------------------------------------------------------------------
(* What each action does.                                                  *)

(* Closing a session ends the scope of its unit and leaves others alone. *)
LEMMA CloseEffect ==
  ASSUME TInv, NEW u \in Units, CloseSession(u), UNCHANGED known,
         \A v \in Units \ {u}, r \in Rows : <<v, r>> \in dreamt' <=> <<v, r>> \in dreamt
  PROVE  /\ OthersKept(u)
         /\ scope'[u] = None /\ NoScope(u)'
         /\ scope' \in [Units -> {None, "call", "block"}]
         /\ draft' \in [Units -> [Rows -> Stored \cup {None}]]
         /\ held' \in [Units -> [Rows -> Object \cup {None}]]
         /\ op' \in [Units -> Op] /\ dirty' \in [Units -> SUBSET [row : Rows, n : Nat]]
<1> QED
  BY Typed, NothingType, OpTypes DEF CloseSession, OthersKept, NoScope

(* A rollback keeps the types and leaves others alone. *)
LEMMA RollbackTypes ==
  ASSUME TInv, NEW u \in Units, Rollback(u), UNCHANGED <<model, known, ops, restarted, bulked>>,
         lost' = lost, dreamt' = dreamt, serial' = serial, swallowed' = swallowed
  PROVE  TInv' /\ OthersKept(u) /\ NoScope(u)' /\ scope'[u] = None
<1>0. TypeOK /\ Versioned
  BY DEF TInv
<1>1. /\ OthersKept(u) /\ scope'[u] = None /\ NoScope(u)'
      /\ scope' \in [Units -> {None, "call", "block"}]
      /\ draft' \in [Units -> [Rows -> Stored \cup {None}]]
      /\ held' \in [Units -> [Rows -> Object \cup {None}]]
      /\ op' \in [Units -> Op] /\ dirty' \in [Units -> SUBSET [row : Rows, n : Nat]]
  BY <1>0, CloseEffect DEF Rollback
<1>2. /\ \A r \in Rows : held'[u][r] = None /\ draft'[u][r] = None
      /\ op'[u].name = "idle" /\ dirty'[u] = {}
  BY <1>1, NothingType DEF NoScope, Idle
<1>3. /\ rows' \in [Rows -> Stored] /\ ops' \in Nat /\ known' \in [Units -> [Rows -> Stored]]
      /\ lost' \subseteq Rows \X Kinds /\ restarted' \subseteq Rows /\ bulked' \subseteq Rows
      /\ dreamt' \subseteq Units \X Rows /\ serial' \in BOOLEAN /\ swallowed' \in BOOLEAN
  BY <1>0 DEF TypeOK, Versioned, Rollback
<1> QED
  BY <1>1, <1>2, <1>3, RowTypes, StepTypes

(* Entering a block keeps the types and leaves others alone. *)
LEMMA EnterTypes ==
  ASSUME TInv, NEW u \in Units, EnterBlock(u)
  PROVE  TInv' /\ OthersKept(u)
<1>0. TypeOK /\ Versioned
  BY DEF TInv
<1>1. scope' \in [Units -> {None, "call", "block"}] /\ scope'[u] = "block"
  BY <1>0, Typed DEF EnterBlock, Open
<1>2. OthersKept(u)
  BY <1>0, Typed DEF EnterBlock, Open, OthersKept
<1>3. scope'[u] # None
  BY <1>1, RepositoryAssumption DEF RepositoryAssumption
<1>4. serial' \in BOOLEAN
  BY <1>0 DEF EnterBlock, TypeOK
<1>5. UNCHANGED <<model, rows, draft, held, dirty, known, op, ops, lost, restarted, bulked, swallowed, dreamt>>
  BY DEF EnterBlock
<1>6. /\ TypeOK'
      /\ Versioned'
  BY <1>0, <1>1, <1>2, <1>3, <1>4, <1>5 DEF TypeOK, OthersKept, Versioned
<1>7. InHand' /\ Locks'
  BY <1>5 DEF TInv, InHand, Locks
<1> QED
  BY <1>2, <1>6, <1>7 DEF TInv

(* A commit keeps the types and leaves others alone, apart from the table. *)
LEMMA CommitTypes ==
  ASSUME TInv, NEW u \in Units, Commit(u)
  PROVE  TInv' /\ OthersKept(u) /\ NoScope(u)'
<1>0. TypeOK /\ Versioned
  BY DEF TInv
<1>1. CloseSession(u) /\ UNCHANGED known
  BY DEF Commit
<1>2. \A v \in Units \ {u}, r \in Rows : <<v, r>> \in dreamt' <=> <<v, r>> \in dreamt
  BY DEF Commit
<1>3. /\ OthersKept(u) /\ scope'[u] = None /\ NoScope(u)'
      /\ scope' \in [Units -> {None, "call", "block"}]
      /\ draft' \in [Units -> [Rows -> Stored \cup {None}]]
      /\ held' \in [Units -> [Rows -> Object \cup {None}]]
      /\ op' \in [Units -> Op] /\ dirty' \in [Units -> SUBSET [row : Rows, n : Nat]]
  BY <1>0, <1>1, <1>2, CloseEffect
<1>4. /\ \A r \in Rows : held'[u][r] = None /\ draft'[u][r] = None
      /\ op'[u].name = "idle" /\ dirty'[u] = {}
  BY <1>3, NothingType DEF NoScope, Idle
<1>5. rows' \in [Rows -> Stored]
  BY <1>0, VisibleType DEF Commit
<1>6. /\ ops' \in Nat /\ known' \in [Units -> [Rows -> Stored]] /\ model' = model
      /\ lost' \subseteq Rows \X Kinds /\ restarted' \subseteq Rows /\ bulked' \subseteq Rows
      /\ dreamt' \subseteq Units \X Rows /\ serial' \in BOOLEAN /\ swallowed' \in BOOLEAN
  BY <1>0 DEF TypeOK, Versioned, Commit
<1> QED
  BY <1>3, <1>4, <1>5, <1>6, RowTypes, StepTypes

(* A read, and forgetting what was read, keeps the types and leaves        *)
(* others alone.                                                           *)
LEMMA ReadTypes ==
  ASSUME TInv, NEW u \in Units, NEW r \in Rows, Get(u, r) \/ Forget(u, r)
  PROVE  TInv' /\ OthersKept(u)
<1>0. TypeOK /\ Versioned
  BY DEF TInv
<1>1. /\ UNCHANGED <<model, rows, scope, draft, dirty, op, ops, lost, restarted, bulked, serial, swallowed>>
      /\ op[u] = Idle /\ dirty[u] = {}
  BY DEF Get, Forget, history
<1>2. ASSUME known' \in [Units -> [Rows -> Stored]], held' \in [Units -> [Rows -> Object \cup {None}]],
             dreamt' \subseteq Units \X Rows, OthersKept(u), scope[u] = None => held' = held
      PROVE  TInv'
  <2>1. scope'[u] = None => NoScope(u)'
    BY <1>0, <1>1, <1>2 DEF TypeOK, NoScope
  <2>2. /\ rows' \in [Rows -> Stored] /\ draft' \in [Units -> [Rows -> Stored \cup {None}]]
        /\ scope' \in [Units -> {None, "call", "block"}] /\ op' \in [Units -> Op]
        /\ dirty' \in [Units -> SUBSET [row : Rows, n : Nat]] /\ ops' \in Nat
        /\ lost' \subseteq Rows \X Kinds /\ restarted' \subseteq Rows /\ bulked' \subseteq Rows
        /\ serial' \in BOOLEAN /\ swallowed' \in BOOLEAN /\ model' = model
    BY <1>0, <1>1 DEF TypeOK, Versioned, Op
  <2>3. op'[u].name = "idle" /\ dirty'[u] = {} /\ \A s \in Rows : draft'[u][s] # None => draft[u][s] # None
    BY <1>1 DEF Idle
  <2> QED
    BY <1>2, <2>1, <2>2, <2>3, StepTypes
<1>3. CASE Get(u, r)
  <2>1. PICK row \in Object : /\ row = (IF held[u][r] = None THEN Visible(u, r) ELSE held[u][r])
                              /\ known' = [known EXCEPT ![u][r] = row]
                              /\ held' = IF scope[u] = "block" THEN [held EXCEPT ![u][r] = row] ELSE held
    <3>1. (IF held[u][r] = None THEN Visible(u, r) ELSE held[u][r]) \in Object
      BY <1>3, Typed, VisibleType DEF Get, IsLive
    <3> QED
      BY <1>3, <3>1 DEF Get
  <2>2. \A v \in Units \ {u}, s \in Rows : <<v, s>> \in dreamt' <=> <<v, s>> \in dreamt
    BY <1>3 DEF Get
  <2>3. OthersKept(u)
    BY <1>1, <2>1, <2>2, Typed DEF OthersKept
  <2>4. held' \in [Units -> [Rows -> Object \cup {None}]]
    BY <2>1, Typed
  <2>5. known' \in [Units -> [Rows -> Stored]]
    BY <2>1, Typed, RowTypes
  <2>6. dreamt' \subseteq Units \X Rows
    BY <1>0, <1>3 DEF Get, TypeOK
  <2>7. scope[u] = None => held' = held
    BY <2>1, RepositoryAssumption DEF RepositoryAssumption
  <2> QED
    BY <1>2, <2>3, <2>4, <2>5, <2>6, <2>7
<1>4. CASE Forget(u, r)
  <2>1. held[u][r] # None /\ held' = [held EXCEPT ![u][r] = None] /\ known' = known /\ dreamt' = dreamt
    BY <1>4 DEF Forget, history
  <2>2. OthersKept(u)
    BY <1>1, <2>1, Typed DEF OthersKept
  <2>3. scope[u] # None
    BY <1>0, <2>1, NothingType DEF TypeOK
  <2>4. held' \in [Units -> [Rows -> Object \cup {None}]]
    BY <2>1, Typed
  <2>5. known' \in [Units -> [Rows -> Stored]] /\ dreamt' \subseteq Units \X Rows
    BY <1>0, <2>1 DEF TypeOK, Versioned
  <2> QED
    BY <1>2, <2>2, <2>3, <2>4, <2>5
<1> QED
  BY <1>3, <1>4

(* What the start of a call does: its unit has a scope and a call under    *)
(* way.                                                                    *)
LEMMA StartEffect ==
  ASSUME TInv, NEW u \in Units, NEW name \in Calls, NEW r \in Rows, NEW base \in Nat,
         Start(u, name, r, base)
  PROVE  /\ op[u] = Idle /\ dirty[u] = {}
         /\ scope' \in [Units -> {None, "call", "block"}] /\ scope'[u] # None
         /\ scope'[u] = scope[u] \/ scope[u] = None
         /\ op' \in [Units -> Op] /\ op'[u].name = name /\ op'[u].row = r /\ op'[u].base = base
         /\ op'[u].n = ops + 1
         /\ ops' \in Nat /\ serial' \in BOOLEAN
         /\ serial' => serial /\ Alone(u) /\ name \notin {"create", "restore"}
         /\ \A v \in Units \ {u} : scope'[v] = scope[v] /\ op'[v] = op[v]
<1>1. /\ op[u] = Idle /\ dirty[u] = {} /\ ops' = ops + 1
      /\ scope' = [scope EXCEPT ![u] = IF @ = None THEN "call" ELSE @]
      /\ serial' = (serial /\ Alone(u) /\ name \notin {"create", "restore"})
      /\ op' = [op EXCEPT ![u] = [name |-> name, row |-> r, base |-> base, n |-> ops + 1]]
  BY DEF Start, Ready, Open
<1>2. [name |-> name, row |-> r, base |-> base, n |-> ops + 1] \in Op
  BY Typed DEF Op
<1>3. op' \in [Units -> Op] /\ op'[u] = [name |-> name, row |-> r, base |-> base, n |-> ops + 1]
  BY <1>1, <1>2, Typed
<1>4. scope' \in [Units -> {None, "call", "block"}] /\ scope'[u] # None
  BY <1>1, Typed, RepositoryAssumption DEF RepositoryAssumption
<1>5. serial' \in BOOLEAN /\ (serial' => serial /\ Alone(u) /\ name \notin {"create", "restore"})
  BY <1>1
<1>6. \A v \in Units \ {u} : scope'[v] = scope[v] /\ op'[v] = op[v]
  BY <1>1, Typed
<1>7. ops' \in Nat /\ (scope'[u] = scope[u] \/ scope[u] = None)
  BY <1>1, Typed
<1> QED
  BY <1>1, <1>3, <1>4, <1>5, <1>6, <1>7

(* What loading the row of a call does: the unit holds what the lookup     *)
(* returned.                                                               *)
LEMMA LoadTypes ==
  ASSUME TInv, NEW u \in Units, NEW r \in Rows, NEW expect \in BOOLEAN,
         NEW name \in {"update", "delete", "restore", "hard_delete"}, Load(u, name, r, expect)
  PROVE  /\ TInv' /\ OthersKept(u)
         /\ held'[u][r] = Fetch(u, r, LoadMode(name)) 
         /\ \A s \in Rows \ {r} : held'[u][s] = held[u][s]
         /\ op'[u].name = name /\ op'[u].row = r
         /\ op'[u].base = IF expect THEN known[u][r].val ELSE held'[u][r].val
         /\ expect => model.versioned /\ known[u][r] # Gone /\ held'[u][r].ver = known[u][r].ver
         /\ serial' => serial /\ Alone(u) /\ name # "restore"
<1> DEFINE row == Fetch(u, r, LoadMode(name))
           base == IF expect THEN known[u][r].val ELSE row.val
<1>0. TypeOK /\ Versioned
  BY DEF TInv
<1>1. row \in Object /\ row # None
  BY FetchType DEF Load, Accepts
<1>2. base \in Nat
  <2>1. known[u][r] \in Row /\ row \in Row
    BY <1>1, Typed, RowTypes
  <2> QED
    BY <2>1 DEF Row
<1>3. /\ row # Gone /\ Start(u, name, r, base) /\ held' = [held EXCEPT ![u][r] = row]
      /\ expect => known[u][r] # Gone /\ VersionIs(row, known[u][r].ver)
      /\ UNCHANGED <<model, rows, draft, dirty, known, lost, restarted, bulked, swallowed, dreamt>>
  BY DEF Load, Accepts
<1> HIDE DEF row
<1>4. base = IF expect THEN known[u][r].val ELSE row.val
  OBVIOUS
<1> HIDE DEF base
<1>5. name \in Calls
  BY DEF Calls
<1>6. /\ dirty[u] = {} /\ scope'[u] # None /\ scope' \in [Units -> {None, "call", "block"}]
      /\ op' \in [Units -> Op] /\ op'[u].name = name /\ op'[u].row = r /\ op'[u].base = base
      /\ ops' \in Nat /\ serial' \in BOOLEAN
      /\ serial' => serial /\ Alone(u) /\ name \notin {"create", "restore"}
      /\ \A v \in Units \ {u} : scope'[v] = scope[v] /\ op'[v] = op[v]
  BY <1>0, <1>2, <1>3, <1>5, StartEffect
<1>7. /\ held' \in [Units -> [Rows -> Object \cup {None}]] /\ held'[u][r] = row
      /\ \A s \in Rows \ {r} : held'[u][s] = held[u][s]
      /\ \A v \in Units \ {u} : held'[v] = held[v]
  BY <1>0, <1>1, <1>3, Typed
<1>8. OthersKept(u)
  BY <1>3, <1>6, <1>7 DEF OthersKept
<1>10. TInv'
  <2>1. /\ rows' \in [Rows -> Stored] /\ draft' \in [Units -> [Rows -> Stored \cup {None}]]
        /\ known' \in [Units -> [Rows -> Stored]] /\ dirty' \in [Units -> SUBSET [row : Rows, n : Nat]]
        /\ lost' \subseteq Rows \X Kinds /\ restarted' \subseteq Rows /\ bulked' \subseteq Rows
        /\ dreamt' \subseteq Units \X Rows /\ swallowed' \in BOOLEAN
    BY <1>0, <1>3 DEF TypeOK, Versioned
  <2>2. dirty'[u] = {} /\ model' = model /\ \A s \in Rows : draft'[u][s] # None => draft[u][s] # None
    BY <1>3, <1>6
  <2> QED
    BY <1>1, <1>6, <1>7, <1>8, <2>1, <2>2, StepTypes
<1>11. expect => model.versioned /\ known[u][r] # Gone /\ row.ver = known[u][r].ver
  BY <1>3 DEF VersionIs
<1> QED
  BY <1>3, <1>4, <1>6, <1>7, <1>8, <1>10, <1>11 DEF row

(* What the lookup of a creation does: it says whether there is a row to   *)
(* update.                                                                 *)
LEMMA LookupTypes ==
  ASSUME TInv, NEW u \in Units, NEW r \in Rows, Create(u, r) \/ LookupMisses(u, r) \/ LookupFinds(u, r)
  PROVE  /\ TInv' /\ OthersKept(u)
         /\ op'[u].name \in {"create", "create_missing", "update_found"} /\ op'[u].row = r
         /\ op'[u].name = "create_missing" => Keyed(u) = {}
         /\ op'[u].name = "update_found" => Keyed(u) = {r}
         /\ \A s \in Rows : held'[u][s] = held[u][s] \/ (held[u][s] = None /\ held'[u][s] = Visible(u, s))
         /\ serial' => serial /\ Alone(u) /\ op'[u].name # "create"
<1>0. TypeOK /\ Versioned
  BY DEF TInv
<1>1. PICK name \in {"create", "create_missing", "update_found"} :
         /\ Start(u, name, r, 0)
         /\ name = "create_missing" => Keyed(u) = {}
         /\ name = "update_found" => Keyed(u) = {r}
         /\ held' = held \/ (held[u][r] = None /\ held' = [held EXCEPT ![u][r] = Visible(u, r)]
                              /\ Visible(u, r) # Gone)
         /\ UNCHANGED <<model, rows, draft, dirty, known, lost, restarted, bulked, swallowed, dreamt>>
  <2>1. CASE Create(u, r)
    BY <2>1 DEF Create
  <2>2. CASE LookupMisses(u, r)
    BY <2>2 DEF LookupMisses
  <2>3. CASE LookupFinds(u, r)
    <3>1. Visible(u, r) # Gone
      BY <2>3 DEF LookupFinds, Keyed, IsLive
    <3> QED
      BY <2>3, <3>1 DEF LookupFinds
  <2> QED
    BY <2>1, <2>2, <2>3
<1>2. name \in Calls
  BY DEF Calls
<1>3. /\ dirty[u] = {} /\ scope'[u] # None /\ scope' \in [Units -> {None, "call", "block"}]
      /\ op' \in [Units -> Op] /\ op'[u].name = name /\ op'[u].row = r
      /\ ops' \in Nat /\ serial' \in BOOLEAN
      /\ serial' => serial /\ Alone(u) /\ name \notin {"create", "restore"}
      /\ \A v \in Units \ {u} : scope'[v] = scope[v] /\ op'[v] = op[v]
  <2>1. Start(u, name, r, 0) /\ 0 \in Nat
    BY <1>1
  <2>2. name # "restore"
    OBVIOUS
  <2> QED
    BY <1>0, <1>2, <2>1, <2>2, StartEffect
<1>4. Visible(u, r) # Gone => Visible(u, r) \in Object
  BY VisibleType
<1>5. /\ held' \in [Units -> [Rows -> Object \cup {None}]]
      /\ \A s \in Rows : held'[u][s] = held[u][s]
                         \/ (held[u][s] = None /\ held'[u][s] = Visible(u, s) /\ Visible(u, s) # Gone)
      /\ \A v \in Units \ {u} : held'[v] = held[v]
  <2>1. CASE held' = held
    BY <1>0, <2>1, Typed
  <2>2. CASE held[u][r] = None /\ held' = [held EXCEPT ![u][r] = Visible(u, r)] /\ Visible(u, r) # Gone
    BY <1>0, <1>4, <2>2, Typed
  <2> QED
    BY <1>1, <2>1, <2>2
<1>6. OthersKept(u)
  BY <1>1, <1>3, <1>5 DEF OthersKept
<1>8. TInv'
  <2>1. /\ rows' \in [Rows -> Stored] /\ draft' \in [Units -> [Rows -> Stored \cup {None}]]
        /\ known' \in [Units -> [Rows -> Stored]] /\ dirty' \in [Units -> SUBSET [row : Rows, n : Nat]]
        /\ lost' \subseteq Rows \X Kinds /\ restarted' \subseteq Rows /\ bulked' \subseteq Rows
        /\ dreamt' \subseteq Units \X Rows /\ swallowed' \in BOOLEAN
    BY <1>0, <1>1 DEF TypeOK, Versioned
  <2>2. dirty'[u] = {} /\ model' = model /\ \A s \in Rows : draft'[u][s] # None => draft[u][s] # None
    BY <1>1, <1>3
  <2>3. op'[u].name \notin {"update", "delete", "restore", "hard_delete"} /\ op'[u].row \in Rows
    BY <1>3
  <2> QED
    BY <1>3, <1>5, <1>6, <2>1, <2>2, <2>3, StepTypes
<1> QED
  BY <1>1, <1>3, <1>5, <1>6, <1>8

(* A unit with a call under way or a pending flush has a scope. *)
LEMMA InScope ==
  ASSUME TInv, NEW u \in Units, op[u].name # "idle" \/ dirty[u] # {}
  PROVE  scope[u] # None
BY DEF TInv, TypeOK, Idle

(* What fetching the row found does: an update is due, or a creation if    *)
(* it is gone.                                                             *)
LEMMA UpdateFoundTypes ==
  ASSUME TInv, NEW u \in Units, UpdateFound(u)
  PROVE  /\ TInv' /\ OthersKept(u)
         /\ op[u].name = "update_found" /\ op[u].row \in Rows
         /\ \/ /\ op'[u].name = "update" /\ op'[u].row = op[u].row
               /\ held'[u][op[u].row] = Fetch(u, op[u].row, "exclude")
               /\ op'[u].base = held'[u][op[u].row].val
            \/ /\ op'[u].name = "create_missing" /\ Fetch(u, op[u].row, "exclude") = Gone
               /\ held'[u][op[u].row] = held[u][op[u].row]
         /\ \A s \in Rows \ {op[u].row} : held'[u][s] = held[u][s]
         /\ UNCHANGED <<model, rows, scope, draft, dirty, known, ops, history>>
<1> DEFINE r == op[u].row
           row == Fetch(u, r, "exclude")
<1>0. TypeOK /\ Versioned
  BY DEF TInv
<1>1. op[u].name = "update_found" /\ r \in Rows
  BY DEF UpdateFound, TInv, InHand
<1>2. row \in Stored /\ (row # Gone => row \in Object)
  BY <1>1, FetchType
<1>3. UNCHANGED <<model, rows, scope, draft, dirty, known, ops, history>>
  BY DEF UpdateFound
<1>4. scope[u] # None /\ dirty[u] = {}
  BY <1>1, InScope DEF TInv, InHand
<1>5. op[u] \in Op /\ op \in [Units -> Op] /\ op[u].n \in Nat
  BY Typed DEF Op
<1>6. ASSUME NEW name \in {"update", "create_missing"}, NEW s \in Rows, NEW base \in Nat, Turn(u, name, s, base)
      PROVE  /\ op' \in [Units -> Op] /\ op'[u].name = name /\ op'[u].row = s /\ op'[u].base = base
             /\ \A v \in Units \ {u} : op'[v] = op[v]
  <2>1. op' = [op EXCEPT ![u] = [name |-> name, row |-> s, base |-> base, n |-> op[u].n]]
    BY <1>5, <1>6 DEF Turn
  <2>2. [name |-> name, row |-> s, base |-> base, n |-> op[u].n] \in Op
    BY <1>5 DEF Op, Calls
  <2> QED
    BY <1>5, <2>1, <2>2
<1>7. ASSUME held' \in [Units -> [Rows -> Object \cup {None}]], op' \in [Units -> Op],
             op'[u].name \in {"update", "create_missing"}, op'[u].row \in Rows,
             op'[u].name = "update" => held'[u][op'[u].row] # None,
             \A v \in Units \ {u} : op'[v] = op[v] /\ held'[v] = held[v]
      PROVE  TInv' /\ OthersKept(u)
  <2>1. OthersKept(u)
    BY <1>3, <1>7 DEF OthersKept, history
  <2>2. /\ rows' \in [Rows -> Stored] /\ draft' \in [Units -> [Rows -> Stored \cup {None}]]
        /\ known' \in [Units -> [Rows -> Stored]] /\ dirty' \in [Units -> SUBSET [row : Rows, n : Nat]]
        /\ lost' \subseteq Rows \X Kinds /\ restarted' \subseteq Rows /\ bulked' \subseteq Rows
        /\ dreamt' \subseteq Units \X Rows /\ swallowed' \in BOOLEAN /\ serial' \in BOOLEAN
        /\ scope' \in [Units -> {None, "call", "block"}] /\ ops' \in Nat /\ model' = model
    BY <1>0, <1>3 DEF TypeOK, Versioned, history
  <2>3. scope'[u] # None /\ dirty'[u] = {} /\ \A s \in Rows : draft'[u][s] # None => draft[u][s] # None
    BY <1>3, <1>4
  <2> QED
    BY <1>7, <2>1, <2>2, <2>3, StepTypes
<1>8. CASE row # Gone /\ Turn(u, "update", r, row.val) /\ held' = [held EXCEPT ![u][r] = row]
  <2>1. row.val \in Nat /\ row # None
    BY <1>2, RowTypes DEF Row, Stored
  <2>2. /\ op' \in [Units -> Op] /\ op'[u].name = "update" /\ op'[u].row = r /\ op'[u].base = row.val
        /\ \A v \in Units \ {u} : op'[v] = op[v]
    BY <1>1, <1>6, <1>8, <2>1
  <2>3. row \in Object
    BY <1>2, <1>8
  <2> HIDE DEF row
  <2>4. /\ held' \in [Units -> [Rows -> Object \cup {None}]] /\ held'[u][r] = row
        /\ \A s \in Rows \ {r} : held'[u][s] = held[u][s]
        /\ \A v \in Units \ {u} : held'[v] = held[v]
    BY <1>1, <1>8, <2>3, Typed
  <2>5. TInv' /\ OthersKept(u)
    BY <1>1, <1>7, <2>1, <2>2, <2>4
  <2> QED
    BY <1>1, <1>3, <2>2, <2>4, <2>5 DEF row
<1>9. CASE row = Gone /\ held' = held /\ \E s \in Keys[model] : Turn(u, "create_missing", s, 0)
  <2>1. PICK s \in Rows : Turn(u, "create_missing", s, 0)
    BY <1>0, <1>9, RepositoryAssumption DEF RepositoryAssumption, TypeOK
  <2>2. /\ op' \in [Units -> Op] /\ op'[u].name = "create_missing" /\ op'[u].row = s
        /\ \A v \in Units \ {u} : op'[v] = op[v]
    BY <1>6, <2>1
  <2>3. held' \in [Units -> [Rows -> Object \cup {None}]]
    BY <1>9, Typed
  <2>4. TInv' /\ OthersKept(u)
    BY <1>7, <1>9, <2>2, <2>3
  <2> QED
    BY <1>1, <1>3, <1>9, <2>2, <2>4
<1> QED
  BY <1>8, <1>9 DEF UpdateFound

(* What a rejected value does: the scope is rolled back, or, in a block,   *)
(* the application may go on.                                              *)
LEMMA RejectTypes ==
  ASSUME TInv, NEW u \in Units, Reject(u)
  PROVE  /\ TInv' /\ OthersKept(u)
         /\ UNCHANGED <<model, rows, known, ops, lost, restarted, bulked, serial, dreamt>>
         /\ \/ NoScope(u)' /\ scope'[u] = None /\ swallowed' = swallowed
            \/ swallowed' = TRUE /\ op'[u] = Idle /\ UNCHANGED <<draft, held, scope>>
<1>0. TypeOK /\ Versioned
  BY DEF TInv
<1>1. CASE Rollback(u) /\ UNCHANGED swallowed
  BY <1>0, <1>1, RollbackTypes DEF Reject, Rollback
<1>2. CASE /\ scope[u] = "block" /\ swallowed' = TRUE
           /\ dirty' = [dirty EXCEPT ![u] = {[row |-> op[u].row, n |-> op[u].n]}]
           /\ op' = [op EXCEPT ![u] = Idle]
           /\ UNCHANGED <<rows, scope, draft, held>>
  <2> DEFINE d == [row |-> op[u].row, n |-> op[u].n]
  <2>1. op[u].name = "update" /\ UNCHANGED <<model, known, ops, lost, restarted, bulked, serial, dreamt>>
    BY DEF Reject
  <2>2. op[u].row \in Rows /\ held[u][op[u].row] # None /\ op[u].n \in Nat
    BY <2>1, Typed DEF TInv, InHand, Op
  <2>3. d \in [row : Rows, n : Nat] /\ d.row = op[u].row
    BY <2>2
  <2> HIDE DEF d
  <2>4. dirty' = [dirty EXCEPT ![u] = {d}]
    BY <1>2 DEF d
  <2>5. /\ dirty' \in [Units -> SUBSET [row : Rows, n : Nat]] /\ dirty'[u] = {d}
        /\ \A v \in Units \ {u} : dirty'[v] = dirty[v]
    BY <2>3, <2>4, Typed
  <2>6. op' \in [Units -> Op] /\ op'[u] = Idle /\ \A v \in Units \ {u} : op'[v] = op[v]
    BY <1>2, OpTypes, Typed
  <2>7. OthersKept(u)
    BY <1>2, <2>1, <2>5, <2>6 DEF OthersKept
  <2>8. scope[u] # None
    BY <2>1, InScope
  <2>9. /\ rows' \in [Rows -> Stored] /\ draft' \in [Units -> [Rows -> Stored \cup {None}]]
        /\ known' \in [Units -> [Rows -> Stored]] /\ held' \in [Units -> [Rows -> Object \cup {None}]]
        /\ lost' \subseteq Rows \X Kinds /\ restarted' \subseteq Rows /\ bulked' \subseteq Rows
        /\ dreamt' \subseteq Units \X Rows /\ swallowed' \in BOOLEAN /\ serial' \in BOOLEAN
        /\ scope' \in [Units -> {None, "call", "block"}] /\ ops' \in Nat /\ model' = model
    BY <1>0, <1>2, <2>1 DEF TypeOK, Versioned
  <2>10. /\ scope'[u] # None /\ op'[u].name = "idle" /\ \A e \in dirty'[u] : held'[u][e.row] # None
         /\ \A s \in Rows : draft'[u][s] # None => draft[u][s] # None
    BY <1>2, <2>2, <2>3, <2>5, <2>6, <2>8 DEF Idle
  <2>11. TInv'
    BY <2>5, <2>6, <2>7, <2>9, <2>10, StepTypes
  <2> QED
    BY <1>2, <2>1, <2>6, <2>7, <2>11
<1> QED
  BY <1>1, <1>2 DEF Reject

(* A flush of one row. *)
LEMMA FlushTypes ==
  ASSUME TInv, NEW u \in Units, NEW r \in Rows, scope[u] # None, ~LockedByOther(u, r),
         UNCHANGED <<model, rows, scope, known, ops, bulked, serial, swallowed, dreamt>>,
         lost' \subseteq Rows \X Kinds, restarted' \subseteq Rows,
         draft' \in [Units -> [Rows -> Stored \cup {None}]],
         held' \in [Units -> [Rows -> Object \cup {None}]],
         op' \in [Units -> Op], dirty' \in [Units -> SUBSET [row : Rows, n : Nat]],
         \A v \in Units \ {u} : draft'[v] = draft[v] /\ held'[v] = held[v] /\ op'[v] = op[v] /\ dirty'[v] = dirty[v],
         \A s \in Rows \ {r} : draft'[u][s] = draft[u][s],
         op'[u].name \in {"idle", "done"},
         \A d \in dirty'[u] : held'[u][d.row] # None,
         dirty'[u] # {} => op'[u].name = "idle"
  PROVE  TInv' /\ OthersKept(u)
<1>1. OthersKept(u)
  BY DEF OthersKept
<1>2. /\ rows' \in [Rows -> Stored] /\ known' \in [Units -> [Rows -> Stored]]
      /\ bulked' \subseteq Rows /\ dreamt' \subseteq Units \X Rows
      /\ swallowed' \in BOOLEAN /\ serial' \in BOOLEAN
      /\ scope' \in [Units -> {None, "call", "block"}] /\ ops' \in Nat /\ model' = model
  BY DEF TInv, TypeOK, Versioned
<1>3. /\ scope'[u] # None
      /\ \A s \in Rows : draft'[u][s] # None => draft[u][s] # None \/ ~LockedByOther(u, s)
  OBVIOUS
<1> QED
  BY <1>1, <1>2, <1>3, StepTypes

(* What writing a row does to drafts and held objects. *)
LEMMA WriteEffect ==
  ASSUME TInv, NEW u \in Units, NEW r \in Rows, NEW name, NEW n \in Nat, held[u][r] # None,
         WriteRow(u, r, name, n)
  PROVE  /\ ~LockedByOther(u, r)
         /\ draft' \in [Units -> [Rows -> Stored \cup {None}]]
         /\ held' \in [Units -> [Rows -> Object \cup {None}]]
         /\ \A v \in Units \ {u} : draft'[v] = draft[v] /\ held'[v] = held[v]
         /\ \A s \in Rows \ {r} : draft'[u][s] = draft[u][s] /\ held'[u][s] = held[u][s]
         /\ Visible(u, r) \in Object /\ held[u][r] \in Object
         /\ model.versioned => Visible(u, r).ver = held[u][r].ver
         /\ draft'[u][r] = Assigned(name, Visible(u, r), n) /\ draft'[u][r] \in Object
         /\ held'[u][r] = Assigned(name, held[u][r], n) /\ held'[u][r] \in Object
<1> DEFINE written == Assigned(name, Visible(u, r), n)
           object  == Assigned(name, held[u][r], n)
<1>1. Visible(u, r) # Gone /\ (model.versioned => Visible(u, r).ver = held[u][r].ver) /\ ~LockedByOther(u, r)
  BY DEF WriteRow, Matches
<1>2. Visible(u, r) \in Object /\ held[u][r] \in Object
  BY <1>1, VisibleType, Typed
<1>3. written \in Object /\ object \in Object
  BY <1>2, AssignedType
<1>4. draft' = [draft EXCEPT ![u][r] = written] /\ held' = [held EXCEPT ![u][r] = object]
  BY DEF WriteRow
<1> HIDE DEF written, object
<1>5. /\ draft' \in [Units -> [Rows -> Stored \cup {None}]] /\ draft'[u][r] = written
      /\ \A v \in Units \ {u} : draft'[v] = draft[v]
      /\ \A s \in Rows \ {r} : draft'[u][s] = draft[u][s]
  BY <1>3, <1>4, Typed, RowTypes
<1>6. /\ held' \in [Units -> [Rows -> Object \cup {None}]] /\ held'[u][r] = object
      /\ \A v \in Units \ {u} : held'[v] = held[v]
      /\ \A s \in Rows \ {r} : held'[u][s] = held[u][s]
  BY <1>3, <1>4, Typed
<1> QED
  BY <1>1, <1>2, <1>3, <1>5, <1>6 DEF written, object

(* What the flush of an update, soft delete or restore does. *)
LEMMA FlushUpdateTypes ==
  ASSUME TInv, NEW u \in Units, FlushUpdate(u)
  PROVE  /\ TInv' /\ OthersKept(u) /\ op[u].row \in Rows /\ op[u].n \in Nat
         /\ op[u].name \in {"update", "delete", "restore"}
         /\ held[u][op[u].row] # None /\ WriteRow(u, op[u].row, op[u].name, op[u].n)
         /\ op'[u].name \in {"idle", "done"}
         /\ lost' = IF op[u].name = "update" THEN Missed(u, op[u].row, op[u].base) ELSE lost
         /\ UNCHANGED <<model, rows, scope, dirty, known, ops, restarted, bulked, serial, swallowed, dreamt>>
<1>0. TypeOK /\ Versioned
  BY DEF TInv
<1>1. /\ op[u].name \in {"update", "delete", "restore"} /\ WriteRow(u, op[u].row, op[u].name, op[u].n)
      /\ UNCHANGED <<model, rows, scope, dirty, known, ops, restarted, bulked, serial, swallowed, dreamt>>
      /\ op' = AfterCall(u)
      /\ lost' = IF op[u].name = "update" THEN Missed(u, op[u].row, op[u].base) ELSE lost
  BY DEF FlushUpdate
<1>2. op[u].row \in Rows /\ held[u][op[u].row] # None /\ op[u].n \in Nat /\ dirty[u] = {} /\ scope[u] # None
  BY <1>1, InScope, Typed DEF TInv, InHand, Op
<1>3. /\ op' \in [Units -> Op] /\ op'[u].name \in {"idle", "done"}
      /\ \A v \in Units \ {u} : op'[v] = op[v]
  BY <1>0, <1>1, AfterCallType
<1>4. /\ ~LockedByOther(u, op[u].row)
      /\ draft' \in [Units -> [Rows -> Stored \cup {None}]]
      /\ held' \in [Units -> [Rows -> Object \cup {None}]]
      /\ \A v \in Units \ {u} : draft'[v] = draft[v] /\ held'[v] = held[v]
      /\ \A s \in Rows \ {op[u].row} : draft'[u][s] = draft[u][s]
      /\ Visible(u, op[u].row) \in Object
  BY <1>0, <1>1, <1>2, WriteEffect
<1>5. lost' \subseteq Rows \X Kinds
  <2>1. Visible(u, op[u].row).by \in Kinds
    BY <1>4 DEF Object, Row
  <2> QED
    BY <1>0, <1>1, <1>2, <2>1 DEF TypeOK, Missed
<1>6. /\ restarted' \subseteq Rows /\ dirty' \in [Units -> SUBSET [row : Rows, n : Nat]] /\ dirty'[u] = {}
      /\ \A v \in Units \ {u} : dirty'[v] = dirty[v]
  BY <1>0, <1>1, <1>2 DEF TypeOK
<1>7. TInv' /\ OthersKept(u)
  BY <1>1, <1>2, <1>3, <1>4, <1>5, <1>6, FlushTypes
<1> QED
  BY <1>1, <1>2, <1>3, <1>7

(* What the flush of a rejected value that was left on its object does. *)
LEMMA FlushDirtyTypes ==
  ASSUME TInv, NEW u \in Units, FlushDirty(u)
  PROVE  /\ TInv' /\ OthersKept(u) /\ dirty[u] # {} /\ op[u].name = "idle"
         /\ \E r \in Rows, n \in Nat : held[u][r] # None /\ WriteRow(u, r, "rejected", n)
         /\ UNCHANGED <<model, rows, scope, known, op, ops, history>>
<1>0. TypeOK /\ Versioned
  BY DEF TInv
<1>1. PICK d \in dirty[u] : /\ WriteRow(u, d.row, "rejected", d.n)
                            /\ dirty' = [dirty EXCEPT ![u] = @ \ {d}]
                            /\ UNCHANGED <<model, rows, scope, known, op, ops, history>>
  BY DEF FlushDirty
<1>2. d.row \in Rows /\ d.n \in Nat /\ held[u][d.row] # None /\ op[u].name = "idle" /\ scope[u] # None
  BY Typed, InScope DEF TInv, InHand
<1>3. /\ ~LockedByOther(u, d.row)
      /\ draft' \in [Units -> [Rows -> Stored \cup {None}]]
      /\ held' \in [Units -> [Rows -> Object \cup {None}]]
      /\ \A v \in Units \ {u} : draft'[v] = draft[v] /\ held'[v] = held[v]
      /\ \A s \in Rows \ {d.row} : draft'[u][s] = draft[u][s] /\ held'[u][s] = held[u][s]
      /\ held'[u][d.row] \in Object
  BY <1>0, <1>1, <1>2, WriteEffect
<1>4. /\ dirty' \in [Units -> SUBSET [row : Rows, n : Nat]] /\ dirty'[u] \subseteq dirty[u]
      /\ \A v \in Units \ {u} : dirty'[v] = dirty[v]
  BY <1>1, Typed
<1>5. \A e \in dirty'[u] : held'[u][e.row] # None
  <2> SUFFICES ASSUME NEW e \in dirty'[u] PROVE held'[u][e.row] # None
    OBVIOUS
  <2>1. e \in dirty[u] /\ e.row \in Rows /\ held[u][e.row] # None
    BY <1>4, Typed DEF TInv, InHand
  <2> QED
    BY <1>3, <2>1, RowTypes
<1>6. /\ lost' \subseteq Rows \X Kinds /\ restarted' \subseteq Rows /\ op' \in [Units -> Op] /\ op'[u].name = "idle"
      /\ \A v \in Units \ {u} : op'[v] = op[v]
      /\ UNCHANGED <<bulked, serial, swallowed, dreamt>>
  BY <1>0, <1>1, <1>2 DEF TypeOK, Op, history
<1>7. TInv' /\ OthersKept(u)
  BY <1>1, <1>2, <1>3, <1>4, <1>5, <1>6, FlushTypes
<1> QED
  BY <1>1, <1>2, <1>7

(* What the flush of a physical deletion does. *)
LEMMA FlushRemoveTypes ==
  ASSUME TInv, NEW u \in Units, FlushRemove(u)
  PROVE  /\ TInv' /\ OthersKept(u) /\ op[u].row \in Rows
         /\ op[u].name \in {"delete", "hard_delete"}
         /\ held'[u][op[u].row] = None /\ restarted' = restarted \cup {op[u].row}
         /\ draft'[u][op[u].row] \in {draft[u][op[u].row], Gone}
         /\ \A s \in Rows \ {op[u].row} : draft'[u][s] = draft[u][s] /\ held'[u][s] = held[u][s]
         /\ op'[u].name \in {"idle", "done"}
         /\ UNCHANGED <<model, rows, scope, dirty, known, ops, lost, bulked, serial, swallowed, dreamt>>
<1>0. TypeOK /\ Versioned
  BY DEF TInv
<1>1. /\ op[u].name \in {"delete", "hard_delete"} /\ ~LockedByOther(u, op[u].row)
      /\ draft' = draft \/ draft' = [draft EXCEPT ![u][op[u].row] = Gone]
      /\ held' = [held EXCEPT ![u][op[u].row] = None]
      /\ restarted' = restarted \cup {op[u].row}
      /\ op' = AfterCall(u)
      /\ UNCHANGED <<model, rows, scope, dirty, known, ops, lost, bulked, serial, swallowed, dreamt>>
  BY DEF FlushRemove, Removes
<1>2. op[u].row \in Rows /\ dirty[u] = {} /\ scope[u] # None
  BY <1>1, InScope DEF TInv, InHand
<1>3. /\ op' \in [Units -> Op] /\ op'[u].name \in {"idle", "done"}
      /\ \A v \in Units \ {u} : op'[v] = op[v]
  BY <1>0, <1>1, AfterCallType
<1>4. /\ draft' \in [Units -> [Rows -> Stored \cup {None}]]
      /\ draft'[u][op[u].row] \in {draft[u][op[u].row], Gone}
      /\ \A v \in Units \ {u} : draft'[v] = draft[v]
      /\ \A s \in Rows \ {op[u].row} : draft'[u][s] = draft[u][s]
  <2>1. CASE draft' = draft
    BY <1>2, <2>1, Typed
  <2>2. CASE draft' = [draft EXCEPT ![u][op[u].row] = Gone]
    BY <1>2, <2>2, Typed, RowTypes
  <2> QED
    BY <1>1, <2>1, <2>2
<1>5. /\ held' \in [Units -> [Rows -> Object \cup {None}]] /\ held'[u][op[u].row] = None
      /\ \A v \in Units \ {u} : held'[v] = held[v]
      /\ \A s \in Rows \ {op[u].row} : held'[u][s] = held[u][s]
  BY <1>1, <1>2, Typed
<1>6. /\ lost' \subseteq Rows \X Kinds /\ restarted' \subseteq Rows
      /\ dirty' \in [Units -> SUBSET [row : Rows, n : Nat]] /\ dirty'[u] = {}
      /\ \A v \in Units \ {u} : dirty'[v] = dirty[v]
  BY <1>0, <1>1, <1>2 DEF TypeOK
<1>7. TInv' /\ OthersKept(u)
  BY <1>1, <1>2, <1>3, <1>4, <1>5, <1>6, FlushTypes
<1> QED
  BY <1>1, <1>2, <1>3, <1>4, <1>5, <1>7

(* What the flush of a new row does. *)
LEMMA FlushInsertTypes ==
  ASSUME TInv, NEW u \in Units, FlushInsert(u)
  PROVE  /\ TInv' /\ OthersKept(u) /\ op[u].row \in Rows /\ op[u].n \in Nat
         /\ op[u].name \in {"create", "create_missing"}
         /\ Visible(u, op[u].row) = Gone
         /\ draft'[u][op[u].row] = NewRow(op[u].n, "create")
         /\ held'[u][op[u].row] = NewRow(op[u].n, "create")
         /\ \A s \in Rows \ {op[u].row} : draft'[u][s] = draft[u][s] /\ held'[u][s] = held[u][s]
         /\ op'[u].name \in {"idle", "done"}
         /\ UNCHANGED <<model, rows, scope, dirty, known, ops, lost, restarted, bulked, serial, swallowed, dreamt>>
<1> DEFINE r == op[u].row
           new == NewRow(op[u].n, "create")
<1>0. TypeOK /\ Versioned
  BY DEF TInv
<1>1. /\ op[u].name \in {"create", "create_missing"} /\ ~Taken(u, r)
      /\ \A s \in Rivals(r) : ~LockedByOther(u, s)
      /\ draft' = [draft EXCEPT ![u][r] = new] /\ held' = [held EXCEPT ![u][r] = new]
      /\ op' = AfterCall(u)
      /\ UNCHANGED <<model, rows, scope, dirty, known, ops, lost, restarted, bulked, serial, swallowed, dreamt>>
  BY DEF FlushInsert
<1>2. r \in Rows /\ op[u].n \in Nat /\ dirty[u] = {} /\ scope[u] # None
  BY <1>1, InScope, Typed DEF TInv, InHand, Op
<1>3. r \in Rivals(r)
  BY <1>2 DEF Rivals
<1>4. Visible(u, r) = Gone /\ ~LockedByOther(u, r)
  BY <1>1, <1>3 DEF Taken
<1>5. new \in Object
  BY <1>2, MadeTypes DEF Kinds
<1> HIDE DEF new
<1>6. /\ op' \in [Units -> Op] /\ op'[u].name \in {"idle", "done"}
      /\ \A v \in Units \ {u} : op'[v] = op[v]
  BY <1>0, <1>1, AfterCallType
<1>7. /\ draft' \in [Units -> [Rows -> Stored \cup {None}]] /\ draft'[u][r] = new
      /\ \A v \in Units \ {u} : draft'[v] = draft[v]
      /\ \A s \in Rows \ {r} : draft'[u][s] = draft[u][s]
  BY <1>1, <1>2, <1>5, Typed, RowTypes
<1>8. /\ held' \in [Units -> [Rows -> Object \cup {None}]] /\ held'[u][r] = new
      /\ \A v \in Units \ {u} : held'[v] = held[v]
      /\ \A s \in Rows \ {r} : held'[u][s] = held[u][s]
  BY <1>1, <1>2, <1>5, Typed
<1>9. /\ lost' \subseteq Rows \X Kinds /\ restarted' \subseteq Rows
      /\ dirty' \in [Units -> SUBSET [row : Rows, n : Nat]] /\ dirty'[u] = {}
      /\ \A v \in Units \ {u} : dirty'[v] = dirty[v]
  BY <1>0, <1>1, <1>2 DEF TypeOK
<1>10. TInv' /\ OthersKept(u)
  BY <1>1, <1>2, <1>4, <1>6, <1>7, <1>8, <1>9, FlushTypes
<1> QED
  BY <1>1, <1>2, <1>4, <1>6, <1>7, <1>8, <1>10 DEF new

(* What a set-based statement may make of a row.                            *)
SetWritten(u, r) ==
    /\ ~LockedByOther(u, r) /\ r \in bulked' /\ draft'[u][r] \in Stored
    /\ Visible(u, r) # Gone /\ draft'[u][r].ver # Visible(u, r).ver => r \in restarted'
    /\ serial' /\ IsLive(draft'[u][r]) => IsLive(Visible(u, r))
    /\ \/ draft'[u][r] = Gone /\ Visible(u, r) \in Object
       \/ \E n \in Nat : Visible(u, r) \in Object /\ draft'[u][r] = Bulk(Visible(u, r), n)
       \/ Visible(u, r) \in Object /\ draft'[u][r] = Stamped(Visible(u, r))
       \/ \E n \in Nat : Visible(u, r) = Gone /\ draft'[u][r] = NewRow(n, "bulk")
       \/ \E object \in Instances(u, r) : draft'[u][r] = Whole(object, ops')

(* What a set-based statement does, given what it makes of its rows. *)
LEMMA StatementEffect ==
  ASSUME TInv, NEW u \in Units, NEW after, DOMAIN after \subseteq Rows,
         \A r \in DOMAIN after : after[r] \in Stored, Statement(u, after)
  PROVE  /\ TInv' /\ OthersKept(u) /\ op'[u].name \in {"idle", "done"}
         /\ \A r \in Rows : draft'[u][r] = IF r \in DOMAIN after THEN after[r] ELSE draft[u][r]
         /\ \A r \in DOMAIN after :
               /\ r \in bulked' /\ ~LockedByOther(u, r)
               /\ Visible(u, r) # Gone /\ after[r].ver # Visible(u, r).ver => r \in restarted'
         /\ bulked \subseteq bulked' /\ restarted \subseteq restarted'
         /\ serial' => /\ serial /\ Alone(u)
                       /\ \A r \in DOMAIN after : IsLive(after[r]) => IsLive(Visible(u, r))
         /\ ops' = ops + 1
         /\ UNCHANGED <<model, rows, held, dirty, known, lost, swallowed, dreamt>>
         /\ scope'[u] # None
<1>0. TypeOK /\ Versioned
  BY DEF TInv
<1>1. /\ op[u] = Idle /\ dirty[u] = {}
      /\ \A r \in DOMAIN after : ~LockedByOther(u, r)
      /\ scope' = [scope EXCEPT ![u] = IF @ = None THEN "call" ELSE @]
      /\ draft' = [draft EXCEPT ![u] = [r \in Rows |-> IF r \in DOMAIN after THEN after[r] ELSE draft[u][r]]]
      /\ bulked' = bulked \cup DOMAIN after
      /\ restarted' = restarted \cup
             {r \in DOMAIN after : Visible(u, r) # Gone /\ after[r].ver # Visible(u, r).ver}
      /\ serial' = (serial /\ Alone(u) /\
             \A r \in DOMAIN after : IsLive(after[r]) => IsLive(Visible(u, r)))
      /\ op' = AfterCall(u)
      /\ ops' = ops + 1
      /\ UNCHANGED <<model, rows, held, dirty, known, lost, swallowed, dreamt>>
  BY Typed DEF Statement, Ready, Open
<1>2. /\ op' \in [Units -> Op] /\ op'[u].name \in {"idle", "done"}
      /\ \A v \in Units \ {u} : op'[v] = op[v]
  BY <1>0, <1>1, AfterCallType
<1>3. /\ scope' \in [Units -> {None, "call", "block"}] /\ scope'[u] # None
      /\ \A v \in Units \ {u} : scope'[v] = scope[v]
  BY <1>1, Typed, RepositoryAssumption DEF RepositoryAssumption
<1>4. /\ draft' \in [Units -> [Rows -> Stored \cup {None}]]
      /\ \A v \in Units \ {u} : draft'[v] = draft[v]
      /\ \A r \in Rows : draft'[u][r] = IF r \in DOMAIN after THEN after[r] ELSE draft[u][r]
  <2> DEFINE new == [r \in Rows |-> IF r \in DOMAIN after THEN after[r] ELSE draft[u][r]]
  <2>1. new \in [Rows -> Stored \cup {None}]
    BY Typed
  <2>2. \A r \in Rows : new[r] = IF r \in DOMAIN after THEN after[r] ELSE draft[u][r]
    OBVIOUS
  <2>3. draft' = [draft EXCEPT ![u] = new]
    BY <1>1
  <2> HIDE DEF new
  <2>4. draft' \in [Units -> [Rows -> Stored \cup {None}]] /\ draft'[u] = new
        /\ \A v \in Units \ {u} : draft'[v] = draft[v]
    BY <2>1, <2>3, Typed
  <2> QED
    BY <2>2, <2>4
<1>5. OthersKept(u)
  BY <1>1, <1>2, <1>3, <1>4 DEF OthersKept
<1>6. /\ rows' \in [Rows -> Stored] /\ held' \in [Units -> [Rows -> Object \cup {None}]]
      /\ known' \in [Units -> [Rows -> Stored]] /\ dirty' \in [Units -> SUBSET [row : Rows, n : Nat]]
      /\ lost' \subseteq Rows \X Kinds /\ dreamt' \subseteq Units \X Rows
      /\ swallowed' \in BOOLEAN /\ model' = model
  BY <1>0, <1>1 DEF TypeOK, Versioned
<1>7. restarted' \subseteq Rows /\ bulked' \subseteq Rows /\ serial' \in BOOLEAN /\ ops' \in Nat
  BY <1>0, <1>1 DEF TypeOK
<1>8. /\ dirty'[u] = {}
      /\ \A s \in Rows : draft'[u][s] # None => draft[u][s] # None \/ ~LockedByOther(u, s)
  BY <1>1, <1>4
<1>9. TInv'
  BY <1>2, <1>3, <1>4, <1>5, <1>6, <1>7, <1>8, StepTypes
<1> QED
  BY <1>1, <1>2, <1>3, <1>4, <1>5, <1>9

(* The effect of every set-based statement. *)
SetEffect(u) ==
    /\ TInv' /\ OthersKept(u) /\ op'[u].name \in {"idle", "done"}
    /\ \A r \in Rows : draft'[u][r] = draft[u][r] \/ SetWritten(u, r)
    /\ bulked \subseteq bulked' /\ restarted \subseteq restarted'
    /\ serial' => serial /\ Alone(u)
    /\ UNCHANGED <<model, rows, held, dirty, known, lost, swallowed, dreamt>>
    /\ dirty[u] = {} /\ scope'[u] # None

(* A set-based statement that makes of rows what such statements can is a  *)
(* SetEffect.                                                              *)
LEMMA StatementIsSetEffect ==
  ASSUME TInv, NEW u \in Units, NEW after, DOMAIN after \subseteq Rows, Statement(u, after),
         \A r \in DOMAIN after :
            \/ after[r] = Gone /\ Visible(u, r) \in Object
            \/ \E n \in Nat : Visible(u, r) \in Object /\ after[r] = Bulk(Visible(u, r), n)
            \/ Visible(u, r) \in Object /\ after[r] = Stamped(Visible(u, r))
            \/ \E n \in Nat : Visible(u, r) = Gone /\ after[r] = NewRow(n, "bulk")
            \/ \E object \in Instances(u, r) : after[r] = Whole(object, ops + 1)
  PROVE  SetEffect(u)
<1>1. \A r \in DOMAIN after : after[r] \in Stored
  <2> SUFFICES ASSUME NEW r \in DOMAIN after PROVE after[r] \in Stored
    OBVIOUS
  <2>1. CASE after[r] = Gone
    BY <2>1, RowTypes
  <2>2. CASE \E n \in Nat : Visible(u, r) \in Object /\ after[r] = Bulk(Visible(u, r), n)
    BY <2>2, MadeTypes, RowTypes
  <2>3. CASE Visible(u, r) \in Object /\ after[r] = Stamped(Visible(u, r))
    <3>1. Stamped(Visible(u, r)) \in Object
      BY <2>3, MadeTypes
    <3> QED
      BY <2>3, <3>1, RowTypes
  <2>4. CASE \E n \in Nat : Visible(u, r) = Gone /\ after[r] = NewRow(n, "bulk")
    <3>1. "bulk" \in Kinds
      BY DEF Kinds
    <3> QED
      BY <2>4, <3>1, MadeTypes, RowTypes
  <2>5. CASE \E object \in Instances(u, r) : after[r] = Whole(object, ops + 1)
    <3>1. ops + 1 \in Nat
      BY Typed
    <3> QED
      BY <2>5, <3>1, InstanceTypes, WholeType, RowTypes
  <2> QED
    BY <2>1, <2>2, <2>3, <2>4, <2>5
<1>2. /\ TInv' /\ OthersKept(u) /\ op'[u].name \in {"idle", "done"}
      /\ \A r \in Rows : draft'[u][r] = IF r \in DOMAIN after THEN after[r] ELSE draft[u][r]
      /\ \A r \in DOMAIN after :
            /\ r \in bulked' /\ ~LockedByOther(u, r)
            /\ Visible(u, r) # Gone /\ after[r].ver # Visible(u, r).ver => r \in restarted'
      /\ bulked \subseteq bulked' /\ restarted \subseteq restarted'
      /\ serial' => /\ serial /\ Alone(u)
                    /\ \A r \in DOMAIN after : IsLive(after[r]) => IsLive(Visible(u, r))
      /\ ops' = ops + 1
      /\ UNCHANGED <<model, rows, held, dirty, known, lost, swallowed, dreamt>>
      /\ scope'[u] # None
  BY <1>1, StatementEffect
<1>3. ASSUME NEW r \in DOMAIN after PROVE SetWritten(u, r)
  <2>1. /\ r \in Rows /\ draft'[u][r] = after[r] /\ r \in bulked' /\ ~LockedByOther(u, r)
        /\ draft'[u][r] \in Stored
        /\ Visible(u, r) # Gone /\ draft'[u][r].ver # Visible(u, r).ver => r \in restarted'
        /\ serial' /\ IsLive(draft'[u][r]) => IsLive(Visible(u, r))
    BY <1>1, <1>2
  <2>2. CASE after[r] = Gone /\ Visible(u, r) \in Object
    BY <2>1, <2>2 DEF SetWritten
  <2>3. CASE \E n \in Nat : Visible(u, r) \in Object /\ after[r] = Bulk(Visible(u, r), n)
    BY <2>1, <2>3 DEF SetWritten
  <2>4. CASE Visible(u, r) \in Object /\ after[r] = Stamped(Visible(u, r))
    BY <2>1, <2>4 DEF SetWritten
  <2>5. CASE \E n \in Nat : Visible(u, r) = Gone /\ after[r] = NewRow(n, "bulk")
    BY <2>1, <2>5 DEF SetWritten
  <2>6. CASE \E object \in Instances(u, r) : after[r] = Whole(object, ops + 1)
    BY <1>2, <2>1, <2>6 DEF SetWritten
  <2> QED
    BY <2>2, <2>3, <2>4, <2>5, <2>6
<1>4. dirty[u] = {}
  BY DEF Statement, Ready
<1> QED
  BY <1>2, <1>3, <1>4 DEF SetEffect

(* Every set-based call is a SetEffect. *)
LEMMA SetBasedEffect ==
  ASSUME TInv, NEW u \in Units, SetBased(u)
  PROVE  SetEffect(u)
<1>0. ops + 1 \in Nat /\ Keys[model] \subseteq Rows
  BY Typed, RepositoryAssumption DEF RepositoryAssumption, TInv, TypeOK
<1>1. ASSUME NEW mode PROVE \A r \in Matching(u, mode) : r \in Rows /\ Visible(u, r) \in Object
  BY VisibleType DEF Matching, Shows
<1>2. CASE UpdateAll(u)
  <2>1. PICK mode \in Modes :
           Statement(u, [r \in Matching(u, mode) |-> Bulk(Visible(u, r), ops + 1)])
    BY <1>2 DEF UpdateAll
  <2> DEFINE after == [r \in Matching(u, mode) |-> Bulk(Visible(u, r), ops + 1)]
  <2>2. DOMAIN after \subseteq Rows
    BY <1>1
  <2>3. \A r \in DOMAIN after :
           \E n \in Nat : Visible(u, r) \in Object /\ after[r] = Bulk(Visible(u, r), n)
    BY <1>0, <1>1
  <2>4. Statement(u, after)
    BY <2>1
  <2> HIDE DEF after
  <2> QED
    BY <2>2, <2>3, <2>4, StatementIsSetEffect
<1>3. CASE DeleteAll(u)
  <2>1. PICK mode \in Modes :
           Statement(u, [r \in Matching(u, mode) |-> IF model.soft THEN Stamped(Visible(u, r)) ELSE Gone])
    BY <1>3 DEF DeleteAll
  <2> DEFINE after == [r \in Matching(u, mode) |-> IF model.soft THEN Stamped(Visible(u, r)) ELSE Gone]
  <2>2. DOMAIN after \subseteq Rows
    BY <1>1
  <2>3. \A r \in DOMAIN after :
           /\ Visible(u, r) \in Object
           /\ after[r] = Gone \/ after[r] = Stamped(Visible(u, r))
    BY <1>0, <1>1
  <2>4. Statement(u, after)
    BY <2>1
  <2> HIDE DEF after
  <2> QED
    BY <2>2, <2>3, <2>4, StatementIsSetEffect
<1>4. CASE HardDeleteAll(u)
  <2>1. PICK mode \in Modes : Statement(u, [r \in Matching(u, mode) |-> Gone])
    BY <1>4 DEF HardDeleteAll
  <2> DEFINE after == [r \in Matching(u, mode) |-> Gone]
  <2>2. /\ DOMAIN after \subseteq Rows
        /\ \A r \in DOMAIN after : after[r] = Gone /\ Visible(u, r) \in Object
    BY <1>1
  <2>3. Statement(u, after)
    BY <2>1
  <2> HIDE DEF after
  <2> QED
    BY <2>2, <2>3, StatementIsSetEffect
<1>5. ASSUME NEW r \in Rows, BulkUpdate(u, r) PROVE SetEffect(u)
  <2> DEFINE after == [s \in {r} \cap Matching(u, "include") |-> Bulk(Visible(u, s), ops + 1)]
  <2>1. Statement(u, after)
    BY <1>5 DEF BulkUpdate
  <2>2. DOMAIN after \subseteq Rows
    OBVIOUS
  <2>3. \A s \in DOMAIN after :
           \E n \in Nat : Visible(u, s) \in Object /\ after[s] = Bulk(Visible(u, s), n)
    BY <1>0, <1>1
  <2> HIDE DEF after
  <2> QED
    BY <2>1, <2>2, <2>3, StatementIsSetEffect
<1>6. ASSUME NEW r \in Rows, Upsert(u, r) PROVE SetEffect(u)
  <2>1. CASE Visible(u, r) # Gone /\ Statement(u, [s \in {r} |-> Bulk(Visible(u, s), ops + 1)])
    <3> DEFINE after == [s \in {r} |-> Bulk(Visible(u, s), ops + 1)]
    <3>1. DOMAIN after \subseteq Rows /\ Statement(u, after)
      BY <2>1
    <3>2. \A s \in DOMAIN after :
             \E n \in Nat : Visible(u, s) \in Object /\ after[s] = Bulk(Visible(u, s), n)
      BY <1>0, <2>1, VisibleType
    <3> HIDE DEF after
    <3> QED
      BY <3>1, <3>2, StatementIsSetEffect
  <2>2. CASE Statement(u, [s \in {} |-> Gone])
    <3> DEFINE after == [s \in {} |-> Gone]
    <3>1. DOMAIN after = {} /\ Statement(u, after)
      BY <2>2
    <3> HIDE DEF after
    <3> QED
      BY <3>1, StatementIsSetEffect
  <2>3. CASE ~Taken(u, r) /\ Statement(u, [s \in {r} |-> NewRow(ops + 1, "bulk")])
    <3> DEFINE after == [s \in {r} |-> NewRow(ops + 1, "bulk")]
    <3>1. DOMAIN after \subseteq Rows /\ Statement(u, after)
      BY <2>3
    <3>2. Visible(u, r) = Gone
      BY <2>3 DEF Taken, Rivals
    <3>3. \A s \in DOMAIN after :
             \E n \in Nat : Visible(u, s) = Gone /\ after[s] = NewRow(n, "bulk")
      BY <1>0, <3>2
    <3> HIDE DEF after
    <3> QED
      BY <3>1, <3>3, StatementIsSetEffect
  <2>4. ASSUME NEW object \in Instances(u, r), Statement(u, [s \in {r} |-> Whole(object, ops + 1)])
        PROVE  SetEffect(u)
    <3> DEFINE after == [s \in {r} |-> Whole(object, ops + 1)]
    <3>1. DOMAIN after \subseteq Rows /\ Statement(u, after)
      BY <2>4
    <3>2. \A s \in DOMAIN after : \E o \in Instances(u, s) : after[s] = Whole(o, ops + 1)
      OBVIOUS
    <3> HIDE DEF after
    <3> QED
      BY <3>1, <3>2, StatementIsSetEffect
  <2> QED
    BY <1>6, <2>1, <2>2, <2>3, <2>4 DEF Upsert
<1>7. CASE \E r \in Keys[model] : BulkUpdate(u, r) \/ Upsert(u, r)
  BY <1>0, <1>5, <1>6, <1>7
<1> QED
  BY <1>2, <1>3, <1>4, <1>7 DEF SetBased

-----------------------------------------------------------------------------
(* The steps, by what they do.                                             *)

(* A scope ends without a commit. *)
Closes(u) ==
    /\ TInv' /\ OthersKept(u) /\ NoScope(u)' /\ scope'[u] = None
    /\ UNCHANGED <<model, rows, known, history>>

(* A block goes on after a rejected update. *)
Assigns(u) ==
    /\ TInv' /\ OthersKept(u) /\ swallowed' = TRUE /\ op'[u] = Idle
    /\ UNCHANGED <<model, rows, scope, draft, held, known, lost, restarted, bulked, serial, dreamt>>

StepOf(u) ==
    \/ Closes(u) \/ EnterBlock(u) \/ Commit(u)
    \/ \E r \in Rows : Get(u, r) \/ Forget(u, r)
    \/ \E r \in Rows, expect \in BOOLEAN, name \in {"update", "delete", "restore", "hard_delete"} :
          Load(u, name, r, expect)
    \/ \E r \in Rows : Create(u, r) \/ LookupMisses(u, r) \/ LookupFinds(u, r)
    \/ UpdateFound(u) \/ Assigns(u)
    \/ FlushUpdate(u) \/ FlushDirty(u) \/ FlushRemove(u) \/ FlushInsert(u) \/ SetEffect(u)

(* Every step is one of those the proof distinguishes. *)
LEMMA StepKinds ==
  ASSUME TInv, Next
  PROVE  \E u \in Units : StepOf(u)
<1>0. Keys[model] \subseteq Rows
  BY RepositoryAssumption DEF RepositoryAssumption, TInv, TypeOK
<1>1. PICK u \in Units :
        \/ EnterBlock(u) \/ Commit(u) \/ Fail(u)
        \/ \E r \in Keys[model] : Get(u, r) \/ Forget(u, r)
        \/ SingleRow(u) \/ Inserts(u) \/ SetBased(u)
  BY DEF Next
<1>2. CASE EnterBlock(u) \/ Commit(u)
  BY <1>2 DEF StepOf
<1>3. ASSUME Rollback(u), UNCHANGED <<model, known, ops, history>>
      PROVE  StepOf(u)
  <2>1. rows' = rows
    BY <1>3 DEF Rollback
  <2> QED
    BY <1>3, <2>1, RollbackTypes DEF StepOf, Closes, history
<1>4. CASE Fail(u) \/ Conflict(u) \/ IntegrityError(u)
  BY <1>3, <1>4 DEF Fail, Conflict, IntegrityError
<1>5. CASE \E r \in Keys[model] : Get(u, r) \/ Forget(u, r)
  BY <1>0, <1>5 DEF StepOf
<1>6. CASE SingleRow(u)
  <2>1. CASE \/ \E r \in Keys[model], expect \in BOOLEAN, name \in {"update", "delete"} :
                   Load(u, name, r, expect)
             \/ \E r \in Keys[model], name \in {"restore", "hard_delete"} : Load(u, name, r, FALSE)
    BY <1>0, <2>1 DEF StepOf
  <2>2. CASE Reject(u)
    BY <2>2, RejectTypes DEF StepOf, Closes, Assigns, history
  <2>3. CASE FlushUpdate(u) \/ FlushDirty(u) \/ FlushRemove(u)
    BY <2>3 DEF StepOf
  <2> QED
    BY <1>4, <1>6, <2>1, <2>2, <2>3 DEF SingleRow
<1>7. CASE Inserts(u)
  <2>1. CASE \E r \in Keys[model] : Create(u, r) \/ LookupMisses(u, r) \/ LookupFinds(u, r)
    BY <1>0, <2>1 DEF StepOf
  <2>2. CASE UpdateFound(u) \/ FlushInsert(u)
    BY <2>2 DEF StepOf
  <2> QED
    BY <1>4, <1>7, <2>1, <2>2 DEF Inserts
<1>8. CASE SetBased(u)
  BY <1>8, SetBasedEffect DEF StepOf
<1> QED
  BY <1>1, <1>2, <1>4, <1>5, <1>6, <1>7, <1>8

(* Every step keeps the types, and leaves the other units alone. *)
LEMMA StepOfTypes ==
  ASSUME TInv, NEW u \in Units, StepOf(u)
  PROVE  TInv' /\ OthersKept(u) /\ model' = model
<1>1. CASE Closes(u) \/ Assigns(u) \/ SetEffect(u)
  BY <1>1 DEF Closes, Assigns, SetEffect
<1>2. CASE EnterBlock(u)
  BY <1>2, EnterTypes DEF EnterBlock
<1>3. CASE Commit(u)
  BY <1>3, CommitTypes DEF Commit
<1>4. CASE \E r \in Rows : Get(u, r) \/ Forget(u, r)
  BY <1>4, ReadTypes DEF Get, Forget
<1>5. CASE \E r \in Rows, expect \in BOOLEAN, name \in {"update", "delete", "restore", "hard_delete"} :
             Load(u, name, r, expect)
  <2>1. PICK r \in Rows, expect \in BOOLEAN, name \in {"update", "delete", "restore", "hard_delete"} :
           Load(u, name, r, expect)
    BY <1>5
  <2>2. TInv' /\ OthersKept(u)
    BY <2>1, LoadTypes
  <2> QED
    BY <2>1, <2>2 DEF Load
<1>6. CASE \E r \in Rows : Create(u, r) \/ LookupMisses(u, r) \/ LookupFinds(u, r)
  BY <1>6, LookupTypes DEF Create, LookupMisses, LookupFinds
<1>7. CASE UpdateFound(u)
  BY <1>7, UpdateFoundTypes
<1>8. CASE FlushUpdate(u)
  BY <1>8, FlushUpdateTypes
<1>9. CASE FlushDirty(u)
  BY <1>9, FlushDirtyTypes
<1>10. CASE FlushRemove(u)
  BY <1>10, FlushRemoveTypes
<1>11. CASE FlushInsert(u)
  BY <1>11, FlushInsertTypes
<1> QED
  BY <1>1, <1>2, <1>3, <1>4, <1>5, <1>6, <1>7, <1>8, <1>9, <1>10, <1>11 DEF StepOf

-----------------------------------------------------------------------------
(* A rejected value stays in the block that went on.                       *)

(* Every step keeps rejected values out of rows, drafts and flushes. *)
LEMMA RejectedStep ==
  ASSUME TInv, RejectedNowhere, NEW u \in Units, StepOf(u)
  PROVE  RejectedNowhere'
<1> SUFFICES ASSUME ~swallowed'
             PROVE  /\ \A r \in Rows : rows'[r].by # "rejected"
                    /\ \A v \in Units : dirty'[v] = {}
                    /\ \A v \in Units, r \in Rows : draft'[v][r] # None => draft'[v][r].by # "rejected"
  BY DEF RejectedNowhere
<1>0. OthersKept(u) /\ (swallowed \in BOOLEAN)
  BY StepOfTypes DEF TInv, TypeOK
<1>1. ASSUME ~swallowed
      PROVE  /\ \A r \in Rows : rows[r].by # "rejected"
             /\ \A v \in Units : dirty[v] = {}
             /\ \A v \in Units, r \in Rows : draft[v][r] # None => draft[v][r].by # "rejected"
             /\ \A v \in Units, r \in Rows : Visible(v, r).by # "rejected"
  BY <1>1 DEF RejectedNowhere, Visible
<1>2. Gone.by # "rejected"
  BY DEF Gone
<1>3. ASSUME ~swallowed, rows' = rows, dirty'[u] = dirty[u] \/ dirty'[u] = {},
             \A r \in Rows : \/ draft'[u][r] \in {draft[u][r], None, Gone}
                             \/ draft'[u][r].by # "rejected"
      PROVE  /\ \A r \in Rows : rows'[r].by # "rejected"
             /\ \A v \in Units : dirty'[v] = {}
             /\ \A v \in Units, r \in Rows : draft'[v][r] # None => draft'[v][r].by # "rejected"
  <2>1. \A v \in Units : dirty'[v] = {}
    BY <1>0, <1>1, <1>3 DEF OthersKept
  <2>2. ASSUME NEW v \in Units, NEW r \in Rows, draft'[v][r] # None
        PROVE  draft'[v][r].by # "rejected"
    BY <1>0, <1>1, <1>2, <1>3, <2>2 DEF OthersKept
  <2> QED
    BY <1>1, <1>3, <2>1, <2>2
<1>4. CASE Closes(u)
  <2>1. ~swallowed /\ rows' = rows /\ dirty'[u] = {} /\ \A r \in Rows : draft'[u][r] = None
    BY <1>4, NothingType DEF Closes, NoScope, history
  <2> QED
    BY <1>3, <2>1
<1>5. CASE EnterBlock(u)
  BY <1>3, <1>5 DEF EnterBlock
<1>6. CASE Commit(u)
  <2>1. ~swallowed /\ (\A r \in Rows : rows'[r] = Visible(u, r)) /\ NoScope(u)'
    BY <1>6, CommitTypes DEF Commit
  <2>2. dirty'[u] = {} /\ \A r \in Rows : draft'[u][r] = None
    BY <2>1, NothingType DEF NoScope
  <2>3. \A v \in Units, r \in Rows : draft'[v][r] # None => v # u /\ draft'[v][r] = draft[v][r]
    BY <1>0, <2>2 DEF OthersKept
  <2>4. \A v \in Units : dirty'[v] = {}
    BY <1>0, <1>1, <2>1, <2>2 DEF OthersKept
  <2> QED
    BY <1>1, <2>1, <2>3, <2>4
<1>7. CASE \E r \in Rows : Get(u, r) \/ Forget(u, r)
  BY <1>3, <1>7 DEF Get, Forget, history
<1>8. CASE \E r \in Rows, expect \in BOOLEAN, name \in {"update", "delete", "restore", "hard_delete"} :
             Load(u, name, r, expect)
  BY <1>3, <1>8 DEF Load
<1>9. CASE \E r \in Rows : Create(u, r) \/ LookupMisses(u, r) \/ LookupFinds(u, r)
  BY <1>3, <1>9 DEF Create, LookupMisses, LookupFinds
<1>10. CASE UpdateFound(u)
  BY <1>3, <1>10 DEF UpdateFound, history
<1>11. CASE Assigns(u)
  BY <1>11 DEF Assigns
<1>12. CASE FlushUpdate(u)
  <2> DEFINE r == op[u].row
  <2>1. /\ r \in Rows /\ op[u].n \in Nat /\ op[u].name \in {"update", "delete", "restore"}
        /\ held[u][r] # None /\ WriteRow(u, r, op[u].name, op[u].n)
        /\ ~swallowed /\ rows' = rows /\ dirty' = dirty
    BY <1>12, FlushUpdateTypes
  <2>2. /\ draft'[u][r] = Assigned(op[u].name, Visible(u, r), op[u].n)
        /\ \A s \in Rows \ {r} : draft'[u][s] = draft[u][s]
    BY <2>1, WriteEffect
  <2>3. draft'[u][r].by # "rejected"
    BY <1>1, <2>1, <2>2 DEF Assigned
  <2> QED
    BY <1>3, <2>1, <2>2, <2>3
<1>13. CASE FlushDirty(u)
  <2>1. dirty[u] # {} /\ ~swallowed
    BY <1>13, FlushDirtyTypes DEF history
  <2> QED
    BY <1>1, <2>1
<1>14. CASE FlushRemove(u)
  <2> DEFINE r == op[u].row
  <2>1. /\ r \in Rows /\ ~swallowed /\ rows' = rows /\ dirty' = dirty
        /\ draft'[u][r] \in {draft[u][r], Gone}
        /\ \A s \in Rows \ {r} : draft'[u][s] = draft[u][s]
    BY <1>14, FlushRemoveTypes
  <2> QED
    BY <1>3, <2>1
<1>15. CASE FlushInsert(u)
  <2> DEFINE r == op[u].row
  <2>1. /\ r \in Rows /\ ~swallowed /\ rows' = rows /\ dirty' = dirty
        /\ draft'[u][r] = NewRow(op[u].n, "create")
        /\ \A s \in Rows \ {r} : draft'[u][s] = draft[u][s]
    BY <1>15, FlushInsertTypes
  <2>2. draft'[u][r].by # "rejected"
    BY <2>1 DEF NewRow
  <2> QED
    BY <1>3, <2>1, <2>2
<1>16. CASE SetEffect(u)
  <2>1. ~swallowed /\ rows' = rows /\ dirty' = dirty
    BY <1>16 DEF SetEffect
  <2>2. ASSUME NEW r \in Rows
        PROVE  draft'[u][r] \in {draft[u][r], None, Gone} \/ draft'[u][r].by # "rejected"
    <3>1. draft'[u][r] = draft[u][r] \/ SetWritten(u, r)
      BY <1>16 DEF SetEffect
    <3>2. Visible(u, r).by # "rejected"
      BY <1>1, <2>1
    <3>3. \A n \in Nat : Bulk(Visible(u, r), n).by # "rejected" /\ NewRow(n, "bulk").by # "rejected"
      BY DEF Bulk, NewRow
    <3>4. Stamped(Visible(u, r)).by # "rejected"
      BY <3>2 DEF Stamped
    <3>5. \A object \in Instances(u, r) : Whole(object, ops').by # "rejected"
      BY <1>16, InstanceTypes, WholeType DEF SetEffect, TInv, TypeOK
    <3> QED
      BY <3>1, <3>3, <3>4, <3>5 DEF SetWritten
  <2> QED
    BY <1>3, <2>1, <2>2
<1> QED
  BY <1>4, <1>5, <1>6, <1>7, <1>8, <1>9, <1>10, <1>11, <1>12, <1>13, <1>14, <1>15, <1>16 DEF StepOf

-----------------------------------------------------------------------------
(* Serial scopes see one live row.                                         *)

(* What other units see stays as it is while the table does. *)
LEMMA VisibleKept ==
  ASSUME NEW u \in Units, OthersKept(u), rows' = rows, NEW v \in Units, v # u
  PROVE  /\ \A r \in Rows : Visible(v, r)' = Visible(v, r)
         /\ Keyed(v)' = Keyed(v)
<1>1. \A r \in Rows : Visible(v, r)' = Visible(v, r)
  BY DEF OthersKept, Visible
<1> QED
  BY <1>1 DEF Keyed

(* When a step that leaves the table alone keeps OneLiveRow. *)
LEMMA LiveKept ==
  ASSUME TInv, OneLiveRow, NEW u \in Units, OthersKept(u), TInv', rows' = rows, serial' => serial,
         serial' /\ scope'[u] # None => scope[u] # None \/ Alone(u),
         serial' => \A r, s \in Rows : IsLive(Visible(u, r))' /\ IsLive(Visible(u, s))' => r = s,
         serial' => op'[u].name \notin {"create", "restore"},
         serial' /\ op'[u].name = "create_missing" => Keyed(u)' = {},
         serial' /\ op'[u].name = "update_found" => IsLive(Visible(u, op[u].row))'
  PROVE  OneLiveRow'
<1> SUFFICES ASSUME serial'
             PROVE  /\ \A v, w \in Units : v # w => scope'[v] = None \/ scope'[w] = None
                    /\ \A r, s \in Rows : IsLive(rows[r])' /\ IsLive(rows[s])' => r = s
                    /\ \A v \in Units, r, s \in Rows : IsLive(Visible(v, r))' /\ IsLive(Visible(v, s))' => r = s
                    /\ \A v \in Units :
                          /\ op'[v].name \notin {"create", "restore"}
                          /\ op'[v].name = "create_missing" => Keyed(v)' = {}
                          /\ op'[v].name = "update_found" => IsLive(Visible(v, op[v].row))'
  BY DEF OneLiveRow
<1>0. /\ \A v, w \in Units : v # w => scope[v] = None \/ scope[w] = None
      /\ \A r, s \in Rows : IsLive(rows[r]) /\ IsLive(rows[s]) => r = s
      /\ \A v \in Units, r, s \in Rows : IsLive(Visible(v, r)) /\ IsLive(Visible(v, s)) => r = s
      /\ \A v \in Units :
            /\ op[v].name \notin {"create", "restore"}
            /\ op[v].name = "create_missing" => Keyed(v) = {}
            /\ op[v].name = "update_found" => IsLive(Visible(v, op[v].row))
  BY DEF OneLiveRow
<1>1. ASSUME NEW v \in Units, NEW w \in Units, v # w, scope'[v] # None PROVE scope'[w] = None
  <2>1. \A x \in Units \ {u} : scope'[x] = scope[x]
    BY DEF OthersKept
  <2>2. scope'[u] # None => \A x \in Units \ {u} : scope[x] = None
    BY <1>0 DEF Alone
  <2>3. CASE v = u
    BY <1>1, <2>1, <2>2, <2>3
  <2>4. CASE w = u
    BY <1>1, <2>1, <2>2, <2>4
  <2>5. CASE v # u /\ w # u
    BY <1>0, <1>1, <2>1, <2>5
  <2> QED
    BY <2>3, <2>4, <2>5
<1>2. \A r, s \in Rows : IsLive(rows[r])' /\ IsLive(rows[s])' => r = s
  BY <1>0 DEF IsLive
<1>3. ASSUME NEW v \in Units
      PROVE  /\ \A r, s \in Rows : IsLive(Visible(v, r))' /\ IsLive(Visible(v, s))' => r = s
             /\ op'[v].name \notin {"create", "restore"}
             /\ op'[v].name = "create_missing" => Keyed(v)' = {}
             /\ op'[v].name = "update_found" => IsLive(Visible(v, op[v].row))'
  <2>1. CASE v = u
    BY <2>1
  <2>2. CASE v # u
    <3>1. op'[v] = op[v]
      BY <2>2 DEF OthersKept
    <3>2. /\ \A r \in Rows : Visible(v, r)' = Visible(v, r)
          /\ Keyed(v)' = Keyed(v)
      BY <2>2, VisibleKept
    <3>3. op[v].name = "update_found" => op[v].row \in Rows
      BY DEF TInv, InHand
    <3>4. op'[v].name = "update_found" => IsLive(Visible(v, op[v].row))'
      BY <1>0, <3>1, <3>2, <3>3 DEF IsLive
    <3> QED
      BY <1>0, <3>1, <3>2, <3>4 DEF IsLive
  <2> QED
    BY <2>1, <2>2
<1> QED
  BY <1>1, <1>2, <1>3

(* A step that makes no row live for its unit, and ends a call or leaves it *)
(* as it is.                                                                *)
LEMMA NoneRevived ==
  ASSUME TInv, OneLiveRow, NEW u \in Units, OthersKept(u), TInv', rows' = rows, serial' => serial,
         serial' /\ scope'[u] # None => scope[u] # None \/ Alone(u),
         serial' => \A r \in Rows : IsLive(Visible(u, r))' => IsLive(Visible(u, r)),
         op'[u].name \in {"idle", "done", "update", "delete", "restore", "hard_delete"},
         serial' => op'[u].name # "restore"
  PROVE  OneLiveRow'
<1>1. serial' => \A r, s \in Rows : IsLive(Visible(u, r))' /\ IsLive(Visible(u, s))' => r = s
  BY DEF OneLiveRow
<1> QED
  BY <1>1, LiveKept

(* A commit keeps OneLiveRow. *)
LEMMA CommitLive ==
  ASSUME TInv, OneLiveRow, NEW u \in Units, Commit(u)
  PROVE  OneLiveRow'
<1>0. OthersKept(u) /\ NoScope(u)' /\ TInv'
  BY CommitTypes
<1>1. /\ \A r \in Rows : rows'[r] = Visible(u, r)
      /\ serial' = serial /\ scope[u] # None /\ scope'[u] = None
  BY RepositoryAssumption, Typed DEF RepositoryAssumption, Commit, CloseSession
<1> SUFFICES ASSUME serial
             PROVE  /\ \A v, w \in Units : v # w => scope'[v] = None \/ scope'[w] = None
                    /\ \A r, s \in Rows : IsLive(rows[r])' /\ IsLive(rows[s])' => r = s
                    /\ \A v \in Units, r, s \in Rows : IsLive(Visible(v, r))' /\ IsLive(Visible(v, s))' => r = s
                    /\ \A v \in Units :
                          /\ op'[v].name \notin {"create", "restore"}
                          /\ op'[v].name = "create_missing" => Keyed(v)' = {}
                          /\ op'[v].name = "update_found" => IsLive(Visible(v, op[v].row))'
  BY <1>1 DEF OneLiveRow
<1>2. \A v \in Units : scope'[v] = None
  BY <1>0, <1>1 DEF OneLiveRow, OthersKept
<1>3. \A v \in Units : op'[v] = Idle /\ draft'[v] = Nothing
  BY <1>0, <1>2 DEF TInv, TypeOK
<1>4. \A v \in Units, r \in Rows : Visible(v, r)' = Visible(u, r)
  BY <1>1, <1>3, NothingType DEF Visible
<1>5. \A r, s \in Rows : IsLive(rows[r])' /\ IsLive(rows[s])' => r = s
  BY <1>1 DEF OneLiveRow, IsLive
<1>6. \A v \in Units, r, s \in Rows : IsLive(Visible(v, r))' /\ IsLive(Visible(v, s))' => r = s
  BY <1>4 DEF OneLiveRow, IsLive
<1> QED
  BY <1>2, <1>3, <1>5, <1>6 DEF Idle

(* What a flush writes over a row that was there. *)
LEMMA WriteRevives ==
  ASSUME TInv, NEW u \in Units, NEW r \in Rows, NEW name, NEW n \in Nat, held[u][r] # None,
         name # "restore", rows' = rows, WriteRow(u, r, name, n)
  PROVE  \A s \in Rows : IsLive(Visible(u, s))' => IsLive(Visible(u, s))
<1>1. /\ \A s \in Rows \ {r} : draft'[u][s] = draft[u][s]
      /\ Visible(u, r) \in Object
      /\ draft'[u][r] = Assigned(name, Visible(u, r), n) /\ draft'[u][r] \in Object
  BY WriteEffect
<1>2. \A s \in Rows \ {r} : Visible(u, s)' = Visible(u, s)
  BY <1>1 DEF Visible
<1>3. Visible(u, r)' = Assigned(name, Visible(u, r), n)
  BY <1>1, RowTypes DEF Visible
<1>4. ~Assigned(name, Visible(u, r), n).dead => ~Visible(u, r).dead
  BY DEF Assigned
<1>5. IsLive(Visible(u, r))' => IsLive(Visible(u, r))
  BY <1>1, <1>3, <1>4, RowTypes DEF IsLive
<1> QED
  BY <1>2, <1>5 DEF IsLive

(* Every step keeps OneLiveRow. *)
LEMMA OneLiveStep ==
  ASSUME TInv, OneLiveRow, NEW u \in Units, StepOf(u)
  PROVE  OneLiveRow'
<1>0. OthersKept(u) /\ TInv'
  BY StepOfTypes
<1>1. ASSUME draft' = draft, rows' = rows
      PROVE  \A r \in Rows : Visible(u, r)' = Visible(u, r) /\ Keyed(u)' = Keyed(u)
  BY <1>1 DEF Visible, Keyed
<1>2. CASE Closes(u)
  <2>1. /\ scope'[u] = None /\ op'[u].name = "idle" /\ rows' = rows /\ serial' = serial
        /\ \A r \in Rows : Visible(u, r)' = rows[r]
    BY <1>2, NothingType DEF Closes, history, NoScope, Visible, Idle
  <2>2. serial => \A r, s \in Rows : IsLive(rows[r]) /\ IsLive(rows[s]) => r = s
    BY DEF OneLiveRow
  <2>3. serial' => \A r, s \in Rows : IsLive(Visible(u, r))' /\ IsLive(Visible(u, s))' => r = s
    BY <2>1, <2>2 DEF IsLive
  <2> QED
    BY <1>0, <2>1, <2>3, LiveKept
<1>3. CASE EnterBlock(u)
  <2>1. /\ rows' = rows /\ draft' = draft /\ op' = op /\ (serial' => serial /\ Alone(u)) /\ scope[u] = None
    BY <1>3 DEF EnterBlock
  <2>2. op'[u].name = "idle"
    BY <2>1 DEF TInv, TypeOK, Idle
  <2>3. serial' => \A r \in Rows : IsLive(Visible(u, r))' => IsLive(Visible(u, r))
    BY <1>1, <2>1 DEF IsLive
  <2> QED
    BY <1>0, <2>1, <2>2, <2>3, NoneRevived
<1>4. CASE Commit(u)
  BY <1>4, CommitLive
<1>5. CASE \E r \in Rows : Get(u, r) \/ Forget(u, r)
  <2>1. /\ rows' = rows /\ draft' = draft /\ op' = op /\ serial' = serial /\ scope' = scope
        /\ op[u] = Idle
    BY <1>5 DEF Get, Forget, history
  <2>2. op'[u].name = "idle"
    BY <2>1 DEF Idle
  <2>3. serial' => \A r \in Rows : IsLive(Visible(u, r))' => IsLive(Visible(u, r))
    BY <1>1, <2>1 DEF IsLive
  <2> QED
    BY <1>0, <2>1, <2>2, <2>3, NoneRevived
<1>6. CASE \E r \in Rows, expect \in BOOLEAN, name \in {"update", "delete", "restore", "hard_delete"} :
             Load(u, name, r, expect)
  <2>1. PICK r \in Rows, expect \in BOOLEAN, name \in {"update", "delete", "restore", "hard_delete"} :
           Load(u, name, r, expect)
    BY <1>6
  <2>2. op'[u].name = name /\ (serial' => serial /\ Alone(u) /\ name # "restore")
    BY <2>1, LoadTypes
  <2>3. rows' = rows /\ draft' = draft
    BY <2>1 DEF Load
  <2>4. serial' => \A s \in Rows : IsLive(Visible(u, s))' => IsLive(Visible(u, s))
    BY <1>1, <2>3 DEF IsLive
  <2>5. op'[u].name \in {"idle", "done", "update", "delete", "restore", "hard_delete"}
    BY <2>2
  <2> QED
    BY <1>0, <2>2, <2>3, <2>4, <2>5, NoneRevived
<1>7. CASE \E r \in Rows : Create(u, r) \/ LookupMisses(u, r) \/ LookupFinds(u, r)
  <2>1. PICK r \in Rows : Create(u, r) \/ LookupMisses(u, r) \/ LookupFinds(u, r)
    BY <1>7
  <2>2. /\ op'[u].name \in {"create", "create_missing", "update_found"} /\ op'[u].row = r
        /\ op'[u].name = "create_missing" => Keyed(u) = {}
        /\ op'[u].name = "update_found" => Keyed(u) = {r}
        /\ serial' => serial /\ Alone(u) /\ op'[u].name # "create"
    BY <2>1, LookupTypes
  <2>3. rows' = rows /\ draft' = draft
    BY <2>1 DEF Create, LookupMisses, LookupFinds
  <2>4. \A s \in Rows : Visible(u, s)' = Visible(u, s) /\ Keyed(u)' = Keyed(u)
    BY <1>1, <2>3
  <2>5. serial' => \A s, t \in Rows : IsLive(Visible(u, s))' /\ IsLive(Visible(u, t))' => s = t
    BY <2>2, <2>4 DEF OneLiveRow, IsLive
  <2>6. op'[u].name = "update_found" => IsLive(Visible(u, r))
    BY <2>2 DEF Keyed
  <2>7. op'[u].name = "update_found" => IsLive(Visible(u, op[u].row))'
    BY <2>2, <2>4, <2>6 DEF IsLive
  <2> QED
    BY <1>0, <2>2, <2>3, <2>4, <2>5, <2>7, LiveKept
<1>8. CASE UpdateFound(u)
  <2> DEFINE r == op[u].row
  <2>1. /\ op[u].name = "update_found" /\ r \in Rows
        /\ op'[u].name = "update" \/ (op'[u].name = "create_missing" /\ Fetch(u, r, "exclude") = Gone)
        /\ rows' = rows /\ draft' = draft /\ serial' = serial /\ scope' = scope
    BY <1>8, UpdateFoundTypes DEF history
  <2>2. serial => IsLive(Visible(u, r))
    BY <2>1 DEF OneLiveRow
  <2>3. serial => Fetch(u, r, "exclude") # Gone
    BY <2>1, <2>2, Typed, RowTypes DEF Fetch, Shows, IsLive
  <2>4. serial' => \A s \in Rows : IsLive(Visible(u, s))' => IsLive(Visible(u, s))
    BY <1>1, <2>1 DEF IsLive
  <2>5. serial' => \A s, t \in Rows : IsLive(Visible(u, s))' /\ IsLive(Visible(u, t))' => s = t
    BY <2>1, <2>4 DEF OneLiveRow
  <2> QED
    BY <1>0, <2>1, <2>3, <2>5, LiveKept, InScope
<1>9. CASE Assigns(u)
  <2>1. /\ rows' = rows /\ draft' = draft /\ op'[u] = Idle /\ serial' = serial /\ scope' = scope
    BY <1>9 DEF Assigns
  <2>2. op'[u].name = "idle"
    BY <2>1 DEF Idle
  <2>3. serial' => \A r \in Rows : IsLive(Visible(u, r))' => IsLive(Visible(u, r))
    BY <1>1, <2>1 DEF IsLive
  <2> QED
    BY <1>0, <2>1, <2>2, <2>3, NoneRevived
<1>10. CASE FlushUpdate(u)
  <2> DEFINE r == op[u].row
  <2>1. /\ r \in Rows /\ op[u].n \in Nat /\ op[u].name \in {"update", "delete", "restore"}
        /\ held[u][r] # None /\ WriteRow(u, r, op[u].name, op[u].n)
        /\ op'[u].name \in {"idle", "done"}
        /\ rows' = rows /\ serial' = serial /\ scope' = scope
    BY <1>10, FlushUpdateTypes
  <2>2. serial => op[u].name # "restore"
    BY DEF OneLiveRow
  <2>3. serial' => \A s \in Rows : IsLive(Visible(u, s))' => IsLive(Visible(u, s))
    BY <2>1, <2>2, WriteRevives
  <2>4. scope'[u] # None => scope[u] # None
    BY <2>1
  <2> QED
    BY <1>0, <2>1, <2>3, <2>4, NoneRevived
<1>11. CASE FlushDirty(u)
  <2>1. PICK r \in Rows, n \in Nat : held[u][r] # None /\ WriteRow(u, r, "rejected", n)
    BY <1>11, FlushDirtyTypes
  <2>2. /\ op[u].name = "idle" /\ op' = op /\ rows' = rows /\ serial' = serial /\ scope' = scope
    BY <1>11, FlushDirtyTypes DEF history
  <2>3. serial' => \A s \in Rows : IsLive(Visible(u, s))' => IsLive(Visible(u, s))
    BY <2>1, <2>2, WriteRevives
  <2> QED
    BY <1>0, <2>2, <2>3, NoneRevived
<1>12. CASE FlushRemove(u)
  <2> DEFINE r == op[u].row
  <2>1. /\ r \in Rows /\ draft'[u][r] \in {draft[u][r], Gone}
        /\ \A s \in Rows \ {r} : draft'[u][s] = draft[u][s]
        /\ op'[u].name \in {"idle", "done"}
        /\ rows' = rows /\ serial' = serial /\ scope' = scope
    BY <1>12, FlushRemoveTypes
  <2>2. \A s \in Rows : Visible(u, s)' \in {Visible(u, s), Gone}
    BY <2>1, RowTypes DEF Visible
  <2>3. serial' => \A s \in Rows : IsLive(Visible(u, s))' => IsLive(Visible(u, s))
    BY <2>2 DEF IsLive
  <2> QED
    BY <1>0, <2>1, <2>3, NoneRevived
<1>13. CASE FlushInsert(u)
  <2> DEFINE r == op[u].row
  <2>1. /\ r \in Rows /\ op[u].name \in {"create", "create_missing"}
        /\ \A s \in Rows \ {r} : draft'[u][s] = draft[u][s]
        /\ op'[u].name \in {"idle", "done"}
        /\ rows' = rows /\ serial' = serial /\ scope' = scope
    BY <1>13, FlushInsertTypes
  <2>2. serial => Keyed(u) = {}
    BY <2>1 DEF OneLiveRow
  <2>3. \A s \in Rows \ {r} : Visible(u, s)' = Visible(u, s)
    BY <2>1 DEF Visible
  <2>4. serial => \A s \in Rows \ {r} : ~IsLive(Visible(u, s))'
    BY <2>2, <2>3 DEF Keyed, IsLive
  <2>5. serial' => \A s, t \in Rows : IsLive(Visible(u, s))' /\ IsLive(Visible(u, t))' => s = t
    BY <2>1, <2>4
  <2> QED
    BY <1>0, <2>1, <2>5, LiveKept
<1>14. CASE SetEffect(u)
  <2>1. /\ op'[u].name \in {"idle", "done"} /\ rows' = rows
        /\ \A r \in Rows : draft'[u][r] = draft[u][r] \/ SetWritten(u, r)
        /\ serial' => serial /\ Alone(u)
    BY <1>14 DEF SetEffect
  <2>2. ASSUME NEW r \in Rows, serial', IsLive(Visible(u, r))' PROVE IsLive(Visible(u, r))
    <3>1. CASE draft'[u][r] = draft[u][r]
      BY <2>1, <2>2, <3>1 DEF Visible, IsLive
    <3>2. CASE SetWritten(u, r)
      <4>1. Visible(u, r)' = draft'[u][r]
        BY <3>2, RowTypes DEF SetWritten, Visible
      <4> QED
        BY <2>2, <3>2, <4>1 DEF SetWritten, IsLive
    <3> QED
      BY <2>1, <3>1, <3>2
  <2> QED
    BY <1>0, <2>1, <2>2, NoneRevived
<1> QED
  BY <1>2, <1>3, <1>4, <1>5, <1>6, <1>7, <1>8, <1>9, <1>10, <1>11, <1>12, <1>13, <1>14 DEF StepOf

-----------------------------------------------------------------------------
(* Versions order the contents of a row.                                   *)

(* Versions are numbers; only a row that is gone has version 0. *)
LEMMA Versions ==
  /\ \A row \in Stored : row.ver \in Nat
  /\ \A row \in Object : row.ver \in Nat /\ row.ver >= 1
  /\ Gone.ver = 0
BY DEF Stored, Object, Row, Gone

(* Versions stay ordered for units that a step leaves alone. *)
LEMMA OrderedOthers ==
  ASSUME NEW u \in Units, OthersKept(u), NEW v \in Units, v # u, NEW r \in Rows,
         rows' = rows, bulked \subseteq bulked', Ordered(v, r)
  PROVE  Ordered(v, r)'
<1>1. Visible(v, r)' = Visible(v, r)
  BY VisibleKept
<1>2. /\ draft'[v] = draft[v] /\ held'[v] = held[v] /\ known'[v] = known[v] /\ op'[v] = op[v]
      /\ <<v, r>> \in dreamt' <=> <<v, r>> \in dreamt
  BY DEF OthersKept
<1>3. r \notin bulked' => r \notin bulked
  OBVIOUS
<1>4. DraftAhead(v, r)'
  BY <1>2, <1>3 DEF Ordered, DraftAhead
<1>5. HeldBehind(v, r)'
  BY <1>1, <1>2, <1>3 DEF Ordered, HeldBehind
<1>6. KnownBehind(v, r)'
  BY <1>2, <1>3 DEF Ordered, KnownBehind
<1>7. BaseSeen(v, r)'
  BY <1>1, <1>2 DEF Ordered, BaseSeen
<1> QED
  BY <1>4, <1>5, <1>6, <1>7 DEF Ordered

(* It is enough to look at the unit that makes the step. *)
LEMMA OrderedStep ==
  ASSUME NEW u \in Units, VersionsOrdered, OthersKept(u), model' = model, rows' = rows,
         bulked \subseteq bulked', restarted \subseteq restarted',
         model.versioned => \A r \in Rows \ restarted' : Ordered(u, r)' /\ <<r, "update">> \notin lost'
  PROVE  VersionsOrdered'
<1> SUFFICES ASSUME model.versioned, NEW r \in Rows \ restarted', NEW v \in Units
             PROVE  Ordered(v, r)' /\ <<r, "update">> \notin lost'
  BY DEF VersionsOrdered
<1>1. r \in Rows \ restarted /\ Ordered(v, r)
  BY DEF VersionsOrdered
<1> QED
  BY <1>1, OrderedOthers

(* Facts of one unit and one row that a step leaves as they are. *)
LEMMA OrderedKept ==
  ASSUME TInv, NEW u \in Units, NEW r \in Rows, Ordered(u, r), rows' = rows, bulked \subseteq bulked',
         draft'[u][r] = draft[u][r], known'[u][r] = known[u][r], dreamt' = dreamt,
         held'[u][r] = held[u][r] \/ held'[u][r] = None \/ held'[u][r] = Visible(u, r),
         op'[u].name # "update" \/ op'[u].row # r
  PROVE  Ordered(u, r)'
<1>1. Visible(u, r)' = Visible(u, r) /\ (r \notin bulked' => r \notin bulked)
  BY DEF Visible
<1>2. DraftAhead(u, r)'
  BY <1>1 DEF Ordered, DraftAhead
<1>3. HeldBehind(u, r)'
  <2>1. CASE held'[u][r] = held[u][r]
    BY <1>1, <2>1 DEF Ordered, HeldBehind
  <2>2. CASE held'[u][r] = None
    BY <2>2 DEF HeldBehind
  <2>3. CASE held'[u][r] = Visible(u, r)
    BY <1>1, <2>3, VisibleType, Versions DEF HeldBehind, Visible
  <2> QED
    BY <2>1, <2>2, <2>3
<1>4. KnownBehind(u, r)'
  BY <1>1 DEF Ordered, KnownBehind
<1>5. BaseSeen(u, r)'
  BY DEF BaseSeen
<1> QED
  BY <1>2, <1>3, <1>4, <1>5 DEF Ordered

(* An update that begins: what it is based on is the value it may overwrite.*)
LEMMA UpdateBegins ==
  ASSUME TInv, TInv', NEW u \in Units, NEW r \in Rows, Ordered(u, r),
         rows' = rows, draft' = draft, known' = known, dreamt' = dreamt, bulked' = bulked,
         held'[u][r] \in Object, held'[u][r] = held[u][r] \/ held'[u][r] = Visible(u, r),
         \/ op'[u].base = held'[u][r].val
         \/ /\ op'[u].base = known[u][r].val
            /\ known[u][r] # Gone /\ held'[u][r].ver = known[u][r].ver
  PROVE  Ordered(u, r)'
<1>1. Visible(u, r)' = Visible(u, r)
  BY DEF Visible
<1>2. DraftAhead(u, r)' /\ KnownBehind(u, r)'
  BY DEF Ordered, DraftAhead, KnownBehind
<1>3. HeldBehind(u, r)'
  <2>1. CASE held'[u][r] = held[u][r]
    BY <1>1, <2>1 DEF Ordered, HeldBehind
  <2>2. CASE held'[u][r] = Visible(u, r)
    BY <1>1, <2>2, Versions DEF HeldBehind, Visible
  <2> QED
    BY <2>1, <2>2
<1>4. ASSUME <<u, r>> \notin dreamt, Visible(u, r).ver = held'[u][r].ver, Visible(u, r).by = "update"
      PROVE  op'[u].base = Visible(u, r).val
  <2>1. held'[u][r].val = Visible(u, r).val
    BY <1>1, <1>3, <1>4, RowTypes DEF HeldBehind
  <2>2. CASE op'[u].base = held'[u][r].val
    BY <2>1, <2>2
  <2>3. CASE op'[u].base = known[u][r].val /\ known[u][r] # Gone /\ held'[u][r].ver = known[u][r].ver
    <3>1. known[u][r].ver = Visible(u, r).ver
      BY <1>4, <2>3
    <3>2. /\ known[u][r].ver <= rows[r].ver
          /\ known[u][r].ver = rows[r].ver /\ rows[r].by = "update" => known[u][r].val = rows[r].val
      BY <1>4, <2>3 DEF Ordered, KnownBehind
    <3>3. CASE draft[u][r] = None
      BY <1>4, <2>3, <3>1, <3>2, <3>3 DEF Visible
    <3>4. CASE draft[u][r] # None
      <4>1. /\ Visible(u, r) = draft[u][r] /\ draft[u][r].ver >= rows[r].ver
            /\ draft[u][r].ver = rows[r].ver /\ draft[u][r].by = "update" =>
                  rows[r].by = "update" /\ rows[r].val = draft[u][r].val
        BY <3>4 DEF Visible, Ordered, DraftAhead
      <4>2. rows[r].ver \in Nat /\ draft[u][r].ver \in Nat
        BY <3>4, Typed, Versions
      <4>3. draft[u][r].ver = rows[r].ver
        BY <3>1, <3>2, <4>1, <4>2
      <4> QED
        BY <1>4, <2>3, <3>1, <3>2, <4>1, <4>3
    <3> QED
      BY <3>3, <3>4
  <2> QED
    BY <2>2, <2>3
<1>5. BaseSeen(u, r)'
  BY <1>1, <1>4 DEF BaseSeen
<1> QED
  BY <1>2, <1>3, <1>5 DEF Ordered

(* Versions stay ordered when a unit reads. *)
LEMMA GetOrdered ==
  ASSUME TInv, NEW u \in Units, NEW r \in Rows, NEW s \in Rows, Get(u, s), Ordered(u, r)
  PROVE  Ordered(u, r)'
<1>1. /\ rows' = rows /\ draft' = draft /\ bulked' = bulked /\ op' = op /\ op[u] = Idle
      /\ known' = [known EXCEPT ![u][s] = IF held[u][s] = None THEN Visible(u, s) ELSE held[u][s]]
      /\ held' = held \/ held' = [held EXCEPT ![u][s] = IF held[u][s] = None THEN Visible(u, s) ELSE held[u][s]]
      /\ dreamt' = IF draft[u][s] = None THEN dreamt \ {<<u, s>>} ELSE dreamt \cup {<<u, s>>}
  BY DEF Get
<1>2. Visible(u, r)' = Visible(u, r)
  BY <1>1 DEF Visible
<1>3. DraftAhead(u, r)' /\ BaseSeen(u, r)'
  BY <1>1 DEF Ordered, DraftAhead, BaseSeen, Idle
<1>4. held'[u][r] = held[u][r] \/ held'[u][r] = Visible(u, r)
  BY <1>1, Typed
<1>5. HeldBehind(u, r)'
  <2>1. CASE held'[u][r] = held[u][r]
    BY <1>1, <1>2, <2>1 DEF Ordered, HeldBehind
  <2>2. CASE held'[u][r] = Visible(u, r)
    BY <1>1, <1>2, <2>2, VisibleType, Versions DEF HeldBehind, Visible
  <2> QED
    BY <1>4, <2>1, <2>2
<1>6. KnownBehind(u, r)'
  <2>1. CASE r # s
    <3>1. known'[u][r] = known[u][r] /\ (<<u, r>> \in dreamt' <=> <<u, r>> \in dreamt)
      BY <1>1, <2>1, Typed
    <3> QED
      BY <1>1, <3>1 DEF Ordered, KnownBehind
  <2>2. CASE r = s /\ draft[u][s] # None
    BY <1>1, <2>2 DEF KnownBehind
  <2>3. CASE r = s /\ draft[u][r] = None
    <3>1. /\ known'[u][r] = IF held[u][r] = None THEN Visible(u, r) ELSE held[u][r]
          /\ Visible(u, r) = rows[r]
      BY <1>1, <2>3, Typed DEF Visible
    <3>2. CASE held[u][r] = None
      BY <1>1, <3>1, <3>2, Typed, Versions DEF KnownBehind
    <3>3. CASE held[u][r] # None
      BY <1>1, <2>3, <3>1, <3>3 DEF KnownBehind, Ordered, HeldBehind
    <3> QED
      BY <3>2, <3>3
  <2> QED
    BY <2>1, <2>2, <2>3
<1> QED
  BY <1>3, <1>5, <1>6 DEF Ordered

(* Versions stay ordered when a unit writes a row it holds. *)
LEMMA WriteOrdered ==
  ASSUME TInv, NEW u \in Units, NEW r \in Rows, NEW s \in Rows, NEW name, NEW n \in Nat,
         model.versioned, held[u][s] # None, WriteRow(u, s, name, n), Ordered(u, r),
         rows' = rows, known' = known, dreamt' = dreamt, bulked' = bulked, op'[u].name # "update"
  PROVE  Ordered(u, r)'
<1>1. /\ \A t \in Rows \ {s} : draft'[u][t] = draft[u][t] /\ held'[u][t] = held[u][t]
      /\ Visible(u, s) \in Object /\ held[u][s] \in Object
      /\ Visible(u, s).ver = held[u][s].ver
      /\ draft'[u][s] = Assigned(name, Visible(u, s), n) /\ draft'[u][s] \in Object
      /\ held'[u][s] = Assigned(name, held[u][s], n) /\ held'[u][s] \in Object
  BY WriteEffect
<1>2. CASE r # s
  <2>1. draft'[u][r] = draft[u][r] /\ held'[u][r] = held[u][r] /\ known'[u][r] = known[u][r]
    BY <1>1, <1>2
  <2> QED
    BY <2>1, OrderedKept
<1>3. CASE r = s
  <2>1. /\ draft'[u][r].ver = Visible(u, r).ver + 1 /\ held'[u][r].ver = held[u][r].ver + 1
        /\ draft'[u][r].by = "update" => \/ draft'[u][r].val = n /\ held'[u][r].val = n
                                         \/ /\ Visible(u, r).by = "update"
                                            /\ held'[u][r].val = held[u][r].val
                                            /\ draft'[u][r].val = Visible(u, r).val
    BY <1>1, <1>3 DEF Assigned
  <2>2. Visible(u, r).ver \in Nat /\ held[u][r].ver \in Nat /\ rows[r].ver \in Nat
    BY <1>1, <1>3, Typed, Versions
  <2>3. Visible(u, r).ver >= rows[r].ver
    BY <2>2 DEF Ordered, DraftAhead, Visible
  <2>4. draft'[u][r].ver > rows[r].ver /\ draft'[u][r].ver >= 1
    BY <2>1, <2>2, <2>3
  <2>5. draft'[u][r].ver # rows[r].ver
    BY <2>1, <2>2, <2>4
  <2>13. DraftAhead(u, r)'
    BY <2>1, <2>2, <2>4, <2>5 DEF DraftAhead
  <2>6. draft'[u][r] # None /\ Visible(u, r)' = draft'[u][r]
    BY <1>1, <1>3, RowTypes DEF Visible
  <2>7. held[u][r] # None /\ held[u][r].ver = Visible(u, r).ver /\ draft'[u][r].ver = held'[u][r].ver
    BY <1>1, <1>3, <2>1
  <2>8. draft'[u][r].by = "update" => held'[u][r].val = draft'[u][r].val
    BY <2>1, <2>7 DEF Ordered, HeldBehind
  <2>9. held'[u][r].ver \in Nat
    BY <2>1, <2>2
  <2>10. HeldBehind(u, r)'
    BY <2>6, <2>7, <2>8, <2>9 DEF HeldBehind
  <2>11. KnownBehind(u, r)'
    BY DEF Ordered, KnownBehind
  <2>12. BaseSeen(u, r)'
    BY DEF BaseSeen
  <2> QED
    BY <2>10, <2>11, <2>12, <2>13 DEF Ordered
<1> QED
  BY <1>2, <1>3

(* Versions stay ordered when a unit inserts a row. *)
LEMMA InsertOrdered ==
  ASSUME TInv, NEW u \in Units, FlushInsert(u), NEW r \in Rows, Ordered(u, r)
  PROVE  Ordered(u, r)'
<1>1. /\ op[u].row \in Rows /\ Visible(u, op[u].row) = Gone
      /\ draft'[u][op[u].row] = NewRow(op[u].n, "create")
      /\ held'[u][op[u].row] = NewRow(op[u].n, "create")
      /\ \A s \in Rows \ {op[u].row} : draft'[u][s] = draft[u][s] /\ held'[u][s] = held[u][s]
      /\ op'[u].name \in {"idle", "done"}
      /\ rows' = rows /\ known' = known /\ bulked' = bulked /\ dreamt' = dreamt
  BY FlushInsertTypes
<1>2. CASE r # op[u].row
  BY <1>1, <1>2, OrderedKept
<1>3. CASE r = op[u].row
  <2>1. rows[r].ver = 0
    <3>1. draft[u][r] # None => draft[u][r] = Gone /\ Gone.ver >= 1
      BY <1>1, <1>3 DEF Visible, Ordered, DraftAhead
    <3> QED
      BY <1>1, <1>3, <3>1, Versions DEF Visible
  <2>2. draft'[u][r].ver = 1 /\ held'[u][r] = draft'[u][r]
    BY <1>1, <1>3 DEF NewRow
  <2>3. draft'[u][r] # None
    <3>1. draft'[u][r] \in Stored
      BY <1>1, <1>3, <2>2, FlushInsertTypes, MadeTypes, RowTypes DEF Kinds
    <3> QED
      BY <3>1, RowTypes
  <2>4. DraftAhead(u, r)'
    BY <1>1, <2>1, <2>2 DEF DraftAhead
  <2>5. HeldBehind(u, r)'
    BY <2>2, <2>3 DEF HeldBehind, Visible
  <2>6. KnownBehind(u, r)' /\ BaseSeen(u, r)'
    BY <1>1 DEF Ordered, KnownBehind, BaseSeen
  <2> QED
    BY <2>4, <2>5, <2>6 DEF Ordered
<1> QED
  BY <1>2, <1>3

(* Versions stay ordered under a set-based statement. *)
LEMMA SetOrdered ==
  ASSUME TInv, NEW u \in Units, SetEffect(u), NEW r \in Rows \ restarted', Ordered(u, r)
  PROVE  Ordered(u, r)'
<1>1. /\ op'[u].name \in {"idle", "done"} /\ bulked \subseteq bulked'
      /\ draft'[u][r] = draft[u][r] \/ SetWritten(u, r)
      /\ rows' = rows /\ held' = held /\ known' = known /\ dreamt' = dreamt
  BY DEF SetEffect
<1>2. CASE draft'[u][r] = draft[u][r]
  BY <1>1, <1>2, OrderedKept
<1>3. CASE SetWritten(u, r)
  <2>1. r \in bulked'
    BY <1>3 DEF SetWritten
  <2>2. Visible(u, r) \in Stored /\ Visible(u, r).ver \in Nat /\ rows[r].ver \in Nat
    BY VisibleType, Typed, Versions
  <2>3. held[u][r] # None => held[u][r].ver \in Nat /\ held[u][r].ver >= 1
    BY Typed, Versions
  <2>4. /\ draft'[u][r] \in Object
        /\ draft'[u][r].ver >= rows[r].ver /\ draft'[u][r].ver >= 1
        /\ draft'[u][r].by = "update" => /\ draft'[u][r].ver = Visible(u, r).ver
                                         /\ Visible(u, r).by = "update"
                                         /\ draft'[u][r].val = Visible(u, r).val
        /\ held[u][r] # None => held[u][r].ver <= draft'[u][r].ver
    <3>1. ASSUME Visible(u, r) \in Object, draft'[u][r].ver = Visible(u, r).ver
          PROVE  /\ draft'[u][r].ver >= rows[r].ver /\ draft'[u][r].ver >= 1
                 /\ held[u][r] # None => held[u][r].ver <= draft'[u][r].ver
      BY <2>2, <3>1, Versions DEF Ordered, DraftAhead, HeldBehind, Visible
    <3>0. Visible(u, r) # Gone => draft'[u][r].ver = Visible(u, r).ver
      BY <1>3 DEF SetWritten
    <3>2. CASE \E n \in Nat : Visible(u, r) \in Object /\ draft'[u][r] = Bulk(Visible(u, r), n)
      <4>1. PICK n \in Nat : Visible(u, r) \in Object /\ draft'[u][r] = Bulk(Visible(u, r), n)
        BY <3>2
      <4>2. /\ draft'[u][r] \in Object /\ draft'[u][r].ver = Visible(u, r).ver /\ draft'[u][r].by = "bulk"
        BY <4>1, MadeTypes DEF Bulk
      <4> QED
        BY <3>1, <4>1, <4>2
    <3>3. CASE Visible(u, r) \in Object /\ draft'[u][r] = Stamped(Visible(u, r))
      <4>1. /\ draft'[u][r] \in Object /\ draft'[u][r].ver = Visible(u, r).ver
            /\ draft'[u][r].by = Visible(u, r).by /\ draft'[u][r].val = Visible(u, r).val
        BY <3>3, MadeTypes DEF Stamped
      <4> QED
        BY <3>1, <3>3, <4>1
    <3>4. ASSUME Visible(u, r) = Gone, draft'[u][r] \in Object, draft'[u][r].by # "update"
          PROVE  /\ draft'[u][r].ver >= rows[r].ver /\ draft'[u][r].ver >= 1
                 /\ held[u][r] # None => held[u][r].ver <= draft'[u][r].ver
      <4>1. draft[u][r] = None
        BY <3>4, Versions DEF Visible, Ordered, DraftAhead
      <4>2. rows[r].ver = 0
        BY <3>4, <4>1, Versions DEF Visible
      <4>3. held[u][r] # None => held[u][r].ver <= 0
        BY <3>4, Versions DEF Ordered, HeldBehind
      <4>4. draft'[u][r].ver \in Nat /\ draft'[u][r].ver >= 1
        BY <3>4 DEF Object, Row
      <4> QED
        BY <2>3, <4>2, <4>3, <4>4
    <3>5. CASE \E n \in Nat : Visible(u, r) = Gone /\ draft'[u][r] = NewRow(n, "bulk")
      <4>1. PICK n \in Nat : Visible(u, r) = Gone /\ draft'[u][r] = NewRow(n, "bulk")
        BY <3>5
      <4>2. NewRow(n, "bulk") \in Object
        BY MadeTypes DEF Kinds
      <4>3. draft'[u][r] \in Object /\ draft'[u][r].by = "bulk"
        BY <4>1, <4>2 DEF NewRow
      <4> QED
        BY <3>4, <4>1, <4>3
    <3>6. CASE \E object \in Instances(u, r) : draft'[u][r] = Whole(object, ops')
      <4>1. ops' \in Nat
        BY DEF SetEffect, TInv, TypeOK
      <4>2. draft'[u][r] \in Object /\ draft'[u][r].by = "upsert"
        BY <3>6, <4>1, InstanceTypes, WholeType
      <4>3. CASE Visible(u, r) = Gone
        BY <3>4, <4>2, <4>3
      <4>4. CASE Visible(u, r) # Gone
        <5>1. Visible(u, r) \in Object
          BY <4>4, VisibleType
        <5> QED
          BY <3>0, <3>1, <4>2, <4>4, <5>1
      <4> QED
        BY <4>3, <4>4
    <3>7. CASE draft'[u][r] = Gone /\ Visible(u, r) \in Object
      <4>1. Visible(u, r).ver # Gone.ver /\ Visible(u, r) # Gone
        BY <3>7, RowTypes, Versions DEF Object, Gone
      <4> QED
        BY <3>0, <3>7, <4>1
    <3> QED
      BY <1>3, <3>2, <3>3, <3>5, <3>6, <3>7 DEF SetWritten
  <2>5. DraftAhead(u, r)'
    <3>1. draft'[u][r].ver = rows[r].ver /\ draft'[u][r].by = "update" =>
             rows[r].by = "update" /\ rows[r].val = draft'[u][r].val
      BY <2>4 DEF Ordered, DraftAhead, Visible
    <3> QED
      BY <1>1, <2>1, <2>4, <3>1 DEF DraftAhead
  <2>6. draft'[u][r] # None
    BY <2>4, RowTypes
  <2>7. HeldBehind(u, r)'
    <3>1. Visible(u, r)' = draft'[u][r]
      BY <2>6 DEF Visible
    <3>2. held[u][r] # None /\ held[u][r].ver = draft'[u][r].ver /\ draft'[u][r].by = "update" =>
             held[u][r].val = draft'[u][r].val
      BY <2>4 DEF Ordered, HeldBehind
    <3> QED
      BY <1>1, <2>1, <2>4, <3>1, <3>2 DEF HeldBehind
  <2>8. KnownBehind(u, r)'
    <3>1. r \notin bulked' => r \notin bulked
      BY <1>1
    <3> QED
      BY <1>1, <3>1 DEF Ordered, KnownBehind
  <2>9. BaseSeen(u, r)'
    BY <1>1 DEF BaseSeen
  <2> QED
    BY <2>5, <2>7, <2>8, <2>9 DEF Ordered
<1> QED
  BY <1>1, <1>2, <1>3

(* Versions stay ordered, for every unit, when one commits. *)
LEMMA CommitOrdered ==
  ASSUME TInv, VersionsOrdered, NEW u \in Units, Commit(u)
  PROVE  VersionsOrdered'
<1>0. OthersKept(u) /\ NoScope(u)'
  BY CommitTypes
<1>1. /\ model' = model /\ restarted' = restarted /\ lost' = lost /\ bulked' = bulked /\ known' = known
      /\ \A r \in Rows : rows'[r] = Visible(u, r)
      /\ dreamt' = dreamt \ {<<u, r>> : r \in {s \in Rows : known[u][s] = draft[u][s]}}
  BY DEF Commit
<1> SUFFICES ASSUME model.versioned, NEW r \in Rows \ restarted, NEW v \in Units
             PROVE  Ordered(v, r)' /\ <<r, "update">> \notin lost'
  BY <1>1 DEF VersionsOrdered
<1>2. Ordered(v, r) /\ Ordered(u, r) /\ <<r, "update">> \notin lost
  BY DEF VersionsOrdered
<1>3. /\ rows[r].ver \in Nat /\ known[v][r].ver \in Nat
      /\ draft[u][r] # None => draft[u][r].ver \in Nat
      /\ held[v][r] # None => held[v][r].ver \in Nat
  BY Typed, Versions
(* What is committed is the row that was there, or is ahead of it. *)
<1>4. \/ rows'[r] = rows[r]
      \/ /\ rows'[r] = draft[u][r] /\ draft[u][r] # None
         /\ draft[u][r].ver >= rows[r].ver
         /\ draft[u][r].ver = rows[r].ver /\ draft[u][r].by = "update" =>
               rows[r].by = "update" /\ rows[r].val = draft[u][r].val
         /\ r \notin bulked => draft[u][r].ver > rows[r].ver
  BY <1>1, <1>2 DEF Visible, Ordered, DraftAhead
<1>5. ASSUME <<v, r>> \notin dreamt PROVE KnownBehind(v, r)'
  <2>1. known[v][r] # Gone =>
           /\ known[v][r].ver <= rows[r].ver
           /\ known[v][r].ver = rows[r].ver /\ rows[r].by = "update" => known[v][r].val = rows[r].val
           /\ r \notin bulked /\ known[v][r].ver = rows[r].ver => known[v][r] = rows[r]
    BY <1>2, <1>5 DEF Ordered, KnownBehind
  <2>2. CASE rows'[r] = rows[r]
    BY <1>1, <2>1, <2>2 DEF KnownBehind
  <2>3. CASE /\ rows'[r] = draft[u][r] /\ draft[u][r] # None
             /\ draft[u][r].ver >= rows[r].ver
             /\ draft[u][r].ver = rows[r].ver /\ draft[u][r].by = "update" =>
                   rows[r].by = "update" /\ rows[r].val = draft[u][r].val
             /\ r \notin bulked => draft[u][r].ver > rows[r].ver
    <3>1. known[v][r] # Gone =>
             /\ known[v][r].ver <= draft[u][r].ver
             /\ known[v][r].ver = draft[u][r].ver => draft[u][r].ver = rows[r].ver /\ r \in bulked
      BY <1>3, <2>1, <2>3
    <3>2. known[v][r] # Gone /\ known[v][r].ver = draft[u][r].ver /\ draft[u][r].by = "update" =>
             known[v][r].val = draft[u][r].val
      BY <2>1, <2>3, <3>1
    <3> QED
      BY <1>1, <2>3, <3>1, <3>2 DEF KnownBehind
  <2> QED
    BY <1>4, <2>2, <2>3
<1>6. CASE v = u
  <2>1. draft'[u][r] = None /\ held'[u][r] = None /\ op'[u].name = "idle"
    BY <1>0, NothingType DEF NoScope, Idle
  <2>2. KnownBehind(u, r)'
    <3>1. CASE <<u, r>> \notin dreamt
      BY <1>5, <1>6, <3>1
    <3>2. CASE <<u, r>> \in dreamt'
      BY <3>2 DEF KnownBehind
    <3>3. CASE known[u][r] = draft[u][r]
      <4>1. draft[u][r] # None
        BY <3>3, Typed, RowTypes
      <4>2. rows'[r] = known'[u][r] /\ known'[u][r].ver \in Nat
        BY <1>1, <1>3, <1>6, <3>3, <4>1 DEF Visible
      <4> QED
        BY <4>2 DEF KnownBehind
    <3> QED
      BY <1>1, <3>1, <3>2, <3>3
  <2> QED
    BY <1>1, <1>2, <1>6, <2>1, <2>2 DEF Ordered, DraftAhead, HeldBehind, BaseSeen
<1>7. CASE v # u
  <2>1. /\ draft'[v] = draft[v] /\ held'[v] = held[v] /\ op'[v] = op[v]
        /\ <<v, r>> \in dreamt' <=> <<v, r>> \in dreamt
    BY <1>0, <1>7 DEF OthersKept
  <2>2. KnownBehind(v, r)'
    BY <1>5, <2>1 DEF KnownBehind
  <2>3. CASE rows'[r] = rows[r]
    <3>1. Visible(v, r)' = Visible(v, r)
      BY <2>1, <2>3 DEF Visible
    <3>2. DraftAhead(v, r)'
      BY <1>1, <1>2, <2>1, <2>3 DEF Ordered, DraftAhead
    <3>3. HeldBehind(v, r)'
      BY <1>1, <1>2, <2>1, <2>3, <3>1 DEF Ordered, HeldBehind
    <3>4. BaseSeen(v, r)'
      BY <1>2, <2>1, <3>1 DEF Ordered, BaseSeen
    <3> QED
      BY <1>1, <1>2, <2>2, <3>2, <3>3, <3>4 DEF Ordered
  <2>4. CASE /\ rows'[r] = draft[u][r] /\ draft[u][r] # None
             /\ draft[u][r].ver >= rows[r].ver
             /\ draft[u][r].ver = rows[r].ver /\ draft[u][r].by = "update" =>
                   rows[r].by = "update" /\ rows[r].val = draft[u][r].val
             /\ r \notin bulked => draft[u][r].ver > rows[r].ver
    <3>1. draft[v][r] = None
      BY <1>7, <2>4 DEF TInv, Locks
    <3>2. Visible(v, r) = rows[r] /\ Visible(v, r)' = draft[u][r]
      BY <2>1, <2>4, <3>1 DEF Visible
    <3>3. DraftAhead(v, r)'
      BY <2>1, <3>1 DEF DraftAhead
    <3>4. held[v][r] # None =>
             /\ held[v][r].ver <= rows[r].ver
             /\ held[v][r].ver = rows[r].ver /\ rows[r].by = "update" => held[v][r].val = rows[r].val
      BY <1>2, <3>2 DEF Ordered, HeldBehind
    <3>5. held[v][r] # None =>
             /\ held[v][r].ver <= draft[u][r].ver
             /\ held[v][r].ver = draft[u][r].ver => draft[u][r].ver = rows[r].ver /\ r \in bulked
      BY <1>3, <2>4, <3>4
    <3>6. HeldBehind(v, r)'
      <4>1. held[v][r] # None /\ held[v][r].ver = draft[u][r].ver /\ draft[u][r].by = "update" =>
               held[v][r].val = draft[u][r].val
        BY <2>4, <3>4, <3>5
      <4> QED
        BY <1>1, <2>1, <2>4, <3>2, <3>5, <4>1 DEF HeldBehind
    <3>7. BaseSeen(v, r)'
      <4> SUFFICES ASSUME op[v].name = "update", op[v].row = r, <<v, r>> \notin dreamt,
                          draft[u][r].ver = held[v][r].ver, draft[u][r].by = "update"
                   PROVE  op[v].base = draft[u][r].val
        BY <2>1, <3>2 DEF BaseSeen
      <4>1. held[v][r] # None
        BY DEF TInv, InHand
      <4>2. rows[r].ver = held[v][r].ver /\ rows[r].by = "update" /\ rows[r].val = draft[u][r].val
        BY <2>4, <3>5, <4>1
      <4> QED
        BY <1>2, <3>2, <4>2 DEF Ordered, BaseSeen
    <3> QED
      BY <1>1, <1>2, <2>2, <3>3, <3>6, <3>7 DEF Ordered
  <2> QED
    BY <1>4, <2>3, <2>4
<1> QED
  BY <1>1, <1>2, <1>6, <1>7

(* Every step keeps versions ordered, and loses no update. *)
LEMMA VersionsStep ==
  ASSUME TInv, VersionsOrdered, NEW u \in Units, StepOf(u)
  PROVE  VersionsOrdered'
<1>0. OthersKept(u) /\ TInv' /\ model' = model
  BY StepOfTypes
<1>1. ASSUME NEW r \in Rows \ restarted, model.versioned
      PROVE  Ordered(u, r) /\ <<r, "update">> \notin lost
  BY <1>1 DEF VersionsOrdered
<1>2. CASE Closes(u)
  <2>1. /\ rows' = rows /\ known' = known /\ lost' = lost /\ restarted' = restarted /\ bulked' = bulked
        /\ dreamt' = dreamt /\ op'[u].name = "idle"
        /\ \A r \in Rows : draft'[u][r] = None /\ held'[u][r] = None
    BY <1>2, NothingType DEF Closes, history, NoScope, Idle
  <2>2. ASSUME model.versioned, NEW r \in Rows \ restarted' PROVE Ordered(u, r)' /\ <<r, "update">> \notin lost'
    <3>1. Ordered(u, r) /\ <<r, "update">> \notin lost
      BY <1>1, <2>1, <2>2
    <3> QED
      BY <2>1, <3>1 DEF Ordered, DraftAhead, HeldBehind, KnownBehind, BaseSeen
  <2> QED
    BY <1>0, <2>1, <2>2, OrderedStep
<1>3. CASE EnterBlock(u)
  <2>1. /\ rows' = rows /\ known' = known /\ lost' = lost /\ restarted' = restarted /\ bulked' = bulked
        /\ dreamt' = dreamt /\ op' = op /\ draft' = draft /\ held' = held
    BY <1>3 DEF EnterBlock
  <2>2. ASSUME model.versioned, NEW r \in Rows \ restarted' PROVE Ordered(u, r)' /\ <<r, "update">> \notin lost'
    <3>1. Ordered(u, r) /\ <<r, "update">> \notin lost
      BY <1>1, <2>1, <2>2
    <3>2. Visible(u, r)' = Visible(u, r)
      BY <2>1 DEF Visible
    <3> QED
      BY <2>1, <3>1, <3>2 DEF Ordered, DraftAhead, HeldBehind, KnownBehind, BaseSeen
  <2> QED
    BY <1>0, <2>1, <2>2, OrderedStep
<1>4. CASE Commit(u)
  BY <1>4, CommitOrdered
<1>5. ASSUME NEW s \in Rows, Get(u, s) PROVE VersionsOrdered'
  <2>1. rows' = rows /\ lost' = lost /\ restarted' = restarted /\ bulked' = bulked
    BY <1>5 DEF Get
  <2>2. ASSUME model.versioned, NEW r \in Rows \ restarted' PROVE Ordered(u, r)' /\ <<r, "update">> \notin lost'
    <3>1. Ordered(u, r) /\ <<r, "update">> \notin lost
      BY <1>1, <2>1, <2>2
    <3> QED
      BY <1>5, <2>1, <3>1, GetOrdered
  <2> QED
    BY <1>0, <2>1, <2>2, OrderedStep
<1>6. ASSUME NEW s \in Rows, Forget(u, s) PROVE VersionsOrdered'
  <2>1. /\ rows' = rows /\ known' = known /\ lost' = lost /\ restarted' = restarted /\ bulked' = bulked
        /\ dreamt' = dreamt /\ op' = op /\ draft' = draft /\ op[u] = Idle
        /\ held' = [held EXCEPT ![u][s] = None]
    BY <1>6 DEF Forget, history
  <2>2. ASSUME model.versioned, NEW r \in Rows \ restarted' PROVE Ordered(u, r)' /\ <<r, "update">> \notin lost'
    <3>1. Ordered(u, r) /\ <<r, "update">> \notin lost
      BY <1>1, <2>1, <2>2
    <3>2. held'[u][r] = held[u][r] \/ held'[u][r] = None
      BY <2>1, Typed
    <3>3. op'[u].name # "update"
      BY <2>1 DEF Idle
    <3>4. Ordered(u, r)'
      BY <2>1, <3>1, <3>2, <3>3, OrderedKept
    <3> QED
      BY <2>1, <3>1, <3>4
  <2> QED
    BY <1>0, <2>1, <2>2, OrderedStep
<1>7. CASE \E r \in Rows, expect \in BOOLEAN, name \in {"update", "delete", "restore", "hard_delete"} :
             Load(u, name, r, expect)
  <2>1. PICK s \in Rows, expect \in BOOLEAN, name \in {"update", "delete", "restore", "hard_delete"} :
           Load(u, name, s, expect)
    BY <1>7
  <2>2. /\ held'[u][s] = Fetch(u, s, LoadMode(name)) /\ \A r \in Rows \ {s} : held'[u][r] = held[u][r]
        /\ op'[u].name = name /\ op'[u].row = s
        /\ op'[u].base = IF expect THEN known[u][s].val ELSE held'[u][s].val
        /\ expect => known[u][s] # Gone /\ held'[u][s].ver = known[u][s].ver
    BY <2>1, LoadTypes
  <2>3. /\ rows' = rows /\ known' = known /\ lost' = lost /\ restarted' = restarted /\ bulked' = bulked
        /\ dreamt' = dreamt /\ draft' = draft /\ Fetch(u, s, LoadMode(name)) # Gone
    BY <2>1 DEF Load, Accepts
  <2>4. held'[u][s] \in Object /\ (held'[u][s] = held[u][s] \/ held'[u][s] = Visible(u, s))
    <3>1. held'[u][s] \in Object
      BY <2>2, <2>3, FetchType
    <3> QED
      BY <2>2, <2>3, <3>1 DEF Fetch
  <2>5. ASSUME model.versioned, NEW r \in Rows \ restarted' PROVE Ordered(u, r)' /\ <<r, "update">> \notin lost'
    <3>1. Ordered(u, r) /\ <<r, "update">> \notin lost
      BY <1>1, <2>3, <2>5
    <3>2. CASE r = s
      <4>1. \/ op'[u].base = held'[u][r].val
            \/ /\ op'[u].base = known[u][r].val
               /\ known[u][r] # Gone /\ held'[u][r].ver = known[u][r].ver
        BY <2>2, <3>2
      <4>2. Ordered(u, r)'
        BY <1>0, <2>3, <2>4, <3>1, <3>2, <4>1, UpdateBegins
      <4> QED
        BY <2>3, <3>1, <4>2
    <3>3. CASE r # s
      <4>1. held'[u][r] = held[u][r] /\ op'[u].row # r
        BY <2>2, <3>3
      <4>2. Ordered(u, r)'
        BY <2>3, <3>1, <4>1, OrderedKept
      <4> QED
        BY <2>3, <3>1, <4>2
    <3> QED
      BY <3>2, <3>3
  <2> QED
    BY <1>0, <2>3, <2>5, OrderedStep
<1>8. CASE \E r \in Rows : Create(u, r) \/ LookupMisses(u, r) \/ LookupFinds(u, r)
  <2>1. PICK s \in Rows : Create(u, s) \/ LookupMisses(u, s) \/ LookupFinds(u, s)
    BY <1>8
  <2>2. /\ op'[u].name \in {"create", "create_missing", "update_found"}
        /\ \A r \in Rows : held'[u][r] = held[u][r] \/ held'[u][r] = Visible(u, r)
    BY <2>1, LookupTypes
  <2>3. /\ rows' = rows /\ known' = known /\ lost' = lost /\ restarted' = restarted /\ bulked' = bulked
        /\ dreamt' = dreamt /\ draft' = draft
    BY <2>1 DEF Create, LookupMisses, LookupFinds
  <2>4. ASSUME model.versioned, NEW r \in Rows \ restarted' PROVE Ordered(u, r)' /\ <<r, "update">> \notin lost'
    <3>1. Ordered(u, r) /\ <<r, "update">> \notin lost
      BY <1>1, <2>3, <2>4
    <3>2. Ordered(u, r)'
      BY <2>2, <2>3, <3>1, OrderedKept
    <3> QED
      BY <2>3, <3>1, <3>2
  <2> QED
    BY <1>0, <2>3, <2>4, OrderedStep
<1>9. CASE UpdateFound(u)
  <2> DEFINE s == op[u].row
  <2>1. /\ s \in Rows /\ op[u].name = "update_found"
        /\ \/ /\ op'[u].name = "update" /\ op'[u].row = s
              /\ held'[u][s] = Fetch(u, s, "exclude") /\ op'[u].base = held'[u][s].val
           \/ op'[u].name = "create_missing" /\ held'[u][s] = held[u][s]
        /\ \A r \in Rows \ {s} : held'[u][r] = held[u][r]
        /\ rows' = rows /\ known' = known /\ draft' = draft
    BY <1>9, UpdateFoundTypes
  <2>2. lost' = lost /\ restarted' = restarted /\ bulked' = bulked /\ dreamt' = dreamt
    BY <1>9 DEF UpdateFound, history
  <2>3. ASSUME model.versioned, NEW r \in Rows \ restarted' PROVE Ordered(u, r)' /\ <<r, "update">> \notin lost'
    <3>1. Ordered(u, r) /\ <<r, "update">> \notin lost
      BY <1>1, <2>2, <2>3
    <3>2. CASE r = s /\ op'[u].name = "update"
      <4>1. held'[u][s] # None
        BY <1>0, <2>1, <3>2 DEF TInv, InHand
      <4>2. held'[u][s] \in Object
        BY <1>0, <2>1, <4>1, Typed DEF TInv, Versioned
      <4>3. held'[u][s] = held[u][s] \/ held'[u][s] = Visible(u, s)
        BY <2>1, <3>2, <4>2, RowTypes DEF Fetch
      <4>4. op'[u].base = held'[u][s].val
        BY <2>1, <3>2
      <4>5. Ordered(u, r)'
        BY <1>0, <2>1, <2>2, <3>1, <3>2, <4>2, <4>3, <4>4, UpdateBegins
      <4> QED
        BY <2>2, <3>1, <4>5
    <3>3. CASE r # s \/ op'[u].name # "update"
      <4>1. held'[u][r] = held[u][r] /\ (op'[u].name # "update" \/ op'[u].row # r)
        BY <2>1, <3>3
      <4>2. Ordered(u, r)'
        BY <2>1, <2>2, <3>1, <4>1, OrderedKept
      <4> QED
        BY <2>2, <3>1, <4>2
    <3> QED
      BY <3>2, <3>3
  <2> QED
    BY <1>0, <2>1, <2>2, <2>3, OrderedStep
<1>10. CASE Assigns(u)
  <2>1. /\ rows' = rows /\ known' = known /\ lost' = lost /\ restarted' = restarted /\ bulked' = bulked
        /\ dreamt' = dreamt /\ op'[u].name = "idle" /\ draft' = draft /\ held' = held
    BY <1>10 DEF Assigns, Idle
  <2>2. ASSUME model.versioned, NEW r \in Rows \ restarted' PROVE Ordered(u, r)' /\ <<r, "update">> \notin lost'
    <3>1. Ordered(u, r) /\ <<r, "update">> \notin lost
      BY <1>1, <2>1, <2>2
    <3>2. Ordered(u, r)'
      BY <2>1, <3>1, OrderedKept
    <3> QED
      BY <2>1, <3>1, <3>2
  <2> QED
    BY <1>0, <2>1, <2>2, OrderedStep
<1>11. CASE FlushUpdate(u)
  <2> DEFINE s == op[u].row
  <2>1. /\ s \in Rows /\ op[u].n \in Nat /\ op[u].name \in {"update", "delete", "restore"}
        /\ held[u][s] # None /\ WriteRow(u, s, op[u].name, op[u].n)
        /\ op'[u].name \in {"idle", "done"}
        /\ lost' = IF op[u].name = "update" THEN Missed(u, s, op[u].base) ELSE lost
        /\ rows' = rows /\ known' = known /\ restarted' = restarted /\ bulked' = bulked /\ dreamt' = dreamt
    BY <1>11, FlushUpdateTypes
  <2>2. ASSUME model.versioned, NEW r \in Rows \ restarted' PROVE Ordered(u, r)' /\ <<r, "update">> \notin lost'
    <3>1. Ordered(u, r) /\ <<r, "update">> \notin lost
      BY <1>1, <2>1, <2>2
    <3>2. Ordered(u, r)'
      BY <2>1, <2>2, <3>1, WriteOrdered
    <3>3. r = s /\ op[u].name = "update" /\ <<u, r>> \notin dreamt /\ Visible(u, r).by = "update" =>
             op[u].base = Visible(u, r).val
      <4>1. Visible(u, s).ver = held[u][s].ver
        BY <2>1, <2>2, WriteEffect
      <4> QED
        BY <3>1, <4>1 DEF Ordered, BaseSeen
    <3>4. <<r, "update">> \notin lost'
      BY <2>1, <3>1, <3>3 DEF Missed
    <3> QED
      BY <3>2, <3>4
  <2> QED
    BY <1>0, <2>1, <2>2, OrderedStep
<1>12. CASE FlushDirty(u)
  <2>1. /\ op[u].name = "idle" /\ op' = op /\ rows' = rows /\ known' = known
        /\ lost' = lost /\ restarted' = restarted /\ bulked' = bulked /\ dreamt' = dreamt
    BY <1>12, FlushDirtyTypes DEF history
  <2>2. PICK s \in Rows, n \in Nat : held[u][s] # None /\ WriteRow(u, s, "rejected", n)
    BY <1>12, FlushDirtyTypes
  <2>3. ASSUME model.versioned, NEW r \in Rows \ restarted' PROVE Ordered(u, r)' /\ <<r, "update">> \notin lost'
    <3>1. Ordered(u, r) /\ <<r, "update">> \notin lost
      BY <1>1, <2>1, <2>3
    <3>2. Ordered(u, r)'
      BY <2>1, <2>2, <2>3, <3>1, WriteOrdered
    <3> QED
      BY <2>1, <3>1, <3>2
  <2> QED
    BY <1>0, <2>1, <2>3, OrderedStep
<1>13. CASE FlushRemove(u)
  <2> DEFINE s == op[u].row
  <2>1. /\ s \in Rows /\ restarted' = restarted \cup {s}
        /\ \A r \in Rows \ {s} : draft'[u][r] = draft[u][r] /\ held'[u][r] = held[u][r]
        /\ op'[u].name \in {"idle", "done"}
        /\ rows' = rows /\ known' = known /\ lost' = lost /\ bulked' = bulked /\ dreamt' = dreamt
    BY <1>13, FlushRemoveTypes
  <2>2. ASSUME model.versioned, NEW r \in Rows \ restarted' PROVE Ordered(u, r)' /\ <<r, "update">> \notin lost'
    <3>1. r # s /\ Ordered(u, r) /\ <<r, "update">> \notin lost
      BY <1>1, <2>1, <2>2
    <3>2. Ordered(u, r)'
      BY <2>1, <3>1, OrderedKept
    <3> QED
      BY <2>1, <3>1, <3>2
  <2> QED
    BY <1>0, <2>1, <2>2, OrderedStep
<1>14. CASE FlushInsert(u)
  <2>1. rows' = rows /\ restarted' = restarted /\ lost' = lost /\ bulked' = bulked
    BY <1>14, FlushInsertTypes
  <2>2. ASSUME model.versioned, NEW r \in Rows \ restarted' PROVE Ordered(u, r)' /\ <<r, "update">> \notin lost'
    <3>1. Ordered(u, r) /\ <<r, "update">> \notin lost
      BY <1>1, <2>1, <2>2
    <3>2. Ordered(u, r)'
      BY <1>14, <3>1, InsertOrdered
    <3> QED
      BY <2>1, <3>1, <3>2
  <2> QED
    BY <1>0, <2>1, <2>2, OrderedStep
<1>15. CASE SetEffect(u)
  <2>1. rows' = rows /\ restarted \subseteq restarted' /\ lost' = lost /\ bulked \subseteq bulked'
    BY <1>15 DEF SetEffect
  <2>2. ASSUME model.versioned, NEW r \in Rows \ restarted' PROVE Ordered(u, r)' /\ <<r, "update">> \notin lost'
    <3>1. Ordered(u, r) /\ <<r, "update">> \notin lost
      BY <1>1, <2>1, <2>2
    <3>2. Ordered(u, r)'
      BY <1>15, <3>1, SetOrdered
    <3> QED
      BY <2>1, <3>1, <3>2
  <2> QED
    BY <1>0, <2>1, <2>2, OrderedStep
<1> QED
  BY <1>2, <1>3, <1>4, <1>5, <1>6, <1>7, <1>8, <1>9, <1>10, <1>11, <1>12, <1>13, <1>14, <1>15 DEF StepOf

-----------------------------------------------------------------------------
(* The invariant.                                                          *)

(* The invariant holds at the start. *)
LEMMA InitIInv == Init => IInv
<1> SUFFICES ASSUME Init PROVE IInv
  OBVIOUS
<1>1. /\ model \in Models /\ rows \in [Rows -> {Gone, NewRow(0, "create")}]
      /\ \A r, s \in Rows : r # s => ~(IsLive(rows[r]) /\ IsLive(rows[s]))
      /\ scope = [u \in Units |-> None] /\ draft = [u \in Units |-> Nothing]
      /\ held = [u \in Units |-> Nothing] /\ dirty = [u \in Units |-> {}]
      /\ known = [u \in Units |-> [r \in Rows |-> Gone]] /\ op = [u \in Units |-> Idle]
      /\ ops = 0 /\ lost = {} /\ restarted = {} /\ bulked = {} /\ dreamt = {}
      /\ serial = TRUE /\ swallowed = FALSE
  BY DEF Init
<1>2. NewRow(0, "create") \in Object /\ NewRow(0, "create").by = "create" /\ Gone.by = "create"
  <2>1. NewRow(0, "create") \in Object
    BY MadeTypes DEF Kinds
  <2> QED
    BY <2>1 DEF NewRow, Gone
<1>3. Versioned
  BY <1>1, <1>2, NothingType, RowTypes DEF Versioned
<1>4. TypeOK
  <2>1. /\ rows \in [Rows -> Row] /\ known \in [Units -> [Rows -> Row]]
        /\ draft \in [Units -> [Rows -> Row \cup {None}]] /\ held \in [Units -> [Rows -> Row \cup {None}]]
    BY <1>3, RowTypes DEF Versioned
  <2>2. op \in [Units -> Op]
    BY <1>1, OpTypes
  <2> QED
    BY <1>1, <2>1, <2>2 DEF TypeOK, Op
<1>5. InHand /\ Locks
  BY <1>1, NothingType DEF InHand, Locks, Idle
<1>6. \A u \in Units, r \in Rows : Visible(u, r) = rows[r]
  BY <1>1, NothingType DEF Visible
<1>7. VersionsOrdered
  BY <1>1, NothingType DEF VersionsOrdered, Ordered, DraftAhead, HeldBehind, KnownBehind, BaseSeen, Idle
<1>8. RejectedNowhere
  BY <1>1, <1>2, NothingType DEF RejectedNowhere
<1>9. OneLiveRow
  BY <1>1, <1>6 DEF OneLiveRow, Idle
<1> QED
  BY <1>3, <1>4, <1>5, <1>7, <1>8, <1>9 DEF IInv, TInv

(* The invariant holds while nothing changes. *)
LEMMA StutterIInv ==
  ASSUME IInv, UNCHANGED vars
  PROVE  IInv'
<1>1. UNCHANGED <<model, rows, scope, draft, held, dirty, known, op, ops, lost, restarted, bulked,
                  serial, swallowed, dreamt>>
  BY DEF vars, data, history
<1>2. TypeOK'
  BY <1>1 DEF IInv, TInv, TypeOK
<1>3. Versioned' /\ InHand' /\ Locks'
  BY <1>1 DEF IInv, TInv, Versioned, InHand, Locks
<1>4. VersionsOrdered'
  <2> SUFFICES ASSUME model.versioned, NEW r \in Rows \ restarted
               PROVE  <<r, "update">> \notin lost' /\ \A u \in Units : Ordered(u, r)'
    BY <1>1 DEF VersionsOrdered
  <2>1. <<r, "update">> \notin lost /\ \A u \in Units : Ordered(u, r)
    BY DEF IInv, VersionsOrdered
  <2>2. ASSUME NEW u \in Units PROVE Ordered(u, r)'
    <3>1. Visible(u, r)' = Visible(u, r)
      BY <1>1 DEF Visible
    <3>2. DraftAhead(u, r)' /\ KnownBehind(u, r)'
      BY <1>1, <2>1 DEF Ordered, DraftAhead, KnownBehind
    <3>3. HeldBehind(u, r)' /\ BaseSeen(u, r)'
      BY <1>1, <2>1, <3>1 DEF Ordered, HeldBehind, BaseSeen
    <3> QED
      BY <3>2, <3>3 DEF Ordered
  <2> QED
    BY <1>1, <2>1, <2>2
<1>5. RejectedNowhere'
  BY <1>1 DEF IInv, RejectedNowhere
<1>6. OneLiveRow'
  BY <1>1 DEF IInv, OneLiveRow, Visible, Keyed, IsLive
<1> QED
  BY <1>2, <1>3, <1>4, <1>5, <1>6 DEF IInv, TInv

(* Every step keeps the invariant. *)
LEMMA NextIInv ==
  ASSUME IInv, [Next]_vars
  PROVE  IInv'
<1>1. CASE Next
  <2>1. TInv /\ VersionsOrdered /\ RejectedNowhere /\ OneLiveRow
    BY DEF IInv
  <2>2. PICK u \in Units : StepOf(u)
    BY <1>1, <2>1, StepKinds
  <2> QED
    BY <2>1, <2>2, StepOfTypes, VersionsStep, RejectedStep, OneLiveStep DEF IInv
<1>2. CASE UNCHANGED vars
  BY <1>2, StutterIInv
<1> QED
  BY <1>1, <1>2

(* The inductive invariant holds in every state of every run.              *)
THEOREM Invariance == Spec => []IInv
<1> QED
  BY InitIInv, NextIInv, PTL DEF Spec

-----------------------------------------------------------------------------
(* What follows.                                                           *)

(* Whatever the models, and however many tasks, rows and calls: the types,  *)
(* and that a unit without a scope holds nothing of a session.             *)
THEOREM TypeCorrect == Spec => []TypeOK
<1>1. IInv => TypeOK
  BY DEF IInv, TInv
<1> QED
  BY <1>1, Invariance, PTL

(* Optimistic locking: no repository.update overwrites an update that it   *)
(* had not seen, although expected_version is compared with a copy that    *)
(* the identity map kept (update and _flush_or_conflict of base.py), until *)
(* the row is physically deleted or a bulk_upsert sets its version back.   *)
THEOREM NoUpdateIsLost == Spec => []NoLostUpdate
<1>1. IInv => NoLostUpdate
  BY DEF IInv, VersionsOrdered, NoLostUpdate
<1> QED
  BY <1>1, Invariance, PTL

(* Whoever finds the version it kept in the table again finds the row it   *)
(* kept, as long as no set-based statement and no physical delete wrote    *)
(* it: each flush of a mapped object raises the version it read.           *)
THEOREM VersionsNameContents == Spec => []VersionNamesContent
<1>1. IInv => VersionNamesContent
  <2> SUFFICES ASSUME IInv, model.versioned, NEW u \in Units, NEW r \in Rows \ (restarted \cup bulked),
                      known[u][r] # Gone, <<u, r>> \notin dreamt, known[u][r].ver = rows[r].ver
               PROVE  known[u][r] = rows[r]
    BY DEF VersionNamesContent
  <2>1. KnownBehind(u, r)
    BY DEF IInv, VersionsOrdered, Ordered
  <2> QED
    BY <2>1 DEF KnownBehind
<1> QED
  BY <1>1, Invariance, PTL

(* What a rejected update assigned is never committed, unless its block     *)
(* went on: session_scope rolls back on every exception.                   *)
THEOREM RejectedValuesStayOut == Spec => []RejectedStaysOut
<1>1. IInv => RejectedStaysOut
  BY DEF IInv, RejectedNowhere, RejectedStaysOut
<1> QED
  BY <1>1, Invariance, PTL

(* While one scope follows another, get_or_create and update_or_create     *)
(* never make a second live row for a key, as long as no row is inserted,  *)
(* restored, or revived by a bulk_upsert, without a lookup.                *)
THEOREM NoSerialDuplicates == Spec => []DuplicatesNeedOverlap
<1>1. IInv => DuplicatesNeedOverlap
  <2> SUFFICES ASSUME IInv, serial PROVE Cardinality({r \in Rows : IsLive(rows[r])}) <= 1
    BY DEF DuplicatesNeedOverlap
  <2>1. \A r, s \in Rows : IsLive(rows[r]) /\ IsLive(rows[s]) => r = s
    BY DEF IInv, OneLiveRow
  <2>2. CASE \E r \in Rows : IsLive(rows[r])
    <3>1. PICK r \in Rows : IsLive(rows[r])
      BY <2>2
    <3>2. {s \in Rows : IsLive(rows[s])} = {r}
      BY <2>1, <3>1
    <3>3. Cardinality({r}) = 1
      BY FS_Singleton
    <3>4. Cardinality({s \in Rows : IsLive(rows[s])}) = 1
      BY <3>2, <3>3, Zenon
    <3> QED
      BY <3>4
  <2>3. CASE ~\E r \in Rows : IsLive(rows[r])
    <3>1. {s \in Rows : IsLive(rows[s])} = {}
      BY <2>3
    <3> QED
      BY <3>1, FS_EmptySet
  <2> QED
    BY <2>2, <2>3
<1> QED
  BY <1>1, Invariance, PTL

(* The write of a step over a tombstone. *)
Revives(u, r) ==
    /\ Visible(u, r).dead
    /\ draft'[u][r] \notin {None, draft[u][r]}
    /\ IsLive(draft'[u][r])

(* The upsert of an instance that was read while the row was live. *)
SentBack(u, r) ==
    \E object \in Instances(u, r) : IsLive(object) /\ draft'[u][r] = Whole(object, ops')

(* A step that brings a row back is one of a restore, or such an upsert. *)
LEMMA RevivesOnlyByRestore ==
  ASSUME TInv, Next, NEW u \in Units, NEW r \in Rows, Revives(u, r)
  PROVE  op[u].name = "restore" \/ SentBack(u, r)
<1>1. PICK w \in Units : StepOf(w)
  BY StepKinds
<1>2. /\ draft'[u][r] # None /\ draft'[u][r] # draft[u][r]
      /\ Visible(u, r).dead /\ ~draft'[u][r].dead /\ draft'[u][r] # Gone
  BY DEF Revives, IsLive
<1>3. u = w
  <2>1. OthersKept(w)
    BY <1>1, StepOfTypes
  <2> QED
    BY <1>2, <2>1 DEF OthersKept
<1>4. Visible(u, r) # Gone
  BY <1>2 DEF Gone
<1>5. draft' # draft
  BY <1>2
<1>6. ~NoScope(u)'
  BY <1>2, NothingType DEF NoScope
<1>7. CASE Closes(u) \/ Commit(u)
  BY <1>6, <1>7, CommitTypes DEF Closes
<1>8. CASE EnterBlock(u) \/ UpdateFound(u) \/ Assigns(u)
  BY <1>5, <1>8 DEF EnterBlock, UpdateFound, Assigns
<1>9. CASE \E s \in Rows : Get(u, s) \/ Forget(u, s)
  BY <1>5, <1>9 DEF Get, Forget
<1>10. CASE \E s \in Rows, expect \in BOOLEAN, name \in {"update", "delete", "restore", "hard_delete"} :
             Load(u, name, s, expect)
  BY <1>5, <1>10 DEF Load
<1>11. CASE \E s \in Rows : Create(u, s) \/ LookupMisses(u, s) \/ LookupFinds(u, s)
  BY <1>5, <1>11 DEF Create, LookupMisses, LookupFinds
<1>12. ASSUME NEW s \in Rows, NEW name, NEW n \in Nat, held[u][s] # None, WriteRow(u, s, name, n)
       PROVE  name = "restore"
  <2>1. /\ draft'[u][s] = Assigned(name, Visible(u, s), n)
        /\ \A t \in Rows \ {s} : draft'[u][t] = draft[u][t]
    BY <1>12, WriteEffect
  <2>2. r = s
    BY <1>2, <2>1
  <2>3. name # "restore" /\ Visible(u, r).dead => Assigned(name, Visible(u, r), n).dead
    BY DEF Assigned
  <2> QED
    BY <1>2, <2>1, <2>2, <2>3
<1>13. CASE FlushUpdate(u)
  <2>1. /\ op[u].row \in Rows /\ op[u].n \in Nat /\ held[u][op[u].row] # None
        /\ WriteRow(u, op[u].row, op[u].name, op[u].n)
    BY <1>13, FlushUpdateTypes
  <2> QED
    BY <1>12, <2>1
<1>14. CASE FlushDirty(u)
  <2>1. PICK s \in Rows, n \in Nat : held[u][s] # None /\ WriteRow(u, s, "rejected", n)
    BY <1>14, FlushDirtyTypes
  <2>2. "rejected" = "restore"
    BY <1>12, <2>1
  <2> QED
    BY <2>2
<1>15. CASE FlushRemove(u)
  <2>1. /\ draft'[u][op[u].row] \in {draft[u][op[u].row], Gone}
        /\ \A s \in Rows \ {op[u].row} : draft'[u][s] = draft[u][s]
    BY <1>15, FlushRemoveTypes
  <2> QED
    BY <1>2, <2>1
<1>16. CASE FlushInsert(u)
  <2>1. /\ Visible(u, op[u].row) = Gone
        /\ \A s \in Rows \ {op[u].row} : draft'[u][s] = draft[u][s]
    BY <1>16, FlushInsertTypes
  <2> QED
    BY <1>2, <1>4, <2>1
<1>17. CASE SetEffect(u)
  <2>1. SetWritten(u, r)
    BY <1>2, <1>17 DEF SetEffect
  <2>2. \A n \in Nat : Bulk(Visible(u, r), n).dead
    BY <1>2 DEF Bulk
  <2>3. Stamped(Visible(u, r)).dead
    BY DEF Stamped
  <2>4. ASSUME NEW object \in Instances(u, r), draft'[u][r] = Whole(object, ops')
        PROVE  IsLive(object)
    <3>1. ops' \in Nat
      BY <1>17 DEF SetEffect, TInv, TypeOK
    <3>2. object \in Object /\ ~object.dead
      BY <1>2, <2>4, <3>1, InstanceTypes, WholeType
    <3> QED
      BY <3>2, RowTypes DEF IsLive
  <2> QED
    BY <1>2, <1>4, <2>1, <2>2, <2>3, <2>4 DEF SetWritten, SentBack
<1> QED
  BY <1>1, <1>3, <1>7, <1>8, <1>9, <1>10, <1>11, <1>13, <1>14, <1>15, <1>16, <1>17 DEF StepOf

(* No write but restore() brings a tombstone back, neither an update of a  *)
(* copy that was loaded before the delete nor an insert over it nor a      *)
(* set-based statement, save one: the bulk_upsert of an instance that was  *)
(* read while the row was live (_set_columns of upsert.py takes all of the *)
(* instance's columns, deleted_at included).                               *)
THEOREM OnlyRestoreBringsBack == Spec => OnlyRestoreRevives
<1>1. ASSUME IInv, [Next]_vars
      PROVE  [\A u \in Units, r \in Rows :
                 /\ Visible(u, r).dead
                 /\ draft'[u][r] \notin {None, draft[u][r]}
                 /\ IsLive(draft'[u][r])
                 => \/ op[u].name = "restore"
                    \/ \E object \in Instances(u, r) :
                          IsLive(object) /\ draft'[u][r] = Whole(object, ops')]_vars
  BY <1>1, RevivesOnlyByRestore DEF IInv, Revives, SentBack
<1> QED
  BY <1>1, Invariance, PTL DEF Spec, OnlyRestoreRevives

=============================================================================
