----------------------------- MODULE ReadCache -----------------------------
(***************************************************************************)
(* The read-through cache of one model (alchemiq/cache/ops.py, memory.py,  *)
(* redis.py and the reads of repository/base.py): query results are kept   *)
(* under the table's version counter, single objects under their primary   *)
(* key.  A write invalidates after its commit: it bumps the counter and    *)
(* deletes the object keys it touched.                                     *)
(*                                                                         *)
(* Every await is a step, so reads, writes and invalidations of different  *)
(* clients interleave at each of them.  The cache backend is external:     *)
(* single operations are atomic, entries may expire, any call may fail and *)
(* is then treated as ops.py treats it.  The database is external, READ    *)
(* COMMITTED.  A block is a UnitOfWork: its session keeps the objects it   *)
(* loaded, and a later SELECT returns them with the attributes they have.  *)
(*                                                                         *)
(* Keys of queries and of objects never meet in the cache, so a behaviour  *)
(* follows the cached reads of one kind.                                   *)
(***************************************************************************)
EXTENDS Integers

CONSTANTS
  Clients,       \* asyncio tasks, in any process
  BlockClients,  \* those that read inside UnitOfWork blocks
  Rows,          \* primary keys of the model
  None,          \* no cache entry
  List,          \* the kind of a query read; the kind of any other is its row
  MaxWrites,     \* bound: writes and manual evictions
  MaxFaults      \* bound: crashes and failing calls that lose something

ASSUME ReadCacheAssumption ==
  /\ BlockClients \subseteq Clients
  /\ List \notin Rows
  /\ MaxWrites \in Nat
  /\ MaxFaults \in Nat

Numbers == 0..MaxWrites

(* A version of a row: which write made it and whether the row then exists. *)
Version == [num : Numbers, live : BOOLEAN]
Snapshot == [Rows -> Version]

(* An uncommitted write. *)
Tx == [row : Rows, to : Version]

ASSUME NoneAssumption == None \notin Version /\ None \notin Snapshot /\ None \notin Tx

VARIABLES
  kind,          \* the kind of read this behaviour follows
  db,            \* db[k]: the committed version of row k
  clock,         \* writes and evictions so far
  counter,       \* the table's version counter; a missing key reads as 0
  lists,         \* lists[v]: result of the query cached under version v, or None
  objs,          \* objs[k]: cached object k, or None
  block,         \* block[c]: c is inside a block
  loaded,        \* loaded[c]: objects held by its session, each None or a version
  tx,            \* tx[c]: the uncommitted write of c, or None
  owes,          \* owes[c]: what c's post-commit callback has yet to do
  read,          \* read[c]: the read c is in
  faults,        \* faults so far
  settled,       \* history: settled[k]: last write of k whose bump succeeded
  unbumped,      \* history: rows with a write whose bump was lost
  unpurged,      \* history: rows whose key a lost callback should have deleted
  raced,         \* history: objects filled from before a completed delete
  blockLists,    \* history: versions whose entry was filled inside a block
  blockObjs      \* history: rows whose entry was filled inside a block

sessionVars == <<block, loaded, tx>>
dbVars == <<kind, db, clock, sessionVars>>
cacheVars == <<counter, lists, objs>>
historyVars == <<settled, unbumped, unpurged, raced, blockLists, blockObjs>>
vars == <<dbVars, cacheVars, owes, read, faults, historyVars>>

(* A post-commit callback: bump the counter for the rows written, then delete
   the object keys of purge. *)
Duty == [bump : BOOLEAN, rows : SUBSET Rows, purge : SUBSET Rows]
NoDuty == [bump |-> FALSE, rows |-> {}, purge |-> {}]

Reading == [at    : {"none", "version", "lookup", "fetch", "fill"},
            under : Numbers,                      \* version of the key
            got   : {None} \union Snapshot,       \* the rows fetched
            floor : [Rows -> Numbers],            \* settled when the read began
            blind : BOOLEAN,                      \* reading the counter failed
            late  : BOOLEAN]                      \* the key was deleted since the fetch
NoRead == [at |-> "none", under |-> 0, got |-> None,
           floor |-> [k \in Rows |-> 0], blind |-> FALSE, late |-> FALSE]

NothingLoaded == [k \in Rows |-> None]

TypeOK ==
  /\ kind \in Rows \union {List}
  /\ db \in Snapshot
  /\ clock \in Numbers
  /\ counter \in Numbers
  /\ lists \in [Numbers -> {None} \union Snapshot]
  /\ objs \in [Rows -> {None} \union Version]
  /\ block \in [Clients -> BOOLEAN]
  /\ loaded \in [Clients -> [Rows -> {None} \union Version]]
  /\ tx \in [Clients -> {None} \union Tx]
  /\ owes \in [Clients -> Duty]
  /\ read \in [Clients -> Reading]
  /\ faults \in 0..MaxFaults
  /\ settled \in [Rows -> Numbers]
  /\ unbumped \subseteq Rows /\ unpurged \subseteq Rows /\ raced \subseteq Rows
  /\ blockLists \subseteq Numbers /\ blockObjs \subseteq Rows

Init ==
  /\ kind \in Rows \union {List}
  /\ db = [k \in Rows |-> [num |-> 0, live |-> TRUE]]
  /\ clock = 0
  /\ counter = 0
  /\ lists = [v \in Numbers |-> None]
  /\ objs = [k \in Rows |-> None]
  /\ block = [c \in Clients |-> FALSE]
  /\ loaded = [c \in Clients |-> NothingLoaded]
  /\ tx = [c \in Clients |-> None]
  /\ owes = [c \in Clients |-> NoDuty]
  /\ read = [c \in Clients |-> NoRead]
  /\ faults = 0
  /\ settled = [k \in Rows |-> 0]
  /\ unbumped = {} /\ unpurged = {} /\ raced = {}
  /\ blockLists = {} /\ blockObjs = {}

-----------------------------------------------------------------------------
(* Writes. *)

Idle(c) == owes[c] = NoDuty /\ read[c].at = "none"

EnterBlock(c) ==
  /\ c \in BlockClients
  /\ Idle(c) /\ tx[c] = None /\ ~block[c]
  /\ block' = [block EXCEPT ![c] = TRUE]
  /\ UNCHANGED <<kind, db, clock, loaded, tx, cacheVars, owes, read, faults, historyVars>>

(* The session of c is closed. *)
EndSession(c) ==
  /\ block' = [block EXCEPT ![c] = FALSE]
  /\ loaded' = [loaded EXCEPT ![c] = NothingLoaded]
  /\ tx' = [tx EXCEPT ![c] = None]

(* create, update or delete of row k, flushed but not committed; the row lock
   keeps other writers of k out. *)
Write(c, k) ==
  /\ Idle(c) /\ tx[c] = None
  /\ clock < MaxWrites
  /\ \A d \in Clients : tx[d] # None => tx[d].row # k
  /\ \E live \in BOOLEAN :
       /\ live \/ db[k].live
       /\ tx' = [tx EXCEPT ![c] = [row |-> k, to |-> [num |-> clock + 1, live |-> live]]]
  /\ clock' = clock + 1
  /\ UNCHANGED <<kind, db, block, loaded, cacheVars, owes, read, faults, historyVars>>

(* Variant: an update or a delete leaves the object's key. *)
PurgedByNothing(k) == {{}}

(* Which object keys the callback of a write of k deletes: the row's
   (invalidate_row) or the model's (invalidate_model, after a bulk write). *)
PurgedBy(k) == {{k}, Rows}

(* Commit, and the callback becomes due.  A create bumps only; restore and
   bulk_upsert, which also bring a row to life, purge as an update does. *)
Commit(c) ==
  /\ Idle(c) /\ tx[c] # None
  /\ LET k == tx[c].row IN
       /\ db' = [db EXCEPT ![k] = tx[c].to]
       /\ \E purge \in IF db[k].live THEN PurgedBy(k) ELSE PurgedBy(k) \union {{}} :
            owes' = [owes EXCEPT ![c] = [bump |-> TRUE, rows |-> {k}, purge |-> purge]]
  /\ EndSession(c)
  /\ UNCHANGED <<kind, clock, cacheVars, read, faults, historyVars>>

(* A rollback, or the end of a block that wrote nothing. *)
Abort(c) ==
  /\ Idle(c) /\ (block[c] \/ tx[c] # None)
  /\ EndSession(c)
  /\ UNCHANGED <<kind, db, clock, cacheVars, owes, read, faults, historyVars>>

(* cache_evict and cache_clear *)
Evict(c) ==
  /\ Idle(c) /\ tx[c] = None
  /\ clock < MaxWrites
  /\ clock' = clock + 1
  /\ \E purge \in {{k} : k \in Rows} \union {Rows} :
       owes' = [owes EXCEPT ![c] = [bump |-> TRUE, rows |-> {}, purge |-> purge]]
  /\ UNCHANGED <<kind, db, sessionVars, cacheVars, read, faults, historyVars>>

-----------------------------------------------------------------------------
(* The callback. *)

(* Variant: the counter is bumped by bump_version and by invalidate_row. *)
BumpTwice(c) ==
  /\ owes[c].bump
  /\ counter' = counter + 2
  /\ settled' = [k \in Rows |-> IF k \in owes[c].rows THEN db[k].num ELSE settled[k]]
  /\ owes' = [owes EXCEPT ![c].bump = FALSE, ![c].rows = {}]
  /\ UNCHANGED <<dbVars, lists, objs, read, faults, unbumped, unpurged, raced, blockLists, blockObjs>>

(* incr of the version counter *)
Bump(c) ==
  /\ owes[c].bump
  /\ counter' = counter + 1
  /\ settled' = [k \in Rows |-> IF k \in owes[c].rows THEN db[k].num ELSE settled[k]]
  /\ owes' = [owes EXCEPT ![c].bump = FALSE, ![c].rows = {}]
  /\ UNCHANGED <<dbVars, lists, objs, read, faults, unbumped, unpurged, raced, blockLists, blockObjs>>

(* delete of one object key *)
Purge(c, k) ==
  /\ ~owes[c].bump /\ k \in owes[c].purge
  /\ objs' = [objs EXCEPT ![k] = None]
  /\ owes' = [owes EXCEPT ![c].purge = @ \ {k}]
  /\ raced' = raced \ {k}
  /\ unpurged' = unpurged \ {k}
  /\ blockObjs' = blockObjs \ {k}
  /\ read' = [d \in Clients |->
       IF read[d].at = "fill" /\ kind = k THEN [read[d] EXCEPT !.late = TRUE]
       ELSE read[d]]
  /\ UNCHANGED <<dbVars, counter, lists, faults, settled, unbumped, blockLists>>

(* A call of the callback fails and is logged, and the rest goes on. *)
BumpFails(c) ==
  /\ faults < MaxFaults
  /\ owes[c].bump
  /\ faults' = faults + 1
  /\ unbumped' = unbumped \union owes[c].rows
  /\ owes' = [owes EXCEPT ![c].bump = FALSE, ![c].rows = {}]
  /\ UNCHANGED <<dbVars, cacheVars, read, settled, unpurged, raced, blockLists, blockObjs>>

(* In bulk_update's callback the first failing delete ends it. *)
PurgeFails(c, k) ==
  /\ faults < MaxFaults
  /\ ~owes[c].bump /\ k \in owes[c].purge
  /\ faults' = faults + 1
  /\ \E missed \in {{k}, owes[c].purge} :
       /\ unpurged' = unpurged \union missed
       /\ owes' = [owes EXCEPT ![c].purge = @ \ missed]
  /\ UNCHANGED <<dbVars, cacheVars, read, settled, unbumped, raced, blockLists, blockObjs>>

(* The process dies or the task is cancelled before its callback ran.  Death
   at any other point is an Abort or a FillFails. *)
Crash(c) ==
  /\ faults < MaxFaults
  /\ owes[c] # NoDuty
  /\ faults' = faults + 1
  /\ unbumped' = unbumped \union owes[c].rows
  /\ unpurged' = unpurged \union owes[c].purge
  /\ owes' = [owes EXCEPT ![c] = NoDuty]
  /\ UNCHANGED <<dbVars, cacheVars, read, settled, raced, blockLists, blockObjs>>

-----------------------------------------------------------------------------
(* Reads: read_list (read_count and read_exists alike) and read_obj. *)

Reads(c, at) == read[c].at = at
Advance(c, r) == read' = [read EXCEPT ![c] = r]

MayRead(c) == Idle(c) /\ (tx[c] = None \/ block[c])

StartRead(c) ==
  /\ MayRead(c)
  /\ Advance(c, IF kind = List THEN [NoRead EXCEPT !.at = "version", !.floor = settled]
                ELSE [NoRead EXCEPT !.at = "lookup"])
  /\ UNCHANGED <<dbVars, cacheVars, owes, faults, historyVars>>

(* Variant: the key is made from a version remembered from the start. *)
GetVersionStale(c) ==
  /\ Reads(c, "version")
  /\ Advance(c, [read[c] EXCEPT !.at = "lookup", !.under = 0])
  /\ UNCHANGED <<dbVars, cacheVars, owes, faults, historyVars>>

(* _version *)
GetVersion(c) ==
  /\ Reads(c, "version")
  /\ Advance(c, [read[c] EXCEPT !.at = "lookup", !.under = counter])
  /\ UNCHANGED <<dbVars, cacheVars, owes, faults, historyVars>>

(* A failing get reads as a missing counter, which is version 0. *)
GetVersionFails(c) ==
  /\ faults < MaxFaults
  /\ Reads(c, "version")
  /\ faults' = faults + 1
  /\ Advance(c, [read[c] EXCEPT !.at = "lookup", !.under = 0, !.blind = TRUE])
  /\ UNCHANGED <<dbVars, cacheVars, owes, historyVars>>

Cached(c) == (IF kind = List THEN lists[read[c].under] ELSE objs[kind]) # None

(* decode_rows, decode_row: the read returns what the cache holds. *)
Hit(c) ==
  /\ Reads(c, "lookup") /\ Cached(c)
  /\ Advance(c, NoRead)
  /\ UNCHANGED <<dbVars, cacheVars, owes, faults, historyVars>>

(* No entry, or a failing get, which reads as none. *)
Miss(c) ==
  /\ Reads(c, "lookup")
  /\ Advance(c, [read[c] EXCEPT !.at = "fetch"])
  /\ UNCHANGED <<dbVars, cacheVars, owes, faults, historyVars>>

(* What a SELECT of c returns: committed rows, its own uncommitted write, and
   for an object its session holds the attributes it was loaded with. *)
Sees(c) ==
  [k \in Rows |->
     IF tx[c] # None /\ tx[c].row = k THEN tx[c].to
     ELSE IF loaded[c][k] # None /\ db[k].live THEN loaded[c][k]
     ELSE db[k]]

(* The application holds the objects a block gave it until the block ends, and
   so does the session. *)
Loads(c, rows) ==
  loaded' = [loaded EXCEPT ![c] =
    [k \in Rows |-> IF block[c] /\ k \in rows /\ Sees(c)[k].live THEN Sees(c)[k] ELSE @[k]]]

(* Any read of a block that is not cached: its session loads the rows. *)
Load(c) ==
  /\ block[c] /\ MayRead(c)
  /\ Loads(c, Rows)
  /\ UNCHANGED <<kind, db, clock, block, tx, cacheVars, owes, read, faults, historyVars>>

(* fetch(): an object that does not exist raises NotFoundError, and nothing is
   cached. *)
Fetch(c) ==
  /\ Reads(c, "fetch")
  /\ LET rows == IF kind = List THEN Rows ELSE {kind} IN
       /\ Loads(c, rows)
       /\ Advance(c, IF kind = List \/ Sees(c)[kind].live
                     THEN [read[c] EXCEPT !.at = "fill", !.got = Sees(c)] ELSE NoRead)
  /\ UNCHANGED <<kind, db, clock, block, tx, cacheVars, owes, faults, historyVars>>

(* Variant: the key of the set is computed afresh. *)
FillVersionNow(c) == counter

(* The version of the key a query's result is stored under. *)
FillVersion(c) == read[c].under

(* set under the key computed at the start, and the read returns its rows. *)
Fill(c) ==
  /\ Reads(c, "fill")
  /\ LET r == read[c]
         mark(S, x) == IF block[c] THEN S \union {x} ELSE S \ {x}
     IN
       /\ IF kind = List
          THEN /\ lists' = [lists EXCEPT ![FillVersion(c)] = r.got]
               /\ blockLists' = mark(blockLists, FillVersion(c))
               /\ UNCHANGED <<objs, raced, blockObjs>>
          ELSE /\ objs' = [objs EXCEPT ![kind] = r.got[kind]]
               /\ blockObjs' = mark(blockObjs, kind)
               /\ raced' = IF r.late THEN raced \union {kind} ELSE raced \ {kind}
               /\ UNCHANGED <<lists, blockLists>>
       /\ Advance(c, NoRead)
  /\ UNCHANGED <<dbVars, counter, owes, faults, settled, unbumped, unpurged>>

FillFails(c) ==
  /\ Reads(c, "fill")
  /\ Advance(c, NoRead)
  /\ UNCHANGED <<dbVars, cacheVars, owes, faults, historyVars>>

(* The time to live of an entry passes; the counter has none. *)
ExpireList(v) ==
  /\ lists[v] # None
  /\ lists' = [lists EXCEPT ![v] = None]
  /\ blockLists' = blockLists \ {v}
  /\ UNCHANGED <<dbVars, counter, objs, owes, read, faults, settled, unbumped, unpurged, raced,
                 blockObjs>>

ExpireObj(k) ==
  /\ objs[k] # None
  /\ objs' = [objs EXCEPT ![k] = None]
  /\ raced' = raced \ {k}
  /\ blockObjs' = blockObjs \ {k}
  /\ UNCHANGED <<dbVars, counter, lists, owes, read, faults, settled, unbumped, unpurged,
                 blockLists>>

-----------------------------------------------------------------------------
Invalidate(c) == Bump(c) \/ BumpFails(c) \/ (\E k \in Rows : Purge(c, k) \/ PurgeFails(c, k))

ReadStep(c) == GetVersion(c) \/ GetVersionFails(c) \/ Hit(c) \/ Miss(c) \/ Fetch(c)
               \/ Fill(c) \/ FillFails(c)

Client(c) ==
  \/ EnterBlock(c) \/ (\E k \in Rows : Write(c, k)) \/ Commit(c) \/ Abort(c) \/ Evict(c) \/ Crash(c)
  \/ Invalidate(c)
  \/ StartRead(c) \/ Load(c) \/ ReadStep(c)

Expire == (\E v \in Numbers : ExpireList(v)) \/ (\E k \in Rows : ExpireObj(k))

Next == Expire \/ \E c \in Clients : Client(c)

Spec == Init /\ [][Next]_vars

-----------------------------------------------------------------------------
(* What the query of c returns if its next step ends it. *)
Returning(c) ==
  IF kind # List THEN None
  ELSE IF Reads(c, "lookup") THEN lists[read[c].under]
  ELSE IF Reads(c, "fill") THEN read[c].got ELSE None

AsNewAsFloor(c) ==
  Returning(c) # None => \A k \in Rows : Returning(c)[k].num >= read[c].floor[k]

(* A query outside any block is at least as new as every write whose
   invalidation had bumped the counter when the query began: "Any write bumps
   the counter, which invalidates all version-keyed query results". *)
QueriesHonourInvalidation ==
  \A c \in Clients : ~block[c] => AsNewAsFloor(c)

(* It is so unless reading the counter failed, or the rows come from the
   session of a block, perhaps by way of the cache. *)
CleanQueriesHonourInvalidation ==
  \A c \in Clients :
    ~block[c] /\ ~read[c].blind /\ read[c].under \notin blockLists => AsNewAsFloor(c)

(* The result cached under the current version differs from the database in a
   row only while the bump of a write of the row is due, after such a bump was
   lost, or when it was filled inside a block. *)
CurrentListCoherent ==
  lists[counter] # None /\ counter \notin blockLists =>
    \A k \in Rows : lists[counter][k] # db[k] =>
      k \in unbumped \/ \E c \in Clients : k \in owes[c].rows

(* A cached object differs from its row only while the delete of its key is
   due or was lost, when it was filled inside a block, or when a slow fill
   stored what it had fetched before the delete. *)
ObjectsCoherent ==
  \A k \in Rows : objs[k] # None /\ objs[k] # db[k] =>
    \/ k \in unpurged \/ k \in raced \/ k \in blockObjs
    \/ \E c \in Clients : k \in owes[c].purge
=============================================================================
