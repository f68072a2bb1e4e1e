----------------------------- MODULE UnitOfWork -----------------------------
(***************************************************************************)
(* Transactions, their nesting and the invalidations they owe the cache    *)
(* (alchemiq/runtime/unit_of_work.py, session.py, post_commit.py,          *)
(* signals/registry.py and the write operations of repository/base.py).    *)
(*                                                                         *)
(* A task is one asyncio task with its context variables _active_session   *)
(* (here ambient) and _region (here region and queued).  Its frames are    *)
(* the scopes it is inside: UnitOfWork blocks, savepoints and repository   *)
(* writes; a frame may be entered from a signal handler of the write below *)
(* it.  A frame that owns a session commits it; any other frame joined.    *)
(*                                                                         *)
(* The database is external: rows hold numbered writes, a session locks    *)
(* the rows it wrote until it ends, and its writes appear at its commit.   *)
(***************************************************************************)
EXTENDS Integers, Sequences, SequencesExt

CONSTANTS
  Tasks,         \* asyncio tasks
  Rows,          \* rows of the cached models
  NoRow,         \* not a row
  Usage,         \* what application code does beyond plain blocks and writes
  MaxScopes,     \* bound: frames ever entered
  MaxDepth,      \* bound: frames a task is inside
  MaxFaults      \* bound: cancellations, lost commits, failing callbacks

(* midCommit: uow.commit() in the middle of a block.  swallow: an exception is
   caught inside the block that owns the transaction, without a savepoint.
   handlerWrites: signal handlers of writes outside any block use repositories. *)
Liberties == {"midCommit", "swallow", "handlerWrites"}

ASSUME UnitOfWorkAssumption ==
  /\ NoRow \notin Rows
  /\ Usage \subseteq Liberties
  /\ MaxScopes \in Nat
  /\ MaxDepth \in Nat
  /\ MaxFaults \in Nat

VARIABLES
  db,            \* db[k]: number of the committed write of row k
  clock,         \* number of the last write
  frames,        \* frames[t]: scopes t is inside, innermost last
  sessions,      \* sessions[t]: sessions t has open, innermost last
  ambient,       \* ambient[t]: _active_session is set
  region,        \* region[t]: a post-commit region is open
  queued,        \* queued[t]: rows whose invalidation is queued in it
  draining,      \* draining[t]: callbacks drain_region has yet to run
  unwinding,     \* unwinding[t]: an exception propagates
  scopes,        \* frames entered so far
  faults,        \* faults so far
  stale,         \* history: rows committed since the cache was last invalidated
  interrupted,   \* history: rows whose invalidation a fault took away
  leaked,        \* history: tasks whose block was cancelled while closing
  undone,        \* history: writes made in a scope that an exception left
  taken          \* history: the liberties the program took

contextVars == <<ambient, region, queued>>
historyVars == <<stale, interrupted, leaked, undone, taken>>
vars == <<db, clock, frames, sessions, contextVars, draining, unwinding, scopes,
          faults, historyVars>>

Writes == Nat                           \* 0: the row as it was at the start

NoWrites == [k \in Rows |-> 0]
NewSession == [writes |-> NoWrites, pending |-> {}, doomed |-> FALSE]
Written(s) == {k \in Rows : s.writes[k] # 0}
Usable(s) == ~s.doomed /\ s.pending = {}   \* every statement flushes first

Session == [writes  : [Rows -> Writes],  \* flushed; the rows are locked
            pending : SUBSET Rows,       \* changed objects not flushed yet
            doomed  : BOOLEAN]           \* a flush failed

Frame == [kind  : {"uow", "savepoint", "write"},
          own   : BOOLEAN,              \* has a session of its own
          token : BOOLEAN,              \* opened the region
          stage : {"body", "pre", "post", "commit", "committed", "rolledback", "draining"},
          row   : Rows \union {NoRow},  \* of a write
          saved : [Rows -> Writes],     \* of a savepoint: the session when it began
          made  : SUBSET Writes]        \* writes since the frame was entered

TypeOK ==
  /\ db \in [Rows -> Writes]
  /\ clock \in Writes
  /\ frames \in [Tasks -> Seq(Frame)]
  /\ sessions \in [Tasks -> Seq(Session)]
  /\ ambient \in [Tasks -> BOOLEAN]
  /\ region \in [Tasks -> BOOLEAN]
  /\ queued \in [Tasks -> SUBSET Rows]
  /\ draining \in [Tasks -> SUBSET Rows]
  /\ unwinding \in [Tasks -> BOOLEAN]
  /\ scopes \in 0..MaxScopes
  /\ faults \in 0..MaxFaults
  /\ stale \subseteq Rows /\ interrupted \subseteq Rows
  /\ leaked \subseteq Tasks /\ undone \subseteq Writes /\ taken \subseteq Liberties

Init ==
  /\ db = NoWrites
  /\ clock = 0
  /\ frames = [t \in Tasks |-> <<>>]
  /\ sessions = [t \in Tasks |-> <<>>]
  /\ ambient = [t \in Tasks |-> FALSE]
  /\ region = [t \in Tasks |-> FALSE]
  /\ queued = [t \in Tasks |-> {}]
  /\ draining = [t \in Tasks |-> {}]
  /\ unwinding = [t \in Tasks |-> FALSE]
  /\ scopes = 0
  /\ faults = 0
  /\ stale = {} /\ interrupted = {} /\ leaked = {} /\ undone = {} /\ taken = {}

-----------------------------------------------------------------------------
Top(t) == Last(frames[t])
Current(t) == Last(sessions[t])         \* the session every statement of t uses

Push(t, frame) == frames' = [frames EXCEPT ![t] = Append(@, frame)]
Pop(t) == frames' = [frames EXCEPT ![t] = Front(@)]
SetTop(t, frame) == frames' = [frames EXCEPT ![t] = Append(Front(@), frame)]
SetStage(t, stage) == SetTop(t, [Top(t) EXCEPT !.stage = stage])
SetCurrent(t, session) ==
  sessions' = [sessions EXCEPT ![t] = Append(Front(@), session)]

At(t, kind, stage) ==
  frames[t] # <<>> /\ Top(t).kind = kind /\ Top(t).stage = stage

InHandler(t) == At(t, "write", "pre") \/ At(t, "write", "post")
InBlock(t) == At(t, "uow", "body") \/ At(t, "savepoint", "body")

(* Application code runs and may enter another scope. *)
MayEnter(t) ==
  /\ ~unwinding[t]
  /\ scopes < MaxScopes /\ Len(frames[t]) < MaxDepth
  /\ \/ frames[t] = <<>>
     \/ InBlock(t)
     \/ InHandler(t) /\ (ambient[t] \/ "handlerWrites" \in Usage)

Takes(liberties) == taken' = taken \union liberties

(* __aenter__ and session_scope: join the ambient session, or open one, and
   open a region unless one is open. *)
Enter(t, kind, stage, row) ==
  /\ MayEnter(t)
  /\ scopes' = scopes + 1
  /\ Push(t, [kind |-> kind, own |-> ~ambient[t], token |-> ~ambient[t] /\ ~region[t],
              stage |-> stage, row |-> row, saved |-> NoWrites, made |-> {}])
  /\ sessions' = IF ambient[t] THEN sessions
                 ELSE [sessions EXCEPT ![t] = Append(@, NewSession)]
  /\ region' = [region EXCEPT ![t] = @ \/ ~ambient[t]]
  /\ Takes(IF InHandler(t) /\ ~ambient[t] THEN {"handlerWrites"} ELSE {})
  /\ UNCHANGED <<db, clock, queued, draining, unwinding, faults, stale, interrupted, leaked,
                 undone>>

EnterUow(t) ==
  /\ Enter(t, "uow", "body", NoRow)
  /\ ambient' = [ambient EXCEPT ![t] = TRUE]

(* add, update, delete, restore, hard_delete of row k *)
BeginWrite(t, k) ==
  /\ Enter(t, "write", "pre", k)
  /\ UNCHANGED ambient

EnterSavepoint(t) ==
  /\ MayEnter(t) /\ InBlock(t)
  /\ Usable(Current(t))
  /\ scopes' = scopes + 1
  /\ Push(t, [kind |-> "savepoint", own |-> FALSE, token |-> FALSE, stage |-> "body",
              row |-> NoRow, saved |-> Current(t).writes, made |-> {}])
  /\ UNCHANGED <<db, clock, sessions, contextVars, draining, unwinding, faults, historyVars>>

-----------------------------------------------------------------------------
(* A repository write: pre handlers, flush, post handlers, enqueue. *)

(* Row k is locked by a session that is not t's current one. *)
LockedByOther(t, k) ==
  \E u \in Tasks : \E i \in DOMAIN sessions[u] :
    /\ k \in Written(sessions[u][i])
    /\ <<u, i>> # <<t, Len(sessions[t])>>

(* The frames of t once its innermost one, a write, has made write n. *)
Flushed(t, n) ==
  [i \in DOMAIN frames[t] |->
     [frames[t][i] EXCEPT !.made = @ \union {n},
                          !.stage = IF i = Len(frames[t]) THEN "post" ELSE @]]

Flush(t) ==
  /\ At(t, "write", "pre") /\ ~unwinding[t]
  /\ Usable(Current(t))
  /\ ~LockedByOther(t, Top(t).row)
  /\ clock' = clock + 1
  /\ SetCurrent(t, [Current(t) EXCEPT !.writes[Top(t).row] = clock + 1])
  /\ frames' = [frames EXCEPT ![t] = Flushed(t, clock + 1)]
  /\ UNCHANGED <<db, contextVars, draining, unwinding, scopes, faults, historyVars>>

(* A later statement flushes what a write left behind whose pre handler raised. *)
FlushPending(t, k) ==
  /\ sessions[t] # <<>> /\ ~unwinding[t]
  /\ k \in Current(t).pending
  /\ ~LockedByOther(t, k)
  /\ clock' = clock + 1
  /\ SetCurrent(t, [Current(t) EXCEPT !.writes[k] = clock + 1, !.pending = @ \ {k}])
  /\ undone' = undone \union {clock + 1}
  /\ UNCHANGED <<db, frames, contextVars, draining, unwinding, scopes, faults,
                 stale, interrupted, leaked, taken>>

(* The flush of a joined write fails: the transaction is rolled back, to the
   innermost savepoint if there is one, and the session stays unusable until
   that is acknowledged.  A write with its own session ends in Raise. *)
FlushFails(t) ==
  /\ At(t, "write", "pre") /\ ~unwinding[t]
  /\ ~Top(t).own
  /\ LET inside == {i \in DOMAIN frames[t] : frames[t][i].kind = "savepoint"}
         Restore(writes) == SetCurrent(t, [writes |-> writes, pending |-> {}, doomed |-> TRUE])
     IN \/ inside = {} /\ Restore(NoWrites)
        \/ \E i \in inside : (\A j \in inside : j <= i) /\ Restore(frames[t][i].saved)
  /\ Pop(t)
  /\ unwinding' = [unwinding EXCEPT ![t] = TRUE]
  /\ undone' = undone \union Top(t).made
  /\ UNCHANGED <<db, clock, contextVars, draining, scopes, faults, stale, interrupted, leaked, taken>>

(* Variant: a list of rows is appended where its elements belong. *)
CompleteAppending(t) ==
  /\ At(t, "write", "post") /\ ~unwinding[t]
  /\ IF Top(t).own THEN SetStage(t, "commit") ELSE Pop(t)
  /\ queued' = [queued EXCEPT ![t] = @ \union {{Top(t).row}}]
  /\ UNCHANGED <<db, clock, sessions, ambient, region, draining, unwinding, scopes, faults,
                 historyVars>>

(* Variant: the invalidation is queued only by writes that own their session. *)
CompleteOwnOnly(t) ==
  /\ At(t, "write", "post") /\ ~unwinding[t]
  /\ IF Top(t).own
     THEN /\ SetStage(t, "commit")
          /\ queued' = [queued EXCEPT ![t] = @ \union {Top(t).row}]
     ELSE Pop(t) /\ UNCHANGED queued
  /\ UNCHANGED <<db, clock, sessions, ambient, region, draining, unwinding, scopes, faults,
                 historyVars>>

(* The post handlers return: enqueue_post_commit, and the end of the scope. *)
Complete(t) ==
  /\ At(t, "write", "post") /\ ~unwinding[t]
  /\ IF Top(t).own THEN SetStage(t, "commit") ELSE Pop(t)
  /\ queued' = [queued EXCEPT ![t] = IF region[t] THEN @ \union {Top(t).row} ELSE @]
  /\ UNCHANGED <<db, clock, sessions, ambient, region, draining, unwinding, scopes, faults,
                 historyVars>>

-----------------------------------------------------------------------------
(* Exceptions and ordinary ends of blocks. *)

Running(t) == InBlock(t) \/ InHandler(t)

(* An exception leaves the innermost scope.  A savepoint and an own session
   roll back; a savepoint is where application code may catch it.  A joined
   write has perhaps changed its object already: add and update do so before
   the pre handlers run. *)
Raise(t) ==
  /\ Running(t)
  /\ undone' = undone \union Top(t).made
  /\ \/ /\ Top(t).own
        /\ SetCurrent(t, NewSession)
        /\ SetStage(t, "rolledback")
        /\ UNCHANGED unwinding
     \/ /\ Top(t).kind = "savepoint"
        /\ SetCurrent(t, [writes |-> Top(t).saved, pending |-> {}, doomed |-> FALSE])
        /\ Pop(t)
        /\ unwinding' \in {[unwinding EXCEPT ![t] = b] : b \in BOOLEAN}
     \/ /\ ~Top(t).own /\ Top(t).kind # "savepoint"
        /\ Pop(t)
        /\ unwinding' = [unwinding EXCEPT ![t] = Len(frames[t]) > 1]
        /\ \/ UNCHANGED sessions
           \/ /\ At(t, "write", "pre")
              /\ SetCurrent(t, [Current(t) EXCEPT !.pending = @ \union {Top(t).row}])
  /\ UNCHANGED <<db, clock, contextVars, draining, scopes, faults, stale, interrupted, leaked, taken>>

Swallow(t) ==
  /\ "swallow" \in Usage
  /\ unwinding[t]
  /\ unwinding' = [unwinding EXCEPT ![t] = FALSE]
  /\ Takes({"swallow"})
  /\ UNCHANGED <<db, clock, frames, sessions, contextVars, draining, scopes, faults,
                 stale, interrupted, leaked, undone>>

Commits(t) ==
  /\ db' = [k \in Rows |-> IF k \in Written(Current(t)) THEN Current(t).writes[k] ELSE db[k]]
  /\ stale' = stale \union Written(Current(t))
  /\ SetCurrent(t, NewSession)

(* Variant: every UnitOfWork commits at its exit. *)
ExitJoinedCommitting(t) ==
  /\ At(t, "uow", "body") /\ ~Top(t).own /\ ~unwinding[t]
  /\ Commits(t)
  /\ Pop(t)
  /\ UNCHANGED <<clock, contextVars, draining, unwinding, scopes, faults, interrupted, leaked,
                 undone, taken>>

(* __aexit__ of a joined UnitOfWork *)
ExitJoined(t) ==
  /\ At(t, "uow", "body") /\ ~Top(t).own /\ ~unwinding[t]
  /\ Pop(t)
  /\ UNCHANGED <<db, clock, sessions, contextVars, draining, unwinding, scopes, faults,
                 historyVars>>

ReleaseSavepoint(t) ==
  /\ At(t, "savepoint", "body") /\ ~unwinding[t]
  /\ Usable(Current(t))
  /\ Pop(t)
  /\ UNCHANGED <<db, clock, sessions, contextVars, draining, unwinding, scopes, faults,
                 historyVars>>

(* uow.commit() and uow.rollback() in mid block; a joined block refuses both. *)
MidCommit(t) ==
  /\ "midCommit" \in Usage
  /\ At(t, "uow", "body") /\ Top(t).own /\ ~unwinding[t]
  /\ Usable(Current(t))
  /\ Commits(t)
  /\ SetTop(t, [Top(t) EXCEPT !.made = {}])
  /\ Takes({"midCommit"})
  /\ UNCHANGED <<clock, contextVars, draining, unwinding, scopes, faults, interrupted, leaked,
                 undone>>

MidRollback(t) ==
  /\ At(t, "uow", "body") /\ Top(t).own /\ ~unwinding[t]
  /\ SetCurrent(t, NewSession)
  /\ undone' = undone \union Top(t).made
  /\ UNCHANGED <<db, clock, frames, contextVars, draining, unwinding, scopes, faults,
                 stale, interrupted, leaked, taken>>

-----------------------------------------------------------------------------
(* The end of a scope that owns its session: commit, close, drain. *)

AtCommit(t) ==
  /\ At(t, "uow", "body") \/ At(t, "write", "commit")
  /\ Top(t).own /\ ~unwinding[t]

Commit(t) ==
  /\ AtCommit(t) /\ Usable(Current(t))
  /\ Commits(t)
  /\ SetStage(t, "committed")
  /\ UNCHANGED <<clock, contextVars, draining, unwinding, scopes, faults, interrupted, leaked,
                 undone, taken>>

(* The database refuses, or the session was left doomed. *)
CommitFails(t) ==
  /\ AtCommit(t)
  /\ SetCurrent(t, NewSession)
  /\ SetStage(t, "rolledback")
  /\ undone' = undone \union Top(t).made
  /\ UNCHANGED <<db, clock, contextVars, draining, unwinding, scopes, faults, stale, interrupted,
                 leaked, taken>>

(* The commit is cancelled or its answer lost after the server applied it. *)
CommitLost(t) ==
  /\ faults < MaxFaults
  /\ AtCommit(t) /\ Usable(Current(t))
  /\ faults' = faults + 1
  /\ interrupted' = interrupted \union Written(Current(t))
  /\ Commits(t)
  /\ SetStage(t, "rolledback")
  /\ UNCHANGED <<clock, contextVars, draining, unwinding, scopes, leaked, undone, taken>>

Ended(t) == frames[t] # <<>> /\ Top(t).stage \in {"committed", "rolledback"}

Leave(t) ==
  /\ Pop(t)
  /\ unwinding' = [unwinding EXCEPT ![t] = Top(t).stage = "rolledback" /\ Len(frames[t]) > 1]

(* Variant: the rollback path does not discard the region. *)
CloseKeepingRegion(t) ==
  /\ Ended(t)
  /\ sessions' = [sessions EXCEPT ![t] = Front(@)]
  /\ ambient' = [ambient EXCEPT ![t] = @ /\ Top(t).kind # "uow"]
  /\ LET token == Top(t).token /\ Top(t).stage = "committed" IN
       /\ region' = [region EXCEPT ![t] = @ /\ ~token]
       /\ queued' = [queued EXCEPT ![t] = IF token THEN {} ELSE @]
       /\ draining' = [draining EXCEPT ![t] = IF token THEN queued[t] ELSE {}]
       /\ IF token /\ queued[t] # {}
          THEN SetStage(t, "draining") /\ UNCHANGED unwinding
          ELSE Leave(t)
  /\ UNCHANGED <<db, clock, scopes, faults, historyVars>>

(* session.close(), the reset of _active_session, and the synchronous part of
   drain_region or discard_region: the one that opened the region empties it. *)
Close(t) ==
  /\ Ended(t)
  /\ sessions' = [sessions EXCEPT ![t] = Front(@)]
  /\ ambient' = [ambient EXCEPT ![t] = @ /\ Top(t).kind # "uow"]
  /\ region' = [region EXCEPT ![t] = @ /\ ~Top(t).token]
  /\ queued' = [queued EXCEPT ![t] = IF Top(t).token THEN {} ELSE @]
  /\ LET drained == IF Top(t).token /\ Top(t).stage = "committed" THEN queued[t] ELSE {} IN
       /\ draining' = [draining EXCEPT ![t] = drained]
       /\ IF drained # {} THEN SetStage(t, "draining") /\ UNCHANGED unwinding ELSE Leave(t)
  /\ UNCHANGED <<db, clock, scopes, faults, historyVars>>

(* A cancellation while a UnitOfWork closes its session: nothing after the
   await runs, so neither context variable is reset.  The session object
   serves whatever the task does next. *)
CloseCancelled(t) ==
  /\ faults < MaxFaults
  /\ Ended(t) /\ Top(t).kind = "uow"
  /\ faults' = faults + 1
  /\ leaked' = leaked \union {t}
  /\ interrupted' = interrupted \union queued[t]
  /\ SetCurrent(t, NewSession)
  /\ Pop(t)
  /\ unwinding' = [unwinding EXCEPT ![t] = Len(frames[t]) > 1]
  /\ UNCHANGED <<db, clock, contextVars, draining, scopes, stale, undone, taken>>

(* One callback: the cache is invalidated for row k. *)
Invalidate(t, k) ==
  /\ k \in draining[t]
  /\ draining' = [draining EXCEPT ![t] = @ \ {k}]
  /\ IF draining[t] = {k} THEN Leave(t) ELSE UNCHANGED <<frames, unwinding>>
  /\ stale' = stale \ {k}
  /\ interrupted' = interrupted \ {k}
  /\ UNCHANGED <<db, clock, sessions, contextVars, scopes, faults, leaked, undone, taken>>

(* It fails and is logged; or it is cancelled, which ends the drain. *)
InvalidateFails(t, k) ==
  /\ faults < MaxFaults
  /\ k \in draining[t]
  /\ faults' = faults + 1
  /\ \E lost \in {{k}, draining[t]} :
       /\ interrupted' = interrupted \union lost
       /\ draining' = [draining EXCEPT ![t] = @ \ lost]
       /\ IF draining[t] = lost THEN Leave(t) ELSE UNCHANGED <<frames, unwinding>>
  /\ UNCHANGED <<db, clock, sessions, contextVars, scopes, stale, leaked, undone, taken>>

-----------------------------------------------------------------------------
Step(t) ==
  \/ EnterUow(t) \/ EnterSavepoint(t) \/ (\E k \in Rows : BeginWrite(t, k))
  \/ Flush(t) \/ (\E k \in Rows : FlushPending(t, k)) \/ FlushFails(t) \/ Complete(t)
  \/ Raise(t) \/ Swallow(t)
  \/ ExitJoined(t) \/ ReleaseSavepoint(t) \/ MidCommit(t) \/ MidRollback(t)
  \/ Commit(t) \/ CommitFails(t) \/ CommitLost(t)
  \/ Close(t) \/ CloseCancelled(t)
  \/ (\E k \in Rows : Invalidate(t, k) \/ InvalidateFails(t, k))

Next == \E t \in Tasks : Step(t)

Spec == Init /\ [][Next]_vars

-----------------------------------------------------------------------------
(* No committed write is forgotten: as long as a row was committed and the
   cache not invalidated since, a callback for the row is queued or running,
   unless a fault took it.  Programs that take a liberty lose this. *)
InvalidationFollowsCommit ==
  taken = {} =>
    \A k \in stale : k \in interrupted \/ \E t \in Tasks : k \in queued[t] \union draining[t]

(* Whatever way a scope ends, it leaves the task's context as it found it: the
   ambient session and the region are set exactly inside the scope that set
   them, and every open session belongs to a scope.  A cancellation while a
   block closes is the one exception. *)
ContextRestored ==
  \A t \in Tasks \ leaked :
    LET live == {i \in DOMAIN frames[t] : frames[t][i].stage # "draining"} IN
      /\ ambient[t] <=> \E i \in live : frames[t][i].own /\ frames[t][i].kind = "uow"
      /\ region[t] <=> \E i \in live : frames[t][i].token
      /\ Len(sessions[t]) = Cardinality({i \in live : frames[t][i].own})

(* An exception that leaves a scope leaves nothing of it behind: no write made
   inside, by the block, by a nested block that joined or by a signal handler,
   is in the database.  The signals guide says so of every handler, "handlers
   run inside the same database transaction that triggered the event, so a
   raised exception rolls the write back". *)
RollbackIsComplete == \A k \in Rows : db[k] \notin undone

(* So it is for programs that catch exceptions only at savepoints or outside
   the transaction, and whose handlers write only inside a block. *)
FailedScopesLeaveNothing == taken \subseteq {"midCommit"} => RollbackIsComplete
=============================================================================
