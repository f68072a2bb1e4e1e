-------------------------- MODULE BufferedInserter --------------------------
(***************************************************************************)
(* The in-memory buffer in front of ClickHouse inserts (BufferedInserter   *)
(* in alchemiq/clickhouse/repository.py): tasks add rows, a batch leaves   *)
(* the buffer when it is full, when a task flushes, at every tick of a     *)
(* timer task and at close(), and returns to it when its insert fails.     *)
(*                                                                         *)
(* The lock is never held across an await, so what happens under it and    *)
(* the code up to the next await are one step.  ClickHouse is external: an *)
(* insert is stored whole or not at all, and its answer may be lost.       *)
(***************************************************************************)
EXTENDS Integers, FiniteSets

CONSTANTS
  Callers,        \* tasks that share the inserter
  Owner,          \* the one whose async with block it is
  Timer,          \* the timer task, not a caller
  MaxRow,         \* bound: rows ever added
  MaxRows,        \* max_rows, the size of a full batch
  MaxBuffered,    \* max_buffered; a number above MaxRow stands for None
  MaxFaults       \* bound: failing inserts and cancellations

ASSUME BufferedAssumption ==
  /\ Owner \in Callers
  /\ Timer \notin Callers
  /\ MaxRow \in Nat
  /\ MaxRows \in Nat \ {0}
  /\ MaxBuffered \in Nat
  /\ MaxFaults \in Nat

VARIABLES
  buffer,         \* self._buffer
  nextRow,        \* number of the next row
  phase,          \* phase[t]: what task t is doing with the inserter
  batch,          \* batch[t]: the rows t is inserting
  stopping,       \* self._stopping is set
  faults,         \* faults so far
  stored,         \* how often ClickHouse stored each row (2 = more than once)
  doubtful,       \* history: rows of an insert stored without a good answer
  failed,         \* history: rows of an insert that failed
  lost,           \* history: rows of an insert that was cancelled
  late,           \* history: rows added after close() began
  killed          \* history: the timer task was cancelled

historyVars == <<doubtful, failed, lost, late, killed>>
vars == <<buffer, nextRow, phase, batch, stopping, faults, stored, historyVars>>

Rows == 1..MaxRow
Tasks == Callers \union {Timer}

(* free: not in a call; adding, flushing, draining: awaiting the insert of
   add(), of flush() or of a timer tick, of close(); awaiting: close() awaits
   the timer; left: closed.  For the timer, none: _timer is None; waiting: in
   wait_for; ended: the task is done but _timer still holds it. *)
CallerPhase == {"free", "adding", "flushing", "awaiting", "draining", "left"}
TimerPhase == {"none", "waiting", "flushing", "ended"}

TypeOK ==
  /\ buffer \subseteq Rows
  /\ nextRow \in 1..(MaxRow + 1)
  /\ phase \in [Tasks -> CallerPhase \union TimerPhase]
  /\ phase[Timer] \in TimerPhase
  /\ batch \in [Tasks -> SUBSET Rows]
  /\ stopping \in BOOLEAN
  /\ faults \in 0..MaxFaults
  /\ stored \in [Rows -> 0..2]
  /\ doubtful \subseteq Rows /\ failed \subseteq Rows
  /\ lost \subseteq Rows /\ late \subseteq Rows /\ killed \in BOOLEAN

Init ==
  /\ buffer = {}
  /\ nextRow = 1
  /\ phase = [t \in Tasks |-> IF t = Timer THEN "none" ELSE "free"]
  /\ batch = [t \in Tasks |-> {}]
  /\ stopping = FALSE
  /\ faults = 0
  /\ stored = [r \in Rows |-> 0]
  /\ doubtful = {} /\ failed = {} /\ lost = {} /\ late = {} /\ killed = FALSE

-----------------------------------------------------------------------------
Goto(t, p) == [phase EXCEPT ![t] = p]

(* _ensure_timer, in the phases f *)
EnsureTimer(f) == [f EXCEPT ![Timer] = IF @ = "none" THEN "waiting" ELSE @]

(* Variant: the buffer is not emptied when its rows are taken. *)
TakeByReference(t, rows) ==
  /\ batch' = [batch EXCEPT ![t] = rows]
  /\ buffer' = rows

(* t takes the rows out of the buffer, under the lock. *)
Take(t, rows) ==
  /\ batch' = [batch EXCEPT ![t] = rows]
  /\ buffer' = {}

(* add(): a full buffer raises and changes nothing. *)
Add(c) ==
  /\ phase[c] = "free"
  /\ nextRow <= MaxRow
  /\ Cardinality(buffer) < MaxBuffered
  /\ nextRow' = nextRow + 1
  /\ late' = IF stopping THEN late \union {nextRow} ELSE late
  /\ LET filled == buffer \union {nextRow} IN
       IF Cardinality(filled) >= MaxRows
       THEN Take(c, filled) /\ phase' = Goto(c, "adding")
       ELSE buffer' = filled /\ phase' = EnsureTimer(phase) /\ UNCHANGED batch
  /\ UNCHANGED <<stopping, faults, stored, doubtful, failed, lost, killed>>

Flush(c) ==
  /\ phase[c] = "free"
  /\ buffer # {}
  /\ Take(c, buffer)
  /\ phase' = Goto(c, "flushing")
  /\ UNCHANGED <<nextRow, stopping, faults, stored, historyVars>>

(* wait_for times out; a tick that finds nothing changes nothing. *)
Tick ==
  /\ phase[Timer] = "waiting"
  /\ buffer # {}
  /\ Take(Timer, buffer)
  /\ phase' = Goto(Timer, "flushing")
  /\ UNCHANGED <<nextRow, stopping, faults, stored, historyVars>>

(* Variant: while True *)
TimerStopsNever == FALSE /\ UNCHANGED vars

TimerStops ==
  /\ phase[Timer] = "waiting"
  /\ stopping
  /\ phase' = Goto(Timer, "ended")
  /\ UNCHANGED <<buffer, nextRow, batch, stopping, faults, stored, historyVars>>

-----------------------------------------------------------------------------
(* _flush_batch and what follows it. *)

Inserting(t) == phase[t] \in {"adding", "flushing", "draining"}

(* Variant: the timer ends with its first flush. *)
ResumedOnce(t) ==
  IF t = Timer THEN Goto(t, "ended")
  ELSE IF phase[t] = "draining" THEN Goto(t, "left")
  ELSE IF phase[t] = "adding" THEN EnsureTimer(Goto(t, "free"))
  ELSE Goto(t, "free")

(* Variant: the timer returns from its flush as any caller does. *)
ResumedAlike(t) ==
  IF phase[t] = "draining" THEN Goto(t, "left")
  ELSE IF phase[t] = "adding" THEN EnsureTimer(Goto(t, "free"))
  ELSE Goto(t, "free")

(* The phases once _flush_batch has returned to t. *)
Resumed(t) ==
  IF t = Timer THEN Goto(t, IF stopping THEN "ended" ELSE "waiting")
  ELSE IF phase[t] = "draining" THEN Goto(t, "left")
  ELSE IF phase[t] = "adding" THEN EnsureTimer(Goto(t, "free"))
  ELSE Goto(t, "free")

Store(rows) ==
  stored' = [r \in Rows |-> IF r \in rows /\ stored[r] < 2 THEN stored[r] + 1 ELSE stored[r]]

Done(t) == batch' = [batch EXCEPT ![t] = {}]

InsertOk(t) ==
  /\ Inserting(t)
  /\ Store(batch[t])
  /\ Done(t)
  /\ phase' = Resumed(t)
  /\ UNCHANGED <<buffer, nextRow, stopping, faults, historyVars>>

(* ClickHouse may have stored the rows all the same. *)
PerhapsStored(rows) ==
  \/ UNCHANGED <<stored, doubtful>>
  \/ Store(rows) /\ doubtful' = doubtful \union rows

(* Variant: the batch replaces what was added meanwhile. *)
RetainedOnly(t) == batch[t]

(* The buffer after a failed insert: batch + self._buffer *)
Retained(t) == batch[t] \union buffer

InsertFails(t) ==
  /\ faults < MaxFaults
  /\ Inserting(t)
  /\ faults' = faults + 1
  /\ PerhapsStored(batch[t])
  /\ failed' = failed \union batch[t]
  /\ buffer' = Retained(t)
  /\ Done(t)
  /\ phase' = Resumed(t)
  /\ UNCHANGED <<nextRow, stopping, lost, late, killed>>

(* CancelledError is no Exception: the batch is dropped, add() does not reach
   _ensure_timer, the timer task ends without setting _stopping. *)
CancelInsert(t) ==
  /\ faults < MaxFaults
  /\ Inserting(t)
  /\ faults' = faults + 1
  /\ PerhapsStored(batch[t])
  /\ lost' = lost \union batch[t]
  /\ killed' = (killed \/ t = Timer)
  /\ Done(t)
  /\ phase' = Goto(t, IF t = Timer THEN "ended"
                      ELSE IF phase[t] = "draining" THEN "left" ELSE "free")
  /\ UNCHANGED <<buffer, nextRow, stopping, failed, late>>

(* The timer task is cancelled while it waits.  A cancelled close() cancels
   the timer it awaits and goes on: this action or CancelInsert(Timer). *)
CancelTimer ==
  /\ faults < MaxFaults
  /\ phase[Timer] = "waiting"
  /\ faults' = faults + 1
  /\ stopping' = TRUE
  /\ killed' = TRUE
  /\ phase' = Goto(Timer, "ended")
  /\ UNCHANGED <<buffer, nextRow, batch, stored, doubtful, failed, lost, late>>

-----------------------------------------------------------------------------
(* close() *)

(* Variant: nothing is flushed once the timer is gone. *)
FinalFlushForgotten(f) ==
  phase' = [f EXCEPT ![Owner] = "left"] /\ UNCHANGED <<buffer, batch>>

(* Its last statement, from the phases f. *)
FinalFlush(f) ==
  IF buffer = {}
  THEN phase' = [f EXCEPT ![Owner] = "left"] /\ UNCHANGED <<buffer, batch>>
  ELSE phase' = [f EXCEPT ![Owner] = "draining"] /\ Take(Owner, buffer)

Close ==
  /\ phase[Owner] = "free"
  /\ stopping' = TRUE
  /\ IF phase[Timer] = "none" THEN FinalFlush(phase)
     ELSE phase' = Goto(Owner, "awaiting") /\ UNCHANGED <<buffer, batch>>
  /\ UNCHANGED <<nextRow, faults, stored, historyVars>>

TimerJoined ==
  /\ phase[Owner] = "awaiting" /\ phase[Timer] = "ended"
  /\ FinalFlush(Goto(Timer, "none"))
  /\ UNCHANGED <<nextRow, stopping, faults, stored, historyVars>>

-----------------------------------------------------------------------------
Settle(t) == InsertOk(t) \/ InsertFails(t)

Next ==
  \/ \E c \in Callers : Add(c) \/ Flush(c)
  \/ Tick \/ TimerStops \/ CancelTimer
  \/ \E t \in Tasks : Settle(t) \/ CancelInsert(t)
  \/ Close \/ TimerJoined

(* The event loop runs the timer and the tasks whose insert was answered, and
   ClickHouse answers every insert or the client gives up. *)
Fairness ==
  /\ WF_vars(Tick) /\ WF_vars(TimerStops) /\ WF_vars(TimerJoined)
  /\ \A t \in Tasks : WF_vars(Settle(t))

Spec == Init /\ [][Next]_vars /\ Fairness

-----------------------------------------------------------------------------
InFlight == UNION {batch[t] : t \in Tasks}

(* No added row disappears: it is buffered, being inserted or stored, unless
   the insert it was in was cancelled. *)
RowsAccountedFor ==
  \A r \in Rows : r < nextRow => r \in buffer \union InFlight \union lost \/ stored[r] > 0

(* No row is inserted twice by the inserter's own doing: a row is in one place
   at a time, and ClickHouse stores it again only after an insert whose answer
   was lost. *)
HeldOnce ==
  /\ \A t \in Tasks : batch[t] \intersect buffer = {}
  /\ \A t, u \in Tasks : t # u => batch[t] \intersect batch[u] = {}
  /\ \A r \in Rows : r \in buffer \union InFlight => stored[r] = 0 \/ r \in doubtful
  /\ \A r \in Rows : stored[r] = 2 => r \in doubtful

(* Once the block has been left, what is still buffered came back from a
   failed insert or was added after close() began. *)
CloseDrains == phase[Owner] = "left" => buffer \subseteq failed \union late

(* The documented cap: never more rows in the buffer than max_buffered. *)
HardCap == Cardinality(buffer) <= MaxBuffered

(* While nobody stops or cancels the timer, no row stays behind: every
   buffered row is stored, or lost with a cancelled insert. *)
EventuallyStored ==
  \A r \in Rows : r \in buffer ~>
    (stored[r] > 0 \/ r \in lost \/ stopping \/ killed)

(* close() returns. *)
CloseReturns == phase[Owner] = "awaiting" ~> phase[Owner] = "left"
=============================================================================
