----------------------- MODULE BufferedInserterProofs -----------------------
(***************************************************************************)
(* What the buffered inserter guarantees for any number of tasks, rows and *)
(* faults: no row is lost without a cancelled insert, none is held twice,  *)
(* and close() leaves nothing behind that did not fail or come late.       *)
(***************************************************************************)
EXTENDS BufferedInserter, TLAPS

(* Only a task that awaits an insert holds a batch. *)
BatchIdle == \A t \in Tasks : batch[t] # {} => Inserting(t)

(* A row not added yet is nowhere. *)
Fresh ==
  \A r \in Rows : r >= nextRow =>
    /\ stored[r] = 0 /\ r \notin buffer
    /\ \A t \in Tasks : r \notin batch[t]

(* close() sets _stopping first; once its last flush has begun, the buffer is
   refilled by failed inserts and by late rows only. *)
Closing ==
  /\ phase[Owner] \in {"awaiting", "draining", "left"} => stopping
  /\ phase[Owner] \in {"draining", "left"} => buffer \subseteq failed \union late

IInv == TypeOK /\ BatchIdle /\ Fresh /\ HeldOnce /\ RowsAccountedFor /\ Closing

(* The initial state satisfies the invariant. *)
LEMMA InitInv == Init => IInv
<1> SUFFICES ASSUME Init PROVE IInv
  OBVIOUS
<1>1. TypeOK
  <2>1. phase \in [Tasks -> CallerPhase \union TimerPhase] /\ phase[Timer] \in TimerPhase
    BY BufferedAssumption DEF Init, Tasks, CallerPhase, TimerPhase
  <2>2. stored \in [Rows -> 0..2] /\ batch \in [Tasks -> SUBSET Rows]
    BY DEF Init
  <2>3. nextRow \in 1..(MaxRow + 1) /\ faults \in 0..MaxFaults
    BY BufferedAssumption DEF Init
  <2> QED
    BY <2>1, <2>2, <2>3 DEF Init, TypeOK
<1>2. BatchIdle /\ Fresh
  BY DEF Init, BatchIdle, Fresh
<1>3. InFlight = {}
  BY DEF Init, InFlight
<1>4. HeldOnce /\ RowsAccountedFor
  BY <1>3 DEF Init, HeldOnce, RowsAccountedFor, Rows
<1>5. Closing
  BY BufferedAssumption DEF Init, Closing, Tasks
<1> QED
  BY <1>1, <1>2, <1>4, <1>5 DEF IInv

-----------------------------------------------------------------------------
(* Where the rows are: steps that store nothing. *)

(* Taking the whole buffer (flush(), a tick, the last flush of close()). *)
LEMMA TakeKeeps ==
  ASSUME IInv, NEW t \in Tasks, batch[t] = {}, Take(t, buffer),
         UNCHANGED <<nextRow, stored, historyVars>>
  PROVE  /\ buffer' \subseteq Rows /\ batch' \in [Tasks -> SUBSET Rows]
         /\ Fresh' /\ HeldOnce' /\ RowsAccountedFor'
<1>1. /\ batch' = [batch EXCEPT ![t] = buffer] /\ buffer' = {}
      /\ batch \in [Tasks -> SUBSET Rows] /\ buffer \subseteq Rows
  BY DEF IInv, TypeOK, Take
<1>2. batch' \in [Tasks -> SUBSET Rows]
  BY <1>1
<1>3. \A u \in Tasks : batch'[u] = IF u = t THEN buffer ELSE batch[u]
  BY <1>1
<1>4. buffer' \union InFlight' = buffer \union InFlight
  BY <1>1, <1>3 DEF InFlight
<1>5. Fresh'
  BY <1>1, <1>3 DEF IInv, Fresh
<1>6. HeldOnce'
  BY <1>1, <1>3, <1>4 DEF IInv, HeldOnce, historyVars
<1>7. RowsAccountedFor'
  BY <1>4 DEF IInv, RowsAccountedFor, historyVars
<1> QED
  BY <1>1, <1>2, <1>5, <1>6, <1>7

(* Add(c), whether or not the buffer is full by it. *)
LEMMA AddKeeps ==
  ASSUME IInv, NEW c \in Callers, Add(c)
  PROVE  IInv'
<1> DEFINE filled == buffer \union {nextRow}
<1>1. /\ phase[c] = "free" /\ nextRow \in Rows /\ nextRow' = nextRow + 1
      /\ c \in Tasks /\ c # Timer /\ batch[c] = {}
  BY BufferedAssumption DEF IInv, TypeOK, BatchIdle, Inserting, Add, Rows, Tasks
<1>2. /\ UNCHANGED <<stopping, faults, stored, doubtful, failed, lost, killed>>
      /\ late' = IF stopping THEN late \union {nextRow} ELSE late
  BY DEF Add
<1>3. \/ /\ batch' = [batch EXCEPT ![c] = filled] /\ buffer' = {}
         /\ phase' = [phase EXCEPT ![c] = "adding"]
      \/ /\ buffer' = filled /\ batch' = batch
         /\ phase' = [phase EXCEPT ![Timer] = IF @ = "none" THEN "waiting" ELSE @]
  BY DEF Add, Take, Goto, EnsureTimer
<1>4. TypeOK'
  <2>1. nextRow' \in 1..(MaxRow + 1)
    BY <1>1, BufferedAssumption DEF Rows
  <2>2. buffer' \subseteq Rows /\ batch' \in [Tasks -> SUBSET Rows] /\ late' \subseteq Rows
    BY <1>1, <1>2, <1>3 DEF IInv, TypeOK
  <2>3. phase' \in [Tasks -> CallerPhase \union TimerPhase] /\ phase'[Timer] \in TimerPhase
    BY <1>1, <1>3 DEF IInv, TypeOK, CallerPhase, TimerPhase, Tasks
  <2> QED
    BY <1>2, <2>1, <2>2, <2>3 DEF IInv, TypeOK
<1>5. batch \in [Tasks -> SUBSET Rows] /\ phase \in [Tasks -> CallerPhase \union TimerPhase]
  BY DEF IInv, TypeOK
<1>6. BatchIdle'
  BY <1>1, <1>3, <1>5 DEF IInv, TypeOK, BatchIdle, Inserting, TimerPhase, Tasks
<1>7. Fresh'
  BY <1>1, <1>2, <1>3, <1>5 DEF IInv, TypeOK, Fresh, Rows
<1>8. buffer' \union InFlight' = (buffer \union InFlight) \union {nextRow}
  BY <1>1, <1>3, <1>5 DEF InFlight
<1>9. stored[nextRow] = 0 /\ nextRow \notin buffer /\ \A t \in Tasks : nextRow \notin batch[t]
  BY <1>1 DEF IInv, TypeOK, Fresh, Rows
<1>10. HeldOnce'
  BY <1>1, <1>2, <1>3, <1>5, <1>8, <1>9 DEF IInv, HeldOnce
<1>11. RowsAccountedFor'
  <2>1. \A r \in Rows : r < nextRow' => r < nextRow \/ r = nextRow
    BY <1>1 DEF IInv, TypeOK, Rows
  <2> QED
    BY <2>1, <1>2, <1>8 DEF IInv, RowsAccountedFor
<1>12. Closing'
  BY <1>1, <1>2, <1>3, <1>5, BufferedAssumption DEF IInv, Closing, Tasks
<1> QED
  BY <1>4, <1>6, <1>7, <1>10, <1>11, <1>12 DEF IInv

(* Flush(c) and a timer tick. *)
LEMMA FlushKeeps ==
  ASSUME IInv, NEW t \in Tasks, phase[t] \in {"free", "waiting"}, Take(t, buffer),
         phase' = Goto(t, "flushing"), UNCHANGED <<nextRow, stopping, faults, stored, historyVars>>
  PROVE  IInv'
<1>1. batch[t] = {} /\ phase \in [Tasks -> CallerPhase \union TimerPhase]
  BY DEF IInv, TypeOK, BatchIdle, Inserting
<1>2. /\ buffer' \subseteq Rows /\ batch' \in [Tasks -> SUBSET Rows]
      /\ Fresh' /\ HeldOnce' /\ RowsAccountedFor'
  BY <1>1, TakeKeeps
<1>3. buffer' = {} /\ batch' = [batch EXCEPT ![t] = buffer]
  BY DEF Take
<1>4. phase' = [phase EXCEPT ![t] = "flushing"]
  BY DEF Goto
<1>5. TypeOK'
  BY <1>2, <1>4, BufferedAssumption DEF IInv, TypeOK, historyVars, CallerPhase, TimerPhase, Tasks
<1>6. BatchIdle'
  BY <1>1, <1>3, <1>4 DEF IInv, TypeOK, BatchIdle, Inserting
<1>7. Closing'
  BY <1>1, <1>3, <1>4, BufferedAssumption DEF IInv, Closing, Tasks
<1> QED
  BY <1>2, <1>5, <1>6, <1>7 DEF IInv

(* The timer ends: TimerStops and CancelTimer. *)
LEMMA TimerEndKeeps ==
  ASSUME IInv, phase[Timer] = "waiting", phase' = Goto(Timer, "ended"),
         faults' \in 0..MaxFaults, stopping' \in BOOLEAN, stopping => stopping',
         killed' \in BOOLEAN,
         UNCHANGED <<buffer, nextRow, batch, stored, doubtful, failed, lost, late>>
  PROVE  IInv'
<1>1. /\ phase' = [phase EXCEPT ![Timer] = "ended"] /\ Timer \in Tasks /\ Owner # Timer
      /\ phase \in [Tasks -> CallerPhase \union TimerPhase]
  BY BufferedAssumption DEF IInv, TypeOK, Goto, Tasks
<1>2. TypeOK'
  BY <1>1 DEF IInv, TypeOK, TimerPhase
<1>3. BatchIdle'
  BY <1>1 DEF IInv, BatchIdle, Inserting
<1>4. InFlight' = InFlight
  BY DEF InFlight
<1>5. Fresh' /\ HeldOnce' /\ RowsAccountedFor'
  BY <1>4 DEF IInv, Fresh, HeldOnce, RowsAccountedFor
<1>6. Closing'
  BY <1>1, BufferedAssumption DEF IInv, TypeOK, Closing, Tasks
<1> QED
  BY <1>2, <1>3, <1>5, <1>6 DEF IInv

-----------------------------------------------------------------------------
(* Steps that settle an insert. *)

(* The phases f once t has left its insert: no other caller has moved. *)
PhasesAfter(t, f) ==
  /\ f \in [Tasks -> CallerPhase \union TimerPhase] /\ f[Timer] \in TimerPhase
  /\ f[t] \notin {"adding", "flushing", "draining"}
  /\ \A u \in Tasks : u # t => \/ f[u] = phase[u]
                               \/ u = Timer /\ f[u] = "waiting" /\ phase[u] = "none"
  /\ f[Owner] # phase[Owner] =>
       \/ f[Owner] = "free"
       \/ f[Owner] = "left" /\ phase[Owner] = "draining"

(* The phases that the return of _flush_batch leaves are such phases. *)
LEMMA ResumedPhases ==
  ASSUME IInv, NEW t \in Tasks, Inserting(t)
  PROVE  PhasesAfter(t, Resumed(t))
<1>1. /\ phase \in [Tasks -> CallerPhase \union TimerPhase] /\ phase[Timer] \in TimerPhase
      /\ Timer \in Tasks /\ Owner \in Tasks /\ Owner # Timer
  BY BufferedAssumption DEF IInv, TypeOK, Tasks
<1>2. CASE t = Timer
  BY <1>1, <1>2 DEF Resumed, Goto, TimerPhase, PhasesAfter
<1>3. CASE t # Timer /\ phase[t] = "draining"
  BY <1>1, <1>3 DEF Resumed, Goto, CallerPhase, PhasesAfter
<1>4. CASE t # Timer /\ phase[t] = "flushing"
  BY <1>1, <1>4 DEF Resumed, Goto, CallerPhase, PhasesAfter
<1>5. CASE t # Timer /\ phase[t] = "adding"
  <2>1. Resumed(t) = EnsureTimer(Goto(t, "free"))
    BY <1>5 DEF Resumed
  <2>2. Resumed(t) = [[phase EXCEPT ![t] = "free"] EXCEPT
                        ![Timer] = IF phase[Timer] = "none" THEN "waiting" ELSE phase[Timer]]
    BY <1>1, <1>5, <2>1 DEF EnsureTimer, Goto
  <2> QED
    BY <1>1, <1>5, <2>2 DEF CallerPhase, TimerPhase, PhasesAfter
<1> QED
  BY <1>2, <1>3, <1>4, <1>5 DEF Inserting

(* So are the phases that a cancelled insert leaves. *)
LEMMA CancelledPhases ==
  ASSUME IInv, NEW t \in Tasks, Inserting(t), NEW f,
         f = Goto(t, IF t = Timer THEN "ended"
                     ELSE IF phase[t] = "draining" THEN "left" ELSE "free")
  PROVE  PhasesAfter(t, f)
<1>1. /\ phase \in [Tasks -> CallerPhase \union TimerPhase] /\ phase[Timer] \in TimerPhase
      /\ Timer \in Tasks /\ Owner \in Tasks /\ Owner # Timer
  BY BufferedAssumption DEF IInv, TypeOK, Tasks
<1> QED
  BY <1>1 DEF Goto, CallerPhase, TimerPhase, PhasesAfter

(* Storing rows counts each once more, and twice at most. *)
LEMMA StoreCounts ==
  ASSUME stored \in [Rows -> 0..2], NEW rows \in SUBSET Rows, Store(rows)
  PROVE  /\ stored' \in [Rows -> 0..2]
         /\ \A r \in Rows : r \notin rows => stored'[r] = stored[r]
         /\ \A r \in rows : stored'[r] > 0
         /\ \A r \in rows : stored'[r] = 2 => stored[r] > 0
         /\ \A r \in Rows : stored'[r] >= stored[r]
BY DEF Store

(* An insert that ends: its rows are stored, returned to the buffer or lost. *)
LEMMA SettledRows ==
  ASSUME IInv, NEW t \in Tasks, Inserting(t), Done(t), UNCHANGED nextRow,
         stored' \in [Rows -> 0..2],
         \A r \in Rows : r \notin batch[t] => stored'[r] = stored[r],
         \A r \in Rows : stored'[r] >= stored[r],
         \A r \in batch[t] : stored'[r] = 2 => stored[r] > 0 \/ r \in doubtful',
         doubtful \subseteq doubtful', lost \subseteq lost',
         \/ buffer' = buffer /\ \A r \in batch[t] : stored'[r] > 0 \/ r \in lost'
         \/ buffer' = batch[t] \union buffer /\ \A r \in batch[t] : stored'[r] = stored[r] \/ r \in doubtful'
  PROVE  /\ buffer' \subseteq Rows /\ batch' \in [Tasks -> SUBSET Rows]
         /\ Fresh' /\ HeldOnce' /\ RowsAccountedFor'
<1>1. /\ batch \in [Tasks -> SUBSET Rows] /\ buffer \subseteq Rows
      /\ stored \in [Rows -> 0..2] /\ batch' = [batch EXCEPT ![t] = {}]
      /\ nextRow \in Int
  BY DEF IInv, TypeOK, Done
<1>2. \A u \in Tasks : batch'[u] = IF u = t THEN {} ELSE batch[u]
  BY <1>1
<1>3. batch[t] \subseteq Rows /\ batch[t] \intersect buffer = {}
  BY <1>1 DEF IInv, HeldOnce
<1>4. /\ buffer' \subseteq buffer \union batch[t] /\ buffer \subseteq buffer'
      /\ buffer' \subseteq Rows /\ batch' \in [Tasks -> SUBSET Rows]
  BY <1>1, <1>3
<1>5. Fresh'
  <2> SUFFICES ASSUME NEW r \in Rows, r >= nextRow'
               PROVE  stored'[r] = 0 /\ r \notin buffer' /\ \A u \in Tasks : r \notin batch'[u]
    BY DEF Fresh
  <2>1. stored[r] = 0 /\ r \notin buffer /\ \A u \in Tasks : r \notin batch[u]
    BY DEF IInv, Fresh
  <2> QED
    BY <2>1, <1>2, <1>4
<1>6. HeldOnce'
  <2>1. \A u \in Tasks : batch'[u] \intersect buffer' = {}
    BY <1>2, <1>4 DEF IInv, HeldOnce
  <2>2. \A u, v \in Tasks : u # v => batch'[u] \intersect batch'[v] = {}
    BY <1>2 DEF IInv, HeldOnce
  <2>3. \A r \in Rows : r \in buffer' \union InFlight' => stored'[r] = 0 \/ r \in doubtful'
    <3> SUFFICES ASSUME NEW r \in Rows, r \in buffer' \union InFlight'
                 PROVE  stored'[r] = 0 \/ r \in doubtful'
      OBVIOUS
    <3>1. r \in buffer \union InFlight => stored[r] = 0 \/ r \in doubtful
      BY DEF IInv, HeldOnce
    <3>2. CASE r \notin batch[t]
      BY <3>1, <3>2, <1>2, <1>4 DEF InFlight
    <3>3. CASE r \in batch[t]
      <4>1. r \notin buffer /\ \A u \in Tasks : r \notin batch'[u]
        BY <3>3, <1>2, <1>3 DEF IInv, HeldOnce
      <4>2. r \in buffer' /\ r \in InFlight
        BY <4>1, <3>3 DEF InFlight
      <4> QED
        BY <4>1, <4>2, <3>1, <3>3
    <3> QED
      BY <3>2, <3>3
  <2>4. \A r \in Rows : stored'[r] = 2 => r \in doubtful'
    <3> SUFFICES ASSUME NEW r \in Rows, stored'[r] = 2
                 PROVE  r \in doubtful'
      OBVIOUS
    <3>1. CASE r \notin batch[t]
      BY <3>1 DEF IInv, HeldOnce
    <3>2. CASE r \in batch[t]
      <4>1. r \in InFlight
        BY <3>2 DEF InFlight
      <4> QED
        BY <4>1, <3>2, <1>1 DEF IInv, HeldOnce
    <3> QED
      BY <3>1, <3>2
  <2> QED
    BY <2>1, <2>2, <2>3, <2>4 DEF HeldOnce
<1>7. RowsAccountedFor'
  <2> SUFFICES ASSUME NEW r \in Rows, r < nextRow'
               PROVE  r \in buffer' \union InFlight' \union lost' \/ stored'[r] > 0
    BY DEF RowsAccountedFor
  <2>1. r \in buffer \union InFlight \union lost \/ stored[r] > 0
    BY DEF IInv, RowsAccountedFor
  <2>2. CASE r \in batch[t]
    BY <2>2
  <2>3. CASE r \in InFlight /\ r \notin batch[t]
    BY <2>3, <1>2 DEF InFlight
  <2>4. stored'[r] \in Int /\ stored[r] \in Int /\ stored'[r] >= stored[r]
    BY <1>1
  <2> QED
    BY <2>1, <2>2, <2>3, <2>4, <1>4
<1> QED
  BY <1>4, <1>5, <1>6, <1>7

(* Phases like these keep the parts of the invariant that speak of phases. *)
LEMMA SettledPhases ==
  ASSUME IInv, NEW t \in Tasks, Inserting(t), Done(t), PhasesAfter(t, phase'),
         stopping' = stopping, late' = late, failed \subseteq failed',
         buffer' \subseteq buffer \union failed'
  PROVE  BatchIdle' /\ Closing'
<1>1. batch' = [batch EXCEPT ![t] = {}] /\ batch \in [Tasks -> SUBSET Rows]
  BY DEF IInv, TypeOK, Done
<1>2. BatchIdle'
  <2> SUFFICES ASSUME NEW u \in Tasks, batch'[u] # {}
               PROVE  phase'[u] \in {"adding", "flushing", "draining"}
    BY DEF BatchIdle, Inserting
  <2>1. u # t /\ batch[u] # {}
    BY <1>1
  <2>2. phase[u] \in {"adding", "flushing", "draining"}
    BY <2>1 DEF IInv, BatchIdle, Inserting
  <2> QED
    BY <2>1, <2>2 DEF PhasesAfter
<1>3. Closing'
  BY DEF IInv, Closing, PhasesAfter
<1> QED
  BY <1>2, <1>3

(* An insert that ClickHouse stored and acknowledged. *)
LEMMA InsertOkKeeps ==
  ASSUME IInv, NEW t \in Tasks, InsertOk(t)
  PROVE  IInv'
<1>1. /\ Inserting(t) /\ Store(batch[t]) /\ Done(t) /\ phase' = Resumed(t)
      /\ UNCHANGED <<buffer, nextRow, stopping, faults, doubtful, failed, lost, late, killed>>
  BY DEF InsertOk, historyVars
<1>2. stored \in [Rows -> 0..2] /\ batch[t] \in SUBSET Rows
  BY DEF IInv, TypeOK
<1>3. /\ stored' \in [Rows -> 0..2]
      /\ \A r \in Rows : r \notin batch[t] => stored'[r] = stored[r]
      /\ \A r \in batch[t] : stored'[r] > 0
      /\ \A r \in batch[t] : stored'[r] = 2 => stored[r] > 0
      /\ \A r \in Rows : stored'[r] >= stored[r]
  BY <1>1, <1>2, StoreCounts
<1>4. /\ buffer' \subseteq Rows /\ batch' \in [Tasks -> SUBSET Rows]
      /\ Fresh' /\ HeldOnce' /\ RowsAccountedFor'
  BY <1>1, <1>3, SettledRows
<1>5. PhasesAfter(t, phase')
  BY <1>1, ResumedPhases
<1>6. BatchIdle' /\ Closing'
  <2>1. /\ stopping' = stopping /\ late' = late
        /\ failed \subseteq failed' /\ buffer' \subseteq buffer \union failed'
    BY <1>1 DEF historyVars
  <2> QED
    BY <2>1, <1>1, <1>5, SettledPhases
<1>7. TypeOK'
  BY <1>1, <1>3, <1>4, <1>5 DEF IInv, TypeOK, PhasesAfter
<1> QED
  BY <1>4, <1>6, <1>7 DEF IInv

(* What ClickHouse may have done with the rows of a failing insert. *)
LEMMA PerhapsStoredCounts ==
  ASSUME stored \in [Rows -> 0..2], doubtful \subseteq Rows,
         NEW rows \in SUBSET Rows, PerhapsStored(rows)
  PROVE  /\ stored' \in [Rows -> 0..2] /\ doubtful' \subseteq Rows /\ doubtful \subseteq doubtful'
         /\ \A r \in Rows : r \notin rows => stored'[r] = stored[r]
         /\ \A r \in Rows : stored'[r] >= stored[r]
         /\ \A r \in rows : stored'[r] = 2 => stored[r] > 0 \/ r \in doubtful'
         /\ \A r \in rows : stored'[r] = stored[r] \/ r \in doubtful'
<1>1. CASE UNCHANGED <<stored, doubtful>>
  <2>1. \A r \in Rows : stored[r] \in 0..2
    OBVIOUS
  <2> QED
    BY <1>1, <2>1
<1>2. CASE Store(rows) /\ doubtful' = doubtful \union rows
  <2>1. /\ stored' \in [Rows -> 0..2]
        /\ \A r \in Rows : r \notin rows => stored'[r] = stored[r]
        /\ \A r \in Rows : stored'[r] >= stored[r]
    BY <1>2 DEF Store
  <2> QED
    BY <1>2, <2>1
<1> QED
  BY <1>1, <1>2 DEF PerhapsStored

(* An insert that raised: its rows go back to the front of the buffer. *)
LEMMA InsertFailsKeeps ==
  ASSUME IInv, NEW t \in Tasks, InsertFails(t)
  PROVE  IInv'
<1>1. /\ Inserting(t) /\ PerhapsStored(batch[t]) /\ Done(t) /\ phase' = Resumed(t)
      /\ faults < MaxFaults /\ faults' = faults + 1
      /\ failed' = failed \union batch[t] /\ buffer' = batch[t] \union buffer
      /\ UNCHANGED <<nextRow, stopping, lost, late, killed>>
  BY DEF InsertFails, Retained
<1>2. stored \in [Rows -> 0..2] /\ batch[t] \in SUBSET Rows /\ doubtful \subseteq Rows
  BY DEF IInv, TypeOK
<1>3. /\ stored' \in [Rows -> 0..2] /\ doubtful' \subseteq Rows /\ doubtful \subseteq doubtful'
      /\ \A r \in Rows : r \notin batch[t] => stored'[r] = stored[r]
      /\ \A r \in Rows : stored'[r] >= stored[r]
      /\ \A r \in batch[t] : stored'[r] = 2 => stored[r] > 0 \/ r \in doubtful'
      /\ \A r \in batch[t] : stored'[r] = stored[r] \/ r \in doubtful'
  BY <1>1, <1>2, PerhapsStoredCounts
<1>4. /\ buffer' \subseteq Rows /\ batch' \in [Tasks -> SUBSET Rows]
      /\ Fresh' /\ HeldOnce' /\ RowsAccountedFor'
  BY <1>1, <1>3, SettledRows
<1>5. PhasesAfter(t, phase')
  BY <1>1, ResumedPhases
<1>6. BatchIdle' /\ Closing'
  <2>1. /\ stopping' = stopping /\ late' = late
        /\ failed \subseteq failed' /\ buffer' \subseteq buffer \union failed'
    BY <1>1 DEF historyVars
  <2> QED
    BY <2>1, <1>1, <1>5, SettledPhases
<1>7. faults' \in 0..MaxFaults /\ failed' \subseteq Rows
  BY <1>1, <1>2, BufferedAssumption DEF IInv, TypeOK
<1>8. TypeOK'
  BY <1>1, <1>3, <1>4, <1>5, <1>7 DEF IInv, TypeOK, PhasesAfter
<1> QED
  BY <1>4, <1>6, <1>8 DEF IInv

(* An insert that was cancelled: its rows are dropped. *)
LEMMA CancelInsertKeeps ==
  ASSUME IInv, NEW t \in Tasks, CancelInsert(t)
  PROVE  IInv'
<1>1. /\ Inserting(t) /\ PerhapsStored(batch[t]) /\ Done(t)
      /\ phase' = Goto(t, IF t = Timer THEN "ended"
                          ELSE IF phase[t] = "draining" THEN "left" ELSE "free")
      /\ faults < MaxFaults /\ faults' = faults + 1
      /\ lost' = lost \union batch[t] /\ killed' = (killed \/ t = Timer)
      /\ UNCHANGED <<buffer, nextRow, stopping, failed, late>>
  BY DEF CancelInsert
<1>2. stored \in [Rows -> 0..2] /\ batch[t] \in SUBSET Rows /\ doubtful \subseteq Rows
  BY DEF IInv, TypeOK
<1>3. /\ stored' \in [Rows -> 0..2] /\ doubtful' \subseteq Rows /\ doubtful \subseteq doubtful'
      /\ \A r \in Rows : r \notin batch[t] => stored'[r] = stored[r]
      /\ \A r \in Rows : stored'[r] >= stored[r]
      /\ \A r \in batch[t] : stored'[r] = 2 => stored[r] > 0 \/ r \in doubtful'
  BY <1>1, <1>2, PerhapsStoredCounts
<1>4. /\ buffer' \subseteq Rows /\ batch' \in [Tasks -> SUBSET Rows]
      /\ Fresh' /\ HeldOnce' /\ RowsAccountedFor'
  BY <1>1, <1>3, SettledRows
<1>5. PhasesAfter(t, phase')
  BY <1>1, CancelledPhases
<1>6. BatchIdle' /\ Closing'
  <2>1. /\ stopping' = stopping /\ late' = late
        /\ failed \subseteq failed' /\ buffer' \subseteq buffer \union failed'
    BY <1>1 DEF historyVars
  <2> QED
    BY <2>1, <1>1, <1>5, SettledPhases
<1>7. faults' \in 0..MaxFaults /\ lost' \subseteq Rows
  BY <1>1, <1>2, BufferedAssumption DEF IInv, TypeOK
<1>8. killed' \in BOOLEAN
  BY <1>1 DEF IInv, TypeOK
<1>9. TypeOK'
  BY <1>1, <1>3, <1>4, <1>5, <1>7, <1>8 DEF IInv, TypeOK, PhasesAfter
<1> QED
  BY <1>4, <1>6, <1>9 DEF IInv

-----------------------------------------------------------------------------
(* close() *)

(* The last flush of close(), from the phases f. *)
LEMMA FinalFlushKeeps ==
  ASSUME IInv, NEW f \in [Tasks -> CallerPhase \union TimerPhase], f[Timer] \in TimerPhase,
         \A u \in Callers : f[u] = phase[u], phase[Owner] \in {"free", "awaiting"},
         f[Timer] = phase[Timer] \/ batch[Timer] = {},
         FinalFlush(f), stopping' = TRUE, UNCHANGED <<nextRow, faults, stored, historyVars>>
  PROVE  IInv'
<1>1. /\ phase \in [Tasks -> CallerPhase \union TimerPhase] /\ batch[Owner] = {}
      /\ Owner \in Tasks /\ Owner # Timer
  BY BufferedAssumption DEF IInv, TypeOK, BatchIdle, Inserting, Tasks
<1>2. UNCHANGED <<nextRow, faults, stored, doubtful, failed, lost, late, killed>>
  BY DEF historyVars
<1>3. CASE /\ buffer = {} /\ phase' = [f EXCEPT ![Owner] = "left"]
           /\ UNCHANGED <<buffer, batch>>
  <2>1. InFlight' = InFlight
    BY <1>3 DEF InFlight
  <2>2. Fresh' /\ HeldOnce' /\ RowsAccountedFor'
    BY <1>2, <1>3, <2>1 DEF IInv, Fresh, HeldOnce, RowsAccountedFor
  <2>3. TypeOK'
    BY <1>1, <1>2, <1>3, BufferedAssumption DEF IInv, TypeOK, CallerPhase
  <2>4. BatchIdle'
    BY <1>1, <1>3 DEF IInv, BatchIdle, Inserting, Tasks
  <2>5. Closing'
    BY <1>3 DEF Closing
  <2> QED
    BY <2>2, <2>3, <2>4, <2>5 DEF IInv
<1>4. CASE phase' = [f EXCEPT ![Owner] = "draining"] /\ Take(Owner, buffer)
  <2>1. /\ buffer' \subseteq Rows /\ batch' \in [Tasks -> SUBSET Rows]
        /\ Fresh' /\ HeldOnce' /\ RowsAccountedFor'
    BY <1>1, <1>4, TakeKeeps
  <2>2. buffer' = {} /\ batch' = [batch EXCEPT ![Owner] = buffer]
    BY <1>4 DEF Take
  <2>3. TypeOK'
    <3>1. phase' \in [Tasks -> CallerPhase \union TimerPhase] /\ phase'[Timer] \in TimerPhase
      BY <1>1, <1>4 DEF CallerPhase
    <3> QED
      BY <1>2, <2>1, <3>1 DEF IInv, TypeOK
  <2>4. BatchIdle'
    BY <1>1, <1>4, <2>2 DEF IInv, BatchIdle, Inserting, Tasks
  <2>5. Closing'
    BY <2>2 DEF Closing
  <2> QED
    BY <2>1, <2>3, <2>4, <2>5 DEF IInv
<1> QED
  BY <1>3, <1>4 DEF FinalFlush

(* close() is called, and flushes at once when there is no timer. *)
LEMMA CloseKeeps ==
  ASSUME IInv, Close
  PROVE  IInv'
<1>1. /\ phase[Owner] = "free" /\ stopping' = TRUE
      /\ UNCHANGED <<nextRow, faults, stored, historyVars>>
  BY DEF Close
<1>2. phase \in [Tasks -> CallerPhase \union TimerPhase] /\ phase[Timer] \in TimerPhase
  BY DEF IInv, TypeOK
<1>3. CASE FinalFlush(phase)
  BY <1>1, <1>2, <1>3, FinalFlushKeeps
<1>4. CASE phase' = Goto(Owner, "awaiting") /\ UNCHANGED <<buffer, batch>>
  <2>1. /\ phase' = [phase EXCEPT ![Owner] = "awaiting"] /\ Owner \in Tasks /\ Owner # Timer
        /\ UNCHANGED <<doubtful, failed, lost, late, killed>>
    BY <1>1, <1>4, BufferedAssumption DEF Goto, Tasks, historyVars
  <2>2. InFlight' = InFlight
    BY <1>4 DEF InFlight
  <2>3. Fresh' /\ HeldOnce' /\ RowsAccountedFor'
    BY <1>1, <1>4, <2>1, <2>2 DEF IInv, Fresh, HeldOnce, RowsAccountedFor
  <2>4. TypeOK'
    <3>1. phase' \in [Tasks -> CallerPhase \union TimerPhase] /\ phase'[Timer] \in TimerPhase
      BY <1>2, <2>1 DEF CallerPhase
    <3> QED
      BY <1>1, <1>4, <2>1, <3>1 DEF IInv, TypeOK
  <2>5. BatchIdle'
    BY <1>1, <1>2, <1>4, <2>1 DEF IInv, BatchIdle, Inserting
  <2>6. Closing'
    BY <1>1, <1>2, <2>1 DEF Closing
  <2> QED
    BY <2>3, <2>4, <2>5, <2>6 DEF IInv
<1> QED
  BY <1>3, <1>4 DEF Close

(* close() goes on to its last flush once the timer has ended. *)
LEMMA TimerJoinedKeeps ==
  ASSUME IInv, TimerJoined
  PROVE  IInv'
<1>1. /\ phase[Owner] = "awaiting" /\ phase[Timer] = "ended" /\ FinalFlush(Goto(Timer, "none"))
      /\ UNCHANGED <<nextRow, stopping, faults, stored, historyVars>>
  BY DEF TimerJoined
<1>2. stopping' = TRUE
  BY <1>1 DEF IInv, TypeOK, Closing
<1>3. /\ Goto(Timer, "none") \in [Tasks -> CallerPhase \union TimerPhase]
      /\ Goto(Timer, "none")[Timer] = "none" /\ "none" \in TimerPhase
      /\ \A u \in Callers : Goto(Timer, "none")[u] = phase[u]
  BY BufferedAssumption DEF IInv, TypeOK, Goto, Tasks, TimerPhase
<1>4. batch[Timer] = {}
  BY <1>1 DEF IInv, BatchIdle, Inserting, Tasks
<1> QED
  BY <1>1, <1>2, <1>3, <1>4, FinalFlushKeeps

-----------------------------------------------------------------------------
(* The invariant. *)

(* Every step of the inserter keeps the invariant. *)
LEMMA StepInv ==
  ASSUME IInv, [Next]_vars
  PROVE  IInv'
<1>1. ASSUME NEW c \in Callers, Flush(c) PROVE IInv'
  <2>1. c \in Tasks
    BY DEF Tasks
  <2> QED
    BY <1>1, <2>1, FlushKeeps DEF Flush
<1>2. CASE Tick
  <2>1. Timer \in Tasks
    BY DEF Tasks
  <2> QED
    BY <1>2, <2>1, FlushKeeps DEF Tick
<1>3. CASE TimerStops
  <2>1. faults' \in 0..MaxFaults /\ stopping' \in BOOLEAN /\ killed' \in BOOLEAN
    BY <1>3 DEF IInv, TypeOK, TimerStops, historyVars
  <2> QED
    BY <1>3, <2>1, TimerEndKeeps DEF TimerStops, historyVars
<1>4. CASE CancelTimer
  <2>1. faults' \in 0..MaxFaults /\ stopping' \in BOOLEAN /\ killed' \in BOOLEAN
    BY <1>4, BufferedAssumption DEF IInv, TypeOK, CancelTimer
  <2> QED
    BY <1>4, <2>1, TimerEndKeeps DEF CancelTimer
<1>5. ASSUME NEW t \in Tasks, Settle(t) \/ CancelInsert(t) PROVE IInv'
  BY <1>5, InsertOkKeeps, InsertFailsKeeps, CancelInsertKeeps DEF Settle
<1>6. CASE UNCHANGED vars
  <2>1. UNCHANGED <<buffer, nextRow, phase, batch, stopping, faults, stored,
                    doubtful, failed, lost, late, killed>>
    BY <1>6 DEF vars, historyVars
  <2> QED
    BY <2>1 DEF IInv, TypeOK, BatchIdle, Inserting, Fresh, HeldOnce, RowsAccountedFor, InFlight, Closing
<1> HIDE DEF IInv
<1> QED
  BY <1>1, <1>2, <1>3, <1>4, <1>5, <1>6, AddKeeps, CloseKeeps, TimerJoinedKeeps DEF Next

(* The invariant holds in every reachable state. *)
LEMMA Invariance == Spec => []IInv
<1>1. Init => IInv
  BY InitInv
<1>2. IInv /\ [Next]_vars => IInv'
  BY StepInv
<1> QED
  BY <1>1, <1>2, PTL DEF Spec

(* Every variable keeps its type. *)
THEOREM TypeCorrect == Spec => []TypeOK
<1>1. IInv => TypeOK
  BY DEF IInv
<1> QED
  BY <1>1, Invariance, PTL

(* No added row disappears (_flush_batch's retain and the cap check of add()),
   however many tasks add, flush, tick and fail at once: it is buffered, being
   inserted or stored, or its insert was cancelled. *)
THEOREM NothingLost == Spec => []RowsAccountedFor
<1>1. IInv => RowsAccountedFor
  BY DEF IInv
<1> QED
  BY <1>1, Invariance, PTL

(* A row is in one place at a time, so the inserter inserts it again only after
   an insert whose answer was lost. *)
THEOREM NothingHeldTwice == Spec => []HeldOnce
<1>1. IInv => HeldOnce
  BY DEF IInv
<1> QED
  BY <1>1, Invariance, PTL

(* close() leaves nothing in the buffer that did not come back from a failed
   insert or arrive after close() began. *)
THEOREM CloseLeavesNothing == Spec => []CloseDrains
<1>1. IInv => CloseDrains
  BY DEF IInv, Closing, CloseDrains
<1> QED
  BY <1>1, Invariance, PTL
=============================================================================
