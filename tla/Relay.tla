------------------------------- MODULE Relay -------------------------------
(***************************************************************************)
(* The outbox table and the relay workers that drain it                    *)
(* (alchemiq/outbox/relay.py, store.py, models.py and the publisher        *)
(* adapters).  Application transactions insert event rows; every worker    *)
(* repeats: claim a batch with FOR UPDATE SKIP LOCKED, hand the rows to    *)
(* its publisher, record each outcome in the same transaction, commit.     *)
(*                                                                         *)
(* The database is external: a claim is one atomic step that locks         *)
(* committed rows, a transaction's updates appear at its commit, and       *)
(* whatever ends a transaction otherwise gives its locks back and forgets  *)
(* its updates.                                                            *)
(***************************************************************************)
EXTENDS Integers, FiniteSets

CONSTANTS
  Producers,        \* application transactions that may run at the same time
  Workers,          \* Relay objects, one per process or task
  BatchWorkers,     \* those whose publisher has publish_batch (ClickHousePublisher)
  MappingWorkers,   \* those whose publisher turns connection errors into
                    \*   TransientPublishError (TaskIQPublisher, FastStreamPublisher)
  MaxId,            \* bound: rows the outbox sequence may number
  BatchSize,        \* Relay.batch_size
  MaxAttempts,      \* Relay.max_attempts
  MaxFaults         \* bound: crashes, cancellations and database errors

ASSUME RelayAssumption ==
  /\ BatchWorkers \subseteq Workers
  /\ MappingWorkers \subseteq Workers
  /\ MaxId \in Nat
  /\ BatchSize \in Nat \ {0}
  /\ MaxAttempts \in Nat \ {0}
  /\ MaxFaults \in Nat

VARIABLES
  rows,       \* rows[e]: the committed outbox row e; "absent" while it is not visible
  nextId,     \* next value of the id sequence, never rolled back
  writing,    \* writing[p]: ids inserted by p's open transaction
  phase,      \* phase[w]: where worker w's run() is
  stopping,   \* stopping[w]: Relay._stopping is set
  claim,      \* claim[w]: ids of the rows locked by w's transaction
  todo,       \* todo[w]: those of them not yet handed to the publisher
  draft,      \* draft[w]: the claimed rows as w's transaction sees them
  faults,     \* faults so far
  accepted,   \* history: how often the broker took e (0, 1, 2 = more than once)
  refused,    \* history: events of a call the broker refused
  spoiled     \* history: events the broker took in a call or a cycle that was then lost

producerVars == <<nextId, writing>>
historyVars  == <<accepted, refused, spoiled>>
txVars       == <<claim, todo, draft>>
vars == <<rows, producerVars, phase, stopping, txVars, faults, historyVars>>

Ids == 1..MaxId

Status == {"absent", "pending", "published", "failed", "dead"}
Row    == [status : Status, attempts : Nat]
Absent == [status |-> "absent", attempts |-> 0]
Fresh  == [status |-> "pending", attempts |-> 0]
NoDraft == [e \in Ids |-> Absent]

(* loop: top of the while; drain: _drain_once called; publish: transaction
   open, rows claimed; wait, backoff: in _wait; exited: run() has ended. *)
Phase == {"loop", "drain", "publish", "wait", "backoff", "exited"}

(* What the broker did and the publisher call reported.  A "lostAck" is a
   connection that broke after the broker took the message. *)
Reply == {"ok", "refused", "unreachable", "lostAck"}

Seen == 0..2

IsOpen(row) == row.status \in {"pending", "failed"}

TypeOK ==
  /\ rows \in [Ids -> Row]
  /\ nextId \in 1..(MaxId + 1)
  /\ writing \in [Producers -> SUBSET Ids]
  /\ phase \in [Workers -> Phase]
  /\ stopping \in [Workers -> BOOLEAN]
  /\ claim \in [Workers -> SUBSET Ids]
  /\ todo \in [Workers -> SUBSET Ids]
  /\ draft \in [Workers -> [Ids -> Row]]
  /\ faults \in 0..MaxFaults
  /\ accepted \in [Ids -> Seen]
  /\ refused \subseteq Ids
  /\ spoiled \subseteq Ids

Init ==
  /\ rows = [e \in Ids |-> Absent]
  /\ nextId = 1
  /\ writing = [p \in Producers |-> {}]
  /\ phase = [w \in Workers |-> "loop"]
  /\ stopping = [w \in Workers |-> FALSE]
  /\ claim = [w \in Workers |-> {}]
  /\ todo = [w \in Workers |-> {}]
  /\ draft = [w \in Workers |-> NoDraft]
  /\ faults = 0
  /\ accepted = [e \in Ids |-> 0]
  /\ refused = {}
  /\ spoiled = {}

-----------------------------------------------------------------------------
(* Producers. *)

(* _write_event: session.add and the flush that numbers the row. *)
WriteEvent(p) ==
  /\ nextId <= MaxId
  /\ writing' = [writing EXCEPT ![p] = @ \union {nextId}]
  /\ nextId' = nextId + 1
  /\ UNCHANGED <<rows, phase, stopping, txVars, faults, historyVars>>

(* The scope that wrote the events commits: the rows appear with their
   column defaults. *)
CommitEvents(p) ==
  /\ writing[p] # {}
  /\ rows' = [e \in Ids |-> IF e \in writing[p] THEN Fresh ELSE rows[e]]
  /\ writing' = [writing EXCEPT ![p] = {}]
  /\ UNCHANGED <<nextId, phase, stopping, txVars, faults, historyVars>>

(* Or it rolls back: the ids stay used. *)
AbortEvents(p) ==
  /\ writing[p] # {}
  /\ writing' = [writing EXCEPT ![p] = {}]
  /\ UNCHANGED <<rows, nextId, phase, stopping, txVars, faults, historyVars>>

-----------------------------------------------------------------------------
(* One cycle of a worker. *)

Goto(w, p) == phase' = [phase EXCEPT ![w] = p]

(* Variant: while True *)
CheckStopIgnored(w) ==
  /\ phase[w] = "loop"
  /\ Goto(w, "drain")
  /\ UNCHANGED <<rows, producerVars, stopping, txVars, faults, historyVars>>

(* while not self._stopping.is_set() *)
CheckStop(w) ==
  /\ phase[w] = "loop"
  /\ Goto(w, IF stopping[w] THEN "exited" ELSE "drain")
  /\ UNCHANGED <<rows, producerVars, stopping, txVars, faults, historyVars>>

Locked == UNION {claim[w] : w \in Workers}

(* Variants of the claim: without SKIP LOCKED, retrying dead rows, and never
   retrying failed ones. *)
ClaimableIgnoringLocks == {e \in Ids : IsOpen(rows[e])}
ClaimablePendingOnly == {e \in Ids : rows[e].status = "pending"} \ Locked
ClaimableWithDead == {e \in Ids : rows[e].status \notin {"absent", "published"}} \ Locked

(* _claim_stmt: status IN (pending, failed) FOR UPDATE SKIP LOCKED. *)
Claimable == {e \in Ids : IsOpen(rows[e])} \ Locked

(* ORDER BY id LIMIT n *)
Oldest(S, n) == {e \in S : Cardinality({f \in S : f < e}) < n}

ClaimRows(w) ==
  /\ phase[w] = "drain"
  /\ LET batch == Oldest(Claimable, BatchSize) IN
       /\ batch # {}
       /\ claim' = [claim EXCEPT ![w] = batch]
       /\ todo' = [todo EXCEPT ![w] = batch]
       /\ draft' = [draft EXCEPT ![w] = [e \in Ids |-> IF e \in batch THEN rows[e] ELSE Absent]]
  /\ Goto(w, "publish")
  /\ UNCHANGED <<rows, producerVars, stopping, faults, historyVars>>

(* if not rows: return 0, which is below any batch_size *)
ClaimNothing(w) ==
  /\ phase[w] = "drain"
  /\ Claimable = {}
  /\ Goto(w, "wait")
  /\ UNCHANGED <<rows, producerVars, stopping, txVars, faults, historyVars>>

(* Variant of the poison outcome: > for >= at the boundary. *)
PoisonedLate(row) ==
  [status |-> IF row.attempts + 1 > MaxAttempts THEN "dead" ELSE "failed",
   attempts |-> row.attempts + 1]

(* The row after a poison outcome. *)
Poisoned(row) ==
  LET attempts == row.attempts + 1
  IN  [status |-> IF attempts >= MaxAttempts THEN "dead" ELSE "failed",
       attempts |-> attempts]

(* Variant of the success outcome: no UPDATE. *)
PublishedForgotten(row) == row

Published(row) == [status |-> "published", attempts |-> row.attempts]

Accepts(r) == r \in {"ok", "lostAck"}

(* Variant: an adapter that maps nothing. *)
IsTransientNever(w, r) == FALSE

(* Connection errors are transient only where the adapter maps them. *)
IsTransient(w, r) == w \in MappingWorkers /\ r \in {"unreachable", "lostAck"}

Again(n) == IF n = 2 THEN 2 ELSE n + 1

(* What w's transaction has recorded as published. *)
DraftPublished(w) == {e \in claim[w] : draft[w][e].status = "published"}

(* The transaction of w is over, one way or the other. *)
EndTx(w) ==
  /\ claim' = [claim EXCEPT ![w] = {}]
  /\ todo' = [todo EXCEPT ![w] = {}]
  /\ draft' = [draft EXCEPT ![w] = NoDraft]

(* The transaction rolls back: rows keep their committed values, and what the
   broker took in it will be offered again. *)
Rollback(w, taken) ==
  /\ EndTx(w)
  /\ spoiled' = spoiled \union DraftPublished(w) \union taken

(* The claimed rows S were handed over in one publisher call; each gets its
   row of outcome. *)
RecordOutcome(w, S, outcome) ==
  /\ draft' = [draft EXCEPT ![w] =
                 [e \in Ids |-> IF e \in S THEN outcome[e] ELSE draft[w][e]]]
  /\ todo' = [todo EXCEPT ![w] = @ \ S]
  /\ UNCHANGED <<claim, phase>>

(* One publisher call for the rows S, and what the relay makes of its end. *)
Call(w, S, r) ==
  /\ phase[w] = "publish"
  /\ todo[w] # {}
  /\ accepted' = [e \in Ids |-> IF e \in S /\ Accepts(r) THEN Again(accepted[e])
                                 ELSE accepted[e]]
  /\ refused' = IF r = "refused" THEN refused \union S ELSE refused
  /\ LET taken == IF Accepts(r) THEN S ELSE {} IN
     \/ /\ r = "ok"
        /\ RecordOutcome(w, S, [e \in S |-> Published(draft[w][e])])
        /\ UNCHANGED spoiled
     \/ /\ r # "ok" /\ ~IsTransient(w, r)
        /\ RecordOutcome(w, S, [e \in S |-> Poisoned(draft[w][e])])
        /\ spoiled' = spoiled \union taken
     \/ /\ r # "ok" /\ IsTransient(w, r)
        /\ Rollback(w, taken)
        /\ Goto(w, "backoff")
  /\ UNCHANGED <<rows, producerVars, stopping, faults>>

(* for row in rows: publish(to_message(row)), in the order of the claim *)
PublishMessage(w, e, r) ==
  /\ w \notin BatchWorkers
  /\ e \in todo[w] /\ \A f \in todo[w] : e <= f
  /\ Call(w, {e}, r)

(* _publish_batch: all the claimed rows in one call *)
PublishBatch(w, r) ==
  /\ w \in BatchWorkers
  /\ Call(w, claim[w], r)

Applied(w) == [e \in Ids |-> IF e \in claim[w] THEN draft[w][e] ELSE rows[e]]

(* session.begin() exits normally: the updates commit.  A full batch is
   followed by the next cycle at once, any other by _wait(poll_interval). *)
CommitCycle(w) ==
  /\ phase[w] = "publish" /\ todo[w] = {}
  /\ rows' = Applied(w)
  /\ EndTx(w)
  /\ Goto(w, IF Cardinality(claim[w]) < BatchSize THEN "wait" ELSE "loop")
  /\ UNCHANGED <<producerVars, stopping, faults, historyVars>>

(* _wait returns: its timeout passed, or the event was set. *)
Wake(w) ==
  /\ phase[w] \in {"wait", "backoff"}
  /\ Goto(w, "loop")
  /\ UNCHANGED <<rows, producerVars, stopping, txVars, faults, historyVars>>

-----------------------------------------------------------------------------
(* What ends a worker, and what brings it back. *)

(* Relay.stop() *)
Stop(w) ==
  /\ ~stopping[w]
  /\ stopping' = [stopping EXCEPT ![w] = TRUE]
  /\ UNCHANGED <<rows, producerVars, phase, txVars, faults, historyVars>>

(* The process dies, the database raises in mid cycle (no handler: run() ends
   with the error), or the task is cancelled (which sets _stopping). *)
Die(w) ==
  /\ faults < MaxFaults
  /\ phase[w] # "exited"
  /\ faults' = faults + 1
  /\ \E cancelled \in BOOLEAN :
       stopping' = [stopping EXCEPT ![w] = @ \/ cancelled]
  /\ Rollback(w, {})
  /\ Goto(w, "exited")
  /\ UNCHANGED <<rows, producerVars, accepted, refused>>

(* The commit itself reports an error, whether or not the server applied it;
   run() ends with the error. *)
CommitFails(w) ==
  /\ faults < MaxFaults
  /\ phase[w] = "publish" /\ todo[w] = {}
  /\ faults' = faults + 1
  /\ \/ rows' = Applied(w) /\ EndTx(w) /\ UNCHANGED spoiled
     \/ Rollback(w, {}) /\ UNCHANGED rows
  /\ Goto(w, "exited")
  /\ UNCHANGED <<producerVars, stopping, accepted, refused>>

(* A supervisor builds a new Relay and awaits its run(). *)
Restart(w) ==
  /\ phase[w] = "exited"
  /\ stopping' = [stopping EXCEPT ![w] = FALSE]
  /\ Goto(w, "loop")
  /\ UNCHANGED <<rows, producerVars, txVars, faults, historyVars>>

-----------------------------------------------------------------------------
Publish(w) ==
  \E r \in Reply : PublishBatch(w, r) \/ \E e \in Ids : PublishMessage(w, e, r)

Produce(p) == WriteEvent(p) \/ CommitEvents(p) \/ AbortEvents(p)

Cycle(w) == CheckStop(w) \/ ClaimRows(w) \/ ClaimNothing(w) \/ Publish(w)
            \/ CommitCycle(w) \/ Wake(w)

Lifecycle(w) == Stop(w) \/ Die(w) \/ CommitFails(w) \/ Restart(w)

Next ==
  \/ \E p \in Producers : Produce(p)
  \/ \E w \in Workers : Cycle(w) \/ Lifecycle(w)

Spec == Init /\ [][Next]_vars

(* A broker that is neither unreachable nor losing acknowledgements for ever:
   an event offered again and again, by whichever worker, is one day taken or
   refused. *)
Definite(e) ==
  \E w \in Workers, r \in {"ok", "refused"} :
    PublishMessage(w, e, r) \/ (e \in claim[w] /\ PublishBatch(w, r))

(* The event loop runs every ready worker, a supervisor restarts one that has
   ended, the broker answers in the end.  Stopping, faults and producers are
   free. *)
Fairness ==
  /\ \A w \in Workers : WF_vars(Cycle(w) \/ Restart(w))
  /\ \A e \in Ids : SF_vars(Definite(e))

FairSpec == Spec /\ Fairness

-----------------------------------------------------------------------------
(* The counter and the status of a row agree: a row is dead exactly when its
   attempts reached max_attempts, failed when it was tried but not that often,
   and a pending row was never charged with an attempt. *)
StatusMatchesAttempts ==
  \A e \in Ids :
    /\ rows[e].status = "dead" <=> rows[e].attempts >= MaxAttempts
    /\ rows[e].status = "failed" => rows[e].attempts > 0
    /\ rows[e].status \in {"pending", "absent"} => rows[e].attempts = 0

(* Several workers do not add double deliveries: the broker gets an event a
   second time only when an earlier hand-over was lost, in a call that failed
   after the broker took it or in a cycle that rolled back. *)
RedeliveryHasACause ==
  \A e \in Ids : accepted[e] = 2 => e \in spoiled

(* Nothing the broker took is charged and forgotten: an event the broker took
   is published, being published, or marked as going to be offered again. *)
TakenIsAccountedFor ==
  \A e \in Ids : accepted[e] > 0 =>
    \/ rows[e].status = "published"
    \/ e \in spoiled
    \/ \E w \in Workers : e \in DraftPublished(w)

(* An outage costs no event: only an event the broker refused in a call it
   took part in can become a dead letter. *)
OnlyRefusedDie ==
  \A e \in Ids : rows[e].status = "dead" => e \in refused

(* The outbox keeps the promise of EventDelivery: no phantom delivery of an
   uncommitted or rolled back event, none of a settled one, published only
   what the broker took, and settled states are final. *)
Stage(e) == IF IsOpen(rows[e]) THEN "open"
            ELSE IF rows[e].status = "absent" THEN "unrecorded" ELSE rows[e].status

Delivery == INSTANCE EventDelivery WITH stage <- [e \in Ids |-> Stage(e)]

DeliveryPromise == Delivery!Spec

(* Every committed event is published or declared dead in the end, as long as
   some worker is not told to stop again and again. *)
EventuallySettled ==
  (\E w \in Workers : <>[](~stopping[w])) =>
    \A e \in Ids : IsOpen(rows[e]) ~> rows[e].status \in {"published", "dead"}

(* stop() ends the worker after the current cycle, unless it was ended before
   and a new Relay took its place. *)
StopEnds ==
  \A w \in Workers : stopping[w] ~> (phase[w] = "exited" \/ ~stopping[w])
=============================================================================
