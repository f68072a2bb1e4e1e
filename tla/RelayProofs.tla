---------------------------- MODULE RelayProofs ----------------------------
(***************************************************************************)
(* Proofs about Relay, for any sets of producers and workers, any mix of   *)
(* publishers and any batch size, number of attempts, rows and faults.     *)
(***************************************************************************)
EXTENDS Relay, TLAPS

(* Row locks: a row is claimed by one transaction at a time, claimed rows are
   open, and locks are held only between claim and commit. *)
LockInv ==
  /\ \A w \in Workers : claim[w] # {} => phase[w] = "publish"
  /\ \A w \in Workers : todo[w] \subseteq claim[w]
  /\ \A w, v \in Workers : w # v => claim[w] \cap claim[v] = {}
  /\ \A w \in Workers : \A e \in claim[w] : IsOpen(rows[e])
  /\ \A w \in BatchWorkers : todo[w] = claim[w] \/ todo[w] = {}

(* What a transaction has drafted for a claimed row: the committed row while it
   waits for its call, afterwards exactly one outcome applied to that row. *)
DraftInv ==
  \A w \in Workers : \A e \in claim[w] :
    /\ e \in todo[w] => draft[w][e] = rows[e]
    /\ e \notin todo[w] => \/ draft[w][e] = Published(rows[e]) /\ accepted[e] > 0
                           \/ draft[w][e] = Poisoned(rows[e])

(* Ids are given out once, and an uncommitted row is invisible to the relay. *)
WriteInv ==
  /\ \A p \in Producers : \A e \in writing[p] : e < nextId /\ rows[e] = Absent
  /\ \A p, q \in Producers : p # q => writing[p] \cap writing[q] = {}
  /\ \A e \in Ids : e >= nextId => rows[e] = Absent
  /\ \A e \in Ids : rows[e].status = "absent" => rows[e] = Absent /\ accepted[e] = 0

(* A published row was taken by the broker. *)
PublishedWasTaken ==
  \A e \in Ids : rows[e].status = "published" => accepted[e] > 0

IInv ==
  /\ TypeOK
  /\ LockInv
  /\ DraftInv
  /\ WriteInv
  /\ PublishedWasTaken
  /\ StatusMatchesAttempts
  /\ TakenIsAccountedFor
  /\ RedeliveryHasACause

-----------------------------------------------------------------------------
(* Every variable keeps its type. *)

(* What publishing or failing makes of a row is a row. *)
LEMMA OutcomeType ==
  ASSUME NEW row \in Row
  PROVE  Published(row) \in Row /\ Poisoned(row) \in Row
BY RelayAssumption DEF Row, Status, Published, Poisoned

(* What publishing or failing changes of a row: status and attempts. *)
LEMMA OutcomeFields ==
  ASSUME NEW row
  PROVE  /\ Published(row).status = "published"
         /\ Published(row).attempts = row.attempts
         /\ Poisoned(row).status \in {"dead", "failed"}
         /\ Poisoned(row).attempts = row.attempts + 1
         /\ Poisoned(row).status = "dead" <=> Poisoned(row).attempts >= MaxAttempts
BY DEF Published, Poisoned

(* A publication more is counted, up to the bound. *)
LEMMA AgainType ==
  ASSUME NEW n \in Seen
  PROVE  Again(n) \in Seen /\ Again(n) > 0 /\ Again(n) >= n
BY DEF Seen, Again

(* Every step keeps the types. *)
LEMMA TypeStep == TypeOK /\ [Next]_vars => TypeOK'
<1> USE RelayAssumption
<1> SUFFICES ASSUME TypeOK, [Next]_vars PROVE TypeOK'
  OBVIOUS
<1> USE DEF TypeOK, producerVars, historyVars, txVars, Goto, Phase
<1>0. Absent \in Row /\ Fresh \in Row /\ NoDraft \in [Ids -> Row]
  BY DEF Absent, Fresh, NoDraft, Row, Status
<1>1. ASSUME NEW p \in Producers, WriteEvent(p) PROVE TypeOK'
  BY <1>1 DEF WriteEvent, Ids
<1>2. ASSUME NEW p \in Producers, CommitEvents(p) PROVE TypeOK'
  BY <1>0, <1>2 DEF CommitEvents
<1>3. ASSUME NEW p \in Producers, AbortEvents(p) PROVE TypeOK'
  BY <1>3 DEF AbortEvents
<1>4. ASSUME NEW w \in Workers, CheckStop(w) PROVE TypeOK'
  BY <1>4 DEF CheckStop
<1>5. ASSUME NEW w \in Workers, ClaimRows(w) PROVE TypeOK'
  <2> DEFINE batch == Oldest(Claimable, BatchSize)
  <2>1. batch \subseteq Ids
    BY DEF Oldest, Claimable
  <2>2. [e \in Ids |-> IF e \in batch THEN rows[e] ELSE Absent] \in [Ids -> Row]
    BY <1>0
  <2> HIDE DEF batch
  <2>. QED
    BY <1>5, <2>1, <2>2 DEF ClaimRows, batch
<1>6. ASSUME NEW w \in Workers, ClaimNothing(w) PROVE TypeOK'
  BY <1>6 DEF ClaimNothing
<1>7. ASSUME NEW w \in Workers, NEW S \in SUBSET Ids, NEW r \in Reply, Call(w, S, r)
      PROVE  TypeOK'
  <2>1. accepted' \in [Ids -> Seen]
    BY <1>7, AgainType DEF Call
  <2>2. refused' \subseteq Ids /\ spoiled' \subseteq Ids
    BY <1>7 DEF Call, Rollback, DraftPublished
  <2>3. /\ draft' \in [Workers -> [Ids -> Row]]
        /\ todo' \in [Workers -> SUBSET Ids]
        /\ claim' \in [Workers -> SUBSET Ids]
        /\ phase' \in [Workers -> Phase]
    <3> DEFINE ok == [e \in S |-> Published(draft[w][e])]
               bad == [e \in S |-> Poisoned(draft[w][e])]
    <3>1. ok \in [S -> Row] /\ bad \in [S -> Row]
      BY OutcomeType
    <3> HIDE DEF ok, bad
    <3>2. CASE RecordOutcome(w, S, ok)
      BY <3>1, <3>2 DEF RecordOutcome
    <3>3. CASE RecordOutcome(w, S, bad)
      BY <3>1, <3>3 DEF RecordOutcome
    <3>4. CASE EndTx(w) /\ Goto(w, "backoff")
      BY <1>0, <3>4 DEF EndTx
    <3>. QED
      BY <1>7, <3>2, <3>3, <3>4 DEF Call, Rollback, ok, bad
  <2>. QED
    BY <1>7, <2>1, <2>2, <2>3 DEF Call
<1>8. ASSUME NEW w \in Workers, CommitCycle(w) PROVE TypeOK'
  BY <1>0, <1>8 DEF CommitCycle, Applied, EndTx
<1>9. ASSUME NEW w \in Workers, Wake(w) PROVE TypeOK'
  BY <1>9 DEF Wake
<1>10. ASSUME NEW w \in Workers, Stop(w) PROVE TypeOK'
  BY <1>10 DEF Stop
<1>11. ASSUME NEW w \in Workers, Die(w) PROVE TypeOK'
  BY <1>0, <1>11 DEF Die, Rollback, EndTx, DraftPublished
<1>12. ASSUME NEW w \in Workers, CommitFails(w) PROVE TypeOK'
  <2>1. CASE rows' = Applied(w) /\ EndTx(w) /\ UNCHANGED spoiled
    BY <1>0, <1>12, <2>1 DEF CommitFails, Applied, EndTx
  <2>2. CASE Rollback(w, {}) /\ UNCHANGED rows
    BY <1>0, <1>12, <2>2 DEF CommitFails, Rollback, EndTx, DraftPublished
  <2>. QED
    BY <1>12, <2>1, <2>2 DEF CommitFails
<1>13. ASSUME NEW w \in Workers, Restart(w) PROVE TypeOK'
  BY <1>13 DEF Restart
<1>14. CASE UNCHANGED vars
  BY <1>14 DEF vars
<1>. QED
  BY <1>1, <1>2, <1>3, <1>4, <1>5, <1>6, <1>7, <1>8, <1>9, <1>10, <1>11, <1>12, <1>13, <1>14
     DEF Next, Produce, Cycle, Lifecycle, Publish, PublishMessage, PublishBatch

(* The type invariant of Relay, for every instance. *)
THEOREM TypeCorrect == Spec => []TypeOK
<1>1. Init => TypeOK
  BY RelayAssumption DEF Init, TypeOK, Absent, NoDraft, Row, Status, Phase, Seen, Ids
<1>. QED
  BY <1>1, TypeStep, PTL DEF Spec

-----------------------------------------------------------------------------
(* The inductive step, one lemma for each kind of step. *)

(* Steps that touch neither rows, locks nor history. *)
LEMMA QuietStep ==
  ASSUME IInv, TypeOK',
         UNCHANGED <<rows, txVars, accepted, spoiled>>,
         \A w \in Workers : phase[w] = "publish" => phase'[w] = "publish",
         WriteInv'
  PROVE  IInv'
<1> USE DEF txVars
<1>1. LockInv'
  BY DEF IInv, LockInv
<1>2. DraftInv'
  BY DEF IInv, DraftInv
<1>. QED
  BY <1>1, <1>2 DEF IInv, PublishedWasTaken, StatusMatchesAttempts, TakenIsAccountedFor,
                    RedeliveryHasACause, DraftPublished

(* A producer's transaction keeps the invariant. *)
LEMMA ProducerStep ==
  ASSUME IInv, TypeOK', NEW p \in Producers, Produce(p)
  PROVE  IInv'
<1> USE RelayAssumption DEF IInv, TypeOK, Ids
<1>1. CASE WriteEvent(p)
  <2>1. WriteInv'
    BY <1>1 DEF WriteEvent, WriteInv, historyVars
  <2>. QED
    BY <1>1, <2>1, QuietStep DEF WriteEvent, historyVars
<1>2. CASE AbortEvents(p)
  <2>1. WriteInv'
    BY <1>2 DEF AbortEvents, WriteInv, historyVars
  <2>. QED
    BY <1>2, <2>1, QuietStep DEF AbortEvents, historyVars
<1>3. CASE CommitEvents(p)
  <2>0. /\ UNCHANGED <<claim, todo, draft, phase, accepted, spoiled, nextId>>
        /\ \A e \in Ids : rows'[e] = IF e \in writing[p] THEN Fresh ELSE rows[e]
        /\ writing' = [writing EXCEPT ![p] = {}]
    BY <1>3 DEF CommitEvents, txVars, historyVars
  <2>1. \A e \in writing[p] : e \in Ids /\ rows[e] = Absent /\ accepted[e] = 0 /\ e < nextId
    BY DEF WriteInv, Absent
  <2>2. \A e \in Ids : IsOpen(rows[e]) => e \notin writing[p]
    BY <2>1 DEF IsOpen, Absent
  <2>3. \A w \in Workers : \A e \in claim[w] : e \in Ids /\ rows'[e] = rows[e]
    BY <2>0, <2>2 DEF LockInv
  <2>4. LockInv'
    BY <2>0, <2>3 DEF LockInv
  <2>5. DraftInv'
    BY <2>0, <2>3 DEF DraftInv
  <2>6. WriteInv'
    BY <2>0, <2>1 DEF WriteInv, Fresh, Absent
  <2>11. ASSUME NEW e \in writing[p]
         PROVE  rows'[e].status = "pending" /\ rows'[e].attempts = 0
    BY <2>0, <2>1 DEF Fresh
  <2>12. ASSUME NEW e \in Ids, e \notin writing[p] PROVE rows'[e] = rows[e]
    BY <2>0, <2>12
  <2>7. PublishedWasTaken'
    <3> SUFFICES ASSUME NEW e \in Ids, rows'[e].status = "published" PROVE accepted[e] > 0
      BY <2>0 DEF PublishedWasTaken
    <3>. QED
      BY <2>11, <2>12 DEF PublishedWasTaken
  <2>8. StatusMatchesAttempts'
    <3> SUFFICES ASSUME NEW e \in Ids
                 PROVE  /\ rows'[e].status = "dead" <=> rows'[e].attempts >= MaxAttempts
                        /\ rows'[e].status = "failed" => rows'[e].attempts > 0
                        /\ rows'[e].status \in {"pending", "absent"} => rows'[e].attempts = 0
      BY DEF StatusMatchesAttempts
    <3>1. CASE e \in writing[p]
      BY <2>11, <3>1
    <3>2. CASE e \notin writing[p]
      BY <2>12, <3>2 DEF StatusMatchesAttempts
    <3>. QED
      BY <3>1, <3>2
  <2>10. RedeliveryHasACause'
    BY <2>0 DEF RedeliveryHasACause
  <2>9. TakenIsAccountedFor'
    <3> SUFFICES ASSUME NEW e \in Ids, accepted[e] > 0
                 PROVE  \/ rows'[e].status = "published"
                        \/ e \in spoiled
                        \/ \E w \in Workers : e \in DraftPublished(w)
      BY <2>0 DEF TakenIsAccountedFor, DraftPublished
    <3>1. rows'[e] = rows[e]
      BY <2>0, <2>1
    <3>. QED
      BY <3>1 DEF TakenIsAccountedFor
  <2>. QED
    BY <2>4, <2>5, <2>6, <2>7, <2>8, <2>9, <2>10
<1>. QED
  BY <1>1, <1>2, <1>3 DEF Produce

(* Claiming a batch keeps the invariant. *)
LEMMA ClaimStep ==
  ASSUME IInv, TypeOK', NEW w \in Workers, ClaimRows(w)
  PROVE  IInv'
<1> USE DEF IInv, TypeOK, historyVars, producerVars
<1> DEFINE batch == Oldest(Claimable, BatchSize)
<1>1. batch \subseteq Ids /\ batch \cap Locked = {} /\ \A e \in batch : IsOpen(rows[e])
  BY DEF Oldest, Claimable
<1>2. /\ claim' = [claim EXCEPT ![w] = batch]
      /\ todo' = [todo EXCEPT ![w] = batch]
      /\ draft' = [draft EXCEPT ![w] = [e \in Ids |-> IF e \in batch THEN rows[e] ELSE Absent]]
      /\ phase' = [phase EXCEPT ![w] = "publish"]
      /\ UNCHANGED <<rows, nextId, writing, accepted, spoiled>>
  BY DEF ClaimRows, Goto
<1>3. claim[w] = {}
  BY DEF ClaimRows, LockInv
<1> HIDE DEF batch
<1>4. LockInv'
  BY RelayAssumption, <1>1, <1>2 DEF LockInv, Locked
<1>5. DraftInv'
  BY <1>1, <1>2 DEF DraftInv
<1>6. WriteInv' /\ PublishedWasTaken' /\ StatusMatchesAttempts' /\ RedeliveryHasACause'
  BY <1>2 DEF WriteInv, PublishedWasTaken, StatusMatchesAttempts, RedeliveryHasACause
<1>7. TakenIsAccountedFor'
  BY <1>2, <1>3 DEF TakenIsAccountedFor, DraftPublished
<1>. QED
  BY <1>4, <1>5, <1>6, <1>7

(* A transaction that rolls back, after a call that left the events taken with
   the broker. *)
LEMMA RollbackStep ==
  ASSUME IInv, TypeOK', NEW w \in Workers, NEW taken \in SUBSET claim[w],
         Rollback(w, taken),
         UNCHANGED <<rows, nextId, writing>>,
         \A v \in Workers : v # w => phase'[v] = phase[v],
         \A e \in Ids : accepted'[e] = accepted[e] \/ (e \in taken /\ accepted'[e] > 0)
  PROVE  IInv'
<1> USE DEF IInv, TypeOK
<1>1. /\ claim' = [claim EXCEPT ![w] = {}]
      /\ todo' = [todo EXCEPT ![w] = {}]
      /\ draft' = [draft EXCEPT ![w] = NoDraft]
      /\ spoiled' = spoiled \union DraftPublished(w) \union taken
  BY DEF Rollback, EndTx
<1>2. LockInv'
  BY RelayAssumption, <1>1 DEF LockInv
<1>3. DraftInv'
  BY <1>1 DEF DraftInv, Ids, Seen
<1>4. WriteInv'
  BY DEF WriteInv, LockInv, IsOpen
<1>5. PublishedWasTaken'
  BY DEF PublishedWasTaken, Seen
<1>6. StatusMatchesAttempts'
  BY DEF StatusMatchesAttempts
<1>7. RedeliveryHasACause'
  BY <1>1 DEF RedeliveryHasACause
<1>8. TakenIsAccountedFor'
  <2> SUFFICES ASSUME NEW e \in Ids, accepted'[e] > 0, e \notin spoiled',
                      rows[e].status # "published"
               PROVE  \E v \in Workers : e \in DraftPublished(v)'
    BY DEF TakenIsAccountedFor
  <2>1. accepted[e] > 0 /\ e \notin spoiled
    BY <1>1
  <2>2. PICK v \in Workers : e \in DraftPublished(v)
    BY <2>1 DEF TakenIsAccountedFor
  <2>3. v # w
    BY <1>1, <2>2
  <2>. QED
    BY <1>1, <2>2, <2>3 DEF DraftPublished
<1>. QED
  BY <1>2, <1>3, <1>4, <1>5, <1>6, <1>7, <1>8

(* A call whose outcome is recorded in the open transaction: outcome[e] is the
   row published, where the broker took e, or the row poisoned. *)
LEMMA RecordStep ==
  ASSUME IInv, TypeOK', NEW w \in Workers, NEW S \in SUBSET todo[w], NEW outcome,
         RecordOutcome(w, S, outcome),
         UNCHANGED <<rows, nextId, writing>>,
         w \in BatchWorkers => S = todo[w],
         \A e \in Ids \ S : accepted'[e] = accepted[e],
         \A e \in S : accepted'[e] = accepted[e] \/ accepted'[e] = Again(accepted[e]),
         spoiled \subseteq spoiled',
         \/ \A e \in S : outcome[e] = Published(rows[e]) /\ accepted'[e] > 0
         \/ /\ \A e \in S : outcome[e] = Poisoned(rows[e])
            /\ \A e \in S : accepted'[e] = accepted[e] \/ e \in spoiled'
  PROVE  IInv'
<1> USE DEF IInv, TypeOK
<1>1. /\ draft' = [draft EXCEPT ![w] =
                     [e \in Ids |-> IF e \in S THEN outcome[e] ELSE draft[w][e]]]
      /\ todo' = [todo EXCEPT ![w] = @ \ S]
      /\ UNCHANGED <<claim, phase>>
  BY DEF RecordOutcome
<1>2. /\ S \subseteq claim[w] /\ S \subseteq Ids
      /\ \A e \in S : IsOpen(rows[e]) /\ draft[w][e] = rows[e]
  BY DEF LockInv, DraftInv
<1>3. \A e \in S : \A v \in Workers : e \notin DraftPublished(v)
  BY <1>2 DEF LockInv, DraftPublished, IsOpen
<1>4. ASSUME NEW e \in Ids PROVE accepted'[e] >= accepted[e]
  <2>1. accepted[e] \in Seen /\ (accepted'[e] = accepted[e] \/ accepted'[e] = Again(accepted[e]))
    OBVIOUS
  <2>. QED
    BY <2>1, AgainType DEF Seen
<1>5. LockInv'
  BY RelayAssumption, <1>1 DEF LockInv
<1>6. DraftInv'
  <2> SUFFICES ASSUME NEW v \in Workers, NEW e \in claim[v]
               PROVE  /\ e \in todo'[v] => draft'[v][e] = rows'[e]
                      /\ e \notin todo'[v] =>
                           \/ draft'[v][e] = Published(rows'[e]) /\ accepted'[e] > 0
                           \/ draft'[v][e] = Poisoned(rows'[e])
    BY <1>1 DEF DraftInv
  <2>1. CASE e \in S
    <3>1. v = w
      BY <1>2, <2>1 DEF LockInv
    <3>2. draft'[v][e] = outcome[e] /\ e \notin todo'[v]
      BY <1>1, <1>2, <2>1, <3>1
    <3>. QED
      BY <2>1, <3>2
  <2>2. CASE e \notin S
    <3>1. draft'[v][e] = draft[v][e] /\ (e \in todo'[v] <=> e \in todo[v])
      BY <1>1, <2>2
    <3>. QED
      BY <2>2, <3>1 DEF DraftInv
  <2>. QED
    BY <2>1, <2>2
<1>7. WriteInv'
  BY <1>2 DEF WriteInv, IsOpen
<1>8. PublishedWasTaken'
  BY <1>2 DEF PublishedWasTaken, IsOpen
<1>9. StatusMatchesAttempts'
  BY DEF StatusMatchesAttempts
<1>10. RedeliveryHasACause'
  <2> SUFFICES ASSUME NEW e \in S, accepted'[e] = 2, accepted[e] # 2 PROVE e \in spoiled'
    BY DEF RedeliveryHasACause
  <2>1. accepted[e] \in Seen /\ accepted'[e] = Again(accepted[e])
    BY <1>2
  <2>2. accepted[e] > 0
    <3> HIDE DEF IInv, TypeOK
    <3>. QED
      BY <2>1 DEF Again, Seen
  <2>. QED
    BY <1>2, <1>3, <2>2 DEF TakenIsAccountedFor, IsOpen
<1>11. TakenIsAccountedFor'
  <2> SUFFICES ASSUME NEW e \in Ids, accepted'[e] > 0, e \notin spoiled',
                      rows[e].status # "published"
               PROVE  \E v \in Workers : e \in claim[v] /\ draft'[v][e].status = "published"
    BY <1>1 DEF TakenIsAccountedFor, DraftPublished
  <2>1. CASE e \in S /\ outcome[e] = Published(rows[e])
    BY <1>1, <1>2, <2>1 DEF Published
  <2>2. CASE ~(e \in S /\ outcome[e] = Published(rows[e]))
    <3>1. accepted[e] > 0 /\ e \notin spoiled
      BY <2>2
    <3>2. PICK v \in Workers : e \in DraftPublished(v)
      BY <3>1 DEF TakenIsAccountedFor
    <3>3. e \notin S
      BY <1>3, <3>2
    <3>. QED
      BY <1>1, <3>2, <3>3 DEF DraftPublished
  <2>. QED
    BY <2>1, <2>2
<1>. QED
  BY <1>5, <1>6, <1>7, <1>8, <1>9, <1>10, <1>11

(* The commit of a cycle, seen from the database. *)
LEMMA ApplyStep ==
  ASSUME IInv, TypeOK', NEW w \in Workers, todo[w] = {},
         rows' = Applied(w), EndTx(w),
         UNCHANGED <<nextId, writing, accepted, spoiled>>,
         \A v \in Workers : v # w => phase'[v] = phase[v]
  PROVE  IInv'
<1> USE DEF IInv, TypeOK
<1>1. /\ claim' = [claim EXCEPT ![w] = {}]
      /\ todo' = [todo EXCEPT ![w] = {}]
      /\ draft' = [draft EXCEPT ![w] = NoDraft]
      /\ \A e \in Ids : rows'[e] = IF e \in claim[w] THEN draft[w][e] ELSE rows[e]
  BY DEF EndTx, Applied
<1>2. ASSUME NEW e \in claim[w]
      PROVE  /\ e \in Ids /\ IsOpen(rows[e])
             /\ \/ rows'[e] = Published(rows[e]) /\ accepted[e] > 0
                \/ rows'[e] = Poisoned(rows[e])
  BY <1>1 DEF LockInv, DraftInv
<1>3. ASSUME NEW v \in Workers, v # w, NEW e \in claim[v]
      PROVE  rows'[e] = rows[e]
  BY <1>1, <1>3 DEF LockInv
<1>4. LockInv'
  BY RelayAssumption, <1>1, <1>3 DEF LockInv
<1>5. DraftInv'
  <2> SUFFICES ASSUME NEW v \in Workers, v # w, NEW e \in claim[v]
               PROVE  /\ e \in todo'[v] => draft'[v][e] = rows'[e]
                      /\ e \notin todo'[v] =>
                           \/ draft'[v][e] = Published(rows'[e]) /\ accepted'[e] > 0
                           \/ draft'[v][e] = Poisoned(rows'[e])
    BY <1>1 DEF DraftInv
  <2>1. rows'[e] = rows[e] /\ draft'[v][e] = draft[v][e] /\ todo'[v] = todo[v]
    BY <1>1, <1>3
  <2>. QED
    BY <2>1 DEF DraftInv
<1>6. ASSUME NEW e \in claim[w]
      PROVE  /\ rows[e].status \in {"pending", "failed"}
             /\ rows'[e].status \in {"published", "dead", "failed"}
             /\ rows'[e].status = "published" =>
                  accepted[e] > 0 /\ rows'[e].attempts = rows[e].attempts
             /\ rows'[e].status \in {"dead", "failed"} =>
                  /\ rows'[e].attempts = rows[e].attempts + 1
                  /\ rows'[e].status = "dead" <=> rows'[e].attempts >= MaxAttempts
  <2>1. CASE rows'[e] = Published(rows[e]) /\ accepted[e] > 0
    <3> HIDE DEF IInv, TypeOK
    <3>. QED
      BY <1>2, <2>1, OutcomeFields DEF IsOpen
  <2>2. CASE rows'[e] = Poisoned(rows[e])
    <3> HIDE DEF IInv, TypeOK
    <3>. QED
      BY <1>2, <2>2, OutcomeFields DEF IsOpen
  <2>. QED
    BY <1>2, <2>1, <2>2
<1>7. WriteInv'
  <2>1. ASSUME NEW e \in Ids, rows[e] = Absent PROVE rows'[e] = rows[e]
    <3>1. rows[e].status = "absent"
      BY <2>1 DEF Absent
    <3>2. e \notin claim[w]
      BY <1>6, <3>1
    <3>. QED
      BY <1>1, <3>2
  <2>2. ASSUME NEW e \in Ids, rows'[e].status = "absent" PROVE rows'[e] = rows[e]
    <3>1. e \notin claim[w]
      BY <1>6, <2>2
    <3>. QED
      BY <1>1, <3>1
  <2>3. \A p \in Producers : \A e \in writing[p] : e \in Ids
    OBVIOUS
  <2>. QED
    BY <2>1, <2>2, <2>3 DEF WriteInv
<1>8. PublishedWasTaken'
  <2> SUFFICES ASSUME NEW e \in Ids, rows'[e].status = "published" PROVE accepted[e] > 0
    BY DEF PublishedWasTaken
  <2>1. CASE e \in claim[w]
    BY <1>6, <2>1
  <2>2. CASE e \notin claim[w]
    BY <1>1, <2>2 DEF PublishedWasTaken
  <2>. QED
    BY <2>1, <2>2
<1>9. StatusMatchesAttempts'
  <2> SUFFICES ASSUME NEW e \in Ids
               PROVE  /\ rows'[e].status = "dead" <=> rows'[e].attempts >= MaxAttempts
                      /\ rows'[e].status = "failed" => rows'[e].attempts > 0
                      /\ rows'[e].status \in {"pending", "absent"} => rows'[e].attempts = 0
    BY DEF StatusMatchesAttempts
  <2>1. CASE e \notin claim[w]
    BY <1>1, <2>1 DEF StatusMatchesAttempts
  <2>2. CASE e \in claim[w]
    <3>1. rows[e].attempts \in Nat /\ ~(rows[e].attempts >= MaxAttempts)
      BY <1>6, <2>2 DEF StatusMatchesAttempts, Row
    <3> HIDE DEF IInv, TypeOK
    <3>. QED
      BY RelayAssumption, <1>6, <2>2, <3>1
  <2>. QED
    BY <2>1, <2>2
<1>10. RedeliveryHasACause'
  BY DEF RedeliveryHasACause
<1>11. TakenIsAccountedFor'
  <2> SUFFICES ASSUME NEW e \in Ids, accepted[e] > 0, e \notin spoiled,
                      rows'[e].status # "published"
               PROVE  \E v \in Workers : e \in claim'[v] /\ draft'[v][e].status = "published"
    BY DEF TakenIsAccountedFor, DraftPublished
  <2>1. rows[e].status # "published"
    BY <1>1, <1>2 DEF IsOpen
  <2>2. PICK v \in Workers : e \in DraftPublished(v)
    BY <2>1 DEF TakenIsAccountedFor
  <2>3. v # w
    BY <1>1, <2>2 DEF DraftPublished
  <2>. QED
    BY <1>1, <2>2, <2>3 DEF DraftPublished
<1>. QED
  BY <1>4, <1>5, <1>7, <1>8, <1>9, <1>10, <1>11

(* Every publisher call, whatever the broker answers. *)
LEMMA CallStep ==
  ASSUME IInv, TypeOK', NEW w \in Workers, NEW S \in SUBSET todo[w], NEW r \in Reply,
         w \in BatchWorkers => S = todo[w],
         Call(w, S, r)
  PROVE  IInv'
<1> USE DEF IInv, TypeOK
<1> DEFINE taken == IF Accepts(r) THEN S ELSE {}
           ok == [e \in S |-> Published(draft[w][e])]
           bad == [e \in S |-> Poisoned(draft[w][e])]
<1>1. /\ \A e \in Ids : accepted'[e] = IF e \in S /\ Accepts(r) THEN Again(accepted[e])
                                        ELSE accepted[e]
      /\ UNCHANGED <<rows, nextId, writing>>
      /\ \/ r = "ok" /\ RecordOutcome(w, S, ok) /\ UNCHANGED spoiled
         \/ RecordOutcome(w, S, bad) /\ spoiled' = spoiled \union taken
         \/ Rollback(w, taken) /\ Goto(w, "backoff")
  BY DEF Call, producerVars
<1>2. /\ S \subseteq claim[w] /\ S \subseteq Ids
      /\ \A e \in S : draft[w][e] = rows[e]
  BY DEF LockInv, DraftInv
<1>3. ASSUME NEW e \in Ids PROVE accepted'[e] >= accepted[e] /\ (e \in taken => accepted'[e] > 0)
  <2>1. accepted[e] \in Seen /\ accepted[e] >= accepted[e]
    BY DEF Seen
  <2>. QED
    BY <1>1, <2>1, AgainType
<1>4. CASE r = "ok" /\ RecordOutcome(w, S, ok) /\ UNCHANGED spoiled
  <2>1. \A e \in S : ok[e] = Published(rows[e]) /\ accepted'[e] > 0
    BY <1>2, <1>3, <1>4 DEF Accepts
  <2> HIDE DEF ok, bad, IInv, TypeOK
  <2>. QED
    BY <1>1, <1>2, <1>4, <2>1, RecordStep
<1>5. CASE RecordOutcome(w, S, bad) /\ spoiled' = spoiled \union taken
  <2>1. \A e \in S : bad[e] = Poisoned(rows[e]) /\ (accepted'[e] = accepted[e] \/ e \in spoiled')
    BY <1>1, <1>2, <1>5
  <2> HIDE DEF ok, bad, IInv, TypeOK
  <2>. QED
    BY <1>1, <1>2, <1>5, <2>1, RecordStep
<1>6. CASE Rollback(w, taken) /\ Goto(w, "backoff")
  <2>1. taken \in SUBSET claim[w]
    BY <1>2
  <2>2. \A e \in Ids : accepted'[e] = accepted[e] \/ (e \in taken /\ accepted'[e] > 0)
    BY <1>1, <1>3
  <2>3. \A v \in Workers : v # w => phase'[v] = phase[v]
    BY <1>6 DEF Goto
  <2> HIDE DEF taken, IInv, TypeOK
  <2>. QED
    BY <1>1, <1>3, <1>6, <2>1, <2>2, <2>3, RollbackStep
<1>. QED
  BY <1>1, <1>4, <1>5, <1>6

(* Whatever a worker does keeps the invariant. *)
LEMMA WorkerStep ==
  ASSUME IInv, TypeOK', NEW w \in Workers, Cycle(w) \/ Lifecycle(w)
  PROVE  IInv'
<1>0. /\ claim[w] # {} => phase[w] = "publish"
      /\ todo[w] \subseteq claim[w]
      /\ w \in BatchWorkers => todo[w] = claim[w] \/ todo[w] = {}
      /\ phase \in [Workers -> Phase]
  BY DEF IInv, LockInv, TypeOK
<1>1. ASSUME CheckStop(w) \/ ClaimNothing(w) \/ Wake(w) \/ Stop(w) \/ Restart(w) PROVE IInv'
  <2>1. /\ UNCHANGED <<rows, txVars, accepted, spoiled, nextId, writing>>
        /\ \A v \in Workers : phase[v] = "publish" => phase'[v] = "publish"
    BY <1>0, <1>1 DEF CheckStop, ClaimNothing, Wake, Stop, Restart, Goto, producerVars,
                     historyVars
  <2>2. WriteInv'
    BY <2>1 DEF IInv, WriteInv
  <2>. QED
    BY <2>1, <2>2, QuietStep
<1>2. CASE ClaimRows(w)
  BY <1>2, ClaimStep
<1>3. ASSUME NEW r \in Reply, PublishBatch(w, r) PROVE IInv'
  BY <1>0, <1>3, CallStep DEF PublishBatch, Call
<1>4. ASSUME NEW r \in Reply, NEW e \in Ids, PublishMessage(w, e, r) PROVE IInv'
  <2>1. {e} \in SUBSET todo[w]
    BY <1>4 DEF PublishMessage
  <2>. QED
    BY <1>4, <2>1, CallStep DEF PublishMessage
<1>5. CASE CommitCycle(w)
  BY <1>0, <1>5, ApplyStep DEF CommitCycle, Goto, producerVars, historyVars
<1>6. CASE Die(w)
  <2>1. /\ Rollback(w, {})
        /\ UNCHANGED <<rows, nextId, writing, accepted>>
        /\ \A v \in Workers : v # w => phase'[v] = phase[v]
    BY <1>0, <1>6 DEF Die, Goto, producerVars
  <2>. QED
    BY <2>1, RollbackStep
<1>7. CASE CommitFails(w)
  <2>1. /\ todo[w] = {}
        /\ UNCHANGED <<nextId, writing, accepted>>
        /\ \A v \in Workers : v # w => phase'[v] = phase[v]
        /\ \/ rows' = Applied(w) /\ EndTx(w) /\ UNCHANGED spoiled
           \/ Rollback(w, {}) /\ UNCHANGED rows
    BY <1>0, <1>7 DEF CommitFails, Goto, producerVars
  <2>2. CASE rows' = Applied(w) /\ EndTx(w) /\ UNCHANGED spoiled
    BY <2>1, <2>2, ApplyStep
  <2>3. CASE Rollback(w, {}) /\ UNCHANGED rows
    BY <2>1, <2>3, RollbackStep
  <2>. QED
    BY <2>1, <2>2, <2>3
<1>. QED
  BY <1>1, <1>2, <1>3, <1>4, <1>5, <1>6, <1>7 DEF Cycle, Lifecycle, Publish

(* Every step keeps the invariant. *)
LEMMA InductiveStep == IInv /\ [Next]_vars => IInv'
<1> SUFFICES ASSUME IInv, [Next]_vars PROVE IInv'
  OBVIOUS
<1>1. TypeOK'
  BY TypeStep DEF IInv
<1>2. CASE UNCHANGED vars
  <2>1. WriteInv'
    BY <1>2 DEF IInv, WriteInv, vars, producerVars, historyVars
  <2>. QED
    BY <1>1, <1>2, <2>1, QuietStep DEF vars, historyVars
<1>. QED
  BY <1>1, <1>2, ProducerStep, WorkerStep DEF Next

(* The invariant holds at the start. *)
LEMMA InitInv == Init => IInv
<1> SUFFICES ASSUME Init PROVE IInv
  OBVIOUS
<1>1. TypeOK
  BY RelayAssumption DEF Init, TypeOK, Absent, NoDraft, Row, Status, Phase, Seen, Ids
<1>2. LockInv /\ DraftInv
  BY RelayAssumption DEF Init, LockInv, DraftInv
<1>3. WriteInv /\ PublishedWasTaken /\ StatusMatchesAttempts
  BY RelayAssumption DEF Init, WriteInv, PublishedWasTaken, StatusMatchesAttempts, Absent
<1>4. TakenIsAccountedFor /\ RedeliveryHasACause
  BY DEF Init, TakenIsAccountedFor, RedeliveryHasACause
<1>. QED
  BY <1>1, <1>2, <1>3, <1>4 DEF IInv

(* The invariant holds in every reachable state. *)
LEMMA Invariance == Spec => []IInv
BY InitInv, InductiveStep, PTL DEF Spec

-----------------------------------------------------------------------------
(* Rows reach "dead" exactly at max_attempts, whatever the interleaving of the
   workers that charge attempts to them. *)
THEOREM AttemptsCorrect == Spec => []StatusMatchesAttempts
<1>1. IInv => StatusMatchesAttempts
  BY DEF IInv
<1>. QED
  BY <1>1, Invariance, PTL

(* Any number of workers: a second delivery always has a lost first one. *)
THEOREM NoSpuriousRedelivery == Spec => []RedeliveryHasACause
<1>1. IInv => RedeliveryHasACause
  BY DEF IInv
<1>. QED
  BY <1>1, Invariance, PTL

(* An event the broker took is never forgotten by the table. *)
THEOREM DeliveriesAccountedFor == Spec => []TakenIsAccountedFor
<1>1. IInv => TakenIsAccountedFor
  BY DEF IInv
<1>. QED
  BY <1>1, Invariance, PTL

-----------------------------------------------------------------------------
(* Refinement: every step of the relay is a step of EventDelivery. *)

(* The stage of an event in EventDelivery, told by the status of its row. *)
LEMMA StageMeaning ==
  ASSUME NEW e \in Ids, TypeOK
  PROVE  /\ Stage(e) = "open" <=> IsOpen(rows[e])
         /\ Stage(e) = "unrecorded" <=> rows[e].status = "absent"
         /\ Stage(e) = "published" <=> rows[e].status = "published"
         /\ Stage(e) = "dead" <=> rows[e].status = "dead"
BY DEF TypeOK, Stage, IsOpen, Row, Status

(* A commit of p's events records them. *)
LEMMA CommitRecords ==
  ASSUME IInv, NEW p \in Producers, CommitEvents(p)
  PROVE  Delivery!Record(writing[p])
<1>1. \A e \in writing[p] : e \in Ids /\ rows[e].status = "absent"
  BY DEF IInv, TypeOK, WriteInv, Absent
<1>2. \A e \in writing[p] : Stage(e) = "unrecorded"
  BY <1>1, StageMeaning DEF IInv
<1>3. /\ \A e \in Ids : rows'[e] = IF e \in writing[p] THEN Fresh ELSE rows[e]
      /\ accepted' = accepted
  BY DEF CommitEvents, historyVars
<1>4. ASSUME NEW e \in Ids
      PROVE  Stage(e)' = IF e \in writing[p] THEN "open" ELSE Stage(e)
  BY <1>3 DEF Stage, IsOpen, Fresh
<1>. QED
  BY <1>1, <1>2, <1>3, <1>4 DEF Delivery!Record

(* A publisher call hands open events over, or nothing. *)
LEMMA CallAccepts ==
  ASSUME IInv, NEW w \in Workers, NEW S \in SUBSET todo[w], NEW r \in Reply, Call(w, S, r)
  PROVE  Delivery!Accept(IF Accepts(r) THEN S ELSE {})
<1> DEFINE T == IF Accepts(r) THEN S ELSE {}
<1>1. /\ accepted' = [e \in Ids |-> IF e \in S /\ Accepts(r) THEN Again(accepted[e])
                                   ELSE accepted[e]]
      /\ rows' = rows
  BY DEF Call
<1>2. accepted' = [e \in Ids |-> IF e \in T THEN Delivery!Again(accepted[e]) ELSE accepted[e]]
  BY <1>1 DEF Again, Delivery!Again
<1>3. \A e \in S : e \in Ids /\ IsOpen(rows[e])
  BY DEF IInv, TypeOK, LockInv
<1>4. \A e \in T : e \in Ids /\ Stage(e) = "open"
  BY <1>3, StageMeaning DEF IInv
<1>5. \A e \in Ids : Stage(e)' = Stage(e)
  BY <1>1 DEF Stage, IsOpen
<1> HIDE DEF T
<1>6. Delivery!Accept(T)
  BY <1>2, <1>4, <1>5 DEF Delivery!Accept
<1>. QED
  BY <1>6 DEF T

(* The commit of a cycle settles what it published and what it gave up. *)
LEMMA ApplySettles ==
  ASSUME IInv, TypeOK', NEW w \in Workers, todo[w] = {}, rows' = Applied(w), accepted' = accepted
  PROVE  Delivery!Settle({e \in claim[w] : rows'[e].status = "published"},
                         {e \in claim[w] : rows'[e].status = "dead"})
<1> DEFINE P == {e \in claim[w] : rows'[e].status = "published"}
           D == {e \in claim[w] : rows'[e].status = "dead"}
<1>1. ASSUME NEW e \in claim[w]
      PROVE  /\ e \in Ids /\ Stage(e) = "open"
             /\ rows'[e].status \in {"published", "dead", "failed"}
             /\ rows'[e].status = "published" => accepted[e] > 0
  <2>1. e \in Ids /\ IsOpen(rows[e])
    BY DEF IInv, TypeOK, LockInv
  <2>2. \/ rows'[e] = Published(rows[e]) /\ accepted[e] > 0
        \/ rows'[e] = Poisoned(rows[e])
    BY <2>1 DEF IInv, DraftInv, Applied
  <2>3. Stage(e) = "open"
    BY <2>1, StageMeaning DEF IInv
  <2>. QED
    BY <2>1, <2>2, <2>3, OutcomeFields
<1>2. ASSUME NEW e \in Ids
      PROVE  Stage(e)' = IF e \in P THEN "published" ELSE IF e \in D THEN "dead" ELSE Stage(e)
  <2>1. CASE e \in claim[w]
    BY <1>1, <2>1 DEF Stage, IsOpen
  <2>2. CASE e \notin claim[w]
    <3>1. rows'[e] = rows[e]
      BY <2>2 DEF Applied
    <3>. QED
      BY <2>2, <3>1 DEF Stage, IsOpen
  <2>. QED
    BY <2>1, <2>2
<1>3. /\ \A e \in P : e \in Ids /\ Stage(e) = "open" /\ accepted[e] > 0
      /\ \A e \in D : e \in Ids /\ Stage(e) = "open"
  BY <1>1
<1> HIDE DEF P, D
<1>4. Delivery!Settle(P, D)
  BY <1>2, <1>3 DEF Delivery!Settle
<1>. QED
  BY <1>4 DEF P, D

(* Every step is one of EventDelivery, or changes nothing it sees. *)
LEMMA StepRefines == IInv /\ [Next]_vars => [Delivery!Next]_(Delivery!vars)
<1> SUFFICES ASSUME IInv, [Next]_vars, ~(UNCHANGED <<rows, accepted>>) PROVE Delivery!Next
  BY DEF Delivery!vars, Stage, IsOpen
<1>0. TypeOK'
  BY TypeStep DEF IInv
<1>1. ASSUME NEW p \in Producers, Produce(p) PROVE Delivery!Next
  <2>1. CommitEvents(p)
    BY <1>1 DEF Produce, WriteEvent, AbortEvents, historyVars
  <2>2. writing[p] \in SUBSET Ids
    BY DEF IInv, TypeOK
  <2>. QED
    BY <2>1, <2>2, CommitRecords DEF Delivery!Next
<1>2. ASSUME NEW w \in Workers, NEW S \in SUBSET todo[w], NEW r \in Reply, Call(w, S, r)
      PROVE  Delivery!Next
  <2>1. (IF Accepts(r) THEN S ELSE {}) \in SUBSET Ids
    BY DEF IInv, TypeOK
  <2>. QED
    BY <1>2, <2>1, CallAccepts DEF Delivery!Next
<1>3. ASSUME NEW w \in Workers, todo[w] = {}, rows' = Applied(w), accepted' = accepted
      PROVE  Delivery!Next
  <2>1. /\ {e \in claim[w] : rows'[e].status = "published"} \in SUBSET Ids
        /\ {e \in claim[w] : rows'[e].status = "dead"} \in SUBSET Ids
    BY DEF IInv, TypeOK
  <2>. QED
    BY <1>0, <1>3, <2>1, ApplySettles DEF Delivery!Next
<1>4. ASSUME NEW w \in Workers, Publish(w) PROVE Delivery!Next
  <2>1. /\ w \in BatchWorkers => todo[w] = claim[w] \/ todo[w] = {}
    BY DEF IInv, LockInv
  <2>2. ASSUME NEW r \in Reply, PublishBatch(w, r) PROVE Delivery!Next
    BY <1>2, <2>1, <2>2 DEF PublishBatch, Call
  <2>3. ASSUME NEW r \in Reply, NEW e \in Ids, PublishMessage(w, e, r) PROVE Delivery!Next
    <3>1. {e} \in SUBSET todo[w]
      BY <2>3 DEF PublishMessage
    <3>. QED
      BY <1>2, <2>3, <3>1 DEF PublishMessage
  <2>. QED
    BY <1>4, <2>2, <2>3 DEF Publish
<1>5. ASSUME NEW w \in Workers, Cycle(w) PROVE Delivery!Next
  <2>1. Publish(w) \/ CommitCycle(w)
    BY <1>5 DEF Cycle, CheckStop, ClaimRows, ClaimNothing, Wake, historyVars
  <2>. QED
    BY <1>3, <1>4, <2>1 DEF CommitCycle, historyVars
<1>6. ASSUME NEW w \in Workers, Lifecycle(w) PROVE Delivery!Next
  <2>1. CommitFails(w)
    BY <1>6 DEF Lifecycle, Stop, Die, Restart, historyVars
  <2>2. todo[w] = {} /\ rows' = Applied(w) /\ accepted' = accepted
    BY <2>1 DEF CommitFails
  <2>. QED
    BY <1>3, <2>2
<1>. QED
  BY <1>1, <1>5, <1>6 DEF Next, vars, historyVars

(* The outbox implements EventDelivery: only committed events are handed over,
   published means taken, settled events are left alone for ever. *)
THEOREM OutboxDelivers == Spec => DeliveryPromise
<1>1. Init => Delivery!Init
  BY DEF Init, Delivery!Init, Stage, IsOpen, Absent
<1>. QED
  BY <1>1, Invariance, StepRefines, PTL DEF Spec, DeliveryPromise, Delivery!Spec

-----------------------------------------------------------------------------
(* Outages, where every publisher maps connection errors. *)

(* Whoever was charged with an attempt, in the table or in an open
   transaction, was refused by the broker. *)
ChargedInv ==
  /\ \A e \in Ids : rows[e].attempts > 0 => e \in refused
  /\ \A w \in Workers : \A e \in claim[w] : draft[w][e].attempts > 0 => e \in refused

(* Every step keeps attempts within what failures account for, when all    *)
(* workers map errors.                                                     *)
LEMMA ChargedStep ==
  ASSUME MappingWorkers = Workers, IInv, ChargedInv, [Next]_vars
  PROVE  ChargedInv'
<1> USE DEF ChargedInv
<1>0. refused \subseteq refused'
  <2>1. ASSUME NEW p \in Producers, Produce(p) PROVE refused' = refused
    BY <2>1 DEF Produce, WriteEvent, CommitEvents, AbortEvents, historyVars
  <2>2. ASSUME NEW w \in Workers, Publish(w) PROVE refused \subseteq refused'
    BY <2>2 DEF Publish, PublishBatch, PublishMessage, Call
  <2>3. ASSUME NEW w \in Workers, Cycle(w), ~Publish(w) PROVE refused' = refused
    BY <2>3 DEF Cycle, CheckStop, ClaimRows, ClaimNothing, CommitCycle, Wake, historyVars
  <2>4. ASSUME NEW w \in Workers, Lifecycle(w) PROVE refused' = refused
    BY <2>4 DEF Lifecycle, Stop, Die, CommitFails, Restart, historyVars
  <2>. QED
    BY <2>1, <2>2, <2>3, <2>4 DEF Next, vars, historyVars
<1>1. ASSUME UNCHANGED <<rows, claim, draft>> PROVE ChargedInv'
  BY <1>0, <1>1
<1>2. ASSUME NEW w \in Workers, UNCHANGED rows, EndTx(w) PROVE ChargedInv'
  BY <1>0, <1>2 DEF EndTx, IInv, TypeOK
<1>3. ASSUME NEW p \in Producers, CommitEvents(p) PROVE ChargedInv'
  <2>1. /\ \A e \in Ids : rows'[e] = IF e \in writing[p] THEN Fresh ELSE rows[e]
        /\ claim' = claim /\ draft' = draft
    BY <1>3 DEF CommitEvents, txVars
  <2>2. \A e \in Ids : rows'[e].attempts = rows[e].attempts \/ rows'[e].attempts = 0
    BY <2>1 DEF Fresh
  <2>. QED
    BY <1>0, <2>1, <2>2
<1>4. ASSUME NEW w \in Workers, ClaimRows(w) PROVE ChargedInv'
  <2> DEFINE batch == Oldest(Claimable, BatchSize)
  <2>1. /\ claim' = [claim EXCEPT ![w] = batch]
        /\ draft' = [draft EXCEPT ![w] = [e \in Ids |-> IF e \in batch THEN rows[e] ELSE Absent]]
        /\ rows' = rows
    BY <1>4 DEF ClaimRows
  <2>2. batch \subseteq Ids
    BY DEF Oldest, Claimable
  <2> HIDE DEF batch
  <2>. QED
    BY <1>0, <2>1, <2>2 DEF IInv, TypeOK
<1>5. ASSUME NEW w \in Workers, NEW S \in SUBSET claim[w], NEW r \in Reply, Call(w, S, r)
      PROVE  ChargedInv'
  <2>1. UNCHANGED rows
    BY <1>5 DEF Call
  <2>2. CASE EndTx(w)
    BY <1>2, <2>1, <2>2
  <2>3. CASE RecordOutcome(w, S, [e \in S |-> Published(draft[w][e])])
    <3>1. \A e \in S : Published(draft[w][e]).attempts = draft[w][e].attempts
      BY OutcomeFields
    <3>2. claim' = claim /\ \A v \in Workers : \A e \in claim[v] :
            draft'[v][e].attempts = draft[v][e].attempts
      BY <2>3, <3>1 DEF RecordOutcome, IInv, TypeOK
    <3>. QED
      BY <1>0, <2>1, <3>2
  <2>4. CASE r = "refused" /\ RecordOutcome(w, S, [e \in S |-> Poisoned(draft[w][e])])
    <3>1. S \subseteq refused'
      BY <1>5, <2>4 DEF Call
    <3>2. claim' = claim /\ \A v \in Workers : \A e \in claim[v] :
            draft'[v][e] = draft[v][e] \/ e \in S
      BY <2>4 DEF RecordOutcome, IInv, TypeOK
    <3>. QED
      BY <1>0, <2>1, <3>1, <3>2
  <2>. QED
    BY <1>5, <2>2, <2>3, <2>4 DEF Call, IsTransient, Reply, Rollback
<1>6. ASSUME NEW w \in Workers, rows' = Applied(w), EndTx(w) PROVE ChargedInv'
  <2>1. \A e \in Ids : rows'[e] = IF e \in claim[w] THEN draft[w][e] ELSE rows[e]
    BY <1>6 DEF Applied
  <2>. QED
    BY <1>0, <1>6, <2>1 DEF EndTx, IInv, TypeOK
<1>7. ASSUME NEW w \in Workers, Publish(w) PROVE ChargedInv'
  <2>1. todo[w] \subseteq claim[w]
    BY DEF IInv, LockInv
  <2>2. ASSUME NEW r \in Reply, NEW e \in Ids, PublishMessage(w, e, r) PROVE ChargedInv'
    <3>1. {e} \in SUBSET claim[w]
      BY <2>1, <2>2 DEF PublishMessage
    <3>. QED
      BY <1>5, <2>2, <3>1 DEF PublishMessage
  <2>. QED
    BY <1>5, <1>7, <2>2 DEF Publish, PublishBatch
<1>8. ASSUME NEW w \in Workers, Cycle(w) PROVE ChargedInv'
  BY <1>1, <1>4, <1>6, <1>7, <1>8
     DEF Cycle, CheckStop, ClaimNothing, CommitCycle, Wake, txVars
<1>9. ASSUME NEW w \in Workers, Lifecycle(w) PROVE ChargedInv'
  BY <1>1, <1>2, <1>6, <1>9 DEF Lifecycle, Stop, Die, CommitFails, Restart, Rollback, txVars
<1>10. ASSUME NEW p \in Producers, Produce(p) PROVE ChargedInv'
  BY <1>1, <1>3, <1>10 DEF Produce, WriteEvent, AbortEvents, txVars
<1>. QED
  BY <1>1, <1>8, <1>9, <1>10 DEF Next, vars, txVars

(* If every publisher maps connection errors to TransientPublishError, an
   outage of any length leaves no dead letter behind. *)
THEOREM OutagesKillNothing ==
  ASSUME MappingWorkers = Workers
  PROVE  Spec => []OnlyRefusedDie
<1>1. Init => ChargedInv
  BY DEF Init, ChargedInv, Absent
<1>2. IInv /\ ChargedInv /\ [Next]_vars => ChargedInv'
  BY ChargedStep
<1>3. IInv /\ ChargedInv => OnlyRefusedDie
  <2> SUFFICES ASSUME IInv, ChargedInv, NEW e \in Ids, rows[e].status = "dead"
               PROVE  e \in refused
    BY DEF OnlyRefusedDie
  <2>1. rows[e].attempts \in Nat /\ rows[e].attempts >= MaxAttempts
    BY DEF IInv, StatusMatchesAttempts, TypeOK, Row
  <2>. QED
    BY RelayAssumption, <2>1 DEF ChargedInv
<1>. QED
  BY <1>1, <1>2, <1>3, Invariance, PTL DEF Spec

=============================================================================
