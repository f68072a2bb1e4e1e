--------------------------- MODULE EventDelivery ---------------------------
(***************************************************************************)
(* What the transactional outbox promises to the application, without      *)
(* workers, locks, batches or retries.  An event recorded by a committed   *)
(* transaction is handed to the broker any number of times while it is     *)
(* open, and is settled once: published, which needs a hand-over the       *)
(* broker accepted, or dead.  Nothing is handed over before it is recorded *)
(* or after it is settled.                                                 *)
(***************************************************************************)
EXTENDS Naturals

CONSTANT Ids          \* primary keys of the outbox table

VARIABLES
  stage,              \* stage[e]: where event e is in its life
  accepted            \* accepted[e]: how often the broker took e, 2 for twice or more

vars == <<stage, accepted>>

Stage == {"unrecorded", "open", "published", "dead"}

Seen == 0..2          \* a saturating count: never, once, more than once

Again(n) == IF n = 2 THEN 2 ELSE n + 1

Init ==
  /\ stage = [e \in Ids |-> "unrecorded"]
  /\ accepted = [e \in Ids |-> 0]

(* A transaction that wrote the events S commits. *)
Record(S) ==
  /\ \A e \in S : stage[e] = "unrecorded"
  /\ stage' = [e \in Ids |-> IF e \in S THEN "open" ELSE stage[e]]
  /\ UNCHANGED accepted

(* The broker takes the open events S. *)
Accept(S) ==
  /\ \A e \in S : stage[e] = "open"
  /\ accepted' = [e \in Ids |-> IF e \in S THEN Again(accepted[e]) ELSE accepted[e]]
  /\ UNCHANGED stage

(* The open events P are settled as published and the open events D as dead. *)
Settle(P, D) ==
  /\ \A e \in P : stage[e] = "open" /\ accepted[e] > 0
  /\ \A e \in D : stage[e] = "open"
  /\ stage' = [e \in Ids |-> IF e \in P THEN "published"
                             ELSE IF e \in D THEN "dead" ELSE stage[e]]
  /\ UNCHANGED accepted

Next ==
  \/ \E S \in SUBSET Ids : Record(S)
  \/ \E S \in SUBSET Ids : Accept(S)
  \/ \E P, D \in SUBSET Ids : Settle(P, D)

Spec == Init /\ [][Next]_vars
=============================================================================
