-------------------------- MODULE ReadCacheProofs --------------------------
(***************************************************************************)
(* TypeOK, CleanQueriesHonourInvalidation, CurrentListCoherent and         *)
(* ObjectsCoherent, for any clients, any rows and any number of writes,    *)
(* evictions and faults.                                                   *)
(***************************************************************************)
EXTENDS ReadCache, FiniteSetTheorems, TLAPS

Reader(c) == read[c].at # "none"
Fetched(c) == read[c].at = "fill" /\ ~block[c]

(* Every write and every eviction bumps the counter at most once, so the      *)
(* counter and the bumps that may still come never exceed the clock.          *)
Bumping == {c \in Clients : tx[c] # None \/ owes[c].bump}
CounterBehindClock ==
  /\ \A c \in Clients : tx[c] # None => ~owes[c].bump
  /\ IsFiniteSet(Bumping)
  /\ counter + Cardinality(Bumping) <= clock

(* The session of a client outside a block holds nothing.                     *)
Sessions ==
  /\ \A c \in Clients, k \in Rows : ~block[c] => loaded[c][k] = None
  /\ \A c \in Clients : Reader(c) /\ ~block[c] => tx[c] = None

(* Versions grow: a write under way is newer than what is committed.          *)
Versions ==
  /\ \A k \in Rows : db[k].num <= clock /\ settled[k] <= db[k].num
  /\ \A c \in Clients : tx[c] # None => db[tx[c].row].num < tx[c].to.num /\ tx[c].to.num <= clock
  /\ \A c, d \in Clients :
       tx[c] # None /\ tx[d] # None /\ tx[c].row = tx[d].row => c = d

(* Nothing is under a version yet to come.                                    *)
NoneAhead ==
  /\ \A v \in Numbers : lists[v] # None => v <= counter
  /\ \A c \in Clients : read[c].under <= counter /\ (Reader(c) => \A k \in Rows : read[c].floor[k] <= settled[k])
  /\ \A c \in Clients : read[c].at = "fill" => read[c].got # None

(* A result fetched or cached under the current version holds what was        *)
(* settled; under any version, what was settled when a query that uses that   *)
(* version began.                                                             *)
ListsSettled ==
  /\ \A c \in Clients, k \in Rows : kind = List /\ Fetched(c) /\ read[c].under = counter =>
       read[c].got[k].num >= settled[k]
  /\ lists[counter] # None /\ counter \notin blockLists =>
       \A k \in Rows : lists[counter][k].num >= settled[k]
  /\ \A c, d \in Clients, k \in Rows :
       kind = List /\ Fetched(c) /\ read[c].under = read[d].under /\ ~read[d].blind
       /\ read[d].at \in {"lookup", "fetch", "fill"}
       => read[c].got[k].num >= read[d].floor[k]
  /\ \A c \in Clients, k \in Rows :
       kind = List /\ ~read[c].blind /\ read[c].at \in {"lookup", "fetch", "fill"}
       /\ lists[read[c].under] # None /\ read[c].under \notin blockLists
       => lists[read[c].under][k].num >= read[c].floor[k]

(* A result fetched under the current version is coherent before it is cached. *)
FetchedListCoherent ==
  \A c \in Clients, k \in Rows :
    kind = List /\ Fetched(c) /\ read[c].under = counter /\ read[c].got[k] # db[k] =>
      k \in unbumped \/ \E d \in Clients : k \in owes[d].rows

(* An object is cached only if it existed, and it is coherent before it is. *)
FetchedObjectCoherent ==
  /\ \A k \in Rows : objs[k] # None => objs[k].live
  /\ \A c \in Clients : kind # List /\ read[c].at = "fill" => read[c].got[kind].live
  /\ \A c \in Clients :
       kind # List /\ Fetched(c) /\ ~read[c].late /\ read[c].got[kind] # db[kind] =>
         kind \in unpurged \/ \E d \in Clients : kind \in owes[d].purge

IInv ==
  /\ TypeOK /\ CounterBehindClock /\ Sessions /\ Versions /\ NoneAhead
  /\ ListsSettled /\ FetchedListCoherent /\ CurrentListCoherent
  /\ FetchedObjectCoherent /\ ObjectsCoherent

-----------------------------------------------------------------------------
(* Types.                                                                  *)

(* Zero is a value of the counter. *)
LEMMA Zero == 0 \in Numbers
  BY ReadCacheAssumption DEF ReadCacheAssumption, Numbers

(* What a client still has to invalidate is a duty; so is nothing. *)
LEMMA DutyTypes ==
  ASSUME TypeOK, NEW c \in Clients
  PROVE  owes[c] \in Duty /\ NoDuty \in Duty
  BY DEF TypeOK, Duty, NoDuty

(* What a client's session sees of the rows is a snapshot. *)
LEMMA SeesTypes ==
  ASSUME TypeOK, NEW c \in Clients
  PROVE  Sees(c) \in Snapshot
<1>1. db \in [Rows -> Version] /\ loaded[c] \in [Rows -> {None} \cup Version] /\ tx[c] \in {None} \cup Tx
  BY DEF TypeOK, Snapshot
<1>2. tx[c] # None => tx[c].to \in Version
  BY <1>1 DEF Tx
<1> QED
  BY <1>1, <1>2 DEF Sees, Snapshot

(* The types hold at the start. *)
LEMMA InitTypes == Init => TypeOK
<1> SUFFICES ASSUME Init PROVE TypeOK
  OBVIOUS
<1>1. NoRead \in Reading
  BY Zero DEF NoRead, Reading
<1>2. db \in Snapshot
  BY Zero DEF Init, Snapshot, Version
<1>3. /\ lists \in [Numbers -> {None} \cup Snapshot] /\ objs \in [Rows -> {None} \cup Version]
      /\ loaded \in [Clients -> [Rows -> {None} \cup Version]]
      /\ tx \in [Clients -> {None} \cup Tx]
  BY DEF Init, NothingLoaded
<1>4. owes \in [Clients -> Duty] /\ read \in [Clients -> Reading]
  BY <1>1 DEF Init, NoDuty, Duty
<1> QED
  BY <1>2, <1>3, <1>4, Zero, ReadCacheAssumption DEF Init, TypeOK, ReadCacheAssumption

(* The bump that is due is counted.                                        *)
LEMMA BumpFits ==
  ASSUME TypeOK, CounterBehindClock, NEW c \in Clients, owes[c].bump
  PROVE  counter + 1 \in Numbers
<1>1. Bumping # {} /\ IsFiniteSet(Bumping)
  BY DEF Bumping, CounterBehindClock
<1>2. Cardinality(Bumping) \in Nat /\ Cardinality(Bumping) # 0
  BY <1>1, FS_CardinalityType, FS_EmptySet
<1> QED
  BY <1>2, ReadCacheAssumption DEF TypeOK, CounterBehindClock, Numbers, ReadCacheAssumption

(* Every step keeps the types, that of the counter because it stays        *)
(* behind the clock.                                                       *)
LEMMA NextTypes == TypeOK /\ CounterBehindClock /\ NoneAhead /\ [Next]_vars => TypeOK'
<1> SUFFICES ASSUME TypeOK, CounterBehindClock, NoneAhead, [Next]_vars
             PROVE  TypeOK'
  OBVIOUS
<1> USE ReadCacheAssumption DEF ReadCacheAssumption
<1>0. owes \in [Clients -> Duty] /\ read \in [Clients -> Reading]
  BY DEF TypeOK
<1>1. ASSUME UNCHANGED vars PROVE TypeOK'
  BY <1>1 DEF vars, dbVars, sessionVars, cacheVars, historyVars, TypeOK
<1>2. ASSUME Expire PROVE TypeOK'
  BY <1>2 DEF Expire, ExpireList, ExpireObj, TypeOK, dbVars, sessionVars
<1>3. ASSUME NEW c \in Clients, EnterBlock(c) PROVE TypeOK'
  BY <1>3 DEF EnterBlock, TypeOK, cacheVars, historyVars
<1>4. ASSUME NEW c \in Clients, NEW k \in Rows, Write(c, k) PROVE TypeOK'
  <2>1. clock' \in Numbers
    BY <1>4 DEF Write, TypeOK, Numbers
  <2>2. tx' \in [Clients -> {None} \cup Tx]
    BY <1>4, <2>1 DEF Write, TypeOK, Tx, Version
  <2> QED
    BY <1>4, <2>1, <2>2 DEF Write, TypeOK, cacheVars, historyVars
<1>5. ASSUME NEW c \in Clients, Commit(c) PROVE TypeOK'
  <2>1. tx[c] \in Tx /\ tx[c].row \in Rows /\ tx[c].to \in Version
    BY <1>5 DEF Commit, TypeOK, Tx
  <2>2. db' \in Snapshot
    BY <1>5, <2>1 DEF Commit, TypeOK, Snapshot
  <2>3. owes' \in [Clients -> Duty]
    BY <1>5, <2>1 DEF Commit, TypeOK, Duty, PurgedBy
  <2>4. block' \in [Clients -> BOOLEAN] /\ loaded' \in [Clients -> [Rows -> {None} \cup Version]]
        /\ tx' \in [Clients -> {None} \cup Tx]
    BY <1>5 DEF Commit, EndSession, NothingLoaded, TypeOK
  <2> QED
    BY <1>5, <2>2, <2>3, <2>4 DEF Commit, TypeOK, cacheVars, historyVars
<1>6. ASSUME NEW c \in Clients, Abort(c) PROVE TypeOK'
  <2>1. block' \in [Clients -> BOOLEAN] /\ loaded' \in [Clients -> [Rows -> {None} \cup Version]]
        /\ tx' \in [Clients -> {None} \cup Tx]
    BY <1>6 DEF Abort, EndSession, NothingLoaded, TypeOK
  <2> QED
    BY <1>6, <2>1 DEF Abort, TypeOK, cacheVars, historyVars
<1>7. ASSUME NEW c \in Clients, Evict(c) PROVE TypeOK'
  <2>1. clock' \in Numbers
    BY <1>7 DEF Evict, TypeOK, Numbers
  <2>2. owes' \in [Clients -> Duty]
    BY <1>7 DEF Evict, TypeOK, Duty
  <2> QED
    BY <1>7, <2>1, <2>2 DEF Evict, TypeOK, cacheVars, historyVars, sessionVars
<1>8. ASSUME NEW c \in Clients, Crash(c) PROVE TypeOK'
  <2>1. owes' \in [Clients -> Duty] /\ owes[c] \in Duty
    BY <1>8, DutyTypes DEF Crash, TypeOK
  <2> QED
    BY <1>8, <2>1 DEF Crash, TypeOK, cacheVars, dbVars, sessionVars, Duty
<1>9. ASSUME NEW c \in Clients, Bump(c) PROVE TypeOK'
  <2>1. counter' \in Numbers
    BY <1>9, BumpFits DEF Bump
  <2>2. owes' \in [Clients -> Duty]
    BY <1>0, <1>9 DEF Bump, Duty
  <2>3. settled' \in [Rows -> Numbers]
    BY <1>9 DEF Bump, TypeOK, Snapshot, Version
  <2> QED
    BY <1>9, <2>1, <2>2, <2>3 DEF Bump, TypeOK, dbVars, sessionVars
<1>10. ASSUME NEW c \in Clients, NEW k \in Rows, Purge(c, k) PROVE TypeOK'
  <2>1. owes' \in [Clients -> Duty]
    BY <1>0, <1>10 DEF Purge, Duty
  <2>2. read' \in [Clients -> Reading]
    <3>1. \A r \in Reading : [r EXCEPT !.late = TRUE] \in Reading
      BY DEF Reading
    <3>2. \A d \in Clients : read'[d] = read[d] \/ read'[d] = [read[d] EXCEPT !.late = TRUE]
      BY <1>10 DEF Purge
    <3>3. \A d \in Clients : read'[d] \in Reading
      BY <1>0, <3>1, <3>2
    <3>4. read' = [d \in Clients |-> read'[d]]
      BY <1>10 DEF Purge
    <3> QED
      BY <3>3, <3>4
  <2> QED
    BY <1>10, <2>1, <2>2 DEF Purge, TypeOK, dbVars, sessionVars
<1>11. ASSUME NEW c \in Clients, BumpFails(c) PROVE TypeOK'
  <2>1. owes' \in [Clients -> Duty] /\ owes[c].rows \subseteq Rows
    BY <1>0, <1>11 DEF BumpFails, Duty
  <2> QED
    BY <1>11, <2>1 DEF BumpFails, TypeOK, dbVars, sessionVars, cacheVars
<1>12. ASSUME NEW c \in Clients, NEW k \in Rows, PurgeFails(c, k) PROVE TypeOK'
  <2>1. owes' \in [Clients -> Duty]
    BY <1>0, <1>12 DEF PurgeFails, Duty
  <2>2. owes[c].purge \subseteq Rows /\ unpurged \subseteq Rows
    BY <1>0 DEF Duty, TypeOK
  <2> QED
    BY <1>12, <2>1, <2>2 DEF PurgeFails, TypeOK, dbVars, sessionVars, cacheVars
<1>13. ASSUME NEW c \in Clients, StartRead(c) \/ GetVersion(c) \/ GetVersionFails(c) PROVE TypeOK'
  <2>1. NoRead \in Reading
    BY Zero DEF NoRead, Reading
  <2>2. read[c] \in Reading /\ counter \in Numbers /\ settled \in [Rows -> Numbers] /\ 0 \in Numbers
    BY Zero DEF TypeOK
  <2>3. read' \in [Clients -> Reading]
    <3>1. CASE StartRead(c)
      BY <2>1, <2>2, <3>1 DEF StartRead, Advance, TypeOK, Reading
    <3>2. CASE GetVersion(c)
      BY <2>2, <3>2 DEF GetVersion, Advance, TypeOK, Reading
    <3>3. CASE GetVersionFails(c)
      BY <2>2, <3>3 DEF GetVersionFails, Advance, TypeOK, Reading
    <3> QED
      BY <1>13, <3>1, <3>2, <3>3
  <2>4. faults' \in 0..MaxFaults
    BY <1>13 DEF StartRead, GetVersion, GetVersionFails, TypeOK
  <2>5. UNCHANGED <<dbVars, cacheVars, owes, historyVars>>
    BY <1>13 DEF StartRead, GetVersion, GetVersionFails
  <2> QED
    BY <2>3, <2>4, <2>5 DEF TypeOK, dbVars, sessionVars, cacheVars, historyVars
<1>14. ASSUME NEW c \in Clients, Hit(c) \/ Miss(c) \/ FillFails(c) PROVE TypeOK'
  <2>1. NoRead \in Reading
    BY Zero DEF NoRead, Reading
  <2>2. read' \in [Clients -> Reading]
    <3>1. CASE Hit(c)
      BY <1>0, <2>1, <3>1 DEF Hit, Advance
    <3>2. CASE Miss(c)
      BY <1>0, <3>2 DEF Miss, Advance, Reading
    <3>3. CASE FillFails(c)
      BY <1>0, <2>1, <3>3 DEF FillFails, Advance
    <3> QED
      BY <1>14, <3>1, <3>2, <3>3
  <2>3. UNCHANGED <<dbVars, cacheVars, owes, faults, historyVars>>
    BY <1>14 DEF Hit, Miss, FillFails
  <2> QED
    BY <2>2, <2>3 DEF TypeOK, dbVars, sessionVars, cacheVars, historyVars
<1>15. ASSUME NEW c \in Clients, NEW rows, Loads(c, rows)
       PROVE  loaded' \in [Clients -> [Rows -> {None} \cup Version]]
  <2>1. Sees(c) \in [Rows -> Version] /\ loaded \in [Clients -> [Rows -> {None} \cup Version]]
    BY SeesTypes DEF Snapshot, TypeOK
  <2> QED
    BY <1>15, <2>1 DEF Loads
<1>16. ASSUME NEW c \in Clients, Load(c) PROVE TypeOK'
  BY <1>15, <1>16 DEF Load, TypeOK, cacheVars, historyVars
<1>17. ASSUME NEW c \in Clients, Fetch(c) PROVE TypeOK'
  <2>1. NoRead \in Reading /\ Sees(c) \in Snapshot
    BY Zero, SeesTypes DEF NoRead, Reading
  <2>2. read' \in [Clients -> Reading]
    BY <1>17, <2>1 DEF Fetch, Advance, TypeOK, Reading
  <2>3. loaded' \in [Clients -> [Rows -> {None} \cup Version]]
    BY <1>15, <1>17 DEF Fetch
  <2> QED
    BY <1>17, <2>2, <2>3 DEF Fetch, TypeOK, cacheVars, historyVars
<1>18. ASSUME NEW c \in Clients, Fill(c) PROVE TypeOK'
  <2>1. NoRead \in Reading
    BY Zero DEF NoRead, Reading
  <2>2. read' \in [Clients -> Reading]
    BY <1>18, <2>1 DEF Fill, Advance, TypeOK
  <2>3. read[c].under \in Numbers /\ read[c].got \in {None} \cup Snapshot
    BY DEF TypeOK, Reading
  <2>4. kind = List \/ kind \in Rows
    BY DEF TypeOK
  <2>5. CASE kind = List
    BY <1>18, <2>2, <2>3, <2>5 DEF Fill, FillVersion, TypeOK, dbVars, sessionVars
  <2>6. CASE kind # List
    <3>1. read[c].got # None
      BY <1>18 DEF Fill, Reads, NoneAhead
    <3>2. read[c].got[kind] \in Version
      BY <2>3, <2>4, <2>6, <3>1 DEF Snapshot
    <3> QED
      BY <1>18, <2>2, <2>4, <2>6, <3>2 DEF Fill, TypeOK, dbVars, sessionVars
  <2> QED
    BY <2>5, <2>6
<1> QED
  BY <1>1, <1>2, <1>3, <1>4, <1>5, <1>6, <1>7, <1>8, <1>9, <1>10, <1>11, <1>12, <1>13, <1>14, <1>16,
     <1>17, <1>18 DEF Next, Client, Invalidate, ReadStep

-----------------------------------------------------------------------------
(* The counter, sessions and versions.                                     *)

(* At the start there is no bump to come. *)
LEMMA InitCounter == Init => CounterBehindClock
<1> SUFFICES ASSUME Init PROVE CounterBehindClock
  OBVIOUS
<1>1. \A c \in Clients : tx[c] = None /\ ~owes[c].bump
  BY DEF Init, NoDuty
<1>2. Bumping = {}
  BY <1>1 DEF Bumping
<1> QED
  BY <1>1, <1>2, FS_EmptySet DEF Init, CounterBehindClock

(* Every step keeps the bumps made and those to come within the clock. *)
LEMMA NextCounter == TypeOK /\ CounterBehindClock /\ [Next]_vars => CounterBehindClock'
<1> SUFFICES ASSUME TypeOK, CounterBehindClock, [Next]_vars
             PROVE  CounterBehindClock'
  OBVIOUS
<1>0. /\ clock \in Nat /\ counter \in Nat
      /\ owes \in [Clients -> Duty] /\ tx \in [Clients -> {None} \cup Tx]
  BY ReadCacheAssumption DEF TypeOK, Numbers, ReadCacheAssumption
<1>1. IsFiniteSet(Bumping) /\ Cardinality(Bumping) \in Nat /\ counter + Cardinality(Bumping) <= clock
  BY FS_CardinalityType DEF CounterBehindClock
<1>2. \A c \in Clients : tx[c] # None => ~owes[c].bump
  BY DEF CounterBehindClock
(* Nothing that is counted changes. *)
<1>3. ASSUME UNCHANGED <<tx, clock, counter>>, \A c \in Clients : owes'[c].bump = owes[c].bump
      PROVE  CounterBehindClock'
  <2>1. Bumping' = Bumping
    BY <1>3 DEF Bumping
  <2> QED
    BY <1>1, <1>2, <1>3, <2>1 DEF CounterBehindClock
(* A bump comes to be expected, and the clock counts it. *)
<1>4. ASSUME NEW c \in Clients, tx[c] = None, ~owes[c].bump, counter' = counter, clock' = clock + 1,
             \A d \in Clients \ {c} : tx'[d] = tx[d] /\ owes'[d] = owes[d],
             tx'[c] = None <=> owes'[c].bump
      PROVE  CounterBehindClock'
  <2>1. Bumping' = Bumping \cup {c} /\ c \notin Bumping
    BY <1>4 DEF Bumping
  <2>2. IsFiniteSet(Bumping') /\ Cardinality(Bumping') = Cardinality(Bumping) + 1
    BY <1>1, <2>1, FS_AddElement
  <2>3. \A d \in Clients : tx'[d] # None => ~owes'[d].bump
    BY <1>2, <1>4
  <2> QED
    BY <1>0, <1>1, <1>4, <2>2, <2>3 DEF CounterBehindClock
(* A bump is made or is no longer expected. *)
<1>5. ASSUME NEW c \in Clients, clock' = clock,
             \A d \in Clients \ {c} : tx'[d] = tx[d] /\ owes'[d] = owes[d],
             tx'[c] = None, ~owes'[c].bump,
             counter' = counter \/ (counter' = counter + 1 /\ c \in Bumping)
      PROVE  CounterBehindClock'
  <2>1. Bumping' = Bumping \ {c}
    BY <1>5 DEF Bumping
  <2>2. /\ IsFiniteSet(Bumping')
        /\ Cardinality(Bumping') = IF c \in Bumping THEN Cardinality(Bumping) - 1 ELSE Cardinality(Bumping)
    BY <1>1, <2>1, FS_RemoveElement
  <2>3. \A d \in Clients : tx'[d] # None => ~owes'[d].bump
    BY <1>2, <1>5
  <2>4. counter' + Cardinality(Bumping') <= clock'
    BY <1>0, <1>1, <1>5, <2>2
  <2> QED
    BY <2>2, <2>3, <2>4 DEF CounterBehindClock
<1>6. CASE UNCHANGED vars
  BY <1>3, <1>6 DEF vars, dbVars, sessionVars, cacheVars
<1>7. CASE Expire
  BY <1>3, <1>7 DEF Expire, ExpireList, ExpireObj, dbVars, sessionVars
<1>8. ASSUME NEW c \in Clients, EnterBlock(c) \/ StartRead(c) \/ Load(c) \/ ReadStep(c)
      PROVE  CounterBehindClock'
  <2>1. CASE EnterBlock(c) \/ StartRead(c) \/ Load(c)
    BY <1>3, <2>1 DEF EnterBlock, StartRead, Load, cacheVars, dbVars, sessionVars
  <2>2. CASE ReadStep(c)
    BY <1>3, <2>2 DEF ReadStep, GetVersion, GetVersionFails, Hit, Miss, Fetch, Fill, FillFails,
                      cacheVars, dbVars, sessionVars
  <2> QED
    BY <1>8, <2>1, <2>2
<1>9. ASSUME NEW c \in Clients, NEW k \in Rows, Write(c, k) PROVE CounterBehindClock'
  <2>1. tx[c] = None /\ ~owes[c].bump /\ owes' = owes /\ counter' = counter /\ clock' = clock + 1
    BY <1>9 DEF Write, Idle, NoDuty, cacheVars
  <2>2. PICK live \in BOOLEAN :
          tx' = [tx EXCEPT ![c] = [row |-> k, to |-> [num |-> clock + 1, live |-> live]]]
    BY <1>9 DEF Write
  <2>3. clock + 1 \in Numbers
    BY <1>9, ReadCacheAssumption DEF Write, TypeOK, Numbers, ReadCacheAssumption
  <2>4. [row |-> k, to |-> [num |-> clock + 1, live |-> live]] \in Tx
    BY <2>3 DEF Tx, Version
  <2>5. tx'[c] # None
    BY <1>0, <2>2, <2>4, NoneAssumption DEF NoneAssumption
  <2> QED
    BY <1>0, <1>4, <2>1, <2>2, <2>5
<1>10. ASSUME NEW c \in Clients, Commit(c) PROVE CounterBehindClock'
  <2>1. tx[c] # None /\ counter' = counter /\ clock' = clock /\ tx' = [tx EXCEPT ![c] = None]
    BY <1>10 DEF Commit, EndSession, cacheVars
  <2>2. PICK purge : owes' = [owes EXCEPT ![c] = [bump |-> TRUE, rows |-> {tx[c].row}, purge |-> purge]]
    BY <1>10 DEF Commit
  <2>3. Bumping' = Bumping
    BY <1>0, <2>1, <2>2 DEF Bumping
  <2>4. \A d \in Clients : tx'[d] # None => ~owes'[d].bump
    BY <1>0, <1>2, <2>1, <2>2
  <2> QED
    BY <1>1, <2>1, <2>3, <2>4 DEF CounterBehindClock
<1>11. ASSUME NEW c \in Clients, Abort(c) PROVE CounterBehindClock'
  <2>1. /\ counter' = counter /\ clock' = clock /\ tx' = [tx EXCEPT ![c] = None]
        /\ owes' = owes /\ owes[c] = NoDuty
    BY <1>11 DEF Abort, EndSession, Idle, cacheVars
  <2>2. tx'[c] = None /\ ~owes'[c].bump /\ \A d \in Clients \ {c} : tx'[d] = tx[d] /\ owes'[d] = owes[d]
    BY <1>0, <2>1 DEF NoDuty
  <2>3. clock' = clock /\ (counter' = counter \/ (counter' = counter + 1 /\ c \in Bumping))
    BY <2>1
  <2> QED
    BY <1>5, <2>2, <2>3
<1>12. ASSUME NEW c \in Clients, Evict(c) PROVE CounterBehindClock'
  <2>1. /\ tx' = tx /\ tx[c] = None /\ owes[c] = NoDuty
        /\ counter' = counter /\ clock' = clock + 1
    BY <1>12 DEF Evict, Idle, sessionVars, cacheVars
  <2>2. PICK purge : owes' = [owes EXCEPT ![c] = [bump |-> TRUE, rows |-> {}, purge |-> purge]]
    BY <1>12 DEF Evict
  <2>3. tx'[c] = None /\ owes'[c].bump /\ \A d \in Clients \ {c} : tx'[d] = tx[d] /\ owes'[d] = owes[d]
    BY <1>0, <2>1, <2>2
  <2>4. ~owes[c].bump
    BY <2>1 DEF NoDuty
  <2> QED
    BY <1>4, <2>1, <2>3, <2>4
<1>13. ASSUME NEW c \in Clients, Crash(c) PROVE CounterBehindClock'
  <2>1. /\ tx' = tx /\ counter' = counter /\ clock' = clock /\ owes' = [owes EXCEPT ![c] = NoDuty]
    BY <1>13 DEF Crash, dbVars, sessionVars, cacheVars
  <2>2. ~owes'[c].bump /\ \A d \in Clients \ {c} : owes'[d] = owes[d]
    BY <1>0, <2>1 DEF NoDuty
  <2>3. CASE tx[c] = None
    <3>1. tx'[c] = None /\ ~owes'[c].bump /\ \A d \in Clients \ {c} : tx'[d] = tx[d] /\ owes'[d] = owes[d]
      BY <2>1, <2>2, <2>3
    <3>2. clock' = clock /\ (counter' = counter \/ (counter' = counter + 1 /\ c \in Bumping))
      BY <2>1
    <3> QED
      BY <1>5, <3>1, <3>2
  <2>4. CASE tx[c] # None
    <3>1. \A d \in Clients : owes'[d].bump = owes[d].bump
      BY <1>0, <1>2, <2>1, <2>4 DEF NoDuty, Duty
    <3> QED
      BY <1>3, <2>1, <3>1
  <2> QED
    BY <2>3, <2>4
<1>14. ASSUME NEW c \in Clients, Bump(c) \/ BumpFails(c) PROVE CounterBehindClock'
  <2>1. /\ owes[c].bump /\ clock' = clock /\ tx' = tx
        /\ owes' = [owes EXCEPT ![c].bump = FALSE, ![c].rows = {}]
        /\ counter' = counter \/ counter' = counter + 1
    BY <1>14 DEF Bump, BumpFails, dbVars, sessionVars, cacheVars
  <2>2. ~owes'[c].bump
    BY <1>0, <2>1 DEF Duty
  <2>3. tx[c] = None /\ c \in Bumping
    BY <1>2, <2>1 DEF Bumping
  <2>4. \A d \in Clients \ {c} : owes'[d] = owes[d]
    BY <1>0, <2>1
  <2> QED
    BY <1>5, <2>1, <2>2, <2>3, <2>4
<1>15. ASSUME NEW c \in Clients, NEW k \in Rows, Purge(c, k) \/ PurgeFails(c, k) PROVE CounterBehindClock'
  <2>1. PICK missed : owes' = [owes EXCEPT ![c].purge = @ \ missed]
    BY <1>15 DEF Purge, PurgeFails
  <2>2. \A d \in Clients : owes'[d].bump = owes[d].bump
    BY <1>0, <2>1 DEF Duty
  <2>3. UNCHANGED <<tx, clock, counter>>
    BY <1>15 DEF Purge, PurgeFails, dbVars, sessionVars, cacheVars
  <2> QED
    BY <1>3, <2>2, <2>3
<1> QED
  BY <1>6, <1>7, <1>8, <1>9, <1>10, <1>11, <1>12, <1>13, <1>14, <1>15 DEF Next, Client, Invalidate

(* What the session of a client outside a block shows is the database.     *)
LEMMA OutsideSeesDatabase ==
  ASSUME TypeOK, Sessions, NEW c \in Clients, ~block[c], Reader(c)
  PROVE  \A k \in Rows : Sees(c)[k] = db[k]
  BY DEF Sees, Sessions

(* A delete of a key only marks the reads that are about to set it.        *)
LEMMA PurgeMarks ==
  ASSUME TypeOK, NEW c \in Clients, NEW k \in Rows, Purge(c, k), NEW d \in Clients
  PROVE  /\ read'[d].at = read[d].at /\ read'[d].under = read[d].under /\ read'[d].got = read[d].got
         /\ read'[d].floor = read[d].floor /\ read'[d].blind = read[d].blind
         /\ ~read'[d].late => ~read[d].late /\ ~(read[d].at = "fill" /\ kind = k)
<1>1. read[d] \in Reading
  BY DEF TypeOK
<1>2. read'[d] = IF read[d].at = "fill" /\ kind = k THEN [read[d] EXCEPT !.late = TRUE] ELSE read[d]
  BY DEF Purge
<1>3. CASE read[d].at = "fill" /\ kind = k
  BY <1>1, <1>2, <1>3 DEF Reading
<1>4. CASE ~(read[d].at = "fill" /\ kind = k)
  BY <1>2, <1>4
<1> QED
  BY <1>3, <1>4

(* Every step keeps what is known of sessions in and outside of blocks. *)
LEMMA NextSessions == TypeOK /\ Sessions /\ [Next]_vars => Sessions'
<1> SUFFICES ASSUME TypeOK, Sessions, [Next]_vars
             PROVE  Sessions'
  OBVIOUS
<1>0. /\ block \in [Clients -> BOOLEAN] /\ loaded \in [Clients -> [Rows -> {None} \cup Version]]
      /\ tx \in [Clients -> {None} \cup Tx] /\ read \in [Clients -> Reading]
  BY DEF TypeOK
<1>1. /\ \A c \in Clients, k \in Rows : ~block[c] => loaded[c][k] = None
      /\ \A c \in Clients : Reader(c) /\ ~block[c] => tx[c] = None
  BY DEF Sessions
<1>2. ASSUME UNCHANGED <<block, loaded, tx>>,
             \A c \in Clients : read'[c].at # "none" => read[c].at # "none" \/ block[c] \/ tx[c] = None
      PROVE  Sessions'
  BY <1>0, <1>1, <1>2 DEF Sessions, Reader
<1>3. CASE UNCHANGED vars
  BY <1>2, <1>3 DEF vars, dbVars, sessionVars
<1>4. CASE Expire
  BY <1>2, <1>4 DEF Expire, ExpireList, ExpireObj, dbVars, sessionVars
<1>5. ASSUME NEW c \in Clients, EnterBlock(c) PROVE Sessions'
  BY <1>0, <1>1, <1>5 DEF EnterBlock, Sessions, Reader, Idle
<1>6. ASSUME NEW c \in Clients, NEW k \in Rows, Write(c, k) PROVE Sessions'
  BY <1>0, <1>1, <1>6 DEF Write, Sessions, Reader, Idle
<1>7. ASSUME NEW c \in Clients, Commit(c) \/ Abort(c) PROVE Sessions'
  <2>1. EndSession(c) /\ read' = read
    BY <1>7 DEF Commit, Abort
  <2>2. \A d \in Clients \ {c} : block'[d] = block[d] /\ loaded'[d] = loaded[d]
    BY <1>0, <2>1 DEF EndSession
  <2>3. /\ \A d \in Clients : tx'[d] = None \/ tx'[d] = tx[d]
        /\ tx'[c] = None /\ \A k \in Rows : loaded'[c][k] = None
    BY <1>0, <2>1 DEF EndSession, NothingLoaded
  <2> QED
    BY <1>1, <2>1, <2>2, <2>3 DEF Sessions, Reader
<1>8. ASSUME NEW c \in Clients, Evict(c) \/ Crash(c) \/ Bump(c) \/ BumpFails(c) PROVE Sessions'
  BY <1>2, <1>8 DEF Evict, Crash, Bump, BumpFails, dbVars, sessionVars
<1>9. ASSUME NEW c \in Clients, NEW k \in Rows, Purge(c, k) \/ PurgeFails(c, k) PROVE Sessions'
  <2>1. UNCHANGED <<block, loaded, tx>>
    BY <1>9 DEF Purge, PurgeFails, dbVars, sessionVars
  <2>2. \A d \in Clients : read'[d].at = read[d].at
    BY <1>9, PurgeMarks DEF PurgeFails
  <2> QED
    BY <1>2, <2>1, <2>2
<1>10. ASSUME NEW c \in Clients, StartRead(c) PROVE Sessions'
  BY <1>0, <1>2, <1>10 DEF StartRead, MayRead, Advance, dbVars, sessionVars
<1>11. ASSUME NEW c \in Clients, Load(c) PROVE Sessions'
  BY <1>0, <1>1, <1>11 DEF Load, Loads, Sessions, Reader
<1>12. ASSUME NEW c \in Clients, GetVersion(c) \/ GetVersionFails(c) \/ Hit(c) \/ Miss(c) \/ Fill(c) \/ FillFails(c)
       PROVE  Sessions'
  <2>1. UNCHANGED <<block, loaded, tx>>
    BY <1>12 DEF GetVersion, GetVersionFails, Hit, Miss, Fill, FillFails, dbVars, sessionVars
  <2>2. Reader(c)
    BY <1>12 DEF GetVersion, GetVersionFails, Hit, Miss, Fill, FillFails, Reads, Reader
  <2>3. \A d \in Clients \ {c} : read'[d] = read[d]
    BY <1>0, <1>12 DEF GetVersion, GetVersionFails, Hit, Miss, Fill, FillFails, Advance
  <2> QED
    BY <1>2, <2>1, <2>2, <2>3 DEF Reader
<1>13. ASSUME NEW c \in Clients, Fetch(c) PROVE Sessions'
  <2>1. /\ UNCHANGED <<block, tx>> /\ Reader(c)
        /\ \A d \in Clients \ {c} : read'[d] = read[d]
    BY <1>0, <1>13 DEF Fetch, Advance, Reads, Reader
  <2>2. \A d \in Clients, k \in Rows : ~block[d] => loaded'[d][k] = None
    BY <1>0, <1>1, <1>13 DEF Fetch, Loads
  <2> QED
    BY <1>1, <2>1, <2>2 DEF Sessions, Reader
<1> QED
  BY <1>3, <1>4, <1>5, <1>6, <1>7, <1>8, <1>9, <1>10, <1>11, <1>12, <1>13
     DEF Next, Client, Invalidate, ReadStep

(* The database and what is settled change at a commit and at a bump only.  *)
LEMMA NextVersions == TypeOK /\ Versions /\ [Next]_vars => Versions'
<1> SUFFICES ASSUME TypeOK, Versions, [Next]_vars
             PROVE  Versions'
  OBVIOUS
<1>0. /\ clock \in Nat /\ tx \in [Clients -> {None} \cup Tx] /\ db \in [Rows -> Version]
      /\ settled \in [Rows -> Numbers] /\ owes \in [Clients -> Duty]
  BY ReadCacheAssumption DEF TypeOK, Numbers, ReadCacheAssumption, Snapshot
<1>1. ASSUME UNCHANGED <<db, settled, tx, clock>> PROVE Versions'
  BY <1>1 DEF Versions
<1>2. CASE UNCHANGED vars
  BY <1>1, <1>2 DEF vars, dbVars, sessionVars, historyVars
<1>3. CASE Expire
  BY <1>1, <1>3 DEF Expire, ExpireList, ExpireObj, dbVars, sessionVars
<1>4. ASSUME NEW c \in Clients, EnterBlock(c) \/ Load(c) \/ StartRead(c) \/ ReadStep(c) PROVE Versions'
  <2>1. CASE EnterBlock(c) \/ Load(c) \/ StartRead(c)
    BY <1>1, <2>1 DEF EnterBlock, Load, StartRead, historyVars, dbVars, sessionVars
  <2>2. CASE ReadStep(c)
    BY <1>1, <2>2 DEF ReadStep, GetVersion, GetVersionFails, Hit, Miss, Fetch, Fill, FillFails,
                      historyVars, dbVars, sessionVars
  <2> QED
    BY <1>4, <2>1, <2>2
<1>5. ASSUME NEW c \in Clients, Crash(c) \/ BumpFails(c) PROVE Versions'
  BY <1>1, <1>5 DEF Crash, BumpFails, dbVars, sessionVars
<1>6. ASSUME NEW c \in Clients, NEW k \in Rows, Purge(c, k) \/ PurgeFails(c, k) PROVE Versions'
  BY <1>1, <1>6 DEF Purge, PurgeFails, dbVars, sessionVars
<1>7. ASSUME NEW c \in Clients, NEW k \in Rows, Write(c, k) PROVE Versions'
  <2>1. PICK live \in BOOLEAN :
          tx' = [tx EXCEPT ![c] = [row |-> k, to |-> [num |-> clock + 1, live |-> live]]]
    BY <1>7 DEF Write
  <2>2. clock' = clock + 1 /\ db' = db /\ settled' = settled
    BY <1>7 DEF Write, historyVars
  <2>3. \A d \in Clients : tx[d] # None => tx[d].row # k
    BY <1>7 DEF Write
  <2>4. tx'[c].row = k /\ tx'[c].to.num = clock + 1 /\ \A d \in Clients \ {c} : tx'[d] = tx[d]
    BY <1>0, <2>1
  <2>5. \A d \in Clients : tx[d] # None => tx[d] \in Tx /\ tx[d].to.num \in Nat
    BY <1>0 DEF Tx, Version, Numbers
  <2>6. \A j \in Rows : db[j].num \in Nat
    BY <1>0 DEF Version, Numbers
  <2>7. \A j \in Rows : db[j].num <= clock /\ settled[j] <= db[j].num
    BY DEF Versions
  <2>8. \A d \in Clients : tx[d] # None => db[tx[d].row].num < tx[d].to.num /\ tx[d].to.num <= clock
    BY DEF Versions
  <2>9. \A d, e \in Clients : tx[d] # None /\ tx[e] # None /\ tx[d].row = tx[e].row => d = e
    BY DEF Versions
  <2>10. \A j \in Rows : db'[j].num <= clock' /\ settled'[j] <= db'[j].num
    BY <1>0, <2>2, <2>6, <2>7
  <2>11. \A d \in Clients : tx'[d] # None => db'[tx'[d].row].num < tx'[d].to.num /\ tx'[d].to.num <= clock'
    <3> TAKE d \in Clients
    <3>1. CASE d = c
      BY <1>0, <2>2, <2>4, <2>6, <2>7, <3>1
    <3>2. CASE d # c
      BY <1>0, <2>2, <2>4, <2>5, <2>8, <3>2
    <3> QED
      BY <3>1, <3>2
  <2>12. \A d, e \in Clients : tx'[d] # None /\ tx'[e] # None /\ tx'[d].row = tx'[e].row => d = e
    BY <2>3, <2>4, <2>9
  <2> QED
    BY <2>10, <2>11, <2>12 DEF Versions
<1>8. ASSUME NEW c \in Clients, Commit(c) PROVE Versions'
  <2>1. /\ tx[c] # None /\ tx' = [tx EXCEPT ![c] = None] /\ db' = [db EXCEPT ![tx[c].row] = tx[c].to]
        /\ settled' = settled /\ clock' = clock
    BY <1>8 DEF Commit, EndSession, historyVars
  <2>2. tx[c] \in Tx /\ tx[c].row \in Rows /\ tx[c].to.num \in Nat
    BY <1>0, <2>1 DEF Tx, Version, Numbers
  <2>3. \A d \in Clients \ {c} : tx[d] # None => tx[d].row # tx[c].row
    BY <2>1 DEF Versions
  <2>4. \A j \in Rows : db[j].num \in Nat /\ settled[j] \in Nat
    BY <1>0 DEF Version, Numbers
  <2>5. \A j \in Rows : db'[j].num <= clock' /\ settled'[j] <= db'[j].num
    BY <1>0, <2>1, <2>2, <2>4 DEF Versions
  <2>6. \A d \in Clients : tx'[d] # None => tx'[d] = tx[d] /\ db'[tx[d].row] = db[tx[d].row]
    BY <1>0, <2>1, <2>2, <2>3 DEF Tx
  <2> QED
    BY <2>1, <2>5, <2>6 DEF Versions
<1>9. ASSUME NEW c \in Clients, Abort(c) PROVE Versions'
  <2>1. tx' = [tx EXCEPT ![c] = None] /\ db' = db /\ settled' = settled /\ clock' = clock
    BY <1>9 DEF Abort, EndSession, historyVars
  <2>2. \A d \in Clients : tx'[d] # None => tx'[d] = tx[d]
    BY <1>0, <2>1
  <2> QED
    BY <2>1, <2>2 DEF Versions
<1>10. ASSUME NEW c \in Clients, Evict(c) PROVE Versions'
  <2>1. tx' = tx /\ db' = db /\ settled' = settled /\ clock' = clock + 1
    BY <1>10 DEF Evict, historyVars, sessionVars
  <2>2. \A j \in Rows : db[j].num \in Nat
    BY <1>0 DEF Version, Numbers
  <2>3. \A d \in Clients : tx[d] # None => tx[d].to.num \in Nat
    BY <1>0 DEF Tx, Version, Numbers
  <2> QED
    BY <1>0, <2>1, <2>2, <2>3 DEF Versions
<1>11. ASSUME NEW c \in Clients, Bump(c) PROVE Versions'
  <2>1. /\ settled' = [k \in Rows |-> IF k \in owes[c].rows THEN db[k].num ELSE settled[k]]
        /\ tx' = tx /\ db' = db /\ clock' = clock
    BY <1>11 DEF Bump, dbVars, sessionVars
  <2>2. \A j \in Rows : db[j].num \in Nat
    BY <1>0 DEF Version, Numbers
  <2>3. \A j \in Rows : settled'[j] <= db[j].num
    BY <2>1, <2>2 DEF Versions
  <2> QED
    BY <2>1, <2>3 DEF Versions
<1> QED
  BY <1>2, <1>3, <1>4, <1>5, <1>6, <1>7, <1>8, <1>9, <1>10, <1>11 DEF Next, Client, Invalidate

-----------------------------------------------------------------------------
(* What the steps of a read do to it.                                      *)

(* What the start of a read does: it notes what is settled by then. *)
LEMMA StartReadEffect ==
  ASSUME TypeOK, NEW c \in Clients, StartRead(c)
  PROVE  /\ read'[c].at = IF kind = List THEN "version" ELSE "lookup"
         /\ read'[c].under = 0
         /\ \A k \in Rows : read'[c].floor[k] = IF kind = List THEN settled[k] ELSE 0
         /\ \A d \in Clients \ {c} : read'[d] = read[d]
<1>1. read \in [Clients -> Reading]
  BY DEF TypeOK
<1>2. /\ read' = [read EXCEPT ![c] = IF kind = List THEN [NoRead EXCEPT !.at = "version", !.floor = settled]
                                     ELSE [NoRead EXCEPT !.at = "lookup"]]
  BY DEF StartRead, Advance
<1>3. CASE kind = List
  BY <1>1, <1>2, <1>3 DEF NoRead
<1>4. CASE kind # List
  BY <1>1, <1>2, <1>4 DEF NoRead
<1> QED
  BY <1>3, <1>4

(* What fetching the version does: the read goes on under it, or blindly   *)
(* under 0.                                                                *)
LEMMA GetVersionEffect ==
  ASSUME TypeOK, NEW c \in Clients, GetVersion(c) \/ GetVersionFails(c)
  PROVE  /\ read[c].at = "version" /\ read'[c].at = "lookup"
         /\ read'[c].under = counter \/ (read'[c].under = 0 /\ read'[c].blind)
         /\ read'[c].floor = read[c].floor
         /\ \A d \in Clients \ {c} : read'[d] = read[d]
<1>1. read \in [Clients -> Reading]
  BY DEF TypeOK
<1>2. CASE GetVersion(c)
  BY <1>1, <1>2 DEF GetVersion, Advance, Reads, Reading
<1>3. CASE GetVersionFails(c)
  BY <1>1, <1>3 DEF GetVersionFails, Advance, Reads, Reading
<1> QED
  BY <1>2, <1>3

(* What a miss does: the read goes on to the database. *)
LEMMA MissEffect ==
  ASSUME TypeOK, NEW c \in Clients, Miss(c)
  PROVE  /\ read[c].at = "lookup" /\ read'[c].at = "fetch"
         /\ read'[c].under = read[c].under /\ read'[c].floor = read[c].floor
         /\ read'[c].blind = read[c].blind
         /\ \A d \in Clients \ {c} : read'[d] = read[d]
<1>1. read \in [Clients -> Reading]
  BY DEF TypeOK
<1> QED
  BY <1>1 DEF Miss, Advance, Reads, Reading

(* What the end of a read does: nothing is left of it. *)
LEMMA EndEffect ==
  ASSUME TypeOK, NEW c \in Clients, Hit(c) \/ Fill(c) \/ FillFails(c)
  PROVE  /\ read[c].at \in {"lookup", "fill"} /\ read'[c] = NoRead
         /\ \A d \in Clients \ {c} : read'[d] = read[d]
<1>1. read \in [Clients -> Reading]
  BY DEF TypeOK
<1> QED
  BY <1>1 DEF Hit, Fill, FillFails, Advance, Reads

(* What fetching does: the read has what its session sees, or is over. *)
LEMMA FetchEffect ==
  ASSUME TypeOK, Sessions, NEW c \in Clients, Fetch(c)
  PROVE  /\ read[c].at = "fetch"
         /\ \A d \in Clients \ {c} : read'[d] = read[d]
         /\ \/ read'[c] = NoRead
            \/ /\ read'[c].at = "fill" /\ read'[c].under = read[c].under
               /\ read'[c].floor = read[c].floor /\ read'[c].blind = read[c].blind
               /\ read'[c].got = Sees(c)
               /\ ~block[c] => \A k \in Rows : read'[c].got[k] = db[k]
               /\ kind # List => read'[c].got[kind].live
<1>1. read \in [Clients -> Reading]
  BY DEF TypeOK
<1>2. /\ read[c].at = "fetch"
      /\ read' = [read EXCEPT ![c] = IF kind = List \/ Sees(c)[kind].live
                                     THEN [read[c] EXCEPT !.at = "fill", !.got = Sees(c)] ELSE NoRead]
  BY DEF Fetch, Advance, Reads
<1>3. ~block[c] => \A k \in Rows : Sees(c)[k] = db[k]
  BY <1>2, OutsideSeesDatabase DEF Reader
<1>4. CASE kind = List \/ Sees(c)[kind].live
  <2>1. read'[c] = [read[c] EXCEPT !.at = "fill", !.got = Sees(c)]
    BY <1>1, <1>2, <1>4
  <2>2. /\ read'[c].at = "fill" /\ read'[c].under = read[c].under
        /\ read'[c].floor = read[c].floor /\ read'[c].blind = read[c].blind
        /\ read'[c].got = Sees(c)
    BY <1>1, <2>1 DEF Reading
  <2> QED
    BY <1>1, <1>2, <1>3, <1>4, <2>2
<1>5. CASE ~(kind = List \/ Sees(c)[kind].live)
  BY <1>1, <1>2, <1>5
<1> QED
  BY <1>4, <1>5

(* Every step keeps later versions free of cached lists. *)
LEMMA NextNoneAhead == TypeOK /\ Sessions /\ Versions /\ NoneAhead /\ [Next]_vars => NoneAhead'
<1> SUFFICES ASSUME TypeOK, Sessions, Versions, NoneAhead, [Next]_vars
             PROVE  NoneAhead'
  OBVIOUS
<1>0. /\ counter \in Nat /\ 0 <= counter /\ read \in [Clients -> Reading]
      /\ lists \in [Numbers -> {None} \cup Snapshot] /\ settled \in [Rows -> Nat]
  BY ReadCacheAssumption DEF TypeOK, Numbers, ReadCacheAssumption
<1>1. /\ \A v \in Numbers : lists[v] # None => v <= counter
      /\ \A c \in Clients : read[c].under <= counter
      /\ \A c \in Clients, k \in Rows : read[c].at # "none" => read[c].floor[k] <= settled[k]
      /\ \A c \in Clients : read[c].at = "fill" => read[c].got # None
  BY DEF NoneAhead, Reader
<1>2. ASSUME counter' = counter, settled' = settled,
             \A v \in Numbers : lists'[v] # None => lists[v] # None,
             \A c \in Clients : /\ read'[c].under = read[c].under \/ read'[c].under = 0
                                                                  \/ read'[c].under = counter
                                /\ read'[c].at # "none" => 
                                      \A k \in Rows : read'[c].floor[k] <= settled[k]
                                /\ read'[c].at = "fill" => read'[c].got # None
      PROVE  NoneAhead'
  BY <1>0, <1>1, <1>2 DEF NoneAhead, Reader
<1>3. ASSUME UNCHANGED <<counter, settled, lists, read>> PROVE NoneAhead'
  BY <1>1, <1>3 DEF NoneAhead, Reader
<1>4. CASE UNCHANGED vars
  BY <1>3, <1>4 DEF vars, cacheVars, historyVars
<1>5. CASE Expire
  <2>1. counter' = counter /\ settled' = settled /\ read' = read
    BY <1>5 DEF Expire, ExpireList, ExpireObj
  <2>2. \A v \in Numbers : lists'[v] # None => lists[v] # None
    BY <1>0, <1>5 DEF Expire, ExpireList, ExpireObj
  <2> QED
    BY <1>1, <1>2, <2>1, <2>2
<1>6. ASSUME NEW c \in Clients, EnterBlock(c) \/ Load(c) \/ Commit(c) \/ Abort(c) \/ Evict(c)
                                \/ Crash(c) \/ BumpFails(c)
      PROVE  NoneAhead'
  BY <1>3, <1>6 DEF EnterBlock, Load, Commit, Abort, Evict, Crash, BumpFails, cacheVars, historyVars
<1>7. ASSUME NEW c \in Clients, NEW k \in Rows, Write(c, k) \/ PurgeFails(c, k) PROVE NoneAhead'
  BY <1>3, <1>7 DEF Write, PurgeFails, cacheVars, historyVars
<1>8. ASSUME NEW c \in Clients, NEW k \in Rows, Purge(c, k) PROVE NoneAhead'
  <2>1. counter' = counter /\ settled' = settled /\ lists' = lists
    BY <1>8 DEF Purge
  <2> QED
    BY <1>1, <1>2, <1>8, <2>1, PurgeMarks
<1>9. ASSUME NEW c \in Clients, Bump(c) PROVE NoneAhead'
  <2>1. /\ counter' = counter + 1 /\ lists' = lists /\ read' = read
        /\ settled' = [k \in Rows |-> IF k \in owes[c].rows THEN db[k].num ELSE settled[k]]
    BY <1>9 DEF Bump
  <2>2. \A k \in Rows : db[k].num \in Nat /\ settled[k] <= db[k].num
    BY DEF TypeOK, Versions, Snapshot, Version, Numbers
  <2>3. \A k \in Rows : settled[k] <= settled'[k] /\ settled'[k] \in Nat
    BY <1>0, <2>1, <2>2
  <2>4. \A d \in Clients : read[d].under \in Nat /\ \A k \in Rows : read[d].floor[k] \in Nat
    BY <1>0 DEF Reading, Numbers
  <2>5. \A d \in Clients, k \in Rows : read[d].at # "none" => read[d].floor[k] <= settled'[k]
    BY <1>0, <1>1, <2>3, <2>4
  <2>6. \A d \in Clients : read[d].under <= counter'
    BY <1>0, <1>1, <2>1, <2>4
  <2>7. \A v \in Numbers : lists[v] # None => v <= counter'
    BY <1>0, <1>1, <2>1 DEF Numbers
  <2> QED
    BY <1>1, <2>1, <2>5, <2>6, <2>7 DEF NoneAhead, Reader
<1>10. ASSUME NEW c \in Clients, StartRead(c) PROVE NoneAhead'
  <2>1. counter' = counter /\ settled' = settled /\ lists' = lists
    BY <1>10 DEF StartRead, cacheVars, historyVars
  <2>2. \A k \in Rows : read'[c].floor[k] <= settled[k]
    BY <1>0, <1>10, StartReadEffect
  <2>3. read'[c].at # "fill" /\ read'[c].under = 0
    BY <1>10, StartReadEffect
  <2> QED
    BY <1>1, <1>2, <1>10, <2>1, <2>2, <2>3, StartReadEffect
<1>11. ASSUME NEW c \in Clients, GetVersion(c) \/ GetVersionFails(c) PROVE NoneAhead'
  <2>1. counter' = counter /\ settled' = settled /\ lists' = lists
    BY <1>11 DEF GetVersion, GetVersionFails, cacheVars, historyVars
  <2> QED
    BY <1>1, <1>2, <1>11, <2>1, GetVersionEffect
<1>12. ASSUME NEW c \in Clients, Miss(c) PROVE NoneAhead'
  <2>1. counter' = counter /\ settled' = settled /\ lists' = lists
    BY <1>12 DEF Miss, cacheVars, historyVars
  <2> QED
    BY <1>1, <1>2, <1>12, <2>1, MissEffect
<1>13. ASSUME NEW c \in Clients, Hit(c) \/ FillFails(c) PROVE NoneAhead'
  <2>1. counter' = counter /\ settled' = settled /\ lists' = lists
    BY <1>13 DEF Hit, FillFails, cacheVars, historyVars
  <2> QED
    BY <1>1, <1>2, <1>13, <2>1, EndEffect DEF NoRead
<1>14. ASSUME NEW c \in Clients, Fetch(c) PROVE NoneAhead'
  <2>1. counter' = counter /\ settled' = settled /\ lists' = lists
    BY <1>14 DEF Fetch, cacheVars, historyVars
  <2>2. Sees(c) # None
    BY SeesTypes, NoneAssumption DEF NoneAssumption
  <2> QED
    BY <1>1, <1>2, <1>14, <2>1, <2>2, FetchEffect DEF NoRead
<1>15. ASSUME NEW c \in Clients, Fill(c) PROVE NoneAhead'
  <2>1. counter' = counter /\ settled' = settled
    BY <1>15 DEF Fill
  <2>2. \A v \in Numbers : lists'[v] # None => v <= counter
    BY <1>0, <1>1, <1>15 DEF Fill, FillVersion
  <2>3. \A d \in Clients : read'[d] = read[d] \/ read'[d] = NoRead
    BY <1>15, EndEffect
  <2> QED
    BY <1>0, <1>1, <2>1, <2>2, <2>3 DEF NoneAhead, Reader, NoRead
<1> QED
  BY <1>4, <1>5, <1>6, <1>7, <1>8, <1>9, <1>10, <1>11, <1>12, <1>13, <1>14, <1>15
     DEF Next, Client, Invalidate, ReadStep

-----------------------------------------------------------------------------
(* Query results.                                                          *)

Using(c) == read[c].at \in {"lookup", "fetch", "fill"}

(* Every step keeps lists as settled as the start of their query demands. *)
LEMMA NextListsSettled ==
  TypeOK /\ CounterBehindClock /\ Sessions /\ Versions /\ NoneAhead /\ ListsSettled /\ [Next]_vars
  => ListsSettled'
<1> SUFFICES ASSUME TypeOK, CounterBehindClock, Sessions, Versions, NoneAhead, ListsSettled, [Next]_vars
             PROVE  ListsSettled'
  OBVIOUS
<1>0. /\ counter \in Numbers /\ counter \in Nat /\ read \in [Clients -> Reading]
      /\ lists \in [Numbers -> {None} \cup Snapshot] /\ settled \in [Rows -> Nat]
  BY ReadCacheAssumption DEF TypeOK, Numbers, ReadCacheAssumption
<1>1. \A c \in Clients, k \in Rows : kind = List /\ Fetched(c) /\ read[c].under = counter =>
        read[c].got[k].num >= settled[k]
  BY DEF ListsSettled
<1>2. lists[counter] # None /\ counter \notin blockLists =>
        \A k \in Rows : lists[counter][k].num >= settled[k]
  BY DEF ListsSettled
<1>3. \A c, d \in Clients, k \in Rows :
        kind = List /\ Fetched(c) /\ read[c].under = read[d].under /\ ~read[d].blind /\ Using(d)
        => read[c].got[k].num >= read[d].floor[k]
  BY DEF ListsSettled, Using
<1>4. \A c \in Clients, k \in Rows :
        kind = List /\ ~read[c].blind /\ Using(c)
        /\ lists[read[c].under] # None /\ read[c].under \notin blockLists
        => lists[read[c].under][k].num >= read[c].floor[k]
  BY DEF ListsSettled, Using
(* Reads end or stay; entries go. *)
<1>5. ASSUME kind' = kind, counter' = counter, settled' = settled,
             \A v \in Numbers : lists'[v] = None \/ (lists'[v] = lists[v] /\ (v \in blockLists => v \in blockLists')),
             \A c \in Clients :
               \/ read'[c].at \in {"none", "version"}
               \/ kind # List
               \/ /\ read'[c].under = read[c].under /\ read'[c].got = read[c].got
                  /\ read'[c].floor = read[c].floor /\ read'[c].blind = read[c].blind
                  /\ (read'[c].at = "fill" => read[c].at = "fill") /\ Using(c)
                  /\ (block[c] => block'[c])
      PROVE  ListsSettled'
  <2>1. \A c \in Clients : Fetched(c)' /\ kind = List =>
          /\ Fetched(c) /\ read'[c].under = read[c].under /\ read'[c].got = read[c].got
    BY <1>5 DEF Fetched
  <2>2. \A c \in Clients : Using(c)' /\ kind = List =>
          /\ Using(c) /\ read'[c].under = read[c].under /\ read'[c].floor = read[c].floor
          /\ read'[c].blind = read[c].blind
    BY <1>5 DEF Using
  <2>3. \A v \in Numbers : lists'[v] # None /\ v \notin blockLists' => lists'[v] = lists[v] /\ v \notin blockLists
    BY <1>5
  <2>4. \A c \in Clients : read[c].under \in Numbers
    BY <1>0 DEF Reading
  <2>5. \A c \in Clients, k \in Rows : kind' = List /\ Fetched(c)' /\ read'[c].under = counter' =>
          read'[c].got[k].num >= settled'[k]
    BY <1>1, <1>5, <2>1
  <2>6. lists'[counter'] # None /\ counter' \notin blockLists' =>
          \A k \in Rows : lists'[counter'][k].num >= settled'[k]
    BY <1>0, <1>2, <1>5, <2>3
  <2>7. \A c, d \in Clients, k \in Rows :
          kind' = List /\ Fetched(c)' /\ read'[c].under = read'[d].under /\ ~read'[d].blind /\ Using(d)'
          => read'[c].got[k].num >= read'[d].floor[k]
    BY <1>3, <1>5, <2>1, <2>2
  <2>8. \A c \in Clients, k \in Rows :
          kind' = List /\ ~read'[c].blind /\ Using(c)'
          /\ lists'[read'[c].under] # None /\ read'[c].under \notin blockLists'
          => lists'[read'[c].under][k].num >= read'[c].floor[k]
    BY <1>4, <1>5, <2>2, <2>3, <2>4
  <2> QED
    BY <2>5, <2>6, <2>7, <2>8 DEF ListsSettled, Using
<1>6. ASSUME UNCHANGED <<kind, counter, settled, lists, blockLists, read>>,
             \A c \in Clients : block'[c] = block[c] \/ read[c].at = "none"
      PROVE  ListsSettled'
  <2>1. \A c \in Clients : read[c].at \in {"none", "version"} \/ Using(c)
    BY <1>0 DEF Using, Reading
  <2> QED
    BY <1>5, <1>6, <2>1
<1>7. CASE UNCHANGED vars
  BY <1>6, <1>7 DEF vars, dbVars, sessionVars, cacheVars, historyVars
<1>8. CASE Expire
  <2>1. kind' = kind /\ counter' = counter /\ settled' = settled /\ read' = read /\ block' = block
    BY <1>8 DEF Expire, ExpireList, ExpireObj, dbVars, sessionVars
  <2>2. \A v \in Numbers : lists'[v] = None \/ (lists'[v] = lists[v] /\ (v \in blockLists => v \in blockLists'))
    BY <1>0, <1>8 DEF Expire, ExpireList, ExpireObj
  <2>3. \A c \in Clients : read[c].at \in {"none", "version"} \/ Using(c)
    BY <1>0 DEF Using, Reading
  <2> QED
    BY <1>5, <2>1, <2>2, <2>3
<1>9. ASSUME NEW c \in Clients, EnterBlock(c) \/ Commit(c) \/ Abort(c) PROVE ListsSettled'
  <2>1. UNCHANGED <<kind, counter, settled, lists, blockLists, read>>
    BY <1>9 DEF EnterBlock, Commit, Abort, cacheVars, historyVars
  <2>2. read[c].at = "none" /\ \A d \in Clients \ {c} : block'[d] = block[d]
    BY <1>9 DEF EnterBlock, Commit, Abort, Idle, EndSession, TypeOK
  <2> QED
    BY <1>6, <2>1, <2>2
<1>10. ASSUME NEW c \in Clients, Load(c) \/ Evict(c) \/ Crash(c) \/ BumpFails(c) PROVE ListsSettled'
  BY <1>6, <1>10 DEF Load, Evict, Crash, BumpFails, dbVars, sessionVars, cacheVars, historyVars
<1>11. ASSUME NEW c \in Clients, NEW k \in Rows, Write(c, k) \/ PurgeFails(c, k) PROVE ListsSettled'
  BY <1>6, <1>11 DEF Write, PurgeFails, dbVars, sessionVars, cacheVars, historyVars
<1>12. ASSUME NEW c \in Clients, NEW k \in Rows, Purge(c, k) PROVE ListsSettled'
  <2>1. UNCHANGED <<kind, counter, settled, lists, blockLists, block>>
    BY <1>12 DEF Purge, dbVars, sessionVars
  <2>2. \A d \in Clients : read[d].at \in {"none", "version"} \/ Using(d)
    BY <1>0 DEF Using, Reading
  <2> QED
    BY <1>5, <1>12, <2>1, <2>2, PurgeMarks
<1>13. ASSUME NEW c \in Clients, Bump(c) PROVE ListsSettled'
  <2>1. /\ counter' = counter + 1 /\ lists' = lists /\ blockLists' = blockLists /\ read' = read
        /\ block' = block /\ kind' = kind
    BY <1>13 DEF Bump, dbVars, sessionVars
  <2>2. \A d \in Clients : read[d].under <= counter /\ read[d].under \in Nat
    BY <1>0 DEF NoneAhead, Reading, Numbers
  <2>3. \A d \in Clients : read[d].under # counter'
    BY <1>0, <2>1, <2>2
  <2>4. counter' \in Numbers
    BY <1>13, <2>1, BumpFits DEF Bump
  <2>5. lists[counter'] = None
    BY <1>0, <2>1, <2>4 DEF NoneAhead
  <2> QED
    BY <1>3, <1>4, <2>1, <2>3, <2>5 DEF ListsSettled, Using, Fetched
<1>14. ASSUME NEW c \in Clients, StartRead(c) PROVE ListsSettled'
  <2>1. UNCHANGED <<kind, counter, settled, lists, blockLists, block>>
    BY <1>14 DEF StartRead, dbVars, sessionVars, cacheVars, historyVars
  <2>2. kind # List \/ read'[c].at = "version"
    BY <1>14, StartReadEffect
  <2>3. \A d \in Clients : read[d].at \in {"none", "version"} \/ Using(d)
    BY <1>0 DEF Using, Reading
  <2> QED
    BY <1>5, <1>14, <2>1, <2>2, <2>3, StartReadEffect
<1>15. ASSUME NEW c \in Clients, Miss(c) \/ Hit(c) \/ FillFails(c) PROVE ListsSettled'
  <2>1. UNCHANGED <<kind, counter, settled, lists, blockLists, block>>
    BY <1>15 DEF Miss, Hit, FillFails, dbVars, sessionVars, cacheVars, historyVars
  <2>2. \A d \in Clients : read[d].at \in {"none", "version"} \/ Using(d)
    BY <1>0 DEF Using, Reading
  <2>3. CASE Miss(c)
    <3>1. read'[c].got = read[c].got
      BY <1>0, <2>3 DEF Miss, Advance, Reading
    <3>2. Using(c) /\ read'[c].at # "fill"
      BY <2>3, MissEffect DEF Using
    <3> QED
      BY <1>5, <2>1, <2>2, <2>3, <3>1, <3>2, MissEffect
  <2>4. CASE Hit(c) \/ FillFails(c)
    BY <1>5, <2>1, <2>2, <2>4, EndEffect DEF NoRead
  <2> QED
    BY <1>15, <2>3, <2>4
<1>16. ASSUME NEW c \in Clients, GetVersion(c) \/ GetVersionFails(c) PROVE ListsSettled'
  <2>1. UNCHANGED <<kind, counter, settled, lists, blockLists, block>>
    BY <1>16 DEF GetVersion, GetVersionFails, dbVars, sessionVars, cacheVars, historyVars
  <2>2. /\ read[c].at = "version" /\ read'[c].at = "lookup" /\ read'[c].floor = read[c].floor
        /\ read'[c].blind \/ read'[c].under = counter
        /\ \A d \in Clients \ {c} : read'[d] = read[d]
    BY <1>16, GetVersionEffect
  <2>3. \A k \in Rows : read[c].floor[k] <= settled[k] /\ read[c].floor[k] \in Nat
    <3>1. read[c].floor \in [Rows -> Nat]
      BY <1>0 DEF Reading, Numbers
    <3>2. read[c].at # "none"
      BY <2>2
    <3> QED
      BY <3>1, <3>2 DEF NoneAhead, Reader
  <2>4. \A d \in Clients : kind = List /\ Fetched(d)' => d # c /\ Fetched(d)
    BY <2>1, <2>2 DEF Fetched
  <2>5. \A d \in Clients, k \in Rows : Fetched(d) => read[d].got[k].num \in Nat
    BY <1>0 DEF Fetched, NoneAhead, Reading, Snapshot, Version, Numbers
  <2>6. \A k \in Rows : lists[counter] # None => lists[counter][k].num \in Nat
    BY <1>0 DEF Snapshot, Version, Numbers
  <2>7. \A d, e \in Clients, k \in Rows :
          kind' = List /\ Fetched(d)' /\ read'[d].under = read'[e].under /\ ~read'[e].blind /\ Using(e)'
          => read'[d].got[k].num >= read'[e].floor[k]
    <3> SUFFICES ASSUME NEW d \in Clients, NEW e \in Clients, NEW k \in Rows, kind' = List, Fetched(d)',
                        read'[d].under = read'[e].under, ~read'[e].blind, Using(e)'
                 PROVE  read'[d].got[k].num >= read'[e].floor[k]
      OBVIOUS
    <3>1. kind = List /\ d # c /\ Fetched(d) /\ read'[d] = read[d]
      BY <2>1, <2>2, <2>4
    <3>2. CASE e = c
      <4>1. read[d].under = counter
        BY <2>2, <3>1, <3>2
      <4>2. read[d].got[k].num >= settled[k]
        BY <1>1, <3>1, <4>1
      <4> QED
        BY <1>0, <2>2, <2>3, <2>5, <3>1, <3>2, <4>2
    <3>3. CASE e # c
      BY <1>3, <2>2, <3>1, <3>3 DEF Using
    <3> QED
      BY <3>2, <3>3
  <2>8. \A d \in Clients, k \in Rows :
          kind' = List /\ ~read'[d].blind /\ Using(d)'
          /\ lists'[read'[d].under] # None /\ read'[d].under \notin blockLists'
          => lists'[read'[d].under][k].num >= read'[d].floor[k]
    <3> SUFFICES ASSUME NEW d \in Clients, NEW k \in Rows, kind' = List, ~read'[d].blind, Using(d)',
                        lists'[read'[d].under] # None, read'[d].under \notin blockLists'
                 PROVE  lists'[read'[d].under][k].num >= read'[d].floor[k]
      OBVIOUS
    <3>1. CASE d = c
      <4>1. read'[d].under = counter
        BY <2>2, <3>1
      <4>2. lists[counter] # None /\ counter \notin blockLists
        BY <2>1, <4>1
      <4>3. lists[counter][k].num >= settled[k] /\ lists[counter][k].num \in Nat
        BY <1>2, <2>6, <4>2
      <4> QED
        BY <1>0, <2>1, <2>2, <2>3, <3>1, <4>1, <4>3
    <3>2. CASE d # c
      BY <1>4, <2>1, <2>2, <3>2 DEF Using
    <3> QED
      BY <3>1, <3>2
  <2>9. \A d \in Clients, k \in Rows : kind' = List /\ Fetched(d)' /\ read'[d].under = counter' =>
          read'[d].got[k].num >= settled'[k]
    BY <1>1, <2>1, <2>2, <2>4
  <2> QED
    BY <1>2, <2>1, <2>7, <2>8, <2>9 DEF ListsSettled, Using
<1>17. ASSUME NEW c \in Clients, Fetch(c) PROVE ListsSettled'
  <2>1. UNCHANGED <<kind, counter, settled, lists, blockLists, block>>
    BY <1>17 DEF Fetch, cacheVars, historyVars
  <2>2. read[c].at = "fetch" /\ \A d \in Clients \ {c} : read'[d] = read[d]
    BY <1>17, FetchEffect
  <2>3. \A d \in Clients : read[d].at \in {"none", "version"} \/ Using(d)
    BY <1>0 DEF Using, Reading
  <2>4. CASE read'[c] = NoRead
    BY <1>5, <2>1, <2>2, <2>3, <2>4 DEF NoRead
  <2>5. CASE read'[c] # NoRead
    <3>1. /\ read'[c].at = "fill" /\ read'[c].under = read[c].under
          /\ read'[c].floor = read[c].floor /\ read'[c].blind = read[c].blind
          /\ ~block[c] => \A k \in Rows : read'[c].got[k] = db[k]
      BY <1>17, <2>5, FetchEffect
    <3>2. \A k \in Rows : db[k].num \in Nat /\ settled[k] <= db[k].num /\ settled[k] \in Nat
      BY <1>0 DEF TypeOK, Versions, Snapshot, Version, Numbers
    <3>3. \A d \in Clients, k \in Rows : Using(d) => read[d].floor[k] <= settled[k] /\ read[d].floor[k] \in Nat
      BY <1>0 DEF NoneAhead, Reader, Using, Reading, Numbers
    <3>4. \A d \in Clients, k \in Rows : Using(d) => db[k].num >= read[d].floor[k]
      BY <3>2, <3>3
    <3>5. \A d \in Clients :
            /\ Using(d)' => Using(d) /\ read'[d].under = read[d].under
            /\ Using(d)' => read'[d].floor = read[d].floor /\ read'[d].blind = read[d].blind
      BY <2>2, <3>1 DEF Using
    <3>6. \A d \in Clients : Fetched(d)' => (d # c /\ Fetched(d) /\ read'[d] = read[d])
                                             \/ (d = c /\ \A k \in Rows : read'[d].got[k] = db[k])
      BY <2>1, <2>2, <3>1 DEF Fetched
    <3>7. \A d \in Clients, k \in Rows : kind' = List /\ Fetched(d)' /\ read'[d].under = counter' =>
            read'[d].got[k].num >= settled'[k]
      BY <1>1, <2>1, <3>2, <3>6
    <3>8. \A d, e \in Clients, k \in Rows :
            kind' = List /\ Fetched(d)' /\ read'[d].under = read'[e].under /\ ~read'[e].blind /\ Using(e)'
            => read'[d].got[k].num >= read'[e].floor[k]
      <4> SUFFICES ASSUME NEW d \in Clients, NEW e \in Clients, NEW k \in Rows, kind' = List, Fetched(d)',
                          read'[d].under = read'[e].under, ~read'[e].blind, Using(e)'
                   PROVE  read'[d].got[k].num >= read'[e].floor[k]
        OBVIOUS
      <4>1. Using(e) /\ read'[e].floor = read[e].floor /\ read'[e].under = read[e].under /\ ~read[e].blind
        BY <3>5
      <4>2. CASE d # c
        BY <1>3, <2>1, <2>2, <3>6, <4>1, <4>2
      <4>3. CASE d = c
        BY <3>4, <3>6, <4>1, <4>3
      <4> QED
        BY <4>2, <4>3
    <3>9. \A d \in Clients, k \in Rows :
            kind' = List /\ ~read'[d].blind /\ Using(d)'
            /\ lists'[read'[d].under] # None /\ read'[d].under \notin blockLists'
            => lists'[read'[d].under][k].num >= read'[d].floor[k]
      BY <1>4, <2>1, <3>5
    <3> QED
      BY <1>2, <2>1, <3>7, <3>8, <3>9 DEF ListsSettled, Using
  <2> QED
    BY <2>4, <2>5
<1>18. ASSUME NEW c \in Clients, Fill(c) PROVE ListsSettled'
  <2>1. UNCHANGED <<kind, counter, settled, block>> /\ read[c].at = "fill"
    BY <1>18 DEF Fill, dbVars, sessionVars, Reads
  <2>2. read'[c].at = "none" /\ \A d \in Clients \ {c} : read'[d] = read[d]
    BY <1>18, EndEffect DEF NoRead
  <2>3. CASE kind # List
    BY <2>1, <2>3, <1>5, <2>2, <1>18 DEF Fill
  <2>4. CASE kind = List
    <3>1. /\ lists' = [lists EXCEPT ![read[c].under] = read[c].got]
          /\ blockLists' = IF block[c] THEN blockLists \cup {read[c].under} ELSE blockLists \ {read[c].under}
      BY <1>18, <2>4 DEF Fill, FillVersion
    <3>2. \A d \in Clients : Fetched(d)' => d # c /\ Fetched(d) /\ read'[d] = read[d]
      BY <2>1, <2>2 DEF Fetched
    <3>3. \A d \in Clients : Using(d)' => d # c /\ Using(d) /\ read'[d] = read[d]
      BY <2>2 DEF Using
    <3>4. \A v \in Numbers : lists'[v] # None /\ v \notin blockLists' =>
            \/ v # read[c].under /\ lists'[v] = lists[v] /\ v \notin blockLists
            \/ v = read[c].under /\ lists'[v] = read[c].got /\ Fetched(c)
      BY <1>0, <2>1, <3>1 DEF Fetched
    <3>5. \A d \in Clients : read[d].under \in Numbers
      BY <1>0 DEF Reading
    <3>6. lists'[counter'] # None /\ counter' \notin blockLists' =>
            \A k \in Rows : lists'[counter'][k].num >= settled'[k]
      BY <1>0, <1>1, <1>2, <2>1, <2>4, <3>4
    <3>7. \A d \in Clients, k \in Rows :
            kind' = List /\ ~read'[d].blind /\ Using(d)'
            /\ lists'[read'[d].under] # None /\ read'[d].under \notin blockLists'
            => lists'[read'[d].under][k].num >= read'[d].floor[k]
      <4> SUFFICES ASSUME NEW d \in Clients, NEW k \in Rows, ~read'[d].blind, Using(d)',
                          lists'[read'[d].under] # None, read'[d].under \notin blockLists'
                   PROVE  lists'[read'[d].under][k].num >= read'[d].floor[k]
        OBVIOUS
      <4>1. Using(d) /\ read'[d] = read[d] /\ read[d].under \in Numbers
        BY <3>3, <3>5
      <4>2. CASE read[d].under = read[c].under
        BY <1>3, <2>4, <3>4, <4>1, <4>2
      <4>3. CASE read[d].under # read[c].under
        BY <1>4, <2>4, <3>4, <4>1, <4>3
      <4> QED
        BY <4>2, <4>3
    <3> QED
      BY <1>1, <1>3, <2>1, <3>2, <3>3, <3>6, <3>7 DEF ListsSettled, Using
  <2> QED
    BY <2>3, <2>4
<1> QED
  BY <1>7, <1>8, <1>9, <1>10, <1>11, <1>12, <1>13, <1>14, <1>15, <1>16, <1>17, <1>18
     DEF Next, Client, Invalidate, ReadStep

(* The bump of a write of row k is due, or was lost. *)
Due(k) == k \in unbumped \/ \E c \in Clients : k \in owes[c].rows

(* Every step keeps lists coherent, fetched ones and cached ones. *)
LEMMA NextListCoherent ==
  TypeOK /\ CounterBehindClock /\ Sessions /\ NoneAhead /\ FetchedListCoherent /\ CurrentListCoherent
  /\ [Next]_vars
  => FetchedListCoherent' /\ CurrentListCoherent'
<1> SUFFICES ASSUME TypeOK, CounterBehindClock, Sessions, NoneAhead, FetchedListCoherent,
                    CurrentListCoherent, [Next]_vars
             PROVE  FetchedListCoherent' /\ CurrentListCoherent'
  OBVIOUS
<1>0. /\ counter \in Numbers /\ counter \in Nat /\ read \in [Clients -> Reading]
      /\ owes \in [Clients -> Duty] /\ db \in [Rows -> Version]
      /\ lists \in [Numbers -> {None} \cup Snapshot]
      /\ tx \in [Clients -> {None} \cup Tx] /\ block \in [Clients -> BOOLEAN]
  BY ReadCacheAssumption DEF TypeOK, Numbers, ReadCacheAssumption, Snapshot
<1>1. \A c \in Clients, k \in Rows :
        kind = List /\ Fetched(c) /\ read[c].under = counter /\ read[c].got[k] # db[k] => Due(k)
  BY DEF FetchedListCoherent, Due
<1>2. lists[counter] # None /\ counter \notin blockLists =>
        \A k \in Rows : lists[counter][k] # db[k] => Due(k)
  BY DEF CurrentListCoherent, Due
(* What was due or is committed stays due; reads end or stay; entries go. *)
<1>3. ASSUME kind' = kind, counter' = counter,
             \A k \in Rows : Due(k) \/ db'[k] # db[k] => Due(k)',
             lists'[counter] = None \/ (lists'[counter] = lists[counter]
                                         /\ (counter \in blockLists => counter \in blockLists')),
             \A c \in Clients : Fetched(c)' =>
               Fetched(c) /\ read'[c].under = read[c].under /\ read'[c].got = read[c].got
      PROVE  FetchedListCoherent' /\ CurrentListCoherent'
  <2>1. \A c \in Clients, k \in Rows :
          kind' = List /\ Fetched(c)' /\ read'[c].under = counter' /\ read'[c].got[k] # db'[k] => Due(k)'
    BY <1>1, <1>3
  <2>2. lists'[counter'] # None /\ counter' \notin blockLists' =>
          \A k \in Rows : lists'[counter'][k] # db'[k] => Due(k)'
    BY <1>2, <1>3
  <2> QED
    BY <2>1, <2>2 DEF FetchedListCoherent, CurrentListCoherent, Due
<1>4. ASSUME UNCHANGED <<kind, counter, lists, blockLists, db, owes, unbumped>>,
             \A c \in Clients : Fetched(c)' =>
               Fetched(c) /\ read'[c].under = read[c].under /\ read'[c].got = read[c].got
      PROVE  FetchedListCoherent' /\ CurrentListCoherent'
  BY <1>3, <1>4 DEF Due
<1>5. CASE UNCHANGED vars
  BY <1>4, <1>5 DEF vars, dbVars, sessionVars, cacheVars, historyVars, Fetched
<1>6. CASE Expire
  <2>1. /\ kind' = kind /\ counter' = counter /\ db' = db /\ read' = read /\ block' = block
        /\ owes' = owes /\ unbumped' = unbumped
    BY <1>6 DEF Expire, ExpireList, ExpireObj, dbVars, sessionVars
  <2>2. lists'[counter] = None \/ (lists'[counter] = lists[counter]
                                         /\ (counter \in blockLists => counter \in blockLists'))
    BY <1>0, <1>6 DEF Expire, ExpireList, ExpireObj
  <2>3. \A k \in Rows : Due(k) \/ db'[k] # db[k] => Due(k)'
    BY <2>1 DEF Due
  <2>4. \A c \in Clients : Fetched(c)' => Fetched(c)
    BY <2>1 DEF Fetched
  <2> QED
    BY <1>3, <2>1, <2>2, <2>3, <2>4
<1>7. ASSUME NEW c \in Clients, EnterBlock(c) \/ Load(c) \/ Abort(c)
      PROVE  FetchedListCoherent' /\ CurrentListCoherent'
  <2>1. UNCHANGED <<kind, counter, lists, blockLists, db, owes, unbumped, read>>
    BY <1>7 DEF EnterBlock, Load, Abort, cacheVars, historyVars
  <2>2. \A d \in Clients : block'[d] = block[d] \/ read[d].at = "none"
    BY <1>0, <1>7 DEF EnterBlock, Load, Abort, Idle, EndSession
  <2> QED
    BY <1>4, <2>1, <2>2 DEF Fetched
<1>8. ASSUME NEW c \in Clients, NEW k \in Rows, Write(c, k) PROVE FetchedListCoherent' /\ CurrentListCoherent'
  BY <1>4, <1>8 DEF Write, Fetched, cacheVars, historyVars
<1>9. ASSUME NEW c \in Clients, Commit(c) PROVE FetchedListCoherent' /\ CurrentListCoherent'
  <2>1. /\ kind' = kind /\ counter' = counter /\ lists' = lists /\ blockLists' = blockLists
        /\ unbumped' = unbumped /\ read' = read /\ owes[c] = NoDuty /\ read[c].at = "none"
        /\ tx[c] # None /\ db' = [db EXCEPT ![tx[c].row] = tx[c].to] /\ EndSession(c)
    BY <1>9 DEF Commit, Idle, cacheVars, historyVars
  <2>2. PICK purge : owes' = [owes EXCEPT ![c] = [bump |-> TRUE, rows |-> {tx[c].row}, purge |-> purge]]
    BY <1>9 DEF Commit
  <2>3. owes'[c].rows = {tx[c].row} /\ \A d \in Clients \ {c} : owes'[d] = owes[d]
    BY <1>0, <2>2
  <2>4. \A k \in Rows : Due(k) \/ db'[k] # db[k] => Due(k)'
    BY <1>0, <2>1, <2>3 DEF Due, NoDuty
  <2>5. \A d \in Clients : block'[d] = block[d] \/ read[d].at = "none"
    BY <1>0, <2>1 DEF EndSession
  <2>6. \A d \in Clients : Fetched(d)' => Fetched(d)
    BY <2>1, <2>5 DEF Fetched
  <2> QED
    BY <1>3, <2>1, <2>4, <2>6
<1>10. ASSUME NEW c \in Clients, Evict(c) \/ Crash(c) \/ BumpFails(c)
       PROVE  FetchedListCoherent' /\ CurrentListCoherent'
  <2>1. UNCHANGED <<kind, counter, lists, blockLists, db, read, block>>
    BY <1>10 DEF Evict, Crash, BumpFails, dbVars, sessionVars, cacheVars, historyVars
  <2>2. CASE Evict(c)
    <3>1. owes[c] = NoDuty /\ unbumped' = unbumped /\ \A d \in Clients \ {c} : owes'[d] = owes[d]
      BY <1>0, <2>2 DEF Evict, Idle, historyVars
    <3>2. \A k \in Rows : Due(k) => Due(k)'
      BY <3>1 DEF Due, NoDuty
    <3> QED
      BY <1>3, <2>1, <3>2 DEF Fetched
  <2>3. CASE Crash(c) \/ BumpFails(c)
    <3>1. unbumped' = unbumped \cup owes[c].rows /\ \A d \in Clients \ {c} : owes'[d] = owes[d]
      BY <1>0, <2>3 DEF Crash, BumpFails
    <3>2. \A k \in Rows : Due(k) => Due(k)'
      BY <3>1 DEF Due
    <3> QED
      BY <1>3, <2>1, <3>2 DEF Fetched
  <2> QED
    BY <1>10, <2>2, <2>3
<1>11. ASSUME NEW c \in Clients, NEW k \in Rows, Purge(c, k) \/ PurgeFails(c, k)
       PROVE  FetchedListCoherent' /\ CurrentListCoherent'
  <2>1. UNCHANGED <<kind, counter, lists, blockLists, db, block, unbumped>>
    BY <1>11 DEF Purge, PurgeFails, dbVars, sessionVars, cacheVars
  <2>2. PICK missed : owes' = [owes EXCEPT ![c].purge = @ \ missed]
    BY <1>11 DEF Purge, PurgeFails
  <2>3. \A d \in Clients : owes'[d].rows = owes[d].rows
    BY <1>0, <2>2 DEF Duty
  <2>4. \A j \in Rows : Due(j) => Due(j)'
    BY <2>1, <2>3 DEF Due
  <2>5. \A d \in Clients : /\ read'[d].at = read[d].at /\ read'[d].under = read[d].under
                           /\ read'[d].got = read[d].got
    BY <1>11, PurgeMarks DEF PurgeFails
  <2> QED
    BY <1>3, <2>1, <2>4, <2>5 DEF Fetched
<1>12. ASSUME NEW c \in Clients, Bump(c) PROVE FetchedListCoherent' /\ CurrentListCoherent'
  <2>1. counter' = counter + 1 /\ lists' = lists /\ read' = read
    BY <1>12 DEF Bump
  <2>2. \A d \in Clients : read[d].under <= counter /\ read[d].under \in Nat
    BY <1>0 DEF NoneAhead, Reading, Numbers
  <2>3. \A d \in Clients : read[d].under # counter'
    BY <1>0, <2>1, <2>2
  <2>4. counter' \in Numbers
    BY <1>12, <2>1, BumpFits DEF Bump
  <2>5. lists[counter'] = None
    BY <1>0, <2>1, <2>4 DEF NoneAhead
  <2> QED
    BY <2>1, <2>3, <2>5 DEF FetchedListCoherent, CurrentListCoherent
<1>13. ASSUME NEW c \in Clients, StartRead(c) \/ GetVersion(c) \/ GetVersionFails(c) \/ Miss(c) \/ Hit(c)
                                 \/ FillFails(c)
       PROVE  FetchedListCoherent' /\ CurrentListCoherent'
  <2>1. UNCHANGED <<kind, counter, lists, blockLists, db, owes, unbumped, block>>
    BY <1>13 DEF StartRead, GetVersion, GetVersionFails, Miss, Hit, FillFails,
                 dbVars, sessionVars, cacheVars, historyVars
  <2>2. read'[c].at # "fill" /\ \A d \in Clients \ {c} : read'[d] = read[d]
    BY <1>13, StartReadEffect, GetVersionEffect, MissEffect, EndEffect DEF NoRead
  <2> QED
    BY <1>4, <2>1, <2>2 DEF Fetched
<1>14. ASSUME NEW c \in Clients, Fetch(c) PROVE FetchedListCoherent' /\ CurrentListCoherent'
  <2>1. UNCHANGED <<kind, counter, lists, blockLists, db, owes, unbumped, block>>
    BY <1>14 DEF Fetch, cacheVars, historyVars
  <2>2. \A d \in Clients : Fetched(d)' => (d # c /\ Fetched(d) /\ read'[d] = read[d])
                                          \/ (\A k \in Rows : read'[d].got[k] = db[k])
    BY <1>14, <2>1, FetchEffect DEF Fetched, NoRead
  <2>3. \A d \in Clients, k \in Rows :
          kind' = List /\ Fetched(d)' /\ read'[d].under = counter' /\ read'[d].got[k] # db'[k] => Due(k)'
    BY <1>1, <2>1, <2>2 DEF Due
  <2> QED
    BY <1>2, <2>1, <2>3 DEF FetchedListCoherent, CurrentListCoherent, Due
<1>15. ASSUME NEW c \in Clients, Fill(c) PROVE FetchedListCoherent' /\ CurrentListCoherent'
  <2>1. UNCHANGED <<kind, counter, db, owes, unbumped, block>> /\ read[c].at = "fill"
    BY <1>15 DEF Fill, dbVars, sessionVars, Reads
  <2>2. read'[c].at = "none" /\ \A d \in Clients \ {c} : read'[d] = read[d]
    BY <1>15, EndEffect DEF NoRead
  <2>3. \A d \in Clients : Fetched(d)' => Fetched(d) /\ read'[d] = read[d]
    BY <2>1, <2>2 DEF Fetched
  <2>4. CASE kind # List \/ read[c].under # counter
    <3>1. lists'[counter] = lists[counter] /\ (counter \in blockLists => counter \in blockLists')
      BY <1>0, <1>15, <2>4 DEF Fill, FillVersion
    <3> QED
      BY <1>3, <2>1, <2>3, <3>1 DEF Due
  <2>5. CASE kind = List /\ read[c].under = counter
    <3>1. /\ lists'[counter] = read[c].got
          /\ blockLists' = IF block[c] THEN blockLists \cup {counter} ELSE blockLists \ {counter}
      BY <1>0, <1>15, <2>5 DEF Fill, FillVersion
    <3>2. counter \notin blockLists' => Fetched(c)
      BY <1>0, <2>1, <3>1 DEF Fetched
    <3>3. lists'[counter'] # None /\ counter' \notin blockLists' =>
            \A k \in Rows : lists'[counter'][k] # db'[k] => Due(k)'
      BY <1>1, <2>1, <2>5, <3>1, <3>2 DEF Due
    <3>4. \A d \in Clients, k \in Rows :
            kind' = List /\ Fetched(d)' /\ read'[d].under = counter' /\ read'[d].got[k] # db'[k] => Due(k)'
      BY <1>1, <2>1, <2>3 DEF Due
    <3> QED
      BY <3>3, <3>4 DEF FetchedListCoherent, CurrentListCoherent, Due
  <2> QED
    BY <2>4, <2>5
<1> QED
  BY <1>5, <1>6, <1>7, <1>8, <1>9, <1>10, <1>11, <1>12, <1>13, <1>14, <1>15
     DEF Next, Client, Invalidate, ReadStep

-----------------------------------------------------------------------------
(* Objects.                                                                *)

(* The delete of key k is due, or was lost. *)
PurgeDue(k) == k \in unpurged \/ \E c \in Clients : k \in owes[c].purge

(* Every step keeps objects coherent, fetched ones and cached ones. *)
LEMMA NextObjectCoherent ==
  TypeOK /\ Sessions /\ NoneAhead /\ FetchedObjectCoherent /\ ObjectsCoherent /\ [Next]_vars
  => FetchedObjectCoherent' /\ ObjectsCoherent'
<1> SUFFICES ASSUME TypeOK, Sessions, NoneAhead, FetchedObjectCoherent, ObjectsCoherent, [Next]_vars
             PROVE  FetchedObjectCoherent' /\ ObjectsCoherent'
  OBVIOUS
<1>0. /\ read \in [Clients -> Reading] /\ owes \in [Clients -> Duty] /\ db \in [Rows -> Version]
      /\ objs \in [Rows -> {None} \cup Version] /\ kind \in Rows \cup {List}
      /\ tx \in [Clients -> {None} \cup Tx] /\ block \in [Clients -> BOOLEAN]
  BY DEF TypeOK, Snapshot
<1>1. /\ \A k \in Rows : objs[k] # None => objs[k].live
      /\ \A c \in Clients : kind # List /\ read[c].at = "fill" => read[c].got[kind].live
  BY DEF FetchedObjectCoherent
<1>2. \A c \in Clients :
        kind # List /\ Fetched(c) /\ ~read[c].late /\ read[c].got[kind] # db[kind] => PurgeDue(kind)
  BY DEF FetchedObjectCoherent, PurgeDue
<1>3. \A k \in Rows : objs[k] # None /\ objs[k] # db[k] =>
        k \in raced \/ k \in blockObjs \/ PurgeDue(k)
  BY DEF ObjectsCoherent, PurgeDue
<1>4. ASSUME kind' = kind,
             \A k \in Rows : objs'[k] # None =>
               /\ objs'[k] = objs[k]
               /\ k \in raced => k \in raced'
               /\ k \in blockObjs => k \in blockObjs'
               /\ PurgeDue(k) => PurgeDue(k)'
               /\ db'[k] = db[k] \/ PurgeDue(k)' \/ ~db[k].live,
             \A c \in Clients : read'[c].at = "fill" => read[c].at = "fill" /\ read'[c].got = read[c].got,
             \A c \in Clients : kind # List /\ Fetched(c)' /\ ~read'[c].late =>
               /\ Fetched(c) /\ ~read[c].late
               /\ PurgeDue(kind) => PurgeDue(kind)'
               /\ db'[kind] = db[kind] \/ PurgeDue(kind)' \/ ~db[kind].live
      PROVE  FetchedObjectCoherent' /\ ObjectsCoherent'
  <2>1. /\ \A k \in Rows : objs'[k] # None => objs'[k].live
        /\ \A c \in Clients : kind' # List /\ read'[c].at = "fill" => read'[c].got[kind'].live
    BY <1>1, <1>4
  <2>2. \A c \in Clients :
          kind' # List /\ Fetched(c)' /\ ~read'[c].late /\ read'[c].got[kind'] # db'[kind'] => PurgeDue(kind)'
    <3> SUFFICES ASSUME NEW c \in Clients, kind # List, Fetched(c)', ~read'[c].late,
                        read'[c].got[kind] # db'[kind], ~PurgeDue(kind)'
                 PROVE  FALSE
      BY <1>4
    <3>1. Fetched(c) /\ ~read[c].late /\ read'[c].got = read[c].got /\ read[c].at = "fill"
      BY <1>4 DEF Fetched
    <3>2. CASE db'[kind] = db[kind]
      BY <1>2, <1>4, <3>1, <3>2
    <3>3. CASE ~db[kind].live
      <4>1. read[c].got[kind] # db[kind]
        BY <1>1, <3>1, <3>3
      <4> QED
        BY <1>2, <1>4, <3>1, <4>1
    <3> QED
      BY <1>4, <3>2, <3>3
  <2>3. \A k \in Rows : objs'[k] # None /\ objs'[k] # db'[k] =>
          k \in raced' \/ k \in blockObjs' \/ PurgeDue(k)'
    <3> SUFFICES ASSUME NEW k \in Rows, objs'[k] # None, objs'[k] # db'[k],
                        k \notin raced', k \notin blockObjs', ~PurgeDue(k)'
                 PROVE  FALSE
      OBVIOUS
    <3>1. objs'[k] = objs[k] /\ k \notin raced /\ k \notin blockObjs /\ ~PurgeDue(k)
      BY <1>4
    <3>2. objs[k] = db[k]
      BY <1>3, <3>1
    <3>3. ~db[k].live
      BY <1>4, <3>1, <3>2
    <3> QED
      BY <1>1, <3>1, <3>2, <3>3
  <2>4. FetchedObjectCoherent'
    BY <2>1, <2>2, <1>4 DEF FetchedObjectCoherent, PurgeDue
  <2> QED
    BY <2>3, <2>4 DEF ObjectsCoherent, PurgeDue
<1>5. ASSUME UNCHANGED <<kind, objs, raced, blockObjs, db, owes, unpurged>>,
             \A c \in Clients : read'[c].at = "fill" =>
               /\ read[c].at = "fill" /\ read'[c].got = read[c].got /\ read'[c].late = read[c].late
               /\ block'[c] = block[c]
      PROVE  FetchedObjectCoherent' /\ ObjectsCoherent'
  <2>1. \A c \in Clients : Fetched(c)' /\ ~read'[c].late => Fetched(c) /\ ~read[c].late
    BY <1>5 DEF Fetched
  <2>2. \A k : PurgeDue(k)' <=> PurgeDue(k)
    BY <1>5 DEF PurgeDue
  <2> QED
    BY <1>4, <1>5, <2>1, <2>2
<1>6. CASE UNCHANGED vars
  BY <1>5, <1>6 DEF vars, dbVars, sessionVars, cacheVars, historyVars
<1>7. CASE Expire
  <2>1. UNCHANGED <<kind, db, read, block, owes, unpurged>>
    BY <1>7 DEF Expire, ExpireList, ExpireObj, dbVars, sessionVars
  <2>2. \A k \in Rows : objs'[k] # None =>
          /\ objs'[k] = objs[k]
          /\ k \in raced => k \in raced'
          /\ k \in blockObjs => k \in blockObjs'
    BY <1>0, <1>7 DEF Expire, ExpireList, ExpireObj
  <2>3. \A k : PurgeDue(k)' <=> PurgeDue(k)
    BY <2>1 DEF PurgeDue
  <2>4. \A c \in Clients : Fetched(c)' <=> Fetched(c)
    BY <2>1 DEF Fetched
  <2> QED
    BY <1>4, <2>1, <2>2, <2>3, <2>4
<1>8. ASSUME NEW c \in Clients, EnterBlock(c) \/ Load(c) \/ Abort(c)
      PROVE  FetchedObjectCoherent' /\ ObjectsCoherent'
  <2>1. UNCHANGED <<kind, objs, raced, blockObjs, db, owes, unpurged, read>>
    BY <1>8 DEF EnterBlock, Load, Abort, cacheVars, historyVars
  <2>2. \A d \in Clients : block'[d] = block[d] \/ read[d].at = "none"
    BY <1>0, <1>8 DEF EnterBlock, Load, Abort, Idle, EndSession
  <2>3. \A d \in Clients : read[d].at = "fill" => block'[d] = block[d]
    BY <2>2
  <2> QED
    BY <1>5, <2>1, <2>3
<1>9. ASSUME NEW c \in Clients, NEW k \in Rows, Write(c, k)
      PROVE  FetchedObjectCoherent' /\ ObjectsCoherent'
  BY <1>5, <1>9 DEF Write, cacheVars, historyVars
<1>10. ASSUME NEW c \in Clients, Commit(c) PROVE FetchedObjectCoherent' /\ ObjectsCoherent'
  <2>1. /\ kind' = kind /\ objs' = objs /\ raced' = raced /\ blockObjs' = blockObjs
        /\ unpurged' = unpurged /\ read' = read /\ owes[c] = NoDuty /\ read[c].at = "none"
        /\ tx[c] # None /\ db' = [db EXCEPT ![tx[c].row] = tx[c].to] /\ EndSession(c)
    BY <1>10 DEF Commit, Idle, cacheVars, historyVars
  <2>2. PICK purge \in IF db[tx[c].row].live THEN PurgedBy(tx[c].row) ELSE PurgedBy(tx[c].row) \union {{}} :
          owes' = [owes EXCEPT ![c] = [bump |-> TRUE, rows |-> {tx[c].row}, purge |-> purge]]
    BY <1>10 DEF Commit
  <2>3. owes'[c].purge = purge /\ \A d \in Clients \ {c} : owes'[d] = owes[d]
    BY <1>0, <2>2
  <2>4. \A k \in Rows : PurgeDue(k) => PurgeDue(k)'
    BY <2>1, <2>3 DEF PurgeDue, NoDuty
  <2>5. tx[c].row \in Rows
    BY <1>0, <2>1 DEF Tx
  <2>6. db[tx[c].row].live => tx[c].row \in purge
    BY <2>2, <2>5 DEF PurgedBy
  <2>7. \A k \in Rows : db'[k] = db[k] \/ PurgeDue(k)' \/ ~db[k].live
    BY <1>0, <2>1, <2>3, <2>5, <2>6 DEF PurgeDue
  <2>8. \A d \in Clients : block'[d] = block[d] \/ read[d].at = "none"
    BY <1>0, <2>1 DEF EndSession
  <2>9. \A d \in Clients : Fetched(d)' => Fetched(d)
    BY <2>1, <2>8 DEF Fetched
  <2> QED
    BY <1>0, <1>4, <2>1, <2>4, <2>7, <2>9
<1>11. ASSUME NEW c \in Clients, Evict(c) \/ Crash(c) \/ Bump(c) \/ BumpFails(c)
       PROVE  FetchedObjectCoherent' /\ ObjectsCoherent'
  <2>1. UNCHANGED <<kind, objs, raced, blockObjs, db, read, block>>
    BY <1>11 DEF Evict, Crash, Bump, BumpFails, dbVars, sessionVars, cacheVars, historyVars
  <2>2. \A k \in Rows : PurgeDue(k) => PurgeDue(k)'
    <3>1. CASE Evict(c)
      <4>1. owes[c] = NoDuty /\ unpurged' = unpurged /\ \A d \in Clients \ {c} : owes'[d] = owes[d]
        BY <1>0, <3>1 DEF Evict, Idle, historyVars
      <4> QED
        BY <4>1 DEF PurgeDue, NoDuty
    <3>2. CASE Crash(c)
      <4>1. unpurged' = unpurged \cup owes[c].purge /\ \A d \in Clients \ {c} : owes'[d] = owes[d]
        BY <1>0, <3>2 DEF Crash
      <4> QED
        BY <4>1 DEF PurgeDue
    <3>3. CASE Bump(c) \/ BumpFails(c)
      <4>1. unpurged' = unpurged /\ owes' = [owes EXCEPT ![c].bump = FALSE, ![c].rows = {}]
        BY <3>3 DEF Bump, BumpFails
      <4>2. \A d \in Clients : owes'[d].purge = owes[d].purge
        BY <1>0, <4>1 DEF Duty
      <4> QED
        BY <4>1, <4>2 DEF PurgeDue
    <3> QED
      BY <1>11, <3>1, <3>2, <3>3
  <2>3. \A d \in Clients : Fetched(d)' <=> Fetched(d)
    BY <2>1 DEF Fetched
  <2> QED
    BY <1>0, <1>4, <2>1, <2>2, <2>3
<1>12. ASSUME NEW c \in Clients, NEW k \in Rows, Purge(c, k)
       PROVE  FetchedObjectCoherent' /\ ObjectsCoherent'
  <2>1. /\ UNCHANGED <<kind, db, block>> /\ objs' = [objs EXCEPT ![k] = None]
        /\ unpurged' = unpurged \ {k} /\ raced' = raced \ {k} /\ blockObjs' = blockObjs \ {k}
        /\ owes' = [owes EXCEPT ![c].purge = @ \ {k}]
    BY <1>12 DEF Purge, dbVars, sessionVars
  <2>2. \A d \in Clients : owes'[d].purge = owes[d].purge \/ owes'[d].purge = owes[d].purge \ {k}
    BY <1>0, <2>1 DEF Duty
  <2>3. \A j \in Rows \ {k} : PurgeDue(j) => PurgeDue(j)'
    BY <2>1, <2>2 DEF PurgeDue
  <2>4. \A j \in Rows : objs'[j] # None => j # k /\ objs'[j] = objs[j]
    BY <1>0, <2>1
  <2>5. \A d \in Clients : Fetched(d)' /\ ~read'[d].late => Fetched(d) /\ ~read[d].late /\ kind # k
    BY <1>12, <2>1, PurgeMarks DEF Fetched
  <2>6. \A d \in Clients : read'[d].at = "fill" => read[d].at = "fill" /\ read'[d].got = read[d].got
    BY <1>12, PurgeMarks
  <2> QED
    BY <1>0, <1>4, <2>1, <2>3, <2>4, <2>5, <2>6
<1>13. ASSUME NEW c \in Clients, NEW k \in Rows, PurgeFails(c, k)
       PROVE  FetchedObjectCoherent' /\ ObjectsCoherent'
  <2>1. UNCHANGED <<kind, objs, raced, blockObjs, db, read, block>>
    BY <1>13 DEF PurgeFails, dbVars, sessionVars, cacheVars
  <2>2. PICK missed : unpurged' = unpurged \cup missed /\ owes' = [owes EXCEPT ![c].purge = @ \ missed]
    BY <1>13 DEF PurgeFails
  <2>3. \A d \in Clients : owes'[d].purge = owes[d].purge \/ owes'[d].purge = owes[d].purge \ missed
    BY <1>0, <2>2 DEF Duty
  <2>4. \A j \in Rows : PurgeDue(j) => PurgeDue(j)'
    BY <2>2, <2>3 DEF PurgeDue
  <2>5. \A d \in Clients : Fetched(d)' <=> Fetched(d)
    BY <2>1 DEF Fetched
  <2> QED
    BY <1>0, <1>4, <2>1, <2>4, <2>5
<1>14. ASSUME NEW c \in Clients, StartRead(c) \/ GetVersion(c) \/ GetVersionFails(c) \/ Miss(c) \/ Hit(c)
                                 \/ FillFails(c)
       PROVE  FetchedObjectCoherent' /\ ObjectsCoherent'
  <2>1. UNCHANGED <<kind, objs, raced, blockObjs, db, owes, unpurged, block>>
    BY <1>14 DEF StartRead, GetVersion, GetVersionFails, Miss, Hit, FillFails,
                 dbVars, sessionVars, cacheVars, historyVars
  <2>2. read'[c].at # "fill" /\ \A d \in Clients \ {c} : read'[d] = read[d]
    BY <1>14, StartReadEffect, GetVersionEffect, MissEffect, EndEffect DEF NoRead
  <2> QED
    BY <1>5, <2>1, <2>2
<1>15. ASSUME NEW c \in Clients, Fetch(c) PROVE FetchedObjectCoherent' /\ ObjectsCoherent'
  <2>1. UNCHANGED <<kind, objs, raced, blockObjs, db, owes, unpurged, block>>
    BY <1>15 DEF Fetch, cacheVars, historyVars
  <2>2. \A d \in Clients : read'[d].at = "fill" =>
          \/ d # c /\ read'[d] = read[d]
          \/ d = c /\ (kind # List => read'[d].got[kind].live)
             /\ (~block[d] => \A k \in Rows : read'[d].got[k] = db[k])
    BY <1>15, FetchEffect DEF NoRead
  <2>3. \A k : PurgeDue(k)' <=> PurgeDue(k)
    BY <2>1 DEF PurgeDue
  <2>4. \A d \in Clients : kind' # List /\ read'[d].at = "fill" => read'[d].got[kind'].live
    BY <1>1, <2>1, <2>2
  <2>5. \A d \in Clients :
          kind' # List /\ Fetched(d)' /\ ~read'[d].late /\ read'[d].got[kind'] # db'[kind'] => PurgeDue(kind)'
    BY <1>0, <1>2, <2>1, <2>2, <2>3 DEF Fetched
  <2>6. FetchedObjectCoherent'
    BY <1>1, <2>1, <2>4, <2>5 DEF FetchedObjectCoherent, PurgeDue
  <2> QED
    BY <1>3, <2>1, <2>6 DEF ObjectsCoherent, PurgeDue
<1>16. ASSUME NEW c \in Clients, Fill(c) PROVE FetchedObjectCoherent' /\ ObjectsCoherent'
  <2>1. UNCHANGED <<kind, db, owes, unpurged, block>> /\ read[c].at = "fill"
    BY <1>16 DEF Fill, dbVars, sessionVars, Reads
  <2>2. read'[c].at = "none" /\ \A d \in Clients \ {c} : read'[d] = read[d]
    BY <1>16, EndEffect DEF NoRead
  <2>3. \A k : PurgeDue(k)' <=> PurgeDue(k)
    BY <2>1 DEF PurgeDue
  <2>4. \A d \in Clients : read'[d].at = "fill" => d # c /\ read'[d] = read[d]
    BY <2>2
  <2>5. CASE kind = List
    <3>1. UNCHANGED <<objs, raced, blockObjs>>
      BY <1>16, <2>5 DEF Fill
    <3> QED
      BY <1>5, <2>1, <2>4, <3>1
  <2>6. CASE kind # List
    <3>1. /\ objs' = [objs EXCEPT ![kind] = read[c].got[kind]]
          /\ blockObjs' = IF block[c] THEN blockObjs \cup {kind} ELSE blockObjs \ {kind}
          /\ raced' = IF read[c].late THEN raced \cup {kind} ELSE raced \ {kind}
      BY <1>16, <2>6 DEF Fill
    <3>2. kind \in Rows
      BY <1>0, <2>6
    <3>3. \A k \in Rows : objs'[k] # None => objs'[k].live
      BY <1>0, <1>1, <2>1, <2>6, <3>1, <3>2
    <3>4. FetchedObjectCoherent'
      BY <1>1, <1>2, <2>1, <2>3, <2>4, <3>3 DEF FetchedObjectCoherent, PurgeDue, Fetched
    <3>5. \A k \in Rows : objs'[k] # None /\ objs'[k] # db'[k] =>
            k \in raced' \/ k \in blockObjs' \/ PurgeDue(k)'
      <4> SUFFICES ASSUME NEW k \in Rows, objs'[k] # None, objs'[k] # db'[k],
                          k \notin raced', k \notin blockObjs'
                   PROVE  PurgeDue(k)'
        OBVIOUS
      <4>1. CASE k = kind
        <5>1. objs'[k] = read[c].got[kind] /\ ~block[c] /\ ~read[c].late
          BY <1>0, <3>1, <3>2, <4>1
        <5> QED
          BY <1>2, <2>1, <2>3, <2>6, <4>1, <5>1 DEF Fetched
      <4>2. CASE k # kind
        BY <1>0, <1>3, <2>1, <2>3, <3>1, <4>2
      <4> QED
        BY <4>1, <4>2
    <3> QED
      BY <3>4, <3>5 DEF ObjectsCoherent, PurgeDue
  <2> QED
    BY <2>5, <2>6
<1> QED
  BY <1>6, <1>7, <1>8, <1>9, <1>10, <1>11, <1>12, <1>13, <1>14, <1>15, <1>16
     DEF Next, Client, Invalidate, ReadStep

-----------------------------------------------------------------------------
(* The invariant.                                                          *)

(* The invariant gives that queries see what was invalidated. *)
LEMMA ResultsAreSettled == TypeOK /\ ListsSettled => CleanQueriesHonourInvalidation
<1> SUFFICES ASSUME TypeOK, ListsSettled, NEW c \in Clients, ~block[c], ~read[c].blind,
                    read[c].under \notin blockLists, Returning(c) # None, NEW k \in Rows
             PROVE  Returning(c)[k].num >= read[c].floor[k]
  BY DEF CleanQueriesHonourInvalidation, AsNewAsFloor
<1>1. kind = List
  BY DEF Returning
<1>2. CASE read[c].at = "lookup"
  BY <1>1, <1>2 DEF Returning, Reads, ListsSettled
<1>3. CASE read[c].at = "fill"
  BY <1>1, <1>3 DEF Returning, Reads, ListsSettled, Fetched
<1> QED
  BY <1>1, <1>2, <1>3 DEF Returning, Reads

(* The invariant holds at the start. *)
LEMMA InitIInv == Init => IInv
<1> SUFFICES ASSUME Init PROVE IInv
  OBVIOUS
<1>1. TypeOK /\ CounterBehindClock
  BY InitTypes, InitCounter
<1>2. Sessions
  BY DEF Init, Sessions, Reader, NothingLoaded, NoRead
<1>3. Versions
  BY DEF Init, Versions
<1>4. NoneAhead
  BY DEF Init, NoneAhead, Reader, NoRead
<1>5. \A c \in Clients : read[c].at = "none"
  BY DEF Init, NoRead
<1>6. lists[counter] = None /\ \A k \in Rows : objs[k] = None
  BY Zero DEF Init
<1> QED
  BY <1>1, <1>2, <1>3, <1>4, <1>5, <1>6
     DEF IInv, ListsSettled, FetchedListCoherent, FetchedObjectCoherent, CurrentListCoherent,
         ObjectsCoherent, Fetched

(* Every step keeps the invariant. *)
LEMMA NextIInv == IInv /\ [Next]_vars => IInv'
<1> SUFFICES ASSUME IInv, [Next]_vars
             PROVE  IInv'
  OBVIOUS
<1>1. TypeOK' /\ CounterBehindClock'
  BY NextTypes, NextCounter DEF IInv
<1>2. Sessions' /\ Versions' /\ NoneAhead'
  BY NextSessions, NextVersions, NextNoneAhead DEF IInv
<1>3. ListsSettled'
  BY NextListsSettled DEF IInv
<1>4. FetchedListCoherent' /\ CurrentListCoherent'
  BY NextListCoherent DEF IInv
<1>5. FetchedObjectCoherent' /\ ObjectsCoherent'
  BY NextObjectCoherent DEF IInv
<1> QED
  BY <1>1, <1>2, <1>3, <1>4, <1>5 DEF IInv

(* The invariant holds in every reachable state. *)
LEMMA Invariance == Spec => []IInv
<1>1. Init => IInv
  BY InitIInv
<1>2. IInv /\ [Next]_vars => IInv'
  BY NextIInv
<1> QED
  BY <1>1, <1>2, PTL DEF Spec

(* Every variable keeps its type; in particular the counter of bumps never  *)
(* overtakes the writes and evictions that owe one each (ops.py, bump).     *)
THEOREM TypeCorrect == Spec => []TypeOK
<1>1. IInv => TypeOK
  BY DEF IInv
<1> QED
  BY <1>1, Invariance, PTL

(* A query outside any block that could read the counter returns rows as new *)
(* as every write whose bump had been made when it began (read_list).       *)
THEOREM QueriesSeeInvalidatedWrites == Spec => []CleanQueriesHonourInvalidation
<1>1. IInv => CleanQueriesHonourInvalidation
  BY ResultsAreSettled DEF IInv
<1> QED
  BY <1>1, Invariance, PTL

(* The result cached under the current version differs from the database only *)
(* in rows whose bump is due or lost, unless a block filled it.             *)
THEOREM CurrentListIsCoherent == Spec => []CurrentListCoherent
<1>1. IInv => CurrentListCoherent
  BY DEF IInv
<1> QED
  BY <1>1, Invariance, PTL

(* A cached object differs from its row only while the delete of its key is  *)
(* due or was lost, after a fill that raced the delete, or from a block     *)
(* (read_obj, invalidate_row, invalidate_model).                            *)
THEOREM CachedObjectsAreCoherent == Spec => []ObjectsCoherent
<1>1. IInv => ObjectsCoherent
  BY DEF IInv
<1> QED
  BY <1>1, Invariance, PTL
=============================================================================
