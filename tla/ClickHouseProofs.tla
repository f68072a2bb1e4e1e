--------------------------- MODULE ClickHouseProofs ---------------------------
(***************************************************************************)
(* The ClickHouse side, for all constants.  OneClient: tasks share one     *)
(* client of the process.  ViewIsLastWrite: a query finds what was written *)
(* last.  GeneratedFollow: tables follow the history of their generated    *)
(* migrations.  The three specifications share no state and are proved     *)
(* about one after the other.                                              *)
(***************************************************************************)
EXTENDS ChConnection, ChTable, ChMigrations, TLAPS, FiniteSetTheorems,
        NaturalsInduction, WellFoundedInduction

-----------------------------------------------------------------------------
(* The connection.                                                         *)

(* What a task connects with is the configuration, and no client is there. *)
Connecting ==
    \A t \in Tasks : task[t] \in Configs \cup {CliConfig} => task[t] = config /\ client = None

(* Who waits for the client to be closed waits for the one that is there,  *)
(* and no task asks for another.                                           *)
ClosingIsClient == closing # None => closing = client /\ Quiet

ConnectionInvariant == ConnectionTypeOK /\ OneClient /\ (~crossed => Connecting /\ ClosingIsClient)

Settings == Configs \cup {CliConfig}

(* The invariant holds before anything was connected. *)
LEMMA ConnectionStarts == ConnectionInit => ConnectionInvariant
<1> SUFFICES ASSUME ConnectionInit PROVE ConnectionInvariant
  OBVIOUS
<1> USE ConnectionAssumption DEF ConnectionAssumption, ConnectionInit
<1>1. ConnectionTypeOK
  <2>1. task \in [Tasks -> Configs \cup {CliConfig, None, "waiting"}]
    OBVIOUS
  <2>2. \A t \in Tasks : task[t] \in Configs \cup {CliConfig} <=> lock = t
    OBVIOUS
  <2>3. open \subseteq Clients /\ created \in 0..MaxClients /\ changes \in 0..MaxChanges
    OBVIOUS
  <2>4. config = None /\ client = None /\ closing = None /\ cli = None /\ lock = None
    OBVIOUS
  <2> QED BY <2>1, <2>2, <2>3, <2>4 DEF ConnectionTypeOK
<1>2. OneClient /\ Connecting /\ ClosingIsClient
  BY DEF OneClient, Connecting, ClosingIsClient
<1> QED
  BY <1>1, <1>2 DEF ConnectionInvariant

(* None is not a client. *)
LEMMA NoneIsNoClient == None \notin Clients
  BY ConnectionAssumption DEF ConnectionAssumption, Clients

(* Types, one lemma for all actions.                                       *)
LEMMA ConnectionTypesKept == ConnectionTypeOK /\ [ConnectionNext]_connectionVars => ConnectionTypeOK'
<1> SUFFICES ASSUME ConnectionTypeOK, [ConnectionNext]_connectionVars
             PROVE  ConnectionTypeOK'
  OBVIOUS
<1> USE ConnectionAssumption DEF ConnectionAssumption, ConnectionTypeOK, Clients
<1>1. ASSUME NEW t \in Tasks, Get(t) PROVE ConnectionTypeOK'
  BY <1>1 DEF Get
<1>2. ASSUME NEW t \in Tasks, Enter(t) PROVE ConnectionTypeOK'
  BY <1>2 DEF Enter, Needed
<1>3. ASSUME NEW t \in Tasks, Connect(t) PROVE ConnectionTypeOK'
  <2>1. client' \in Clients /\ open' \subseteq Clients
    BY <1>3 DEF Connect, Leave
  <2> QED BY <1>3, <2>1 DEF Connect, Leave
<1>4. ASSUME NEW t \in Tasks, ConnectFails(t) PROVE ConnectionTypeOK'
  BY <1>4 DEF ConnectFails, Leave
<1>5. ASSUME NEW t \in Tasks, GiveUp(t) PROVE ConnectionTypeOK'
  BY <1>5 DEF GiveUp
<1>6. ASSUME NEW c \in Configs, Configure(c) PROVE ConnectionTypeOK'
  BY <1>6 DEF Configure, Changed, Quiet
<1>7. CASE Dispose
  BY <1>7 DEF Dispose, Disposing, Changed, Quiet
<1>8. CASE Closed
  BY <1>8 DEF Closed, Quiet
<1>9. CASE CloseFails
  BY <1>9 DEF CloseFails
<1>10. CASE CliBegin
  BY <1>10 DEF CliBegin, Changed
<1>11. CASE CliEnd
  BY <1>11 DEF CliEnd, Disposing
<1>12. CASE UNCHANGED connectionVars
  BY <1>12 DEF connectionVars
<1> QED
  BY <1>1, <1>2, <1>3, <1>4, <1>5, <1>6, <1>7, <1>8, <1>9, <1>10, <1>11, <1>12
  DEF ConnectionNext

(* Every step of the connection keeps the invariant. *)
LEMMA ConnectionInvariantKept == ConnectionInvariant /\ [ConnectionNext]_connectionVars => ConnectionInvariant'
<1> SUFFICES ASSUME ConnectionInvariant, [ConnectionNext]_connectionVars
             PROVE  ConnectionInvariant'
  OBVIOUS
<1>a. ConnectionTypeOK'
  BY ConnectionTypesKept DEF ConnectionInvariant
<1>b. ASSUME ~crossed' PROVE OneClient' /\ Connecting' /\ ClosingIsClient'
  <2> USE ConnectionAssumption, NoneIsNoClient
      DEF ConnectionAssumption, ConnectionInvariant, ConnectionTypeOK, OneClient, Connecting, ClosingIsClient
  <2>c. ~crossed
    BY <1>b DEF ConnectionNext, connectionVars, Get, Enter, Connect, Leave, ConnectFails, GiveUp,
                Configure, Dispose, Closed, CloseFails, CliBegin, CliEnd
  <2>1. ASSUME NEW t \in Tasks, Get(t) PROVE OneClient' /\ Connecting' /\ ClosingIsClient'
    BY <2>c, <2>1 DEF Get, Quiet
  <2>2. ASSUME NEW t \in Tasks, Enter(t) PROVE OneClient' /\ Connecting' /\ ClosingIsClient'
    BY <2>c, <2>2 DEF Enter, Needed, Quiet
  <2>3. ASSUME NEW t \in Tasks, Connect(t) PROVE OneClient' /\ Connecting' /\ ClosingIsClient'
    <3>1. task[t] = config /\ client = None /\ open = {} /\ closing = None
      BY <2>c, <2>3 DEF Connect, Leave, Quiet
    <3>2. client' \in open' /\ open' = {client'} /\ client'.config = config
      BY <2>3, <3>1 DEF Connect
    <3>3. \A u \in Tasks : task'[u] \notin Settings
      BY <2>3 DEF Connect, Leave, Settings
    <3> QED BY <2>c, <2>3, <3>1, <3>2, <3>3 DEF Connect, Settings
  <2>4. ASSUME NEW t \in Tasks, ConnectFails(t) PROVE OneClient' /\ Connecting' /\ ClosingIsClient'
    BY <2>c, <2>4 DEF ConnectFails, Leave, Quiet
  <2>5. ASSUME NEW t \in Tasks, GiveUp(t) PROVE OneClient' /\ Connecting' /\ ClosingIsClient'
    BY <2>c, <2>5 DEF GiveUp, Quiet
  <2>6. ASSUME NEW c \in Configs, Configure(c) PROVE OneClient' /\ Connecting' /\ ClosingIsClient'
    BY <1>b, <2>c, <2>6 DEF Configure, Quiet
  <2>7. CASE Dispose
    BY <1>b, <2>c, <2>7 DEF Dispose, Disposing, Quiet
  <2>8. CASE Closed
    BY <1>b, <2>c, <2>8 DEF Closed, Quiet
  <2>9. CASE CloseFails
    BY <1>b, <2>9 DEF CloseFails
  <2>10. CASE CliBegin
    BY <2>c, <2>10 DEF CliBegin, Quiet, Clients
  <2>11. CASE CliEnd
    BY <2>c, <2>11 DEF CliEnd, Disposing, Quiet
  <2>12. CASE UNCHANGED connectionVars
    BY <2>c, <2>12 DEF connectionVars, Quiet
  <2> QED
    BY <2>1, <2>2, <2>3, <2>4, <2>5, <2>6, <2>7, <2>8, <2>9, <2>10, <2>11, <2>12
    DEF ConnectionNext
<1> QED
  BY <1>a, <1>b DEF ConnectionInvariant, OneClient

(* However many tasks race for the client, with timeouts and failures, the *)
(* process has one, made with the configuration it has, as long as         *)
(* configure and dispose do not meet it (crossed).                         *)
THEOREM OneClientAlways == ConnectionSpec => []OneClient
<1>1. ConnectionInit => ConnectionInvariant
  BY ConnectionStarts
<1>2. ConnectionInvariant /\ [ConnectionNext]_connectionVars => ConnectionInvariant'
  BY ConnectionInvariantKept
<1>3. ConnectionInvariant => OneClient
  BY DEF ConnectionInvariant
<1> HIDE DEF ConnectionInvariant
<1> QED
  BY <1>1, <1>2, <1>3, PTL DEF ConnectionSpec

(* Types, and that a task connects exactly while it holds the lock.        *)
THEOREM ConnectionTypes == ConnectionSpec => []ConnectionTypeOK
<1>1. ConnectionInit => ConnectionTypeOK
  BY ConnectionStarts DEF ConnectionInvariant
<1>2. ConnectionTypeOK /\ [ConnectionNext]_connectionVars => ConnectionTypeOK'
  BY ConnectionTypesKept
<1> HIDE DEF ConnectionTypeOK
<1> QED
  BY <1>1, <1>2, PTL DEF ConnectionSpec

-----------------------------------------------------------------------------
(* A table: the inductive invariant.                                       *)

(* r replaces s. *)
Newer(r, s) == r.version > s.version \/ (r.version = s.version /\ r.seq > s.seq)

StoredRow == [key : Keys, body : Bodies \cup {0}, isDeleted : BOOLEAN, deletedAt : BOOLEAN,
              version : 0..MaxTime, seq : Nat]

(* Engines that compare nothing, or _version. *)
Compared == engine \in {"soft", "replacing"}

TableFields ==
    /\ engine \in {"plain", "replacing", "soft", "versioned"}
    /\ clock \in 1..MaxTime /\ arrivals \in Nat
    /\ write \in [Writers -> Write \cup {Nothing}]
    /\ last \in [Keys -> Row \cup {Nothing}]
    /\ stored \subseteq StoredRow

(* No row is of the future, and both marks say the same. *)
Marked(r) ==
    /\ r.version <= clock /\ r.deletedAt = r.isDeleted
    /\ engine = "replacing" => r.version = 0 /\ ~r.isDeleted

(* An insert brings one row of a key. *)
Placed ==
    /\ \A r \in stored : r.seq < arrivals /\ Marked(r)
    /\ \A r, s \in stored : r.key = s.key /\ r.seq = s.seq => r = s

Writing(w, k) == \E r \in write[w].rows : r.key = k

(* A key that is alone in a write is in no other one. *)
WritesAlone ==
    \A w \in Writers : write[w] # Nothing =>
        /\ \A r \in write[w].rows : Marked(r)
        /\ \A r, s \in write[w].rows : r.key = s.key => r = s
        /\ \A k \in write[w].alone :
              /\ Writing(w, k)
              /\ \A v \in Writers \ {w} : write[v] # Nothing => ~Writing(v, k)

(* Nothing that is stored is newer than a new row that is alone. *)
Ahead ==
    Compared => \A w \in Writers : write[w] # Nothing =>
        \A r \in write[w].rows : r.key \in write[w].alone \ write[w].again =>
            \A s \in OfKey(r.key) : s.version <= r.version

(* r holds the last write and replaces every other row of the key. *)
Leads(r, k) ==
    /\ r \in OfKey(k)
    /\ r.body = last[k].body /\ r.isDeleted = last[k].isDeleted
    /\ \A s \in OfKey(k) \ {r} : Newer(r, s)

LastLeads ==
    Compared => \A k \in Keys \ contested :
        \/ last[k] = Nothing /\ OfKey(k) = {}
        \/ last[k] # Nothing /\ \E r \in OfKey(k) : Leads(r, k)
        \/ last[k] # Nothing /\ last[k].isDeleted /\ OfKey(k) = {}

TableInvariant == TableFields /\ Placed /\ WritesAlone /\ Ahead /\ LastLeads

(* What the program keeps was stored. *)
Kept == read # Nothing => read \in Row /\ Marked(read)

-----------------------------------------------------------------------------
(* Newest.                                                                 *)

(* A nonempty set of natural numbers has a smallest one. *)
LEMMA Smallest ==
    ASSUME NEW T \in SUBSET Nat, T # {}
    PROVE  \E x \in T : \A y \in T : x <= y
<1>1. PICK x \in T : \A y \in T : ~(<<y, x>> \in OpToRel(<, Nat))
  BY NatLessThanWellFounded, WFMin
<1>2. ASSUME NEW y \in T PROVE x <= y
  <2>1. x \in Nat /\ y \in Nat
    OBVIOUS
  <2>2. ~(y < x)
    BY <1>1, <2>1 DEF OpToRel
  <2>3. QED
    BY <2>1, <2>2
<1>3. QED
  BY <1>2

(* The order of rows is total where an insert brings one row of a key. *)
LEMMA NewestExists ==
    ASSUME NEW S, S # {}, S \subseteq stored, TableFields, Placed,
           \A r, s \in S : r.key = s.key
    PROVE  \E r \in S : \A s \in S \ {r} : Newer(r, s)
<1> DEFINE Ages == {MaxTime - r.version : r \in S}
<1>1. /\ MaxTime \in Nat /\ arrivals \in Nat
      /\ \A r \in S : /\ r.version \in Nat /\ r.version <= MaxTime
                      /\ r.seq \in Nat /\ r.seq < arrivals /\ r \in stored
  BY TableAssumption DEF TableFields, Placed, StoredRow
<1>2. Ages \in SUBSET Nat /\ Ages # {}
  BY <1>1
<1>3. PICK a \in Ages : \A b \in Ages : a <= b
  BY <1>2, Smallest
<1>4. PICK m \in S : a = MaxTime - m.version
  OBVIOUS
<1>5. \A r \in S : r.version <= m.version
  <2>1. SUFFICES ASSUME NEW r \in S PROVE r.version <= m.version
    OBVIOUS
  <2>2. MaxTime - m.version <= MaxTime - r.version
    BY <1>3, <1>4
  <2>3. QED
    BY <2>2, <1>1
<1> DEFINE Top  == {r \in S : r.version = m.version}
           Waits == {arrivals - r.seq : r \in Top}
<1>6. Waits \in SUBSET Nat /\ Waits # {}
  BY <1>1
<1>7. PICK c \in Waits : \A b \in Waits : c <= b
  BY <1>6, Smallest
<1>8. PICK n \in Top : c = arrivals - n.seq
  OBVIOUS
<1>9. ASSUME NEW s \in S \ {n} PROVE Newer(n, s)
  <2>1. n \in S /\ n.version = m.version /\ n.version \in Nat /\ s.version \in Nat
    BY <1>1
  <2>2. CASE s.version # m.version
    <3>1. s.version <= m.version
      BY <1>5
    <3>2. QED
      BY <2>1, <2>2, <3>1 DEF Newer
  <2>3. CASE s.version = m.version
    <3>1. arrivals - n.seq <= arrivals - s.seq
      BY <1>7, <1>8, <2>3
    <3>2. n.seq \in Nat /\ s.seq \in Nat /\ n \in stored /\ s \in stored /\ n.key = s.key
      BY <1>1, <2>1
    <3>3. n.seq # s.seq
      BY <3>2 DEF Placed
    <3>4. n.seq > s.seq
      BY <3>1, <3>2, <3>3, <1>1
    <3>5. QED
      BY <3>4, <2>1, <2>3 DEF Newer
  <2>4. QED
    BY <2>2, <2>3
<1>10. QED
  BY <1>9

(* Newest picks a row of the set that replaces all others. *)
LEMMA NewestIsNewest ==
    ASSUME NEW S, S # {}, S \subseteq stored, TableFields, Placed,
           \A r, s \in S : r.key = s.key
    PROVE  Newest(S) \in S /\ \A s \in S \ {Newest(S)} : Newer(Newest(S), s)
BY NewestExists DEF Newest, Newer

(* Two rows do not replace each other. *)
LEMMA NewerOneWay ==
    ASSUME NEW r \in stored, NEW s \in stored, TableFields, Newer(r, s)
    PROVE  ~Newer(s, r)
<1>1. r.version \in Nat /\ s.version \in Nat /\ r.seq \in Nat /\ s.seq \in Nat
  BY TableAssumption DEF TableFields, StoredRow
<1>2. QED
  BY <1>1 DEF Newer

(* The leading row is the newest of every set it is in. *)
LEMMA LeaderIsNewest ==
    ASSUME NEW k, NEW r, Leads(r, k), NEW S, r \in S, S \subseteq OfKey(k), TableFields, Placed
    PROVE  Newest(S) = r
<1>1. S \subseteq stored /\ \A x, y \in S : x.key = y.key
  BY DEF OfKey
<1>2. Newest(S) \in S /\ \A s \in S \ {Newest(S)} : Newer(Newest(S), s)
  BY <1>1, NewestIsNewest
<1>3. ASSUME Newest(S) # r PROVE FALSE
  <2>1. Newer(Newest(S), r) /\ Newer(r, Newest(S))
    BY <1>2, <1>3 DEF Leads
  <2>2. Newest(S) \in stored /\ r \in stored
    BY <1>1, <1>2
  <2>3. QED
    BY <2>1, <2>2, NewerOneWay
<1>4. QED
  BY <1>3

(* The rows that FINAL shows are stored, one of a key: its newest. *)
LEMMA CollapsedRows ==
    ASSUME TableFields, Placed
    PROVE  /\ Collapsed \subseteq stored
           /\ \A c \in Collapsed : c = Newest(OfKey(c.key))
           /\ \A r \in stored : Newest(OfKey(r.key)) \in Collapsed
<1>1. ASSUME NEW r \in stored
      PROVE  Newest(OfKey(r.key)) \in OfKey(r.key)
  <2>1. r \in OfKey(r.key) /\ OfKey(r.key) \subseteq stored
        /\ \A x, y \in OfKey(r.key) : x.key = y.key
    BY DEF OfKey
  <2>2. QED
    BY <2>1, NewestIsNewest
<1>2. QED
  BY <1>1 DEF Collapsed, OfKey

-----------------------------------------------------------------------------
(* Writes that begin.                                                      *)

(* The rows of a call of insert, delete or restore as it begins: one of a  *)
(* key, and with the time of the call if its key does not come again.      *)
Fresh(rows, again) ==
    /\ rows \subseteq Row /\ again \subseteq Keys
    /\ \A r \in rows : Marked(r)
    /\ \A r, s \in rows : r.key = s.key => r = s
    /\ Compared => \A r \in rows, s \in stored : r.key \notin again => s.version <= r.version

(* Whatever begins with such rows keeps the invariant. *)
LEMMA SendKeeps ==
    ASSUME TableInvariant, NEW w \in Writers, NEW rows, NEW again,
           Fresh(rows, again), Send(w, rows, again)
    PROVE  TableInvariant'
<1> DEFINE keys == {r.key : r \in rows}
           alone == {k \in keys : ~InProgress(k)}
<1>1. /\ write[w] = Nothing
      /\ write' = [v \in Writers |->
              IF v = w THEN [rows |-> rows, again |-> again, alone |-> alone]
              ELSE IF write[v] = Nothing THEN Nothing
              ELSE [rows |-> write[v].rows, again |-> write[v].again,
                    alone |-> write[v].alone \ keys]]
      /\ UNCHANGED <<engine, stored, clock, arrivals, last, contested>>
  BY DEF Send
<1>2. keys \subseteq Keys /\ [rows |-> rows, again |-> again, alone |-> alone] \in Write
  BY DEF Fresh, Row, Write
<1>3. \A v \in Writers : write[v] # Nothing =>
          /\ write[v] \in Write
          /\ [rows |-> write[v].rows, again |-> write[v].again,
              alone |-> write[v].alone \ keys] \in Write
  BY DEF TableInvariant, TableFields, Write
<1>4. write'[w] = [rows |-> rows, again |-> again, alone |-> alone] /\ write'[w] # Nothing
  BY <1>1, <1>2, TableAssumption
<1>5. ASSUME NEW v \in Writers \ {w}, write'[v] # Nothing
      PROVE  /\ write[v] # Nothing
             /\ write'[v].rows = write[v].rows /\ write'[v].again = write[v].again
             /\ write'[v].alone = write[v].alone \ keys
  <2>1. write[v] # Nothing
    BY <1>1, <1>5
  <2>2. write'[v] = [rows |-> write[v].rows, again |-> write[v].again,
                     alone |-> write[v].alone \ keys]
    BY <1>1, <2>1
  <2>3. QED
    BY <2>1, <2>2
<1> HIDE DEF keys, alone
<1>6. TableFields'
  BY <1>1, <1>2, <1>3 DEF TableInvariant, TableFields
<1>7. Placed'
  BY <1>1 DEF TableInvariant, Placed, Marked
<1>8. (\A r : Marked(r)' <=> Marked(r)) /\ (Compared' <=> Compared)
      /\ (\A k : OfKey(k)' = OfKey(k))
  BY <1>1 DEF Marked, Compared, OfKey
<1>9. WritesAlone'
  <2>1. SUFFICES ASSUME NEW v \in Writers, write'[v] # Nothing
                 PROVE  /\ \A r \in write'[v].rows : Marked(r)
                        /\ \A r, s \in write'[v].rows : r.key = s.key => r = s
                        /\ \A k \in write'[v].alone :
                              /\ \E r \in write'[v].rows : r.key = k
                              /\ \A u \in Writers \ {v} : write'[u] # Nothing =>
                                    ~\E r \in write'[u].rows : r.key = k
    BY <1>8 DEF WritesAlone, Writing
  <2>2. CASE v = w
    <3>1. ASSUME NEW k \in alone
          PROVE  /\ \E r \in rows : r.key = k
                 /\ \A u \in Writers \ {w} : write'[u] # Nothing =>
                       ~\E r \in write'[u].rows : r.key = k
      BY <1>5 DEF alone, keys, InProgress
    <3>2. QED
      BY <2>2, <1>4, <3>1 DEF Fresh
  <2>3. CASE v # w
    <3>1. write[v] # Nothing
          /\ write'[v].rows = write[v].rows /\ write'[v].alone = write[v].alone \ keys
      BY <2>1, <2>3, <1>5
    <3>2. ASSUME NEW k \in write'[v].alone, NEW u \in Writers \ {v}, write'[u] # Nothing
          PROVE  ~\E r \in write'[u].rows : r.key = k
      <4>1. CASE u = w
        BY <3>1, <4>1, <1>4 DEF keys
      <4>2. CASE u # w
        BY <3>1, <4>2, <3>2, <1>5 DEF TableInvariant, WritesAlone, Writing
      <4>3. QED
        BY <4>1, <4>2
    <3>3. QED
      BY <3>1, <3>2 DEF TableInvariant, WritesAlone, Writing
  <2>4. QED
    BY <2>2, <2>3
<1>10. Ahead'
  <2>1. SUFFICES ASSUME Compared, NEW v \in Writers, write'[v] # Nothing,
                        NEW r \in write'[v].rows, r.key \in write'[v].alone \ write'[v].again,
                        NEW s \in OfKey(r.key)
                 PROVE  s.version <= r.version
    BY <1>8 DEF Ahead
  <2>2. CASE v = w
    BY <2>1, <2>2, <1>4 DEF Fresh, OfKey
  <2>3. CASE v # w
    <3>1. write[v] # Nothing /\ r \in write[v].rows
          /\ r.key \in write[v].alone \ write[v].again
      BY <2>1, <2>3, <1>5
    <3>2. QED
      BY <2>1, <3>1 DEF TableInvariant, Ahead
  <2>4. QED
    BY <2>2, <2>3
<1>11. LastLeads'
  <2>1. \A r, k : Leads(r, k)' <=> Leads(r, k)
    BY <1>1, <1>8 DEF Leads, Newer
  <2>2. QED
    BY <1>1, <1>8, <2>1 DEF TableInvariant, LastLeads
<1>12. QED
  BY <1>6, <1>7, <1>9, <1>10, <1>11 DEF TableInvariant

(* Nothing stored is newer than the clock; rows of "replacing" have none.  *)
LEMMA StoredIsPast ==
    ASSUME TableInvariant, NEW s \in stored
    PROVE  s.version <= clock /\ (engine = "replacing" => s.version = 0)
BY DEF TableInvariant, Placed, Marked

(* The rows of an insert are fresh. *)
LEMMA InsertIsFresh ==
    ASSUME TableInvariant, NEW keys \in SUBSET Keys, NEW body \in Bodies
    PROVE  Fresh({NewRow(k, body) : k \in keys}, {})
<1>1. clock \in 0..MaxTime /\ clock \in Nat /\ 0 \in 0..MaxTime
  BY TableAssumption DEF TableInvariant, TableFields
<1>2. ASSUME NEW k \in keys
      PROVE  /\ NewRow(k, body) \in Row /\ NewRow(k, body).key = k
             /\ Marked(NewRow(k, body))
             /\ Compared => \A s \in stored : s.version <= NewRow(k, body).version
  <2>1. NewRow(k, body) \in Row
    BY <1>1 DEF NewRow, Row
  <2>2. Marked(NewRow(k, body))
    BY <1>1 DEF NewRow, Marked
  <2>3. ASSUME Compared, NEW s \in stored PROVE s.version <= NewRow(k, body).version
    BY <2>3, StoredIsPast, <1>1 DEF NewRow, Compared
  <2>4. QED
    BY <2>1, <2>2, <2>3 DEF NewRow
<1>3. QED
  BY <1>2 DEF Fresh

(* So are those of an insert with an instance that was read. *)
LEMMA AgainIsFresh ==
    ASSUME TableInvariant, Kept, read # Nothing, NEW keys \in SUBSET Keys, NEW body \in Bodies
    PROVE  Fresh({Again(body)} \cup {NewRow(k, body) : k \in keys \ {read.key}}, {read.key})
<1> DEFINE rest == {NewRow(k, body) : k \in keys \ {read.key}}
           rows == {Again(body)} \cup rest
<1>1. /\ Again(body) \in Row /\ Again(body).key = read.key /\ Marked(Again(body))
      /\ read.key \in Keys
  <2>1. read \in Row /\ Marked(read)
    BY DEF Kept
  <2>2. Again(body) \in Row
    BY <2>1 DEF Again, Row
  <2>3. /\ Again(body).key = read.key /\ Again(body).version = read.version
        /\ Again(body).isDeleted = read.isDeleted /\ Again(body).deletedAt = read.deletedAt
    BY <2>1 DEF Again, Row
  <2>4. QED
    BY <2>1, <2>2, <2>3 DEF Marked, Row
<1>2. Fresh(rest, {})
  BY InsertIsFresh
<1>3. \A r \in rest : r.key # read.key
  BY DEF NewRow
<1> HIDE DEF rest
<1>4. rows \subseteq Row /\ {read.key} \subseteq Keys /\ \A r \in rows : Marked(r)
  BY <1>1, <1>2 DEF Fresh
<1>5. \A r, s \in rows : r.key = s.key => r = s
  BY <1>1, <1>2, <1>3 DEF Fresh
<1>6. Compared => \A r \in rows, s \in stored : r.key \notin {read.key} => s.version <= r.version
  BY <1>1, <1>2 DEF Fresh
<1> HIDE DEF rows
<1>7. Fresh(rows, {read.key})
  BY <1>4, <1>5, <1>6 DEF Fresh
<1>8. QED
  BY <1>7 DEF rows, rest

(* A marker has the whole key, and is fresh. *)
LEMMA MarkerIsFresh ==
    ASSUME TableInvariant, Soft, NEW k \in Keys, NEW given, {1, 2} \subseteq given, NEW deleted \in BOOLEAN
    PROVE  Fresh({Marker([i \in {1, 2} |-> IF i \in given THEN k[i] ELSE 0], deleted)}, {})
<1>1. clock \in 0..MaxTime /\ clock \in Nat /\ 0 \in 0..MaxTime
  BY TableAssumption DEF TableInvariant, TableFields
<1>2. [i \in {1, 2} |-> IF i \in given THEN k[i] ELSE 0] = k
  <2>1. PICK a \in Nat, b \in Nat : k = <<a, b>>
    BY TableAssumption
  <2>2. [i \in {1, 2} |-> IF i \in given THEN k[i] ELSE 0] = [i \in {1, 2} |-> k[i]]
    OBVIOUS
  <2>3. [i \in {1, 2} |-> k[i]] = <<a, b>>
    BY <2>1
  <2>4. QED
    BY <2>1, <2>2, <2>3
<1>3. Marker(k, deleted) \in Row
  BY <1>1 DEF Marker, Row
<1>4. Marked(Marker(k, deleted))
  BY <1>1 DEF Marker, Marked, Soft
<1>5. ASSUME Compared, NEW s \in stored PROVE s.version <= Marker(k, deleted).version
  BY <1>5, StoredIsPast, <1>1 DEF Marker, Compared, Soft
<1>6. QED
  BY <1>2, <1>3, <1>4, <1>5 DEF Fresh

-----------------------------------------------------------------------------
(* Writes that end.                                                        *)

(* The row that the server stores for a row of an insert. *)
AsStored(r) ==
    [key |-> r.key, body |-> r.body, isDeleted |-> r.isDeleted, version |-> r.version,
     deletedAt |-> r.deletedAt, seq |-> arrivals]

(* What stored becomes when an insert arrives: the old rows, and one of    *)
(* the latest seq for every row of the insert.                             *)
LEMMA StoredRows ==
    ASSUME TableInvariant, NEW w \in Writers, write[w] # Nothing
    PROVE  /\ write[w].rows \subseteq Row /\ write[w].alone \subseteq Keys
           /\ Stored(w) = stored \cup {AsStored(r) : r \in write[w].rows}
           /\ Stored(w) \subseteq StoredRow
           /\ \A s \in Stored(w) : Marked(s) /\ s.seq < arrivals + 1
           /\ \A r, s \in Stored(w) : r.key = s.key /\ r.seq = s.seq => r = s
<1>1. write[w] \in Write /\ arrivals \in Nat /\ stored \subseteq StoredRow
  BY DEF TableInvariant, TableFields
<1>2. write[w].rows \subseteq Row /\ write[w].alone \subseteq Keys
  BY <1>1 DEF Write
<1>3. Stored(w) = stored \cup {AsStored(r) : r \in write[w].rows}
  BY DEF Stored, AsStored
<1>4. ASSUME NEW r \in write[w].rows
      PROVE  /\ AsStored(r) \in StoredRow /\ Marked(AsStored(r))
             /\ AsStored(r).seq = arrivals /\ AsStored(r).key = r.key
  <2>1. Marked(r) /\ r \in Row
    BY <1>2 DEF TableInvariant, WritesAlone
  <2>2. QED
    BY <1>1, <2>1 DEF AsStored, StoredRow, Row, Marked
<1>5. ASSUME NEW s \in stored PROVE Marked(s) /\ s.seq < arrivals /\ s.seq \in Nat
  BY <1>1 DEF TableInvariant, Placed, StoredRow
<1>6. ASSUME NEW s \in Stored(w) PROVE Marked(s) /\ s.seq < arrivals + 1
  BY <1>1, <1>3, <1>4, <1>5
<1>7. ASSUME NEW r \in Stored(w), NEW s \in Stored(w), r.key = s.key, r.seq = s.seq
      PROVE  r = s
  <2>1. CASE r \in stored /\ s \in stored
    BY <2>1, <1>7 DEF TableInvariant, Placed
  <2>2. CASE r \notin stored /\ s \notin stored
    <3>1. PICK p \in write[w].rows : r = AsStored(p)
      BY <1>3, <2>2
    <3>2. PICK q \in write[w].rows : s = AsStored(q)
      BY <1>3, <2>2
    <3>3. p.key = q.key
      BY <1>4, <1>7, <3>1, <3>2
    <3>4. p = q
      BY <3>3 DEF TableInvariant, WritesAlone
    <3>5. QED
      BY <3>1, <3>2, <3>4
  <2>3. CASE r \in stored /\ s \notin stored
    <3>1. PICK q \in write[w].rows : s = AsStored(q)
      BY <1>3, <2>3
    <3>2. QED
      BY <3>1, <1>1, <1>4, <1>5, <1>7, <2>3
  <2>4. CASE r \notin stored /\ s \in stored
    <3>1. PICK q \in write[w].rows : r = AsStored(q)
      BY <1>3, <2>4
    <3>2. QED
      BY <3>1, <1>1, <1>4, <1>5, <1>7, <2>4
  <2>5. QED
    BY <2>1, <2>2, <2>3, <2>4
<1>8. QED
  BY <1>1, <1>2, <1>3, <1>4, <1>6, <1>7

(* A write that ends, well or not, keeps all but LastLeads. *)
LEMMA EndKeeps ==
    ASSUME TableInvariant, NEW w \in Writers, write[w] # Nothing,
           stored' \in {stored, Stored(w)}, arrivals' = arrivals + 1,
           write' = [write EXCEPT ![w] = Nothing],
           UNCHANGED <<engine, clock>>, last' \in [Keys -> Row \cup {Nothing}]
    PROVE  TableFields' /\ Placed' /\ WritesAlone' /\ Ahead'
<1>1. /\ \A s \in stored' : s \in StoredRow /\ Marked(s) /\ s.seq < arrivals + 1
      /\ \A r, s \in stored' : r.key = s.key /\ r.seq = s.seq => r = s
      /\ \A s \in stored' : s \in stored \/ Writing(w, s.key)
  <2>1. CASE stored' = stored
    <3>1. \A s \in stored : s.seq \in Nat /\ s.seq < arrivals /\ arrivals \in Nat
      BY DEF TableInvariant, TableFields, Placed, StoredRow
    <3>2. \A s \in stored : s.seq < arrivals + 1
      BY <3>1
    <3>3. QED
      BY <2>1, <3>2 DEF TableInvariant, TableFields, Placed
  <2>2. CASE stored' = Stored(w)
    <3>1. \A s \in Stored(w) : s \in stored \/ Writing(w, s.key)
      BY StoredRows DEF AsStored, Writing
    <3>2. QED
      BY <2>2, <3>1, StoredRows
  <2>3. QED
    BY <2>1, <2>2
<1>2. /\ write'[w] = Nothing
      /\ \A v \in Writers \ {w} : write'[v] = write[v]
      /\ write' \in [Writers -> Write \cup {Nothing}]
  BY DEF TableInvariant, TableFields
<1>3. (\A r : Marked(r)' <=> Marked(r)) /\ (Compared' <=> Compared)
  BY DEF Marked, Compared
<1>4. TableFields'
  BY <1>1, <1>2 DEF TableInvariant, TableFields
<1>5. Placed'
  BY <1>1, <1>3 DEF Placed
<1>6. WritesAlone'
  <2>1. SUFFICES ASSUME NEW v \in Writers, write'[v] # Nothing
                 PROVE  /\ \A r \in write'[v].rows : Marked(r)
                        /\ \A r, s \in write'[v].rows : r.key = s.key => r = s
                        /\ \A k \in write'[v].alone :
                              /\ \E r \in write'[v].rows : r.key = k
                              /\ \A u \in Writers \ {v} : write'[u] # Nothing =>
                                    ~\E r \in write'[u].rows : r.key = k
    BY <1>3 DEF WritesAlone, Writing
  <2>2. v # w /\ write'[v] = write[v]
    BY <1>2, <2>1
  <2>3. ASSUME NEW u \in Writers, write'[u] # Nothing PROVE write'[u] = write[u]
    BY <1>2, <2>3
  <2>4. QED
    BY <2>1, <2>2, <2>3 DEF TableInvariant, WritesAlone, Writing
<1>7. Ahead'
  <2>1. SUFFICES ASSUME Compared, NEW v \in Writers, write'[v] # Nothing,
                        NEW r \in write'[v].rows, r.key \in write'[v].alone \ write'[v].again,
                        NEW s \in stored', s.key = r.key
                 PROVE  s.version <= r.version
    BY <1>3 DEF Ahead, OfKey
  <2>2. v # w /\ write'[v] = write[v]
    BY <1>2, <2>1
  <2>3. ~Writing(w, r.key)
    BY <2>1, <2>2 DEF TableInvariant, WritesAlone
  <2>4. s \in OfKey(r.key)
    BY <1>1, <2>1, <2>3 DEF OfKey
  <2>5. QED
    BY <2>1, <2>2, <2>4 DEF TableInvariant, Ahead
<1>8. QED
  BY <1>4, <1>5, <1>6, <1>7

(* Nothing changes for a key that the write does not have. *)
LEMMA OtherKeys ==
    ASSUME TableInvariant, NEW w \in Writers, write[w] # Nothing,
           stored' \in {stored, Stored(w)}, NEW k \in Keys \ KeysOf(w)
    PROVE  OfKey(k)' = OfKey(k)
BY StoredRows DEF OfKey, AsStored, KeysOf

(* The invariant survives the arrival of an insert at the server. *)
LEMMA ArriveKeeps ==
    ASSUME TableInvariant, NEW w \in Writers, Arrive(w)
    PROVE  TableInvariant'
<1>1. /\ write[w] # Nothing /\ stored' = Stored(w) /\ arrivals' = arrivals + 1
      /\ write' = [write EXCEPT ![w] = Nothing]
      /\ last' = [k \in Keys |-> IF k \in KeysOf(w) \ Overtaken(w) THEN RowFor(w, k) ELSE last[k]]
      /\ contested' = (contested \cup (KeysOf(w) \ write[w].alone))
                         \ (write[w].alone \ Overtaken(w))
      /\ UNCHANGED <<engine, clock>>
  BY DEF Arrive
<1>2. ASSUME NEW k \in KeysOf(w)
      PROVE  RowFor(w, k) \in write[w].rows /\ RowFor(w, k).key = k
  BY DEF KeysOf, RowFor
<1>3. write[w].rows \subseteq Row
  BY <1>1, StoredRows
<1>4. last' \in [Keys -> Row \cup {Nothing}]
  <2>1. \A k \in Keys : last[k] \in Row \cup {Nothing}
    BY DEF TableInvariant, TableFields
  <2>2. \A k \in KeysOf(w) : RowFor(w, k) \in Row
    BY <1>2, <1>3
  <2>3. QED
    BY <1>1, <2>1, <2>2
<1>5. TableFields' /\ Placed' /\ WritesAlone' /\ Ahead'
  BY <1>1, <1>4, EndKeeps
<1>6. LastLeads'
  <2>1. SUFFICES ASSUME Compared, NEW k \in Keys, k \notin contested'
                 PROVE  \/ last'[k] = Nothing /\ OfKey(k)' = {}
                        \/ last'[k] # Nothing /\ \E r \in OfKey(k)' : Leads(r, k)'
                        \/ last'[k] # Nothing /\ last'[k].isDeleted /\ OfKey(k)' = {}
    BY <1>1 DEF LastLeads, Compared
  <2>2. CASE k \notin KeysOf(w)
    <3>1. OfKey(k)' = OfKey(k)
      BY <2>2, <1>1, OtherKeys
    <3>2. last'[k] = last[k]
      BY <1>1, <2>2
    <3>3. k \notin contested
      <4>1. \A j \in write[w].alone : j \in KeysOf(w)
        BY <1>1 DEF TableInvariant, WritesAlone, Writing, KeysOf
      <4>2. QED
        BY <1>1, <2>1, <2>2, <4>1
    <3>4. \A r : Leads(r, k)' <=> Leads(r, k)
      BY <3>1, <3>2 DEF Leads, Newer
    <3>5. QED
      BY <2>1, <3>1, <3>2, <3>3, <3>4 DEF TableInvariant, LastLeads
  <2>3. CASE k \in KeysOf(w) /\ k \in Overtaken(w)
    <3>1. k \in write[w].alone /\ k \notin contested /\ last'[k] = last[k]
      BY <1>1, <2>1, <2>3
    <3> PICK q : q = RowFor(w, k)
      OBVIOUS
    <3>2. /\ q \in write[w].rows /\ q.key = k /\ q \in Row
          /\ \E s \in OfKey(k) : s.version > q.version
      BY <1>2, <1>3, <2>3 DEF Overtaken
    <3>3. PICK n \in OfKey(k) : last[k] # Nothing /\ Leads(n, k)
      BY <2>1, <3>1, <3>2 DEF TableInvariant, LastLeads
    <3>4. \A s \in OfKey(k) : s.version <= n.version /\ s.version \in Nat
      <4>1. \A s \in OfKey(k) : s.version \in Nat
        BY TableAssumption DEF OfKey, TableInvariant, TableFields, StoredRow
      <4>2. \A s \in OfKey(k) \ {n} : Newer(n, s)
        BY <3>3 DEF Leads
      <4>3. QED
        BY <3>3, <4>1, <4>2 DEF Newer
    <3>5. q.version < n.version /\ q.version \in Nat /\ n.version \in Nat
      <4>1. q.version \in Nat
        BY <3>2, TableAssumption DEF Row
      <4>2. QED
        BY <3>2, <3>4, <4>1
    <3>6. OfKey(k)' = OfKey(k) \cup {AsStored(q)}
      <4>1. stored' = stored \cup {AsStored(r) : r \in write[w].rows}
        BY <1>1, StoredRows
      <4>2. \A r \in write[w].rows : r.key = k <=> r = q
        BY <1>1, <3>2 DEF TableInvariant, WritesAlone
      <4>3. \A r \in write[w].rows : AsStored(r).key = r.key
        BY DEF AsStored
      <4>4. QED
        BY <3>2, <4>1, <4>2, <4>3 DEF OfKey
    <3>7. n \in OfKey(k)' /\ Newer(n, AsStored(q))
      BY <3>3, <3>5, <3>6 DEF Newer, AsStored
    <3>8. Leads(n, k)'
      BY <3>1, <3>3, <3>6, <3>7 DEF Leads, Newer
    <3>9. QED
      BY <3>1, <3>3, <3>7, <3>8
  <2>4. CASE k \in KeysOf(w) /\ k \notin Overtaken(w)
    <3>1. k \in write[w].alone
      BY <1>1, <2>1, <2>4
    <3>2. PICK q : /\ q \in write[w].rows /\ q.key = k /\ q \in Row /\ last'[k] = q
                   /\ q = RowFor(w, k)
      BY <1>1, <1>2, <1>3, <2>4
    <3> PICK n : n = AsStored(q)
      OBVIOUS
    <3>3. last'[k] # Nothing
      BY <3>2, TableAssumption
    <3>4. stored' = stored \cup {AsStored(r) : r \in write[w].rows}
      BY <1>1, StoredRows
    <3>5. n \in OfKey(k)' /\ n.body = q.body /\ n.isDeleted = q.isDeleted
          /\ n.version = q.version /\ n.seq = arrivals
      BY <3>2, <3>4 DEF OfKey, AsStored
    <3>6. ASSUME NEW s \in OfKey(k)', s # n PROVE Newer(n, s)
      <4>1. s \in stored /\ s.key = k
        <5>1. ASSUME NEW r \in write[w].rows, s = AsStored(r) PROVE FALSE
          <6>1. r.key = k
            BY <3>6, <5>1 DEF OfKey, AsStored
          <6>2. r = q
            BY <1>1, <3>2, <6>1 DEF TableInvariant, WritesAlone
          <6>3. QED
            BY <3>6, <5>1, <6>2
        <5>2. QED
          BY <3>4, <5>1 DEF OfKey
      <4>2. s.seq < arrivals /\ s.seq \in Nat /\ arrivals \in Nat
        BY <4>1 DEF TableInvariant, TableFields, Placed, StoredRow
      <4>3. s.version \in Nat /\ q.version \in Nat
        BY <4>1, <3>2, TableAssumption DEF TableInvariant, TableFields, StoredRow, Row
      <4>4. s.version <= q.version
        <5>1. s \in OfKey(k)
          BY <4>1 DEF OfKey
        <5>2. CASE k \in write[w].again
          <6>1. ~(s.version > q.version)
            BY <2>4, <3>2, <5>1, <5>2 DEF Overtaken
          <6>2. QED
            BY <4>3, <6>1
        <5>3. CASE k \notin write[w].again
          BY <1>1, <2>1, <3>1, <3>2, <5>1, <5>3 DEF TableInvariant, Ahead
        <5>4. QED
          BY <5>2, <5>3
      <4>5. QED
        BY <4>2, <4>3, <4>4, <3>5 DEF Newer
    <3>7. Leads(n, k)'
      BY <3>2, <3>5, <3>6 DEF Leads, Newer
    <3>8. QED
      BY <3>3, <3>5, <3>7
  <2>5. QED
    BY <2>2, <2>3, <2>4
<1>7. QED
  BY <1>5, <1>6 DEF TableInvariant

(* The invariant survives an insert that raises, arrived or not. *)
LEMMA FailKeeps ==
    ASSUME TableInvariant, NEW w \in Writers, Fail(w)
    PROVE  TableInvariant'
<1>1. /\ write[w] # Nothing /\ stored' \in {stored, Stored(w)} /\ arrivals' = arrivals + 1
      /\ write' = [write EXCEPT ![w] = Nothing]
      /\ contested' = contested \cup KeysOf(w)
      /\ UNCHANGED <<engine, clock, last>>
  BY DEF Fail
<1>2. TableFields' /\ Placed' /\ WritesAlone' /\ Ahead'
  <2>1. last' \in [Keys -> Row \cup {Nothing}]
    BY <1>1 DEF TableInvariant, TableFields
  <2>2. QED
    BY <1>1, <2>1, EndKeeps
<1>3. LastLeads'
  <2>1. SUFFICES ASSUME Compared, NEW k \in Keys, k \notin contested'
                 PROVE  \/ last[k] = Nothing /\ OfKey(k)' = {}
                        \/ last[k] # Nothing /\ \E r \in OfKey(k)' : Leads(r, k)'
                        \/ last[k] # Nothing /\ last[k].isDeleted /\ OfKey(k)' = {}
    BY <1>1 DEF LastLeads, Compared
  <2>2. OfKey(k)' = OfKey(k)
    BY <1>1, <2>1, OtherKeys
  <2>3. last'[k] = last[k] /\ k \notin contested
    BY <1>1, <2>1
  <2>4. \A r : Leads(r, k)' <=> Leads(r, k)
    BY <2>2, <2>3 DEF Leads, Newer
  <2>5. QED
    BY <2>1, <2>2, <2>3, <2>4 DEF TableInvariant, LastLeads
<1>4. QED
  BY <1>2, <1>3 DEF TableInvariant

-----------------------------------------------------------------------------
(* The server, and the clock.                                              *)

(* Taking rows out disturbs LastLeads alone, and that only if it takes out *)
(* the leader of a key that was not deleted.                               *)
LEMMA ShrinkKeeps ==
    ASSUME TableInvariant, stored' \subseteq stored,
           UNCHANGED <<engine, clock, write, arrivals, last, contested>>,
           \A k \in Keys, r \in stored : Compared /\ Leads(r, k) =>
              r \in stored' \/ (r.isDeleted /\ OfKey(k)' = {})
    PROVE  TableInvariant'
<1>1. (\A r : Marked(r)' <=> Marked(r)) /\ (Compared' <=> Compared)
      /\ (\A k : OfKey(k)' \subseteq OfKey(k)) /\ (\A w, k : Writing(w, k)' <=> Writing(w, k))
  BY DEF Marked, Compared, OfKey, Writing
<1>2. TableFields' /\ Placed' /\ WritesAlone' /\ Ahead'
  <2>1. TableFields'
    BY DEF TableInvariant, TableFields
  <2>2. Placed'
    BY <1>1 DEF TableInvariant, Placed
  <2>3. WritesAlone'
    BY <1>1 DEF TableInvariant, WritesAlone
  <2>4. Ahead'
    BY <1>1 DEF TableInvariant, Ahead
  <2>5. QED
    BY <2>1, <2>2, <2>3, <2>4
<1>3. LastLeads'
  <2>1. SUFFICES ASSUME Compared, NEW k \in Keys, k \notin contested
                 PROVE  \/ last[k] = Nothing /\ OfKey(k)' = {}
                        \/ last[k] # Nothing /\ \E r \in OfKey(k)' : Leads(r, k)'
                        \/ last[k] # Nothing /\ last[k].isDeleted /\ OfKey(k)' = {}
    BY <1>1 DEF LastLeads
  <2>2. CASE OfKey(k) = {}
    BY <1>1, <2>1, <2>2 DEF TableInvariant, LastLeads
  <2>3. CASE OfKey(k) # {}
    <3>1. last[k] # Nothing
      BY <2>1, <2>3 DEF TableInvariant, LastLeads
    <3>2. PICK r \in OfKey(k) : Leads(r, k)
      BY <2>1, <2>3 DEF TableInvariant, LastLeads
    <3>3. CASE r \in stored'
      <4>1. r \in OfKey(k)'
        BY <3>2, <3>3 DEF OfKey
      <4>2. Leads(r, k)'
        BY <1>1, <3>2, <4>1 DEF Leads, Newer
      <4>3. QED
        BY <3>1, <4>1, <4>2
    <3>4. CASE r.isDeleted /\ OfKey(k)' = {}
      BY <3>1, <3>2, <3>4 DEF Leads
    <3>5. QED
      BY <2>1, <3>2, <3>3, <3>4 DEF OfKey
  <2>4. QED
    BY <2>2, <2>3
<1>4. QED
  BY <1>2, <1>3 DEF TableInvariant

(* A merge keeps the leader, if it touches it. *)
LEMMA MergeKeeps ==
    ASSUME TableInvariant, Merge
    PROVE  TableInvariant'
<1>1. UNCHANGED <<engine, clock, write, arrivals, last, contested>>
  BY DEF Merge
<1>2. PICK S \in SUBSET stored : /\ Cardinality(S) > 1 /\ \E k \in Keys : S \subseteq OfKey(k)
                                 /\ stored' = (stored \ S) \cup {Newest(S)}
  BY DEF Merge
<1>3. PICK j \in Keys : S \subseteq OfKey(j)
  BY <1>2
<1>4. S # {}
  BY <1>2, FS_EmptySet
<1>5. Newest(S) \in S
  <2>1. \A r, s \in S : r.key = s.key
    BY <1>3 DEF OfKey
  <2>2. QED
    BY <1>4, <2>1, NewestIsNewest DEF TableInvariant
<1>6. ASSUME NEW k \in Keys, NEW r \in stored, Leads(r, k) PROVE r \in stored'
  <2>1. CASE r \notin S
    BY <1>2, <2>1
  <2>2. CASE r \in S
    <3>1. S \subseteq OfKey(k)
      BY <1>3, <1>6, <2>2 DEF OfKey, Leads
    <3>2. Newest(S) = r
      BY <1>6, <2>2, <3>1, LeaderIsNewest DEF TableInvariant
    <3>3. QED
      BY <1>2, <3>2
  <2>3. QED
    BY <2>1, <2>2
<1>7. stored' \subseteq stored
  BY <1>2, <1>5
<1>8. QED
  BY <1>1, <1>6, <1>7, ShrinkKeeps

(* Cleanup keeps the leaders that are not deleted, and no row of the       *)
(* other keys whose leader is known.                                       *)
LEMMA CleanupKeeps ==
    ASSUME TableInvariant, Cleanup
    PROVE  TableInvariant'
<1>1. /\ stored' = {r \in Collapsed : ~r.isDeleted}
      /\ UNCHANGED <<engine, clock, write, arrivals, last, contested>>
  BY DEF Cleanup
<1>2. TableFields /\ Placed
  BY DEF TableInvariant
<1>3. stored' \subseteq stored
  BY <1>1, <1>2, CollapsedRows
<1>4. ASSUME NEW k \in Keys, NEW r \in stored, Leads(r, k)
      PROVE  r \in stored' \/ (r.isDeleted /\ OfKey(k)' = {})
  <2>1. r \in OfKey(k) /\ r.key = k
    BY <1>4 DEF Leads, OfKey
  <2>2. Newest(OfKey(k)) = r
    BY <1>2, <1>4, <2>1, LeaderIsNewest
  <2>3. r \in Collapsed /\ \A c \in Collapsed : c.key = k => c = r
    BY <1>2, <2>1, <2>2, CollapsedRows
  <2>4. CASE r.isDeleted
    BY <1>1, <2>3, <2>4 DEF OfKey
  <2>5. CASE ~r.isDeleted
    BY <1>1, <2>3, <2>5
  <2>6. QED
    BY <2>4, <2>5
<1>5. QED
  BY <1>1, <1>3, <1>4, ShrinkKeeps

(* Time only makes more versions past. *)
LEMMA TickKeeps ==
    ASSUME TableInvariant, Tick
    PROVE  TableInvariant'
<1>1. /\ clock < MaxTime /\ clock' = clock + 1
      /\ UNCHANGED <<engine, stored, write, arrivals, last, contested>>
  BY DEF Tick
<1>2. MaxTime \in Nat /\ clock \in 1..MaxTime
  BY TableAssumption DEF TableInvariant, TableFields
<1>3. \A r : r.version \in 0..MaxTime /\ Marked(r) => Marked(r)'
  BY <1>1, <1>2 DEF Marked
<1>4. TableFields'
  BY <1>1, <1>2 DEF TableInvariant, TableFields
<1>5. Placed'
  <2>1. \A r \in stored : r.version \in 0..MaxTime
    BY DEF TableInvariant, TableFields, StoredRow
  <2>2. QED
    BY <1>1, <1>3, <2>1 DEF TableInvariant, Placed
<1>6. WritesAlone'
  <2>1. ASSUME NEW w \in Writers, write[w] # Nothing, NEW r \in write[w].rows
        PROVE  r.version \in 0..MaxTime
    <3>1. write[w] \in Write
      BY <2>1 DEF TableInvariant, TableFields
    <3>2. QED
      BY <2>1, <3>1 DEF Write, Row
  <2>2. \A w, k : Writing(w, k)' <=> Writing(w, k)
    BY <1>1 DEF Writing
  <2>3. QED
    BY <1>1, <1>3, <2>1, <2>2 DEF TableInvariant, WritesAlone
<1>7. Ahead'
  BY <1>1 DEF TableInvariant, Ahead, Compared, OfKey
<1>8. LastLeads'
  <2>1. (Compared' <=> Compared) /\ (\A k : OfKey(k)' = OfKey(k))
        /\ (\A r, k : Leads(r, k)' <=> Leads(r, k))
    BY <1>1 DEF Compared, OfKey, Leads, Newer
  <2>2. QED
    BY <1>1, <2>1 DEF TableInvariant, LastLeads
<1>9. QED
  BY <1>4, <1>5, <1>6, <1>7, <1>8 DEF TableInvariant

-----------------------------------------------------------------------------
(* The specification.                                                      *)

(* The invariant holds of the empty table. *)
LEMMA TableStarts ==
    ASSUME TableInit
    PROVE  TableInvariant
<1>1. TableFields
  BY TableAssumption DEF TableInit, TableFields
<1>2. Placed /\ WritesAlone /\ Ahead
  BY DEF TableInit, Placed, WritesAlone, Ahead
<1>3. LastLeads
  BY DEF TableInit, LastLeads, OfKey
<1>4. QED
  BY <1>1, <1>2, <1>3 DEF TableInvariant

(* What is kept of a query was stored; a later time does not change it. *)
LEMMA ReadIsKept ==
    ASSUME TableInvariant, Kept, [TableNext]_tableVars
    PROVE  Kept'
<1>1. CASE read' \in {read, Nothing} /\ engine' = engine /\ clock' = clock
  BY <1>1 DEF Kept, Marked
<1>2. CASE Tick
  <2>1. clock \in Nat /\ (read # Nothing => read.version \in Nat)
    BY TableAssumption DEF TableInvariant, TableFields, Kept, Row
  <2>2. clock' = clock + 1 /\ read' = read /\ engine' = engine
    BY <1>2 DEF Tick
  <2>3. QED
    BY <2>1, <2>2 DEF Kept, Marked
<1>3. CASE Read
  <2>1. PICK r \in stored :
           read' = [key |-> r.key, body |-> r.body, isDeleted |-> r.isDeleted,
                    deletedAt |-> r.deletedAt, version |-> r.version]
    BY <1>3 DEF Read, Selected, WithDeleted
  <2>2. r \in StoredRow /\ Marked(r) /\ engine' = engine /\ clock' = clock
    BY <1>3 DEF Read, TableInvariant, TableFields, Placed
  <2>3. read' \in Row
    BY <2>1, <2>2 DEF StoredRow, Row
  <2>4. /\ read'.version = r.version /\ read'.isDeleted = r.isDeleted
        /\ read'.deletedAt = r.deletedAt
    BY <2>1
  <2>5. QED
    BY <2>2, <2>3, <2>4 DEF Kept, Marked
<1>4. QED
  BY <1>1, <1>2, <1>3 DEF TableNext, Insert, Delete, Restore, Mark, Send, Arrive, Fail,
     Cleanup, Merge, tableVars

(* An insert sends fresh rows, some of them again or none. *)
LEMMA InsertSends ==
    ASSUME TableInvariant, Kept, NEW w \in Writers, Insert(w)
    PROVE  \E rows, again : Fresh(rows, again) /\ Send(w, rows, again)
<1>1. PICK keys \in SUBSET Keys, body \in Bodies :
        \/ Send(w, {NewRow(k, body) : k \in keys}, {})
        \/ /\ read # Nothing
           /\ Send(w, {Again(body)} \cup {NewRow(k, body) : k \in keys \ {read.key}}, {read.key})
  BY DEF Insert
<1>2. CASE Send(w, {NewRow(k, body) : k \in keys}, {})
  BY <1>2, InsertIsFresh
<1>3. CASE /\ read # Nothing
           /\ Send(w, {Again(body)} \cup {NewRow(k, body) : k \in keys \ {read.key}}, {read.key})
  BY <1>3, AgainIsFresh
<1>4. QED
  BY <1>1, <1>2, <1>3

(* Every step of the table keeps the invariant. *)
LEMMA TableInvariantKept ==
    ASSUME TableInvariant, Kept, [TableNext]_tableVars
    PROVE  TableInvariant'
<1>1. ASSUME NEW w \in Writers, Insert(w) PROVE TableInvariant'
  BY <1>1, InsertSends, SendKeeps
<1>2. ASSUME NEW w \in Writers, NEW deleted \in BOOLEAN, Mark(w, deleted) PROVE TableInvariant'
  <2>1. PICK k \in Keys, given \in SUBSET {1, 2} :
          /\ {1, 2} \subseteq given
          /\ Send(w, {Marker([i \in {1, 2} |-> IF i \in given THEN k[i] ELSE 0], deleted)}, {})
    BY <1>2 DEF Mark
  <2>2. Soft
    BY <1>2 DEF Mark
  <2>3. QED
    BY <2>1, <2>2, MarkerIsFresh, SendKeeps
<1>3. ASSUME NEW w \in Writers, Delete(w) \/ Restore(w) PROVE TableInvariant'
  BY <1>2, <1>3 DEF Delete, Restore
<1>4. ASSUME NEW w \in Writers, Arrive(w) PROVE TableInvariant'
  BY <1>4, ArriveKeeps
<1>5. ASSUME NEW w \in Writers, Fail(w) PROVE TableInvariant'
  BY <1>5, FailKeeps
<1>6. CASE UNCHANGED tableVars
  <2>1. UNCHANGED <<engine, stored, clock, write, arrivals, last, contested>>
    BY <1>6 DEF tableVars
  <2>2. QED
    BY <2>1, ShrinkKeeps
<1>7. ASSUME Read PROVE TableInvariant'
  <2>1. UNCHANGED <<engine, stored, clock, write, arrivals, last, contested>>
    BY <1>7 DEF Read
  <2>2. QED
    BY <2>1, ShrinkKeeps
<1>8. QED
  BY <1>1, <1>3, <1>4, <1>5, <1>6, <1>7, CleanupKeeps, MergeKeeps, TickKeeps DEF TableNext

-----------------------------------------------------------------------------
(* What queries find.                                                      *)

(* FINAL shows the rows that are not deleted: the two filters agree. *)
LEMMA FinalRows ==
    ASSUME TableInvariant
    PROVE  Selected(Final(DefaultQuerySet)) = {c \in Collapsed : ~c.isDeleted}
<1>1. Final(DefaultQuerySet).final = TRUE /\ Final(DefaultQuerySet).deleted = "exclude"
  BY DEF Final, DefaultQuerySet
<1>2. \A c \in Collapsed : c \in stored
  BY CollapsedRows DEF TableInvariant
<1>3. \A c \in Collapsed : c.deletedAt = c.isDeleted /\ c.isDeleted \in BOOLEAN
  BY <1>2 DEF TableInvariant, TableFields, Placed, Marked, StoredRow
<1>4. Selected(Final(DefaultQuerySet)) =
          {r \in {c \in Collapsed : ~c.isDeleted} : ~Soft \/ r.deletedAt = FALSE}
  BY <1>1 DEF Selected
<1>5. QED
  BY <1>3, <1>4

(* Querysets of a model with soft delete ask for FINAL themselves. *)
LEMMA SoftIsFinal ==
    ASSUME Soft
    PROVE  Final(DefaultQuerySet) = DefaultQuerySet
<1>1. Soft = TRUE
  BY DEF Soft
<1>2. DefaultQuerySet = [deleted |-> "exclude", final |-> TRUE]
  BY <1>1 DEF DefaultQuerySet
<1>3. \A b : [[deleted |-> "exclude", final |-> b] EXCEPT !.final = b]
                = [deleted |-> "exclude", final |-> b]
  OBVIOUS
<1>4. QED
  BY <1>2, <1>3, Zenon DEF Final

(* with_deleted() and only_deleted() read the stored rows. *)
LEMMA StoredRowsFound ==
    /\ Selected(WithDeleted) = stored
    /\ Selected(OnlyDeleted) \subseteq stored
<1>1. WithDeleted.final = FALSE /\ WithDeleted.deleted = "include" /\ OnlyDeleted.final = FALSE
  BY DEF WithDeleted, OnlyDeleted
<1>2. QED
  BY <1>1 DEF Selected

(* What FINAL finds of a key whose last write is known. *)
LEMMA FoundIsLast ==
    ASSUME TableInvariant, Compared, NEW k \in Keys \ contested
    PROVE  LET found == GetOrNone(Final(DefaultQuerySet), k)
           IN  IF last[k] = Nothing \/ last[k].isDeleted THEN found = {}
               ELSE Cardinality(found) = 1 /\ \A r \in found : r.body = last[k].body
<1> DEFINE found == GetOrNone(Final(DefaultQuerySet), k)
<1>1. found = {c \in Collapsed : ~c.isDeleted /\ c.key = k}
  BY FinalRows DEF GetOrNone
<1>2. TableFields /\ Placed
  BY DEF TableInvariant
<1>3. CASE OfKey(k) = {}
  <2>1. found = {}
    BY <1>1, <1>2, <1>3, CollapsedRows DEF OfKey
  <2>2. last[k] = Nothing \/ last[k].isDeleted
    BY <1>3 DEF TableInvariant, LastLeads
  <2>3. QED
    BY <2>1, <2>2
<1>4. CASE OfKey(k) # {}
  <2>1. PICK r \in OfKey(k) : last[k] # Nothing /\ Leads(r, k)
    BY <1>4 DEF TableInvariant, LastLeads
  <2>2. Newest(OfKey(k)) = r
    BY <1>2, <2>1, LeaderIsNewest
  <2>3. r \in stored /\ r.key = k
    BY <2>1 DEF OfKey
  <2>4. r \in Collapsed /\ \A c \in Collapsed : c.key = k => c = r
    BY <1>2, <2>2, <2>3, CollapsedRows
  <2>5. r.body = last[k].body /\ r.isDeleted = last[k].isDeleted
    BY <2>1 DEF Leads
  <2>6. CASE last[k].isDeleted
    BY <1>1, <2>4, <2>5, <2>6
  <2>7. CASE ~last[k].isDeleted
    <3>1. found = {r}
      BY <1>1, <2>3, <2>4, <2>5, <2>7
    <3>2. Cardinality(found) = 1
      BY <3>1, FS_Singleton
    <3>3. QED
      BY <2>1, <2>5, <2>7, <3>1, <3>2
  <2>8. QED
    BY <2>6, <2>7
<1>5. QED
  BY <1>3, <1>4

(* FINAL shows at most one row of a key. *)
LEMMA CountIsBounded ==
    ASSUME TableInvariant, Soft
    PROVE  Count(DefaultQuerySet) <= Cardinality(Keys)
<1> DEFINE S == Selected(DefaultQuerySet)
           f == [c \in S |-> c.key]
<1>1. S \subseteq Collapsed
  BY FinalRows, SoftIsFinal
<1>2. \A c \in S : c.key \in Keys /\ c = Newest(OfKey(c.key))
  BY <1>1, CollapsedRows DEF TableInvariant, TableFields, StoredRow
<1> HIDE DEF S
<1>3. f \in [S -> Keys] /\ \A a, b \in S : f[a] = f[b] => a = b
  BY <1>2
<1>4. f \in Injection(S, Keys)
  BY <1>3 DEF Injection, IsInjective
<1>5. IsFiniteSet(Keys)
  BY TableAssumption
<1>6. Cardinality(S) <= Cardinality(Keys)
  BY <1>4, <1>5, FS_Injection
<1>7. QED
  BY <1>6 DEF Count, S

(* The invariant gives the property: what a view shows is the last write. *)
LEMMA ViewFollows ==
    ASSUME TableInvariant
    PROVE  ViewIsLastWrite
<1>1. SUFFICES ASSUME NEW k \in Keys \ contested
      PROVE  LET found == GetOrNone(Final(DefaultQuerySet), k)
                 kept  == GetOrNone(WithDeleted, k)
             IN /\ engine \in {"soft", "replacing"} =>
                      IF last[k] = Nothing \/ last[k].isDeleted THEN found = {}
                      ELSE Cardinality(found) = 1 /\ \A r \in found : r.body = last[k].body
                /\ engine = "soft" =>
                      /\ found = GetOrNone(DefaultQuerySet, k)
                      /\ found \cup GetOrNone(OnlyDeleted, k) \subseteq kept
                      /\ last[k] # Nothing /\ ~Exists(WithDeleted) => last[k].isDeleted
                      /\ Count(DefaultQuerySet) <= Cardinality(Keys)
  BY DEF ViewIsLastWrite
<1>2. ASSUME engine = "soft"
      PROVE  /\ GetOrNone(Final(DefaultQuerySet), k) = GetOrNone(DefaultQuerySet, k)
             /\ GetOrNone(Final(DefaultQuerySet), k) \cup GetOrNone(OnlyDeleted, k)
                   \subseteq GetOrNone(WithDeleted, k)
             /\ last[k] # Nothing /\ ~Exists(WithDeleted) => last[k].isDeleted
             /\ Count(DefaultQuerySet) <= Cardinality(Keys)
  <2>1. Soft /\ Compared
    BY <1>2 DEF Soft, Compared
  <2>2. GetOrNone(Final(DefaultQuerySet), k) = GetOrNone(DefaultQuerySet, k)
    BY <2>1, SoftIsFinal
  <2>3. Selected(Final(DefaultQuerySet)) \subseteq stored
    BY FinalRows, CollapsedRows DEF TableInvariant
  <2>4. GetOrNone(Final(DefaultQuerySet), k) \cup GetOrNone(OnlyDeleted, k)
           \subseteq GetOrNone(WithDeleted, k)
    BY <2>3, StoredRowsFound DEF GetOrNone
  <2>5. ASSUME last[k] # Nothing, ~Exists(WithDeleted) PROVE last[k].isDeleted
    <3>1. OfKey(k) = {}
      BY <2>5, StoredRowsFound DEF Exists, OfKey
    <3>2. QED
      BY <2>1, <2>5, <3>1 DEF TableInvariant, LastLeads
  <2>6. QED
    BY <2>1, <2>2, <2>4, <2>5, CountIsBounded
<1>3. QED
  BY <1>2, FoundIsLast DEF Compared

(* A query finds of every key what was written last: the property          *)
(* ViewIsLastWrite, for any number of writers and keys, under every merge  *)
(* and cleanup (clickhouse/repository.py, clickhouse/query.py).            *)
THEOREM ViewsShowTheLastWrite == TableSpec => []ViewIsLastWrite
<1>1. TableInit => TableInvariant /\ Kept
  BY TableStarts DEF TableInit, Kept
<1>2. (TableInvariant /\ Kept) /\ [TableNext]_tableVars => (TableInvariant /\ Kept)'
  BY TableInvariantKept, ReadIsKept
<1>3. TableInvariant => ViewIsLastWrite
  BY ViewFollows
<1>4. QED
  BY <1>1, <1>2, <1>3, PTL DEF TableSpec

-----------------------------------------------------------------------------
(* Counts of inserts.                                                      *)

(* Every insert that arrives or fails was counted when it began. *)
Busy == {w \in Writers : write[w] # Nothing}

Counted ==
    /\ writes \in Nat /\ IsFiniteSet(Busy)
    /\ arrivals + Cardinality(Busy) <= writes

(* An insert is counted when it is sent. *)
LEMMA SendCounts ==
    ASSUME TableInvariant, Counted, NEW w \in Writers, NEW rows, NEW again,
           Fresh(rows, again), Send(w, rows, again)
    PROVE  Counted'
<1> DEFINE keys == {r.key : r \in rows}
           alone == {k \in keys : ~InProgress(k)}
<1>1. /\ write[w] = Nothing /\ writes' = writes + 1 /\ arrivals' = arrivals
      /\ write' = [v \in Writers |->
              IF v = w THEN [rows |-> rows, again |-> again, alone |-> alone]
              ELSE IF write[v] = Nothing THEN Nothing
              ELSE [rows |-> write[v].rows, again |-> write[v].again,
                    alone |-> write[v].alone \ keys]]
  BY DEF Send
<1>2. [rows |-> rows, again |-> again, alone |-> alone] \in Write
  BY DEF Fresh, Row, Write
<1>3. \A v \in Writers : write[v] # Nothing =>
          [rows |-> write[v].rows, again |-> write[v].again,
           alone |-> write[v].alone \ keys] \in Write
  BY DEF TableInvariant, TableFields, Write
<1> HIDE DEF keys, alone
<1>4. Busy' = Busy \cup {w}
  BY <1>1, <1>2, <1>3, TableAssumption DEF Busy
<1>5. w \notin Busy /\ IsFiniteSet(Busy)
  BY <1>1 DEF Busy, Counted
<1>6. IsFiniteSet(Busy') /\ Cardinality(Busy') = Cardinality(Busy) + 1
  BY <1>4, <1>5, FS_AddElement
<1>7. arrivals \in Nat /\ Cardinality(Busy) \in Nat
  BY <1>5, FS_CardinalityType DEF TableInvariant, TableFields
<1>8. QED
  BY <1>1, <1>6, <1>7 DEF Counted

(* An insert that arrives or raises is one of those counted. *)
LEMMA EndCounts ==
    ASSUME TableInvariant, Counted, NEW w \in Writers, write[w] # Nothing,
           arrivals' = arrivals + 1, writes' = writes, write' = [write EXCEPT ![w] = Nothing]
    PROVE  Counted'
<1>1. Busy' = Busy \ {w}
  BY DEF Busy, TableInvariant, TableFields
<1>2. w \in Busy /\ IsFiniteSet(Busy)
  BY DEF Busy, Counted
<1>3. IsFiniteSet(Busy') /\ Cardinality(Busy') = Cardinality(Busy) - 1
  BY <1>1, <1>2, FS_RemoveElement
<1>4. arrivals \in Nat /\ Cardinality(Busy) \in Nat
  BY <1>2, FS_CardinalityType DEF TableInvariant, TableFields
<1>5. QED
  BY <1>3, <1>4 DEF Counted

(* TableFields of the table and its writers, and that no more inserts arrive     *)
(* than insert, bulk_insert, delete and restore have sent.                 *)
THEOREM TableTypes == TableSpec => []TableTypeOK
<1>1. TableInit => TableInvariant /\ Kept /\ Counted
  <2> SUFFICES ASSUME TableInit PROVE Counted
    BY TableStarts DEF TableInit, Kept
  <2>1. Busy = {}
    BY DEF TableInit, Busy
  <2>2. QED
    BY <2>1, FS_EmptySet DEF TableInit, Counted
<1>2. (TableInvariant /\ Kept /\ Counted) /\ [TableNext]_tableVars
      => (TableInvariant /\ Kept /\ Counted)'
  <2> SUFFICES ASSUME TableInvariant, Kept, Counted, [TableNext]_tableVars PROVE Counted'
    BY TableInvariantKept, ReadIsKept
  <2>1. ASSUME NEW w \in Writers, Insert(w) PROVE Counted'
    BY <2>1, InsertSends, SendCounts
  <2>2. ASSUME NEW w \in Writers, NEW deleted \in BOOLEAN, Mark(w, deleted) PROVE Counted'
    <3>1. PICK k \in Keys, given \in SUBSET {1, 2} :
            /\ {1, 2} \subseteq given
            /\ Send(w, {Marker([i \in {1, 2} |-> IF i \in given THEN k[i] ELSE 0], deleted)}, {})
      BY <2>2 DEF Mark
    <3>2. Soft
      BY <2>2 DEF Mark
    <3>3. QED
      BY <3>1, <3>2, MarkerIsFresh, SendCounts
  <2>3. ASSUME NEW w \in Writers, Delete(w) \/ Restore(w) PROVE Counted'
    BY <2>2, <2>3 DEF Delete, Restore
  <2>4. ASSUME NEW w \in Writers, Arrive(w) \/ Fail(w) PROVE Counted'
    BY <2>4, EndCounts DEF Arrive, Fail
  <2>5. CASE UNCHANGED <<write, writes, arrivals>>
    BY <2>5 DEF Counted, Busy
  <2>6. QED
    BY <2>1, <2>3, <2>4, <2>5 DEF TableNext, Read, Cleanup, Merge, Tick, tableVars
<1>3. TableInvariant /\ Kept /\ Counted => TableTypeOK
  <2> SUFFICES ASSUME TableInvariant, Kept, Counted PROVE TableTypeOK
    OBVIOUS
  <2>1. \A r \in stored : r.seq < arrivals /\ \A s \in stored : r.seq = s.seq /\ r.key = s.key => r = s
    BY DEF TableInvariant, Placed
  <2>2. arrivals <= writes
    BY FS_CardinalityType DEF Counted, TableInvariant, TableFields
  <2>3. QED
    BY <2>1, <2>2 DEF TableTypeOK, TableInvariant, TableFields, Kept
<1>4. QED
  BY <1>1, <1>2, <1>3, PTL DEF TableSpec

-----------------------------------------------------------------------------
(* Migrations: types.                                                      *)

(* The tables and columns that a database may have. *)
Databases == [Tables -> {Absent} \cup SUBSET Columns]

(* A file of the migrations directory. *)
Migration == [up : Seq(Operation), down : Seq(Operation), byHand : BOOLEAN]

(* What a process may have at hand. *)
Command ==
    [cmd : {"none", "migrate", "rollback", "makemigrations"},
     pc : {"idle", "read", "run", "tables", "columns"},
     plan : SUBSET Nat, todo : Seq(Operation), tables : SUBSET Tables]

(* Where a command can be, and with what. *)
Consistent(c) ==
    /\ c \in Command
    /\ c.pc = "run" <=> c.plan # {}
    /\ c.pc = "idle" <=> c.cmd = "none"
    /\ c.pc = "run" => c.cmd \in {"migrate", "rollback"}
    /\ c.pc \in {"tables", "columns"} => c.cmd = "makemigrations"
    /\ c.todo # <<>> => c.pc = "run"

(* The types, with what is needed beyond them to reason about functions. *)
Types ==
    /\ models \in Models /\ schema \in Databases
    /\ files \in Seq(Migration)
    /\ history \subseteq DOMAIN files /\ unfinished \subseteq DOMAIN files
    /\ outside \subseteq Tables /\ overlap \in {"none", "migrate", "other"}
    /\ proc = [p \in Processes |-> proc[p]]
    /\ \A p \in Processes : Consistent(proc[p]) /\ proc[p].plan \subseteq DOMAIN files

-----------------------------------------------------------------------------
(* Operators of the model.                                                 *)

(* The smallest of a set of numbers. *)
LEMMA FirstIs ==
    ASSUME NEW S \in SUBSET Nat, S # {}
    PROVE  First(S) \in S /\ \A s \in S : First(S) <= s
<1>1. PICK x \in S : \A y \in S : ~(<<y, x>> \in OpToRel(<, Nat))
  BY NatLessThanWellFounded, WFMin
<1>2. ASSUME NEW y \in S PROVE x <= y
  <2>1. x \in Nat /\ y \in Nat
    OBVIOUS
  <2>2. ~(y < x)
    BY <1>1, <2>1 DEF OpToRel
  <2>3. QED
    BY <2>1, <2>2
<1>3. \E r \in S : \A s \in S : r <= s
  BY <1>2
<1>4. QED
  BY <1>3 DEF First

(* The largest of a set of revisions. *)
LEMMA LatestIs ==
    ASSUME NEW n \in Nat, NEW S \in SUBSET (1..n), S # {}
    PROVE  Latest(S) \in S /\ \A s \in S : s <= Latest(S)
<1> DEFINE D == {n - s : s \in S}
<1>1. D \in SUBSET Nat /\ D # {}
  <2>1. PICK s \in S : TRUE
    OBVIOUS
  <2>2. n - s \in D
    BY <2>1
  <2>3. \A s1 \in S : s1 \in Nat /\ s1 <= n /\ n - s1 \in Nat
    OBVIOUS
  <2>4. QED
    BY <2>2, <2>3
<1>2. First(D) \in D /\ \A d \in D : First(D) <= d
  BY <1>1, FirstIs
<1>3. PICK m \in S : First(D) = n - m
  BY <1>2
<1>4. \A s \in S : n - m <= n - s
  BY <1>2, <1>3
<1>5. \A s \in S : s <= m
  BY <1>4
<1>6. QED
  BY <1>5 DEF Latest

(* A sequence is its head and what follows. *)
LEMMA HeadAndTail ==
    ASSUME NEW T, NEW s \in Seq(T), s # <<>>
    PROVE  /\ Head(s) \in T /\ Tail(s) \in Seq(T)
           /\ \E i \in DOMAIN s : s[i] = Head(s)
           /\ \A i \in DOMAIN s : s[i] = Head(s) \/ \E j \in DOMAIN Tail(s) : s[i] = Tail(s)[j]
           /\ \A j \in DOMAIN Tail(s) : \E i \in DOMAIN s : Tail(s)[j] = s[i]
<1>1. Len(s) \in Nat /\ Len(s) > 0 /\ DOMAIN s = 1..Len(s) /\ Head(s) = s[1]
  OBVIOUS
<1>2. Tail(s) \in Seq(T) /\ DOMAIN Tail(s) = 1..(Len(s) - 1)
  BY <1>1
<1>3. \A i \in 1..(Len(s) - 1) : Tail(s)[i] = s[i + 1]
  BY <1>1
<1>4. ASSUME NEW i \in DOMAIN s PROVE s[i] = Head(s) \/ \E j \in DOMAIN Tail(s) : s[i] = Tail(s)[j]
  <2>1. CASE i = 1
    BY <1>1, <2>1
  <2>2. CASE i # 1
    <3>1. i - 1 \in DOMAIN Tail(s) /\ Tail(s)[i - 1] = s[i]
      BY <1>1, <1>2, <1>3, <2>2
    <3>2. QED
      BY <3>1
  <2>3. QED
    BY <2>1, <2>2
<1>5. ASSUME NEW j \in DOMAIN Tail(s) PROVE \E i \in DOMAIN s : Tail(s)[j] = s[i]
  <2>1. j + 1 \in DOMAIN s /\ Tail(s)[j] = s[j + 1]
    BY <1>1, <1>2, <1>3
  <2>2. QED
    BY <2>1
<1>6. QED
  BY <1>1, <1>2, <1>4, <1>5

(* Statements and tables. *)
LEMMA OperationFacts ==
    ASSUME NEW op \in Operation
    PROVE  /\ op.op \in {"create", "add", "drop", "droptable", "raw"}
           /\ op.table \in Tables /\ op.cols \in SUBSET Columns
           /\ op.op = "raw" => op.to \in Columns
  BY DEF Operation

(* A statement that is not rejected changes its own table, as it says.     *)
LEMMA AppliedIs ==
    ASSUME NEW op \in Operation, NEW db \in Databases, ~Rejected(op, db)
    PROVE  /\ Applied(op, db) \in Databases
           /\ \A t \in Tables \ {op.table} : Applied(op, db)[t] = db[t]
           /\ op.op = "create" =>
                 Applied(op, db)[op.table] = IF db[op.table] = Absent THEN op.cols ELSE db[op.table]
           /\ op.op = "droptable" => Applied(op, db)[op.table] = Absent
           /\ op.op = "add" => Applied(op, db)[op.table] = db[op.table] \cup op.cols
           /\ op.op = "drop" => Applied(op, db)[op.table] = db[op.table] \ op.cols
<1> USE OperationFacts DEF Databases
<1>1. CASE op.op = "create"
  BY <1>1 DEF Applied
<1>2. CASE op.op = "droptable"
  BY <1>2 DEF Applied
<1>3. CASE op.op \in {"add", "drop", "raw"}
  <2>1. db[op.table] \in SUBSET Columns
    BY <1>3 DEF Rejected
  <2>2. CASE op.op = "add"
    BY <2>1, <2>2 DEF Applied
  <2>3. CASE op.op = "drop"
    BY <2>1, <2>3 DEF Applied
  <2>4. CASE op.op = "raw"
    BY <2>1, <2>4 DEF Applied
  <2>5. QED
    BY <1>3, <2>2, <2>3, <2>4
<1>4. QED
  BY <1>1, <1>2, <1>3

(* Operations are generated for tables and columns that are missing.       *)
LEMMA DiffIs ==
    ASSUME NEW tables \in SUBSET Tables, NEW columns \in [Tables -> SUBSET Columns],
           models \in Models
    PROVE  /\ Diff(tables, columns) \in Seq(Operation)
           /\ \A i \in DOMAIN Diff(tables, columns) :
                 LET op == Diff(tables, columns)[i]
                 IN \/ /\ op.op = "create" /\ op.table \in Tables \ tables
                       /\ op.cols = models[op.table]
                    \/ /\ op.op = "add" /\ op.table \in tables
                       /\ \E c \in Columns \ columns[op.table] : op.cols = {c}
<1> DEFINE declared == {t \in Tables : models[t] # Absent}
           S == {CreateTable(t, models[t]) : t \in declared \ tables}
                \cup UNION {{AddColumn(t, c) : c \in models[t] \ columns[t]} :
                            t \in declared \cap tables}
           All == {"create", "add"} \X (Tables \X SUBSET Columns)
           f == [op \in S |-> <<op.op, <<op.table, op.cols>>>>]
<1>1. models \in Databases
  BY MigrationsAssumption DEF MigrationsAssumption, Databases
<1>2. \A t \in declared : models[t] \in SUBSET Columns
  BY <1>1 DEF Databases
<1>3. ASSUME NEW op \in S
      PROVE  /\ op \in [op : {"create", "add"}, table : Tables, cols : SUBSET Columns]
             /\ \/ /\ op.op = "create" /\ op.table \in Tables \ tables
                   /\ op.cols = models[op.table]
                \/ /\ op.op = "add" /\ op.table \in tables
                   /\ \E c \in Columns \ columns[op.table] : op.cols = {c}
  <2>1. CASE \E t \in declared \ tables : op = CreateTable(t, models[t])
    BY <2>1, <1>2 DEF CreateTable
  <2>2. CASE \E t \in declared \cap tables : \E c \in models[t] \ columns[t] : op = AddColumn(t, c)
    BY <2>2, <1>2 DEF AddColumn
  <2>3. QED
    BY <2>1, <2>2
<1> HIDE DEF S
<1>4. f \in [S -> All]
  BY <1>3
<1>5. ASSUME NEW a \in S, NEW b \in S, f[a] = f[b] PROVE a = b
  BY <1>3, <1>5
<1>6. IsFiniteSet(All)
  <2>1. IsFiniteSet({"create", "add"})
    <3>1. IsFiniteSet({"create"} \cup {"add"})
      BY FS_Singleton, FS_AddElement
    <3>2. QED
      BY <3>1, Zenon
  <2>2. IsFiniteSet(SUBSET Columns)
    BY MigrationsAssumption, FS_SUBSET DEF MigrationsAssumption
  <2>3. IsFiniteSet(Tables \X SUBSET Columns)
    BY <2>2, MigrationsAssumption, FS_Product DEF MigrationsAssumption
  <2>4. QED
    BY <2>1, <2>3, FS_Product
<1>7. IsFiniteSet(S)
  <2>1. f \in Injection(S, All)
    BY <1>4, <1>5 DEF Injection, IsInjective
  <2>2. QED
    BY <2>1, <1>6, FS_Injection
<1>8. SetToSeq(S) \in [1..Cardinality(S) -> S] /\ Cardinality(S) \in Nat
  <2>1. ExistsBijection(1..Cardinality(S), S) /\ Cardinality(S) \in Nat
    BY <1>7, FS_CardinalityType
  <2>2. PICK g \in [1..Cardinality(S) -> S] : IsInjective(g)
    BY <2>1 DEF ExistsBijection, Bijection, Injection, IsInjective
  <2>3. QED
    BY <2>1, <2>2 DEF SetToSeq
<1>9. Diff(tables, columns) = SetToSeq(S)
  BY DEF Diff, S
<1>10. S \subseteq Operation
  BY <1>3 DEF Operation
<1>11. ASSUME NEW n \in Nat, NEW s \in [1..n -> S]
       PROVE  s \in Seq(Operation) /\ \A i \in DOMAIN s : s[i] \in S
  <2>1. s \in [1..n -> Operation]
    BY <1>10
  <2>2. QED
    BY <2>1
<1>12. SetToSeq(S) \in Seq(Operation) /\ \A i \in DOMAIN SetToSeq(S) : SetToSeq(S)[i] \in S
  BY <1>8, <1>11
<1>13. QED
  BY <1>3, <1>9, <1>12

-----------------------------------------------------------------------------
(* Types.                                                                  *)

(* The files are numbered from 1, and are migrations. *)
LEMMA FileFacts ==
    ASSUME Types
    PROVE  /\ Len(files) \in Nat /\ DOMAIN files = 1..Len(files)
           /\ \A r \in DOMAIN files : /\ r \in Nat /\ files[r] \in Migration
                                     /\ files[r].up \in Seq(Operation)
                                     /\ files[r].down \in Seq(Operation)
                                     /\ files[r].byHand \in BOOLEAN
<1>1. files \in Seq(Migration)
  BY DEF Types
<1>2. Len(files) \in Nat /\ DOMAIN files = 1..Len(files)
  BY <1>1
<1>3. ASSUME NEW r \in DOMAIN files PROVE r \in Nat /\ files[r] \in Migration
  BY <1>1, <1>2
<1>4. QED
  BY <1>2, <1>3 DEF Migration

(* A process has a command, with revisions of the directory ahead of it. *)
LEMMA ProcFacts ==
    ASSUME Types, NEW p \in Processes
    PROVE  /\ Consistent(proc[p]) /\ proc[p] \in Command
           /\ proc[p].plan \in SUBSET Nat /\ proc[p].plan \subseteq DOMAIN files
           /\ proc[p].todo \in Seq(Operation)
  BY FileFacts DEF Types, Consistent, Command

(* The revision that a command is at. *)
LEMMA CurrentFacts ==
    ASSUME Types, NEW p \in Processes, proc[p].plan # {}
    PROVE  /\ First(proc[p].plan) \in proc[p].plan
           /\ First(proc[p].plan) \in DOMAIN files
           /\ \A s \in proc[p].plan : First(proc[p].plan) <= s
  BY ProcFacts, FirstIs

(* A command goes from one place to another. *)
LEMMA OneGoes ==
    ASSUME Types, NEW p \in Processes, NEW c, Consistent(c), c.plan \subseteq DOMAIN files,
           proc' = [proc EXCEPT ![p] = c]
    PROVE  /\ proc' = [q \in Processes |-> proc'[q]]
           /\ \A q \in Processes : Consistent(proc'[q]) /\ proc'[q].plan \subseteq DOMAIN files
           /\ proc'[p] = c /\ \A q \in Processes \ {p} : proc'[q] = proc[q]
  BY DEF Types

(* A process without a command is in order. *)
LEMMA IdleIs == Consistent(Idle) /\ Idle.plan = {}
  BY DEF Idle, Consistent, Command

(* p has become c, which is at pc with the rest given. *)
GoesTo(p, c, pc, plan, todo, tables) ==
    /\ Consistent(c) /\ proc' = [proc EXCEPT ![p] = c]
    /\ c.cmd = proc[p].cmd /\ c.pc = pc /\ c.plan = plan /\ c.todo = todo
    /\ c.tables = tables

(* Goes leads to such a c. *)
LEMMA GoesWhere ==
    ASSUME Types, NEW p \in Processes,
           NEW pc \in {"read", "run", "tables", "columns"}, NEW plan \in SUBSET DOMAIN files,
           NEW todo \in Seq(Operation), NEW tables \in SUBSET Tables,
           Running(p), pc = "run" <=> plan # {}, pc = "run" => proc[p].cmd \in {"migrate", "rollback"},
           pc \in {"tables", "columns"} => proc[p].cmd = "makemigrations",
           todo # <<>> => pc = "run",
           Goes(p, pc, plan, todo, tables)
    PROVE  \E c : GoesTo(p, c, pc, plan, todo, tables)
<1> DEFINE c == [cmd |-> proc[p].cmd, pc |-> pc, plan |-> plan, todo |-> todo, tables |-> tables]
<1>1. proc[p].cmd \in {"none", "migrate", "rollback", "makemigrations"} /\ proc[p].cmd # "none"
  BY ProcFacts DEF Command, Running
<1>2. plan \in SUBSET Nat
  BY FileFacts
<1>3. Consistent(c)
  BY <1>1, <1>2 DEF Consistent, Command
<1>4. proc' = [proc EXCEPT ![p] = c]
  BY DEF Goes
<1>5. /\ c.cmd = proc[p].cmd /\ c.pc = pc /\ c.plan = plan /\ c.todo = todo
      /\ c.tables = tables
  OBVIOUS
<1> HIDE DEF c
<1>6. QED
  BY <1>3, <1>4, <1>5 DEF GoesTo

(* A command turns to the next revision of its plan, or ends. *)
TakesTo(p, c, plan) ==
    /\ Consistent(c) /\ c.plan = plan /\ proc' = [proc EXCEPT ![p] = c]
    /\ plan = {} => c = Idle
    /\ plan # {} => /\ c.cmd = proc[p].cmd /\ First(plan) \in plan
                   /\ c.todo = IF proc[p].cmd = "rollback" THEN files[First(plan)].down
                               ELSE files[First(plan)].up

(* Takes leads to such a c. *)
LEMMA TakesWhere ==
    ASSUME Types, NEW p \in Processes, NEW plan \in SUBSET DOMAIN files,
           proc[p].cmd \in {"migrate", "rollback"}, Takes(p, plan)
    PROVE  \E c : TakesTo(p, c, plan)
<1>1. CASE plan = {}
  BY <1>1, IdleIs DEF Takes, Ends, TakesTo
<1>2. CASE plan # {}
  <2> DEFINE todo == IF proc[p].cmd = "rollback" THEN files[First(plan)].down
                     ELSE files[First(plan)].up
  <2>1. plan \in SUBSET Nat
    BY FileFacts
  <2>2. First(plan) \in plan
    BY <1>2, <2>1, FirstIs
  <2>3. todo \in Seq(Operation)
    BY <2>2, FileFacts
  <2>4. Goes(p, "run", plan, todo, {})
    BY <1>2 DEF Takes
  <2> HIDE DEF todo
  <2>5. Running(p) /\ {} \in SUBSET Tables
    BY DEF Running
  <2>6. \E c : GoesTo(p, c, "run", plan, todo, {})
    BY <1>2, <2>3, <2>4, <2>5, GoesWhere
  <2>7. QED
    BY <1>2, <2>2, <2>6 DEF todo, GoesTo, TakesTo
<1>3. QED
  BY <1>1, <1>2

(* A migration touches tables. *)
LEMMA TablesOfIs ==
    ASSUME NEW file \in Migration
    PROVE  TablesOf(file) \subseteq Tables
  BY OperationFacts DEF TablesOf, Migration

(* A generated migration undoes what it does. *)
LEMMA GeneratedIs ==
    ASSUME NEW ops \in Seq(Operation), \A i \in DOMAIN ops : ops[i].op \in {"create", "add"}
    PROVE  /\ Generated(ops) \in Migration
           /\ Generated(ops).up = ops /\ ~Generated(ops).byHand
           /\ DOMAIN Generated(ops).down = DOMAIN ops
           /\ \A i \in DOMAIN ops :
                 /\ Generated(ops).down[i].table = ops[i].table
                 /\ ops[i].op = "create" => Generated(ops).down[i].op = "droptable"
                 /\ ops[i].op = "add" => /\ Generated(ops).down[i].op = "drop"
                                        /\ Generated(ops).down[i].cols = ops[i].cols
<1>1. ASSUME NEW op \in Operation, op.op \in {"create", "add"}
      PROVE  /\ InverseOf(op) \in Operation /\ InverseOf(op).table = op.table
             /\ op.op = "create" => InverseOf(op).op = "droptable"
             /\ op.op = "add" => InverseOf(op).op = "drop" /\ InverseOf(op).cols = op.cols
  <2>1. op \in [op : {"create", "add"}, table : Tables, cols : SUBSET Columns]
    BY <1>1 DEF Operation
  <2>2. CASE op.op = "create"
    BY <2>1, <2>2 DEF InverseOf, DropTable, Operation
  <2>3. CASE op.op = "add"
    BY <2>1, <2>3 DEF InverseOf, Operation
  <2>4. QED
    BY <1>1, <2>2, <2>3
<1> DEFINE down == [i \in DOMAIN ops |-> InverseOf(ops[i])]
<1>2. \A i \in DOMAIN ops : ops[i] \in Operation
  OBVIOUS
<1>3. Len(ops) \in Nat /\ DOMAIN ops = 1..Len(ops)
  OBVIOUS
<1>4. down \in [1..Len(ops) -> Operation]
  BY <1>1, <1>2, <1>3
<1>5. down \in Seq(Operation)
  BY <1>3, <1>4
<1>6. Generated(ops) = [up |-> ops, down |-> down, byHand |-> FALSE]
  BY DEF Generated
<1>7. DOMAIN down = DOMAIN ops /\ \A i \in DOMAIN ops : down[i] = InverseOf(ops[i])
  OBVIOUS
<1> HIDE DEF down
<1>8. QED
  BY <1>1, <1>2, <1>5, <1>6, <1>7 DEF Migration

(* A file more. *)
LEMMA OneFileMore ==
    ASSUME Types, NEW file \in Migration, files' = Append(files, file)
    PROVE  /\ files' \in Seq(Migration)
           /\ DOMAIN files' = DOMAIN files \cup {Len(files) + 1} /\ Len(files) + 1 \notin DOMAIN files
           /\ files'[Len(files) + 1] = file /\ \A r \in DOMAIN files : files'[r] = files[r]
<1>1. files \in Seq(Migration)
  BY DEF Types
<1>2. QED
  BY <1>1

(* What makemigrations reads of the columns. *)
LEMMA ColumnsReadIs ==
    ASSUME Types
    PROVE  /\ ColumnsRead \in [Tables -> SUBSET Columns]
           /\ \A t \in Tables : ColumnsRead[t] = IF schema[t] = Absent THEN {} ELSE schema[t]
  BY DEF Types, Databases, ColumnsRead

(* Where a request fails, or a command is refused, it ends. *)
LEMMA OneEnds ==
    ASSUME Types, NEW p \in Processes, Ends(p)
    PROVE  /\ proc' = [q \in Processes |-> proc'[q]]
           /\ \A q \in Processes : Consistent(proc'[q]) /\ proc'[q].plan \subseteq DOMAIN files
           /\ proc'[p] = Idle /\ \A q \in Processes \ {p} : proc'[q] = proc[q]
<1>1. proc' = [proc EXCEPT ![p] = Idle] /\ Idle.plan \subseteq DOMAIN files
  BY IdleIs DEF Ends
<1>2. QED
  BY <1>1, IdleIs, OneGoes

(* A command begins. *)
LEMMA BeginKeeps == ASSUME Types, NEW p \in Processes,
                           NEW cmd \in {"migrate", "rollback", "makemigrations"}, Begin(p, cmd)
                    PROVE  Types'
<1> DEFINE c == [cmd |-> cmd, pc |-> "read", plan |-> {}, todo |-> <<>>, tables |-> {}]
<1>1. Consistent(c) /\ c.plan = {}
  BY DEF Consistent, Command
<1>2. proc' = [proc EXCEPT ![p] = c]
  BY DEF Begin
<1> HIDE DEF c
<1>3. /\ proc' = [q \in Processes |-> proc'[q]]
      /\ \A q \in Processes : Consistent(proc'[q]) /\ proc'[q].plan \subseteq DOMAIN files
  BY <1>1, <1>2, OneGoes
<1>4. overlap' \in {"none", "migrate", "other"}
  BY DEF Begin, Types
<1>5. QED
  BY <1>3, <1>4 DEF Begin, Types

(* What ReadHistory does: the command ends, goes on to read the tables, or *)
(* takes the first revision of its plan.                                   *)
HistoryRead(p, c) ==
    /\ Consistent(c) /\ c.plan \subseteq DOMAIN files /\ proc' = [proc EXCEPT ![p] = c]
    /\ c = Idle \/ c.cmd = proc[p].cmd
    /\ c.plan # {} => /\ First(c.plan) \in c.plan
                     /\ c.todo = IF proc[p].cmd = "rollback" THEN files[First(c.plan)].down
                                 ELSE files[First(c.plan)].up
    /\ c.plan # {} /\ c.cmd = "migrate" => c.plan = DOMAIN files \ history
    /\ c.plan # {} /\ c.cmd = "rollback" =>
          \E r \in history : c.plan = {r} /\ \A s \in history : s <= r
    /\ c.pc = "tables" => DOMAIN files \subseteq history
    /\ c.pc # "columns"

(* What a command does with the history is one of the cases above. *)
LEMMA ReadHistoryIs ==
    ASSUME Types, NEW p \in Processes, ReadHistory(p)
    PROVE  \E c : HistoryRead(p, c)
<1>1. history \subseteq DOMAIN files
  BY DEF Types
<1>a. ASSUME Ends(p) PROVE HistoryRead(p, Idle)
  <2>1. Idle.plan = {} /\ Idle.pc = "idle" /\ Consistent(Idle)
    BY IdleIs DEF Idle
  <2>2. proc' = [proc EXCEPT ![p] = Idle]
    BY <1>a DEF Ends
  <2> HIDE DEF Idle
  <2>3. QED
    BY <2>1, <2>2 DEF HistoryRead
<1>2. CASE proc[p].cmd = "migrate" /\ Takes(p, Pending(history))
  <2>1. Pending(history) \in SUBSET DOMAIN files /\ Pending(history) = DOMAIN files \ history
    BY DEF Pending
  <2>2. PICK c : TakesTo(p, c, Pending(history))
    BY <1>2, <2>1, TakesWhere
  <2>3. c.pc \notin {"tables", "columns"}
    BY <1>2, <2>2 DEF Consistent, Idle, TakesTo
  <2>4. QED
    BY <1>2, <2>1, <2>2, <2>3 DEF TakesTo, HistoryRead
<1>3. CASE proc[p].cmd = "rollback" /\ history = {} /\ Takes(p, {})
  <2>1. Ends(p)
    BY <1>3 DEF Takes
  <2>2. QED
    BY <2>1, <1>a
<1>4. CASE proc[p].cmd = "rollback" /\ history # {} /\ Takes(p, {Latest(history)})
  <2>1. Latest(history) \in history /\ \A s \in history : s <= Latest(history)
    BY <1>1, <1>4, FileFacts, LatestIs
  <2> DEFINE plan == {Latest(history)}
  <2>2. plan \in SUBSET DOMAIN files /\ plan # {}
    BY <1>1, <2>1
  <2>3. Takes(p, plan)
    BY <1>4
  <2>4. \E r \in history : plan = {r} /\ \A s \in history : s <= r
    BY <2>1
  <2> HIDE DEF plan
  <2>5. PICK c : TakesTo(p, c, plan)
    BY <1>4, <2>2, <2>3, TakesWhere
  <2>6. c.pc \notin {"tables", "columns"}
    BY <1>4, <2>2, <2>5 DEF Consistent, TakesTo
  <2>7. QED
    BY <1>4, <2>2, <2>4, <2>5, <2>6 DEF TakesTo, HistoryRead
<1>5. CASE proc[p].cmd = "makemigrations" /\ Ends(p)
  BY <1>5, <1>a
<1>6. CASE proc[p].cmd = "makemigrations" /\ Pending(history) = {} /\ Goes(p, "tables", {}, <<>>, {})
  <2>1. Running(p) /\ <<>> \in Seq(Operation) /\ {} \in SUBSET DOMAIN files
        /\ {} \in SUBSET Tables
    BY <1>6 DEF Running
  <2>2. PICK c : GoesTo(p, c, "tables", {}, <<>>, {})
    BY <1>6, <2>1, GoesWhere
  <2>3. QED
    BY <1>6, <2>2 DEF Pending, GoesTo, HistoryRead
<1>7. history \cap DOMAIN files = history
  BY <1>1
<1>8. \/ proc[p].cmd = "migrate" /\ Takes(p, Pending(history))
      \/ proc[p].cmd = "rollback" /\ Takes(p, IF history = {} THEN {} ELSE {Latest(history)})
      \/ /\ proc[p].cmd = "makemigrations"
         /\ IF Pending(history) # {} THEN Ends(p) ELSE Goes(p, "tables", {}, <<>>, {})
  BY <1>7 DEF ReadHistory
<1>9. QED
  BY <1>2, <1>3, <1>4, <1>5, <1>6, <1>8

(* The statement at hand. *)
LEMMA HeadIs ==
    ASSUME Types, NEW p \in Processes, proc[p].todo # <<>>
    PROVE  Head(proc[p].todo) \in Operation /\ Tail(proc[p].todo) \in Seq(Operation)
  BY ProcFacts, HeadAndTail

(* Every action keeps the types: a statement. *)
LEMMA StatementKeeps == ASSUME Types, NEW p \in Processes, Statement(p) PROVE Types'
<1>1. /\ proc[p].pc = "run" /\ proc[p].todo # <<>>
      /\ UNCHANGED <<models, files, history, outside, overlap>>
  BY DEF Statement
<1>2. Head(proc[p].todo) \in Operation /\ Tail(proc[p].todo) \in Seq(Operation)
  BY <1>1, HeadIs
<1>3. First(proc[p].plan) \in DOMAIN files
  BY <1>1, ProcFacts, CurrentFacts DEF Consistent
<1>4. CASE Rejected(Head(proc[p].todo), schema)
  <2>1. Ends(p) /\ unfinished' = unfinished \cup {First(proc[p].plan)} /\ schema' = schema
    BY <1>4 DEF Statement
  <2>2. QED
    BY <1>1, <1>3, <2>1, OneEnds DEF Types
<1>5. CASE ~Rejected(Head(proc[p].todo), schema)
  <2>1. /\ schema' = Applied(Head(proc[p].todo), schema) /\ unfinished' = unfinished
        /\ Goes(p, "run", proc[p].plan, Tail(proc[p].todo), {})
    BY <1>5 DEF Statement
  <2>2. schema' \in Databases
    BY <1>2, <1>5, <2>1, AppliedIs DEF Types
  <2>3. /\ Running(p) /\ proc[p].plan # {} /\ proc[p].cmd \in {"migrate", "rollback"}
        /\ proc[p].plan \in SUBSET DOMAIN files /\ {} \in SUBSET Tables
    BY <1>1, ProcFacts DEF Consistent, Running
  <2>4. PICK c : GoesTo(p, c, "run", proc[p].plan, Tail(proc[p].todo), {})
    BY <1>2, <2>1, <2>3, GoesWhere
  <2>5. /\ proc' = [q \in Processes |-> proc'[q]]
        /\ \A q \in Processes : Consistent(proc'[q]) /\ proc'[q].plan \subseteq DOMAIN files
    BY <2>3, <2>4, OneGoes DEF GoesTo
  <2>6. QED
    BY <1>1, <2>1, <2>2, <2>5 DEF Types
<1>6. QED
  BY <1>4, <1>5

(* The record of a revision. *)
LEMMA SettleKeeps == ASSUME Types, NEW p \in Processes, Settle(p) PROVE Types'
<1> DEFINE r == First(proc[p].plan)
<1>1. /\ proc[p].pc = "run" /\ history' = Settled(proc[p].cmd, r) /\ unfinished' = unfinished \ {r}
      /\ Takes(p, proc[p].plan \ {r}) /\ UNCHANGED <<models, schema, files, outside, overlap>>
  BY DEF Settle
<1>2. r \in DOMAIN files /\ proc[p].cmd \in {"migrate", "rollback"} /\ proc[p].plan \subseteq DOMAIN files
  BY <1>1, ProcFacts, CurrentFacts DEF Consistent
<1>3. PICK c : TakesTo(p, c, proc[p].plan \ {r})
  BY <1>1, <1>2, TakesWhere
<1>4. /\ proc' = [q \in Processes |-> proc'[q]]
      /\ \A q \in Processes : Consistent(proc'[q]) /\ proc'[q].plan \subseteq DOMAIN files
  BY <1>2, <1>3, OneGoes DEF TakesTo
<1>5. history' \subseteq DOMAIN files
  BY <1>1, <1>2 DEF Settled, Types
<1>6. QED
  BY <1>1, <1>4, <1>5 DEF Types

(* A failure. *)
LEMMA FailsKeeps == ASSUME Types, NEW p \in Processes, Fails(p) PROVE Types'
<1> DEFINE r == First(proc[p].plan)
<1>1. Ends(p) /\ UNCHANGED <<models, files, outside, overlap>>
  BY DEF Fails
<1>2. schema' \in Databases /\ history' \subseteq DOMAIN files /\ unfinished' \subseteq DOMAIN files
  <2>1. CASE proc[p].pc # "run"
    BY <2>1 DEF Fails, Types
  <2>2. CASE proc[p].pc = "run"
    <3>1. r \in DOMAIN files
      BY <2>2, ProcFacts, CurrentFacts DEF Consistent
    <3>2. ASSUME proc[p].todo # <<>>, ~Rejected(Head(proc[p].todo), schema)
          PROVE  Applied(Head(proc[p].todo), schema) \in Databases
      BY <3>2, HeadIs, AppliedIs DEF Types
    <3>3. \/ unfinished' = unfinished \cup {r} /\ UNCHANGED <<schema, history>>
          \/ /\ proc[p].todo # <<>> /\ ~Rejected(Head(proc[p].todo), schema)
             /\ schema' = Applied(Head(proc[p].todo), schema)
             /\ unfinished' = unfinished \cup {r} /\ UNCHANGED history
          \/ /\ history' = Settled(proc[p].cmd, r) /\ unfinished' = unfinished \ {r}
             /\ UNCHANGED schema
      BY <2>2 DEF Fails
    <3>4. QED
      BY <3>1, <3>2, <3>3 DEF Types, Settled
  <2>3. QED
    BY <2>1, <2>2
<1>3. QED
  BY <1>1, <1>2, OneEnds DEF Types

(* What is read of the history and of the tables. *)
LEMMA ReadsKeep == ASSUME Types, NEW p \in Processes, ReadHistory(p) \/ LiveTables(p) PROVE Types'
<1>1. UNCHANGED <<models, schema, files, history, unfinished, outside, overlap>>
  BY DEF ReadHistory, LiveTables
<1>2. \E c : Consistent(c) /\ c.plan \subseteq DOMAIN files /\ proc' = [proc EXCEPT ![p] = c]
  <2>1. CASE ReadHistory(p)
    BY <2>1, ReadHistoryIs DEF HistoryRead
  <2>2. CASE LiveTables(p)
    <3> DEFINE live == {t \in Tables : schema[t] # Absent}
    <3>1. proc[p].pc = "tables" /\ Goes(p, "columns", {}, <<>>, live)
      BY <2>2 DEF LiveTables
    <3>2. /\ Running(p) /\ proc[p].cmd = "makemigrations" /\ <<>> \in Seq(Operation)
          /\ {} \in SUBSET DOMAIN files /\ live \in SUBSET Tables
      BY <3>1, ProcFacts DEF Running, Consistent
    <3>3. PICK c : GoesTo(p, c, "columns", {}, <<>>, live)
      BY <3>1, <3>2, GoesWhere
    <3>4. QED
      BY <3>3 DEF GoesTo
  <2>3. QED
    BY <2>1, <2>2
<1>3. PICK c : Consistent(c) /\ c.plan \subseteq DOMAIN files /\ proc' = [proc EXCEPT ![p] = c]
  BY <1>2
<1>4. /\ proc' = [q \in Processes |-> proc'[q]]
      /\ \A q \in Processes : Consistent(proc'[q]) /\ proc'[q].plan \subseteq DOMAIN files
  BY <1>3, OneGoes
<1>5. QED
  BY <1>1, <1>4 DEF Types

(* The new file, if any, is a migration. *)
LEMMA LiveColumnsKeeps == ASSUME Types, NEW p \in Processes, LiveColumns(p) PROVE Types'
<1> DEFINE safe == Diff(proc[p].tables, ColumnsRead)
<1>1. proc[p].tables \in SUBSET Tables
  BY ProcFacts DEF Command
<1>2. ColumnsRead \in [Tables -> SUBSET Columns]
  BY ColumnsReadIs
<1>3. models \in Models
  BY DEF Types
<1>4. safe \in Seq(Operation) /\ \A i \in DOMAIN safe : safe[i].op \in {"create", "add"}
  BY <1>1, <1>2, <1>3, DiffIs
<1>5. /\ files' = IF safe = <<>> THEN files ELSE Append(files, Generated(safe))
      /\ outside' = outside \cup (TablesOf(Generated(safe))
                                  \cap UNION {TablesOf(files[r]) : r \in unfinished})
      /\ Ends(p) /\ UNCHANGED <<models, schema, history, unfinished, overlap>>
  BY DEF LiveColumns, Numbered
<1> HIDE DEF safe
<1>6. Generated(safe) \in Migration
  BY <1>4, GeneratedIs
<1>7. files' \in Seq(Migration) /\ DOMAIN files \subseteq DOMAIN files'
  <2>1. CASE safe = <<>>
    BY <1>5, <2>1 DEF Types
  <2>2. CASE safe # <<>>
    BY <1>5, <1>6, <2>2, OneFileMore
  <2>3. QED
    BY <2>1, <2>2
<1>8. outside' \subseteq Tables
  BY <1>5, <1>6, TablesOfIs DEF Types
<1>9. /\ proc' = [q \in Processes |-> proc'[q]]
      /\ \A q \in Processes : Consistent(proc'[q]) /\ proc'[q].plan \subseteq DOMAIN files
  BY <1>5, OneEnds
<1>10. QED
  BY <1>5, <1>7, <1>8, <1>9 DEF Types

(* Developers and applications. *)
LEMMA OutsideKeeps == ASSUME Types, EditModels \/ WriteByHand \/ CreateAll \/ DropAll PROVE Types'
<1>1. CASE EditModels
  BY <1>1 DEF EditModels, Types
<1>2. CASE WriteByHand
  <2>1. PICK file \in ByHand : files' = Append(files, file)
    BY <1>2 DEF WriteByHand
  <2>2. file \in Migration
    BY MigrationsAssumption DEF MigrationsAssumption, Migration
  <2>3. files' \in Seq(Migration) /\ DOMAIN files \subseteq DOMAIN files'
    BY <2>1, <2>2, OneFileMore
  <2>4. QED
    BY <1>2, <2>3 DEF WriteByHand, Types
<1>3. models \in Databases
  BY MigrationsAssumption DEF MigrationsAssumption, Types, Databases
<1>4. CASE CreateAll
  BY <1>3, <1>4 DEF CreateAll, Types, Databases
<1>5. CASE DropAll
  BY <1>5 DEF DropAll, Types, Databases
<1>6. QED
  BY <1>1, <1>2, <1>4, <1>5

(* The types hold at first. *)
LEMMA TypesStart == MigrationInit => Types
<1> SUFFICES ASSUME MigrationInit PROVE Types
  OBVIOUS
<1> USE DEF MigrationInit
<1>1. proc = [p \in Processes |-> Idle] /\ files = <<>> /\ DOMAIN files = {}
  OBVIOUS
<1>2. proc = [p \in Processes |-> proc[p]] /\ \A p \in Processes : proc[p] = Idle
  BY <1>1
<1>3. schema \in Databases
  BY DEF Databases
<1>4. QED
  BY <1>1, <1>2, <1>3, IdleIs DEF Types

(* And every step keeps them. *)
LEMMA TypesKept == Types /\ [MigrationNext]_migrationVars => Types'
<1> SUFFICES ASSUME Types, [MigrationNext]_migrationVars PROVE Types'
  OBVIOUS
<1>1. CASE UNCHANGED migrationVars
  BY <1>1 DEF Types, migrationVars
<1>2. QED
  BY <1>1, BeginKeeps, StatementKeeps, SettleKeeps, FailsKeeps, ReadsKeep, LiveColumnsKeeps,
     OutsideKeeps DEF MigrationNext

(* They imply those that are checked. *)
LEMMA TypesImply == Types => MigrationTypeOK
  BY ProcFacts DEF Types, MigrationTypeOK, Databases, Consistent, Command

-----------------------------------------------------------------------------
(* The invariant.  Clean are the tables that only generated migrations     *)
(* touch.                                                                  *)

(* Statements as sets: of a revision, and those that a process has left. *)
UpOps(r)   == {files[r].up[i] : i \in DOMAIN files[r].up}
DownOps(r) == {files[r].down[i] : i \in DOMAIN files[r].down}
Left(p)    == {proc[p].todo[i] : i \in DOMAIN proc[p].todo}

(* The revision at hand. *)
Current(p)     == First(proc[p].plan)
Migrating(p)   == proc[p].cmd = "migrate" /\ proc[p].plan # {}
RollingBack(p) == proc[p].cmd = "rollback" /\ proc[p].plan # {}

Clean  == Tables \ (outside \cup ByHandTables)
Has(t) == schema[t] # Absent
Exempt == unfinished \cup Under

Touches(r, t)   == \E op \in UpOps(r) : op.table = t
Creates(r, t)   == \E op \in UpOps(r) : op.table = t /\ op.op = "create"
Brings(r, t, c) == \E op \in UpOps(r) : op.table = t /\ c \in op.cols

Undoes(d, op) ==
    /\ d.table = op.table
    /\ op.op = "create" => d.op = "droptable"
    /\ op.op = "add" => d.op = "drop" /\ d.cols = op.cols

(* A generated migration creates a table or adds columns to it, each once, *)
(* and its down undoes its up.                                             *)
WellFormed ==
    \A r \in DOMAIN files : ~files[r].byHand =>
        /\ \A op \in UpOps(r) : op.op \in {"create", "add"}
        /\ \A a, b \in UpOps(r) : a.table = b.table /\ a # b => a.op = "add" /\ a.cols \cap b.cols = {}
        /\ \A op \in UpOps(r) : \E d \in DownOps(r) : Undoes(d, op)
        /\ \A d \in DownOps(r) : \E op \in UpOps(r) : Undoes(d, op)

(* Commands that run at the same time migrate. *)
Alone ==
    \A p, q \in Processes : p # q /\ Running(p) /\ Running(q) => proc[p].cmd = "migrate"

(* No revision is left out: not of the history, nor of what migrate has    *)
(* ahead; and rollback is at the last.                                     *)
InOrder == \A r \in history : 1..r \subseteq history

(* The same for the revisions ahead. *)
Plans ==
    \A p \in Processes :
        /\ Migrating(p) => \A r \in proc[p].plan : 1..r \subseteq history \cup proc[p].plan
        /\ RollingBack(p) => \E r \in history : proc[p].plan = {r} /\ \A s \in history : s <= r

(* One revision creates a table, before any other touches it, and one      *)
(* brings a column.                                                        *)
Distinct ==
    \A t \in Clean : \A r, s \in DOMAIN files :
        /\ Creates(r, t) /\ Touches(s, t) => r <= s
        /\ \A c \in Columns : Brings(r, t, c) /\ Brings(s, t, c) => r = s

(* A table that a revision touches is one that a revision created. *)
CreatedFirst ==
    \A t \in Clean : \A s \in DOMAIN files : Touches(s, t) =>
        \E r \in DOMAIN files : r <= s /\ Creates(r, t)

(* What is live was brought by a recorded revision, and what a recorded    *)
(* revision brought is live, apart from the revisions at work or left      *)
(* unfinished.  The columns that a table is created with come and go with  *)
(* it.                                                                     *)
Live ==
    \A t \in Clean :
        /\ Has(t) => \E r \in history \cup Exempt : Creates(r, t)
        /\ \A r \in history \ Exempt : Creates(r, t) => Has(t)
        /\ Has(t) =>
              /\ \A c \in schema[t] : \E r \in history \cup Exempt : Brings(r, t, c)
              /\ \A r \in history \ Exempt : \A c \in Columns : Brings(r, t, c) => c \in schema[t]
              /\ \A r \in DOMAIN files : \A c \in Columns :
                    Creates(r, t) /\ Brings(r, t, c) => c \in schema[t]

(* Statements are those of the revision at hand; the ones that are done    *)
(* have had their effect, which lasts.                                     *)
Steps(p) ==
    /\ Migrating(p) => Left(p) \subseteq UpOps(Current(p))
    /\ RollingBack(p) => Left(p) \subseteq DownOps(Current(p))

(* What is done of the revision at hand shows. *)
Effect(p) ==
    /\ Migrating(p) => \A op \in UpOps(Current(p)) \ Left(p) :
          op.table \in Clean => Has(op.table) /\ op.cols \subseteq schema[op.table]
    /\ RollingBack(p) => \A op \in DownOps(Current(p)) \ Left(p) :
          op.table \in Clean /\ Has(op.table) =>
              op.op = "drop" /\ op.cols \cap schema[op.table] = {}

(* A slow process finds the tables of what others have recorded. *)
Standing(p) ==
    Migrating(p) =>
        \A r \in proc[p].plan \cap history : \A t \in Clean : Creates(r, t) => Has(t)

(* makemigrations finds nothing pending but what is written by hand, and   *)
(* reads the tables that are live.                                         *)
Reading(p) ==
    /\ proc[p].pc \in {"tables", "columns"} => \A r \in DOMAIN files \ history : files[r].byHand
    /\ proc[p].pc = "columns" => \A t \in Clean : t \in proc[p].tables <=> Has(t)

Order == Alone /\ InOrder /\ Plans
Content == Distinct /\ CreatedFirst
Progress == \A p \in Processes : Steps(p) /\ Effect(p) /\ Standing(p) /\ Reading(p)

(* All of it; while a command overlaps with rollback or makemigrations,    *)
(* only the types.                                                         *)
MigrationInvariant ==
    /\ Types /\ WellFormed
    /\ overlap # "other" => Order /\ Content /\ Live /\ Progress

-----------------------------------------------------------------------------
(* Files.                                                                  *)

(* Statements are operations. *)
LEMMA OpsAre ==
    ASSUME Types, NEW r \in DOMAIN files
    PROVE  UpOps(r) \subseteq Operation /\ DownOps(r) \subseteq Operation
  BY FileFacts DEF UpOps, DownOps

(* The tables of a migration are those of its statements. *)
LEMMA TouchedTables ==
    ASSUME Types, NEW r \in DOMAIN files
    PROVE  TablesOf(files[r]) = {op.table : op \in UpOps(r) \cup DownOps(r)}
  BY DEF TablesOf, UpOps, DownOps

(* Only generated migrations touch a clean table. *)
LEMMA OnlyGenerated ==
    ASSUME Types, NEW r \in DOMAIN files, NEW op \in UpOps(r) \cup DownOps(r), op.table \in Clean
    PROVE  ~files[r].byHand
  BY TouchedTables DEF Clean, ByHandTables

(* What a file does not change of the others. *)
LEMMA OldFiles ==
    ASSUME Types, NEW file \in Migration, files' = Append(files, file),
           NEW CONSTANT n, n = Len(files) + 1
    PROVE  /\ \A r \in DOMAIN files : UpOps(r)' = UpOps(r) /\ DownOps(r)' = DownOps(r)
           /\ UpOps(n)' = {file.up[i] : i \in DOMAIN file.up}
           /\ DownOps(n)' = {file.down[i] : i \in DOMAIN file.down}
<1>1. files'[n] = file /\ \A r \in DOMAIN files : files'[r] = files[r]
  BY OneFileMore
<1>2. QED
  BY <1>1 DEF UpOps, DownOps

(* Migrations are written, and never changed. *)
LEMMA FilesGrow ==
    ASSUME Types, [MigrationNext]_migrationVars
    PROVE  \A r \in DOMAIN files : /\ r \in DOMAIN files' /\ files'[r] = files[r]
                                   /\ UpOps(r)' = UpOps(r) /\ DownOps(r)' = DownOps(r)
<1>1. CASE files' = files
  BY <1>1 DEF UpOps, DownOps
<1>2. ASSUME NEW file \in Migration, files' = Append(files, file), NEW r \in DOMAIN files
      PROVE  /\ r \in DOMAIN files' /\ files'[r] = files[r]
             /\ UpOps(r)' = UpOps(r) /\ DownOps(r)' = DownOps(r)
  <2>1. r \in DOMAIN files' /\ files'[r] = files[r]
    BY <1>2, OneFileMore
  <2>2. QED
    BY <2>1 DEF UpOps, DownOps
<1>3. ASSUME WriteByHand PROVE \E file \in Migration : files' = Append(files, file)
  BY <1>3, MigrationsAssumption DEF MigrationsAssumption, Migration, WriteByHand
<1>4. ASSUME NEW p \in Processes, LiveColumns(p)
      PROVE  files' = files \/ \E file \in Migration : files' = Append(files, file)
  <2> DEFINE safe == Diff(proc[p].tables, ColumnsRead)
  <2>1. /\ proc[p].tables \in SUBSET Tables /\ ColumnsRead \in [Tables -> SUBSET Columns]
        /\ models \in Models
    BY ProcFacts, ColumnsReadIs DEF Command, Types
  <2>2. safe \in Seq(Operation) /\ \A i \in DOMAIN safe : safe[i].op \in {"create", "add"}
    BY <2>1, DiffIs
  <2>3. files' = IF safe = <<>> THEN files ELSE Append(files, Generated(safe))
    BY <1>4 DEF LiveColumns, Numbered
  <2> HIDE DEF safe
  <2>4. QED
    BY <2>2, <2>3, GeneratedIs
<1>5. files' = files \/ WriteByHand \/ \E p \in Processes : LiveColumns(p)
  BY DEF MigrationNext, migrationVars, Begin, ReadHistory, Statement, Settle, Fails, LiveTables,
         EditModels, CreateAll, DropAll
<1>6. QED
  BY <1>1, <1>2, <1>3, <1>4, <1>5

(* No table becomes clean again. *)
LEMMA CleanShrinks ==
    ASSUME Types, [MigrationNext]_migrationVars
    PROVE  Clean' \subseteq Clean
<1>1. outside \subseteq outside'
  BY DEF MigrationNext, migrationVars, Begin, ReadHistory, Statement, Settle, Fails, LiveTables,
         LiveColumns, EditModels, WriteByHand, CreateAll, DropAll
<1>2. ByHandTables \subseteq ByHandTables'
  BY FilesGrow DEF ByHandTables
<1>3. QED
  BY <1>1, <1>2 DEF Clean

(* What makemigrations writes. *)
LEMMA NewFile ==
    ASSUME Types, NEW p \in Processes, LiveColumns(p), files' # files,
           NEW CONSTANT n, n = Len(files) + 1
    PROVE  /\ DOMAIN files' = DOMAIN files \cup {n} /\ n \notin DOMAIN files /\ ~files'[n].byHand
           /\ \A r \in DOMAIN files : /\ files'[r] = files[r]
                                     /\ UpOps(r)' = UpOps(r) /\ DownOps(r)' = DownOps(r)
           /\ \A op \in UpOps(n)' :
                 /\ op \in Operation
                 /\ \/ /\ op.op = "create" /\ op.table \notin proc[p].tables
                       /\ op.cols = models[op.table]
                    \/ /\ op.op = "add" /\ op.table \in proc[p].tables
                       /\ \E c \in Columns \ ColumnsRead[op.table] : op.cols = {c}
                 /\ \A r \in unfinished : op.table \in TablesOf(files[r]) => op.table \in outside'
           /\ \A op \in UpOps(n)' : \E d \in DownOps(n)' : Undoes(d, op)
           /\ \A d \in DownOps(n)' : \E op \in UpOps(n)' : Undoes(d, op)
<1> DEFINE safe == Diff(proc[p].tables, ColumnsRead)
<1>1. /\ proc[p].tables \in SUBSET Tables /\ ColumnsRead \in [Tables -> SUBSET Columns]
      /\ models \in Models
  BY ProcFacts, ColumnsReadIs DEF Command, Types
<1>2. /\ safe \in Seq(Operation)
      /\ \A i \in DOMAIN safe :
            \/ /\ safe[i].op = "create" /\ safe[i].table \in Tables \ proc[p].tables
               /\ safe[i].cols = models[safe[i].table]
            \/ /\ safe[i].op = "add" /\ safe[i].table \in proc[p].tables
               /\ \E c \in Columns \ ColumnsRead[safe[i].table] : safe[i].cols = {c}
  BY <1>1, DiffIs
<1>3. /\ files' = IF safe = <<>> THEN files ELSE Append(files, Generated(safe))
      /\ outside' = outside \cup (TablesOf(Generated(safe))
                                  \cap UNION {TablesOf(files[r]) : r \in unfinished})
  BY DEF LiveColumns, Numbered
<1> HIDE DEF safe
<1>4. files' = Append(files, Generated(safe))
  BY <1>3
<1>5. PICK file : file = Generated(safe)
  OBVIOUS
<1>6. /\ file \in Migration /\ file.up = safe /\ ~file.byHand /\ DOMAIN file.down = DOMAIN safe
      /\ \A i \in DOMAIN safe : Undoes(file.down[i], safe[i])
  BY <1>2, <1>5, GeneratedIs DEF Undoes
<1>7. /\ DOMAIN files' = DOMAIN files \cup {n} /\ n \notin DOMAIN files
      /\ files'[n] = file /\ \A r \in DOMAIN files : files'[r] = files[r]
  BY <1>4, <1>5, <1>6, OneFileMore
<1>8. /\ \A r \in DOMAIN files : UpOps(r)' = UpOps(r) /\ DownOps(r)' = DownOps(r)
      /\ UpOps(n)' = {safe[i] : i \in DOMAIN safe}
      /\ DownOps(n)' = {file.down[i] : i \in DOMAIN safe}
  BY <1>4, <1>5, <1>6, OldFiles
<1>9. ASSUME NEW i \in DOMAIN safe
      PROVE  /\ safe[i] \in Operation
             /\ \A r \in unfinished : safe[i].table \in TablesOf(files[r]) => safe[i].table \in outside'
  <2>1. safe[i] \in Operation
    BY <1>2
  <2>2. safe[i].table \in TablesOf(file)
    BY <1>6 DEF TablesOf
  <2>3. QED
    BY <1>3, <1>5, <2>1, <2>2
<1>10. QED
  BY <1>2, <1>6, <1>7, <1>8, <1>9

(* Files are only added, and generated ones are well formed. *)
LEMMA WellFormedKept ==
    ASSUME Types, WellFormed, [MigrationNext]_migrationVars
    PROVE  WellFormed'
<1>1. CASE files' = files
  BY <1>1 DEF WellFormed, UpOps, DownOps, Undoes
<1>2. PICK n : n = Len(files) + 1
  OBVIOUS
<1>3. CASE WriteByHand
  <2>1. PICK file \in ByHand : files' = Append(files, file)
    BY <1>3 DEF WriteByHand
  <2>2. file \in Migration /\ file.byHand
    BY MigrationsAssumption DEF MigrationsAssumption, Migration
  <2>3. /\ DOMAIN files' = DOMAIN files \cup {n} /\ files'[n] = file
        /\ \A r \in DOMAIN files : /\ files'[r] = files[r]
                                  /\ UpOps(r)' = UpOps(r) /\ DownOps(r)' = DownOps(r)
    BY <1>2, <2>1, <2>2, OneFileMore, OldFiles
  <2>4. QED
    BY <2>2, <2>3 DEF WellFormed
<1>4. ASSUME NEW p \in Processes, LiveColumns(p), files' # files PROVE WellFormed'
  <2>1. /\ DOMAIN files' = DOMAIN files \cup {n}
        /\ \A r \in DOMAIN files : /\ files'[r] = files[r]
                                  /\ UpOps(r)' = UpOps(r) /\ DownOps(r)' = DownOps(r)
        /\ \A op \in UpOps(n)' :
              \/ op.op = "create" /\ op.table \notin proc[p].tables /\ op.cols = models[op.table]
              \/ op.op = "add" /\ op.table \in proc[p].tables /\ \E c \in Columns : op.cols = {c}
        /\ \A op \in UpOps(n)' : \E d \in DownOps(n)' : Undoes(d, op)
        /\ \A d \in DownOps(n)' : \E op \in UpOps(n)' : Undoes(d, op)
    BY <1>2, <1>4, NewFile
  <2>2. \A op \in UpOps(n)' : op \in Operation
    BY <1>2, <1>4, NewFile
  <2>3. ASSUME NEW a \in UpOps(n)', NEW b \in UpOps(n)', a.table = b.table, a # b
        PROVE  a.op = "add" /\ a.cols \cap b.cols = {}
    <3>1. /\ a \in [op : {"create", "add"}, table : Tables, cols : SUBSET Columns]
          /\ b \in [op : {"create", "add"}, table : Tables, cols : SUBSET Columns]
      BY <2>1, <2>2 DEF Operation
    <3>2. a.op # b.op \/ a.cols # b.cols
      BY <3>1, <2>3
    <3>3. QED
      BY <2>1, <2>3, <3>2
  <2>4. QED
    BY <2>1, <2>3 DEF WellFormed
<1>5. files' = files \/ WriteByHand \/ \E p \in Processes : LiveColumns(p)
  BY DEF MigrationNext, migrationVars, Begin, ReadHistory, Statement, Settle, Fails, LiveTables,
         EditModels, CreateAll, DropAll
<1>6. QED
  BY <1>1, <1>3, <1>4, <1>5

-----------------------------------------------------------------------------
(* Commands and the order of revisions.                                    *)

(* The steps of a command under way, and of everything else. *)
Moves(p) == ReadHistory(p) \/ Statement(p) \/ Settle(p) \/ Fails(p) \/ LiveTables(p) \/ LiveColumns(p)

Environment == EditModels \/ WriteByHand \/ CreateAll \/ DropAll

(* There are no other steps. *)
LEMMA StepIs ==
    ASSUME [MigrationNext]_migrationVars
    PROVE  \/ \E p \in Processes : \E cmd \in {"migrate", "rollback", "makemigrations"} : Begin(p, cmd)
           \/ \E p \in Processes : Moves(p)
           \/ Environment /\ proc' = proc
           \/ UNCHANGED migrationVars
  BY DEF MigrationNext, Moves, Environment, EditModels, WriteByHand, CreateAll, DropAll

(* A step of a process leaves the others where they are. *)
LEMMA OthersStay ==
    ASSUME Types, NEW p \in Processes, Moves(p)
    PROVE  /\ Running(p) /\ \A q \in Processes \ {p} : proc'[q] = proc[q]
           /\ proc'[p] = Idle \/ proc'[p].cmd = proc[p].cmd
<1>1. proc = [q \in Processes |-> proc[q]]
  BY DEF Types
<1>2. ASSUME Ends(p) PROVE /\ \A q \in Processes \ {p} : proc'[q] = proc[q]
                           /\ proc'[p] = Idle
  BY <1>1, <1>2 DEF Ends
<1>3. ASSUME NEW pc, NEW plan, NEW todo, NEW tables, Goes(p, pc, plan, todo, tables)
      PROVE  /\ \A q \in Processes \ {p} : proc'[q] = proc[q]
             /\ proc'[p].cmd = proc[p].cmd
  BY <1>1, <1>3 DEF Goes
<1>4. ASSUME NEW plan, Takes(p, plan)
      PROVE  /\ \A q \in Processes \ {p} : proc'[q] = proc[q]
             /\ proc'[p] = Idle \/ proc'[p].cmd = proc[p].cmd
  BY <1>2, <1>3, <1>4 DEF Takes
<1>5. Consistent(proc[p])
  BY ProcFacts
<1>6. CASE ReadHistory(p)
  BY <1>2, <1>3, <1>4, <1>5, <1>6 DEF ReadHistory, Consistent, Running
<1>7. CASE Statement(p)
  BY <1>2, <1>3, <1>4, <1>5, <1>7 DEF Statement, Consistent, Running
<1>8. CASE Settle(p)
  BY <1>2, <1>3, <1>4, <1>5, <1>8 DEF Settle, Consistent, Running
<1>9. CASE Fails(p)
  BY <1>2, <1>5, <1>9 DEF Fails
<1>10. CASE LiveTables(p)
  BY <1>2, <1>3, <1>4, <1>5, <1>10 DEF LiveTables, Consistent, Running
<1>11. CASE LiveColumns(p)
  BY <1>2, <1>3, <1>4, <1>5, <1>11 DEF LiveColumns, Consistent, Running
<1>12. QED
  BY <1>6, <1>7, <1>8, <1>9, <1>10, <1>11 DEF Moves

(* What no command is. *)
LEMMA IdleFacts == /\ Idle.cmd = "none" /\ Idle.pc = "idle" /\ Idle.plan = {} /\ Idle.todo = <<>>
  BY DEF Idle

(* What Begin does. *)
LEMMA BeginIs ==
    ASSUME Types, NEW p \in Processes, NEW cmd \in {"migrate", "rollback", "makemigrations"}, Begin(p, cmd)
    PROVE  /\ \A q \in Processes \ {p} : proc'[q] = proc[q]
           /\ proc[p].cmd = "none" /\ proc[p].plan = {}
           /\ proc'[p].cmd = cmd /\ proc'[p].pc = "read" /\ proc'[p].plan = {} /\ proc'[p].todo = <<>>
           /\ UNCHANGED <<models, schema, files, history, unfinished, outside>>
<1>1. proc = [q \in Processes |-> proc[q]] /\ Consistent(proc[p])
  BY DEF Types
<1>2. /\ ~Running(p)
      /\ proc' = [proc EXCEPT ![p] = [cmd |-> cmd, pc |-> "read", plan |-> {},
                                      todo |-> <<>>, tables |-> {}]]
      /\ UNCHANGED <<models, schema, files, history, unfinished, outside>>
  BY DEF Begin
<1>3. proc'[p] = [cmd |-> cmd, pc |-> "read", plan |-> {}, todo |-> <<>>, tables |-> {}]
  BY <1>1, <1>2
<1>4. proc[p].cmd = "none" /\ proc[p].plan = {}
  BY <1>1, <1>2 DEF Running, Consistent
<1>5. \A q \in Processes \ {p} : proc'[q] = proc[q]
  BY <1>1, <1>2
<1>6. QED
  BY <1>2, <1>3, <1>4, <1>5

(* Whether commands have met is remembered. *)
LEMMA CalmWas ==
    ASSUME [MigrationNext]_migrationVars, overlap' # "other"
    PROVE  overlap # "other"
  BY DEF MigrationNext, migrationVars, Begin, ReadHistory, Statement, Settle, Fails, LiveTables,
         LiveColumns, EditModels, WriteByHand, CreateAll, DropAll

(* Only commands migrate come to overlap, unless overlap says otherwise. *)
LEMMA AloneKept ==
    ASSUME Types, Alone, [MigrationNext]_migrationVars, overlap' # "other"
    PROVE  Alone'
<1>1. CASE proc' = proc
  BY <1>1 DEF Alone, Running
<1>2. ASSUME NEW p \in Processes, Moves(p) PROVE Alone'
  <2>1. \A q \in Processes : Running(q)' => Running(q) /\ proc'[q].cmd = proc[q].cmd
    BY <1>2, OthersStay, IdleFacts DEF Running
  <2>2. QED
    BY <2>1 DEF Alone
<1>3. ASSUME NEW p \in Processes, NEW cmd \in {"migrate", "rollback", "makemigrations"}, Begin(p, cmd)
      PROVE  Alone'
  <2>1. /\ \A q \in Processes \ {p} : proc'[q] = proc[q]
        /\ proc[p].cmd = "none" /\ proc'[p].cmd = cmd
    BY <1>3, BeginIs
  <2>2. CASE \A o \in Processes : ~Running(o)
    BY <2>1, <2>2 DEF Alone, Running
  <2>3. CASE \A o \in Processes : {cmd, proc[o].cmd} \subseteq {"migrate", "none"}
    BY <2>1, <2>3 DEF Alone, Running
  <2>4. QED
    BY <1>3, <2>2, <2>3 DEF Begin
<1>4. QED
  BY <1>1, <1>2, <1>3, StepIs DEF migrationVars

(* A command that has nothing at hand, or what it had before. *)
LEMMA PlansByOne ==
    ASSUME Types, Plans, NEW p \in Processes, history' = history,
           \A q \in Processes \ {p} : proc'[q] = proc[q],
           proc'[p].plan = {} \/ (proc'[p].plan = proc[p].plan /\ proc'[p].cmd = proc[p].cmd)
    PROVE  Plans'
  BY DEF Plans, Migrating, RollingBack

(* The revision at hand is recorded, or removed. *)
LEMMA SettledOrder ==
    ASSUME Types, Order, NEW p \in Processes, proc[p].plan # {}, NEW r, r = Current(p),
           history' = Settled(proc[p].cmd, r),
           \A q \in Processes \ {p} : proc'[q] = proc[q],
           \/ proc'[p].plan = {}
           \/ proc'[p].plan = proc[p].plan \ {r} /\ proc'[p].cmd = proc[p].cmd
    PROVE  InOrder' /\ Plans'
<1>1. /\ r \in proc[p].plan /\ \A s \in proc[p].plan : r <= s
      /\ \A s \in proc[p].plan : s \in Nat
      /\ \A s \in history : s \in Nat
      /\ \A q \in Processes : \A s \in proc[q].plan : s \in Nat
  BY CurrentFacts, ProcFacts, FileFacts DEF Current, Types
<1>2. proc[p].cmd \in {"migrate", "rollback"} /\ Running(p)
  BY ProcFacts DEF Consistent, Running
<1>3. CASE proc[p].cmd = "migrate"
  <2>1. history' = history \cup {r}
    BY <1>3 DEF Settled
  <2>2. 1..r \subseteq history \cup {r}
    <3>1. 1..r \subseteq history \cup proc[p].plan
      BY <1>1, <1>3 DEF Order, Plans, Migrating
    <3>2. ASSUME NEW s \in 1..r, s # r PROVE s \in history
      BY <1>1, <3>1, <3>2
    <3>3. QED
      BY <3>2
  <2>3. InOrder'
    BY <2>1, <2>2 DEF InOrder, Order
  <2>4. ASSUME NEW q \in Processes PROVE ~RollingBack(q)'
    <3>1. CASE q = p
      BY <1>3, <3>1 DEF RollingBack
    <3>2. CASE q # p
      BY <1>2, <3>2 DEF Order, Alone, RollingBack, Running
    <3>3. QED
      BY <3>1, <3>2
  <2>5. ASSUME NEW q \in Processes, Migrating(q)'
        PROVE  \A s \in proc'[q].plan : 1..s \subseteq history' \cup proc'[q].plan
    <3>1. CASE q = p
      BY <1>3, <2>1, <2>5, <3>1 DEF Order, Plans, Migrating
    <3>2. CASE q # p
      BY <2>1, <2>5, <3>2 DEF Order, Plans, Migrating
    <3>3. QED
      BY <3>1, <3>2
  <2>6. QED
    BY <2>3, <2>4, <2>5 DEF Plans
<1>4. CASE proc[p].cmd = "rollback"
  <2>1. history' = history \ {r}
    BY <1>4 DEF Settled
  <2>2. proc[p].plan = {r} /\ \A s \in history : s <= r
    BY <1>1, <1>4 DEF Order, Plans, RollingBack
  <2>3. InOrder'
    <3>1. ASSUME NEW s \in history \ {r}, NEW i \in 1..s PROVE i \in history \ {r}
      <4>1. s <= r /\ s # r /\ s \in Nat /\ r \in Nat /\ i \in history
        BY <1>1, <2>2 DEF Order, InOrder
      <4>2. QED
        BY <4>1
    <3>2. QED
      BY <2>1, <3>1 DEF InOrder
  <2>4. ASSUME NEW q \in Processes PROVE proc'[q].plan = {}
    <3>1. CASE q = p
      BY <2>2, <3>1
    <3>2. CASE q # p
      <4>1. ~Running(q)
        BY <1>2, <1>4, <3>2 DEF Order, Alone
      <4>2. QED
        BY <3>2, <4>1, ProcFacts DEF Running, Consistent
    <3>3. QED
      BY <3>1, <3>2
  <2>5. QED
    BY <2>3, <2>4 DEF Plans, Migrating, RollingBack
<1>5. QED
  BY <1>2, <1>3, <1>4

(* A statement is carried out, whether or not its answer arrives. *)
Applying(p) ==
    /\ proc[p].plan # {} /\ proc[p].todo # <<>>
    /\ ~Rejected(Head(proc[p].todo), schema) /\ schema' = Applied(Head(proc[p].todo), schema)
    /\ UNCHANGED <<models, files, history, outside>>
    /\ \A q \in Processes \ {p} : proc'[q] = proc[q]
    /\ \/ proc'[p] = Idle /\ unfinished' = unfinished \cup {Current(p)}
       \/ /\ proc'[p].cmd = proc[p].cmd /\ proc'[p].plan = proc[p].plan
          /\ proc'[p].todo = Tail(proc[p].todo) /\ proc'[p].pc = "run" /\ unfinished' = unfinished

(* The revision is recorded or removed, and the next one follows. *)
Recording(p) ==
    /\ proc[p].plan # {} /\ proc[p].todo = <<>>
    /\ history' = Settled(proc[p].cmd, Current(p)) /\ unfinished' = unfinished \ {Current(p)}
    /\ UNCHANGED <<models, schema, files, outside>>
    /\ \A q \in Processes \ {p} : proc'[q] = proc[q]
    /\ \/ proc'[p] = Idle
       \/ /\ proc'[p].cmd = proc[p].cmd /\ proc'[p].plan = proc[p].plan \ {Current(p)}
          /\ proc'[p].pc = "run" /\ Current(p)' \in proc'[p].plan
          /\ proc'[p].todo = IF proc[p].cmd = "rollback" THEN files[Current(p)'].down
                             ELSE files[Current(p)'].up

(* The command ends where it is. *)
Ending(p) ==
    /\ proc'[p] = Idle /\ \A q \in Processes \ {p} : proc'[q] = proc[q]
    /\ unfinished \subseteq unfinished' /\ (proc[p].plan # {} => Current(p) \in unfinished')
    /\ UNCHANGED <<models, schema, files, history, outside>>

(* A statement is applied, or ends the command. *)
LEMMA StatementIs ==
    ASSUME Types, NEW p \in Processes, Statement(p)
    PROVE  Applying(p) \/ Ending(p)
<1>1. /\ proc[p].pc = "run" /\ proc[p].todo # <<>>
      /\ UNCHANGED <<models, files, history, outside>>
  BY DEF Statement
<1>2. proc[p].plan # {} /\ proc = [q \in Processes |-> proc[q]]
  BY <1>1, ProcFacts DEF Consistent, Types
<1>3. CASE Rejected(Head(proc[p].todo), schema)
  <2>1. Ends(p) /\ unfinished' = unfinished \cup {Current(p)} /\ schema' = schema
    BY <1>3 DEF Statement, Current
  <2>2. proc'[p] = Idle /\ \A q \in Processes \ {p} : proc'[q] = proc[q]
    BY <2>1, OneEnds
  <2>3. QED
    BY <1>1, <2>1, <2>2 DEF Ending
<1>4. CASE ~Rejected(Head(proc[p].todo), schema)
  <2>1. /\ schema' = Applied(Head(proc[p].todo), schema) /\ unfinished' = unfinished
        /\ Goes(p, "run", proc[p].plan, Tail(proc[p].todo), {})
    BY <1>4 DEF Statement
  <2>2. /\ \A q \in Processes \ {p} : proc'[q] = proc[q]
        /\ proc'[p].cmd = proc[p].cmd /\ proc'[p].plan = proc[p].plan
        /\ proc'[p].todo = Tail(proc[p].todo) /\ proc'[p].pc = "run"
    BY <1>2, <2>1 DEF Goes
  <2>3. QED
    BY <1>1, <1>2, <1>4, <2>1, <2>2 DEF Applying
<1>5. QED
  BY <1>3, <1>4

(* A revision without statements left is recorded. *)
LEMMA SettleIs ==
    ASSUME Types, NEW p \in Processes, Settle(p)
    PROVE  Recording(p)
<1> DEFINE r == First(proc[p].plan)
<1>1. /\ proc[p].pc = "run" /\ proc[p].todo = <<>>
      /\ history' = Settled(proc[p].cmd, r) /\ unfinished' = unfinished \ {r}
      /\ Takes(p, proc[p].plan \ {r}) /\ UNCHANGED <<models, schema, files, outside>>
  BY DEF Settle
<1>2. /\ proc[p].plan # {} /\ proc[p].cmd \in {"migrate", "rollback"}
      /\ proc[p].plan \ {r} \in SUBSET DOMAIN files
  BY <1>1, ProcFacts DEF Consistent
<1>3. PICK c : TakesTo(p, c, proc[p].plan \ {r})
  BY <1>1, <1>2, TakesWhere
<1>4. proc'[p] = c /\ \A q \in Processes \ {p} : proc'[q] = proc[q]
  BY <1>3 DEF TakesTo, Types
<1>5. CASE proc[p].plan \ {r} = {}
  BY <1>1, <1>2, <1>3, <1>4, <1>5 DEF TakesTo, Recording, Current
<1>6. CASE proc[p].plan \ {r} # {}
  <2>1. c.pc = "run" /\ c.plan = proc[p].plan \ {r} /\ c.cmd = proc[p].cmd
    BY <1>3, <1>6 DEF TakesTo, Consistent
  <2>2. Current(p)' = First(c.plan)
    BY <1>4 DEF Current
  <2>3. QED
    BY <1>1, <1>2, <1>3, <1>4, <1>6, <2>1, <2>2 DEF TakesTo, Recording, Current
<1>7. QED
  BY <1>5, <1>6

(* A failure leaves things as a success or as an end does. *)
LEMMA FailsIs ==
    ASSUME Types, NEW p \in Processes, Fails(p)
    PROVE  Applying(p) \/ Recording(p) \/ Ending(p)
<1>1. /\ proc'[p] = Idle /\ \A q \in Processes \ {p} : proc'[q] = proc[q]
      /\ UNCHANGED <<models, files, outside>>
  BY OneEnds DEF Fails
<1>2. CASE proc[p].pc # "run"
  BY <1>1, <1>2, ProcFacts DEF Fails, Ending, Consistent
<1>3. CASE proc[p].pc = "run"
  <2>1. proc[p].plan # {}
    BY <1>3, ProcFacts DEF Consistent
  <2>2. \/ unfinished' = unfinished \cup {Current(p)} /\ UNCHANGED <<schema, history>>
        \/ /\ proc[p].todo # <<>> /\ ~Rejected(Head(proc[p].todo), schema)
           /\ schema' = Applied(Head(proc[p].todo), schema)
           /\ unfinished' = unfinished \cup {Current(p)} /\ UNCHANGED history
        \/ /\ proc[p].todo = <<>>
           /\ history' = Settled(proc[p].cmd, Current(p)) /\ unfinished' = unfinished \ {Current(p)}
           /\ UNCHANGED schema
    BY <1>3 DEF Fails, Current
  <2>3. QED
    BY <1>1, <2>1, <2>2 DEF Applying, Recording, Ending
<1>4. QED
  BY <1>2, <1>3

(* So these are the steps of a command. *)
LEMMA MoveIs ==
    ASSUME Types, NEW p \in Processes, Moves(p)
    PROVE  \/ Applying(p) \/ Recording(p) \/ Ending(p)
           \/ ReadHistory(p) \/ LiveTables(p) \/ LiveColumns(p)
  BY StatementIs, SettleIs, FailsIs DEF Moves

(* What LiveTables does. *)
LEMMA LiveTablesIs ==
    ASSUME Types, NEW p \in Processes, LiveTables(p)
    PROVE  /\ \A q \in Processes \ {p} : proc'[q] = proc[q]
           /\ proc[p].pc = "tables" /\ proc[p].plan = {} /\ proc'[p].plan = {} /\ proc'[p].todo = <<>>
           /\ proc'[p].pc = "columns" /\ proc'[p].tables = {t \in Tables : schema[t] # Absent}
           /\ UNCHANGED <<models, schema, files, history, unfinished, outside>>
<1>1. /\ proc[p].pc = "tables" /\ Goes(p, "columns", {}, <<>>, {t \in Tables : schema[t] # Absent})
      /\ UNCHANGED <<models, schema, files, history, unfinished, outside>>
  BY DEF LiveTables
<1>2. proc = [q \in Processes |-> proc[q]] /\ proc[p].plan = {}
  BY <1>1, ProcFacts DEF Types, Consistent
<1>3. QED
  BY <1>1, <1>2 DEF Goes

(* What LiveColumns does, apart from the file. *)
LEMMA LiveColumnsIs ==
    ASSUME Types, NEW p \in Processes, LiveColumns(p)
    PROVE  /\ \A q \in Processes \ {p} : proc'[q] = proc[q]
           /\ proc[p].pc = "columns" /\ proc[p].plan = {} /\ proc'[p] = Idle
           /\ UNCHANGED <<models, schema, history, unfinished>>
  BY OneEnds, ProcFacts DEF LiveColumns, Consistent

(* What ReadHistory leaves the process with. *)
LEMMA PlanIs ==
    ASSUME Types, NEW p \in Processes, ReadHistory(p)
    PROVE  \E c : /\ HistoryRead(p, c) /\ proc'[p] = c /\ \A q \in Processes \ {p} : proc'[q] = proc[q]
                 /\ proc[p].plan = {}
                 /\ UNCHANGED <<models, schema, files, history, unfinished, outside>>
<1>1. PICK c : HistoryRead(p, c)
  BY ReadHistoryIs
<1>2. proc'[p] = c /\ \A q \in Processes \ {p} : proc'[q] = proc[q]
  BY <1>1, OneGoes DEF HistoryRead
<1>3. proc[p].plan = {} /\ UNCHANGED <<models, schema, files, history, unfinished, outside>>
  BY ProcFacts DEF ReadHistory, Consistent
<1>4. QED
  BY <1>1, <1>2, <1>3

(* The order of the revisions is kept. *)
LEMMA OrderKept ==
    ASSUME Types, Order, [MigrationNext]_migrationVars, overlap' # "other"
    PROVE  Order'
<1>1. Alone'
  BY AloneKept DEF Order
<1>2. InOrder /\ Plans
  BY DEF Order
<1>3. ASSUME proc' = proc, history' = history PROVE InOrder' /\ Plans'
  BY <1>2, <1>3 DEF InOrder, Plans, Migrating, RollingBack
<1>4. ASSUME NEW p \in Processes, Moves(p) PROVE InOrder' /\ Plans'
  <2>1. CASE Applying(p)
    BY <1>2, <2>1, PlansByOne, IdleFacts DEF Applying, InOrder
  <2>2. CASE Recording(p)
    <3>1. PICK r : r = Current(p)
      OBVIOUS
    <3>2. /\ proc[p].plan # {} /\ history' = Settled(proc[p].cmd, r)
          /\ \A q \in Processes \ {p} : proc'[q] = proc[q]
          /\ \/ proc'[p].plan = {}
             \/ proc'[p].plan = proc[p].plan \ {r} /\ proc'[p].cmd = proc[p].cmd
      BY <2>2, <3>1, IdleFacts DEF Recording
    <3>3. QED
      BY <3>1, <3>2, SettledOrder
  <2>3. CASE Ending(p)
    BY <1>2, <2>3, PlansByOne, IdleFacts DEF Ending, InOrder
  <2>4. CASE ReadHistory(p)
    <3>1. PICK c : /\ HistoryRead(p, c) /\ proc'[p] = c
                   /\ \A q \in Processes \ {p} : proc'[q] = proc[q]
                   /\ UNCHANGED <<files, history>>
      BY <2>4, PlanIs
    <3>2. InOrder'
      BY <1>2, <3>1 DEF InOrder
    <3>3. ASSUME c.plan # {}, c.cmd = "migrate", NEW r \in c.plan
          PROVE  1..r \subseteq history \cup c.plan
      BY <3>1, <3>3, FileFacts DEF HistoryRead
    <3>4. Plans'
      BY <1>2, <3>1, <3>3 DEF Plans, Migrating, RollingBack, HistoryRead
    <3>5. QED
      BY <3>2, <3>4
  <2>5. CASE LiveTables(p)
    BY <1>2, <2>5, PlansByOne, LiveTablesIs DEF InOrder
  <2>6. CASE LiveColumns(p)
    BY <1>2, <2>6, PlansByOne, LiveColumnsIs, IdleFacts DEF InOrder
  <2>7. QED
    BY <1>4, <2>1, <2>2, <2>3, <2>4, <2>5, <2>6, MoveIs
<1>5. ASSUME NEW p \in Processes, NEW cmd \in {"migrate", "rollback", "makemigrations"}, Begin(p, cmd)
      PROVE  InOrder' /\ Plans'
  BY <1>2, <1>5, PlansByOne, BeginIs DEF InOrder
<1>6. ASSUME Environment PROVE history' = history
  BY <1>6 DEF Environment, EditModels, WriteByHand, CreateAll, DropAll
<1>7. QED
  BY <1>1, <1>3, <1>4, <1>5, <1>6, StepIs DEF migrationVars, Order
-----------------------------------------------------------------------------
(* What makemigrations adds.                                               *)

(* What a new migration may have. *)
Additional(op) ==
    /\ op.op \in {"create", "add"}
    /\ op.op = "create" => ~Has(op.table) /\ \A r \in DOMAIN files : ~Touches(r, op.table)
    /\ op.op = "add" => /\ \E r \in DOMAIN files : Creates(r, op.table)
                       /\ \A r \in DOMAIN files : \A c \in op.cols : ~Brings(r, op.table, c)

(* What makemigrations generates is neither there nor in another file. *)
LEMMA GeneratedOnce ==
    ASSUME Types, Alone, Content, Live, NEW p \in Processes, Reading(p), LiveColumns(p),
           Clean' \subseteq Clean, files' # files, NEW CONSTANT n, n = Len(files) + 1,
           NEW op \in UpOps(n)', op.table \in Clean'
    PROVE  Additional(op)
<1> DEFINE t == op.table
<1>1. t \in Clean /\ t \in Tables
  BY DEF Clean
<1>2. /\ op \in Operation
      /\ \/ op.op = "create" /\ t \notin proc[p].tables
         \/ op.op = "add" /\ t \in proc[p].tables /\ \E c \in Columns \ ColumnsRead[t] : op.cols = {c}
      /\ \A r \in unfinished : t \in TablesOf(files[r]) => t \in outside'
  BY NewFile
<1>3. t \notin outside' /\ proc[p].pc = "columns" /\ proc[p].plan = {} /\ Running(p) /\ proc[p].cmd = "makemigrations"
  BY <1>1, LiveColumnsIs, ProcFacts DEF Clean, Consistent, Running
<1>4. Under = {}
  <2>1. ASSUME NEW q \in Processes, proc[q].plan # {} PROVE FALSE
    <3>1. q # p /\ Running(q)
      BY <2>1, <1>3, ProcFacts DEF Consistent, Running
    <3>2. QED
      BY <1>3, <3>1 DEF Alone
  <2>2. QED
    BY <2>1 DEF Under
<1>5. ASSUME NEW r \in DOMAIN files, Touches(r, t) PROVE r \in history \ Exempt
  <2>1. PICK o \in UpOps(r) : o.table = t
    BY <1>5 DEF Touches
  <2>2. t \in TablesOf(files[r]) /\ ~files[r].byHand
    BY <1>1, <2>1, TouchedTables, OnlyGenerated
  <2>3. r \notin unfinished
    BY <1>2, <1>3, <2>2
  <2>4. r \in history
    BY <1>3, <2>2 DEF Reading
  <2>5. QED
    BY <1>4, <2>3, <2>4 DEF Exempt
<1>6. t \in proc[p].tables <=> Has(t)
  BY <1>1, <1>3 DEF Reading
<1>7. CASE op.op = "create"
  <2>1. ~Has(t)
    BY <1>2, <1>6, <1>7
  <2>2. ASSUME NEW s \in DOMAIN files, Touches(s, t) PROVE FALSE
    <3>1. PICK r \in DOMAIN files : Creates(r, t)
      BY <1>1, <2>2 DEF Content, CreatedFirst
    <3>2. r \in history \ Exempt
      BY <1>5, <3>1 DEF Creates, Touches
    <3>3. QED
      BY <1>1, <2>1, <3>1, <3>2 DEF Live
  <2>3. QED
    BY <1>7, <2>1, <2>2 DEF Additional
<1>8. CASE op.op = "add"
  <2>1. Has(t)
    BY <1>2, <1>6, <1>8
  <2>2. \E r \in DOMAIN files : Creates(r, t)
    BY <1>1, <1>4, <2>1 DEF Live, Exempt, Types
  <2>3. ASSUME NEW r \in DOMAIN files, NEW c \in op.cols, Brings(r, t, c) PROVE FALSE
    <3>1. c \in Columns /\ c \notin schema[t]
      BY <1>1, <1>2, <1>8, <2>1, <2>3, ColumnsReadIs DEF Has
    <3>2. r \in history \ Exempt
      BY <1>5, <2>3 DEF Brings, Touches
    <3>3. QED
      BY <1>1, <2>1, <2>3, <3>1, <3>2 DEF Live
  <2>4. QED
    BY <1>8, <2>2, <2>3 DEF Additional
<1>9. QED
  BY <1>2, <1>7, <1>8

(* A directory that grows by migrations with nothing but what is new. *)
Grown ==
    \A r \in DOMAIN files' \ DOMAIN files :
        /\ \A s \in DOMAIN files : s <= r
        /\ \A s \in DOMAIN files' \ DOMAIN files : s = r
        /\ \A op \in UpOps(r)' : op.table \in Clean' => Additional(op)

(* Every new file that is generated is such. *)
LEMMA FilesGrown ==
    ASSUME Types, Alone, Content, Live, Progress, [MigrationNext]_migrationVars
    PROVE  Grown
<1>1. CASE files' = files
  BY <1>1 DEF Grown
<1>2. PICK n : n = Len(files) + 1
  OBVIOUS
<1>3. \A s \in DOMAIN files : s <= n
  BY <1>2, FileFacts
<1>4. CASE WriteByHand
  <2>1. PICK file \in ByHand : files' = Append(files, file)
    BY <1>4 DEF WriteByHand
  <2>2. file \in Migration /\ file.byHand
    BY MigrationsAssumption DEF MigrationsAssumption, Migration
  <2>3. DOMAIN files' = DOMAIN files \cup {n} /\ files'[n] = file /\ UpOps(n)' = {file.up[i] : i \in DOMAIN file.up}
    BY <1>2, <2>1, <2>2, OneFileMore, OldFiles
  <2>4. TablesOf(file) \subseteq ByHandTables'
    BY <2>2, <2>3 DEF ByHandTables
  <2>5. \A op \in UpOps(n)' : op.table \in TablesOf(file)
    BY <2>3 DEF TablesOf
  <2>6. \A op \in UpOps(n)' : op.table \notin Clean'
    BY <2>4, <2>5 DEF Clean
  <2>7. QED
    BY <1>3, <2>3, <2>6 DEF Grown
<1>5. ASSUME NEW p \in Processes, LiveColumns(p), files' # files PROVE Grown
  <2>1. Reading(p)
    BY DEF Progress
  <2>2. DOMAIN files' = DOMAIN files \cup {n}
    BY <1>2, <1>5, NewFile
  <2>3. \A op \in UpOps(n)' : op.table \in Clean' => Additional(op)
    BY <1>2, <1>5, <2>1, CleanShrinks, GeneratedOnce
  <2>4. QED
    BY <1>3, <2>2, <2>3 DEF Grown
<1>6. files' = files \/ WriteByHand \/ \E p \in Processes : LiveColumns(p)
  BY DEF MigrationNext, migrationVars, Begin, ReadHistory, Statement, Settle, Fails, LiveTables,
         EditModels, CreateAll, DropAll
<1>7. QED
  BY <1>1, <1>4, <1>5, <1>6

(* So the files keep one creator per table, and one origin per column. *)
LEMMA ContentKept ==
    ASSUME Types, Content, Grown, [MigrationNext]_migrationVars
    PROVE  Content'
<1>1. Clean' \subseteq Clean
  BY CleanShrinks
<1>2. \A r \in DOMAIN files : r \in DOMAIN files' /\ UpOps(r)' = UpOps(r)
  BY FilesGrow
<1>3. ASSUME NEW t \in Clean', NEW r \in DOMAIN files
      PROVE  /\ Creates(r, t)' <=> Creates(r, t)
             /\ Touches(r, t)' <=> Touches(r, t)
             /\ \A c \in Columns : Brings(r, t, c)' <=> Brings(r, t, c)
  BY <1>2 DEF Creates, Touches, Brings
<1>4. ASSUME NEW t \in Clean', NEW n \in DOMAIN files' \ DOMAIN files
      PROVE  /\ \A s \in DOMAIN files : s <= n
             /\ \A s \in DOMAIN files' : s \in DOMAIN files \/ s = n
             /\ Creates(n, t)' => \A s \in DOMAIN files : ~Touches(s, t)
             /\ Touches(n, t)' => Creates(n, t)' \/ \E s \in DOMAIN files : Creates(s, t)
             /\ \A c \in Columns : Brings(n, t, c)' => \A s \in DOMAIN files : ~Brings(s, t, c)
  <2>1. /\ \A s \in DOMAIN files : s <= n
        /\ \A s \in DOMAIN files' \ DOMAIN files : s = n
        /\ \A op \in UpOps(n)' : op.table = t => Additional(op)
    BY DEF Grown
  <2>2. Creates(n, t)' => \A s \in DOMAIN files : ~Touches(s, t)
    BY <2>1 DEF Creates, Additional
  <2>3. Touches(n, t)' => Creates(n, t)' \/ \E s \in DOMAIN files : Creates(s, t)
    BY <2>1 DEF Creates, Touches, Additional
  <2>4. ASSUME NEW c \in Columns, Brings(n, t, c)', NEW s \in DOMAIN files, Brings(s, t, c) PROVE FALSE
    BY <2>1, <2>4 DEF Brings, Touches, Additional
  <2>5. QED
    BY <2>1, <2>2, <2>3, <2>4
<1>5. \A r \in DOMAIN files' : r <= r
  <2>1. files' \in Seq(Migration)
    BY TypesKept DEF Types
  <2>2. QED
    BY <2>1
<1>6. Distinct'
  <2>1. ASSUME NEW t \in Clean', NEW r \in DOMAIN files', NEW s \in DOMAIN files', Creates(r, t)', Touches(s, t)'
        PROVE  r <= s
    <3>1. CASE r \in DOMAIN files /\ s \in DOMAIN files
      BY <1>1, <1>3, <2>1, <3>1 DEF Content, Distinct
    <3>2. CASE s \notin DOMAIN files
      BY <1>4, <1>5, <3>2
    <3>3. CASE r \notin DOMAIN files /\ s \in DOMAIN files
      BY <1>3, <1>4, <2>1, <3>3
    <3>4. QED
      BY <3>1, <3>2, <3>3
  <2>2. ASSUME NEW t \in Clean', NEW r \in DOMAIN files', NEW s \in DOMAIN files', NEW c \in Columns,
               Brings(r, t, c)', Brings(s, t, c)'
        PROVE  r = s
    <3>1. CASE r \in DOMAIN files /\ s \in DOMAIN files
      BY <1>1, <1>3, <2>2, <3>1 DEF Content, Distinct
    <3>2. CASE r \notin DOMAIN files
      BY <1>3, <1>4, <2>2, <3>2
    <3>3. CASE s \notin DOMAIN files
      BY <1>3, <1>4, <2>2, <3>3
    <3>4. QED
      BY <3>1, <3>2, <3>3
  <2>3. QED
    BY <2>1, <2>2 DEF Distinct
<1>7. CreatedFirst'
  <2>1. ASSUME NEW t \in Clean', NEW s \in DOMAIN files', Touches(s, t)'
        PROVE  \E r \in DOMAIN files' : r <= s /\ Creates(r, t)'
    <3>1. CASE s \in DOMAIN files
      <4>1. PICK r \in DOMAIN files : r <= s /\ Creates(r, t)
        BY <1>1, <1>3, <2>1, <3>1 DEF Content, CreatedFirst
      <4>2. QED
        BY <1>2, <1>3, <4>1
    <3>2. CASE s \notin DOMAIN files
      BY <1>2, <1>3, <1>4, <1>5, <2>1, <3>2
    <3>3. QED
      BY <3>1, <3>2
  <2>2. QED
    BY <2>1 DEF CreatedFirst
<1>8. QED
  BY <1>6, <1>7 DEF Content

-----------------------------------------------------------------------------
(* The live tables.                                                        *)

(* Who is at work on a revision stays so, or leaves it unfinished. *)
LEMMA ExemptStays ==
    ASSUME Types, NEW p \in Processes, unfinished \subseteq unfinished',
           \A q \in Processes \ {p} : proc'[q] = proc[q],
           \/ proc[p].plan = {} \/ proc'[p].plan = proc[p].plan
           \/ Current(p) \in unfinished'
    PROVE  Exempt \subseteq Exempt'
<1>1. ASSUME NEW q \in Processes, proc[q].plan # {} PROVE First(proc[q].plan) \in Exempt'
  <2>1. CASE proc'[q].plan = proc[q].plan
    BY <1>1, <2>1 DEF Exempt, Under
  <2>2. CASE proc'[q].plan # proc[q].plan
    BY <1>1, <2>2 DEF Exempt, Current
  <2>3. QED
    BY <2>1, <2>2
<1>2. QED
  BY <1>1 DEF Exempt, Under

(* The revision at hand is among them. *)
LEMMA CurrentExempt ==
    ASSUME NEW p \in Processes, proc[p].plan # {}
    PROVE  Current(p) \in Exempt
  BY DEF Exempt, Under, Current

(* The tables stay as they are, and so does what is recorded. *)
LEMMA LiveSame ==
    ASSUME Types, Live, Grown, [MigrationNext]_migrationVars, Exempt \subseteq Exempt',
           history' = history, \A t \in Clean' : schema'[t] = schema[t]
    PROVE  Live'
<1>1. Clean' \subseteq Clean
  BY CleanShrinks
<1>2. \A r \in DOMAIN files : r \in DOMAIN files' /\ UpOps(r)' = UpOps(r)
  BY FilesGrow
<1>3. ASSUME NEW t \in Clean', NEW r \in DOMAIN files
      PROVE  /\ Creates(r, t)' <=> Creates(r, t)
             /\ \A c \in Columns : Brings(r, t, c)' <=> Brings(r, t, c)
  BY <1>2 DEF Creates, Brings
<1>4. ASSUME NEW t \in Clean', NEW n \in DOMAIN files' \ DOMAIN files, Creates(n, t)'
      PROVE  ~Has(t)
  BY <1>4 DEF Grown, Creates, Additional
<1>5. \A t \in Clean' : Has(t)' <=> Has(t)
  BY DEF Has
<1>6. history \cup Exempt \subseteq DOMAIN files
  BY CurrentFacts DEF Types, Exempt, Under
<1>7. \A t \in Clean' : t \in Clean /\ (Has(t) => schema[t] \in SUBSET Columns)
  BY <1>1 DEF Types, Databases, Clean, Has
<1>8. ASSUME NEW t \in Clean', Has(t)' PROVE \E r \in (history \cup Exempt)' : Creates(r, t)'
  <2>1. PICK r \in history \cup Exempt : Creates(r, t)
    BY <1>5, <1>7, <1>8 DEF Live
  <2>2. QED
    BY <1>3, <1>6, <2>1
<1>9. ASSUME NEW t \in Clean', NEW r \in (history \ Exempt)', Creates(r, t)' PROVE Has(t)'
  BY <1>3, <1>5, <1>6, <1>7, <1>9 DEF Live
<1>10. ASSUME NEW t \in Clean', Has(t)', NEW c \in schema'[t]
       PROVE  \E r \in (history \cup Exempt)' : Brings(r, t, c)'
  <2>1. c \in Columns
    BY <1>7, <1>10 DEF Has
  <2>2. PICK r \in history \cup Exempt : Brings(r, t, c)
    BY <1>5, <1>7, <1>10 DEF Live
  <2>3. QED
    BY <1>3, <1>6, <2>1, <2>2
<1>11. ASSUME NEW t \in Clean', Has(t)', NEW r \in (history \ Exempt)', NEW c \in Columns, Brings(r, t, c)'
       PROVE  c \in schema'[t]
  BY <1>3, <1>5, <1>6, <1>7, <1>11 DEF Live
<1>12. ASSUME NEW t \in Clean', Has(t)', NEW r \in DOMAIN files', NEW c \in Columns,
              Creates(r, t)', Brings(r, t, c)'
       PROVE  c \in schema'[t]
  <2>1. CASE r \in DOMAIN files
    BY <1>3, <1>5, <1>7, <1>12, <2>1 DEF Live
  <2>2. CASE r \notin DOMAIN files
    BY <1>4, <1>5, <1>12, <2>2
  <2>3. QED
    BY <2>1, <2>2
<1>13. QED
  BY <1>8, <1>9, <1>10, <1>11, <1>12 DEF Live

(* The statement at hand, of a generated migration. *)
AtHand(p, op, r) ==
    /\ op = Head(proc[p].todo) /\ r = Current(p)
    /\ op \in Operation /\ r \in DOMAIN files /\ r \in proc[p].plan
    /\ Left(p) = {op} \cup {Tail(proc[p].todo)[i] : i \in DOMAIN Tail(proc[p].todo)}
    /\ Migrating(p) \/ RollingBack(p)
    /\ Migrating(p) => op \in UpOps(r)
    /\ RollingBack(p) => op \in DownOps(r)
    /\ op.table \in Clean =>
          /\ \A u \in UpOps(r) : u.table = op.table => u.op \in {"create", "add"}
          /\ \A u, v \in UpOps(r) : u.table = op.table /\ v.table = op.table /\ u # v =>
                u.op = "add" /\ u.cols \cap v.cols = {}
          /\ RollingBack(p) => \E u \in UpOps(r) : Undoes(op, u)

(* There is a statement at hand. *)
LEMMA AtHandIs ==
    ASSUME Types, WellFormed, NEW p \in Processes, Steps(p), proc[p].plan # {}, proc[p].todo # <<>>
    PROVE  \E op, r : AtHand(p, op, r)
<1> DEFINE op == Head(proc[p].todo)
           r  == Current(p)
<1>1. r \in DOMAIN files /\ r \in proc[p].plan
  BY CurrentFacts DEF Current
<1>2. PICK s \in Seq(Operation) : s = proc[p].todo
  BY ProcFacts
<1>3. /\ op \in Operation /\ op \in Left(p)
      /\ Left(p) = {op} \cup {Tail(proc[p].todo)[i] : i \in DOMAIN Tail(proc[p].todo)}
  <2>1. /\ Head(s) \in Operation /\ \E i \in DOMAIN s : s[i] = Head(s)
        /\ \A i \in DOMAIN s : s[i] = Head(s) \/ \E j \in DOMAIN Tail(s) : s[i] = Tail(s)[j]
        /\ \A j \in DOMAIN Tail(s) : \E i \in DOMAIN s : Tail(s)[j] = s[i]
    BY <1>2, HeadAndTail
  <2>2. {s[i] : i \in DOMAIN s} = {Head(s)} \cup {Tail(s)[i] : i \in DOMAIN Tail(s)}
    BY <2>1
  <2>3. Left(p) = {s[i] : i \in DOMAIN s} /\ op = Head(s)
    BY <1>2 DEF Left
  <2>4. op \in Operation /\ op \in Left(p)
    BY <2>1, <2>3
  <2>5. Left(p) = {Head(s)} \cup {Tail(s)[i] : i \in DOMAIN Tail(s)}
    BY <2>2, <2>3
  <2>6. QED
    BY <1>2, <2>3, <2>4, <2>5
<1>4. Migrating(p) \/ RollingBack(p)
  BY ProcFacts DEF Consistent, Migrating, RollingBack
<1>5. (Migrating(p) => op \in UpOps(r)) /\ (RollingBack(p) => op \in DownOps(r))
  BY <1>3 DEF Steps
<1>6. ASSUME op.table \in Clean PROVE ~files[r].byHand
  BY <1>1, <1>4, <1>5, <1>6, OnlyGenerated
<1>7. ASSUME op.table \in Clean
      PROVE  /\ \A u \in UpOps(r) : u.table = op.table => u.op \in {"create", "add"}
             /\ \A u, v \in UpOps(r) : u.table = op.table /\ v.table = op.table /\ u # v =>
                   u.op = "add" /\ u.cols \cap v.cols = {}
             /\ RollingBack(p) => \E u \in UpOps(r) : Undoes(op, u)
  BY <1>1, <1>5, <1>6, <1>7 DEF WellFormed
<1> HIDE DEF op, r
<1>8. AtHand(p, op, r)
  BY <1>1, <1>3, <1>4, <1>5, <1>7 DEF AtHand, op, r
<1>9. QED
  BY <1>8

(* What a statement does to a clean table: a migration adds to it, and a   *)
(* rollback takes away what its revision brought.                          *)
LEMMA TableAfter ==
    ASSUME Types, NEW p \in Processes, Applying(p), NEW op, NEW r, AtHand(p, op, r),
           NEW t \in Clean
    PROVE  /\ schema' \in Databases
           /\ t # op.table => schema'[t] = schema[t]
           /\ t = op.table /\ Migrating(p) =>
                 \/ op.op = "create" /\ schema'[t] = IF Has(t) THEN schema[t] ELSE op.cols
                 \/ op.op = "add" /\ Has(t) /\ schema'[t] = schema[t] \cup op.cols
           /\ t = op.table /\ RollingBack(p) =>
                 \E u \in UpOps(r) :
                    /\ u.table = t /\ u.op \in {"create", "add"}
                    /\ u.op = "create" => op.op = "droptable" /\ schema'[t] = Absent
                    /\ u.op = "add" => /\ op.op = "drop" /\ op.cols = u.cols /\ Has(t)
                                      /\ schema'[t] = schema[t] \ u.cols
<1>1. /\ ~Rejected(op, schema) /\ schema' = Applied(op, schema) /\ schema \in Databases
      /\ op \in Operation
  BY DEF Applying, AtHand, Types
<1>2. t \in Tables
  BY DEF Clean
<1>3. /\ schema' \in Databases
      /\ \A s \in Tables \ {op.table} : schema'[s] = schema[s]
      /\ op.op = "create" => schema'[op.table] = IF Has(op.table) THEN schema[op.table] ELSE op.cols
      /\ op.op = "droptable" => schema'[op.table] = Absent
      /\ op.op = "add" => schema'[op.table] = schema[op.table] \cup op.cols
      /\ op.op = "drop" => schema'[op.table] = schema[op.table] \ op.cols
  BY <1>1, AppliedIs DEF Has
<1>4. op.op \in {"add", "drop"} => Has(op.table)
  BY <1>1 DEF Rejected, Has
<1>5. ASSUME t = op.table, Migrating(p)
      PROVE  \/ op.op = "create" /\ schema'[t] = IF Has(t) THEN schema[t] ELSE op.cols
             \/ op.op = "add" /\ Has(t) /\ schema'[t] = schema[t] \cup op.cols
  <2>1. op.op \in {"create", "add"}
    BY <1>5 DEF AtHand
  <2>2. QED
    BY <1>3, <1>4, <1>5, <2>1
<1>6. ASSUME t = op.table, RollingBack(p)
      PROVE  \E u \in UpOps(r) :
                    /\ u.table = t /\ u.op \in {"create", "add"}
                    /\ u.op = "create" => op.op = "droptable" /\ schema'[t] = Absent
                    /\ u.op = "add" => /\ op.op = "drop" /\ op.cols = u.cols /\ Has(t)
                                      /\ schema'[t] = schema[t] \ u.cols
  <2>1. PICK u \in UpOps(r) : Undoes(op, u)
    BY <1>6 DEF AtHand
  <2>2. u.table = t /\ u.op \in {"create", "add"}
    BY <1>6, <2>1 DEF AtHand, Undoes
  <2>3. u.op = "create" => op.op = "droptable" /\ schema'[t] = Absent
    BY <1>3, <1>6, <2>1 DEF Undoes
  <2>4. u.op = "add" => op.op = "drop" /\ op.cols = u.cols /\ Has(t) /\ schema'[t] = schema[t] \ u.cols
    BY <1>3, <1>4, <1>6, <2>1 DEF Undoes
  <2>5. QED
    BY <2>2, <2>3, <2>4
<1>7. QED
  BY <1>2, <1>3, <1>5, <1>6

(* A migration only adds. *)
LEMMA Grows ==
    ASSUME Types, NEW p \in Processes, Applying(p), NEW op, NEW r, AtHand(p, op, r),
           Migrating(p), NEW t \in Clean
    PROVE  Has(t) => Has(t)' /\ schema[t] \subseteq schema'[t]
<1>1. \A cols \in SUBSET Columns : cols # Absent
  BY MigrationsAssumption DEF MigrationsAssumption
<1>2. op.cols \in SUBSET Columns /\ (Has(t) => schema[t] \in SUBSET Columns)
  BY OperationFacts DEF AtHand, Types, Databases, Clean, Has
<1>3. CASE t # op.table
  BY <1>3, TableAfter DEF Has
<1>4. CASE t = op.table /\ op.op = "create" /\ schema'[t] = IF Has(t) THEN schema[t] ELSE op.cols
  BY <1>1, <1>2, <1>4 DEF Has
<1>5. CASE t = op.table /\ op.op = "add" /\ schema'[t] = schema[t] \cup op.cols
  BY <1>1, <1>2, <1>5 DEF Has
<1>6. QED
  BY <1>3, <1>4, <1>5, TableAfter

(* A rollback only takes away. *)
LEMMA Shrinks ==
    ASSUME Types, NEW p \in Processes, Applying(p), NEW op, NEW r, AtHand(p, op, r),
           RollingBack(p), NEW t \in Clean
    PROVE  Has(t)' => Has(t) /\ schema'[t] \subseteq schema[t]
<1>1. CASE t # op.table
  BY <1>1, TableAfter DEF Has
<1>2. CASE t = op.table
  <2>1. PICK u \in UpOps(r) : /\ u.table = t /\ u.op \in {"create", "add"}
                              /\ u.op = "create" => schema'[t] = Absent
                              /\ u.op = "add" => Has(t) /\ schema'[t] = schema[t] \ u.cols
    BY <1>2, TableAfter
  <2>2. QED
    BY <2>1 DEF Has
<1>3. QED
  BY <1>1, <1>2

(* A table that is not clean, or of another revision. *)
LEMMA OneCreator ==
    ASSUME Types, Content, NEW t \in Clean, NEW r \in DOMAIN files, NEW s \in DOMAIN files,
           Creates(r, t), Touches(s, t)
    PROVE  r <= s /\ (Creates(s, t) => r = s)
<1>1. r <= s
  BY DEF Content, Distinct
<1>2. ASSUME Creates(s, t) PROVE r = s
  <2>1. Touches(r, t)
    BY DEF Creates, Touches
  <2>2. s <= r
    BY <1>2, <2>1 DEF Content, Distinct
  <2>3. r \in Nat /\ s \in Nat
    BY FileFacts
  <2>4. QED
    BY <1>1, <2>2, <2>3
<1>3. QED
  BY <1>1, <1>2

(* The tables and the history afterwards, of migrations that stay the same. *)
LiveAfter(t) ==
    /\ Has(t)' => \E r \in history' \cup Exempt' : Creates(r, t)
    /\ \A r \in history' \ Exempt' : Creates(r, t) => Has(t)'
    /\ Has(t)' =>
          /\ \A c \in schema'[t] : \E r \in history' \cup Exempt' : Brings(r, t, c)
          /\ \A r \in history' \ Exempt' : \A c \in Columns : Brings(r, t, c) => c \in schema'[t]
          /\ \A r \in DOMAIN files : \A c \in Columns :
                Creates(r, t) /\ Brings(r, t, c) => c \in schema'[t]

(* Live follows table by table. *)
LEMMA LiveBy ==
    ASSUME Types, UNCHANGED <<files, outside>>, schema' \in Databases,
           history' \cup Exempt' \subseteq DOMAIN files, \A t \in Clean : LiveAfter(t)
    PROVE  Live'
<1>1. Clean' = Clean /\ \A q \in DOMAIN files : UpOps(q)' = UpOps(q)
  BY DEF Clean, ByHandTables, UpOps
<1>2. \A q \in DOMAIN files : \A t \in Clean : /\ Creates(q, t)' <=> Creates(q, t)
                                               /\ \A c \in Columns : Brings(q, t, c)' <=> Brings(q, t, c)
  BY <1>1 DEF Creates, Brings
<1>3. ASSUME NEW t \in Clean', Has(t)' PROVE \E q \in (history \cup Exempt)' : Creates(q, t)'
  BY <1>1, <1>2, <1>3 DEF LiveAfter
<1>4. ASSUME NEW t \in Clean', NEW q \in (history \ Exempt)', Creates(q, t)' PROVE Has(t)'
  BY <1>1, <1>2, <1>4 DEF LiveAfter
<1>5. ASSUME NEW t \in Clean', Has(t)', NEW c \in schema'[t]
      PROVE  \E q \in (history \cup Exempt)' : Brings(q, t, c)'
  <2>1. c \in Columns
    BY <1>1, <1>5 DEF Databases, Has, Clean
  <2>2. PICK q \in history' \cup Exempt' : Brings(q, t, c)
    BY <1>1, <1>5 DEF LiveAfter
  <2>3. QED
    BY <1>1, <1>2, <2>1, <2>2
<1>6. ASSUME NEW t \in Clean', Has(t)', NEW q \in (history \ Exempt)', NEW c \in Columns, Brings(q, t, c)'
      PROVE  c \in schema'[t]
  BY <1>1, <1>2, <1>6 DEF LiveAfter
<1>7. ASSUME NEW t \in Clean', Has(t)', NEW q \in DOMAIN files', NEW c \in Columns,
              Creates(q, t)', Brings(q, t, c)'
      PROVE  c \in schema'[t]
  BY <1>1, <1>2, <1>7 DEF LiveAfter
<1>8. QED
  BY <1>3, <1>4, <1>5, <1>6, <1>7 DEF Live

(* A statement is carried out, and the tables differ from the history only *)
(* by the revision at hand.                                                *)
LEMMA LiveApplied ==
    ASSUME Types, Order, Content, Live, NEW p \in Processes, Applying(p), Standing(p),
           NEW op, NEW r, AtHand(p, op, r)
    PROVE  Live'
<1>1. files' = files /\ history' = history
  BY DEF Applying
<1>3. Exempt \subseteq Exempt' /\ r \in Exempt' /\ Exempt \subseteq DOMAIN files /\ r \in DOMAIN files
  <2>1. Exempt \subseteq Exempt'
    <3>1. /\ \A q \in Processes \ {p} : proc'[q] = proc[q]
          /\ unfinished \subseteq unfinished'
          /\ proc'[p].plan = proc[p].plan \/ Current(p) \in unfinished'
      BY DEF Applying
    <3>2. QED
      BY <3>1, ExemptStays
  <2>2. r \in Exempt
    BY CurrentExempt DEF Applying, AtHand
  <2>3. QED
    BY <2>1, <2>2, CurrentFacts DEF Types, Exempt, Under, AtHand
<1>4. history \subseteq DOMAIN files /\ Exempt' \subseteq DOMAIN files
  <2>1. unfinished' \subseteq DOMAIN files
    BY <1>3 DEF Types, Applying, AtHand
  <2>2. \A q \in Processes : proc'[q].plan = {} \/ proc'[q].plan = proc[q].plan
    BY IdleFacts DEF Applying
  <2>3. Under' \subseteq DOMAIN files
    BY <2>2, CurrentFacts DEF Under
  <2>4. QED
    BY <2>1, <2>3 DEF Types, Exempt
<1>5. \A t \in Clean : Has(t) => schema[t] \in SUBSET Columns
  BY DEF Types, Databases, Clean, Has
<1>6. \A cols \in SUBSET Columns : cols # Absent
  BY MigrationsAssumption DEF MigrationsAssumption
<1>7. op \in Operation /\ op.cols \in SUBSET Columns /\ op.table \in Tables
  BY OperationFacts DEF AtHand
<1>8. ASSUME NEW t \in Clean
      PROVE  /\ Has(t)' => \E q \in history \cup Exempt' : Creates(q, t)
             /\ \A q \in history \ Exempt' : Creates(q, t) => Has(t)'
             /\ Has(t)' =>
                  /\ \A c \in schema'[t] : \E q \in history \cup Exempt' : Brings(q, t, c)
                  /\ \A q \in history \ Exempt' : \A c \in Columns : Brings(q, t, c) => c \in schema'[t]
                  /\ \A q \in DOMAIN files : \A c \in Columns :
                        Creates(q, t) /\ Brings(q, t, c) => c \in schema'[t]
  <2>0. Has(t)' <=> schema'[t] # Absent
    BY DEF Has
  <2>1. CASE schema'[t] = schema[t]
    BY <1>3, <2>0, <2>1 DEF Live, Has
  <2>2. CASE t = op.table /\ Migrating(p) /\ op.op = "create" /\ ~Has(t) /\ schema'[t] = op.cols
    <3>1. op \in UpOps(r) /\ Creates(r, t) /\ \A c \in op.cols : Brings(r, t, c)
      BY <2>2 DEF AtHand, Creates, Brings
    <3>2. Has(t)'
      BY <1>6, <1>7, <2>0, <2>2
    <3>3. ASSUME NEW s \in history, Touches(s, t) PROVE FALSE
      <4>1. r <= s
        BY <1>3, <1>4, <3>1, <3>3, OneCreator
      <4>2. r \in 1..s
        BY <1>3, <1>4, <4>1, FileFacts
      <4>3. r \in history
        BY <4>2 DEF Order, InOrder
      <4>4. QED
        BY <2>2, <3>1, <4>3 DEF Standing, AtHand
    <3>4. ASSUME NEW q \in DOMAIN files, NEW c \in Columns, Creates(q, t), Brings(q, t, c)
          PROVE  c \in op.cols
      <4>1. Touches(r, t)
        BY <3>1 DEF Creates, Touches
      <4>2. q = r
        BY <1>3, <3>1, <3>4, <4>1, OneCreator
      <4>3. PICK u \in UpOps(r) : u.table = t /\ c \in u.cols
        BY <3>4, <4>2 DEF Brings
      <4>4. u = op
        BY <2>2, <3>1, <4>3 DEF AtHand
      <4>5. QED
        BY <4>3, <4>4
    <3>5. \A q \in history : \A c \in Columns : ~Brings(q, t, c)
      BY <3>3 DEF Brings, Touches
    <3>6. /\ \E q \in history \cup Exempt' : Creates(q, t)
          /\ \A c \in schema'[t] : \E q \in history \cup Exempt' : Brings(q, t, c)
      BY <1>3, <2>2, <3>1
    <3>7. \A q \in DOMAIN files : \A c \in Columns : Creates(q, t) /\ Brings(q, t, c) => c \in schema'[t]
      BY <2>2, <3>4
    <3>8. \A q \in history \ Exempt' : \A c \in Columns : Brings(q, t, c) => c \in schema'[t]
      BY <3>5
    <3>9. QED
      BY <3>2, <3>6, <3>7, <3>8
  <2>3. CASE t = op.table /\ Migrating(p) /\ op.op = "add" /\ Has(t) /\ schema'[t] = schema[t] \cup op.cols
    <3>1. \A c \in op.cols : Brings(r, t, c)
      BY <2>3 DEF AtHand, Brings
    <3>2. Has(t)'
      <4>1. schema[t] \cup op.cols \in SUBSET Columns
        BY <1>5, <1>7, <2>3
      <4>2. QED
        BY <1>6, <2>0, <2>3, <4>1
    <3>3. /\ \E q \in history \cup Exempt' : Creates(q, t)
          /\ \A c \in schema'[t] : \E q \in history \cup Exempt' : Brings(q, t, c)
      BY <1>3, <2>3, <3>1 DEF Live
    <3>4. \A q \in history \ Exempt' : \A c \in Columns : Brings(q, t, c) => c \in schema'[t]
      BY <1>3, <2>3 DEF Live
    <3>5. \A q \in DOMAIN files : \A c \in Columns : Creates(q, t) /\ Brings(q, t, c) => c \in schema'[t]
      BY <2>3 DEF Live
    <3>6. QED
      BY <3>2, <3>3, <3>4, <3>5
  <2>4. CASE t = op.table /\ RollingBack(p) /\ schema'[t] # schema[t]
    <3>1. PICK u \in UpOps(r) :
             /\ u.table = t /\ u.op \in {"create", "add"}
             /\ u.op = "create" => schema'[t] = Absent
             /\ u.op = "add" => Has(t) /\ schema'[t] = schema[t] \ u.cols
      BY <2>4, TableAfter
    <3>2. CASE u.op = "create"
      <4>1. ~Has(t)' /\ Creates(r, t) /\ Touches(r, t)
        BY <2>0, <3>1, <3>2 DEF Creates, Touches
      <4>2. \A q \in history \ Exempt' : ~Creates(q, t)
        BY <1>3, <1>4, <4>1, OneCreator
      <4>3. QED
        BY <4>1, <4>2
    <3>3. CASE u.op = "add"
      <4>1. \A c \in u.cols : Brings(r, t, c)
        BY <3>1 DEF Brings
      <4>2. ASSUME NEW q \in history \ Exempt', NEW c \in Columns, Brings(q, t, c) PROVE c \notin u.cols
        BY <1>3, <1>4, <4>1, <4>2 DEF Content, Distinct
      <4>3. ASSUME NEW q \in DOMAIN files, NEW c \in Columns, Creates(q, t), Brings(q, t, c)
            PROVE  c \notin u.cols
        <5>1. CASE c \in u.cols
          <6>1. q = r
            BY <1>3, <4>1, <4>3, <5>1 DEF Content, Distinct
          <6>2. PICK v \in UpOps(r) : v.table = t /\ v.op = "create"
            BY <4>3, <6>1 DEF Creates
          <6>3. QED
            BY <2>4, <3>1, <3>3, <6>2 DEF AtHand
        <5>2. QED
          BY <5>1
      <4>4. Has(t) /\ schema'[t] = schema[t] \ u.cols
        BY <3>1, <3>3
      <4>5. /\ \E q \in history \cup Exempt' : Creates(q, t)
            /\ \A c \in schema'[t] : \E q \in history \cup Exempt' : Brings(q, t, c)
        BY <1>3, <4>4 DEF Live
      <4>6. \A q \in history \ Exempt' : \A c \in Columns : Brings(q, t, c) => c \in schema'[t]
        BY <1>3, <4>2, <4>4 DEF Live
      <4>7. \A q \in DOMAIN files : \A c \in Columns : Creates(q, t) /\ Brings(q, t, c) => c \in schema'[t]
        BY <4>3, <4>4 DEF Live
      <4>8. Has(t)'
        <5>1. schema[t] \ u.cols \in SUBSET Columns
          BY <1>5, <4>4
        <5>2. QED
          BY <1>6, <2>0, <4>4, <5>1
      <4>9. QED
        BY <4>5, <4>6, <4>7, <4>8
    <3>4. QED
      BY <3>1, <3>2, <3>3
  <2>5. QED
    BY <2>1, <2>2, <2>3, <2>4, TableAfter DEF AtHand
<1>9. \A t \in Clean : LiveAfter(t)
  BY <1>1, <1>8 DEF LiveAfter
<1>10. schema' \in Databases /\ UNCHANGED <<files, outside>>
  <2>1. schema' \in Databases
    BY AppliedIs DEF Applying, AtHand, Types
  <2>2. QED
    BY <2>1 DEF Applying
<1>11. QED
  BY <1>1, <1>4, <1>9, <1>10, LiveBy

(* A revision is recorded when all that it makes is there, and removed     *)
(* when all that it made is gone.                                          *)
LEMMA LiveRecorded ==
    ASSUME Types, WellFormed, Content, Live, NEW p \in Processes, Recording(p), Effect(p)
    PROVE  Live'
<1>1. files' = files /\ schema' = schema /\ outside' = outside /\ schema' \in Databases
  BY DEF Recording, Types
<1>2. PICK r : r = Current(p)
  OBVIOUS
<1>4. /\ r \in DOMAIN files /\ Left(p) = {} /\ (Migrating(p) \/ RollingBack(p))
      /\ history' = Settled(proc[p].cmd, r) /\ unfinished' = unfinished \ {r}
  BY <1>2, CurrentFacts, ProcFacts DEF Recording, Left, Current, Consistent, Migrating, RollingBack
<1>5. Exempt \subseteq Exempt' \cup {r}
  <2>1. ASSUME NEW q \in Processes, proc[q].plan # {} PROVE First(proc[q].plan) \in Exempt' \cup {r}
    <3>1. CASE q = p
      BY <1>2, <3>1 DEF Current
    <3>2. CASE q # p
      BY <2>1, <3>2 DEF Recording, Exempt, Under
    <3>3. QED
      BY <3>1, <3>2
  <2>2. QED
    BY <1>4, <2>1 DEF Exempt, Under
<1>6. history \cup Exempt \subseteq DOMAIN files /\ history' \cup Exempt' \subseteq DOMAIN files
  <2>1. history \cup Exempt \subseteq DOMAIN files
    BY CurrentFacts DEF Types, Exempt, Under
  <2>2. history' \subseteq DOMAIN files /\ unfinished' \subseteq DOMAIN files
    BY <1>4 DEF Types, Settled
  <2>3. ASSUME NEW q \in Processes, proc'[q].plan # {} PROVE First(proc'[q].plan) \in DOMAIN files
    <3>1. CASE q = p
      <4>1. Current(p)' \in proc'[p].plan /\ proc'[p].plan \subseteq proc[p].plan
        BY <2>3, <3>1, IdleFacts DEF Recording
      <4>2. QED
        BY <3>1, <4>1, ProcFacts DEF Current
    <3>2. CASE q # p
      BY <2>3, <3>2, CurrentFacts DEF Recording
    <3>3. QED
      BY <3>1, <3>2
  <2>4. QED
    BY <2>1, <2>2, <2>3 DEF Exempt, Under
<1>7. \A t \in Clean : Has(t)' <=> Has(t)
  BY <1>1 DEF Has
<1>8. CASE Migrating(p)
  <2>1. history' = history \cup {r}
    BY <1>4, <1>8 DEF Settled, Migrating
  <2>2. ASSUME NEW t \in Clean PROVE /\ Creates(r, t) => Has(t)
                                     /\ Has(t) => \A c \in Columns : Brings(r, t, c) => c \in schema[t]
    BY <1>2, <1>4, <1>8 DEF Effect, Creates, Brings
  <2>3. history \cup Exempt \subseteq history' \cup Exempt' /\ history' \ Exempt' \subseteq (history \ Exempt) \cup {r}
    BY <1>5, <2>1
  <2>4. ASSUME NEW t \in Clean PROVE LiveAfter(t)
    BY <1>1, <1>7, <2>2, <2>3 DEF Live, LiveAfter
  <2>5. QED
    BY <1>1, <1>6, <2>4, LiveBy
<1>9. CASE RollingBack(p)
  <2>1. history' = history \ {r}
    BY <1>4, <1>9 DEF Settled, RollingBack
  <2>2. ASSUME NEW t \in Clean, Has(t), NEW u \in UpOps(r), u.table = t
        PROVE  u.op = "add" /\ u.cols \cap schema[t] = {}
    <3>1. ~files[r].byHand
      BY <1>4, <2>2, OnlyGenerated
    <3>2. u.op \in {"create", "add"}
      BY <1>4, <2>2, <3>1 DEF WellFormed
    <3>3. PICK d \in DownOps(r) : Undoes(d, u)
      BY <1>4, <2>2, <3>1 DEF WellFormed
    <3>4. d.op = "drop" /\ d.cols \cap schema[t] = {}
      BY <1>2, <1>4, <1>9, <2>2, <3>3 DEF Effect, Undoes
    <3>5. QED
      BY <3>2, <3>3, <3>4 DEF Undoes
  <2>3. ASSUME NEW t \in Clean, Has(t)
        PROVE  ~Creates(r, t) /\ \A c \in schema[t] : ~Brings(r, t, c)
    BY <2>2, <2>3 DEF Creates, Brings
  <2>4. history' \ Exempt' \subseteq history \ Exempt /\ (history \cup Exempt) \ {r} \subseteq history' \cup Exempt'
    BY <1>5, <2>1
  <2>5. ASSUME NEW t \in Clean PROVE LiveAfter(t)
    BY <1>1, <1>7, <2>3, <2>4 DEF Live, LiveAfter
  <2>6. QED
    BY <1>1, <1>6, <2>5, LiveBy
<1>10. QED
  BY <1>4, <1>8, <1>9

(* A step that neither touches a clean table nor records anything. *)
LeavesTables ==
    /\ history' = history /\ Exempt \subseteq Exempt'
    /\ \A t \in Clean' : schema'[t] = schema[t]

(* Developers and applications leave clean tables alone. *)
LEMMA EnvironmentIs ==
    ASSUME Types, Environment
    PROVE  LeavesTables /\ proc' = proc
<1>1. history' = history /\ unfinished' = unfinished /\ proc' = proc
  BY DEF Environment, EditModels, WriteByHand, CreateAll, DropAll
<1>2. Exempt' = Exempt
  BY <1>1 DEF Exempt, Under
<1>3. ASSUME NEW t \in Clean' PROVE schema'[t] = schema[t]
  <2>1. t \in Tables /\ t \notin outside'
    BY DEF Clean
  <2>2. CASE EditModels \/ WriteByHand
    BY <2>2 DEF EditModels, WriteByHand
  <2>3. CASE CreateAll
    BY <2>1, <2>3 DEF CreateAll
  <2>4. CASE DropAll
    BY <2>1, <2>4 DEF DropAll
  <2>5. QED
    BY <2>2, <2>3, <2>4 DEF Environment
<1>4. QED
  BY <1>1, <1>2, <1>3 DEF LeavesTables

(* So do the steps that neither apply nor record anything.                 *)
LEMMA QuietMoves ==
    ASSUME Types, NEW p \in Processes,
           \/ Ending(p) \/ ReadHistory(p) \/ LiveTables(p) \/ LiveColumns(p)
           \/ \E cmd \in {"migrate", "rollback", "makemigrations"} : Begin(p, cmd)
    PROVE  LeavesTables
<1>1. /\ \A q \in Processes \ {p} : proc'[q] = proc[q]
      /\ unfinished \subseteq unfinished' /\ history' = history /\ schema' = schema
      /\ proc[p].plan = {} \/ Current(p) \in unfinished'
  <2>1. CASE Ending(p)
    BY <2>1 DEF Ending
  <2>2. CASE ReadHistory(p)
    BY <2>2, PlanIs
  <2>3. CASE LiveTables(p)
    BY <2>3, LiveTablesIs
  <2>4. CASE LiveColumns(p)
    BY <2>4, LiveColumnsIs
  <2>5. CASE \E cmd \in {"migrate", "rollback", "makemigrations"} : Begin(p, cmd)
    BY <2>5, BeginIs
  <2>6. QED
    BY <2>1, <2>2, <2>3, <2>4, <2>5
<1>2. Exempt \subseteq Exempt'
  BY <1>1, ExemptStays
<1>3. QED
  BY <1>1, <1>2 DEF LeavesTables

(* The live tables keep following the revisions. *)
LEMMA LiveKept ==
    ASSUME Types, WellFormed, Order, Content, Live, Progress, Grown, [MigrationNext]_migrationVars
    PROVE  Live'
<1>1. CASE LeavesTables
  BY <1>1, LiveSame DEF LeavesTables
<1>2. ASSUME UNCHANGED migrationVars PROVE LeavesTables
  BY <1>2 DEF migrationVars, LeavesTables, Exempt, Under
<1>3. ASSUME NEW p \in Processes, Applying(p) PROVE Live'
  <2>1. Steps(p) /\ Standing(p) /\ proc[p].plan # {} /\ proc[p].todo # <<>>
    BY <1>3 DEF Progress, Applying
  <2>2. PICK op, r : AtHand(p, op, r)
    BY <2>1, AtHandIs
  <2>3. QED
    BY <1>3, <2>1, <2>2, LiveApplied
<1>4. ASSUME NEW p \in Processes, Recording(p) PROVE Live'
  BY <1>4, LiveRecorded DEF Progress
<1>5. QED
  BY <1>1, <1>2, <1>3, <1>4, StepIs, EnvironmentIs, QuietMoves, MoveIs

-----------------------------------------------------------------------------
(* The work of every process.                                              *)

(* A command that goes on as it was, while the tables that it works on     *)
(* keep what it has done.                                                  *)
LEMMA WorkStays ==
    ASSUME Types, [MigrationNext]_migrationVars, NEW q \in Processes, proc'[q] = proc[q],
           Steps(q), Effect(q), Standing(q),
           \A t \in Clean' :
              /\ Migrating(q) => (Has(t) => Has(t)' /\ schema[t] \subseteq schema'[t])
              /\ RollingBack(q) => (Has(t)' => Has(t) /\ schema'[t] \subseteq schema[t]),
           Migrating(q) => \A r \in proc[q].plan \cap (history' \ history) : \A t \in Clean' :
              Creates(r, t) => Has(t)'
    PROVE  Steps(q)' /\ Effect(q)' /\ Standing(q)'
<1>1. Clean' \subseteq Clean
  BY CleanShrinks
<1>2. \A r \in DOMAIN files : UpOps(r)' = UpOps(r) /\ DownOps(r)' = DownOps(r)
  BY FilesGrow
<1>3. proc[q].plan # {} => Current(q) \in DOMAIN files
  BY CurrentFacts DEF Current
<1>4. PICK r : r = Current(q)
  OBVIOUS
<1>5. Current(q)' = r /\ Left(q)' = Left(q) /\ (Migrating(q)' <=> Migrating(q)) /\ (RollingBack(q)' <=> RollingBack(q))
  BY <1>4 DEF Current, Left, Migrating, RollingBack
<1>6. ASSUME proc[q].plan # {} PROVE UpOps(Current(q))' = UpOps(r) /\ DownOps(Current(q))' = DownOps(r)
  <2>1. r \in DOMAIN files /\ UpOps(r)' = UpOps(r) /\ DownOps(r)' = DownOps(r)
    BY <1>2, <1>3, <1>4, <1>6
  <2>2. UpOps(Current(q))' = UpOps(r)' /\ DownOps(Current(q))' = DownOps(r)'
    BY <1>5 DEF UpOps, DownOps
  <2>3. QED
    BY <2>1, <2>2
<1>7. Steps(q)'
  BY <1>4, <1>5, <1>6 DEF Steps, Migrating, RollingBack
<1>8. ASSUME Migrating(q), NEW op \in UpOps(r) \ Left(q), op.table \in Clean'
      PROVE  Has(op.table)' /\ op.cols \subseteq schema'[op.table]
  <2>1. Has(op.table) /\ op.cols \subseteq schema[op.table]
    BY <1>1, <1>4, <1>8 DEF Effect
  <2>2. QED
    BY <1>8, <2>1
<1>9. ASSUME RollingBack(q), NEW op \in DownOps(r) \ Left(q), op.table \in Clean', Has(op.table)'
      PROVE  op.op = "drop" /\ op.cols \cap schema'[op.table] = {}
  <2>1. Has(op.table) /\ schema'[op.table] \subseteq schema[op.table]
    BY <1>9
  <2>2. op.op = "drop" /\ op.cols \cap schema[op.table] = {}
    BY <1>1, <1>4, <1>9, <2>1 DEF Effect
  <2>3. QED
    BY <2>1, <2>2
<1>10. Effect(q)'
  BY <1>5, <1>6, <1>8, <1>9 DEF Effect, Migrating, RollingBack
<1>11. ASSUME Migrating(q), NEW s \in proc[q].plan \cap history', NEW t \in Clean', Creates(s, t)'
       PROVE  Has(t)'
  <2>1. s \in DOMAIN files
    BY ProcFacts
  <2>2. Creates(s, t)
    BY <1>2, <1>11, <2>1 DEF Creates
  <2>3. CASE s \in history
    BY <1>1, <1>11, <2>2, <2>3 DEF Standing
  <2>4. CASE s \notin history
    BY <1>11, <2>2, <2>4
  <2>5. QED
    BY <2>3, <2>4
<1>12. Standing(q)'
  BY <1>5, <1>11 DEF Standing
<1>13. QED
  BY <1>7, <1>10, <1>12

(* A makemigrations is not disturbed by a step that leaves the tables. *)
LEMMA ReadingStays ==
    ASSUME Types, [MigrationNext]_migrationVars, NEW q \in Processes, proc'[q] = proc[q],
           Reading(q), LeavesTables,
           proc[q].pc \in {"tables", "columns"} => \A r \in DOMAIN files' \ DOMAIN files : files'[r].byHand
    PROVE  Reading(q)'
<1>1. Clean' \subseteq Clean
  BY CleanShrinks
<1>2. \A t \in Clean' : Has(t)' <=> Has(t)
  BY DEF LeavesTables, Has
<1>3. ASSUME proc[q].pc \in {"tables", "columns"}, NEW r \in DOMAIN files' \ history'
      PROVE  files'[r].byHand
  <2>1. CASE r \in DOMAIN files
    <3>1. files'[r] = files[r] /\ r \notin history
      BY <1>3, <2>1, FilesGrow DEF LeavesTables
    <3>2. QED
      BY <1>3, <2>1, <3>1 DEF Reading
  <2>2. CASE r \notin DOMAIN files
    BY <1>3, <2>2
  <2>3. QED
    BY <2>1, <2>2
<1>4. QED
  BY <1>1, <1>2, <1>3 DEF Reading

(* A command with nothing at hand. *)
LEMMA NothingAtHand ==
    ASSUME NEW q \in Processes, proc'[q].plan = {}, proc'[q].pc \notin {"tables", "columns"}
    PROVE  Steps(q)' /\ Effect(q)' /\ Standing(q)' /\ Reading(q)'
  BY DEF Steps, Effect, Standing, Reading, Migrating, RollingBack

(* A command that is at the first statement of a revision. *)
LEMMA AtFirst ==
    ASSUME Types, files' = files, NEW q \in Processes, proc'[q].pc = "run",
           Current(q)' \in DOMAIN files,
           proc'[q].todo = IF proc'[q].cmd = "rollback" THEN files[Current(q)'].down
                           ELSE files[Current(q)'].up
    PROVE  Steps(q)' /\ Effect(q)' /\ Reading(q)'
<1>1. PICK r : r = Current(q)'
  OBVIOUS
<1>2. UpOps(Current(q))' = UpOps(r) /\ DownOps(Current(q))' = DownOps(r)
  BY <1>1 DEF UpOps, DownOps
<1>3. Left(q)' = IF proc'[q].cmd = "rollback" THEN DownOps(r) ELSE UpOps(r)
  BY <1>1 DEF Left, UpOps, DownOps
<1>4. (Migrating(q)' => proc'[q].cmd = "migrate") /\ (RollingBack(q)' => proc'[q].cmd = "rollback")
  BY DEF Migrating, RollingBack
<1>5. (Migrating(q)' => Left(q)' = UpOps(Current(q))') /\ (RollingBack(q)' => Left(q)' = DownOps(Current(q))')
  BY <1>2, <1>3, <1>4
<1>6. QED
  BY <1>5 DEF Steps, Effect, Reading

(* A statement has the effect that later ones rely on. *)
LEMMA OwnStatement ==
    ASSUME Types, WellFormed, Order, Content, Live, [MigrationNext]_migrationVars,
           NEW p \in Processes, Applying(p), proc'[p] # Idle,
           Steps(p), Effect(p), Standing(p)
    PROVE  Steps(p)' /\ Effect(p)' /\ Standing(p)' /\ Reading(p)'
<1>1. /\ proc[p].plan # {} /\ proc[p].todo # <<>> /\ files' = files /\ outside' = outside
      /\ history' = history
      /\ proc'[p].cmd = proc[p].cmd /\ proc'[p].plan = proc[p].plan
      /\ proc'[p].todo = Tail(proc[p].todo) /\ proc'[p].pc = "run"
  BY DEF Applying
<1>2. PICK op, r : AtHand(p, op, r)
  BY <1>1, AtHandIs
<1>3. /\ Current(p)' = r /\ Current(p) = r /\ Clean' = Clean
      /\ (Migrating(p)' <=> Migrating(p)) /\ (RollingBack(p)' <=> RollingBack(p))
  BY <1>1, <1>2 DEF AtHand, Current, Clean, ByHandTables, Migrating, RollingBack
<1>4. UpOps(Current(p))' = UpOps(r) /\ DownOps(Current(p))' = DownOps(r)
  BY <1>1, <1>3 DEF UpOps, DownOps
<1>5. Left(p) = {op} \cup Left(p)'
  BY <1>1, <1>2 DEF AtHand, Left
<1>6. Steps(p)'
  BY <1>3, <1>4, <1>5 DEF Steps
<1>7. ASSUME Migrating(p), NEW o \in UpOps(r) \ Left(p)', o.table \in Clean
      PROVE  Has(o.table)' /\ o.cols \subseteq schema'[o.table]
  <2>1. CASE o \in Left(p)
    <3>1. o = op
      BY <1>5, <1>7, <2>1
    <3>2. CASE op.op = "create" /\ schema'[o.table] = IF Has(o.table) THEN schema[o.table] ELSE op.cols
      <4>1. CASE Has(o.table)
        <5>1. \A c \in o.cols : Creates(r, o.table) /\ Brings(r, o.table, c) /\ c \in Columns
          BY <1>2, <1>7, <3>1, <3>2, OperationFacts DEF AtHand, Creates, Brings
        <5>2. o.cols \subseteq schema[o.table]
          BY <1>2, <1>7, <4>1, <5>1 DEF AtHand, Live
        <5>3. QED
          BY <3>2, <4>1, <5>2 DEF Has
      <4>2. CASE ~Has(o.table)
        <5>1. op.cols # Absent
          BY <1>2, OperationFacts, MigrationsAssumption DEF AtHand, MigrationsAssumption
        <5>2. QED
          BY <3>1, <3>2, <4>2, <5>1 DEF Has
      <4>3. QED
        BY <4>1, <4>2
    <3>3. CASE op.op = "add" /\ Has(o.table) /\ schema'[o.table] = schema[o.table] \cup op.cols
      <4>1. Has(o.table)'
        BY <1>2, <1>7, <3>3, Grows
      <4>2. QED
        BY <3>1, <3>3, <4>1
    <3>4. QED
      BY <1>2, <1>7, <3>1, <3>2, <3>3, TableAfter
  <2>2. CASE o \notin Left(p)
    <3>1. Has(o.table) /\ o.cols \subseteq schema[o.table]
      BY <1>3, <1>7, <2>2 DEF Effect
    <3>2. Has(o.table)' /\ schema[o.table] \subseteq schema'[o.table]
      BY <1>2, <1>7, <3>1, Grows
    <3>3. QED
      BY <3>1, <3>2
  <2>3. QED
    BY <2>1, <2>2
<1>8. ASSUME RollingBack(p), NEW o \in DownOps(r) \ Left(p)', o.table \in Clean, Has(o.table)'
      PROVE  o.op = "drop" /\ o.cols \cap schema'[o.table] = {}
  <2>1. Has(o.table) /\ schema'[o.table] \subseteq schema[o.table]
    BY <1>2, <1>8, Shrinks
  <2>2. CASE o \in Left(p)
    <3>1. o = op
      BY <1>5, <1>8, <2>2
    <3>2. PICK u \in UpOps(r) :
             /\ u.op \in {"create", "add"}
             /\ u.op = "create" => schema'[o.table] = Absent
             /\ u.op = "add" => /\ op.op = "drop" /\ op.cols = u.cols
                               /\ schema'[o.table] = schema[o.table] \ u.cols
      BY <1>2, <1>8, <3>1, TableAfter
    <3>3. QED
      BY <1>8, <3>1, <3>2 DEF Has
  <2>3. CASE o \notin Left(p)
    <3>1. o.op = "drop" /\ o.cols \cap schema[o.table] = {}
      BY <1>3, <1>8, <2>1, <2>3 DEF Effect
    <3>2. QED
      BY <2>1, <3>1
  <2>4. QED
    BY <2>2, <2>3
<1>9. Effect(p)'
  BY <1>3, <1>4, <1>7, <1>8 DEF Effect
<1>10. ASSUME Migrating(p), NEW s \in proc[p].plan \cap history, NEW t \in Clean, Creates(s, t)' PROVE Has(t)'
  <2>1. Creates(s, t)
    BY <1>1, <1>10 DEF Creates, UpOps
  <2>2. Has(t)
    BY <1>10, <2>1 DEF Standing
  <2>3. QED
    BY <1>2, <1>10, <2>2, Grows
<1>11. Standing(p)'
  BY <1>1, <1>3, <1>10 DEF Standing
<1>12. Reading(p)'
  BY <1>1 DEF Reading
<1>13. QED
  BY <1>6, <1>9, <1>11, <1>12

(* Commands that run at the same time migrate, both of them. *)
LEMMA BothMigrate ==
    ASSUME Alone, NEW p \in Processes, NEW q \in Processes, p # q, Running(p), Running(q)
    PROVE  proc[p].cmd = "migrate" /\ proc[q].cmd = "migrate"
  BY DEF Alone

(* The work of one command after a statement of another. *)
LEMMA AfterStatement ==
    ASSUME Types, WellFormed, Order, Content, Live, Progress, [MigrationNext]_migrationVars,
           NEW p \in Processes, Applying(p), NEW q \in Processes
    PROVE  Steps(q)' /\ Effect(q)' /\ Standing(q)' /\ Reading(q)'
<1>1. /\ proc[p].plan # {} /\ proc[p].todo # <<>> /\ Running(p) /\ history' = history
      /\ q # p => proc'[q] = proc[q]
  BY ProcFacts DEF Applying, Consistent, Running
<1>2. CASE q = p /\ proc'[p] = Idle
  BY <1>2, IdleFacts, NothingAtHand
<1>3. CASE q = p /\ proc'[p] # Idle
  BY <1>3, OwnStatement DEF Progress
<1>4. CASE q # p /\ ~Running(q)
  BY <1>1, <1>4, ProcFacts, NothingAtHand DEF Consistent, Running
<1>5. CASE q # p /\ Running(q)
  <2>1. proc[p].cmd = "migrate" /\ proc[q].cmd = "migrate"
    BY <1>1, <1>5, BothMigrate DEF Order
  <2>2. Migrating(p) /\ ~RollingBack(q)
    BY <1>1, <2>1 DEF Migrating, RollingBack
  <2>3. PICK op, r : AtHand(p, op, r)
    BY <1>1, AtHandIs DEF Progress
  <2>4. \A t \in Clean' : Has(t) => Has(t)' /\ schema[t] \subseteq schema'[t]
    BY <2>2, <2>3, Grows, CleanShrinks
  <2>5. Steps(q)' /\ Effect(q)' /\ Standing(q)'
    <3>1. Steps(q) /\ Effect(q) /\ Standing(q) /\ history' \ history = {} /\ proc'[q] = proc[q]
      BY <1>1, <1>5 DEF Progress
    <3>2. QED
      BY <2>2, <2>4, <3>1, WorkStays
  <2>6. Reading(q)'
    <3>1. proc'[q].pc \notin {"tables", "columns"}
      BY <1>1, <1>5, <2>1, ProcFacts DEF Consistent
    <3>2. QED
      BY <3>1 DEF Reading
  <2>7. QED
    BY <2>5, <2>6
<1>6. QED
  BY <1>2, <1>3, <1>4, <1>5

(* The work of one command after another has recorded a revision. *)
LEMMA AfterRecord ==
    ASSUME Types, WellFormed, Order, Content, Live, Progress, [MigrationNext]_migrationVars,
           NEW p \in Processes, Recording(p), NEW q \in Processes
    PROVE  Steps(q)' /\ Effect(q)' /\ Standing(q)' /\ Reading(q)'
<1>1. /\ proc[p].plan # {} /\ Running(p) /\ Left(p) = {} /\ schema' = schema /\ files' = files /\ outside' = outside
      /\ q # p => proc'[q] = proc[q]
      /\ proc[p].cmd \in {"migrate", "rollback"}
  BY ProcFacts DEF Recording, Consistent, Running, Left
<1>2. PICK r : r = Current(p)
  OBVIOUS
<1>3. r \in DOMAIN files /\ r \in proc[p].plan /\ history' = Settled(proc[p].cmd, r)
  BY <1>1, <1>2, CurrentFacts DEF Current, Recording
<1>4. Clean' = Clean /\ \A t \in Clean : (Has(t)' <=> Has(t)) /\ \A s \in DOMAIN files : Creates(s, t)' <=> Creates(s, t)
  BY <1>1 DEF Clean, ByHandTables, Has, Creates, UpOps
<1>5. ASSUME Migrating(p), NEW t \in Clean, Creates(r, t) PROVE Has(t)
  BY <1>1, <1>2, <1>5 DEF Progress, Effect, Creates
<1>6. CASE q = p /\ proc'[p] = Idle
  BY <1>6, IdleFacts, NothingAtHand
<1>7. CASE q = p /\ proc'[p] # Idle
  <2>1. /\ proc'[p].cmd = proc[p].cmd /\ proc'[p].plan = proc[p].plan \ {r}
        /\ proc'[p].pc = "run" /\ Current(p)' \in proc'[p].plan
        /\ proc'[p].todo = IF proc[p].cmd = "rollback" THEN files[Current(p)'].down
                           ELSE files[Current(p)'].up
    BY <1>2, <1>7 DEF Recording
  <2>2. Current(p)' \in DOMAIN files
    BY <2>1, ProcFacts
  <2>3. Steps(p)' /\ Effect(p)' /\ Reading(p)'
    BY <1>1, <2>1, <2>2, AtFirst
  <2>4. ASSUME Migrating(p)', NEW s \in proc'[p].plan \cap history', NEW t \in Clean', Creates(s, t)' PROVE Has(t)'
    <3>1. Migrating(p) /\ history' = history \cup {r}
      BY <1>1, <1>3, <2>1, <2>4 DEF Migrating, Settled
    <3>2. s \in proc[p].plan \cap history /\ s \in DOMAIN files
      BY <2>1, <2>4, <3>1, ProcFacts
    <3>3. QED
      BY <1>4, <2>4, <3>1, <3>2 DEF Progress, Standing
  <2>5. Standing(p)'
    BY <2>4 DEF Standing
  <2>6. QED
    BY <1>7, <2>3, <2>5
<1>8. CASE q # p /\ ~Running(q)
  BY <1>1, <1>8, ProcFacts, NothingAtHand DEF Consistent, Running
<1>9. CASE q # p /\ Running(q)
  <2>1. proc[p].cmd = "migrate" /\ proc[q].cmd = "migrate"
    BY <1>1, <1>9, BothMigrate DEF Order
  <2>2. Migrating(p) /\ ~RollingBack(q) /\ history' \ history \subseteq {r}
    BY <1>1, <1>3, <2>1 DEF Migrating, RollingBack, Settled
  <2>3. \A t \in Clean' : Has(t) => Has(t)' /\ schema[t] \subseteq schema'[t]
    BY <1>1, <1>4
  <2>4. \A s \in proc[q].plan \cap (history' \ history) : \A t \in Clean' : Creates(s, t) => Has(t)'
    BY <1>4, <1>5, <2>2
  <2>5. Steps(q)' /\ Effect(q)' /\ Standing(q)'
    <3>1. Steps(q) /\ Effect(q) /\ Standing(q) /\ proc'[q] = proc[q]
      BY <1>1, <1>9 DEF Progress
    <3>2. QED
      BY <2>2, <2>3, <2>4, <3>1, WorkStays
  <2>6. Reading(q)'
    <3>1. proc'[q].pc \notin {"tables", "columns"}
      BY <1>1, <1>9, <2>1, ProcFacts DEF Consistent
    <3>2. QED
      BY <3>1 DEF Reading
  <2>7. QED
    BY <2>5, <2>6
<1>10. QED
  BY <1>6, <1>7, <1>8, <1>9

(* The work of a command that nobody disturbs. *)
LEMMA Undisturbed ==
    ASSUME Types, Progress, [MigrationNext]_migrationVars, NEW q \in Processes, proc'[q] = proc[q], LeavesTables,
           proc[q].pc \in {"tables", "columns"} => \A r \in DOMAIN files' \ DOMAIN files : files'[r].byHand
    PROVE  Steps(q)' /\ Effect(q)' /\ Standing(q)' /\ Reading(q)'
<1>1. \A t \in Clean' : (Has(t)' <=> Has(t)) /\ schema'[t] = schema[t]
  BY DEF LeavesTables, Has
<1>2. Steps(q) /\ Effect(q) /\ Standing(q) /\ Reading(q) /\ history' \ history = {}
  BY DEF Progress, LeavesTables
<1>3. Steps(q)' /\ Effect(q)' /\ Standing(q)'
  BY <1>1, <1>2, WorkStays
<1>4. QED
  BY <1>2, <1>3, ReadingStays

(* Every process stays in order, whatever another does. *)
LEMMA ProgressKept ==
    ASSUME Types, WellFormed, Order, Content, Live, Progress, [MigrationNext]_migrationVars, overlap' # "other"
    PROVE  Progress'
<1> SUFFICES ASSUME NEW q \in Processes
             PROVE  Steps(q)' /\ Effect(q)' /\ Standing(q)' /\ Reading(q)'
  BY DEF Progress
<1>1. CASE UNCHANGED migrationVars
  <2>1. LeavesTables
    BY <1>1 DEF migrationVars, LeavesTables, Exempt, Under
  <2>2. QED
    BY <1>1, <2>1, Undisturbed DEF migrationVars
<1>2. CASE Environment
  <2>1. LeavesTables /\ proc' = proc
    BY <1>2, EnvironmentIs
  <2>2. \A r \in DOMAIN files' \ DOMAIN files : files'[r].byHand
    <3>1. CASE WriteByHand
      <4>1. PICK file \in ByHand : files' = Append(files, file)
        BY <3>1 DEF WriteByHand
      <4>2. file \in Migration /\ file.byHand
        BY MigrationsAssumption DEF MigrationsAssumption, Migration
      <4>3. QED
        BY <4>1, <4>2, OneFileMore
    <3>2. CASE ~WriteByHand
      BY <1>2, <3>2 DEF Environment, EditModels, CreateAll, DropAll
    <3>3. QED
      BY <3>1, <3>2
  <2>3. QED
    BY <2>1, <2>2, Undisturbed
<1>3. ASSUME NEW p \in Processes, NEW cmd \in {"migrate", "rollback", "makemigrations"}, Begin(p, cmd)
      PROVE  Steps(q)' /\ Effect(q)' /\ Standing(q)' /\ Reading(q)'
  <2>1. CASE q = p
    BY <1>3, <2>1, BeginIs, NothingAtHand
  <2>2. CASE q # p
    BY <1>3, <2>2, BeginIs, QuietMoves, Undisturbed
  <2>3. QED
    BY <2>1, <2>2
<1>4. ASSUME NEW p \in Processes, Moves(p) PROVE Steps(q)' /\ Effect(q)' /\ Standing(q)' /\ Reading(q)'
  <2>1. CASE Applying(p)
    BY <2>1, AfterStatement
  <2>2. CASE Recording(p)
    BY <2>2, AfterRecord
  <2>3. ASSUME q # p, Ending(p) \/ ReadHistory(p) \/ LiveTables(p) \/ LiveColumns(p)
        PROVE  Steps(q)' /\ Effect(q)' /\ Standing(q)' /\ Reading(q)'
    <3>1. proc'[q] = proc[q] /\ Running(p)
      BY <1>4, <2>3, OthersStay
    <3>2. ASSUME proc[q].pc \in {"tables", "columns"} PROVE FALSE
      <4>1. Running(q) /\ proc[q].cmd = "makemigrations"
        BY <3>2, ProcFacts DEF Consistent, Running
      <4>2. QED
        BY <2>3, <3>1, <4>1, BothMigrate DEF Order
    <3>3. QED
      BY <2>3, <3>1, <3>2, QuietMoves, Undisturbed
  <2>4. CASE q = p /\ Ending(p)
    BY <2>4, IdleFacts, NothingAtHand DEF Ending
  <2>5. CASE q = p /\ LiveColumns(p)
    BY <2>5, LiveColumnsIs, IdleFacts, NothingAtHand
  <2>6. CASE q = p /\ LiveTables(p)
    <3>1. /\ proc[p].pc = "tables" /\ proc'[p].plan = {} /\ proc'[p].pc = "columns"
          /\ proc'[p].tables = {t \in Tables : schema[t] # Absent}
          /\ schema' = schema /\ files' = files /\ history' = history /\ outside' = outside
      BY <2>6, LiveTablesIs
    <3>2. Steps(p)' /\ Effect(p)' /\ Standing(p)'
      BY <3>1 DEF Steps, Effect, Standing, Migrating, RollingBack
    <3>3. \A r \in DOMAIN files \ history : files[r].byHand
      BY <3>1 DEF Progress, Reading
    <3>4. Reading(p)'
      BY <3>1, <3>3 DEF Reading, Has, Clean
    <3>5. QED
      BY <2>6, <3>2, <3>4
  <2>7. CASE q = p /\ ReadHistory(p)
    <3>1. PICK c : /\ HistoryRead(p, c) /\ proc'[p] = c
                   /\ UNCHANGED <<schema, files, history, outside>>
      BY <2>7, PlanIs
    <3>2. CASE c.plan = {}
      <4>1. Steps(p)' /\ Effect(p)' /\ Standing(p)'
        BY <3>1, <3>2 DEF Steps, Effect, Standing, Migrating, RollingBack
      <4>2. Reading(p)'
        BY <3>1 DEF Reading, HistoryRead
      <4>3. QED
        BY <2>7, <4>1, <4>2
    <3>3. CASE c.plan # {}
      <4>1. /\ c.pc = "run" /\ First(c.plan) \in c.plan /\ c.plan \subseteq DOMAIN files
            /\ c.cmd = "migrate" => c.plan = DOMAIN files \ history
            /\ c # Idle
        BY <3>1, <3>3, IdleFacts DEF HistoryRead, Consistent
      <4>2. c.cmd = proc[p].cmd
        BY <3>1, <4>1 DEF HistoryRead
      <4>3. Current(p)' = First(c.plan)
        BY <3>1 DEF Current
      <4>4. Steps(p)' /\ Effect(p)' /\ Reading(p)'
        <5>1. proc'[p].todo = IF proc'[p].cmd = "rollback" THEN files[Current(p)'].down
                              ELSE files[Current(p)'].up
          BY <3>1, <3>3, <4>2, <4>3 DEF HistoryRead
        <5>2. files' = files /\ proc'[p].pc = "run" /\ Current(p)' \in DOMAIN files
          BY <3>1, <4>1, <4>3
        <5>3. QED
          BY <5>1, <5>2, AtFirst
      <4>5. Standing(p)'
        BY <3>1, <4>1 DEF Standing, Migrating
      <4>6. QED
        BY <2>7, <4>4, <4>5
    <3>4. QED
      BY <3>2, <3>3
  <2>8. QED
    BY <1>4, <2>1, <2>2, <2>3, <2>4, <2>5, <2>6, <2>7, MoveIs
<1>5. QED
  BY <1>1, <1>2, <1>3, <1>4, StepIs

-----------------------------------------------------------------------------
(* The invariant holds.                                                    *)

(* The invariant holds at first. *)
LEMMA MigrationStarts == MigrationInit => MigrationInvariant
<1> SUFFICES ASSUME MigrationInit PROVE MigrationInvariant
  OBVIOUS
<1>1. Types
  BY TypesStart
<1>2. /\ DOMAIN files = {} /\ history = {} /\ \A t \in Tables : schema[t] = Absent
      /\ \A p \in Processes : proc[p] = Idle
  BY DEF MigrationInit
<1>3. WellFormed /\ Order
  BY <1>2, IdleFacts DEF WellFormed, Order, Alone, InOrder, Plans, Running, Migrating, RollingBack
<1>4. Content
  BY <1>2 DEF Content, Distinct, CreatedFirst
<1>5. Live
  BY <1>2 DEF Live, Has, Clean
<1>6. Progress
  BY <1>2, IdleFacts DEF Progress, Steps, Effect, Standing, Reading, Migrating, RollingBack
<1>7. QED
  BY <1>1, <1>3, <1>4, <1>5, <1>6 DEF MigrationInvariant

(* And every step keeps it. *)
LEMMA MigrationInvariantKept == MigrationInvariant /\ [MigrationNext]_migrationVars => MigrationInvariant'
<1> SUFFICES ASSUME MigrationInvariant, [MigrationNext]_migrationVars PROVE MigrationInvariant'
  OBVIOUS
<1>1. Types' /\ WellFormed'
  BY TypesKept, WellFormedKept DEF MigrationInvariant
<1>2. ASSUME overlap' # "other" PROVE Order' /\ Content' /\ Live' /\ Progress'
  <2>1. Types /\ WellFormed /\ Order /\ Content /\ Live /\ Progress
    BY <1>2, CalmWas DEF MigrationInvariant
  <2>2. Grown
    BY <2>1, FilesGrown DEF Order
  <2>3. QED
    BY <1>2, <2>1, <2>2, OrderKept, ContentKept, LiveKept, ProgressKept
<1>3. QED
  BY <1>1, <1>2 DEF MigrationInvariant

(* The invariant of the migrations: for any number of processes, tables,   *)
(* columns and files, in every order of statements, failures and commands  *)
(* that one process, or several that migrate, may run.                     *)
THEOREM MigrationInvariantAlways == MigrationSpec => []MigrationInvariant
  BY MigrationStarts, MigrationInvariantKept, PTL DEF MigrationSpec

(* Types: a plan holds revisions of the directory, and only a running      *)
(* command has one.                                                        *)
THEOREM MigrationTypes == MigrationSpec => []MigrationTypeOK
<1>1. MigrationInvariant => MigrationTypeOK
  BY TypesImply DEF MigrationInvariant
<1>2. QED
  BY <1>1, MigrationInvariantAlways, PTL

-----------------------------------------------------------------------------
(* What migrations make.                                                   *)

(* f is what g makes of a, step after step. *)
Iterates(f, N, D, a, g) ==
    f \in [0..N -> D] /\ f[0] = a /\ \A i \in 1..N : f[i] = g[i][f[i - 1]]

(* There is such a function. *)
LEMMA Iterated ==
    ASSUME NEW N \in Nat, NEW D, NEW a \in D, NEW g \in [1..N -> [D -> D]]
    PROVE  \E f : Iterates(f, N, D, a, g)
<1> DEFINE Reached(n) == \E f \in [0..n -> D] : f[0] = a /\ \A i \in 1..n : f[i] = g[i][f[i - 1]]
           Rest == {n \in 0..N : ~Reached(n)}
<1>1. Reached(0)
  <2> DEFINE f == [i \in 0..0 |-> a]
  <2>1. f \in [0..0 -> D] /\ f[0] = a /\ \A i \in 1..0 : f[i] = g[i][f[i - 1]]
    OBVIOUS
  <2>2. QED
    BY <2>1
<1>2. ASSUME NEW n \in 0..N, n # 0, Reached(n - 1) PROVE Reached(n)
  <2>1. PICK e \in [0..(n - 1) -> D] : e[0] = a /\ \A i \in 1..(n - 1) : e[i] = g[i][e[i - 1]]
    BY <1>2
  <2> DEFINE f == [i \in 0..n |-> IF i = n THEN g[n][e[n - 1]] ELSE e[i]]
  <2>2. n \in 1..N /\ n - 1 \in 0..(n - 1)
    BY <1>2
  <2>3. g[n] \in [D -> D] /\ e[n - 1] \in D
    BY <2>2
  <2>4. f \in [0..n -> D]
    BY <2>2, <2>3
  <2>5. f[0] = a
    BY <2>1, <2>2
  <2>6. ASSUME NEW i \in 1..n PROVE f[i] = g[i][f[i - 1]]
    <3>1. f[i - 1] = e[i - 1] /\ i - 1 \in 0..(n - 1)
      BY <2>2
    <3>2. CASE i = n
      BY <3>1, <3>2
    <3>3. CASE i # n
      BY <2>1, <3>1, <3>3
    <3>4. QED
      BY <3>2, <3>3
  <2> HIDE DEF f
  <2>7. QED
    BY <2>4, <2>5, <2>6
<1> HIDE DEF Reached
<1>3. CASE Rest # {}
  <2>1. Rest \in SUBSET Nat
    OBVIOUS
  <2>2. PICK n : n = First(Rest)
    OBVIOUS
  <2>3. n \in Rest /\ \A m \in Rest : n <= m
    BY <1>3, <2>1, <2>2, FirstIs
  <2>4. n \in 0..N /\ n # 0 /\ ~Reached(n)
    BY <1>1, <2>3
  <2>5. n - 1 \in 0..N /\ n - 1 \notin Rest
    BY <2>3, <2>4
  <2>6. QED
    BY <1>2, <2>4, <2>5
<1>4. CASE Rest = {}
  <2>1. Reached(N)
    BY <1>4
  <2>2. QED
    BY <2>1 DEF Reached, Iterates
<1>5. QED
  BY <1>3, <1>4

(* One statement, and all those of a migration. *)
LEMMA AfterIs ==
    ASSUME NEW op \in Operation, NEW db \in Databases
    PROVE  After(op, db) \in Databases
  BY AppliedIs DEF After

(* What the statements make, one after the other. *)
Run(ops, db, run) ==
    /\ run \in [0..Len(ops) -> Databases] /\ run[0] = db
    /\ \A i \in 1..Len(ops) : run[i] = After(ops[i], run[i - 1])
    /\ AfterAll(ops, db) = run[Len(ops)]

(* AfterAll is such a run. *)
LEMMA AfterAllIs ==
    ASSUME NEW ops \in Seq(Operation), NEW db \in Databases
    PROVE  \E run : Run(ops, db, run)
<1> DEFINE N == Len(ops)
           g == [i \in 1..N |-> [d \in Databases |-> After(ops[i], d)]]
           Fix(f) == f = [i \in 0..N |-> IF i = 0 THEN db ELSE After(ops[i], f[i - 1])]
           run == CHOOSE f : Fix(f)
<1>1. N \in Nat /\ \A i \in 1..N : ops[i] \in Operation
  OBVIOUS
<1>2. g \in [1..N -> [Databases -> Databases]]
  BY <1>1, AfterIs
<1> HIDE DEF N, g
<1>3. PICK f : Iterates(f, N, Databases, db, g)
  BY <1>1, <1>2, Iterated
<1>4. f \in [0..N -> Databases] /\ f[0] = db /\ \A i \in 1..N : f[i] = g[i][f[i - 1]]
  BY <1>3 DEF Iterates
<1>5. \A i \in 1..N : f[i] = After(ops[i], f[i - 1])
  <2>1. ASSUME NEW i \in 1..N PROVE f[i] = After(ops[i], f[i - 1])
    <3>1. i - 1 \in 0..N
      BY <1>1
    <3>2. QED
      BY <1>4, <3>1 DEF g
  <2>2. QED
    BY <2>1
<1>6. Fix(f)
  <2>1. \A i \in 0..N : f[i] = IF i = 0 THEN db ELSE After(ops[i], f[i - 1])
    BY <1>1, <1>4, <1>5
  <2>2. f = [i \in 0..N |-> f[i]]
    BY <1>4
  <2>3. QED
    BY <2>1, <2>2
<1>7. Fix(run)
  <2>1. \E h : Fix(h)
    BY <1>6
  <2> HIDE DEF Fix
  <2>2. QED
    BY <2>1, Zenon
<1>8. AfterAll(ops, db) = run[N]
  BY DEF AfterAll, N
<1> HIDE DEF run
<1>9. /\ run[0] = db /\ \A i \in 1..N : run[i] = After(ops[i], run[i - 1])
      /\ run = [i \in 0..N |-> run[i]]
  <2>1. run = [i \in 0..N |-> IF i = 0 THEN db ELSE After(ops[i], run[i - 1])]
    BY <1>7
  <2>2. PICK h : h = [i \in 0..N |-> IF i = 0 THEN db ELSE After(ops[i], run[i - 1])]
    OBVIOUS
  <2>3. /\ h = [i \in 0..N |-> h[i]]
        /\ \A i \in 0..N : h[i] = IF i = 0 THEN db ELSE After(ops[i], run[i - 1])
    BY <2>2
  <2>4. QED
    BY <1>1, <2>1, <2>2, <2>3
<1>10. \A i \in 0..N : run[i] \in Databases
  <2> DEFINE Odd == {i \in 0..N : run[i] \notin Databases}
  <2>1. CASE Odd # {}
    <3>1. PICK n : n = First(Odd)
      OBVIOUS
    <3>2. Odd \in SUBSET Nat
      BY <1>1
    <3>3. n \in Odd /\ \A m \in Odd : n <= m
      BY <2>1, <3>1, <3>2, FirstIs
    <3>4. n # 0 /\ n \in 1..N
      BY <1>1, <1>9, <3>3
    <3>5. n - 1 \in 0..N /\ n - 1 \notin Odd
      BY <1>1, <3>3, <3>4
    <3>6. run[n - 1] \in Databases /\ run[n] = After(ops[n], run[n - 1]) /\ ops[n] \in Operation
      BY <1>1, <1>9, <3>4, <3>5
    <3>7. run[n] \in Databases
      BY <3>6, AfterIs
    <3>8. QED
      BY <3>3, <3>7
  <2>2. QED
    BY <2>1
<1>11. run \in [0..N -> Databases]
  BY <1>9, <1>10
<1>12. Run(ops, db, run)
  BY <1>8, <1>9, <1>11 DEF Run, N
<1>13. QED
  BY <1>12

(* A migration makes of one database another. *)
LEMMA AfterAllTyped ==
    ASSUME NEW ops \in Seq(Operation), NEW db \in Databases
    PROVE  AfterAll(ops, db) \in Databases
<1>1. PICK run : Run(ops, db, run)
  BY AfterAllIs
<1>2. Len(ops) \in 0..Len(ops)
  OBVIOUS
<1>3. QED
  BY <1>1, <1>2 DEF Run

(* Statements that create the one table, all alike. *)
OnlyCreate(ops, t, cols) ==
    /\ cols \in SUBSET Columns
    /\ \A i \in DOMAIN ops : ops[i].table = t => ops[i].op = "create" /\ ops[i].cols = cols

(* Those statements make the table, or nothing. *)
LEMMA AfterCreate ==
    ASSUME NEW ops \in Seq(Operation), NEW db \in Databases, NEW t \in Tables, NEW cols,
           db[t] = Absent, OnlyCreate(ops, t, cols)
    PROVE  AfterAll(ops, db)[t] =
              IF \E i \in DOMAIN ops : ops[i].table = t THEN cols ELSE Absent
<1>1. PICK run : Run(ops, db, run)
  BY AfterAllIs
<1>2. PICK N \in Nat : N = Len(ops) /\ DOMAIN ops = 1..N /\ \A i \in 1..N : ops[i] \in Operation
  OBVIOUS
<1>3. /\ run \in [0..N -> Databases] /\ run[0] = db
      /\ \A i \in 1..N : run[i] = After(ops[i], run[i - 1])
      /\ AfterAll(ops, db) = run[N]
  BY <1>1, <1>2 DEF Run
<1> DEFINE So(n) == run[n][t] = IF \E i \in 1..n : ops[i].table = t THEN cols ELSE Absent
           Odd == {n \in 0..N : ~So(n)}
<1>4. So(0)
  BY <1>3
<1>5. ASSUME NEW n \in 1..N, So(n - 1) PROVE So(n)
  <2>1. /\ n - 1 \in 0..N /\ run[n - 1] \in Databases /\ ops[n] \in Operation
        /\ run[n] = After(ops[n], run[n - 1])
    BY <1>2, <1>3
  <2>2. \A i \in 1..n : i = n \/ i \in 1..(n - 1)
    OBVIOUS
  <2>3. \A i \in 1..(n - 1) : i \in 1..n
    OBVIOUS
  <2>4. CASE ops[n].table # t
    <3>1. run[n][t] = run[n - 1][t]
      BY <2>1, <2>4, AppliedIs DEF After
    <3>2. (\E i \in 1..n : ops[i].table = t) <=> (\E i \in 1..(n - 1) : ops[i].table = t)
      BY <2>2, <2>3, <2>4
    <3>3. QED
      BY <1>5, <3>1, <3>2
  <2>5. CASE ops[n].table = t
    <3>1. ops[n].op = "create" /\ ops[n].cols = cols
      BY <1>2, <2>5 DEF OnlyCreate
    <3>2. ~Rejected(ops[n], run[n - 1])
      BY <3>1 DEF Rejected
    <3>3. run[n][t] = IF run[n - 1][t] = Absent THEN cols ELSE run[n - 1][t]
      BY <2>1, <2>5, <3>1, <3>2, AppliedIs DEF After
    <3>4. run[n][t] = cols
      BY <1>5, <3>3
    <3>5. n \in 1..n
      OBVIOUS
    <3>6. QED
      BY <2>5, <3>4, <3>5
  <2>6. QED
    BY <2>4, <2>5
<1> HIDE DEF So
<1>6. Odd = {}
  <2>1. CASE Odd # {}
    <3>1. PICK n : n = First(Odd)
      OBVIOUS
    <3>2. Odd \in SUBSET Nat
      OBVIOUS
    <3>3. n \in Odd /\ \A m \in Odd : n <= m
      BY <2>1, <3>1, <3>2, FirstIs
    <3>4. n \in 1..N /\ n - 1 \in 0..N /\ n - 1 \notin Odd
      BY <1>4, <3>3
    <3>5. QED
      BY <1>5, <3>3, <3>4
  <2>2. QED
    BY <2>1
<1>7. So(N)
  BY <1>6
<1>8. QED
  BY <1>2, <1>3, <1>7 DEF So

(* Statements that add to the one table. *)
LEMMA AfterAdd ==
    ASSUME NEW ops \in Seq(Operation), NEW db \in Databases, NEW t \in Tables, db[t] # Absent,
           \A i \in DOMAIN ops : ops[i].table = t => ops[i].op = "add"
    PROVE  /\ AfterAll(ops, db)[t] # Absent
           /\ \A c : c \in AfterAll(ops, db)[t] <=>
                 c \in db[t] \/ \E i \in DOMAIN ops : ops[i].table = t /\ c \in ops[i].cols
<1>1. PICK run : Run(ops, db, run)
  BY AfterAllIs
<1>2. PICK N \in Nat : N = Len(ops) /\ DOMAIN ops = 1..N /\ \A i \in 1..N : ops[i] \in Operation
  OBVIOUS
<1>3. /\ run \in [0..N -> Databases] /\ run[0] = db
      /\ \A i \in 1..N : run[i] = After(ops[i], run[i - 1])
      /\ AfterAll(ops, db) = run[N]
  BY <1>1, <1>2 DEF Run
<1> DEFINE So(n) == /\ run[n][t] # Absent
                    /\ \A c : c \in run[n][t] <=>
                          c \in db[t] \/ \E i \in 1..n : ops[i].table = t /\ c \in ops[i].cols
           Odd == {n \in 0..N : ~So(n)}
<1>4. So(0)
  BY <1>3
<1>5. ASSUME NEW n \in 1..N, So(n - 1) PROVE So(n)
  <2>1. /\ n - 1 \in 0..N /\ run[n - 1] \in Databases /\ ops[n] \in Operation
        /\ run[n] = After(ops[n], run[n - 1])
    BY <1>2, <1>3
  <2>2. \A i \in 1..n : i = n \/ i \in 1..(n - 1)
    OBVIOUS
  <2>3. (\A i \in 1..(n - 1) : i \in 1..n) /\ n \in 1..n
    OBVIOUS
  <2>4. CASE ops[n].table # t
    <3>1. run[n][t] = run[n - 1][t]
      BY <2>1, <2>4, AppliedIs DEF After
    <3>2. \A c : (\E i \in 1..n : ops[i].table = t /\ c \in ops[i].cols)
                 <=> (\E i \in 1..(n - 1) : ops[i].table = t /\ c \in ops[i].cols)
      BY <2>2, <2>3, <2>4
    <3>3. QED
      BY <1>5, <3>1, <3>2
  <2>5. CASE ops[n].table = t
    <3>1. ops[n].op = "add" /\ run[n - 1][t] # Absent /\ run[n - 1][t] \in SUBSET Columns
      BY <1>2, <1>5, <2>1, <2>5 DEF Databases
    <3>2. ~Rejected(ops[n], run[n - 1])
      BY <2>5, <3>1 DEF Rejected
    <3>3. run[n][t] = run[n - 1][t] \cup ops[n].cols
      BY <2>1, <2>5, <3>1, <3>2, AppliedIs DEF After
    <3>4. run[n][t] # Absent
      BY <2>1, <3>1, <3>3, OperationFacts, MigrationsAssumption DEF MigrationsAssumption
    <3>5. \A c : (\E i \in 1..n : ops[i].table = t /\ c \in ops[i].cols)
                 <=> (c \in ops[n].cols \/ \E i \in 1..(n - 1) : ops[i].table = t /\ c \in ops[i].cols)
      BY <2>2, <2>3, <2>5
    <3>6. QED
      BY <1>5, <3>3, <3>4, <3>5
  <2>6. QED
    BY <2>4, <2>5
<1> HIDE DEF So
<1>6. Odd = {}
  <2>1. CASE Odd # {}
    <3>1. PICK n : n = First(Odd)
      OBVIOUS
    <3>2. Odd \in SUBSET Nat
      OBVIOUS
    <3>3. n \in Odd /\ \A m \in Odd : n <= m
      BY <2>1, <3>1, <3>2, FirstIs
    <3>4. n \in 1..N /\ n - 1 \in 0..N /\ n - 1 \notin Odd
      BY <1>4, <3>3
    <3>5. QED
      BY <1>5, <3>3, <3>4
  <2>2. QED
    BY <2>1
<1>7. So(N)
  BY <1>6
<1>8. QED
  BY <1>2, <1>3, <1>7 DEF So

(* What all migrations make, one after the other. *)
Making(made) ==
    /\ made \in [0..Len(files) -> Databases] /\ made[0] = [t \in Tables |-> Absent]
    /\ \A i \in 1..Len(files) : made[i] = AfterAll(files[i].up, made[i - 1])
    /\ \A n \in 0..Len(files) : Made(n) = made[n]

(* Made is such a function. *)
LEMMA MadeIs ==
    ASSUME Types
    PROVE  \E made : Making(made)
<1> DEFINE N == Len(files)
           none == [t \in Tables |-> Absent]
           g == [i \in 1..N |-> [d \in Databases |-> AfterAll(files[i].up, d)]]
           Fix(f) == f = [i \in 0..N |-> IF i = 0 THEN none ELSE AfterAll(files[i].up, f[i - 1])]
           made == CHOOSE f : Fix(f)
<1>1. N \in Nat /\ \A i \in 1..N : files[i].up \in Seq(Operation)
  BY FileFacts
<1>2. g \in [1..N -> [Databases -> Databases]] /\ none \in Databases
  BY <1>1, AfterAllTyped DEF Databases
<1>3. \A n : Made(n) = made[n]
  BY DEF Made
<1> HIDE DEF N, g, none
<1>4. PICK f : Iterates(f, N, Databases, none, g)
  BY <1>1, <1>2, Iterated
<1>5. f \in [0..N -> Databases] /\ f[0] = none /\ \A i \in 1..N : f[i] = g[i][f[i - 1]]
  BY <1>4 DEF Iterates
<1>6. \A i \in 1..N : f[i] = AfterAll(files[i].up, f[i - 1])
  <2>1. ASSUME NEW i \in 1..N PROVE f[i] = AfterAll(files[i].up, f[i - 1])
    <3>1. i - 1 \in 0..N
      BY <1>1
    <3>2. QED
      BY <1>5, <3>1 DEF g
  <2>2. QED
    BY <2>1
<1>7. Fix(f)
  <2>1. \A i \in 0..N : f[i] = IF i = 0 THEN none ELSE AfterAll(files[i].up, f[i - 1])
    BY <1>1, <1>5, <1>6
  <2>2. f = [i \in 0..N |-> f[i]]
    BY <1>5
  <2>3. QED
    BY <2>1, <2>2
<1>8. Fix(made)
  <2>1. \E h : Fix(h)
    BY <1>7
  <2> HIDE DEF Fix
  <2>2. QED
    BY <2>1, Zenon
<1> HIDE DEF made
<1>9. /\ made[0] = none /\ \A i \in 1..N : made[i] = AfterAll(files[i].up, made[i - 1])
      /\ made = [i \in 0..N |-> made[i]]
  <2>1. made = [i \in 0..N |-> IF i = 0 THEN none ELSE AfterAll(files[i].up, made[i - 1])]
    BY <1>8
  <2>2. PICK h : h = [i \in 0..N |-> IF i = 0 THEN none ELSE AfterAll(files[i].up, made[i - 1])]
    OBVIOUS
  <2>3. /\ h = [i \in 0..N |-> h[i]]
        /\ \A i \in 0..N : h[i] = IF i = 0 THEN none ELSE AfterAll(files[i].up, made[i - 1])
    BY <2>2
  <2>4. made = h
    BY <2>1, <2>2
  <2>5. made[0] = none
    BY <1>1, <2>3, <2>4
  <2>6. ASSUME NEW i \in 1..N PROVE made[i] = AfterAll(files[i].up, made[i - 1])
    <3>1. i \in 0..N /\ i # 0
      BY <1>1
    <3>2. h[i] = AfterAll(files[i].up, made[i - 1])
      BY <2>3, <3>1
    <3>3. QED
      BY <2>4, <3>2
  <2>7. QED
    BY <2>3, <2>4, <2>5, <2>6
<1>10. \A i \in 0..N : made[i] \in Databases
  <2> DEFINE Odd == {i \in 0..N : made[i] \notin Databases}
  <2>1. CASE Odd # {}
    <3>1. PICK n : n = First(Odd)
      OBVIOUS
    <3>2. Odd \in SUBSET Nat
      BY <1>1
    <3>3. n \in Odd /\ \A m \in Odd : n <= m
      BY <2>1, <3>1, <3>2, FirstIs
    <3>4. n # 0 /\ n \in 1..N
      BY <1>1, <1>2, <1>9, <3>3
    <3>5. n - 1 \in 0..N /\ n - 1 \notin Odd
      BY <1>1, <3>3, <3>4
    <3>6. made[n - 1] \in Databases /\ made[n] = AfterAll(files[n].up, made[n - 1])
          /\ files[n].up \in Seq(Operation)
      BY <1>1, <1>9, <3>4, <3>5
    <3>7. made[n] \in Databases
      BY <3>6, AfterAllTyped
    <3>8. QED
      BY <3>3, <3>7
  <2>2. QED
    BY <2>1
<1>11. made \in [0..N -> Databases]
  BY <1>9, <1>10
<1>12. Making(made)
  BY <1>3, <1>9, <1>11 DEF Making, N, none
<1>13. QED
  BY <1>12

(* A clean table is what the migrations up to n brought. *)
Brought(db, n, t) ==
    /\ db[t] # Absent <=> \E r \in 1..n : Creates(r, t)
    /\ db[t] # Absent => \A c : c \in db[t] <=> \E r \in 1..n : Brings(r, t, c)

(* One revision more brings what it brings. *)
LEMMA OneMore ==
    ASSUME Types, WellFormed, Content, NEW t \in Clean, NEW n \in 1..Len(files), NEW db \in Databases,
           Brought(db, n - 1, t)
    PROVE  Brought(AfterAll(files[n].up, db), n, t)
<1>1. PICK ops \in Seq(Operation) : ops = files[n].up
  BY FileFacts
<1>2. /\ n \in DOMAIN files /\ t \in Tables /\ UpOps(n) = {ops[i] : i \in DOMAIN ops}
      /\ Len(files) \in Nat /\ DOMAIN files = 1..Len(files)
  BY <1>1, FileFacts DEF Clean, UpOps
<1>3. /\ Touches(n, t) <=> \E i \in DOMAIN ops : ops[i].table = t
      /\ \A c : Brings(n, t, c) <=> \E i \in DOMAIN ops : ops[i].table = t /\ c \in ops[i].cols
  BY <1>2 DEF Touches, Brings
<1>4. ASSUME NEW u \in UpOps(n), u.table = t
      PROVE  /\ u.op \in {"create", "add"} /\ u \in Operation
             /\ \A v \in UpOps(n) : v.table = t /\ u # v => u.op = "add"
  BY <1>2, <1>4, OnlyGenerated, OpsAre DEF WellFormed
<1>5. /\ \A r \in 1..n : r = n \/ r \in 1..(n - 1)
      /\ \A r \in 1..(n - 1) : r \in 1..n /\ r \in DOMAIN files /\ ~(n <= r)
      /\ n \in 1..n
  BY <1>2
<1>6. CASE \E s \in 1..(n - 1) : Creates(s, t)
  <2>1. PICK s \in 1..(n - 1) : Creates(s, t)
    BY <1>6
  <2>2. ~Creates(n, t)
    <3>1. ASSUME Creates(n, t) PROVE FALSE
      <4>1. Touches(s, t)
        BY <2>1 DEF Creates, Touches
      <4>2. n <= s
        BY <1>2, <1>5, <3>1, <4>1, OneCreator
      <4>3. QED
        BY <1>5, <4>2
    <3>2. QED
      BY <3>1
  <2>3. \A i \in DOMAIN ops : ops[i].table = t => ops[i].op = "add"
    BY <1>2, <1>4, <2>2 DEF Creates
  <2>4. db[t] # Absent /\ \A c : c \in db[t] <=> \E r \in 1..(n - 1) : Brings(r, t, c)
    BY <1>6 DEF Brought
  <2>5. /\ AfterAll(ops, db)[t] # Absent
        /\ \A c : c \in AfterAll(ops, db)[t] <=>
              c \in db[t] \/ \E i \in DOMAIN ops : ops[i].table = t /\ c \in ops[i].cols
    BY <1>2, <2>3, <2>4, AfterAdd
  <2>6. ASSUME NEW c PROVE c \in AfterAll(ops, db)[t] <=> \E r \in 1..n : Brings(r, t, c)
    <3>1. c \in AfterAll(ops, db)[t] <=> (\E r \in 1..(n - 1) : Brings(r, t, c)) \/ Brings(n, t, c)
      BY <1>3, <2>4, <2>5
    <3>2. QED
      BY <1>5, <3>1
  <2>7. QED
    BY <1>1, <1>5, <2>1, <2>5, <2>6 DEF Brought
<1>7. CASE ~\E s \in 1..(n - 1) : Creates(s, t)
  <2>1. db[t] = Absent
    BY <1>7 DEF Brought
  <2>2. ASSUME NEW s \in 1..(n - 1), Touches(s, t) PROVE FALSE
    <3>1. PICK r \in DOMAIN files : r <= s /\ Creates(r, t)
      BY <1>5, <2>2 DEF Content, CreatedFirst
    <3>2. r \in 1..(n - 1)
      BY <1>2, <3>1
    <3>3. QED
      BY <1>7, <3>1, <3>2
  <2>3. CASE ~Touches(n, t)
    <3>1. AfterAll(ops, db)[t] = Absent
      <4>1. \A i \in DOMAIN ops : ops[i].table # t
        BY <1>3, <2>3
      <4>2. PICK cols : OnlyCreate(ops, t, cols)
        BY <4>1 DEF OnlyCreate
      <4>3. AfterAll(ops, db)[t] = IF \E i \in DOMAIN ops : ops[i].table = t THEN cols ELSE Absent
        BY <1>2, <2>1, <4>2, AfterCreate
      <4>4. QED
        BY <4>1, <4>3
    <3>2. ~Creates(n, t)
      BY <2>3 DEF Creates, Touches
    <3>3. QED
      BY <1>1, <1>5, <1>7, <3>1, <3>2 DEF Brought
  <2>4. CASE Touches(n, t)
    <3>1. PICK r \in DOMAIN files : r <= n /\ Creates(r, t)
      BY <1>2, <2>4 DEF Content, CreatedFirst
    <3>2. r \in 1..n
      BY <1>2, <3>1
    <3>3. Creates(n, t)
      BY <1>5, <1>7, <3>1, <3>2
    <3>4. PICK u \in UpOps(n) : u.table = t /\ u.op = "create"
      BY <3>3 DEF Creates
    <3>5. \A v \in UpOps(n) : v.table = t => v = u
      BY <1>4, <3>4
    <3>6. u.cols \in SUBSET Columns /\ u.cols # Absent
      BY <1>4, <3>4, OperationFacts, MigrationsAssumption DEF MigrationsAssumption
    <3>7. OnlyCreate(ops, t, u.cols)
      BY <1>2, <3>4, <3>5, <3>6 DEF OnlyCreate
    <3>8. AfterAll(ops, db)[t] = u.cols
      BY <1>2, <1>3, <2>1, <2>4, <3>7, AfterCreate
    <3>9. ASSUME NEW c PROVE c \in u.cols <=> \E q \in 1..n : Brings(q, t, c)
      <4>1. Brings(n, t, c) <=> c \in u.cols
        BY <3>4, <3>5 DEF Brings
      <4>2. \A q \in 1..(n - 1) : ~Brings(q, t, c)
        BY <2>2 DEF Brings, Touches
      <4>3. QED
        BY <1>5, <4>1, <4>2
    <3>10. QED
      BY <1>1, <1>5, <3>3, <3>6, <3>8, <3>9 DEF Brought
  <2>5. QED
    BY <2>3, <2>4
<1>8. QED
  BY <1>6, <1>7

(* So Made(n) has what the first n revisions bring. *)
LEMMA MadeBrought ==
    ASSUME Types, WellFormed, Content, NEW t \in Clean, NEW n \in 0..Len(files)
    PROVE  Made(n) \in Databases /\ Brought(Made(n), n, t)
<1>1. PICK made : Making(made)
  BY MadeIs
<1>2. PICK N \in Nat : N = Len(files)
  BY FileFacts
<1>3. /\ made \in [0..N -> Databases] /\ made[0] = [s \in Tables |-> Absent]
      /\ \A i \in 1..N : made[i] = AfterAll(files[i].up, made[i - 1])
      /\ \A i \in 0..N : Made(i) = made[i]
  BY <1>1, <1>2 DEF Making
<1> DEFINE Odd == {i \in 0..N : ~Brought(made[i], i, t)}
<1>4. Brought(made[0], 0, t)
  BY <1>3 DEF Brought, Clean
<1>5. Odd = {}
  <2>1. CASE Odd # {}
    <3>1. PICK m : m = First(Odd)
      OBVIOUS
    <3>2. Odd \in SUBSET Nat
      OBVIOUS
    <3>3. m \in Odd /\ \A i \in Odd : m <= i
      BY <2>1, <3>1, <3>2, FirstIs
    <3>4. m \in 1..N /\ m - 1 \in 0..N /\ m - 1 \notin Odd
      BY <1>4, <3>3
    <3>5. made[m - 1] \in Databases /\ Brought(made[m - 1], m - 1, t)
      BY <1>3, <3>4
    <3>6. Brought(AfterAll(files[m].up, made[m - 1]), m, t)
      BY <1>2, <3>4, <3>5, OneMore
    <3>7. QED
      BY <1>3, <3>3, <3>4, <3>6
  <2>2. QED
    BY <2>1
<1>6. QED
  BY <1>2, <1>3, <1>5

-----------------------------------------------------------------------------
(* What follows for the properties.                                        *)

(* What is recorded are the first revisions. *)
LEMMA Recorded ==
    ASSUME Types, InOrder
    PROVE  /\ Cardinality(history) \in 0..Len(files)
           /\ history = 1..Cardinality(history)
<1>1. Len(files) \in Nat /\ history \in SUBSET (1..Len(files))
  BY FileFacts DEF Types
<1>2. CASE history = {}
  BY <1>1, <1>2, FS_EmptySet
<1>3. CASE history # {}
  <2>1. PICK m : m = Latest(history)
    OBVIOUS
  <2>2. m \in history /\ \A s \in history : s <= m
    BY <1>1, <1>3, <2>1, LatestIs
  <2>3. m \in 1..Len(files) /\ 1..m \subseteq history
    BY <1>1, <2>2 DEF InOrder
  <2>4. history = 1..m
    <3>1. ASSUME NEW s \in history PROVE s \in 1..m
      <4>1. s \in Nat /\ 1 <= s /\ s <= m /\ m \in Nat
        BY <1>1, <2>2, <2>3
      <4>2. QED
        BY <4>1
    <3>2. QED
      BY <2>3, <3>1
  <2>5. Cardinality(1..m) = m
    <3>1. 1 \in Int /\ m \in Int /\ 1 <= m
      BY <1>1, <2>3
    <3>2. Cardinality(1..m) = IF 1 > m THEN 0 ELSE m - 1 + 1
      BY <3>1, FS_Interval
    <3>3. QED
      BY <3>1, <3>2
  <2>6. QED
    BY <2>3, <2>4, <2>5
<1>4. QED
  BY <1>2, <1>3

(* Whoever is at work on a table, or left it unfinished, touches it. *)
LEMMA TouchedBy ==
    ASSUME Types, NEW r \in DOMAIN files, NEW t, Touches(r, t)
    PROVE  t \in TablesOf(files[r])
  BY TouchedTables DEF Touches

(* A clean table is what the recorded revisions make, but for those at     *)
(* work or unfinished.                                                     *)
LEMMA Follow ==
    ASSUME Types, WellFormed, Order, Content, Live
    PROVE  TablesFollow(Clean)
<1>1. PICK k : k = Cardinality(history)
  OBVIOUS
<1>2. k \in 0..Len(files) /\ history = 1..k /\ history \subseteq DOMAIN files
  BY <1>1, Recorded DEF Order, Types
<1>3. ASSUME NEW t \in Clean, \A r \in Under \cup unfinished : t \notin TablesOf(files[r])
      PROVE  schema[t] = Made(k)[t]
  <2>1. Made(k) \in Databases /\ Brought(Made(k), k, t)
    BY <1>2, MadeBrought
  <2>2. ASSUME NEW r \in Exempt PROVE ~Touches(r, t)
    <3>1. r \in DOMAIN files
      BY CurrentFacts DEF Exempt, Under, Types
    <3>2. QED
      BY <1>3, <2>2, <3>1, TouchedBy DEF Exempt
  <2>3. /\ \A r \in Exempt : ~Creates(r, t)
        /\ \A r \in Exempt : \A c : ~Brings(r, t, c)
    BY <2>2 DEF Creates, Brings, Touches
  <2>4. Has(t) <=> \E r \in history : Creates(r, t)
    BY <2>3 DEF Live
  <2>5. CASE ~Has(t)
    BY <1>2, <2>1, <2>4, <2>5 DEF Brought, Has
  <2>6. CASE Has(t)
    <3>1. Made(k)[t] # Absent /\ \A c : c \in Made(k)[t] <=> \E r \in history : Brings(r, t, c)
      BY <1>2, <2>1, <2>4, <2>6 DEF Brought
    <3>2. schema[t] \in SUBSET Columns /\ Made(k)[t] \in SUBSET Columns
      BY <2>1, <2>6, <3>1 DEF Types, Databases, Clean, Has
    <3>3. ASSUME NEW c \in Columns PROVE c \in schema[t] <=> \E r \in history : Brings(r, t, c)
      BY <2>3, <2>6 DEF Live
    <3>4. \A c \in Columns : c \in schema[t] <=> c \in Made(k)[t]
      BY <3>1, <3>3
    <3>5. QED
      BY <3>2, <3>4
  <2>7. QED
    BY <2>5, <2>6
<1>4. QED
  BY <1>1, <1>3 DEF TablesFollow

(* A statement on a clean table is not rejected. *)
LEMMA NotInVain ==
    ASSUME Types, WellFormed, Order, Content, Live, Progress
    PROVE  NeverInVain(Clean)
<1> SUFFICES ASSUME NEW p \in Processes, proc[p].todo # <<>>, NEW op, op = Head(proc[p].todo),
                    NEW r, r = First(proc[p].plan), op.table \in Clean,
                    \A q \in unfinished : q < r => op.table \notin TablesOf(files[q])
             PROVE  ~Rejected(op, schema)
  BY DEF NeverInVain
<1>1. proc[p].plan # {} /\ Running(p)
  BY ProcFacts DEF Consistent, Running
<1>2. PICK o, s : AtHand(p, o, s)
  BY <1>1, AtHandIs DEF Progress
<1>3. AtHand(p, op, r)
  BY <1>2 DEF AtHand, Current
<1>4. r \in DOMAIN files /\ r \in proc[p].plan /\ \A q \in proc[p].plan : r <= q
  BY <1>1, <1>3, CurrentFacts DEF AtHand
<1>5. ASSUME NEW u \in UpOps(r), u.table = op.table, u.op = "add" PROVE Has(op.table)
  <2>1. Touches(r, op.table)
    BY <1>5 DEF Touches
  <2>2. PICK q \in DOMAIN files : q <= r /\ Creates(q, op.table)
    BY <1>4, <2>1 DEF Content, CreatedFirst
  <2>3. q # r
    <3>1. CASE q = r
      <4>1. PICK v \in UpOps(r) : v.table = op.table /\ v.op = "create"
        BY <2>2, <3>1 DEF Creates
      <4>2. QED
        BY <1>3, <1>5, <4>1 DEF AtHand
    <3>2. QED
      BY <3>1
  <2>4. q \in Nat /\ r \in Nat /\ q < r
    BY <1>4, <2>2, <2>3, FileFacts
  <2>5. q \in history
    <3>1. q \in 1..r /\ r \in 1..r
      BY <1>4, <2>2, <2>4, FileFacts
    <3>2. CASE Migrating(p)
      <4>1. q \in history \cup proc[p].plan
        BY <1>4, <3>1, <3>2 DEF Order, Plans
      <4>2. q \notin proc[p].plan
        BY <1>4, <2>4
      <4>3. QED
        BY <4>1, <4>2
    <3>3. CASE RollingBack(p)
      <4>1. r \in history
        BY <1>4, <3>3 DEF Order, Plans
      <4>2. QED
        BY <3>1, <4>1 DEF Order, InOrder
    <3>4. QED
      BY <1>3, <3>2, <3>3 DEF AtHand
  <2>6. q \notin unfinished
    <3>1. op.table \in TablesOf(files[q])
      BY <2>2, TouchedBy DEF Creates, Touches
    <3>2. QED
      BY <2>4, <3>1
  <2>7. CASE q \in Under
    <3>1. PICK x \in Processes : proc[x].plan # {} /\ q = First(proc[x].plan)
      BY <2>7 DEF Under
    <3>2. x # p
      BY <2>3, <3>1
    <3>3. Running(x) /\ q \in proc[x].plan
      BY <3>1, CurrentFacts, ProcFacts DEF Consistent, Running
    <3>4. Migrating(x)
      BY <1>1, <3>1, <3>2, <3>3, BothMigrate DEF Order, Migrating
    <3>5. QED
      BY <2>2, <2>5, <3>3, <3>4 DEF Progress, Standing
  <2>8. CASE q \notin Under
    BY <2>2, <2>5, <2>6, <2>8 DEF Live, Exempt
  <2>9. QED
    BY <2>7, <2>8
<1>6. CASE Migrating(p)
  <2>1. op \in UpOps(r) /\ op.op \in {"create", "add"}
    BY <1>3, <1>6 DEF AtHand
  <2>2. QED
    BY <1>5, <2>1 DEF Rejected, Has
<1>7. CASE RollingBack(p)
  <2>1. PICK u \in UpOps(r) : Undoes(op, u)
    BY <1>3, <1>7 DEF AtHand
  <2>2. u.table = op.table /\ u.op \in {"create", "add"}
    BY <1>3, <2>1 DEF AtHand, Undoes
  <2>3. (u.op = "create" => op.op = "droptable") /\ (u.op = "add" => op.op = "drop" /\ Has(op.table))
    BY <1>5, <2>1, <2>2 DEF Undoes
  <2>4. QED
    BY <2>2, <2>3 DEF Rejected, Has
<1>8. QED
  BY <1>3, <1>6, <1>7 DEF AtHand

(* What generated migrations keep, whatever is written by hand: the        *)
(* history is in order, the tables that only they touch are what it says,  *)
(* and nothing is repeated in vain.                                        *)
GeneratedFollow ==
    overlap # "other" => HistoryInOrder /\ TablesFollow(Clean) /\ NeverInVain(Clean)

(* The invariant implies the property. *)
LEMMA GeneratedKept == MigrationInvariant => GeneratedFollow
  BY Recorded, Follow, NotInVain DEF MigrationInvariant, Order, GeneratedFollow, HistoryInOrder

(* Whatever is written by hand besides, tables that only generated         *)
(* migrations touch follow the history: recorded revisions are the first   *)
(* ones, their tables are as these make them unless a command is or was    *)
(* left at work on them, and a repeated statement is never rejected.       *)
THEOREM GeneratedAlways == MigrationSpec => []GeneratedFollow
  BY GeneratedKept, MigrationInvariantAlways, PTL

(* Only what is written by hand is a migration by hand. *)
HandsOff == \A r \in DOMAIN files : files[r].byHand => files[r] \in ByHand

(* Files are written by hand or generated. *)
LEMMA HandsOffKept == MigrationInvariant /\ HandsOff /\ [MigrationNext]_migrationVars => HandsOff'
<1> SUFFICES ASSUME MigrationInvariant, HandsOff, [MigrationNext]_migrationVars PROVE HandsOff'
  OBVIOUS
<1>1. Types
  BY DEF MigrationInvariant
<1>2. CASE files' = files
  BY <1>2 DEF HandsOff
<1>3. CASE WriteByHand
  <2>1. PICK file \in ByHand : files' = Append(files, file)
    BY <1>3 DEF WriteByHand
  <2>2. file \in Migration
    BY MigrationsAssumption DEF MigrationsAssumption, Migration
  <2>3. QED
    BY <1>1, <2>1, <2>2, OneFileMore DEF HandsOff
<1>4. ASSUME NEW p \in Processes, LiveColumns(p), files' # files PROVE HandsOff'
  BY <1>1, <1>4, NewFile DEF HandsOff
<1>5. files' = files \/ WriteByHand \/ \E p \in Processes : LiveColumns(p)
  BY DEF MigrationNext, migrationVars, Begin, ReadHistory, Statement, Settle, Fails, LiveTables,
         EditModels, CreateAll, DropAll
<1>6. QED
  BY <1>2, <1>3, <1>4, <1>5

(* Without migrations written by hand, that is all of                      *)
(* SchemaFollowsHistory: processes that migrate at the same time, and      *)
(* commands that fail at any statement and are run again, leave the schema *)
(* the migrations describe.                                                *)
THEOREM GeneratedOnly == ASSUME ByHand = {} PROVE MigrationSpec => []SchemaFollowsHistory
<1>1. MigrationInit => HandsOff
  BY DEF MigrationInit, HandsOff
<1>2. MigrationInvariant /\ HandsOff => SchemaFollowsHistory
  <2> SUFFICES ASSUME MigrationInvariant, HandsOff, overlap # "other"
               PROVE  /\ HistoryInOrder
                      /\ TablesFollow(Tables \ Disturbed) /\ NeverInVain(Tables \ Disturbed)
    BY DEF SchemaFollowsHistory
  <2>1. ByHandTables = {}
    BY DEF HandsOff, ByHandTables
  <2>2. Tables \ Disturbed = Clean
    BY <2>1 DEF Clean, Disturbed
  <2>3. QED
    BY <2>2, GeneratedKept DEF GeneratedFollow
<1>3. QED
  BY <1>1, <1>2, HandsOffKept, MigrationInvariantAlways, PTL DEF MigrationSpec
=============================================================================
