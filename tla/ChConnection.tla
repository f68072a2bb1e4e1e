---------------------------- MODULE ChConnection ----------------------------
(***************************************************************************)
(* The process-wide ClickHouse client (clickhouse/connection.py): created  *)
(* on first use under double-checked locking, while configure and dispose  *)
(* may run between the awaits; and the wrapper in which the command line   *)
(* runs its migrations (migrations/cli.py), in an event loop of its own.   *)
(***************************************************************************)
EXTENDS Naturals

CONSTANTS Tasks,
          Configs,     \* what the application configures
          CliConfig,   \* the settings of the command line
          None,
          MaxClients,  \* bound: clients created
          MaxChanges   \* bound: calls of configure and dispose

ASSUME ConnectionAssumption ==
    /\ CliConfig \notin Configs /\ None \notin Configs \cup {CliConfig} \cup Tasks
    /\ "waiting" \notin Configs \cup {CliConfig} /\ None \notin {"waiting", "owner", "guest"}
    /\ None \notin [id : Nat, config : Configs \cup {CliConfig}]
    /\ MaxClients \in Nat /\ MaxChanges \in Nat

VARIABLES config,    \* _config
          client,    \* _client
          lock,      \* holder of _lock
          task,      \* get_clickhouse_client of every task: None, "waiting"
                     \* for the lock, or the configuration it connects with
          closing,   \* the client that dispose waits to see closed
          cli,       \* "owner" or "guest" of the client while it runs
          open,      \* clients with a connection
          created,   \* clients created
          changes,
          \* What has happened, for the properties only:
          crossed    \* configure or dispose met a client or a task

connectionVars == <<config, client, lock, task, closing, cli, open, created, changes, crossed>>

ConnectionInit ==
    /\ config = None /\ client = None /\ lock = None /\ closing = None /\ cli = None
    /\ task = [t \in Tasks |-> None]
    /\ open = {}
    /\ created = 0 /\ changes = 0
    /\ crossed = FALSE

Quiet == \A t \in Tasks : task[t] = None

-----------------------------------------------------------------------------
(* get_clickhouse_client                                                   *)

(* Not configured it raises, and a client that is there is the answer at   *)
(* once: neither changes anything.                                         *)
Get(t) ==
    /\ task[t] = None
    /\ config # None /\ client = None
    /\ task' = [task EXCEPT ![t] = "waiting"]
    /\ UNCHANGED <<config, client, lock, closing, cli, open, created, changes, crossed>>

(* Variant: the client is not looked at again under the lock. *)
NeededUnchecked == TRUE

Needed == client = None

(* The lock was free, or is now.  Without a configuration the call that    *)
(* would connect raises.                                                   *)
Enter(t) ==
    /\ task[t] = "waiting" /\ lock = None
    /\ IF Needed /\ config # None
       THEN /\ created < MaxClients
            /\ lock' = t
            /\ task' = [task EXCEPT ![t] = config]
       ELSE /\ task' = [task EXCEPT ![t] = None]
            /\ UNCHANGED lock
    /\ UNCHANGED <<config, client, closing, cli, open, created, changes, crossed>>

(* Variant: the lock is not released. *)
LeaveHolding(t) ==
    /\ lock = t
    /\ lock' = lock
    /\ task' = [task EXCEPT ![t] = None]

Leave(t) ==
    /\ lock = t
    /\ lock' = None
    /\ task' = [task EXCEPT ![t] = None]

Connect(t) ==
    /\ Leave(t)
    /\ client' = [id |-> created, config |-> task[t]]
    /\ open' = open \cup {client'}
    /\ created' = created + 1
    /\ UNCHANGED <<config, closing, cli, changes, crossed>>

ConnectFails(t) ==
    /\ Leave(t)
    /\ UNCHANGED <<config, client, closing, cli, open, created, changes, crossed>>

(* The timeout of a health probe, or another cancellation, of a call that  *)
(* waits for the lock.  One that connects fails (ConnectFails).            *)
GiveUp(t) ==
    /\ task[t] = "waiting"
    /\ task' = [task EXCEPT ![t] = None]
    /\ UNCHANGED <<config, client, lock, closing, cli, open, created, changes, crossed>>

-----------------------------------------------------------------------------
(* configure_clickhouse and dispose_clickhouse                             *)

Changed == changes < MaxChanges /\ changes' = changes + 1

(* The client that was there is forgotten, not closed. *)
Configure(c) ==
    /\ cli = None
    /\ Changed
    /\ config' = c
    /\ client' = None
    /\ crossed' = (crossed \/ client # None \/ closing # None \/ ~Quiet)
    /\ UNCHANGED <<lock, task, closing, cli, open, created>>

Disposing ==
    IF client # None
    THEN closing' = client /\ UNCHANGED <<config, client>>
    ELSE config' = None /\ UNCHANGED <<client, closing>>

Dispose ==
    /\ cli = None /\ closing = None
    /\ Changed
    /\ Disposing
    /\ crossed' = (crossed \/ ~Quiet)
    /\ UNCHANGED <<lock, task, cli, open, created>>

Closed ==
    /\ closing # None
    /\ open' = open \ {closing}
    /\ client' = None /\ config' = None /\ closing' = None
    /\ cli' = None
    /\ crossed' = (crossed \/ ~Quiet)
    /\ UNCHANGED <<lock, task, created, changes>>

(* close() raises, and nothing is forgotten. *)
CloseFails ==
    /\ closing # None
    /\ closing' = None /\ cli' = None
    /\ crossed' = TRUE
    /\ UNCHANGED <<config, client, lock, task, open, created, changes>>

-----------------------------------------------------------------------------
(* _run_with_clickhouse: asyncio.run, so no task of the application runs   *)
(* at the same time.                                                       *)

CliBegin ==
    /\ cli = None /\ Quiet /\ closing = None
    /\ Changed
    /\ IF config = None
       THEN config' = CliConfig /\ client' = None /\ cli' = "owner"
       ELSE cli' = "guest" /\ UNCHANGED <<config, client>>
    /\ UNCHANGED <<lock, task, closing, open, created, crossed>>

CliEnd ==
    /\ cli # None /\ Quiet /\ closing = None
    /\ IF cli = "owner"
       THEN Disposing /\ cli' = (IF client # None THEN cli ELSE None)
       ELSE cli' = None /\ UNCHANGED <<config, client, closing>>
    /\ UNCHANGED <<lock, task, open, created, changes, crossed>>

ConnectionNext ==
    \/ \E t \in Tasks : Get(t) \/ Enter(t) \/ Connect(t) \/ ConnectFails(t) \/ GiveUp(t)
    \/ \E c \in Configs : Configure(c)
    \/ Dispose \/ Closed \/ CloseFails
    \/ CliBegin \/ CliEnd

ConnectionSpec == ConnectionInit /\ [][ConnectionNext]_connectionVars

-----------------------------------------------------------------------------
(* Properties.                                                             *)

Clients == [id : 0..MaxClients, config : Configs \cup {CliConfig}]

ConnectionTypeOK ==
    /\ config \in Configs \cup {CliConfig, None}
    /\ client \in Clients \cup {None} /\ closing \in Clients \cup {None}
    /\ open \subseteq Clients
    /\ lock \in Tasks \cup {None}
    /\ task \in [Tasks -> Configs \cup {CliConfig, None, "waiting"}]
    /\ \A t \in Tasks : task[t] \in Configs \cup {CliConfig} <=> lock = t
    /\ lock # None => created < MaxClients
    /\ cli \in {"owner", "guest", None}
    /\ created \in 0..MaxClients /\ changes \in 0..MaxChanges /\ crossed \in BOOLEAN

(* However many tasks ask first at the same time, the process has one      *)
(* client and no other connection, made with the configuration it has; the *)
(* command line leaves nothing of its own behind and an application's      *)
(* client alone.  It takes configure and dispose to come while no client   *)
(* is there or asked for, or closed: configure forgets a client without    *)
(* closing it, and both forget it for a task that goes on to store the     *)
(* answer for the old configuration.                                       *)
OneClient ==
    ~crossed =>
        /\ open \subseteq {client}
        /\ client # None => client \in open /\ client.config = config
        /\ config = CliConfig <=> cli = "owner"
=============================================================================
