---------------------------- MODULE ServiceCalls -----------------------------
(* ServiceManager: service calls that share a pool of connections.  A call   *)
(* takes a connection, runs in a transaction or not, may raise the timeout   *)
(* of its connection, executes its statements through the query executor and *)
(* gives the connection back.  A service may call another one, which needs a *)
(* connection of its own.                                                     *)
EXTENDS Connection, FiniteSets, Naturals

CONSTANTS
  Calls,         \* the service calls
  Connections,   \* the connections of the pool
  Registered,    \* how the services are registered, see below
  Statements,    \* how many writing statements a service executes
  Caller,        \* the call a call is made from, or itself
  Losses         \* bound: connections that are lost

(* runs_in_transaction, and whether command_timeout is set.                   *)
ServiceKinds == [inTxn : BOOLEAN, timed : BOOLEAN]

NoConnection == "none"

ASSUME CallsAssumption ==
  /\ IsFiniteSet(Calls) /\ IsFiniteSet(Connections) /\ NoConnection \notin Connections
  /\ Registered \subseteq ServiceKinds
  /\ Statements \in Nat /\ Losses \in Nat
  /\ Caller \in [Calls -> Calls]
  /\ Cardinality({Caller[c] : c \in {d \in Calls : Caller[d] # d}})
       < Cardinality(Connections)

VARIABLES
  kind,      \* how the service of each call is registered
  call,      \* where each call stands
  pool,      \* what each connection holds
  limit,     \* the client-side timeout of each connection
  table,     \* what released connections have committed
  losses,    \* history: connections lost so far
  leaked     \* history: connections on which a SET has failed

callVars == <<kind, call, pool, limit, table, losses, leaked>>

AllRows == Calls \X (1..Statements)
Rows(c) == {c} \X (1..Statements)
Fresh == [txn |-> "none", pending |-> {}, saved |-> {}]

Ended == {"done", "failed"}
InUse(k) == \E c \in Calls : call[c].conn = k
Conn(c) == call[c].conn
Saved(c) == (table \cup (UNION {pool[k].saved : k \in Connections})) \cap Rows(c)

CallsInit ==
  /\ kind \in [Calls -> Registered]
  /\ call = [c \in Calls |-> [pc |-> IF Caller[c] = c THEN "waiting" ELSE "idle", conn |-> NoConnection, next |-> 1,
                              caught |-> FALSE, unsure |-> FALSE, original |-> "default"]]
  /\ pool = [k \in Connections |-> Fresh]
  /\ limit = [k \in Connections |-> "default"]
  /\ table = {} /\ losses = 0 /\ leaked = {}

(* acquire() waits for a free connection, and transaction() then sends BEGIN. *)
Acquire(c) ==
  /\ call[c].pc = "waiting"
  /\ \E k \in Connections :
       /\ ~InUse(k)
       /\ call' = [call EXCEPT ![c] = [@ EXCEPT !.pc = IF kind[c].timed THEN "setup" ELSE "body",
                                                !.conn = k]]
       /\ pool' = IF kind[c].inTxn THEN [pool EXCEPT ![k] = Begin(@)] ELSE pool
  /\ UNCHANGED <<kind, limit, table, losses, leaked>>

(* The client configuration of the connection is kept aside and replaced, and *)
(* SET statement_timeout is sent.                                             *)
SetTimeout(c) ==
  /\ call[c].pc = "setup"
  /\ call' = [call EXCEPT ![c] = [@ EXCEPT !.pc = "body", !.original = limit[Conn(c)]]]
  /\ limit' = [limit EXCEPT ![Conn(c)] = "own"]
  /\ UNCHANGED <<kind, pool, table, losses, leaked>>

(* release(): the pool resets the connection, which rolls back a transaction  *)
(* that is still open on it; what is committed is in the table.               *)
Released(c, db) ==
  /\ pool' = [pool EXCEPT ![Conn(c)] = Fresh]
  /\ table' = table \cup db.saved

(* The SET raises or is cancelled on a connection that survives it.  It is    *)
(* sent before the try whose finally would restore the configuration: the     *)
(* connection goes back to the pool with the timeout of this service.         *)
SetFails(c) ==
  /\ call[c].pc = "setup"
  /\ limit' = [limit EXCEPT ![Conn(c)] = "own"]
  /\ leaked' = leaked \cup {Conn(c)}
  /\ Released(c, pool[Conn(c)])
  /\ call' = [call EXCEPT ![c] = [@ EXCEPT !.pc = "failed", !.conn = NoConnection]]
  /\ UNCHANGED <<kind, losses>>

(* The service is not in the middle of a call to another one.                 *)
Alone(c) == \A d \in Calls \ {c} : Caller[d] = c => call[d].pc \in {"idle"} \cup Ended

(* The service calls another one and awaits it, its own connection in hand.   *)
CallService(c, d) ==
  /\ call[c].pc = "body" /\ Alone(c)
  /\ Caller[d] = c /\ call[d].pc = "idle"
  /\ call' = [call EXCEPT ![d].pc = "waiting"]
  /\ UNCHANGED <<kind, pool, limit, table, losses, leaked>>

(* One statement of the service.  When it fails the exception leaves the      *)
(* service, or the service catches it and goes on.                            *)
Statement(c, ok) ==
  /\ call[c].pc = "body" /\ call[c].next <= Statements /\ Alone(c)
  /\ pool' = [pool EXCEPT ![Conn(c)] = Execute(@, {<<c, call[c].next>>}, ok)]
  /\ \/ ok /\ call' = [call EXCEPT ![c].next = @ + 1]
     \/ ~ok /\ call' = [call EXCEPT ![c] = [@ EXCEPT !.next = call[c].next + 1, !.caught = TRUE]]
     \/ ~ok /\ call' = [call EXCEPT ![c].pc = "raising"]
  /\ UNCHANGED <<kind, limit, table, losses, leaked>>

(* Mutant: the finally leaves the client configuration as it is.              *)
KeepLimit(c) == limit

(* The finally of the service call: the client configuration that was kept    *)
(* aside is restored on the connection before the transaction ends.           *)
Restored(c) == IF kind[c].timed THEN [limit EXCEPT ![Conn(c)] = call[c].original] ELSE limit

Returns(c) ==
  /\ call[c].pc = "body" /\ call[c].next > Statements /\ Alone(c)
  /\ call' = [call EXCEPT ![c].pc = "closing"]
  /\ limit' = Restored(c)
  /\ UNCHANGED <<kind, pool, table, losses, leaked>>

(* COMMIT and release.                                                        *)
Close(c) ==
  /\ call[c].pc = "closing"
  /\ call' = [call EXCEPT ![c] = [@ EXCEPT !.pc = "done", !.conn = NoConnection]]
  /\ Released(c, IF kind[c].inTxn THEN Commit(pool[Conn(c)]) ELSE pool[Conn(c)])
  /\ UNCHANGED <<kind, limit, losses, leaked>>

(* The service raises, by itself or because a statement has: the timeout is   *)
(* restored, the transaction rolled back and the connection released.  A      *)
(* cancelled call skips the rollback and leaves it to the release.            *)
Raises(c) ==
  /\ \/ call[c].pc = "raising"
     \/ call[c].pc = "body" /\ Alone(c)
  /\ limit' = Restored(c)
  /\ Released(c, pool[Conn(c)])
  /\ call' = [call EXCEPT ![c] = [@ EXCEPT !.pc = "failed", !.conn = NoConnection]]
  /\ UNCHANGED <<kind, losses, leaked>>

(* The connection is lost under a statement, the SET or the COMMIT, which may *)
(* have been executed: the call fails and the pool opens another connection.  *)
LoseConnection(c) ==
  /\ losses < Losses
  /\ call[c].pc \in {"setup", "body", "closing"}
  /\ call[c].pc = "closing" => kind[c].inTxn
  /\ call[c].pc = "body" => Alone(c)
  /\ \E commits \in {FALSE} \cup (IF call[c].pc = "closing" THEN {TRUE} ELSE {}) :
       Released(c, IF commits THEN Commit(pool[Conn(c)]) ELSE pool[Conn(c)])
  /\ limit' = [limit EXCEPT ![Conn(c)] = "default"]
  /\ leaked' = leaked \ {Conn(c)}
  /\ losses' = losses + 1
  /\ call' = [call EXCEPT ![c] = [@ EXCEPT !.pc = "failed", !.conn = NoConnection,
                                           !.unsure = call[c].pc = "closing"]]
  /\ UNCHANGED kind

AllEnded ==
  /\ \A c \in Calls : call[c].pc \in {"idle"} \cup Ended
  /\ UNCHANGED callVars

CallStep(c) ==
  \/ Acquire(c) \/ SetTimeout(c) \/ SetFails(c) \/ Returns(c) \/ Close(c)
  \/ Raises(c) \/ LoseConnection(c)
  \/ \E ok \in BOOLEAN : Statement(c, ok)
  \/ \E d \in Calls \ {c} : CallService(c, d)

CallsNext == (\E c \in Calls : CallStep(c)) \/ AllEnded

CallsSpec == CallsInit /\ [][CallsNext]_callVars

-----------------------------------------------------------------------------
(* Every variable has its type.                                              *)
CallsTypeOK ==
  /\ kind \in [Calls -> Registered]
  /\ call \in [Calls -> [pc : {"idle", "waiting", "setup", "body", "raising", "closing"} \cup Ended,
                         conn : Connections \cup {NoConnection},
                         next : 1..(Statements + 1), caught : BOOLEAN, unsure : BOOLEAN,
                         original : {"default", "own"}]]
  /\ pool \in [Connections -> [txn : TxnStates, pending : SUBSET AllRows, saved : SUBSET AllRows]]
  /\ limit \in [Connections -> {"default", "own"}]
  /\ table \subseteq AllRows /\ losses \in 0..Losses /\ leaked \subseteq Connections

(* A service in a transaction that swallowed no failed statement saves all of *)
(* its rows if it returns and none if it fails, unless the connection was     *)
(* lost under the COMMIT (ServiceManager.transaction).                        *)
AllOrNothing ==
  \A c \in Calls :
    (kind[c].inTxn /\ ~call[c].caught) =>
      /\ call[c].pc = "done" => Saved(c) = Rows(c)
      /\ (call[c].pc = "failed" /\ ~call[c].unsure) => Saved(c) = {}

(* The timeout a connection has between two calls: that of the pool, or that  *)
(* of the services if a SET has failed on it.                                 *)
Left(k) == IF k \in leaked THEN "own" ELSE "default"

(* A connection that no call holds carries no transaction, and the timeout of *)
(* the pool unless a SET has failed on it; a service without a timeout runs   *)
(* under the same one, whatever services had the connection before it         *)
(* (service_manager.py, the finally of _execute_service).                     *)
ConnectionsAreClean ==
  /\ \A k \in Connections :
       ~InUse(k) => pool[k].txn = "none" /\ pool[k].pending = {} /\ limit[k] = Left(k)
  /\ \A c \in Calls :
       call[c].pc \in {"body", "raising"} =>
         limit[Conn(c)] = IF kind[c].timed THEN "own" ELSE Left(Conn(c))

(* While a call waits for a connection one is free, or held by a call that    *)
(* can go on: services that hold a connection while they wait for a service   *)
(* of their own never wait on each other.                                     *)
WaitersGetServed ==
  (\E c \in Calls : call[c].pc = "waiting") =>
    \/ \E k \in Connections : ~InUse(k)
    \/ \E d \in Calls : Conn(d) # NoConnection /\ call[d].pc \notin Ended /\ Alone(d)

(* A transactional service that lets its exceptions out saves all or nothing,*)
(* a connection is passed on without a transaction and, if no SET failed on  *)
(* it, without the timeout of a service, and services that call services     *)
(* never wait for each other's connections.                                  *)
CallsHold == AllOrNothing /\ ConnectionsAreClean /\ WaitersGetServed
=============================================================================
