---------------------------- MODULE NightlyProofs ----------------------------
(* Theorems about the parts of a quiet night, each for every value of its     *)
(* constants: ServiceCalls (calls, connections, statements and losses),       *)
(* HealthAlert (integrity services, severity rules and faults), PriceAdvice   *)
(* (markets, prices and windows of days), CardImport (files, batches, resume  *)
(* points and failures) and SalesSync (items, accounts, pages and misses);    *)
(* and then about the specification the runs check, which joins them.         *)
EXTENDS MCNightly, PipelineRunsProofs, FiniteSetTheorems, FunctionTheorems,
        SequenceTheorems, WellFoundedInduction, TLAPS

-----------------------------------------------------------------------------
(* ServiceCalls *)
DBs == [txn : TxnStates, pending : SUBSET AllRows, saved : SUBSET AllRows]

States == [pc : {"idle", "waiting", "setup", "body", "raising", "closing"} \cup Ended,
           conn : Connections \cup {NoConnection},
           next : 1..(Statements + 1), caught : BOOLEAN, unsure : BOOLEAN,
           original : {"default", "own"}]

(* A call holds a connection of its own while it runs, and only then.         *)
Running == {"setup", "body", "raising", "closing"}

ConnInv ==
  /\ \A c \in Calls : call[c].pc \in Running <=> Conn(c) # NoConnection
  /\ \A c, d \in Calls : Conn(c) = Conn(d) /\ Conn(c) # NoConnection => c = d

(* A connection that nobody holds is as the pool opened it, but for the       *)
(* timeout of a service whose SET failed on it.                               *)
FreeInv == \A k \in Connections : ~InUse(k) => pool[k] = Fresh /\ limit[k] = Left(k)

(* Between its SET and its finally a timed call has its own timeout on the    *)
(* connection and the one it found there aside; otherwise nothing has changed.*)
Timeout(c) ==
  /\ call[c].pc \in {"setup", "closing"} => limit[Conn(c)] = Left(Conn(c))
  /\ call[c].pc \in {"body", "raising"} =>
       limit[Conn(c)] = IF kind[c].timed THEN "own" ELSE Left(Conn(c))
  /\ call[c].pc \in {"body", "raising"} /\ kind[c].timed => call[c].original = Left(Conn(c))

(* What is written at each stage of a call: its connection has rows of its    *)
(* own only, and in a transaction nothing is saved before the COMMIT.         *)
Stage(c) ==
  /\ call[c].pc \in {"idle", "waiting"} => call[c].next = 1 /\ ~call[c].caught
  /\ call[c].unsure => call[c].pc = "failed"
  /\ call[c].pc \in Running =>
       pool[Conn(c)].pending \subseteq Rows(c) /\ pool[Conn(c)].saved \subseteq Rows(c)
  /\ call[c].pc = "setup" => call[c].next = 1 /\ kind[c].timed
  /\ call[c].pc = "closing" => call[c].next = Statements + 1
  /\ (kind[c].inTxn /\ ~call[c].caught) =>
       /\ call[c].pc \in {"setup", "body", "closing"} =>
            /\ pool[Conn(c)].txn = "open" /\ pool[Conn(c)].saved = {}
            /\ pool[Conn(c)].pending = {c} \X (1..(call[c].next - 1))
       /\ call[c].pc = "raising" => pool[Conn(c)].saved = {}
       /\ call[c].pc = "done" => Rows(c) \subseteq table
       /\ (call[c].pc # "done" /\ ~call[c].unsure) => table \cap Rows(c) = {}

CallsInv == CallsTypeOK /\ ConnInv /\ FreeInv /\ \A c \in Calls : Stage(c) /\ Timeout(c)

(* What the operations on a connection do to its record.                      *)
LEMMA ConnectionTypes ==
  ASSUME NEW cn \in DBs, NEW rows \in SUBSET AllRows, NEW ok \in BOOLEAN
  PROVE  /\ Begin(cn) \in DBs /\ Commit(cn) \in DBs /\ Execute(cn, rows, ok) \in DBs
         /\ Fresh \in DBs
<1>1. Begin(cn) \in DBs /\ Rollback(cn) \in DBs /\ Commit(cn) \in DBs
  BY DEF Begin, Rollback, Commit, DBs, TxnStates
<1>2. Ready(cn) \in DBs
  BY <1>1 DEF Ready
<1>3. ASSUME NEW d \in DBs PROVE Wrote(d, rows) \in DBs /\ Failed(d) \in DBs
  BY DEF Wrote, Failed, DBs, TxnStates
<1>4. Fresh \in DBs
  BY DEF Fresh, DBs, TxnStates
<1>5. QED
  BY <1>1, <1>2, <1>3, <1>4 DEF Execute

(* A statement changes what its connection has written by its rows at most.   *)
LEMMA ExecuteWrites ==
  ASSUME NEW cn \in DBs, NEW rows \in SUBSET AllRows, NEW ok \in BOOLEAN
  PROVE  /\ Execute(cn, rows, ok).pending \subseteq cn.pending \cup rows
         /\ Execute(cn, rows, ok).saved \subseteq cn.saved \cup rows
         /\ cn.txn = "open" => /\ Execute(cn, rows, TRUE).txn = "open"
                                /\ Execute(cn, rows, TRUE).pending = cn.pending \cup rows
         /\ cn.txn = "open" => /\ Execute(cn, rows, TRUE).saved = cn.saved
                                /\ Execute(cn, rows, FALSE).saved = cn.saved
BY DEF Execute, Ready, Wrote, Failed, Rollback, DBs, TxnStates

(* The record of a call that ends.                                            *)
Over(s, p, u) == [s EXCEPT !.pc = p, !.conn = NoConnection, !.unsure = u]

(* What the record of a call is after it ends, and after a statement.         *)
LEMMA EndFields ==
  ASSUME NEW s \in States, NEW p \in Ended, NEW u \in BOOLEAN
  PROVE  /\ Over(s, p, u) \in States /\ Over(s, p, u).pc = p /\ Over(s, p, u).conn = NoConnection
         /\ Over(s, p, u).unsure = u /\ Over(s, p, u).next = s.next
         /\ Over(s, p, u).caught = s.caught
<1> DEFINE s1 == [s EXCEPT !.pc = p]
           s2 == [s1 EXCEPT !.conn = NoConnection]
<1>1. s1 \in States /\ s1.pc = p /\ s1.next = s.next /\ s1.caught = s.caught
  BY DEF States
<1> HIDE DEF s1
<1>2. s2 \in States /\ s2.pc = p /\ s2.conn = NoConnection /\ s2.next = s.next /\ s2.caught = s.caught
  BY <1>1 DEF States
<1> HIDE DEF s2
<1> DEFINE s3 == [s2 EXCEPT !.unsure = u]
<1>3. s3 \in States /\ s3.pc = p /\ s3.conn = NoConnection /\ s3.unsure = u /\ s3.next = s.next
      /\ s3.caught = s.caught
  BY <1>2 DEF States
<1>4. QED
  BY <1>3 DEF s1, s2, Over

(* What the record of a call is that has its connection.                      *)
Holding(s, p, k) == [s EXCEPT !.pc = p, !.conn = k]

LEMMA HoldingFields ==
  ASSUME NEW s \in States, NEW p \in {"setup", "body"}, NEW k \in Connections
  PROVE  /\ Holding(s, p, k) \in States /\ Holding(s, p, k).pc = p
         /\ Holding(s, p, k).conn = k /\ Holding(s, p, k).next = s.next
         /\ Holding(s, p, k).caught = s.caught /\ Holding(s, p, k).unsure = s.unsure
<1> DEFINE s1 == [s EXCEPT !.pc = p]
<1>1. /\ s1 \in States /\ s1.pc = p /\ s1.next = s.next /\ s1.caught = s.caught
      /\ s1.unsure = s.unsure
  BY DEF States
<1> HIDE DEF s1
<1>2. LET s2 == [s1 EXCEPT !.conn = k]
      IN /\ s2 \in States /\ s2.pc = p /\ s2.conn = k /\ s2.next = s.next
         /\ s2.caught = s.caught /\ s2.unsure = s.unsure
  BY <1>1 DEF States
<1>3. QED
  BY <1>2 DEF s1, Holding

LEMMA StatementFields ==
  ASSUME NEW s \in States, NEW n \in 1..(Statements + 1)
  PROVE  /\ [s EXCEPT !.pc = "raising"] \in States /\ [s EXCEPT !.next = n] \in States
         /\ [s EXCEPT !.next = n, !.caught = TRUE] \in States
<1> DEFINE t1 == [s EXCEPT !.next = n]
<1>1. t1 \in States /\ [s EXCEPT !.pc = "raising"] \in States
  BY DEF States
<1> HIDE DEF t1
<1>2. [t1 EXCEPT !.caught = TRUE] \in States
  BY <1>1 DEF States
<1>3. QED
  BY <1>1, <1>2 DEF t1

(* A step of call c: the other calls and their connections stay as they are,  *)
(* the connection it leaves is as new, the one it takes was free, and only    *)
(* rows of its own reach the table.                                           *)
Moves(c) ==
  /\ kind' = kind /\ CallsTypeOK'
  /\ \A d \in Calls \ {c} : call'[d] = call[d]
  /\ call'[c].pc \in Running <=> call'[c].conn # NoConnection
  /\ call'[c].conn \in {Conn(c), NoConnection} \/ ~InUse(call'[c].conn)
  /\ (Conn(c) # NoConnection /\ call'[c].conn # Conn(c)) =>
       /\ pool'[Conn(c)] = Fresh
       /\ limit'[Conn(c)] = IF Conn(c) \in leaked' THEN "own" ELSE "default"
  /\ \A k \in Connections \ {Conn(c), call'[c].conn} :
       pool'[k] = pool[k] /\ limit'[k] = limit[k] /\ (k \in leaked') = (k \in leaked)
  /\ table \subseteq table' /\ table' \ table \subseteq Rows(c)

LEMMA MovesKeep ==
  ASSUME CallsInv, NEW c \in Calls, Moves(c), Stage(c)', Timeout(c)'
  PROVE  CallsInv'
<1> USE CallsAssumption
<1>0. CallsTypeOK /\ call \in [Calls -> States] /\ CallsTypeOK' /\ call' \in [Calls -> States]
  BY DEF CallsInv, Moves, CallsTypeOK, States
<1>1. ConnInv'
  <2>1. \A d \in Calls : call'[d].pc \in Running <=> call'[d].conn # NoConnection
    BY DEF CallsInv, Moves, ConnInv, Conn
  <2>2. \A d \in Calls \ {c} : call'[d].conn # NoConnection => call'[d].conn # call'[c].conn
    BY DEF CallsInv, Moves, ConnInv, InUse, Conn
  <2>3. \A d, e \in Calls \ {c} :
          call'[d].conn = call'[e].conn /\ call'[d].conn # NoConnection => d = e
    BY DEF CallsInv, Moves, ConnInv, Conn
  <2>4. QED
    BY <2>1, <2>2, <2>3 DEF ConnInv, Conn, Running
<1>2. FreeInv'
  <2> SUFFICES ASSUME NEW k \in Connections, \A d \in Calls : call'[d].conn # k
               PROVE  pool'[k] = Fresh /\ limit'[k] = Left(k)'
    BY DEF FreeInv, InUse
  <2>1. CASE k = Conn(c)
    BY <2>1 DEF Moves, Left
  <2>2. CASE k # Conn(c)
    <3>1. ~InUse(k)
      BY <2>2 DEF InUse, Moves, Conn
    <3>2. QED
      BY <2>2, <3>1 DEF CallsInv, FreeInv, Moves, Left
  <2>3. QED
    BY <2>1, <2>2
<1>3. ASSUME NEW d \in Calls, d # c PROVE Stage(d)' /\ Timeout(d)'
  <2>1. Stage(d) /\ Timeout(d) /\ call'[d] = call[d] /\ kind'[d] = kind[d]
    BY <1>3 DEF CallsInv, Moves
  <2>2. Rows(c) \cap Rows(d) = {}
    BY <1>3 DEF Rows
  <2>3. (table \cap Rows(d) = {} => table' \cap Rows(d) = {}) /\ table \subseteq table'
    BY <2>2 DEF Moves
  <2>4. ASSUME call[d].pc \in Running
        PROVE  /\ pool'[Conn(d)] = pool[Conn(d)] /\ limit'[Conn(d)] = limit[Conn(d)]
               /\ (Conn(d) \in leaked') = (Conn(d) \in leaked)
    <3>1. Conn(d) \in Connections /\ Conn(d) # Conn(c)
      BY <1>0, <1>3, <2>4 DEF CallsInv, ConnInv, Conn, States
    <3>2. Conn(d) # call'[c].conn
      BY <1>0, <1>3, <3>1 DEF Moves, InUse, Conn
    <3>3. QED
      BY <3>1, <3>2 DEF Moves
  <2>5. Stage(d)'
    BY <2>1, <2>3, <2>4 DEF Stage, Conn, Running
  <2>6. Timeout(d)'
    BY <2>1, <2>4 DEF Timeout, Left, Conn, Running
  <2>7. QED
    BY <2>5, <2>6
<1>4. QED
  BY <1>0, <1>1, <1>2, <1>3 DEF CallsInv

(* Every step of a call is such a move.                                        *)
LEMMA AcquireMoves ==
  ASSUME CallsInv, NEW c \in Calls, Acquire(c)
  PROVE  Moves(c) /\ Stage(c)' /\ Timeout(c)'
<1> USE CallsAssumption
<1> DEFINE p == IF kind[c].timed THEN "setup" ELSE "body"
<1>0. call \in [Calls -> States] /\ pool \in [Connections -> DBs]
  BY DEF CallsInv, CallsTypeOK, States, DBs
<1>1. PICK k \in Connections :
        /\ ~InUse(k)
        /\ call' = [call EXCEPT ![c] = Holding(call[c], p, k)]
        /\ pool' = IF kind[c].inTxn THEN [pool EXCEPT ![k] = Begin(@)] ELSE pool
  BY DEF Acquire, Holding
<1>2. pool[k] = Fresh /\ limit[k] = Left(k) /\ Conn(c) = NoConnection /\ call[c].pc = "waiting"
      /\ call[c].next = 1 /\ ~call[c].caught /\ ~call[c].unsure /\ k # NoConnection
  BY <1>1 DEF CallsInv, FreeInv, ConnInv, Stage, Acquire, Running
<1>4. /\ call'[c].pc = p /\ call'[c].conn = k /\ call'[c].next = 1
      /\ ~call'[c].caught /\ ~call'[c].unsure /\ call' \in [Calls -> States]
      /\ \A d \in Calls \ {c} : call'[d] = call[d]
  <2>1. call[c] \in States /\ p \in {"setup", "body"}
    BY <1>0
  <2>2. call'[c] = Holding(call[c], p, k) /\ \A d \in Calls \ {c} : call'[d] = call[d]
    BY <1>0, <1>1
  <2> HIDE DEF p
  <2>3. /\ Holding(call[c], p, k) \in States /\ Holding(call[c], p, k).pc = p
        /\ Holding(call[c], p, k).conn = k /\ Holding(call[c], p, k).next = call[c].next
        /\ Holding(call[c], p, k).caught = call[c].caught
        /\ Holding(call[c], p, k).unsure = call[c].unsure
    BY <2>1, HoldingFields
  <2>4. call' \in [Calls -> States]
    BY <1>0, <1>1, <2>3
  <2>5. QED
    BY <1>2, <2>2, <2>3, <2>4
<1>5. Begin(Fresh) = [txn |-> "open", pending |-> {}, saved |-> {}] /\ Begin(Fresh) \in DBs
  BY DEF Begin, Fresh, DBs, TxnStates
<1>6. /\ pool' \in [Connections -> DBs]
      /\ \A j \in Connections \ {k} : pool'[j] = pool[j]
      /\ pool'[k] = IF kind[c].inTxn THEN Begin(Fresh) ELSE Fresh
  BY <1>0, <1>1, <1>2, <1>5
<1>7. kind' = kind /\ limit' = limit /\ table' = table /\ losses' = losses /\ leaked' = leaked
  BY DEF Acquire
<1>8. CallsTypeOK'
  BY <1>4, <1>6, <1>7 DEF CallsInv, CallsTypeOK, States, DBs
<1>9. Moves(c)
  BY <1>1, <1>2, <1>4, <1>6, <1>7, <1>8 DEF Moves, Running
<1>10. Stage(c)'
  <2>1. table \cap Rows(c) = {} \/ ~kind[c].inTxn
    BY <1>2 DEF CallsInv, Stage
  <2>2. pool'[k].pending = {} /\ pool'[k].saved = {} /\ (kind[c].inTxn => pool'[k].txn = "open")
    BY <1>5, <1>6 DEF Fresh
  <2>3. {c} \X (1..(call'[c].next - 1)) = {}
    BY <1>4
  <2>4. QED
    BY <1>4, <1>7, <2>1, <2>2, <2>3 DEF Stage, Conn, Running
<1>11. Timeout(c)'
  BY <1>2, <1>4, <1>7 DEF Timeout, Left, Conn
<1>12. QED
  BY <1>9, <1>10, <1>11

(* What the record of a call is that has set its timeout.                     *)
LEMMA TimedFields ==
  ASSUME NEW s \in States, NEW l \in {"default", "own"}
  PROVE  LET t == [s EXCEPT !.pc = "body", !.original = l]
         IN /\ t \in States /\ t.pc = "body" /\ t.original = l /\ t.conn = s.conn
            /\ t.next = s.next /\ t.caught = s.caught /\ t.unsure = s.unsure
<1> DEFINE s1 == [s EXCEPT !.pc = "body"]
<1>1. /\ s1 \in States /\ s1.pc = "body" /\ s1.conn = s.conn /\ s1.next = s.next
      /\ s1.caught = s.caught /\ s1.unsure = s.unsure
  BY DEF States
<1> HIDE DEF s1
<1> DEFINE s2 == [s1 EXCEPT !.original = l]
<1>2. /\ s2 \in States /\ s2.pc = "body" /\ s2.original = l /\ s2.conn = s.conn
      /\ s2.next = s.next /\ s2.caught = s.caught /\ s2.unsure = s.unsure
  BY <1>1 DEF States
<1>3. QED
  BY <1>2 DEF s1

LEMMA SetTimeoutMoves ==
  ASSUME CallsInv, NEW c \in Calls, SetTimeout(c)
  PROVE  Moves(c) /\ Stage(c)' /\ Timeout(c)'
<1> USE CallsAssumption
<1> DEFINE l == limit[Conn(c)]
<1>0. call \in [Calls -> States] /\ limit \in [Connections -> {"default", "own"}]
  BY DEF CallsInv, CallsTypeOK, States
<1>1. Conn(c) \in Connections /\ Conn(c) # NoConnection /\ call[c].pc = "setup"
  BY <1>0 DEF CallsInv, ConnInv, SetTimeout, Running, Conn, States
<1>2. /\ call' = [call EXCEPT ![c] = [call[c] EXCEPT !.pc = "body", !.original = l]]
      /\ call'[c] = [call[c] EXCEPT !.pc = "body", !.original = l]
      /\ \A d \in Calls \ {c} : call'[d] = call[d]
  BY <1>0 DEF SetTimeout
<1>3. /\ call'[c].pc = "body" /\ call'[c].conn = Conn(c) /\ call'[c].next = call[c].next
      /\ call'[c].caught = call[c].caught /\ call'[c].unsure = call[c].unsure
      /\ call'[c].original = l /\ call' \in [Calls -> States]
  <2>1. call[c] \in States /\ l \in {"default", "own"}
    BY <1>0, <1>1
  <2> HIDE DEF l
  <2>2. LET t == [call[c] EXCEPT !.pc = "body", !.original = l]
        IN /\ t \in States /\ t.pc = "body" /\ t.original = l /\ t.conn = call[c].conn
           /\ t.next = call[c].next /\ t.caught = call[c].caught /\ t.unsure = call[c].unsure
    BY <2>1, TimedFields
  <2>3. QED
    BY <1>0, <1>2, <2>2 DEF Conn
<1>4. /\ limit' \in [Connections -> {"default", "own"}] /\ limit'[Conn(c)] = "own"
      /\ \A j \in Connections \ {Conn(c)} : limit'[j] = limit[j]
      /\ kind' = kind /\ pool' = pool /\ table' = table /\ losses' = losses /\ leaked' = leaked
  BY <1>0, <1>1 DEF SetTimeout
<1>5. CallsTypeOK'
  BY <1>3, <1>4 DEF CallsInv, CallsTypeOK, States
<1>6. Moves(c)
  BY <1>1, <1>2, <1>3, <1>4, <1>5 DEF Moves, Running
<1>7. Stage(c)'
  BY <1>1, <1>3, <1>4 DEF CallsInv, Stage, Conn, Running
<1>8. Timeout(c)'
  <2>1. kind[c].timed
    BY <1>1 DEF CallsInv, Stage
  <2>2. l = Left(Conn(c))
    BY <1>1 DEF CallsInv, Timeout
  <2>3. QED
    BY <1>3, <1>4, <2>1, <2>2 DEF Timeout, Left, Conn
<1>9. QED
  BY <1>6, <1>7, <1>8

(* The service a service calls begins to wait; its caller stays as it is.     *)
LEMMA CallServiceMoves ==
  ASSUME CallsInv, NEW c \in Calls, NEW d \in Calls \ {c}, CallService(c, d)
  PROVE  Moves(d) /\ Stage(d)' /\ Timeout(d)'
<1> USE CallsAssumption
<1>0. call \in [Calls -> States]
  BY DEF CallsInv, CallsTypeOK, States
<1>1. Conn(d) = NoConnection /\ call[d].pc = "idle"
  BY DEF CallsInv, ConnInv, CallService, Running
<1>2. /\ call'[d] = [call[d] EXCEPT !.pc = "waiting"] /\ call' \in [Calls -> States]
      /\ \A e \in Calls \ {d} : call'[e] = call[e]
  BY <1>0 DEF CallService, States
<1>3. /\ call'[d].pc = "waiting" /\ call'[d].conn = NoConnection /\ call'[d].next = call[d].next
      /\ call'[d].caught = call[d].caught /\ call'[d].unsure = call[d].unsure
  BY <1>0, <1>1, <1>2 DEF States, Conn
<1>4. kind' = kind /\ pool' = pool /\ limit' = limit /\ table' = table
      /\ losses' = losses /\ leaked' = leaked
  BY DEF CallService
<1>5. CallsTypeOK'
  BY <1>2, <1>4 DEF CallsInv, CallsTypeOK, States
<1>6. Moves(d)
  BY <1>1, <1>2, <1>3, <1>4, <1>5 DEF Moves, Running
<1>7. Stage(d)'
  BY <1>1, <1>3, <1>4 DEF CallsInv, Stage, Conn, Running
<1>8. Timeout(d)'
  BY <1>3 DEF Timeout
<1>9. QED
  BY <1>6, <1>7, <1>8

LEMMA StatementMoves ==
  ASSUME CallsInv, NEW c \in Calls, NEW ok \in BOOLEAN, Statement(c, ok)
  PROVE  Moves(c) /\ Stage(c)' /\ Timeout(c)'
<1> USE CallsAssumption
<1> DEFINE n == call[c].next
           cn == pool[Conn(c)]
<1>0. call \in [Calls -> States] /\ pool \in [Connections -> DBs]
  BY DEF CallsInv, CallsTypeOK, States, DBs
<1>1. Conn(c) \in Connections /\ Conn(c) # NoConnection /\ call[c].pc = "body" /\ n \in 1..Statements
  BY <1>0 DEF CallsInv, ConnInv, Statement, Running, Conn, States
<1>2. Stage(c) /\ cn \in DBs
  BY <1>0, <1>1 DEF CallsInv
<1>3. {<<c, n>>} \in SUBSET AllRows /\ {<<c, n>>} \subseteq Rows(c)
  BY <1>1 DEF AllRows, Rows
(* the connection                                                             *)
<1>4. /\ pool' \in [Connections -> DBs] /\ pool'[Conn(c)] = Execute(cn, {<<c, n>>}, ok)
      /\ \A j \in Connections \ {Conn(c)} : pool'[j] = pool[j]
  BY <1>0, <1>1, <1>2, <1>3, ConnectionTypes DEF Statement
<1>5. pool'[Conn(c)].pending \subseteq Rows(c) /\ pool'[Conn(c)].saved \subseteq Rows(c)
  <2>1. cn.pending \subseteq Rows(c) /\ cn.saved \subseteq Rows(c)
    BY <1>1, <1>2 DEF Stage, Running
  <2>2. /\ Execute(cn, {<<c, n>>}, ok).pending \subseteq cn.pending \cup {<<c, n>>}
        /\ Execute(cn, {<<c, n>>}, ok).saved \subseteq cn.saved \cup {<<c, n>>}
    <3>1. PICK d \in DBs, new \in SUBSET AllRows : d = cn /\ new = {<<c, n>>}
      BY <1>2, <1>3
    <3>2. /\ Execute(d, new, ok).pending \subseteq d.pending \cup new
          /\ Execute(d, new, ok).saved \subseteq d.saved \cup new
      BY ExecuteWrites
    <3>3. QED
      BY <3>1, <3>2
  <2>3. QED
    BY <1>3, <1>4, <2>1, <2>2
<1>6. kind' = kind /\ limit' = limit /\ table' = table /\ losses' = losses
      /\ leaked' = leaked
  BY DEF Statement
(* the call                                                                   *)
<1>7. /\ \/ ok /\ call'[c] = [call[c] EXCEPT !.next = n + 1]
         \/ ~ok /\ call'[c] = [call[c] EXCEPT !.next = n + 1, !.caught = TRUE]
         \/ ~ok /\ call'[c] = [call[c] EXCEPT !.pc = "raising"]
      /\ \A d \in Calls \ {c} : call'[d] = call[d]
      /\ call' = [call EXCEPT ![c] = call'[c]]
  BY <1>0 DEF Statement
<1>8. /\ call'[c] \in States /\ call'[c].conn = Conn(c) /\ call'[c].pc \in {"body", "raising"}
      /\ call'[c].unsure = call[c].unsure /\ (call[c].caught => call'[c].caught)
      /\ call'[c].original = call[c].original
      /\ ~ok => call'[c].caught \/ call'[c].pc = "raising"
      /\ ok => call'[c].pc = "body" /\ call'[c].next = n + 1
  <2>1. call[c] \in States /\ n + 1 \in 1..(Statements + 1)
    BY <1>0, <1>1
  <2>2. call'[c] \in States
    <3>1. PICK s \in States, k \in 1..(Statements + 1) : s = call[c] /\ k = n + 1
      BY <2>1
    <3>2. /\ [s EXCEPT !.next = k] \in States /\ [s EXCEPT !.pc = "raising"] \in States
          /\ [s EXCEPT !.next = k, !.caught = TRUE] \in States
      BY StatementFields
    <3>3. QED
      BY <1>7, <3>1, <3>2
  <2>3. CASE ok /\ call'[c] = [call[c] EXCEPT !.next = n + 1]
    BY <1>1, <2>1, <2>2, <2>3 DEF States, Conn
  <2>4. CASE ~ok /\ call'[c] = [call[c] EXCEPT !.next = n + 1, !.caught = TRUE]
    BY <1>1, <2>1, <2>2, <2>4 DEF States, Conn
  <2>5. CASE ~ok /\ call'[c] = [call[c] EXCEPT !.pc = "raising"]
    BY <1>1, <2>1, <2>2, <2>5 DEF States, Conn
  <2>6. QED
    BY <1>7, <2>3, <2>4, <2>5
<1>9. call' \in [Calls -> States]
  BY <1>0, <1>7, <1>8
<1>10. CallsTypeOK'
  BY <1>4, <1>6, <1>9 DEF CallsInv, CallsTypeOK, States, DBs
<1>11. Moves(c)
  BY <1>1, <1>4, <1>6, <1>7, <1>8, <1>10 DEF Moves, Running
<1>12. ASSUME kind[c].inTxn, ~call'[c].caught
       PROVE  /\ call'[c].pc = "body" => /\ pool'[Conn(c)].txn = "open" /\ pool'[Conn(c)].saved = {}
                                         /\ pool'[Conn(c)].pending = {c} \X (1..(call'[c].next - 1))
              /\ pool'[Conn(c)].saved = {} /\ table \cap Rows(c) = {}
  <2>1. /\ ~call[c].caught /\ cn.txn = "open" /\ cn.saved = {} /\ cn.pending = {c} \X (1..(n - 1))
        /\ table \cap Rows(c) = {}
    BY <1>1, <1>2, <1>8, <1>12 DEF Stage
  <2>2. ({c} \X (1..(n - 1))) \cup {<<c, n>>} = {c} \X (1..n)
    BY <1>1
  <2>3. /\ ok => /\ pool'[Conn(c)].txn = "open"
                 /\ pool'[Conn(c)].pending = cn.pending \cup {<<c, n>>}
        /\ pool'[Conn(c)].saved = {}
    <3>0. cn.txn = "open" /\ cn \in DBs /\ {<<c, n>>} \in SUBSET AllRows
      BY <1>2, <1>3, <2>1
    <3>1. Execute(cn, {<<c, n>>}, ok).saved = cn.saved
      <4>1. /\ Execute(cn, {<<c, n>>}, TRUE).saved = cn.saved
            /\ Execute(cn, {<<c, n>>}, FALSE).saved = cn.saved
        BY <3>0, ExecuteWrites
      <4>2. ok = TRUE \/ ok = FALSE
        OBVIOUS
      <4>3. QED
        BY <4>1, <4>2
    <3>2. ASSUME ok PROVE /\ pool'[Conn(c)].txn = "open"
                          /\ pool'[Conn(c)].pending = cn.pending \cup {<<c, n>>}
      <4>1. /\ Execute(cn, {<<c, n>>}, TRUE).txn = "open"
            /\ Execute(cn, {<<c, n>>}, TRUE).pending = cn.pending \cup {<<c, n>>}
        BY <3>0, ExecuteWrites
      <4>2. ok = TRUE
        BY <3>2
      <4>3. QED
        BY <1>4, <4>1, <4>2
    <3>3. QED
      BY <1>4, <2>1, <3>1, <3>2
  <2>4. call'[c].pc = "body" => ok /\ call'[c].next - 1 = n
    BY <1>1, <1>8, <1>12
  <2>5. QED
    BY <2>1, <2>2, <2>3, <2>4
<1>13. Stage(c)'
  BY <1>1, <1>2, <1>5, <1>6, <1>8, <1>12 DEF Stage, Conn, Running
<1>14. Timeout(c)'
  <2>1. Timeout(c)
    BY DEF CallsInv
  <2>2. QED
    BY <1>1, <1>6, <1>8, <2>1 DEF Timeout, Left, Conn
<1>15. QED
  BY <1>11, <1>13, <1>14

(* The finally leaves the timeout the connection had before the call.         *)
LEMMA RestoredLimit ==
  ASSUME CallsInv, NEW c \in Calls, call[c].pc \in {"body", "raising"},
         Conn(c) \in Connections
  PROVE  /\ Restored(c) \in [Connections -> {"default", "own"}]
         /\ Restored(c)[Conn(c)] = Left(Conn(c))
         /\ \A j \in Connections \ {Conn(c)} : Restored(c)[j] = limit[j]
<1>1. limit \in [Connections -> {"default", "own"}] /\ Timeout(c) /\ Left(Conn(c)) \in {"default", "own"}
  BY DEF CallsInv, CallsTypeOK, Left
<1>2. QED
  BY <1>1 DEF Restored, Timeout

LEMMA ReturnsMoves ==
  ASSUME CallsInv, NEW c \in Calls, Returns(c)
  PROVE  Moves(c) /\ Stage(c)' /\ Timeout(c)'
<1> USE CallsAssumption
<1>0. call \in [Calls -> States] /\ limit \in [Connections -> {"default", "own"}]
  BY DEF CallsInv, CallsTypeOK, States
<1>1. /\ Conn(c) \in Connections /\ Conn(c) # NoConnection /\ call[c].pc = "body"
      /\ call[c].next = Statements + 1
  BY <1>0 DEF CallsInv, ConnInv, Returns, Running, Conn, States
<1>2. /\ call'[c] = [call[c] EXCEPT !.pc = "closing"] /\ call' \in [Calls -> States]
      /\ \A d \in Calls \ {c} : call'[d] = call[d]
  BY <1>0 DEF Returns, States
<1>3. /\ call'[c].pc = "closing" /\ call'[c].conn = Conn(c) /\ call'[c].next = call[c].next
      /\ call'[c].caught = call[c].caught /\ call'[c].unsure = call[c].unsure
  BY <1>0, <1>2 DEF States, Conn
<1>4. /\ limit' \in [Connections -> {"default", "own"}] /\ limit'[Conn(c)] = Left(Conn(c))
      /\ \A j \in Connections \ {Conn(c)} : limit'[j] = limit[j]
      /\ kind' = kind /\ pool' = pool /\ table' = table /\ losses' = losses
      /\ leaked' = leaked
  BY <1>0, <1>1, RestoredLimit DEF Returns
<1>5. CallsTypeOK'
  BY <1>2, <1>4 DEF CallsInv, CallsTypeOK, States
<1>6. Moves(c)
  BY <1>1, <1>2, <1>3, <1>4, <1>5 DEF Moves, Running
<1>7. Stage(c)'
  BY <1>1, <1>3, <1>4 DEF CallsInv, Stage, Conn, Running
<1>8. Timeout(c)'
  BY <1>3, <1>4 DEF Timeout, Left, Conn
<1>9. QED
  BY <1>6, <1>7, <1>8

(* The connection goes back to the pool and the call is over: done after the  *)
(* COMMIT, failed otherwise.                                                  *)
LEMMA ReleaseMoves ==
  ASSUME CallsInv, NEW c \in Calls, call[c].pc \in Running,
         NEW cn \in {pool[Conn(c)], Commit(pool[Conn(c)])}, Released(c, cn),
         kind' = kind, losses' \in 0..Losses,
         limit' \in [Connections -> {"default", "own"}], leaked' \in SUBSET Connections,
         limit'[Conn(c)] = IF Conn(c) \in leaked' THEN "own" ELSE "default",
         \A j \in Connections \ {Conn(c)} :
           limit'[j] = limit[j] /\ (j \in leaked') = (j \in leaked),
         NEW p \in Ended, NEW u \in BOOLEAN,
         call' = [call EXCEPT ![c] = Over(@, p, u)],
         u => p = "failed",
         p = "done" => /\ call[c].pc = "closing"
                       /\ cn = IF kind[c].inTxn THEN Commit(pool[Conn(c)]) ELSE pool[Conn(c)],
         p = "failed" /\ ~u => cn = pool[Conn(c)]
  PROVE  Moves(c) /\ Stage(c)' /\ Timeout(c)'
<1> USE CallsAssumption
<1>0. call \in [Calls -> States] /\ pool \in [Connections -> DBs]
      /\ limit \in [Connections -> {"default", "own"}] /\ table \subseteq AllRows
  BY DEF CallsInv, CallsTypeOK, States, DBs
<1>1. Conn(c) \in Connections /\ Conn(c) # NoConnection
  BY <1>0 DEF CallsInv, ConnInv, Running, Conn, States
<1>2. Stage(c) /\ pool[Conn(c)] \in DBs /\ cn \in DBs
  <2>1. Stage(c) /\ pool[Conn(c)] \in DBs
    BY <1>0, <1>1 DEF CallsInv
  <2>2. Commit(pool[Conn(c)]) \in DBs
    BY <2>1, ConnectionTypes
  <2>3. QED
    BY <2>1, <2>2
<1>3. cn.saved \subseteq Rows(c) /\ Rows(c) \subseteq AllRows
  <2>1. Commit(pool[Conn(c)]).saved \subseteq pool[Conn(c)].saved \cup pool[Conn(c)].pending
    BY <1>2 DEF Commit, DBs
  <2>2. QED
    BY <1>2, <2>1 DEF Stage, Running, Rows, AllRows
<1>4. /\ pool' \in [Connections -> DBs] /\ pool'[Conn(c)] = Fresh
      /\ \A j \in Connections \ {Conn(c)} : pool'[j] = pool[j]
      /\ table' = table \cup cn.saved
  BY <1>0, <1>1, <1>2, ConnectionTypes DEF Released
<1>5. /\ call'[c] = Over(call[c], p, u)
      /\ \A d \in Calls \ {c} : call'[d] = call[d]
      /\ call' = [call EXCEPT ![c] = call'[c]]
  BY <1>0
<1>6. /\ call'[c] \in States /\ call'[c].pc = p /\ call'[c].conn = NoConnection
      /\ call'[c].next = call[c].next /\ call'[c].caught = call[c].caught /\ call'[c].unsure = u
  <2>1. call[c] \in States
    BY <1>0
  <2>2. QED
    BY <1>5, <2>1, EndFields
<1>7. call' \in [Calls -> States]
  BY <1>0, <1>5, <1>6
<1>9. CallsTypeOK'
  BY <1>0, <1>3, <1>4, <1>7 DEF CallsInv, CallsTypeOK, States, DBs
<1>10. Moves(c)
  BY <1>1, <1>3, <1>4, <1>5, <1>6, <1>9 DEF Moves, Running, Ended
<1>11. ASSUME kind[c].inTxn, ~call[c].caught
       PROVE  /\ p = "done" => Rows(c) \subseteq table'
              /\ p = "failed" /\ ~u => table' \cap Rows(c) = {}
  <2>1. ASSUME p = "done" PROVE Rows(c) \subseteq table'
    <3>1. pool[Conn(c)].txn = "open" /\ pool[Conn(c)].pending = {c} \X (1..(call[c].next - 1))
          /\ call[c].next = Statements + 1
      BY <1>2, <1>11, <2>1 DEF Stage
    <3>2. pool[Conn(c)].pending = Rows(c)
      BY <3>1 DEF Rows
    <3>3. cn.saved = pool[Conn(c)].saved \cup pool[Conn(c)].pending
      <4>1. cn = Commit(pool[Conn(c)])
        BY <1>11, <2>1
      <4>2. QED
        BY <1>2, <3>1, <4>1 DEF Commit, DBs
    <3>4. QED
      BY <1>4, <3>2, <3>3
  <2>2. ASSUME p = "failed", ~u PROVE table' \cap Rows(c) = {}
    BY <1>2, <1>4, <1>11, <2>2 DEF Stage, Running
  <2>3. QED
    BY <2>1, <2>2
<1>12. Stage(c)'
  BY <1>6, <1>11 DEF Stage, Conn, Running, Ended
<1>13. Timeout(c)'
  BY <1>6 DEF Timeout, Ended
<1>14. QED
  BY <1>10, <1>12, <1>13

LEMMA CloseMoves ==
  ASSUME CallsInv, NEW c \in Calls, Close(c)
  PROVE  Moves(c) /\ Stage(c)' /\ Timeout(c)'
<1> DEFINE cn == IF kind[c].inTxn THEN Commit(pool[Conn(c)]) ELSE pool[Conn(c)]
<1>1. /\ call[c].pc = "closing" /\ call[c].unsure = FALSE
      /\ call[c].pc \in Running /\ "done" \in Ended
  BY DEF CallsInv, CallsTypeOK, Stage, Close, Running, Ended
<1>2. call' = [call EXCEPT ![c] = Over(@, "done", FALSE)]
  <2>1. call[c] \in States
    BY DEF CallsInv, CallsTypeOK, States
  <2>2. [call[c] EXCEPT !.pc = "done", !.conn = NoConnection] = Over(call[c], "done", FALSE)
    BY <1>1, <2>1 DEF Over, States
  <2>3. QED
    BY <2>2 DEF Close
<1>3. /\ Released(c, cn) /\ kind' = kind /\ losses' \in 0..Losses
      /\ limit' \in [Connections -> {"default", "own"}] /\ leaked' \in SUBSET Connections
      /\ limit'[Conn(c)] = IF Conn(c) \in leaked' THEN "own" ELSE "default"
      /\ \A j \in Connections \ {Conn(c)} :
           limit'[j] = limit[j] /\ (j \in leaked') = (j \in leaked)
      /\ cn \in {pool[Conn(c)], Commit(pool[Conn(c)])}
  BY <1>1 DEF Close, CallsInv, CallsTypeOK, Timeout, Left
<1>4. QED
  <2> HIDE DEF cn
  <2>1. cn = IF kind[c].inTxn THEN Commit(pool[Conn(c)]) ELSE pool[Conn(c)]
    BY DEF cn
  <2>2. QED
    BY <1>1, <1>2, <1>3, <2>1, ReleaseMoves

LEMMA RaisesMoves ==
  ASSUME CallsInv, NEW c \in Calls, Raises(c)
  PROVE  Moves(c) /\ Stage(c)' /\ Timeout(c)'
<1>1. /\ call[c].pc \in {"raising", "body"} /\ call[c].unsure = FALSE
      /\ call[c].pc \in Running /\ "failed" \in Ended
  BY DEF CallsInv, CallsTypeOK, Stage, Raises, Running, Ended
<1>2. call' = [call EXCEPT ![c] = Over(@, "failed", FALSE)]
  <2>1. call[c] \in States
    BY DEF CallsInv, CallsTypeOK, States
  <2>2. [call[c] EXCEPT !.pc = "failed", !.conn = NoConnection] = Over(call[c], "failed", FALSE)
    BY <1>1, <2>1 DEF Over, States
  <2>3. QED
    BY <2>2 DEF Raises
<1>3. /\ Released(c, pool[Conn(c)]) /\ kind' = kind /\ losses' \in 0..Losses
      /\ limit' \in [Connections -> {"default", "own"}] /\ leaked' \in SUBSET Connections
      /\ limit'[Conn(c)] = IF Conn(c) \in leaked' THEN "own" ELSE "default"
      /\ \A j \in Connections \ {Conn(c)} :
           limit'[j] = limit[j] /\ (j \in leaked') = (j \in leaked)
  <2>1. Conn(c) \in Connections
    BY <1>1, CallsAssumption DEF CallsInv, CallsTypeOK, ConnInv, Conn, States
  <2>2. limit' = Restored(c) /\ leaked' = leaked
    BY DEF Raises
  <2>3. QED
    BY <1>1, <2>1, <2>2, RestoredLimit DEF Raises, CallsInv, CallsTypeOK, Left
<1>4. QED
  BY <1>1, <1>2, <1>3, ReleaseMoves

LEMMA LoseConnectionMoves ==
  ASSUME CallsInv, NEW c \in Calls, LoseConnection(c)
  PROVE  Moves(c) /\ Stage(c)' /\ Timeout(c)'
<1> USE CallsAssumption
<1>1. /\ call[c].pc \in {"setup", "body", "closing"} /\ call[c].unsure = FALSE
      /\ call[c].pc \in Running /\ "failed" \in Ended
  BY DEF CallsInv, CallsTypeOK, Stage, LoseConnection, Running, Ended
<1>2. PICK commits \in {FALSE} \cup (IF call[c].pc = "closing" THEN {TRUE} ELSE {}) :
         Released(c, IF commits THEN Commit(pool[Conn(c)]) ELSE pool[Conn(c)])
  BY DEF LoseConnection
<1> DEFINE cn == IF commits THEN Commit(pool[Conn(c)]) ELSE pool[Conn(c)]
           u == call[c].pc = "closing"
<1>3. call' = [call EXCEPT ![c] = Over(@, "failed", u)]
  BY DEF LoseConnection, Over
<1>4. /\ kind' = kind /\ losses' \in 0..Losses
      /\ limit' \in [Connections -> {"default", "own"}] /\ leaked' \in SUBSET Connections
      /\ limit'[Conn(c)] = IF Conn(c) \in leaked' THEN "own" ELSE "default"
      /\ \A j \in Connections \ {Conn(c)} :
           limit'[j] = limit[j] /\ (j \in leaked') = (j \in leaked)
  <2>1. Conn(c) \in Connections
    BY <1>1, CallsAssumption DEF CallsInv, CallsTypeOK, ConnInv, Conn, States
  <2>2. QED
    BY <2>1 DEF LoseConnection, CallsInv, CallsTypeOK
<1>5. Released(c, cn) /\ cn \in {pool[Conn(c)], Commit(pool[Conn(c)])} /\ u \in BOOLEAN
      /\ (~u => cn = pool[Conn(c)])
  BY <1>2
<1>6. QED
  <2> HIDE DEF cn, u
  <2>1. QED
    BY <1>1, <1>3, <1>4, <1>5, ReleaseMoves

LEMMA SetFailsMoves ==
  ASSUME CallsInv, NEW c \in Calls, SetFails(c)
  PROVE  Moves(c) /\ Stage(c)' /\ Timeout(c)'
<1>1. /\ call[c].pc = "setup" /\ call[c].unsure = FALSE
      /\ call[c].pc \in Running /\ "failed" \in Ended
  BY DEF CallsInv, CallsTypeOK, Stage, SetFails, Running, Ended
<1>2. call' = [call EXCEPT ![c] = Over(@, "failed", FALSE)]
  <2>1. call[c] \in States
    BY DEF CallsInv, CallsTypeOK, States
  <2>2. [call[c] EXCEPT !.pc = "failed", !.conn = NoConnection] = Over(call[c], "failed", FALSE)
    BY <1>1, <2>1 DEF Over, States
  <2>3. QED
    BY <2>2 DEF SetFails
<1>3. /\ Released(c, pool[Conn(c)]) /\ kind' = kind /\ losses' \in 0..Losses
      /\ limit' \in [Connections -> {"default", "own"}] /\ leaked' \in SUBSET Connections
      /\ limit'[Conn(c)] = IF Conn(c) \in leaked' THEN "own" ELSE "default"
      /\ \A j \in Connections \ {Conn(c)} :
           limit'[j] = limit[j] /\ (j \in leaked') = (j \in leaked)
  <2>1. Conn(c) \in Connections
    BY <1>1, CallsAssumption DEF CallsInv, CallsTypeOK, ConnInv, Conn, States
  <2>2. QED
    BY <2>1 DEF SetFails, CallsInv, CallsTypeOK
<1>4. QED
  BY <1>1, <1>2, <1>3, ReleaseMoves

LEMMA CallsStep == CallsInv /\ [CallsNext]_callVars => CallsInv'
<1> SUFFICES ASSUME CallsInv, [CallsNext]_callVars PROVE CallsInv'
  OBVIOUS
<1>1. ASSUME UNCHANGED callVars PROVE CallsInv'
  <2>1. /\ kind' = kind /\ call' = call /\ pool' = pool /\ limit' = limit /\ table' = table
        /\ losses' = losses /\ leaked' = leaked
    BY <1>1 DEF callVars
  <2>2. CallsTypeOK' /\ ConnInv' /\ FreeInv'
    BY <2>1 DEF CallsInv, CallsTypeOK, ConnInv, FreeInv, Left, InUse, Conn
  <2>3. ASSUME NEW c \in Calls PROVE Stage(c)' /\ Timeout(c)'
    <3>1. Stage(c) /\ Timeout(c)
      BY DEF CallsInv
    <3>2. Stage(c)'
      BY <2>1, <3>1 DEF Stage, Conn
    <3>3. Timeout(c)'
      BY <2>1, <3>1 DEF Timeout, Left, Conn
    <3>4. QED
      BY <3>2, <3>3
  <2>4. QED
    BY <2>2, <2>3 DEF CallsInv
<1>2. ASSUME NEW c \in Calls, CallStep(c) PROVE CallsInv'
  <2>1. CASE Acquire(c)
    BY <2>1, AcquireMoves, MovesKeep
  <2>2. CASE SetTimeout(c)
    BY <2>2, SetTimeoutMoves, MovesKeep
  <2>3. CASE Returns(c)
    BY <2>3, ReturnsMoves, MovesKeep
  <2>4. CASE Close(c)
    BY <2>4, CloseMoves, MovesKeep
  <2>5. CASE Raises(c)
    BY <2>5, RaisesMoves, MovesKeep
  <2>6. CASE LoseConnection(c)
    BY <2>6, LoseConnectionMoves, MovesKeep
  <2>7. ASSUME NEW ok \in BOOLEAN, Statement(c, ok) PROVE CallsInv'
    BY <2>7, StatementMoves, MovesKeep
  <2>8. ASSUME NEW d \in Calls \ {c}, CallService(c, d) PROVE CallsInv'
    BY <2>8, CallServiceMoves, MovesKeep
  <2>9. CASE SetFails(c)
    BY <2>9, SetFailsMoves, MovesKeep
  <2>10. QED
    BY <1>2, <2>1, <2>2, <2>3, <2>4, <2>5, <2>6, <2>7, <2>8, <2>9 DEF CallStep
<1>3. CASE AllEnded
  BY <1>1, <1>3 DEF AllEnded
<1>4. QED
  BY <1>1, <1>2, <1>3 DEF CallsNext

LEMMA CallsStart == CallsInit => CallsInv
<1> SUFFICES ASSUME CallsInit PROVE CallsInv
  OBVIOUS
<1> USE CallsAssumption
<1>1. \A c \in Calls : /\ call[c].pc \in {"idle", "waiting"} /\ call[c].conn = NoConnection
                       /\ call[c].next = 1 /\ ~call[c].caught /\ ~call[c].unsure
  BY DEF CallsInit
<1>2. CallsTypeOK
  <2>1. call \in [Calls -> States]
    BY DEF CallsInit, States
  <2>2. pool \in [Connections -> DBs]
    BY DEF CallsInit, DBs, Fresh, TxnStates
  <2>3. QED
    BY <2>1, <2>2 DEF CallsInit, CallsTypeOK, States, DBs
<1>3. ConnInv
  BY <1>1 DEF ConnInv, Conn, Running
<1>4. FreeInv
  BY DEF FreeInv, CallsInit, Left
<1>5. \A c \in Calls : Stage(c) /\ Timeout(c)
  BY <1>1 DEF CallsInit, Stage, Timeout, Running
<1>6. QED
  BY <1>2, <1>3, <1>4, <1>5 DEF CallsInv

(* What an ended call has saved is in the table, and on no connection.        *)
LEMMA SavedInTable ==
  ASSUME CallsInv, NEW c \in Calls, call[c].pc \in Ended
  PROVE  Saved(c) = table \cap Rows(c)
<1> SUFFICES ASSUME NEW k \in Connections PROVE pool[k].saved \cap Rows(c) = {}
  BY DEF Saved
<1>1. CASE ~InUse(k)
  BY <1>1 DEF CallsInv, FreeInv, Fresh
<1>2. CASE InUse(k)
  <2>1. PICK d \in Calls : Conn(d) = k
    BY <1>2 DEF InUse, Conn
  <2>2. call[d].pc \in Running
    BY <2>1, CallsAssumption DEF CallsInv, ConnInv
  <2>3. pool[k].saved \subseteq Rows(d)
    BY <2>1, <2>2 DEF CallsInv, Stage
  <2>4. c # d
    BY <2>2 DEF Running, Ended
  <2>5. QED
    BY <2>3, <2>4 DEF Rows
<1>3. QED
  BY <1>1, <1>2

LEMMA NothingHalfSaved == CallsInv => AllOrNothing
<1> SUFFICES ASSUME CallsInv, NEW c \in Calls, kind[c].inTxn, ~call[c].caught
             PROVE  /\ call[c].pc = "done" => Saved(c) = Rows(c)
                    /\ (call[c].pc = "failed" /\ ~call[c].unsure) => Saved(c) = {}
  BY DEF AllOrNothing
<1>1. Stage(c) /\ (call[c].pc \in Ended => Saved(c) = table \cap Rows(c))
  BY SavedInTable DEF CallsInv
<1>2. call[c].pc = "done" => ~call[c].unsure
  BY <1>1 DEF Stage
<1>3. QED
  BY <1>1, <1>2 DEF Stage, Ended

(* If every connection were held by a call that waits for another one, each   *)
(* would belong to another caller, and there are fewer callers than           *)
(* connections.                                                               *)
LEMMA SomebodyGoesOn == CallsInv => WaitersGetServed
<1> DEFINE Called == {d \in Calls : Caller[d] # d}
           Parents == {Caller[c] : c \in Called}
           HeldBy(k) == CHOOSE c \in Calls : Conn(c) = k
<1> SUFFICES ASSUME CallsInv, \A k \in Connections : InUse(k),
                    \A d \in Calls : Conn(d) # NoConnection /\ call[d].pc \notin Ended => ~Alone(d)
             PROVE  FALSE
  BY DEF WaitersGetServed
<1>1. \A k \in Connections : HeldBy(k) \in Calls /\ Conn(HeldBy(k)) = k
  BY DEF InUse, Conn
<1>2. \A k \in Connections : HeldBy(k) \in Parents
  <2> SUFFICES ASSUME NEW k \in Connections PROVE HeldBy(k) \in Parents
    OBVIOUS
  <2> DEFINE c == HeldBy(k)
  <2>1. c \in Calls /\ Conn(c) = k /\ k # NoConnection
    BY <1>1, CallsAssumption
  <2>2. call[c].pc \notin Ended
    BY <2>1 DEF CallsInv, ConnInv, Running, Ended
  <2>3. ~Alone(c)
    BY <2>1, <2>2
  <2>4. PICK d \in Calls \ {c} : Caller[d] = c
    BY <2>3 DEF Alone
  <2>5. QED
    BY <2>4
<1>3. IsFiniteSet(Parents)
  <2>1. IsFiniteSet(Called)
    BY FS_Subset, CallsAssumption
  <2>2. [c \in Called |-> Caller[c]] \in Surjection(Called, Parents)
    BY Fun_IsSurj
  <2> HIDE DEF Called, Parents
  <2>3. QED
    BY <2>1, <2>2, FS_Surjection
<1>4. \A j, k \in Connections : HeldBy(j) = HeldBy(k) => j = k
  BY <1>1
<1>5. Cardinality(Connections) <= Cardinality(Parents)
  <2> DEFINE holder == [k \in Connections |-> HeldBy(k)]
  <2> HIDE DEF Parents, HeldBy
  <2>1. holder \in Injection(Connections, Parents)
    BY <1>2, <1>4, Fun_IsInj
  <2>2. QED
    BY <1>3, <2>1, FS_Injection
<1>6. QED
  <2>1. Cardinality(Connections) \in Nat /\ Cardinality(Parents) \in Nat
    BY <1>3, FS_CardinalityType, CallsAssumption
  <2>2. Cardinality(Parents) < Cardinality(Connections)
    BY CallsAssumption
  <2> HIDE DEF Parents
  <2>3. QED
    BY <1>5, <2>1, <2>2

(* Every variable keeps its type, and more: CallsInv is inductive.            *)
THEOREM CallsStayTyped == CallsSpec => []CallsTypeOK
<1>1. CallsInv => CallsTypeOK
  BY DEF CallsInv
<1>2. QED
  BY <1>1, CallsStart, CallsStep, PTL DEF CallsSpec

(* However many calls share however many connections, and whatever statement, *)
(* SET or COMMIT is lost: a transactional service that swallows no failed     *)
(* statement saves all of its rows or none, a connection is passed on without *)
(* a transaction and, if no SET failed on it, without the timeout of a        *)
(* service, which no service without a timeout then runs under; while there are*)
(* more connections than services that call services the calls never all wait *)
(* for each other (ServiceManager._execute_service, transaction).             *)
THEOREM CallsAlwaysHold == CallsSpec => []CallsHold
<1>1. CallsInv => ConnectionsAreClean
  BY DEF CallsInv, FreeInv, Timeout, ConnectionsAreClean, Fresh
<1>2. CallsInv => CallsHold
  BY <1>1, NothingHalfSaved, SomebodyGoesOn DEF CallsHold
<1>3. QED
  BY <1>2, CallsStart, CallsStep, PTL DEF CallsSpec

-----------------------------------------------------------------------------
(* HealthAlert *)
FoundStatuses == HealthStatuses \cup {Unknown}

(* What the channel knows is the latest snapshot until an alert is posted, and*)
(* what the check has found from then until the snapshots are committed.      *)
HealthInv ==
  /\ HealthTypeOK
  /\ \A k \in CheckSets \ missed : told[k] = IF step = "posted" THEN found[k] ELSE recorded[k]

(* Every integrity service has one of the three statuses.                     *)
LEMMA RunStatusTypes == ASSUME NEW k PROVE RunStatuses(k) \subseteq HealthStatuses
BY DEF RunStatuses, DeriveStatus, HealthStatuses

(* A check set of which there is nothing to tell has the status it had.       *)
LEMMA NothingToTell ==
  ASSUME NEW k \in CheckSets, k \notin ToTell, k \notin Changed("baseline")
  PROVE  found[k] = recorded[k]
BY DEF ToTell, Changed, Transition

LEMMA NamedAreCheckSets == Named \subseteq CheckSets /\ ToTell \subseteq CheckSets
                           /\ Changed("baseline") \subseteq CheckSets
BY DEF Named, NamedOf, ToTell, Changed

LEMMA HealthStep == HealthInv /\ [HealthNext]_healthVars => HealthInv'
<1> SUFFICES ASSUME HealthInv, [HealthNext]_healthVars PROVE HealthInv'
  OBVIOUS
<1> USE HealthAssumption
<1>0. /\ HealthTypeOK /\ found \in [CheckSets -> FoundStatuses] /\ faults \in 0..Faults
      /\ missed \subseteq CheckSets
      /\ \A k \in CheckSets \ missed :
           told[k] = IF step = "posted" THEN found[k] ELSE recorded[k]
  BY DEF HealthInv, HealthTypeOK, FoundStatuses
<1>1. CASE StartCheck
  BY <1>0, <1>1 DEF StartCheck, HealthInv, HealthTypeOK
<1>2. CASE RunIntegrityService
  <2>1. PICK i \in 1..Len(Keys) :
          /\ \E st \in RunStatuses(Keys[i]) : found' = [found EXCEPT ![Keys[i]] = st]
          /\ step' \in {"alerting", "checking"}
    BY <1>2 DEF RunIntegrityService
  <2>2. Keys[i] \in CheckSets /\ RunStatuses(Keys[i]) \subseteq FoundStatuses
    BY RunStatusTypes DEF CheckSets, FoundStatuses
  <2>3. found' \in [CheckSets -> FoundStatuses]
    BY <1>0, <2>1, <2>2
  <2>4. step = "checking" /\ UNCHANGED <<recorded, told, missed, faults>>
    BY <1>2 DEF RunIntegrityService
  <2>5. QED
    BY <1>0, <2>1, <2>3, <2>4 DEF HealthInv, HealthTypeOK, FoundStatuses
<1>3. ASSUME NEW delivered \in BOOLEAN, Alert(delivered) PROVE HealthInv'
  <2> DEFINE heard == IF delivered THEN Named ELSE {}
             new == Changed("baseline")
  <2>1. /\ told' = [k \in CheckSets |-> IF k \in heard \cup new THEN found[k] ELSE told[k]]
        /\ missed' = (missed \ (heard \cup new)) \cup (ToTell \ heard)
        /\ step = "alerting" /\ step' = "posted" /\ UNCHANGED <<found, recorded>>
    BY <1>3 DEF Alert
  <2>2. faults' \in 0..Faults
    BY <1>0, <1>3 DEF Alert
  <2>3. heard \subseteq CheckSets /\ ToTell \subseteq CheckSets /\ new \subseteq CheckSets
    BY NamedAreCheckSets
  <2> HIDE DEF heard
  <2>4. ASSUME NEW k \in CheckSets \ missed' PROVE told'[k] = found[k]
    <3>1. CASE k \in heard \cup new
      BY <2>1, <3>1
    <3>2. CASE k \notin heard \cup new
      <4>1. k \notin missed /\ k \notin ToTell
        BY <2>1, <3>2
      <4>2. found[k] = recorded[k]
        BY <3>2, <4>1, NothingToTell
      <4>3. QED
        BY <1>0, <2>1, <3>2, <4>1, <4>2
    <3>3. QED
      BY <3>1, <3>2
  <2>5. HealthTypeOK'
    BY <1>0, <2>1, <2>2, <2>3 DEF HealthTypeOK, FoundStatuses
  <2>6. QED
    BY <2>1, <2>4, <2>5 DEF HealthInv
<1>4. CASE CommitSnapshots
  BY <1>0, <1>4 DEF CommitSnapshots, HealthInv, HealthTypeOK
<1>5. CASE LoseSnapshots
  <2>1. /\ step' = "idle" /\ faults' \in 0..Faults /\ UNCHANGED <<found, recorded, told>>
        /\ missed' = IF step = "posted"
                     THEN missed \cup {k \in CheckSets : told[k] # recorded[k]} ELSE missed
    BY <1>0, <1>5 DEF LoseSnapshots
  <2>2. HealthTypeOK'
    BY <1>0, <2>1 DEF HealthTypeOK
  <2>3. \A k \in CheckSets \ missed' : told[k] = recorded[k]
    BY <1>0, <2>1
  <2>4. QED
    BY <2>1, <2>2, <2>3 DEF HealthInv
<1>6. CASE UNCHANGED healthVars
  BY <1>0, <1>6 DEF healthVars, HealthInv, HealthTypeOK
<1>7. QED
  BY <1>1, <1>2, <1>3, <1>4, <1>5, <1>6 DEF HealthNext

LEMMA HealthStart == HealthInit => HealthInv
BY HealthAssumption DEF HealthInit, HealthInv, HealthTypeOK

(* Between two checks the channel has heard of each check set the status of   *)
(* its latest snapshot, unless its last transition was left out of a message, *)
(* was in one that did not arrive, or was announced and then not recorded     *)
(* (alert_check, format_discord_payload).                                     *)
THEOREM ChannelKeepsUp == HealthSpec => []ChannelIsCurrent
<1>1. HealthInv => ChannelIsCurrent
  BY DEF HealthInv, ChannelIsCurrent
<1>2. QED
  BY <1>1, HealthStart, HealthStep, PTL DEF HealthSpec

-----------------------------------------------------------------------------
(* PriceAdvice *)
AdviceInv == AdviceTypeOK /\ AdvisedPriceAgrees /\ AdviceFollowsTrend

(* What is read of the daily prices are rows of them.                        *)
LEMMA HistoryTypes ==
  ASSUME AdviceTypeOK  PROVE History \in Seq(PriceRows)
<1>1. daily \in Seq(PriceRows) /\ Len(daily) \in Nat /\ DOMAIN daily = 1..Len(daily)
  BY DEF AdviceTypeOK
<1>2. IsFiniteSet(1..Len(daily))
  BY <1>1, FS_Interval
<1>3. IsFiniteSet(TooOld)
  BY <1>1, <1>2, FS_Subset DEF TooOld
<1>4. Cardinality(TooOld) + 1 \in 1..Len(daily) + 1
  <2>1. Cardinality(TooOld) \in Nat /\ Cardinality(TooOld) <= Cardinality(1..Len(daily))
    BY <1>1, <1>2, <1>3, FS_Subset, FS_CardinalityType DEF TooOld
  <2>2. Cardinality(1..Len(daily)) = Len(daily)
    BY <1>1, FS_Interval
  <2>3. QED
    BY <1>1, <2>1, <2>2
<1>5. QED
  BY <1>1, <1>4, SubSeqProperties DEF History

(* A set of integers with a bound has a greatest element.                    *)
LEMMA HasLeast ==
  ASSUME NEW T \in SUBSET Nat, T # {}
  PROVE  \E n \in T : \A k \in T : n <= k
<1>1. PICK n \in T : \A k \in T : ~ (<<k, n>> \in OpToRel(<, Nat))
  BY NatLessThanWellFounded, WFMin
<1>2. \A k \in T : k \in Nat /\ n \in Nat /\ ~ (k < n)
  BY <1>1 DEF OpToRel
<1>3. QED
  BY <1>2

LEMMA HasGreatest ==
  ASSUME NEW T \in SUBSET Int, T # {}, NEW top \in Int, \A n \in T : n <= top
  PROVE  \E m \in T : \A n \in T : m >= n
<1> DEFINE left == {top - n : n \in T}
<1>1. \A n \in T : n \in Int /\ top - n \in Nat
  OBVIOUS
<1>2. left \in SUBSET Nat
  BY <1>1
<1>3. /\ \A n \in T : top - n \in left
      /\ \A k \in left : \E m \in T : k = top - m
  OBVIOUS
<1> HIDE DEF left
<1>4. left # {}
  BY <1>3
<1>5. PICK least \in left : \A k \in left : least <= k
  BY <1>2, <1>4, HasLeast
<1>6. PICK m \in T : least = top - m
  BY <1>3
<1>7. QED
  BY <1>1, <1>3, <1>5, <1>6

(* The price a change is measured from is one of the prices.                 *)
LEMMA AnchorIsAPrice ==
  ASSUME NEW s \in Seq(PriceRows), s # <<>>, NEW days \in Int, KnownFor(s, days)
  PROVE  \E k \in 1..Len(s) : Anchor(s, days) = s[k].avg
<1>1. Earlier(s, days) \in SUBSET Int /\ Earlier(s, days) # {}
  BY DEF Earlier, KnownFor
<1>2. Len(s) \in Int /\ \A k \in Earlier(s, days) : k <= Len(s)
  BY DEF Earlier
<1>3. \E k \in Earlier(s, days) : \A j \in Earlier(s, days) : k >= j
  BY <1>1, <1>2, HasGreatest
<1>4. \E k \in Earlier(s, days) : \A j \in Earlier(s, days) : j <= k
  BY <1>1, <1>3
<1>5. QED
  BY <1>4 DEF Anchor, Earlier

LEMMA RisingDoesNotFall ==
  ASSUME NEW s \in Seq(PriceRows), s # <<>>, Rising(s)
  PROVE  Trend(s) # "DOWN"
<1>1. SUFFICES ASSUME HasDelta(s, Primary(s))
               PROVE  LET old == Anchor(s, Primary(s))
                          change == 10 * (LastRow(s).avg - old)
                      IN change >= old \/ ~(change <= -old)
  BY DEF Trend
<1>2. Primary(s) \in Int
  BY AdviceAssumption DEF Primary
<1>3. PICK k \in 1..Len(s) : Anchor(s, Primary(s)) = s[k].avg
  BY <1>1, <1>2, AnchorIsAPrice DEF HasDelta
<1>4. /\ Len(s) \in 1..Len(s) /\ k <= Len(s)
      /\ s[k].avg \in Nat /\ s[Len(s)].avg \in Nat
  <2>1. Len(s) \in 1..Len(s) /\ k <= Len(s)
    BY EmptySeq
  <2>2. \A i \in 1..Len(s) : s[i] \in PriceRows
    OBVIOUS
  <2>3. QED
    BY <2>1, <2>2 DEF PriceRows
<1>5. s[k].avg <= s[Len(s)].avg
  BY <1>4 DEF Rising
<1>6. s[k].avg # 0
  BY <1>1, <1>3 DEF HasDelta
<1>7. PICK old \in Nat, last \in Nat : old = s[k].avg /\ last = s[Len(s)].avg
  BY <1>4
<1>8. ~(10 * (last - old) <= -old)
  BY <1>5, <1>6, <1>7
<1>9. QED
  BY <1>3, <1>7, <1>8 DEF LastRow

(* The strategy whose answer is the surest is never the premium one: the     *)
(* balanced one is always there and surer.                                   *)
LEMMA NeverPremium ==
  ASSUME NEW m \in Markets
  PROVE  Recommended(m) = "balanced" \/ (Recommended(m) = "quick" /\ Volatile(m))
<1> DEFINE Sure(s) == Strategies(m)[s].confidence
<1>1. Sure("quick") \in {90, 85} /\ Sure("balanced") \in {80, 85} /\ Sure("max") \in {75, 60}
  BY DEF Strategies, QuickSale, Competitive, Premium
<1>2. "balanced" \in Suitable(m) /\ Suitable(m) \subseteq Strategy
  BY DEF Suitable, Strategy
<1>3. \E s \in Suitable(m) : \A other \in Suitable(m) : Sure(s) >= Sure(other)
  <2>1. CASE "quick" \in Suitable(m)
    BY <1>1, <1>2, <2>1 DEF Strategy
  <2>2. CASE "quick" \notin Suitable(m)
    BY <1>1, <1>2, <2>2 DEF Strategy
  <2>3. QED
    BY <2>1, <2>2
<1>4. /\ Recommended(m) \in Suitable(m)
      /\ \A other \in Suitable(m) : Sure(Recommended(m)) >= Sure(other)
  BY <1>3 DEF Recommended
<1>5. Recommended(m) # "max"
  BY <1>1, <1>2, <1>4
<1>6. "quick" \in Suitable(m) => Volatile(m)
  BY DEF Suitable
<1>7. QED
  BY <1>2, <1>4, <1>5, <1>6 DEF Strategy

(* What a market advises has its type, and the action agrees with the price. *)
LEMMA MarketAgrees ==
  ASSUME NEW m \in Markets, NEW days \in Int, NEW price \in Nat
  PROVE  /\ FromMarket(days, price, m) \in Advices
         /\ FromMarket(days, price, m).action \in Actions
         /\ FromMarket(days, price, m).uses = "market"
         /\ FromMarket(days, price, m).action = "lower" =>
              FromMarket(days, price, m).price <= price
         /\ FromMarket(days, price, m).action = "raise" /\ ~m.crowded =>
              FromMarket(days, price, m).price >= price
<1> DEFINE best == Strategies(m)[Recommended(m)]
           act == MarketAction(days, price, m)
<1>1. PICK low \in Nat, mid \in Nat, high \in Nat :
        /\ low = m.p25 /\ mid = m.median /\ high = m.p75 /\ low <= mid /\ mid <= high
  BY AdviceAssumption
<1>2. \/ /\ Recommended(m) = "balanced"
         /\ best.price = (IF m.crowded THEN 92 * mid ELSE 95 * mid)
         /\ best.confidence \in 0..100
      \/ /\ Recommended(m) = "quick"
         /\ best.price = 95 * low /\ best.confidence \in 0..100
  <2>1. CASE Recommended(m) = "balanced"
    BY <1>1, <2>1 DEF Strategies, Competitive
  <2>2. CASE Recommended(m) = "quick" /\ Volatile(m)
    BY <1>1, <2>2 DEF Strategies, QuickSale
  <2>3. QED
    BY <2>1, <2>2, NeverPremium
<1>3. best.price \in Nat /\ best.confidence \in 0..100
  BY <1>1, <1>2
<1>4. Usual[Recommended(m)] \in Actions
  BY <1>2 DEF Usual, Actions
<1>5. act \in Actions
  BY <1>4 DEF MarketAction, Actions
<1>6. act = "lower" => best.price <= price
  <2>1. CASE price > 105 * high
    BY <1>1, <1>2, <2>1
  <2>2. CASE ~(price > 105 * high)
    <3>1. SUFFICES ASSUME act = "lower" PROVE best.price <= price
      OBVIOUS
    <3>2. Usual[Recommended(m)] = "lower" /\ ~(price < 95 * low)
      BY <1>1, <2>2, <3>1 DEF MarketAction
    <3>3. best.price = 95 * low
      BY <1>2, <3>2 DEF Usual
    <3>4. QED
      BY <1>1, <3>2, <3>3
  <2>3. QED
    BY <2>1, <2>2
<1>7. act = "raise" /\ ~m.crowded => best.price >= price
  <2>1. Usual[Recommended(m)] # "raise"
    BY <1>2 DEF Usual
  <2>2. act = "raise" => price < 95 * low
    BY <1>1, <2>1 DEF MarketAction
  <2>3. QED
    BY <1>1, <1>2, <2>2
<1>8. FromMarket(days, price, m)
        = Advice(act, Recommended(m), best.price, best.confidence, "market")
  BY DEF FromMarket
<1> HIDE DEF best, act
<1>9. QED
  BY <1>2, <1>3, <1>5, <1>6, <1>7, <1>8
     DEF Advice, NoAdvice, Advices, Strategy, Trends, None

LEMMA BehaviorTypes ==
  ASSUME NEW days \in Int, NEW watchers \in Nat
  PROVE  /\ Behavioral(days, watchers) \in Advices
         /\ Behavioral(days, watchers).action \in Actions
         /\ Behavioral(days, watchers).uses = "behavioral"
<1>1. ASSUME NEW act \in Actions, NEW strategy \in Strategy, NEW confidence \in 0..100
      PROVE  LET given == Advice(act, strategy, 0, confidence, "behavioral")
             IN given \in Advices /\ given.action = act /\ given.uses = "behavioral"
  BY DEF Advice, NoAdvice, Advices, Trends, None
<1>2. PICK act \in Actions, strategy \in Strategy, confidence \in 0..100 :
        Behavioral(days, watchers) = Advice(act, strategy, 0, confidence, "behavioral")
  BY DEF Behavioral, Actions, Strategy
<1>3. QED
  BY <1>1, <1>2

LEMMA TrendTypes == ASSUME NEW s PROVE Trend(s) \in Trends \ {None}
BY DEF Trend, Trends, None

(* What the trend adjusts keeps its type, and does not go against the trend; *)
(* what it does not adjust is as the market says.                            *)
LEMMA AdjustedFollows ==
  ASSUME NEW rec \in Advices, NEW trend \in Trends, rec.action \in Actions
  PROVE  LET given == Adjusted(rec, trend)
         IN /\ given \in Advices
            /\ given.uses = "market" =>
                 rec.uses = "market" /\ given.action = rec.action /\ given.price = rec.price
            /\ trend = "DOWN" => given.action # "raise"
            /\ trend = "UP" => given.action # "lower"
<1> DEFINE given == Adjusted(rec, trend)
<1>1. CASE trend \notin {"UP", "DOWN"} \/ rec.action = "draft"
  BY <1>1 DEF Adjusted, Advices
<1>2. CASE trend \in {"UP", "DOWN"} /\ rec.action # "draft"
  <2>1. PICK act \in Actions, gain \in {5, -5} :
          /\ Adjuster(rec.action, trend)[1] = act /\ Adjuster(rec.action, trend)[2] = gain
          /\ trend = "DOWN" => act # "raise"
          /\ trend = "UP" => act # "lower"
    BY <1>2 DEF Adjuster, Actions
  <2>2. Clamped(rec.confidence + gain) \in 0..100
    BY DEF Clamped, Advices
  <2>3. given = [rec EXCEPT !.action = act, !.uses = "trend",
                            !.confidence = Clamped(rec.confidence + gain)]
    BY <1>2, <2>1 DEF Adjusted, Advices
  <2>4. QED
    BY <2>1, <2>2, <2>3 DEF Advices
<1>3. QED
  BY <1>1, <1>2

(* A row or two at the end of the daily prices are of their day.             *)
LEMMA RowsAreFiled ==
  ASSUME NEW s \in Seq(PriceRows), NEW x \in PriceRows, NEW y \in PriceRows, NEW day \in Nat,
         x.day < day, y.day < day, \A k \in 1..Len(s) : s[k].day < day
  PROVE  /\ Append(s, x) \in Seq(PriceRows) /\ s \o <<x, y>> \in Seq(PriceRows)
         /\ \A k \in 1..Len(Append(s, x)) : Append(s, x)[k].day < day
         /\ \A k \in 1..Len(s \o <<x, y>>) : (s \o <<x, y>>)[k].day < day
<1>1. ASSUME NEW t \in Seq(PriceRows), NEW z \in PriceRows, z.day < day,
             \A k \in 1..Len(t) : t[k].day < day
      PROVE  /\ Append(t, z) \in Seq(PriceRows)
             /\ \A k \in 1..Len(Append(t, z)) : Append(t, z)[k].day < day
  BY <1>1, AppendProperties
<1>2. s \o <<x, y>> = Append(Append(s, x), y)
  OBVIOUS
<1>3. QED
  BY <1>1, <1>2

LEMMA AdviceStep == AdviceInv /\ [AdviceNext]_adviceVars => AdviceInv'
<1> SUFFICES ASSUME AdviceInv, [AdviceNext]_adviceVars PROVE AdviceInv'
  OBVIOUS
<1>1. ASSUME NextDay PROVE AdviceInv'
  <2>1. PICK p \in Prices, b \in Bids :
          LET sell == [day |-> date, kind |-> "sell", avg |-> p]
              buy == [day |-> date, kind |-> "buy", avg |-> b]
          IN daily' \in {daily, Append(daily, sell), daily \o <<sell, buy>>, daily \o <<buy, sell>>}
    BY <1>1 DEF NextDay
  <2> DEFINE sell == [day |-> date, kind |-> "sell", avg |-> p]
             buy == [day |-> date, kind |-> "buy", avg |-> b]
  <2>2. date \in Nat /\ date' = date + 1 /\ date' \in 1..MaxDate
    BY <1>1, AdviceAssumption DEF NextDay, AdviceInv, AdviceTypeOK
  <2>3. sell \in PriceRows /\ buy \in PriceRows /\ sell.day = date /\ buy.day = date
    BY <2>2, AdviceAssumption DEF PriceRows
  <2>4. daily \in Seq(PriceRows) /\ \A k \in 1..Len(daily) : daily[k].day < date
    BY DEF AdviceInv, AdviceTypeOK
  <2>5. daily' \in {daily, Append(daily, sell), daily \o <<sell, buy>>, daily \o <<buy, sell>>}
    BY <2>1
  <2> HIDE DEF sell, buy
  <2>6. \A k \in 1..Len(daily) : daily[k].day < date + 1
    <3>1. ASSUME NEW k \in 1..Len(daily) PROVE daily[k].day < date + 1
      <4>1. daily[k] \in PriceRows
        BY <2>4
      <4>2. daily[k].day \in Nat
        BY <4>1 DEF PriceRows
      <4>3. QED
        BY <2>2, <2>4, <4>2
    <3>2. QED
      BY <3>1
  <2>7. PICK day \in Nat : day = date + 1 /\ sell.day < day /\ buy.day < day
    BY <2>2, <2>3
  <2>8. PICK s \in Seq(PriceRows) : s = daily /\ \A k \in 1..Len(s) : s[k].day < day
    BY <2>4, <2>6, <2>7
  <2>9. /\ Append(s, sell) \in Seq(PriceRows)
        /\ \A k \in 1..Len(Append(s, sell)) : Append(s, sell)[k].day < day
        /\ s \o <<sell, buy>> \in Seq(PriceRows) /\ s \o <<buy, sell>> \in Seq(PriceRows)
        /\ \A k \in 1..Len(s \o <<sell, buy>>) : (s \o <<sell, buy>>)[k].day < day
        /\ \A k \in 1..Len(s \o <<buy, sell>>) : (s \o <<buy, sell>>)[k].day < day
    BY <2>3, <2>7, <2>8, RowsAreFiled
  <2>10. daily' \in Seq(PriceRows) /\ \A k \in 1..Len(daily') : daily'[k].day < date'
    BY <2>2, <2>5, <2>7, <2>8, <2>9
  <2>11. \A k \in DOMAIN daily' : daily'[k].day < date'
    BY <2>10
  <2>12. UNCHANGED <<offer, advice>>
    BY <1>1 DEF NextDay
  <2>13. QED
    BY <2>2, <2>10, <2>11, <2>12
       DEF AdviceInv, AdviceTypeOK, AdvisedPriceAgrees, AdviceFollowsTrend
<1>2. ASSUME NEW n \in Watching, Watch(n) PROVE AdviceInv'
  <2>1. offer' \in [price : Nat, since : Int, watchers : Watching] /\ offer'.price = offer.price
    BY <1>2 DEF Watch, AdviceInv, AdviceTypeOK
  <2>2. QED
    BY <1>2, <2>1 DEF Watch, AdviceInv, AdviceTypeOK, AdvisedPriceAgrees, AdviceFollowsTrend
<1>3. ASSUME advice' \in Advices,
             advice'.uses = "market" =>
               /\ advice'.action = "lower" => advice'.price <= offer.price
               /\ advice'.action = "raise" /\ ~advice'.crowded => advice'.price >= offer.price,
             advice'.trend = "DOWN" => advice'.action # "raise",
             advice'.trend = "UP" => advice'.action # "lower",
             UNCHANGED <<date, daily, offer>>
      PROVE  AdviceInv'
  BY <1>3 DEF AdviceInv, AdviceTypeOK, AdvisedPriceAgrees, AdviceFollowsTrend
<1>4. ASSUME NEW m \in Markets \cup {NoMarket}, Advise(m) PROVE AdviceInv'
  <2>1. PICK trend \in TrendOrNone :
          advice' = [Adjusted(Base(m), trend) EXCEPT !.trend = trend, !.crowded = m.crowded]
    BY <1>4 DEF Advise
  <2>2. trend \in Trends
    BY TrendTypes DEF TrendOrNone, Trends
  <2>3. m.crowded \in BOOLEAN
    <3>1. CASE m = NoMarket
      BY <3>1 DEF NoMarket
    <3>2. CASE m \in Markets
      BY <3>2, AdviceAssumption
    <3>3. QED
      BY <3>1, <3>2
  <2>4. AgeOf(offer) \in Int /\ offer.watchers \in Nat /\ offer.price \in Nat
    BY AdviceAssumption DEF AdviceInv, AdviceTypeOK, AgeOf
  <2>5. /\ Base(m) \in Advices /\ Base(m).action \in Actions
        /\ Base(m).uses = "market" =>
             /\ Base(m).action = "lower" => Base(m).price <= offer.price
             /\ Base(m).action = "raise" /\ ~m.crowded => Base(m).price >= offer.price
    <3>1. CASE m = NoMarket
      BY <2>4, <3>1, BehaviorTypes DEF Base
    <3>2. CASE m # NoMarket
      BY <2>4, <3>2, MarketAgrees DEF Base
    <3>3. QED
      BY <3>1, <3>2
  <2>6. UNCHANGED <<date, daily, offer>>
    BY <1>4 DEF Advise
  <2>7. PICK given \in Advices :
          /\ advice' = [given EXCEPT !.trend = trend, !.crowded = m.crowded]
          /\ given.uses = "market" =>
               /\ given.action = "lower" => given.price <= offer.price
               /\ given.action = "raise" /\ ~m.crowded => given.price >= offer.price
          /\ trend = "DOWN" => given.action # "raise"
          /\ trend = "UP" => given.action # "lower"
    BY <2>1, <2>2, <2>5, AdjustedFollows
  <2>8. QED
    BY <1>3, <2>2, <2>3, <2>6, <2>7 DEF Advices
<1>5. ASSUME AdviseOnTrend PROVE AdviceInv'
  <2>1. PICK trend \in Trends :
          advice' = [Adjusted(Behavioral(0, 0), trend) EXCEPT !.trend = trend]
    BY <1>5, TrendTypes DEF AdviseOnTrend, Trends
  <2>2. /\ Behavioral(0, 0) \in Advices /\ Behavioral(0, 0).action \in Actions
        /\ Behavioral(0, 0).uses = "behavioral"
    BY BehaviorTypes
  <2>3. UNCHANGED <<date, daily, offer>>
    BY <1>5 DEF AdviseOnTrend
  <2>4. PICK given \in Advices :
          /\ advice' = [given EXCEPT !.trend = trend] /\ given.uses # "market"
          /\ trend = "DOWN" => given.action # "raise"
          /\ trend = "UP" => given.action # "lower"
    BY <2>1, <2>2, AdjustedFollows
  <2>5. QED
    BY <1>3, <2>3, <2>4 DEF Advices
<1>6. CASE UNCHANGED adviceVars
  BY <1>6 DEF adviceVars, AdviceInv, AdviceTypeOK, AdvisedPriceAgrees, AdviceFollowsTrend
<1>7. QED
  BY <1>1, <1>2, <1>4, <1>5, <1>6 DEF AdviceNext

LEMMA AdviceStart == AdviceInit => AdviceInv
<1> SUFFICES ASSUME AdviceInit PROVE AdviceInv
  OBVIOUS
<1>1. daily \in Seq(PriceRows) /\ \A k \in DOMAIN daily : daily[k].day < date
  BY DEF AdviceInit
<1>2. offer \in [price : Nat, since : Int, watchers : Watching]
  BY AdviceAssumption DEF AdviceInit
<1>3. advice \in Advices /\ advice = NoAdvice
  BY DEF AdviceInit, NoAdvice, Advices, Trends, None
<1>4. date \in 1..MaxDate
  BY AdviceAssumption DEF AdviceInit
<1>5. QED
  BY <1>1, <1>2, <1>3, <1>4
     DEF AdviceInv, AdviceTypeOK, AdvisedPriceAgrees, AdviceFollowsTrend, NoAdvice, None

(* The advice always has its type.                                           *)
THEOREM AdviceStaysTyped == AdviceSpec => []AdviceTypeOK
<1>1. AdviceInv => AdviceTypeOK
  BY DEF AdviceInv
<1>2. QED
  BY AdviceStart, AdviceStep, <1>1, PTL DEF AdviceSpec

(* Whatever a market asks, however volatile, crowded or rare it is, and      *)
(* whatever prices the nights file, in whatever order: who is told to lower  *)
(* is not sent above the price on offer, who is told to raise in an          *)
(* uncrowded market is not sent below it, prices that rise are no fall, and  *)
(* no advice goes against the trend it was given with.                       *)
THEOREM AdviceAlwaysHolds == AdviceSpec => []AdviceHolds
<1>1. AdviceInv => AdviceHolds
  <2> SUFFICES ASSUME AdviceInv PROVE AdviceHolds
    OBVIOUS
  <2>1. RisingIsNotDown
    <3>1. History \in Seq(PriceRows)
      BY HistoryTypes DEF AdviceInv
    <3>2. QED
      BY <3>1, RisingDoesNotFall DEF RisingIsNotDown
  <2>2. QED
    BY <2>1 DEF AdviceInv, AdviceHolds
<1>2. QED
  BY AdviceStart, AdviceStep, <1>1, PTL DEF AdviceSpec
-----------------------------------------------------------------------------
(* CardImport *)
(* All rows of the cards before a place of the file that the import wants.   *)
RowsBefore(p) == UNION {RowsOf(c) : c \in {d \in 1 .. p - 1 : file[d] # "foreign"}}

RowSets == SUBSET CardRows
ImportDBs == [txn : TxnStates, pending : SUBSET CardRows, saved : SUBSET CardRows]

ImportTypes ==
  /\ file \in [1..Size -> CardKinds] /\ resume \in ResumePoints
  /\ importStage \in {"reading", "writing", "last", "returning", "raising", "done",
                      "failed"}
  /\ pos \in 1..(Size + 1) /\ batches \in Nat /\ retries \in 0..MaxRetries
  /\ batch \subseteq CardRows /\ counted \subseteq CardRows /\ reported \subseteq CardRows
  /\ db \in ImportDBs /\ early \subseteq counted /\ failures \in 0..Failures

(* Every batch that is over had a card of its own.                           *)
PlaceInv ==
  /\ importStage \in {"last", "returning", "raising", "done", "failed"} => pos = Size + 1
  /\ importStage \in {"writing", "last"} => batch # {}
  /\ importStage \in {"returning", "done"} => batch = {}
  /\ batches + (IF batch = {} THEN 0 ELSE 1) <= pos - 1

(* A resumed import never fills a batch, so it never gets past its point.    *)
ReadInv ==
  /\ resume = 0 => counted \cup reported \cup batch = RowsBefore(pos)
  /\ resume # 0 => /\ counted = {} /\ reported = {} /\ batch = {} /\ batches = 0
                   /\ importStage \in {"reading", "returning", "done"}

(* The transaction holds what was counted until a statement fails; the next  *)
(* one runs outside, and so does everything after it.                        *)
SavedInv ==
  /\ db.txn = "open" =>
       failures = 0 /\ early = counted /\ db.saved = {} /\ db.pending = counted
  /\ db.txn = "aborted" => failures > 0 /\ early = counted /\ db.saved = {}
  /\ db.txn = "none" => failures > 0 /\ db.saved = counted \ early

StoreInv ==
  /\ \A r \in batch \cup counted : r[1] < pos
  /\ batch \cap counted = {}
  /\ importStage \notin {"done", "failed"} => SavedInv

ImportInv ==
  /\ ImportTypes /\ PlaceInv /\ ReadInv /\ StoreInv /\ CountedRowsAreStored

LEMMA RowsOfCard ==
  ASSUME file \in [1..Size -> CardKinds], NEW c \in 1..Size
  PROVE  /\ RowsOf(c) \subseteq CardRows /\ RowsOf(c) # {}
         /\ \A r \in RowsOf(c) : r[1] = c
<1>1. Finishes(file[c]) \subseteq {1, 2} /\ 1 \in Finishes(file[c])
  BY DEF Finishes
<1>2. <<c, 1>> \in RowsOf(c)
  BY <1>1 DEF RowsOf
<1>3. QED
  BY <1>1, <1>2 DEF RowsOf, CardRows

(* The next card adds its rows, unless it is in another language.            *)
LEMMA NextCard ==
  ASSUME file \in [1..Size -> CardKinds], NEW p \in 1..Size
  PROVE  /\ file[p] = "foreign" => RowsBefore(p + 1) = RowsBefore(p)
         /\ file[p] # "foreign" => RowsBefore(p + 1) = RowsBefore(p) \cup RowsOf(p)
<1>1. 1 .. (p + 1) - 1 = (1 .. p - 1) \cup {p}
  OBVIOUS
<1>2. ASSUME file[p] = "foreign" PROVE RowsBefore(p + 1) = RowsBefore(p)
  BY <1>1, <1>2 DEF RowsBefore
<1>3. ASSUME file[p] # "foreign"
      PROVE  {d \in 1 .. (p + 1) - 1 : file[d] # "foreign"} =
             {d \in 1 .. p - 1 : file[d] # "foreign"} \cup {p}
  BY <1>1, <1>3
<1>4. QED
  BY <1>2, <1>3 DEF RowsBefore

LEMMA AllCards == RowsBefore(Size + 1) = Wanted
<1>1. 1 .. (Size + 1) - 1 = 1 .. Size
  BY ImportAssumption
<1>2. QED
  BY <1>1 DEF RowsBefore, Wanted

(* What a statement, and the end of the service call, does to the connection.*)
LEMMA ImportWrites ==
  ASSUME NEW d \in ImportDBs, NEW rows \in RowSets, NEW e, e = Execute(d, rows, TRUE)
  PROVE  /\ e \in ImportDBs
         /\ d.txn = "open" => /\ e.txn = "open" /\ e.saved = d.saved
                              /\ e.pending = d.pending \cup rows
         /\ d.txn # "open" => e.txn = "none" /\ e.saved = d.saved \cup rows
<1>1. /\ Ready(d) \in ImportDBs /\ Ready(d).saved = d.saved
      /\ d.txn = "open" => Ready(d) = d
      /\ d.txn # "open" => Ready(d).txn = "none"
  BY DEF Ready, Rollback, ImportDBs, TxnStates
<1>2. e = Wrote(Ready(d), rows)
  BY DEF Execute
<1>3. QED
  BY <1>1, <1>2 DEF Wrote, ImportDBs, TxnStates, RowSets

LEMMA ImportEnds ==
  ASSUME NEW d \in ImportDBs
  PROVE  /\ Execute(d, {}, FALSE) \in ImportDBs /\ Execute(d, {}, FALSE).saved = d.saved
         /\ Execute(d, {}, FALSE).txn = IF d.txn = "open" THEN "aborted" ELSE "none"
         /\ Commit(d) \in ImportDBs /\ Rollback(d) \in ImportDBs
         /\ d.txn = "open" => Commit(d).saved = d.saved \cup d.pending
         /\ d.txn # "open" => Commit(d).saved = d.saved
<1>1. /\ Ready(d) \in ImportDBs /\ Ready(d).saved = d.saved
      /\ d.txn = "open" => Ready(d) = d
      /\ d.txn # "open" => Ready(d).txn = "none"
  BY DEF Ready, Rollback, ImportDBs, TxnStates
<1>2. Execute(d, {}, FALSE) = Failed(Ready(d))
  BY DEF Execute
<1>3. /\ Execute(d, {}, FALSE) \in ImportDBs /\ Execute(d, {}, FALSE).saved = d.saved
      /\ Execute(d, {}, FALSE).txn = IF d.txn = "open" THEN "aborted" ELSE "none"
  BY <1>1, <1>2 DEF Failed, ImportDBs, TxnStates
<1>4. QED
  BY <1>3 DEF Commit, Rollback, ImportDBs, TxnStates

LEMMA ImportStart == ImportInit => ImportInv
<1> SUFFICES ASSUME ImportInit PROVE ImportInv
  OBVIOUS
<1>1. /\ db = [txn |-> "open", pending |-> {}, saved |-> {}] /\ pos = 1 /\ batches = 0
      /\ batch = {} /\ counted = {} /\ reported = {} /\ early = {} /\ failures = 0
      /\ importStage = "reading" /\ retries = 0 /\ resume \in ResumePoints
      /\ file \in [1..Size -> CardKinds]
  BY DEF ImportInit, Begin
<1>2. db \in ImportDBs
  BY <1>1 DEF ImportDBs, TxnStates
<1>3. ImportTypes
  BY <1>1, <1>2, ImportAssumption DEF ImportTypes
<1>4. PlaceInv
  BY <1>1 DEF PlaceInv
<1>5. RowsBefore(1) = {}
  <2>1. 1 .. 1 - 1 = {}
    OBVIOUS
  <2>2. QED
    BY <2>1 DEF RowsBefore
<1>6. ReadInv
  BY <1>1, <1>5 DEF ReadInv
<1>7. StoreInv /\ CountedRowsAreStored
  BY <1>1 DEF StoreInv, SavedInv, CountedRowsAreStored
<1>8. QED
  BY <1>3, <1>4, <1>6, <1>7 DEF ImportInv

(* The cards that are passed over, which writes nothing.                     *)
LEMMA PassKeeps ==
  ASSUME ImportInv, SkipCard \/ FailCard
  PROVE  ImportInv'
<1>1. /\ ImportTypes /\ PlaceInv /\ ReadInv /\ StoreInv
      /\ importStage = "reading" /\ pos \in 1..Size /\ pos' = pos + 1
      /\ UNCHANGED <<file, resume, importStage, retries, db, counted, early, failures>>
  BY ImportAssumption DEF ImportInv, ImportTypes, SkipCard, FailCard, Reading
<1>2. /\ batch' = batch /\ batches' = batches
      /\ reported' = IF file[pos] = "foreign" \/ resume # 0 THEN reported
                     ELSE reported \cup RowsOf(pos)
  <2>1. CASE SkipCard
    <3>1. Skipping => resume # 0 /\ batch = {}
      BY <1>1, ImportAssumption DEF Skipping, ImportTypes, ReadInv
    <3>2. ~(file[pos] # "foreign" /\ Cardinality(batch) >= BatchSize)
      <4>1. Cardinality({}) = 0 /\ BatchSize \in Nat /\ BatchSize > 0
        BY FS_EmptySet, ImportAssumption
      <4>2. QED
        BY <2>1, <3>1, <4>1 DEF SkipCard
    <3>3. QED
      BY <2>1, <3>1, <3>2 DEF SkipCard
  <2>2. CASE FailCard
    <3>1. resume = 0
      BY <1>1, <2>2, ImportAssumption DEF FailCard, Skipping, ReadInv, ImportTypes
    <3>2. QED
      BY <2>2, <3>1 DEF FailCard
  <2>3. QED
    BY <2>1, <2>2
<1>3. RowsOf(pos) \subseteq CardRows
  BY <1>1, RowsOfCard DEF ImportTypes
<1>4. ImportTypes'
  BY <1>1, <1>2, <1>3, ImportAssumption DEF ImportTypes
<1>5. PlaceInv'
  BY <1>1, <1>2 DEF PlaceInv, ImportTypes
<1>6. ReadInv'
  <2>1. RowsBefore(pos)' = RowsBefore(pos + 1)
    BY <1>1 DEF RowsBefore, RowsOf
  <2>2. /\ file[pos] = "foreign" => RowsBefore(pos + 1) = RowsBefore(pos)
        /\ file[pos] # "foreign" => RowsBefore(pos + 1) = RowsBefore(pos) \cup RowsOf(pos)
    BY <1>1, NextCard DEF ImportTypes
  <2>3. QED
    BY <1>1, <1>2, <2>1, <2>2 DEF ReadInv
<1>7. StoreInv'
  <2>1. \A r \in batch \cup counted : r[1] < pos + 1
    BY <1>1 DEF StoreInv, ImportTypes, CardRows
  <2>2. QED
    BY <1>1, <1>2, <2>1 DEF StoreInv, SavedInv
<1>8. CountedRowsAreStored'
  BY <1>1 DEF CountedRowsAreStored
<1>9. QED
  BY <1>4, <1>5, <1>6, <1>7, <1>8 DEF ImportInv

(* A card whose rows join the batch.                                         *)
LEMMA TakeKeeps ==
  ASSUME ImportInv, TakeCard
  PROVE  ImportInv'
<1>1. /\ ImportTypes /\ PlaceInv /\ ReadInv /\ StoreInv
      /\ importStage = "reading" /\ pos \in 1..Size /\ pos' = pos + 1
      /\ file[pos] # "foreign" /\ batch' = batch \cup RowsOf(pos)
      /\ importStage' \in {"reading", "writing"}
      /\ UNCHANGED <<file, resume, batches, retries, db, counted, reported, early, failures>>
  BY ImportAssumption DEF ImportInv, ImportTypes, TakeCard, Reading
<1>2. resume = 0
  BY <1>1, ImportAssumption DEF TakeCard, Skipping, ReadInv, ImportTypes
<1>3. /\ RowsOf(pos) \subseteq CardRows /\ RowsOf(pos) # {} /\ \A r \in RowsOf(pos) : r[1] = pos
  BY <1>1, RowsOfCard DEF ImportTypes
<1>4. ImportTypes'
  BY <1>1, <1>3, ImportAssumption DEF ImportTypes
<1>5. PlaceInv'
  BY <1>1, <1>3 DEF PlaceInv, ImportTypes
<1>6. ReadInv'
  <2>1. RowsBefore(pos)' = RowsBefore(pos + 1)
    BY <1>1 DEF RowsBefore, RowsOf
  <2>2. RowsBefore(pos + 1) = RowsBefore(pos) \cup RowsOf(pos)
    BY <1>1, NextCard DEF ImportTypes
  <2>3. QED
    BY <1>1, <1>2, <2>1, <2>2 DEF ReadInv
<1>7. StoreInv'
  <2>1. \A r \in batch \cup counted : r[1] < pos /\ r[1] < pos + 1
    BY <1>1 DEF StoreInv, ImportTypes, CardRows
  <2>2. batch' \cap counted' = {}
    <3>1. \A r \in RowsOf(pos) : r \notin counted
      BY <1>1, <1>3, <2>1
    <3>2. QED
      BY <1>1, <3>1 DEF StoreInv
  <2>3. \A r \in batch' \cup counted' : r[1] < pos'
    BY <1>1, <1>3, <2>1
  <2>4. QED
    BY <1>1, <2>2, <2>3 DEF StoreInv, SavedInv
<1>8. CountedRowsAreStored'
  BY <1>1 DEF CountedRowsAreStored
<1>9. QED
  BY <1>4, <1>5, <1>6, <1>7, <1>8 DEF ImportInv

(* The end of the file.                                                      *)
LEMMA EndKeeps ==
  ASSUME ImportInv, EndOfFile
  PROVE  ImportInv'
<1>1. /\ ImportTypes /\ PlaceInv /\ ReadInv /\ StoreInv
      /\ importStage = "reading" /\ pos = Size + 1
      /\ importStage' = IF batch = {} THEN "returning" ELSE "last"
      /\ UNCHANGED <<file, resume, pos, batch, batches, retries, db, counted, reported,
                     early, failures>>
  BY ImportAssumption DEF ImportInv, ImportTypes, EndOfFile
<1>2. ImportTypes'
  BY <1>1 DEF ImportTypes
<1>3. PlaceInv'
  BY <1>1 DEF PlaceInv
<1>4. ReadInv'
  <2>1. RowsBefore(pos)' = RowsBefore(pos)
    BY <1>1 DEF RowsBefore, RowsOf
  <2>2. QED
    BY <1>1, <2>1 DEF ReadInv
<1>5. StoreInv' /\ CountedRowsAreStored'
  BY <1>1 DEF StoreInv, SavedInv, CountedRowsAreStored
<1>6. QED
  BY <1>2, <1>3, <1>4, <1>5 DEF ImportInv

(* A batch is written.                                                       *)
LEMMA WriteKeeps ==
  ASSUME ImportInv, WriteBatch
  PROVE  ImportInv'
<1> DEFINE good == Accepted(batch)
           after == Execute(db, good, TRUE)
<1>1. /\ ImportTypes /\ PlaceInv /\ ReadInv /\ StoreInv
      /\ importStage \in {"writing", "last"} /\ db' = after
      /\ counted' = counted \cup good /\ early' = IF failures = 0 THEN counted' ELSE early
      /\ reported' = reported \cup (batch \ good)
      /\ batch' = {} /\ batches' = batches + 1 /\ retries' = 0
      /\ importStage' = IF importStage = "last" THEN "returning" ELSE "reading"
      /\ UNCHANGED <<file, resume, pos, failures>>
  BY DEF ImportInv, WriteBatch, Writing
<1>2. good \subseteq batch /\ good \subseteq CardRows /\ good \cap counted = {}
  BY <1>1 DEF Accepted, ImportTypes, StoreInv
<1> HIDE DEF good
<1>3. db \in ImportDBs /\ good \in RowSets
  BY <1>1, <1>2 DEF ImportTypes, RowSets
<1>4. /\ after \in ImportDBs
      /\ db.txn = "open" => /\ after.txn = "open" /\ after.pending = db.pending \cup good
                             /\ after.saved = db.saved
      /\ db.txn # "open" => after.txn = "none" /\ after.saved = db.saved \cup good
  BY <1>3, ImportWrites
<1> HIDE DEF after
<1>5. resume = 0 /\ batch # {}
  BY <1>1 DEF ReadInv, PlaceInv
<1>6. ImportTypes'
  <2>1. counted' \subseteq CardRows /\ reported' \subseteq CardRows /\ batch' \subseteq CardRows
    BY <1>1, <1>2 DEF ImportTypes
  <2>2. early' \subseteq counted' /\ batches' \in Nat /\ retries' \in 0..MaxRetries
    BY <1>1, ImportAssumption DEF ImportTypes
  <2>3. QED
    BY <1>1, <1>4, <2>1, <2>2 DEF ImportTypes
<1>7. PlaceInv'
  BY <1>1, <1>5 DEF PlaceInv, ImportTypes
<1>8. ReadInv'
  <2>1. RowsBefore(pos)' = RowsBefore(pos)
    BY <1>1 DEF RowsBefore, RowsOf
  <2>2. QED
    BY <1>1, <1>2, <1>5, <2>1 DEF ReadInv
<1>9. SavedInv'
  <2>1. SavedInv /\ early \subseteq counted /\ failures \in Nat
    BY <1>1, ImportAssumption DEF StoreInv, ImportTypes
  <2>2. CASE db.txn = "open"
    BY <1>1, <1>4, <2>1, <2>2 DEF SavedInv
  <2>3. CASE db.txn # "open"
    <3>1. failures > 0 /\ db.saved = counted \ early
      BY <1>3, <2>1, <2>3 DEF SavedInv, ImportDBs, TxnStates
    <3>2. early' = early /\ failures' = failures /\ db'.txn = "none"
      BY <1>1, <1>4, <2>1, <2>3, <3>1
    <3>3. db'.saved = counted' \ early'
      BY <1>1, <1>2, <1>4, <2>1, <2>3, <3>1, <3>2
    <3>4. QED
      BY <3>1, <3>2, <3>3 DEF SavedInv
  <2>4. QED
    BY <2>2, <2>3
<1>10. StoreInv'
  BY <1>1, <1>2, <1>9 DEF StoreInv
<1>11. CountedRowsAreStored'
  BY <1>1 DEF CountedRowsAreStored
<1>12. QED
  BY <1>6, <1>7, <1>8, <1>10, <1>11 DEF ImportInv

(* A batch fails: the statement that failed ends the transaction.            *)
LEMMA FailKeeps ==
  ASSUME ImportInv, BatchFails
  PROVE  ImportInv'
<1> DEFINE after == Execute(db, {}, FALSE)
<1>1. /\ ImportTypes /\ PlaceInv /\ ReadInv /\ StoreInv
      /\ importStage \in {"writing", "last"} /\ db' = after
      /\ failures < Failures /\ failures' = failures + 1
      /\ retries' \in {0, retries + 1} /\ (retries' # 0 => retries # MaxRetries)
      /\ reported' \in {reported, reported \cup batch}
      /\ importStage' \in {importStage, "reading", "raising"}
      /\ (importStage' = "reading" => importStage = "writing")
      /\ (importStage' = "raising" => importStage = "last")
      /\ UNCHANGED <<file, resume, pos, batch, batches, counted, early>>
  BY DEF ImportInv, BatchFails, Writing
<1>2. /\ after \in ImportDBs /\ after.saved = db.saved
      /\ after.txn = IF db.txn = "open" THEN "aborted" ELSE "none"
  <2>1. db \in ImportDBs
    BY <1>1 DEF ImportTypes
  <2>2. QED
    BY <2>1, ImportEnds
<1> HIDE DEF after
<1>3. resume = 0 /\ failures \in Nat
  BY <1>1, ImportAssumption DEF ReadInv, PlaceInv, ImportTypes
<1>4. ImportTypes'
  <2>1. retries' \in 0..MaxRetries /\ failures' \in 0..Failures
    BY <1>1, ImportAssumption DEF ImportTypes
  <2>2. QED
    BY <1>1, <1>2, <2>1 DEF ImportTypes
<1>5. PlaceInv'
  BY <1>1 DEF PlaceInv
<1>6. ReadInv'
  <2>1. RowsBefore(pos)' = RowsBefore(pos)
    BY <1>1 DEF RowsBefore, RowsOf
  <2>2. QED
    BY <1>1, <1>3, <2>1 DEF ReadInv
<1>7. StoreInv'
  <2>1. SavedInv
    BY <1>1 DEF StoreInv
  <2>2. db \in ImportDBs
    BY <1>1 DEF ImportTypes
  <2>3. SavedInv'
    <3>1. CASE db.txn = "open"
      BY <1>1, <1>2, <1>3, <2>1, <3>1 DEF SavedInv
    <3>2. CASE db.txn # "open"
      <4>1. db.saved = counted \ early /\ db'.txn = "none" /\ db'.saved = db.saved
        BY <1>1, <1>2, <2>1, <2>2, <3>2 DEF SavedInv, ImportDBs, TxnStates
      <4>2. QED
        BY <1>1, <1>3, <4>1 DEF SavedInv
    <3>3. QED
      BY <3>1, <3>2
  <2>4. QED
    BY <1>1, <2>3 DEF StoreInv
<1>8. CountedRowsAreStored'
  BY <1>1 DEF CountedRowsAreStored
<1>9. QED
  BY <1>4, <1>5, <1>6, <1>7, <1>8 DEF ImportInv

(* The service call ends: a transaction that is still open holds all rows,   *)
(* one that was aborted is rolled back with all of them.                     *)
LEMMA CloseKeeps ==
  ASSUME ImportInv, EndImport
  PROVE  ImportInv'
<1>1. /\ ImportTypes /\ PlaceInv /\ ReadInv /\ StoreInv /\ SavedInv
      /\ \/ importStage = "returning" /\ db' = Commit(db) /\ importStage' = "done"
         \/ importStage = "raising" /\ db' = Rollback(db) /\ importStage' = "failed"
      /\ UNCHANGED <<file, resume, pos, batch, batches, retries, counted, reported,
                     early, failures>>
  BY DEF ImportInv, EndImport, StoreInv
<1>2. /\ Commit(db) \in ImportDBs /\ Rollback(db) \in ImportDBs
      /\ db.txn = "open" => Commit(db).saved = db.saved \cup db.pending
      /\ db.txn # "open" => Commit(db).saved = db.saved
  <2>1. db \in ImportDBs
    BY <1>1 DEF ImportTypes
  <2>2. QED
    BY <2>1, ImportEnds
<1>3. ImportTypes'
  BY <1>1, <1>2 DEF ImportTypes
<1>4. PlaceInv'
  BY <1>1 DEF PlaceInv
<1>5. ReadInv'
  <2>1. RowsBefore(pos)' = RowsBefore(pos)
    BY <1>1 DEF RowsBefore, RowsOf
  <2>2. QED
    BY <1>1, <2>1 DEF ReadInv
<1>6. StoreInv'
  BY <1>1 DEF StoreInv
<1>7. CountedRowsAreStored'
  <2> SUFFICES ASSUME importStage = "returning"
               PROVE  CountedRowsAreStored'
    BY <1>1 DEF CountedRowsAreStored
  <2>1. db' = Commit(db) /\ db \in ImportDBs /\ failures \in Nat /\ early \subseteq counted
    BY <1>1, ImportAssumption DEF ImportTypes
  <2>2. CASE db.txn = "open"
    BY <1>1, <1>2, <2>1, <2>2 DEF SavedInv, CountedRowsAreStored
  <2>3. CASE db.txn = "aborted"
    BY <1>1, <1>2, <2>1, <2>3 DEF SavedInv, CountedRowsAreStored
  <2>4. CASE db.txn = "none"
    BY <1>1, <1>2, <2>1, <2>4 DEF SavedInv, CountedRowsAreStored
  <2>5. QED
    BY <2>1, <2>2, <2>3, <2>4 DEF ImportDBs, TxnStates
<1>8. QED
  BY <1>3, <1>4, <1>5, <1>6, <1>7 DEF ImportInv

LEMMA ImportStep == ImportInv /\ [ImportNext]_importVars => ImportInv'
<1> SUFFICES ASSUME ImportInv, [ImportNext]_importVars PROVE ImportInv'
  OBVIOUS
<1>1. CASE UNCHANGED importVars \/ ImportEnded
  BY <1>1
     DEF importVars, ImportEnded, ImportInv, ImportTypes, PlaceInv, ReadInv, RowsBefore,
         RowsOf, StoreInv, SavedInv, CountedRowsAreStored
<1>2. QED
  BY <1>1, PassKeeps, TakeKeeps, EndKeeps, WriteKeeps, FailKeeps, CloseKeeps DEF ImportNext

LEMMA ImportAccounts ==
  ImportInv => ImportTypeOK /\ EveryCardIsAccountedFor /\ CountedRowsAreStored
<1> SUFFICES ASSUME ImportInv PROVE ImportTypeOK /\ EveryCardIsAccountedFor
  BY DEF ImportInv
<1>1. batches \in 0..Size
  BY ImportAssumption DEF ImportInv, ImportTypes, PlaceInv
<1>2. ImportTypeOK
  BY <1>1 DEF ImportInv, ImportTypes, ImportTypeOK, ImportDBs
<1>3. EveryCardIsAccountedFor
  BY AllCards DEF ImportInv, PlaceInv, ReadInv, EveryCardIsAccountedFor
<1>4. QED
  BY <1>2, <1>3

-----------------------------------------------------------------------------
(* SalesSync *)
RowOf(i) == [card |-> Card[i], finish |-> FinishSold(i)]

Resolving == {"variant", "product", "upsert"}
Places ==
  [at : {"idle", "fetch", "line"} \cup Resolving, account : Nat,
   item : Items \cup {Nothing}, card : Cards \cup {NoCard},
   finish : {"foil", "nonfoil", UnknownFinish}]

SyncTypes ==
  /\ creating \subseteq Items /\ products \subseteq Cards /\ review \in Items \cup {Nothing}
  /\ row \in [Items -> Row] /\ lines \in [Items -> Row]
  /\ sold \in Seq(Items) /\ toSync \subseteq Range(sold)
  /\ owed \subseteq Items /\ untold \subseteq Items /\ misses \in 0 .. MaxMisses
  /\ sync \in Places
  /\ sync.at = "idle" => sync = AtRest
  /\ sync.at # "idle" => sync.account \in 1 .. Len(Accounts)
  /\ sync.at \in {"idle", "fetch"} => toSync = {}
  /\ sync.at \in Resolving => sync.item \in Items

(* A row is missing, lacks its variant, or is the item's.  An item that was  *)
(* first taken up with its variant has kept it, and so has its sale.         *)
KnownInv ==
  /\ \A i \in Items : row[i].finish = UnknownFinish \/ row[i] = RowOf(i)
  /\ \A i \in Items : row[i] = NoRow \/ row[i].card = Card[i]
  /\ \A i \in Items : Staged(i) =>
       /\ lines[i].finish # UnknownFinish
       /\ i \notin untold => row[i] = RowOf(i)
  /\ sync.at \in Resolving /\ sync.item \notin untold =>
       /\ row[sync.item] = RowOf(sync.item)
       /\ sync.card \in {Card[sync.item], NoCard}
       /\ sync.at # "variant" => sync.finish = FinishSold(sync.item)

(* What the sync owes and has not staged is still ahead of it.               *)
Ahead(i) ==
  \/ \E n \in DOMAIN Accounts :
       /\ Accounts[n] = AccountOf[i]
       /\ n > sync.account \/ (n = sync.account /\ sync.at = "fetch")
  \/ i \in toSync
  \/ sync.at \in Resolving /\ sync.item = i

OwedInv ==
  /\ owed \subseteq Priced
  /\ \A i \in owed : Staged(i) \/ (sync.at # "idle" /\ Ahead(i))

SyncInv == SyncTypes /\ KnownInv /\ SoldAsListed /\ OwedInv

LEMMA AccountsAre ==
  /\ Len(Accounts) \in Nat /\ DOMAIN Accounts = 1 .. Len(Accounts)
  /\ \A i \in Items : \E n \in DOMAIN Accounts : Accounts[n] = AccountOf[i]
<1>1. Accounts \in Seq(Range(Accounts)) /\ AccountOf \in [Items -> Range(Accounts)]
  BY SyncAssumption
<1>2. Len(Accounts) \in Nat /\ DOMAIN Accounts = 1 .. Len(Accounts)
  <2>1. PICK S : Accounts \in Seq(S)
    BY <1>1
  <2>2. QED
    BY <2>1
<1>3. QED
  BY <1>1, <1>2 DEF Range

LEMMA RowIs ==
  ASSUME NEW i \in Items
  PROVE  /\ RowOf(i) \in Row /\ RowOf(i).card = Card[i] /\ RowOf(i).finish = FinishSold(i)
         /\ FinishSold(i) # UnknownFinish /\ RowOf(i) # NoRow
         /\ Card[i] \in Cards /\ Card[i] # NoCard /\ Default(FinishSold(i)) = FinishSold(i)
BY SyncAssumption DEF RowOf, Row, FinishSold, UnknownFinish, NoRow, Default

(* Where the sync goes next: to an account, or to rest.                      *)
LEMMA VisitIs ==
  ASSUME NEW n \in Nat, n # 0, Visit(n)
  PROVE  /\ n > Len(Accounts) => sync' = AtRest
         /\ n <= Len(Accounts) =>
              sync'.at = "fetch" /\ sync'.account = n /\ sync'.account \in 1 .. Len(Accounts)
         /\ sync' \in Places /\ sync'.at \in {"idle", "fetch"}
         /\ (sync'.at = "idle" => sync' = AtRest)
         /\ (sync'.at # "idle" => n <= Len(Accounts))
<1>1. Len(Accounts) \in Nat
  BY AccountsAre
<1>2. AtRest \in Places /\ AtRest.at = "idle"
  BY DEF AtRest, Places, UnknownFinish
<1>3. CASE n > Len(Accounts)
  BY <1>1, <1>2, <1>3 DEF Visit
<1>4. CASE n <= Len(Accounts)
  <2> DEFINE s == [AtRest EXCEPT !.at = "fetch", !.account = n]
  <2>1. s \in Places /\ s.at = "fetch" /\ s.account = n
    BY DEF AtRest, Places, UnknownFinish
  <2>2. sync' = s
    BY <1>1, <1>4 DEF Visit
  <2>3. QED
    BY <1>1, <1>4, <2>1, <2>2
<1>5. QED
  BY <1>1, <1>3, <1>4

(* The record of the sync on the way from one line to the next.              *)
AsVariant(s, i, c) == [s EXCEPT !.at = "variant", !.item = i, !.card = c]
AsProduct(s, f) == [s EXCEPT !.at = "product", !.finish = f]
AsUpsert(s, c) == [s EXCEPT !.at = "upsert", !.card = c]

LEMMA ToVariant ==
  ASSUME NEW s \in Places, NEW i \in Items, NEW c \in Cards \cup {NoCard}
  PROVE  LET t == AsVariant(s, i, c)
         IN /\ t \in Places /\ t.at = "variant" /\ t.account = s.account
            /\ t.item = i /\ t.card = c
BY DEF Places, Resolving, AsVariant

LEMMA ToProduct ==
  ASSUME NEW s \in Places, NEW f \in {"foil", "nonfoil", UnknownFinish}
  PROVE  LET t == AsProduct(s, f)
         IN /\ t \in Places /\ t.at = "product" /\ t.account = s.account
            /\ t.item = s.item /\ t.card = s.card /\ t.finish = f
BY DEF Places, Resolving, AsProduct

LEMMA ToUpsert ==
  ASSUME NEW s \in Places, NEW c \in Cards \cup {NoCard}
  PROVE  LET t == AsUpsert(s, c)
         IN /\ t \in Places /\ t.at = "upsert" /\ t.account = s.account
            /\ t.item = s.item /\ t.card = c /\ t.finish = s.finish
BY DEF Places, Resolving, AsUpsert

LEMMA ToLine ==
  ASSUME NEW n \in Nat, NEW t, t = [AtRest EXCEPT !.at = "line", !.account = n]
  PROVE  t \in Places /\ t.at = "line" /\ t.account = n
BY DEF Places, AtRest, UnknownFinish

LEMMA SyncStart == SyncInit => SyncInv
<1> SUFFICES ASSUME SyncInit PROVE SyncInv
  OBVIOUS
<1>1. /\ creating = Items \ Old /\ sold = <<>> /\ products \subseteq Cards /\ review = Nothing
      /\ lines = [i \in Items |-> NoRow] /\ sync = AtRest /\ toSync = {} /\ owed = {}
      /\ untold = {} /\ misses = 0
  BY DEF SyncInit
<1>2. AtRest \in Places /\ AtRest.at = "idle" /\ NoRow \in Row /\ NoRow.finish = UnknownFinish
  BY DEF AtRest, Places, Row, NoRow, UnknownFinish
<1>3. ASSUME NEW i \in Items
      PROVE  /\ row[i] \in Row /\ row[i].finish = UnknownFinish
             /\ row[i] = NoRow \/ row[i].card = Card[i]
  BY <1>2, RowIs DEF SyncInit, NoRow, Row
<1>4. row \in [Items -> Row] /\ lines \in [Items -> Row]
  BY <1>1, <1>2, <1>3 DEF SyncInit
<1>5. SyncTypes
  BY <1>1, <1>2, <1>4, SyncAssumption DEF SyncTypes, Range, Resolving
<1>6. \A i \in Items : ~Staged(i)
  BY <1>1 DEF Staged
<1>7. KnownInv
  BY <1>1, <1>2, <1>3, <1>6 DEF KnownInv, Resolving
<1>8. QED
  BY <1>1, <1>5, <1>6, <1>7 DEF SyncInv, SoldAsListed, OwedInv

(* Rows that are written are those of their items: what the sync has read of *)
(* them still stands.                                                        *)
LEMMA ShopKeeps ==
  ASSUME SyncInv, row' \in [Items -> Row], \A i \in Items : row'[i] \in {row[i], RowOf(i)},
         creating' \subseteq Items, products' \subseteq Cards, review' \in Items \cup {Nothing},
         sold' \in Seq(Items), Range(sold) \subseteq Range(sold'), misses' \in 0 .. MaxMisses,
         UNCHANGED <<lines, sync, toSync, owed, untold>>
  PROVE  SyncInv'
<1>1. SyncTypes /\ KnownInv /\ SoldAsListed /\ OwedInv
  BY DEF SyncInv
<1>2. SyncTypes'
  BY <1>1 DEF SyncTypes
<1>3. \A i \in Items : Staged(i)' <=> Staged(i)
  BY DEF Staged
<1>4. \A i \in Items : row[i] = RowOf(i) => row'[i] = RowOf(i)
  OBVIOUS
<1>5. KnownInv'
  <2>1. \A i \in Items : row'[i].finish = UnknownFinish \/ row'[i] = RowOf(i)
    BY <1>1 DEF KnownInv
  <2>2. \A i \in Items : row'[i] = NoRow \/ row'[i].card = Card[i]
    BY <1>1, RowIs DEF KnownInv
  <2>3. ASSUME NEW i \in Items, Staged(i)'
        PROVE  lines'[i].finish # UnknownFinish /\ (i \notin untold' => row'[i] = RowOf(i))
    BY <1>1, <1>3, <1>4, <2>3 DEF KnownInv
  <2>4. ASSUME sync'.at \in Resolving, sync'.item \notin untold'
        PROVE  /\ row'[sync'.item] = RowOf(sync'.item)
               /\ sync'.card \in {Card[sync'.item], NoCard}
               /\ sync'.at # "variant" => sync'.finish = FinishSold(sync'.item)
    <3>1. sync.item \in Items /\ row[sync.item] = RowOf(sync.item)
      BY <1>1, <2>4 DEF KnownInv, SyncTypes
    <3>2. QED
      BY <1>1, <1>4, <2>4, <3>1 DEF KnownInv
  <2>5. QED
    BY <2>1, <2>2, <2>3, <2>4 DEF KnownInv, RowOf, FinishSold
<1>6. SoldAsListed'
  BY <1>1, <1>3 DEF SoldAsListed, FinishSold
<1>7. OwedInv'
  BY <1>1, <1>3 DEF OwedInv, Ahead, SyncTypes
<1>8. QED
  BY <1>2, <1>5, <1>6, <1>7 DEF SyncInv

LEMMA ShopSteps ==
  ASSUME SyncInv,
         \/ \E i \in Items : Track(i) \/ TrackFails(i) \/ Sell(i) \/ Review(i)
         \/ \E c \in Cards : MakeProduct(c)
         \/ SkipItem \/ SaveVariant
  PROVE  SyncInv'
<1> USE DEF shop, nightly
<1>0. SyncTypes /\ row \in [Items -> Row] /\ sold \in Seq(Items) /\ misses \in 0 .. MaxMisses
      /\ \A i \in Items : row[i] \in {row[i], RowOf(i)}
  BY DEF SyncInv, SyncTypes
<1>1. ASSUME NEW i \in Items, row' = [row EXCEPT ![i] = RowOf(i)]
      PROVE  row' \in [Items -> Row] /\ \A j \in Items : row'[j] \in {row[j], RowOf(j)}
  BY <1>0, <1>1, RowIs
<1>2. ASSUME NEW i \in Items, Track(i) PROVE SyncInv'
  <2>1. /\ row' = [row EXCEPT ![i] = RowOf(i)]
        /\ creating' = creating \ {i}
        /\ UNCHANGED <<products, sold, review, lines, sync, toSync, owed, untold, misses>>
    BY <1>2 DEF Track, RowOf
  <2>2. row' \in [Items -> Row] /\ \A j \in Items : row'[j] \in {row[j], RowOf(j)}
    BY <1>1, <2>1
  <2>3. QED
    BY <1>0, <2>1, <2>2, ShopKeeps DEF SyncTypes
<1>3. ASSUME NEW i \in Items, TrackFails(i) PROVE SyncInv'
  <2>1. misses' \in 0 .. MaxMisses
    BY <1>0, <1>3, SyncAssumption DEF TrackFails, Fails
  <2>2. /\ creating' = creating \ {i}
        /\ UNCHANGED <<row, products, sold, review, lines, sync, toSync, owed, untold>>
    BY <1>3 DEF TrackFails
  <2>3. QED
    BY <1>0, <2>1, <2>2, ShopKeeps DEF SyncTypes
<1>4. ASSUME NEW i \in Items, Sell(i) PROVE SyncInv'
  <2>1. sold' \in Seq(Items) /\ Range(sold) \subseteq Range(sold')
    <3>1. PICK s \in Seq(Items) : s = sold
      BY <1>0
    <3>2. /\ Append(s, i) \in Seq(Items) /\ DOMAIN s \subseteq DOMAIN Append(s, i)
          /\ \A k \in DOMAIN s : Append(s, i)[k] = s[k]
      BY AppendProperties
    <3>3. sold' = Append(s, i)
      BY <1>4, <3>1 DEF Sell
    <3>4. QED
      BY <3>1, <3>2, <3>3 DEF Range
  <2>2. UNCHANGED <<creating, row, products, review, lines, sync, toSync, owed, untold, misses>>
    BY <1>4 DEF Sell
  <2>3. QED
    BY <1>0, <2>1, <2>2, ShopKeeps DEF SyncTypes
<1>5. ASSUME NEW i \in Items, Review(i) PROVE SyncInv'
  <2>1. /\ review' = i
        /\ UNCHANGED <<creating, row, products, sold, lines, sync, toSync, owed, untold, misses>>
    BY <1>5 DEF Review
  <2>2. QED
    BY <1>0, <2>1, ShopKeeps DEF SyncTypes
<1>6. ASSUME NEW c \in Cards, MakeProduct(c) PROVE SyncInv'
  <2>1. /\ products' = products \cup {c}
        /\ UNCHANGED <<creating, row, review, sold, lines, sync, toSync, owed, untold, misses>>
    BY <1>6 DEF MakeProduct
  <2>2. QED
    BY <1>0, <2>1, ShopKeeps DEF SyncTypes
<1>7. ASSUME SkipItem PROVE SyncInv'
  <2>1. /\ review' = Nothing
        /\ UNCHANGED <<creating, row, products, sold, lines, sync, toSync, owed, untold, misses>>
    BY <1>7 DEF SkipItem
  <2>2. QED
    BY <1>0, <2>1, ShopKeeps DEF SyncTypes
<1>8. ASSUME SaveVariant PROVE SyncInv'
  <2>1. review \in Items
    BY <1>0, <1>8 DEF SaveVariant, SyncTypes
  <2>2. /\ row' = [row EXCEPT ![review] = RowOf(review)] /\ review' = Nothing
        /\ products' = products \cup {Card[review]}
        /\ UNCHANGED <<creating, sold, lines, sync, toSync, owed, untold, misses>>
    BY <1>8 DEF SaveVariant, RowOf
  <2>3. row' \in [Items -> Row] /\ \A j \in Items : row'[j] \in {row[j], RowOf(j)}
    BY <1>1, <2>1, <2>2
  <2>4. products' \subseteq Cards
    BY <1>0, <2>1, <2>2, RowIs DEF SyncTypes
  <2>5. QED
    BY <1>0, <2>2, <2>3, <2>4, ShopKeeps DEF SyncTypes
<1>9. QED
  BY <1>2, <1>3, <1>4, <1>5, <1>6, <1>7, <1>8

(* Between the lines nothing is read: what is staged and known stays, and    *)
(* what is owed is ahead of the new place.                                   *)
LEMMA MoveKeeps ==
  ASSUME SyncInv, sync' \in Places, sync'.at \in {"idle", "fetch", "line"},
         sync'.at = "idle" => sync' = AtRest,
         sync'.at # "idle" => sync'.account \in 1 .. Len(Accounts),
         sync'.at \in {"idle", "fetch"} => toSync' = {},
         toSync' \subseteq Range(sold), owed' \subseteq owed \cup (Items \cap Priced),
         misses' \in 0 .. MaxMisses,
         \A i \in owed' : Staged(i) \/ (sync'.at # "idle" /\ Ahead(i)'),
         UNCHANGED <<creating, row, products, sold, lines, review, untold>>
  PROVE  SyncInv'
<1>1. SyncTypes /\ KnownInv /\ SoldAsListed /\ OwedInv
  BY DEF SyncInv
<1>2. SyncTypes'
  BY <1>1 DEF SyncTypes, Resolving
<1>3. \A i \in Items : Staged(i)' <=> Staged(i)
  BY DEF Staged
<1>4. KnownInv'
  <2>1. sync'.at \notin Resolving
    BY DEF Resolving
  <2>2. QED
    BY <1>1, <1>3, <2>1 DEF KnownInv, RowOf, FinishSold
<1>5. SoldAsListed'
  BY <1>1, <1>3 DEF SoldAsListed, FinishSold
<1>6. OwedInv'
  BY <1>1, <1>2, <1>3 DEF OwedInv, SyncTypes
<1>7. QED
  BY <1>2, <1>4, <1>5, <1>6 DEF SyncInv

LEMMA StartKeeps == ASSUME SyncInv, StartSync PROVE SyncInv'
<1>1. /\ SyncTypes /\ Visit(1) /\ toSync' = {} /\ owed' = Range(sold) \cap Priced
      /\ UNCHANGED <<creating, row, products, sold, lines, review, untold, misses>>
  BY DEF SyncInv, StartSync, shop
<1>2. /\ sync' \in Places /\ sync'.at \in {"idle", "fetch"}
      /\ (sync'.at = "idle" => sync' = AtRest) /\ (1 > Len(Accounts) => sync' = AtRest)
      /\ 1 <= Len(Accounts) => /\ sync'.at = "fetch" /\ sync'.account = 1
                               /\ sync'.account \in 1 .. Len(Accounts)
      /\ (sync'.at # "idle" => 1 <= Len(Accounts))
  BY <1>1, VisitIs
<1>3. Range(sold) \subseteq Items
  BY <1>1 DEF SyncTypes, Range
<1>4. ASSUME NEW i \in owed' PROVE sync'.at # "idle" /\ Ahead(i)'
  <2>1. PICK n \in DOMAIN Accounts : Accounts[n] = AccountOf[i]
    BY <1>1, <1>3, AccountsAre
  <2>2. n \in 1 .. Len(Accounts) /\ Len(Accounts) \in Nat
    BY <2>1, AccountsAre
  <2>3. sync'.at = "fetch" /\ sync'.account = 1 /\ (n > 1 \/ n = 1)
    BY <1>2, <2>2
  <2>4. QED
    BY <2>1, <2>3 DEF Ahead
<1>5. misses \in 0 .. MaxMisses
  BY <1>1 DEF SyncTypes
<1>6. QED
  BY <1>1, <1>2, <1>3, <1>4, <1>5, MoveKeeps

LEMMA FetchKeeps == ASSUME SyncInv, Fetch PROVE SyncInv'
<1> DEFINE page == LatestSales(Accounts[sync.account])
<1>1. /\ SyncTypes /\ OwedInv /\ sync.at = "fetch" /\ sync' = [sync EXCEPT !.at = "line"]
      /\ toSync' = page /\ owed' = owed \ (ItemsOf(sync.account) \ page)
      /\ UNCHANGED <<creating, row, products, sold, lines, review, untold, misses>>
  BY DEF SyncInv, Fetch, shop
<1>2. page \subseteq Range(sold)
  BY DEF LatestSales, SoldBy
<1> HIDE DEF page
<1>3. sync' \in Places /\ sync'.at = "line" /\ sync'.account = sync.account
  <2>1. PICK s \in Places : s = sync
    BY <1>1 DEF SyncTypes
  <2>2. [s EXCEPT !.at = "line"] \in Places
    BY DEF Places, Resolving
  <2>3. QED
    BY <1>1, <2>1, <2>2 DEF Places
<1>4. sync.account \in 1 .. Len(Accounts) /\ toSync = {} /\ misses \in 0 .. MaxMisses
      /\ owed \subseteq Items
  BY <1>1 DEF SyncTypes
<1>5. ASSUME NEW i \in owed', ~Staged(i) PROVE Ahead(i)'
  <2>1. Ahead(i) /\ i \in Items
    BY <1>1, <1>4, <1>5 DEF OwedInv
  <2>2. PICK n \in DOMAIN Accounts :
          Accounts[n] = AccountOf[i] /\ (n > sync.account \/ n = sync.account)
    BY <1>1, <1>4, <2>1 DEF Ahead, Resolving
  <2>3. n = sync.account => i \in ItemsOf(sync.account)
    BY <2>1, <2>2 DEF ItemsOf
  <2>4. CASE n = sync.account
    BY <1>1, <1>5, <2>3, <2>4 DEF Ahead
  <2>5. CASE n > sync.account
    BY <1>3, <2>2, <2>5 DEF Ahead
  <2>6. QED
    BY <2>2, <2>4, <2>5
<1>6. QED
  BY <1>1, <1>2, <1>3, <1>4, <1>5, MoveKeeps

(* The sync leaves an account, and owes no more of it.                       *)
LEMMA LeaveKeeps ==
  ASSUME SyncInv, sync.at # "idle", Visit(sync.account + 1), toSync' = {},
         owed' \subseteq owed, misses' \in 0 .. MaxMisses,
         \A i \in owed' : Staged(i) \/ \E n \in DOMAIN Accounts :
           Accounts[n] = AccountOf[i] /\ n > sync.account,
         UNCHANGED <<creating, row, products, sold, lines, review, untold>>
  PROVE  SyncInv'
<1>1. PICK a \in 1 .. Len(Accounts) : a = sync.account
  BY DEF SyncInv, SyncTypes
<1>2. a + 1 \in Nat /\ a + 1 # 0 /\ Len(Accounts) \in Nat /\ Visit(a + 1)
  BY <1>1, AccountsAre
<1>3. /\ sync' \in Places /\ sync'.at \in {"idle", "fetch"}
      /\ (sync'.at = "idle" => sync' = AtRest)
      /\ a + 1 <= Len(Accounts) => /\ sync'.at = "fetch" /\ sync'.account = a + 1
                                   /\ sync'.account \in 1 .. Len(Accounts)
      /\ (sync'.at # "idle" => a + 1 <= Len(Accounts))
  BY <1>2, VisitIs
<1>4. ASSUME NEW i \in owed', ~Staged(i) PROVE sync'.at # "idle" /\ Ahead(i)'
  <2>1. PICK n \in 1 .. Len(Accounts) : Accounts[n] = AccountOf[i] /\ n > a
    BY <1>1, <1>4, AccountsAre
  <2>2. sync'.at = "fetch" /\ (n > sync'.account \/ n = sync'.account)
    BY <1>2, <1>3, <2>1
  <2>3. n \in DOMAIN Accounts
    BY AccountsAre
  <2>4. QED
    BY <2>1, <2>2, <2>3 DEF Ahead
<1>5. QED
  BY <1>3, <1>4, MoveKeeps

LEMMA NextAccountKeeps == ASSUME SyncInv, NextAccount PROVE SyncInv'
<1>1. /\ SyncTypes /\ OwedInv /\ sync.at = "line" /\ toSync = {} /\ Visit(sync.account + 1)
      /\ toSync' = {} /\ owed' = owed /\ misses' = misses
      /\ UNCHANGED <<creating, row, products, sold, lines, review, untold>>
  BY DEF SyncInv, NextAccount, shop
<1>2. \A i \in owed : Staged(i) \/ \E n \in DOMAIN Accounts :
        Accounts[n] = AccountOf[i] /\ n > sync.account
  BY <1>1 DEF OwedInv, Ahead, Resolving
<1>3. misses \in 0 .. MaxMisses
  BY <1>1 DEF SyncTypes
<1>4. QED
  BY <1>1, <1>2, <1>3, LeaveKeeps

LEMMA AccountFailsKeeps == ASSUME SyncInv, AccountFails PROVE SyncInv'
<1>1. /\ SyncTypes /\ OwedInv /\ sync.at \in {"fetch", "line", "variant"}
      /\ Visit(sync.account + 1) /\ toSync' = {}
      /\ owed' = owed \ (IF sync.at = "fetch" THEN ItemsOf(sync.account)
                         ELSE toSync \cup {sync.item})
      /\ UNCHANGED <<creating, row, products, sold, lines, review, untold>>
  BY DEF SyncInv, AccountFails, EndOfAccount, shop
<1>2. misses' \in 0 .. MaxMisses
  BY <1>1, SyncAssumption DEF AccountFails, Fails, SyncTypes
<1>3. ASSUME NEW i \in owed', ~Staged(i)
      PROVE  \E n \in DOMAIN Accounts : Accounts[n] = AccountOf[i] /\ n > sync.account
  <2>1. i \in Items /\ Ahead(i)
    BY <1>1, <1>3 DEF OwedInv, SyncTypes
  <2>2. CASE sync.at = "fetch"
    <3>1. toSync = {} /\ i \notin ItemsOf(sync.account)
      BY <1>1, <2>2 DEF SyncTypes
    <3>2. AccountOf[i] # Accounts[sync.account]
      BY <2>1, <3>1 DEF ItemsOf
    <3>3. QED
      BY <2>1, <2>2, <3>1, <3>2 DEF Ahead, Resolving
  <2>3. CASE sync.at # "fetch"
    BY <1>1, <2>1, <2>3 DEF Ahead
  <2>4. QED
    BY <2>2, <2>3
<1>4. QED
  BY <1>1, <1>2, <1>3, LeaveKeeps

LEMMA SkipLineKeeps == ASSUME SyncInv, NEW i \in toSync, SkipLine(i) PROVE SyncInv'
<1>1. /\ SyncTypes /\ OwedInv /\ sync.at = "line" /\ i \notin Priced /\ toSync' = toSync \ {i}
      /\ UNCHANGED <<creating, row, products, sold, lines, review, sync, owed, untold, misses>>
  BY DEF SyncInv, SkipLine, shop
<1>2. sync' \in Places /\ sync'.account \in 1 .. Len(Accounts) /\ toSync' \subseteq Range(sold)
      /\ misses' \in 0 .. MaxMisses
  BY <1>1 DEF SyncTypes
<1>3. \A j \in owed' : Staged(j) \/ Ahead(j)'
  BY <1>1 DEF OwedInv, Ahead
<1>4. QED
  BY <1>1, <1>2, <1>3, MoveKeeps

LEMMA LineFailsKeeps == ASSUME SyncInv, LineFails PROVE SyncInv'
<1>1. /\ SyncTypes /\ OwedInv /\ sync.at \in {"product", "upsert"}
      /\ owed' = owed \ {sync.item} /\ NextLine
      /\ UNCHANGED <<creating, row, products, sold, lines, review, toSync, untold>>
  BY DEF SyncInv, LineFails, shop
<1>2. sync' \in Places /\ sync'.at = "line" /\ sync'.account = sync.account
  <2>1. sync.account \in Nat
    BY <1>1 DEF SyncTypes, Places
  <2>2. QED
    BY <1>1, <2>1, ToLine DEF NextLine
<1>3. misses' \in 0 .. MaxMisses
  BY <1>1, SyncAssumption DEF LineFails, Fails, SyncTypes
<1>4. sync.account \in 1 .. Len(Accounts) /\ toSync' \subseteq Range(sold)
  BY <1>1 DEF SyncTypes
<1>5. \A i \in owed' : Staged(i) \/ Ahead(i)'
  BY <1>1, <1>2 DEF OwedInv, Ahead
<1>6. QED
  BY <1>1, <1>2, <1>3, <1>4, <1>5, MoveKeeps

(* While a line is taken through its steps, what is read of it holds.        *)
LEMMA ReadKeeps ==
  ASSUME SyncInv, sync' \in Places, sync'.at \in Resolving, sync'.item \in Items,
         sync'.account = sync.account, sync.at \notin {"idle", "fetch"},
         toSync' \subseteq toSync, untold \subseteq untold', untold' \subseteq Items,
         sync'.item \notin untold' =>
           /\ row[sync'.item] = RowOf(sync'.item)
           /\ sync'.card \in {Card[sync'.item], NoCard}
           /\ sync'.at # "variant" => sync'.finish = FinishSold(sync'.item),
         \A i \in toSync \ toSync' : i = sync'.item,
         sync.at \in Resolving => sync'.item = sync.item,
         UNCHANGED <<creating, row, products, sold, lines, review, owed, misses>>
  PROVE  SyncInv'
<1>1. SyncTypes /\ KnownInv /\ SoldAsListed /\ OwedInv
  BY DEF SyncInv
<1>2. SyncTypes'
  BY <1>1 DEF SyncTypes, Resolving
<1>3. \A i \in Items : Staged(i)' <=> Staged(i)
  BY DEF Staged
<1>4. KnownInv'
  BY <1>1, <1>3 DEF KnownInv, RowOf, FinishSold
<1>5. SoldAsListed'
  BY <1>1, <1>3 DEF SoldAsListed, FinishSold
<1>6. OwedInv'
  <2>1. ASSUME NEW i \in owed, ~Staged(i) PROVE Ahead(i)'
    BY <1>1, <2>1 DEF OwedInv, Ahead
  <2>2. QED
    BY <1>1, <1>2, <1>3, <2>1 DEF OwedInv, SyncTypes, Resolving
<1>7. QED
  BY <1>2, <1>4, <1>5, <1>6 DEF SyncInv

LEMMA ReadCardKeeps == ASSUME SyncInv, NEW i \in toSync, ReadCard(i) PROVE SyncInv'
<1>1. /\ SyncTypes /\ KnownInv /\ sync.at = "line" /\ toSync' = toSync \ {i}
      /\ sync' = [sync EXCEPT !.at = "variant", !.item = i, !.card = CardFor(i)]
      /\ untold' = untold \cup (IF row[i].finish = UnknownFinish /\ ~Staged(i) THEN {i} ELSE {})
      /\ UNCHANGED <<creating, row, products, sold, lines, review, owed, misses>>
  BY DEF SyncInv, ReadCard, shop
<1>2. i \in Items
  BY <1>1 DEF SyncTypes, Range
<1>3. CardFor(i) \in Cards \cup {NoCard}
  BY <1>1, <1>2, SyncAssumption DEF CardFor, SyncTypes, Row
<1>4. /\ sync' \in Places /\ sync'.at = "variant" /\ sync'.account = sync.account
      /\ sync'.item = i /\ sync'.card = CardFor(i)
  <2>1. sync \in Places
    BY <1>1 DEF SyncTypes
  <2>2. sync' = AsVariant(sync, i, CardFor(i))
    BY <1>1 DEF AsVariant
  <2>3. QED
    BY <1>2, <1>3, <2>1, <2>2, ToVariant
<1>5. ASSUME i \notin untold' PROVE row[i] = RowOf(i) /\ CardFor(i) = Card[i]
  <2>1. row[i].finish # UnknownFinish \/ Staged(i)
    BY <1>1, <1>5
  <2>2. row[i] = RowOf(i)
    BY <1>1, <1>2, <1>5, <2>1 DEF KnownInv
  <2>3. QED
    BY <1>2, <2>2, RowIs DEF CardFor, Known
<1>6. untold' \subseteq Items
  BY <1>1, <1>2 DEF SyncTypes
<1>7. QED
  BY <1>1, <1>2, <1>4, <1>5, <1>6, ReadKeeps DEF Resolving

LEMMA ReadVariantKeeps == ASSUME SyncInv, ReadVariant PROVE SyncInv'
<1> DEFINE f == row[sync.item].finish
<1>1. /\ SyncTypes /\ KnownInv /\ sync.at = "variant"
      /\ sync' = [sync EXCEPT !.at = "product", !.finish = f]
      /\ UNCHANGED <<creating, row, products, sold, lines, review, toSync, owed, untold, misses>>
  BY DEF SyncInv, ReadVariant, shop
<1>2. sync.item \in Items /\ untold \subseteq Items
  BY <1>1 DEF SyncTypes, Resolving
<1>3. f \in {"foil", "nonfoil", UnknownFinish}
  BY <1>1, <1>2 DEF SyncTypes, Row
<1>4. sync.item \notin untold =>
        /\ row[sync.item] = RowOf(sync.item) /\ f = FinishSold(sync.item)
        /\ sync.card \in {Card[sync.item], NoCard}
  BY <1>1, <1>2, RowIs DEF KnownInv, Resolving
<1> HIDE DEF f
<1>5. /\ sync' \in Places /\ sync'.at = "product" /\ sync'.account = sync.account
      /\ sync'.item = sync.item /\ sync'.card = sync.card /\ sync'.finish = f
  <2>1. sync \in Places
    BY <1>1 DEF SyncTypes
  <2>2. sync' = AsProduct(sync, f)
    BY <1>1 DEF AsProduct
  <2>3. QED
    BY <1>3, <2>1, <2>2, ToProduct
<1>6. QED
  BY <1>1, <1>2, <1>4, <1>5, ReadKeeps DEF Resolving

LEMMA EnsureKeeps == ASSUME SyncInv, EnsureSourceProduct PROVE SyncInv'
<1> DEFINE c == IF sync.card \in products THEN sync.card ELSE NoCard
<1>1. /\ SyncTypes /\ KnownInv /\ sync.at = "product"
      /\ sync' = [sync EXCEPT !.at = "upsert", !.card = c]
      /\ UNCHANGED <<creating, row, products, sold, lines, review, toSync, owed, untold, misses>>
  BY DEF SyncInv, EnsureSourceProduct, shop
<1>2. sync.item \in Items /\ untold \subseteq Items
  BY <1>1 DEF SyncTypes, Resolving
<1>3. c \in Cards \cup {NoCard}
  BY <1>1 DEF SyncTypes
<1>4. sync.item \notin untold =>
        /\ row[sync.item] = RowOf(sync.item) /\ sync.finish = FinishSold(sync.item)
        /\ c \in {Card[sync.item], NoCard}
  BY <1>1, <1>2 DEF KnownInv, Resolving
<1> HIDE DEF c
<1>5. /\ sync' \in Places /\ sync'.at = "upsert" /\ sync'.account = sync.account
      /\ sync'.item = sync.item /\ sync'.card = c /\ sync'.finish = sync.finish
  <2>1. sync \in Places
    BY <1>1 DEF SyncTypes
  <2>2. sync' = AsUpsert(sync, c)
    BY <1>1 DEF AsUpsert
  <2>3. QED
    BY <1>3, <2>1, <2>2, ToUpsert
<1>6. QED
  BY <1>1, <1>2, <1>4, <1>5, ReadKeeps DEF Resolving

(* A line is staged for the first time, or its product is replaced.          *)
LEMMA UpsertKeeps == ASSUME SyncInv, UpsertLine PROVE SyncInv'
<1>0. PICK i \in Items : i = sync.item
  BY DEF SyncInv, SyncTypes, UpsertLine, Resolving
<1> DEFINE f == IF Staged(i) THEN lines[i].finish ELSE Default(sync.finish)
           new == [card |-> sync.card, finish |-> f]
<1>1. /\ SyncTypes /\ KnownInv /\ SoldAsListed /\ OwedInv /\ sync.at = "upsert" /\ NextLine
      /\ lines' = [lines EXCEPT ![i] = new]
      /\ UNCHANGED <<creating, row, products, sold, review, toSync, owed, untold, misses>>
  BY <1>0 DEF SyncInv, UpsertLine, shop
<1>2. lines \in [Items -> Row] /\ lines[i] \in Row /\ sync \in Places
  BY <1>0, <1>1 DEF SyncTypes, Resolving
<1>3. f \in {"foil", "nonfoil"}
  BY <1>1, <1>2 DEF KnownInv, Default, Places, Row, UnknownFinish
<1>4. i \notin untold =>
        f = FinishSold(i) /\ sync.card \in {Card[i], NoCard} /\ row[i] = RowOf(i)
  BY <1>0, <1>1, <1>2, RowIs DEF KnownInv, SoldAsListed, Resolving
<1> HIDE DEF f
<1>5. new \in Row /\ new # NoRow /\ new.finish = f /\ new.card = sync.card
  BY <1>2, <1>3 DEF Row, NoRow, UnknownFinish, Places
<1> HIDE DEF new
<1>6. /\ lines' \in [Items -> Row] /\ lines'[i] = new
      /\ \A j \in Items \ {i} : lines'[j] = lines[j]
  BY <1>1, <1>2, <1>5
<1>7. /\ Staged(i)' /\ lines'[i].finish = f
      /\ \A j \in Items \ {i} : Staged(j)' <=> Staged(j)
  <2>1. lines'[i] # NoRow
    BY <1>5, <1>6
  <2>2. QED
    BY <1>5, <1>6, <2>1 DEF Staged
<1>8. sync' \in Places /\ sync'.at = "line" /\ sync'.account = sync.account
  <2>1. sync.account \in Nat
    BY <1>2 DEF Places
  <2>2. QED
    BY <1>1, <2>1, ToLine DEF NextLine
<1>9. SyncTypes'
  BY <1>1, <1>6, <1>8 DEF SyncTypes, Resolving
<1>10. KnownInv'
  <2>1. ASSUME NEW j \in Items, Staged(j)'
        PROVE  lines'[j].finish # UnknownFinish /\ (j \notin untold => row[j] = RowOf(j))
    <3>1. CASE j = i
      BY <1>3, <1>4, <1>7, <3>1 DEF UnknownFinish
    <3>2. CASE j # i
      BY <1>1, <1>6, <1>7, <2>1, <3>2 DEF KnownInv
    <3>3. QED
      BY <3>1, <3>2
  <2>2. QED
    BY <1>1, <1>8, <2>1 DEF KnownInv, RowOf, FinishSold, Resolving
<1>11. SoldAsListed'
  <2>1. ASSUME NEW j \in Items \ untold, Staged(j)'
        PROVE  lines'[j].finish = FinishSold(j) /\ lines'[j].card \in {Card[j], NoCard}
    <3>1. CASE j = i
      BY <1>4, <1>5, <1>6, <1>7, <2>1, <3>1
    <3>2. CASE j # i
      BY <1>1, <1>6, <1>7, <2>1, <3>2 DEF SoldAsListed
    <3>3. QED
      BY <3>1, <3>2
  <2>2. QED
    BY <1>1, <2>1 DEF SoldAsListed, FinishSold
<1>12. OwedInv'
  <2>1. owed \subseteq Items /\ owed \subseteq Priced
    BY <1>1 DEF SyncTypes, OwedInv
  <2>2. ASSUME NEW j \in owed, ~Staged(j)' PROVE Ahead(j)'
    <3>1. j # i /\ j \in Items /\ ~Staged(j)
      BY <1>7, <2>1, <2>2
    <3>2. QED
      BY <1>0, <1>1, <1>8, <3>1 DEF OwedInv, Ahead
  <2>3. QED
    BY <1>1, <1>8, <2>1, <2>2 DEF OwedInv
<1>13. QED
  BY <1>9, <1>10, <1>11, <1>12 DEF SyncInv

LEMMA SyncStep == SyncInv /\ [SyncNext]_syncVars => SyncInv'
<1> SUFFICES ASSUME SyncInv, [SyncNext]_syncVars PROVE SyncInv'
  OBVIOUS
<1>1. CASE UNCHANGED syncVars
  <2>1. UNCHANGED <<creating, row, products, sold, lines, review, sync, toSync, owed, untold,
                    misses>>
    BY <1>1 DEF syncVars
  <2>2. SyncTypes' /\ KnownInv' /\ SoldAsListed'
    BY <2>1
       DEF SyncInv, SyncTypes, KnownInv, SoldAsListed, Staged, RowOf, FinishSold
  <2>3. OwedInv'
    BY <2>1 DEF SyncInv, OwedInv, Ahead, Staged
  <2>4. QED
    BY <2>2, <2>3 DEF SyncInv
<1>2. QED
  BY <1>1, ShopSteps, StartKeeps, FetchKeeps, NextAccountKeeps, AccountFailsKeeps,
     SkipLineKeeps, ReadCardKeeps, ReadVariantKeeps, EnsureKeeps, UpsertKeeps, LineFailsKeeps
     DEF SyncNext

LEMMA SyncHolds == SyncInv => SyncTypeOK /\ SoldAsListed /\ SoldIsStaged
<1> SUFFICES ASSUME SyncInv PROVE SyncTypeOK /\ SoldIsStaged
  BY DEF SyncInv
<1>1. SyncTypeOK
  BY DEF SyncInv, SyncTypes, SyncTypeOK, Range
<1>2. SoldIsStaged
  BY DEF SyncInv, OwedInv, SoldIsStaged, AtRest
<1>3. QED
  BY <1>1, <1>2

-----------------------------------------------------------------------------
(* The night together *)
NightInv == TypeOK /\ CallsInv /\ ImportInv /\ HealthInv /\ SyncInv /\ AdviceInv

LEMMA NightStart == NightlyInit => NightInv
BY TypeInit, CallsStart, ImportStart, HealthStart, SyncStart, AdviceStart
   DEF NightlyInit, NightInv

(* A step of one part leaves the others at rest.                             *)
LEMMA PartSteps ==
  ASSUME [NightlyNext]_nightlyVars
  PROVE  /\ [Next]_vars /\ [CallsNext]_callVars /\ [ImportNext]_importVars
         /\ [HealthNext]_healthVars /\ [SyncNext]_syncVars /\ [AdviceNext]_adviceVars
<1>1. CASE UNCHANGED nightlyVars
  BY <1>1 DEF nightlyVars
<1>2. CASE NightlyNext
  BY <1>2 DEF NightlyNext
<1>3. QED
  BY <1>1, <1>2

LEMMA NightKept == NightInv /\ [NightlyNext]_nightlyVars => NightInv'
<1> SUFFICES ASSUME NightInv, [NightlyNext]_nightlyVars PROVE NightInv'
  OBVIOUS
<1>1. /\ [Next]_vars /\ [CallsNext]_callVars /\ [ImportNext]_importVars
      /\ [HealthNext]_healthVars /\ [SyncNext]_syncVars /\ [AdviceNext]_adviceVars
  BY PartSteps
<1>2. TypeOK' /\ CallsInv' /\ ImportInv'
  BY <1>1, TypeStep, CallsStep, ImportStep DEF NightInv
<1>3. HealthInv' /\ SyncInv' /\ AdviceInv'
  BY <1>1, HealthStep, SyncStep, AdviceStep DEF NightInv
<1>4. QED
  BY <1>2, <1>3 DEF NightInv

(* Type correctness of everything the night is made of.                      *)
THEOREM NightStaysTyped == NightlySpec => []NightlyTypes
<1>1. NightInv => NightlyTypes
  BY ImportAccounts, SyncHolds DEF NightInv, CallsInv, HealthInv, AdviceInv, NightlyTypes
<1>2. QED
  BY <1>1, NightStart, NightKept, PTL DEF NightlySpec

(* However long the file, whatever its cards and whichever of its statements *)
(* fail: an import of the whole file that returns has counted or reported    *)
(* every card it wants, and what it counted is stored, or lost with the      *)
(* transaction (process_large_cards_json).  Whatever sellers sell, and       *)
(* whichever calls fail: a sale is staged as it was listed, and none that    *)
(* was on the page is left out because of another (sync_own_sales).          *)
THEOREM LoadsStayTrue == NightlySpec => []LoadsAreTrue
<1>1. NightInv => LoadsAreTrue
  BY ImportAccounts, SyncHolds DEF NightInv, LoadsAreTrue
<1>2. QED
  BY <1>1, NightStart, NightKept, PTL DEF NightlySpec
=============================================================================
