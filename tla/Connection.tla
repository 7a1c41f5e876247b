----------------------------- MODULE Connection ------------------------------
(* One database connection as the repositories see it: what a statement,     *)
(* COMMIT and ROLLBACK do to it, and what AsyncQueryExecutor adds to them.    *)
(* A connection is a record: txn says where its transaction stands, pending   *)
(* holds what the transaction has written and saved what is committed.        *)
TxnStates == {"none", "open", "aborted"}

(* BEGIN: what is written from here on waits for the COMMIT.                  *)
Begin(db) == [db EXCEPT !.txn = "open"]

(* ROLLBACK, which outside a transaction only warns.                          *)
Rollback(db) == [db EXCEPT !.txn = "none", !.pending = {}]

(* COMMIT: an aborted transaction is rolled back by it without an error, and  *)
(* outside a transaction it only warns.                                       *)
Commit(db) ==
  [db EXCEPT !.txn = "none", !.pending = {},
             !.saved = IF db.txn = "open" THEN @ \cup db.pending ELSE @]

(* A statement that succeeds: outside a transaction it commits on its own.    *)
Wrote(db, rows) ==
  IF db.txn = "open" THEN [db EXCEPT !.pending = @ \cup rows]
                     ELSE [db EXCEPT !.saved = @ \cup rows]

(* A statement that fails aborts the transaction it is in.                    *)
Failed(db) == IF db.txn = "none" THEN db ELSE [db EXCEPT !.txn = "aborted"]

(* execute_command, execute_query, execute_many: in an aborted transaction    *)
(* the executor rolls back and runs the statement once more, now outside any  *)
(* transaction.                                                               *)
Ready(db) == IF db.txn = "aborted" THEN Rollback(db) ELSE db

(* Mutant: the executor rolls back and does not run the statement again.      *)
RollbackOnly(db, rows, ok) ==
  IF db.txn = "aborted" THEN Rollback(db)
  ELSE IF ok THEN Wrote(db, rows) ELSE Failed(db)

Execute(db, rows, ok) == IF ok THEN Wrote(Ready(db), rows) ELSE Failed(Ready(db))
=============================================================================
