------------------------------ MODULE CardImport ------------------------------
(* process_large_cards_json: the weekly bulk file is streamed card by card    *)
(* into batches, each written by one statement that is retried when it fails. *)
(* The whole import is one service call in a transaction of its own.  The     *)
(* import of the sets has the same loop.                                       *)
EXTENDS Connection, Integers, FiniteSets

CONSTANTS
  Size,         \* how many cards the file holds
  BatchSize,    \* rows after which a batch is written
  MaxRetries,   \* retries of one batch
  ResumePoints, \* the values of resume_from_batch
  Failures      \* bound: statements that fail

ASSUME ImportAssumption ==
  /\ Size \in Nat /\ BatchSize \in Nat \ {0} /\ MaxRetries \in Nat
  /\ ResumePoints \subseteq Nat /\ Failures \in Nat

VARIABLES
  file,       \* the kind of each card in the file
  resume,     \* resume_from_batch
  importStage, \* where the import stands
  pos,        \* the card that is read next
  batch,      \* the rows of the batch that is being filled
  batches,    \* batch_count
  retries,    \* how often the present batch has failed
  db,         \* the connection of the service call
  counted,    \* rows that successful_inserts stands for
  reported,   \* cards and rows saved to the errors storage
  early,      \* history: rows counted before the first statement that failed
  failures    \* history: statements that failed

importVars == <<file, resume, importStage, pos, batch, batches, retries, db,
                counted, reported, early, failures>>

(* A card in another language, one that does not validate, one that the       *)
(* stored function rejects, and good ones with one and two finishes.          *)
CardKinds == {"foreign", "invalid", "rejected", "single", "double"}
Finishes(kind) == IF kind = "double" THEN {1, 2} ELSE {1}
RowsOf(card) == {card} \X Finishes(file[card])
CardRows == (1..Size) \X {1, 2}
Accepted(rows) == {r \in rows : file[r[1]] # "rejected"}

ImportInit ==
  /\ file \in [1..Size -> CardKinds]
  /\ resume \in ResumePoints
  /\ importStage = "reading" /\ pos = 1
  /\ batch = {} /\ batches = 0 /\ retries = 0
  /\ db = Begin([txn |-> "none", pending |-> {}, saved |-> {}])
  /\ counted = {} /\ reported = {} /\ early = {}
  /\ failures = 0

Reading == importStage = "reading" /\ pos <= Size

(* Cards in another language are skipped, and so is every card while          *)
(* batch_count is below resume_from_batch: what is skipped never enters the   *)
(* batch, so the batch that would raise the count is never full.              *)
Skipping == batches < resume

SkipCard ==
  /\ Reading
  /\ file[pos] = "foreign" \/ Skipping
  /\ IF file[pos] # "foreign" /\ Cardinality(batch) >= BatchSize
     THEN batch' = {} /\ batches' = batches + 1
     ELSE UNCHANGED <<batch, batches>>
  /\ pos' = pos + 1
  /\ UNCHANGED <<file, resume, importStage, retries, db, counted, reported, early,
                 failures>>

(* A card that does not validate is kept for the errors storage.              *)
FailCard ==
  /\ Reading /\ ~Skipping /\ file[pos] = "invalid"
  /\ reported' = reported \cup RowsOf(pos)
  /\ pos' = pos + 1
  /\ UNCHANGED <<file, resume, importStage, batch, batches, retries, db, counted, early,
                 failures>>

(* One row per finish; a full batch is written before the next card is read.  *)
TakeCard ==
  /\ Reading /\ ~Skipping /\ file[pos] \in {"rejected", "single", "double"}
  /\ batch' = batch \cup RowsOf(pos)
  /\ pos' = pos + 1
  /\ importStage' = IF Cardinality(batch') >= BatchSize THEN "writing" ELSE "reading"
  /\ UNCHANGED <<file, resume, batches, retries, db, counted, reported, early, failures>>

(* The end of the file: what remains is a batch of its own.                   *)
EndOfFile ==
  /\ importStage = "reading" /\ pos > Size
  /\ importStage' = IF batch = {} THEN "returning" ELSE "last"
  /\ UNCHANGED <<file, resume, pos, batch, batches, retries, db, counted, reported,
                 early, failures>>

Writing == importStage \in {"writing", "last"}

(* add_many succeeds: the rows that the function rejected are reported.       *)
WriteBatch ==
  /\ Writing
  /\ db' = Execute(db, Accepted(batch), TRUE)
  /\ counted' = counted \cup Accepted(batch)
  /\ early' = IF failures = 0 THEN counted' ELSE early
  /\ reported' = reported \cup (batch \ Accepted(batch))
  /\ batch' = {} /\ batches' = batches + 1 /\ retries' = 0
  /\ importStage' = IF importStage = "last" THEN "returning" ELSE "reading"
  /\ UNCHANGED <<file, resume, pos, failures>>

(* add_many fails.  After the last retry the batch is saved to the errors     *)
(* storage and the exception leaves _process_batch: the loop over the cards   *)
(* takes it for a card that failed, and goes on with the batch it has; only   *)
(* the exception of the last batch fails the import.                          *)
BatchFails ==
  /\ Writing /\ failures < Failures
  /\ failures' = failures + 1
  /\ db' = Execute(db, {}, FALSE)
  /\ LET givenUp == retries = MaxRetries
     IN /\ retries' = IF givenUp THEN 0 ELSE retries + 1
        /\ reported' = IF givenUp THEN reported \cup batch ELSE reported
        /\ importStage' = CASE ~givenUp -> importStage
                            [] givenUp /\ importStage = "writing" -> "reading"
                            [] OTHER -> "raising"
  /\ UNCHANGED <<file, resume, pos, batch, batches, counted, early>>

(* The service call ends: ServiceManager.transaction.                         *)
EndImport ==
  /\ \/ importStage = "returning" /\ db' = Commit(db) /\ importStage' = "done"
     \/ importStage = "raising" /\ db' = Rollback(db) /\ importStage' = "failed"
  /\ UNCHANGED <<file, resume, pos, batch, batches, retries, counted, reported,
                 early, failures>>

ImportEnded == importStage \in {"done", "failed"} /\ UNCHANGED importVars

ImportNext ==
  \/ SkipCard \/ FailCard \/ TakeCard \/ EndOfFile \/ WriteBatch \/ BatchFails
  \/ EndImport \/ ImportEnded

ImportSpec == ImportInit /\ [][ImportNext]_importVars

-----------------------------------------------------------------------------
(* Every variable has its type.                                              *)
ImportTypeOK ==
  /\ file \in [1..Size -> CardKinds] /\ resume \in ResumePoints
  /\ importStage \in {"reading", "writing", "last", "returning", "raising", "done",
                      "failed"}
  /\ pos \in 1..(Size + 1) /\ batches \in 0..Size /\ retries \in 0..MaxRetries
  /\ batch \subseteq CardRows /\ counted \subseteq CardRows /\ reported \subseteq CardRows
  /\ db.txn \in TxnStates /\ db.pending \subseteq CardRows /\ db.saved \subseteq CardRows
  /\ early \subseteq counted /\ failures \in 0..Failures

Wanted == UNION {RowsOf(c) : c \in {d \in 1..Size : file[d] # "foreign"}}

(* An import that returns has accounted for every card in a language it       *)
(* imports: the row is counted as inserted or reported in the errors storage. *)
(* Nothing of the kind is said of an import that resumes, see below.          *)
EveryCardIsAccountedFor ==
  (importStage = "done" /\ resume = 0) => counted \cup reported = Wanted

(* The rows of the cards that come after the batches a resumed import skips:  *)
(* a batch has BatchSize rows, or one more when its last card has two.        *)
RowsToBatch(cards) == UNION {RowsOf(c) : c \in {d \in cards : file[d] \notin {"foreign", "invalid"}}}
AfterSkipped ==
  UNION {RowsOf(c) : c \in {d \in 1..Size :
           file[d] # "foreign" /\ Cardinality(RowsToBatch(1..(d - 1))) >= resume * (BatchSize + 1)}}

(* An import that resumes at a batch accounts for the cards after the batches *)
(* it skips: resume_from_batch is the "Batch number to resume from (for       *)
(* recovery)" of the docstrings (process_large_cards_json).  The code does    *)
(* not keep this, see Skipping.                                               *)
ResumedImportRecovers ==
  (importStage = "done" /\ resume > 0) => AfterSkipped \subseteq counted \cup reported

(* A row counted as inserted is in the table when the import returns, unless  *)
(* it was written before a statement of the import failed: those rows are     *)
(* lost together, with the transaction that the executor rolls back.          *)
CountedRowsAreStored ==
  importStage = "done" =>
    /\ (counted \ early) \subseteq db.saved
    /\ early \cap db.saved \in {{}, early}
    /\ failures = 0 => early \subseteq db.saved
=============================================================================
