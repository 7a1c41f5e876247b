---------------------------- MODULE PipelineRuns ----------------------------
(***************************************************************************)
(* The life of one scheduled pipeline's runs: the Celery broker and its    *)
(* single worker, the trigger task that checks for an active run and       *)
(* dispatches a chain, run_service executing one chain message at a time,  *)
(* and the rows of ops.ingestion_runs / ops.ingestion_run_steps that       *)
(* start_run, track_step, finish_run and the start-up reconciliation write.*)
(*                                                                         *)
(* A chain is a line of positions.  Position Start creates the run row,    *)
(* positions in Steps are the pipeline's work, Finish closes the run and   *)
(* the positions after Finish are diagnostics that write no run state.     *)
(***************************************************************************)
EXTENDS Integers, Sequences, FiniteSets

CONSTANTS
  Finish,       \* position of finish_run in the chain
  Last,         \* position of the last message of the chain
  Kind,         \* how the service of each work step writes its tracking rows
  Fallible,     \* positions whose service may raise
  MaxDay,       \* bound: run keys (one a day) that the model reaches
  MaxTriggers,  \* bound: trigger messages that beat or an operator sends
  MaxCrashes,   \* bound: deaths of the worker process
  MaxLost,      \* bound: deaths of the pool child executing a message
  MaxSlow,      \* bound: messages that outlive the visibility timeout
  Burst         \* may a trigger be sent while another one is still queued?

Trig  == 0      \* position of the trigger message, which belongs to no run
Start == 1
NoRun == 0

Days  == 1 .. MaxDay
Steps == Start + 1 .. Finish - 1
Pos   == Trig .. Last

(* "direct": tracked, each write commits by itself (runs_in_transaction=False) *)
(* "txn": tracked, all writes inside the transaction that wraps the service    *)
(* "untracked": the service does not use track_step                            *)
Kinds == {"direct", "txn", "untracked"}

ASSUME PipelineAssumption ==
  /\ Finish \in Nat /\ Finish > Start
  /\ Last \in Nat /\ Last >= Finish
  /\ Kind \in [Steps -> Kinds]
  /\ Fallible \subseteq Start .. Last
  /\ MaxDay \in Nat \ {0}
  /\ MaxTriggers \in Nat /\ MaxCrashes \in Nat
  /\ MaxLost \in Nat /\ MaxSlow \in Nat
  /\ Burst \in BOOLEAN

VARIABLES
  queue,      \* the Redis list of the broker; its head is consumed next
  orphans,    \* un-acked messages of dead workers, kept by the broker
  up,         \* is the worker process running?
  stage,      \* how far the worker is with the message it executes
  msg,        \* that message (its context as merged so far)
  held,       \* does the broker still hold msg un-acked?
  today,      \* the date that run keys are computed from
  status,     \* ingestion_runs.status per run key, "none" when there is no row
  ended,      \* ingestion_runs.ended_at IS NOT NULL
  err,        \* ingestion_runs.error_code IS NOT NULL
  at,         \* ingestion_runs.current_step
  stepRow,    \* ingestion_run_steps.status per run key and work step
  worked,     \* history: steps whose body completed since the last start_run
  used        \* history: how much of each bound has been consumed

broker  == <<queue, orphans>>
worker  == <<up, stage, msg, held>>
runRow  == <<status, ended, err, at>>
ledger  == <<runRow, stepRow, worked>>
vars    == <<broker, worker, today, ledger, used>>

Statuses == {"none", "running", "success", "failed"}
Stages   == {"idle", "taken", "entered", "failing", "returned", "published"}
Bounds   == {"trigger", "crash", "lost", "slow"}

Message == [run: Days \cup {NoRun}, pos: Pos, tracked: BOOLEAN, redelivered: BOOLEAN]

Message0(r, p, t) == [run |-> r, pos |-> p, tracked |-> t, redelivered |-> FALSE]
Trigger  == Message0(NoRun, Trig, FALSE)
Again(m) == [m EXCEPT !.redelivered = TRUE]

Init ==
  /\ queue = <<>> /\ orphans = <<>>
  /\ up = TRUE /\ stage = "idle" /\ msg = Trigger /\ held = FALSE
  /\ today = 1
  /\ status  = [r \in Days |-> "none"]
  /\ ended   = [r \in Days |-> FALSE]
  /\ err     = [r \in Days |-> FALSE]
  /\ at      = [r \in Days |-> Start]
  /\ stepRow = [r \in Days |-> [s \in Steps |-> "none"]]
  /\ worked  = [r \in Days |-> {}]
  /\ used    = [b \in Bounds |-> 0]

-----------------------------------------------------------------------------
(* The statements of OpsRepository.                                        *)

(* update_run: upsert of the step row, which never leaves 'success', and   *)
(* advance of current_step while the run is running.                       *)
UpdateRun(r, s, st) ==
  /\ stepRow' = [stepRow EXCEPT ![r][s] = IF @ = "success" THEN @ ELSE st]
  /\ at' = [at EXCEPT ![r] = IF status[r] = "running" THEN s ELSE @]

(* fail_run, for every run of the set rs *)
FailRuns(rs) ==
  /\ status' = [r \in Days |-> IF r \in rs THEN "failed" ELSE status[r]]
  /\ ended'  = [r \in Days |-> r \in rs \/ ended[r]]
  /\ err'    = [r \in Days |-> r \in rs \/ err[r]]

(* start_run, when it is not blocked: the row is (re)opened                 *)
OpenRunKeepsEnd(r) ==
  /\ status' = [status EXCEPT ![r] = "running"]
  /\ err'    = [err EXCEPT ![r] = FALSE]
  /\ at'     = [at EXCEPT ![r] = Start]
  /\ worked' = [worked EXCEPT ![r] = {}]
  /\ UNCHANGED <<ended, stepRow>>

OpenRunKeepsError(r) ==
  /\ status' = [status EXCEPT ![r] = "running"]
  /\ ended'  = [ended EXCEPT ![r] = FALSE]
  /\ at'     = [at EXCEPT ![r] = Start]
  /\ worked' = [worked EXCEPT ![r] = {}]
  /\ UNCHANGED <<err, stepRow>>

OpenRun(r) ==
  /\ status' = [status EXCEPT ![r] = "running"]
  /\ ended'  = [ended EXCEPT ![r] = FALSE]
  /\ err'    = [err EXCEPT ![r] = FALSE]
  /\ at'     = [at EXCEPT ![r] = Start]
  /\ worked' = [worked EXCEPT ![r] = {}]
  /\ UNCHANGED stepRow

ReconcileNothing == UNCHANGED <<status, ended, err>>

(* reconcile_orphaned_runs *)
Reconcile == FailRuns({r \in Days : status[r] = "running"})

ActiveWhenSuccessful(r) == status[r] = "success"

(* is_run_active *)
RunActive(r) == status[r] \in {"running", "success"}

-----------------------------------------------------------------------------
(* Outside the worker.                                                     *)

Spend(b, max) == used[b] < max /\ used' = [used EXCEPT ![b] = @ + 1]

SendTrigger ==
  /\ Spend("trigger", MaxTriggers)
  /\ Burst \/ \A i \in DOMAIN queue : queue[i].pos # Trig
  /\ queue' = Append(queue, Trigger)
  /\ UNCHANGED <<orphans, worker, today, ledger>>

Midnight ==
  /\ today < MaxDay
  /\ today' = today + 1
  /\ UNCHANGED <<broker, worker, ledger, used>>

-----------------------------------------------------------------------------
(* The worker: one process, one message at a time.                         *)

Idle == up /\ stage = "idle"
Executing == up /\ stage # "idle"
r0 == msg.run

(* The pipeline task: build today's run key, skip when that run is active, *)
(* else dispatch a chain.  The task is acked before it runs.               *)
RunTrigger ==
  /\ Idle /\ queue # <<>> /\ Head(queue).pos = Trig
  /\ queue' = IF RunActive(today) THEN Tail(queue)
              ELSE Append(Tail(queue), Message0(today, Start, FALSE))
  /\ UNCHANGED <<orphans, worker, today, ledger, used>>

(* A chain message is reserved; it stays un-acked while it executes.       *)
Take ==
  /\ Idle /\ queue # <<>> /\ Head(queue).pos # Trig
  /\ msg' = Head(queue) /\ queue' = Tail(queue)
  /\ stage' = "taken" /\ held' = TRUE
  /\ UNCHANGED <<orphans, up, today, ledger, used>>

(* run_service's redelivery guard                                          *)
Stale == msg.redelivered /\ msg.tracked /\ ended[r0]

SkipStale ==
  /\ up /\ stage = "taken" /\ Stale
  /\ stage' = "returned"
  /\ UNCHANGED <<broker, up, msg, held, today, ledger, used>>

(* start_run: blocked by a successful row, else (re)opens the row.  The id *)
(* it returns joins the context; a blocked call returns none.              *)
StartRun ==
  /\ up /\ stage = "taken" /\ msg.pos = Start
  /\ stage' = "returned"
  /\ msg' = [msg EXCEPT !.tracked = status[r0] # "success"]
  /\ \/ status[r0] = "success" /\ UNCHANGED ledger
     \/ status[r0] # "success" /\ OpenRun(r0)
  /\ UNCHANGED <<broker, up, held, today, used>>

Direct(p) == p \in Steps /\ Kind[p] = "direct" /\ msg.tracked
InTxn(p)  == p \in Steps /\ Kind[p] = "txn" /\ msg.tracked

(* track_step, entry: only a step without a wrapping transaction commits   *)
(* its 'running' row here.                                                 *)
EnterStep ==
  /\ up /\ stage = "taken" /\ ~Stale /\ msg.pos # Start
  /\ stage' = "entered"
  /\ IF Direct(msg.pos) THEN UpdateRun(r0, msg.pos, "running")
                        ELSE UNCHANGED <<stepRow, at>>
  /\ UNCHANGED <<broker, up, msg, held, today, status, ended, err, worked, used>>

(* The service of a work step returns: the 'success' row of a tracked step *)
(* commits, together with its body when a transaction wraps it.            *)
StepReturns ==
  /\ up /\ stage = "entered" /\ msg.pos \in Steps
  /\ stage' = "returned"
  /\ worked' = [worked EXCEPT ![r0] = @ \cup {msg.pos}]
  /\ IF Direct(msg.pos) \/ InTxn(msg.pos)
     THEN UpdateRun(r0, msg.pos, "success") ELSE UNCHANGED <<stepRow, at>>
  /\ UNCHANGED <<broker, up, msg, held, today, status, ended, err, used>>

(* finish_run writes its row without looking at the status it overwrites;  *)
(* without an id there is no row to write.                                 *)
FinishRun ==
  /\ up /\ stage = "entered" /\ msg.pos = Finish
  /\ stage' = "returned"
  /\ IF msg.tracked
     THEN /\ status' = [status EXCEPT ![r0] = "success"]
          /\ ended'  = [ended EXCEPT ![r0] = TRUE]
          /\ at'     = [at EXCEPT ![r0] = Finish]
     ELSE UNCHANGED <<status, ended, at>>
  /\ UNCHANGED <<broker, up, msg, held, today, err, stepRow, worked, used>>

DiagnosticReturns ==
  /\ up /\ stage = "entered" /\ msg.pos > Finish
  /\ stage' = "returned"
  /\ UNCHANGED <<broker, up, msg, held, today, ledger, used>>

Rest == stage' = "idle" /\ msg' = Trigger /\ held' = FALSE

(* The service raises.  A direct step first marks its row failed; what a   *)
(* wrapping transaction wrote is rolled back; the other services have      *)
(* written nothing.  The message is acked and the chain halts.             *)
DirectStepRaises ==
  /\ up /\ stage = "entered" /\ msg.pos \in Fallible /\ Direct(msg.pos)
  /\ stage' = "failing"
  /\ UpdateRun(r0, msg.pos, "failed")
  /\ UNCHANGED <<broker, up, msg, held, today, status, ended, err, worked, used>>

HaltWithoutFailRun ==
  /\ up /\ stage = "failing"
  /\ Rest
  /\ UNCHANGED <<broker, up, today, ledger, used>>

FailRunAndHalt ==
  /\ up /\ stage = "failing"
  /\ FailRuns({r0})
  /\ Rest
  /\ UNCHANGED <<broker, up, today, at, stepRow, worked, used>>

RaiseAndRetryForever ==
  /\ up /\ msg.pos \in Fallible /\ ~Direct(msg.pos)
  /\ \/ stage = "entered"
     \/ stage = "taken" /\ msg.pos = Start
  /\ Rest
  /\ queue' = Append(queue, Message0(r0, msg.pos, msg.tracked))
  /\ UNCHANGED <<orphans, up, today, ledger, used>>

RaiseAndHalt ==
  /\ up /\ msg.pos \in Fallible /\ ~Direct(msg.pos)
  /\ \/ stage = "entered"
     \/ stage = "taken" /\ msg.pos = Start
  /\ Rest
  /\ UNCHANGED <<broker, up, today, ledger, used>>

(* The chain: the next message is published after the task returned, and   *)
(* only then is the message acked.                                         *)
PublishPastLast ==
  /\ up /\ stage = "returned"
  /\ stage' = "published"
  /\ queue' = IF msg.pos <= Last
              THEN Append(queue, Message0(r0, msg.pos + 1, msg.tracked)) ELSE queue
  /\ UNCHANGED <<orphans, up, msg, held, today, ledger, used>>

PublishSkipping ==
  /\ up /\ stage = "returned"
  /\ stage' = "published"
  /\ queue' = IF msg.pos + 2 <= Last
              THEN Append(queue, Message0(r0, msg.pos + 2, msg.tracked)) ELSE queue
  /\ UNCHANGED <<orphans, up, msg, held, today, ledger, used>>

PublishNext ==
  /\ up /\ stage = "returned"
  /\ stage' = "published"
  /\ queue' = IF msg.pos < Last
              THEN Append(queue, Message0(r0, msg.pos + 1, msg.tracked)) ELSE queue
  /\ UNCHANGED <<orphans, up, msg, held, today, ledger, used>>

Ack ==
  /\ up /\ stage = "published"
  /\ Rest
  /\ UNCHANGED <<broker, up, today, ledger, used>>

-----------------------------------------------------------------------------
(* Failures of the processes, and redelivery.                              *)

(* The message as the broker holds it: a start message carries no run id.  *)
Original == [msg EXCEPT !.tracked = @ /\ msg.pos # Start]

Orphaned == IF stage # "idle" /\ held THEN Append(orphans, Original) ELSE orphans

Crash ==
  /\ up /\ Spend("crash", MaxCrashes)
  /\ up' = FALSE
  /\ orphans' = Orphaned
  /\ Rest
  /\ UNCHANGED <<queue, today, ledger>>

(* The worker dies while it executes a trigger, which was acked early.     *)
CrashInTrigger ==
  /\ Idle /\ queue # <<>> /\ Head(queue).pos = Trig
  /\ Spend("crash", MaxCrashes)
  /\ up' = FALSE /\ queue' = Tail(queue)
  /\ UNCHANGED <<orphans, stage, msg, held, today, ledger>>

(* The pool child dies (out of memory): the parent acks the message, starts*)
(* another child and writes nothing to the run.                            *)
ChildLost ==
  /\ Executing /\ Spend("lost", MaxLost)
  /\ Rest
  /\ UNCHANGED <<broker, up, today, ledger>>

(* worker_ready: drop all but the newest queued trigger, then fail every   *)
(* run that is still 'running'.                                            *)
Newest(i) == \A j \in i + 1 .. Len(queue) : queue[j].pos # Trig
Kept == {i \in DOMAIN queue : queue[i].pos # Trig \/ Newest(i)}

Purge ==
  \E n \in 0 .. Len(queue) : \E f \in [1 .. n -> DOMAIN queue] :
    /\ {f[k] : k \in 1 .. n} = Kept
    /\ \A j, k \in 1 .. n : j < k => f[j] < f[k]
    /\ queue' = [k \in 1 .. n |-> queue[f[k]]]

Boot ==
  /\ ~up
  /\ up' = TRUE
  /\ Purge
  /\ Reconcile
  /\ UNCHANGED <<orphans, stage, msg, held, today, at, stepRow, worked, used>>

(* The visibility timeout of a message whose worker died                   *)
RedeliverOrphan ==
  /\ up /\ orphans # <<>>
  /\ queue' = <<Again(Head(orphans))>> \o queue
  /\ orphans' = Tail(orphans)
  /\ UNCHANGED <<worker, today, ledger, used>>

(* ... and of a message that is still being executed                       *)
RedeliverInFlight ==
  /\ Executing /\ held /\ Spend("slow", MaxSlow)
  /\ queue' = <<Again(Original)>> \o queue
  /\ held' = FALSE
  /\ UNCHANGED <<orphans, up, stage, msg, today, ledger>>
-----------------------------------------------------------------------------
Handler ==
  \/ RunTrigger \/ Take \/ SkipStale \/ StartRun \/ EnterStep \/ StepReturns
  \/ FinishRun \/ DiagnosticReturns \/ DirectStepRaises \/ FailRunAndHalt
  \/ RaiseAndHalt \/ PublishNext \/ Ack

Next ==
  \/ SendTrigger \/ Midnight \/ Handler
  \/ Crash \/ CrashInTrigger \/ ChildLost
  \/ Boot \/ RedeliverOrphan \/ RedeliverInFlight

Spec == Init /\ [][Next]_vars

(* The worker consumes while it is up; compose restarts it when it is down; *)
(* the broker restores what outlived the visibility timeout.                *)
Fairness == WF_vars(Handler) /\ WF_vars(Boot) /\ WF_vars(RedeliverOrphan)

FairSpec == Spec /\ Fairness

-----------------------------------------------------------------------------
(* Type invariant.  The counters of `used` never pass their bounds, and the *)
(* idle worker holds no message.                                            *)
TypeOK ==
  /\ queue \in Seq(Message)
  /\ orphans \in Seq(Message)
  /\ up \in BOOLEAN
  /\ stage \in Stages
  /\ msg \in Message
  /\ held \in BOOLEAN
  /\ today \in Days
  /\ status \in [Days -> Statuses]
  /\ ended \in [Days -> BOOLEAN]
  /\ err \in [Days -> BOOLEAN]
  /\ at \in [Days -> Pos]
  /\ stepRow \in [Days -> [Steps -> Statuses]]
  /\ worked \in [Days -> SUBSET Steps]
  /\ used \in [Bounds -> Nat]

Terminal(r) == status[r] \in {"success", "failed"}

(* run_service's guard reads ended_at, the trigger's guard reads status, and *)
(* four different statements write them: a run has an end time exactly when *)
(* its status is terminal, so the two guards never disagree about a run.    *)
GuardsAgree == \A r \in Days : ended[r] <=> Terminal(r)

(* A message that still has to reach finish_run on behalf of run r          *)
Carries(m, r) == m.run = r /\ m.tracked /\ m.pos \in Start + 1 .. Finish

WorkerCarries(r) ==
  /\ msg.run = r /\ msg.tracked
  /\ \/ stage \in {"taken", "entered", "failing"} /\ msg.pos \in Start + 1 .. Finish
     \/ stage = "returned" /\ msg.pos \in Start .. Finish - 1

QueueCarries(q, r) == \E i \in DOMAIN q : Carries(q[i], r)

(* While the worker is up and until a pool child is killed, every run whose *)
(* row says 'running' has a message queued or executing that will end it:   *)
(* no run is left 'running' by a chain that has halted, so is_run_active    *)
(* never blocks a day that nothing works on.  track_step promises it for a  *)
(* step that raises.                                                        *)
RunningIsCarried ==
  up /\ used["lost"] = 0 =>
    \A r \in Days : status[r] = "running" =>
      WorkerCarries(r) \/ QueueCarries(queue, r)

(* Between start_run and the end of the run only tracked steps outside a    *)
(* transaction may raise.                                                   *)
Loud ==
  \A p \in Fallible \cap (Start + 1 .. Finish) : p \in Steps /\ Kind[p] = "direct"

(* At most one message works for a run: two triggers of one day never put   *)
(* two chains on the same run row.                                          *)
ChainMessages(r) ==
  {i \in DOMAIN queue : queue[i].run = r} \cup
  (IF stage \in {"idle", "published"} \/ msg.run # r THEN {} ELSE {0})

OneChainPerRun ==
  \A r \in Days : \A i, j \in ChainMessages(r) : i = j

(* A run reported as 'success' did every step in its last attempt, and its  *)
(* rows show neither a step left 'running' nor an error of an earlier one.  *)
SuccessIsComplete ==
  \A r \in Days : status[r] = "success" =>
    /\ worked[r] = Steps
    /\ ~err[r]
    /\ \A s \in Steps : Kind[s] # "untracked" => stepRow[r][s] = "success"

(* The redelivery guard drops only steps whose work was already done.       *)
OnlyDoneStepsAreSkipped ==
  [][SkipStale /\ msg.pos \in Steps => msg.pos \in worked[r0]]_vars

(* Every run that starts is ended, by its chain or by the reconciliation of *)
(* a later start of the worker, unless a pool child is killed.              *)
RunEnds ==
  [](used["lost"] = 0) => \A r \in Days : status[r] = "running" ~> ended[r]

(* Whatever waits in the queue or with the broker is worked off, and then no *)
(* run is left 'running', but for one per pool child that was killed: such a *)
(* run has nobody to end it before the worker starts again, and blocks the   *)
(* triggers of its day.                                                      *)
QueueDrains ==
  queue # <<>> \/ orphans # <<>> ~>
    /\ queue = <<>> /\ orphans = <<>> /\ up /\ stage = "idle"
    /\ Cardinality({r \in Days : status[r] = "running"}) <= used["lost"]

-----------------------------------------------------------------------------
(* The rows of ops.ingestion_runs, read as the status of a run and the steps*)
(* its last attempt did, follow the promised life cycle, fairness included. *)
Lifecycle == INSTANCE RunLifecycle WITH Runs <- Days, done <- worked

ImplementsLifecycle == Lifecycle!Spec
=============================================================================
