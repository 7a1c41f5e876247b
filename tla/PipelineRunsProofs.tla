------------------------- MODULE PipelineRunsProofs -------------------------
(* Theorems about PipelineRuns for every chain length, every assignment of  *)
(* service kinds and every bound.                                           *)
EXTENDS PipelineRuns, SequenceTheorems, TLAPS

(* A message built for a run of the model is a message.                     *)
LEMMA MessageType ==
  ASSUME NEW r \in Days \cup {NoRun}, NEW p \in Pos, NEW t \in BOOLEAN
  PROVE  Message0(r, p, t) \in Message
BY DEF Message0, Message

LEMMA TriggerType == Trigger \in Message
<1>1. Trig \in Pos
  BY PipelineAssumption DEF Pos, Trig, Start
<1>2. QED
  BY <1>1, MessageType DEF Trigger

(* update_run keeps the shape of the step rows and of current_step.         *)
LEMMA UpdateRunType ==
  ASSUME TypeOK, NEW r, NEW s \in Steps, NEW st \in Statuses,
         UpdateRun(r, s, st)
  PROVE  /\ stepRow' \in [Days -> [Steps -> Statuses]]
         /\ at' \in [Days -> Pos]
<1>1. s \in Pos
  BY PipelineAssumption DEF Steps, Pos, Start, Trig
<1>2. QED
  BY <1>1 DEF TypeOK, UpdateRun, Statuses

LEMMA FailRunsType ==
  ASSUME TypeOK, NEW rs, FailRuns(rs)
  PROVE  /\ status' \in [Days -> Statuses]
         /\ ended' \in [Days -> BOOLEAN]
         /\ err' \in [Days -> BOOLEAN]
BY DEF TypeOK, FailRuns, Statuses

(* A subsequence of a queue of messages, as the purge builds it, is one.    *)
LEMMA PurgeType ==
  ASSUME TypeOK, Purge
  PROVE  queue' \in Seq(Message)
<1>1. PICK n \in 0 .. Len(queue) : \E f \in [1 .. n -> DOMAIN queue] :
             queue' = [k \in 1 .. n |-> queue[f[k]]]
  BY DEF Purge
<1>2. PICK f \in [1 .. n -> DOMAIN queue] : queue' = [k \in 1 .. n |-> queue[f[k]]]
  BY <1>1
<1>3. queue \in Seq(Message) /\ n \in Nat
  BY DEF TypeOK
<1>4. \A k \in 1 .. n : queue[f[k]] \in Message
  BY <1>3, ElementOfSeq
<1>5. queue' \in [1 .. n -> Message]
  BY <1>2, <1>4
<1>6. QED
  BY <1>3, <1>5, SeqDef

(* Every enabled position of the chain is a position.                       *)
LEMMA PosFacts ==
  /\ Start \in Pos /\ Finish \in Pos
  /\ \A p \in Pos : p < Last => p + 1 \in Pos
BY PipelineAssumption DEF Pos, Trig, Start

(* Spending one unit of a bound keeps the counters natural numbers.         *)
LEMMA SpendType ==
  ASSUME TypeOK, NEW b \in Bounds, NEW max, Spend(b, max)
  PROVE  used' \in [Bounds -> Nat]
BY DEF TypeOK, Spend

(* The type invariant is inductive.                                         *)
LEMMA TypeStep == TypeOK /\ [Next]_vars => TypeOK'
<1> SUFFICES ASSUME TypeOK, [Next]_vars PROVE TypeOK'
  OBVIOUS
<1> USE TriggerType
<1>1. CASE SendTrigger
  BY <1>1 DEF SendTrigger, Spend, TypeOK, worker, ledger, runRow, Bounds
<1>2. CASE Midnight
  BY <1>2, PipelineAssumption DEF Midnight, TypeOK, broker, worker, ledger, runRow, Days
<1>3. CASE RunTrigger
  <2>1. today \in Days \cup {NoRun}
    BY DEF TypeOK
  <2>2. Message0(today, Start, FALSE) \in Message
    BY <2>1, PosFacts, MessageType
  <2>3. Tail(queue) \in Seq(Message)
    BY <1>3 DEF RunTrigger, TypeOK
  <2>4. queue' \in Seq(Message)
    <3>1. Append(Tail(queue), Message0(today, Start, FALSE)) \in Seq(Message)
      BY <2>2, <2>3, AppendProperties
    <3>2. QED
      BY <1>3, <2>3, <3>1 DEF RunTrigger
  <2>5. QED
    BY <1>3, <2>4 DEF RunTrigger, TypeOK, worker, ledger, runRow
<1>4. CASE Take
  <2>1. queue' \in Seq(Message) /\ msg' \in Message
    BY <1>4 DEF Take, TypeOK
  <2>2. QED
    BY <1>4, <2>1 DEF Take, TypeOK, ledger, runRow, Stages
<1>5. CASE SkipStale
  BY <1>5 DEF SkipStale, TypeOK, broker, ledger, runRow, Stages
<1>6. CASE StartRun
  <2>1. msg' \in Message
    BY <1>6 DEF StartRun, TypeOK, Message
  <2>2. stage' \in Stages
    BY <1>6 DEF StartRun, Stages
  <2>3. /\ status' \in [Days -> Statuses] /\ ended' \in [Days -> BOOLEAN]
        /\ err' \in [Days -> BOOLEAN] /\ at' \in [Days -> Pos]
        /\ worked' \in [Days -> SUBSET Steps] /\ stepRow' = stepRow
    BY <1>6, PosFacts DEF StartRun, OpenRun, TypeOK, Statuses, ledger, runRow
  <2>4. QED
    BY <1>6, <2>1, <2>2, <2>3 DEF StartRun, TypeOK, broker
<1>7. CASE EnterStep
  <2>1. stepRow' \in [Days -> [Steps -> Statuses]] /\ at' \in [Days -> Pos]
    <3>1. CASE Direct(msg.pos)
      BY <1>7, <3>1, UpdateRunType DEF EnterStep, Direct, Statuses
    <3>2. CASE ~Direct(msg.pos)
      BY <1>7, <3>2 DEF EnterStep, TypeOK
    <3>3. QED
      BY <3>1, <3>2
  <2>2. QED
    BY <1>7, <2>1 DEF EnterStep, TypeOK, broker, Stages
<1>8. CASE StepReturns
  <2>1. stepRow' \in [Days -> [Steps -> Statuses]] /\ at' \in [Days -> Pos]
    <3>1. CASE Direct(msg.pos) \/ InTxn(msg.pos)
      BY <1>8, <3>1, UpdateRunType DEF StepReturns, Statuses
    <3>2. CASE ~(Direct(msg.pos) \/ InTxn(msg.pos))
      BY <1>8, <3>2 DEF StepReturns, TypeOK
    <3>3. QED
      BY <3>1, <3>2
  <2>2. worked' \in [Days -> SUBSET Steps]
    BY <1>8 DEF StepReturns, TypeOK
  <2>3. QED
    BY <1>8, <2>1, <2>2 DEF StepReturns, TypeOK, broker, Stages
<1>9. CASE FinishRun
  <2>1. /\ status' \in [Days -> Statuses] /\ ended' \in [Days -> BOOLEAN]
        /\ at' \in [Days -> Pos]
    BY <1>9, PosFacts DEF FinishRun, TypeOK, Statuses
  <2>2. QED
    BY <1>9, <2>1 DEF FinishRun, TypeOK, broker, Stages
<1>10. CASE DiagnosticReturns
  BY <1>10 DEF DiagnosticReturns, TypeOK, broker, ledger, runRow, Stages
<1>11. CASE DirectStepRaises
  <2>1. stepRow' \in [Days -> [Steps -> Statuses]] /\ at' \in [Days -> Pos]
    BY <1>11, UpdateRunType DEF DirectStepRaises, Direct, Statuses
  <2>2. QED
    BY <1>11, <2>1 DEF DirectStepRaises, TypeOK, broker, Stages
<1>12. CASE FailRunAndHalt
  BY <1>12, FailRunsType DEF FailRunAndHalt, Rest, TypeOK, broker, Stages
<1>13. CASE RaiseAndHalt
  BY <1>13 DEF RaiseAndHalt, Rest, TypeOK, broker, ledger, runRow, Stages
<1>14. CASE PublishNext
  <2>1. ASSUME msg.pos < Last PROVE Message0(r0, msg.pos + 1, msg.tracked) \in Message
    BY <2>1, PosFacts, MessageType DEF TypeOK, Message, r0
  <2>2. queue' \in Seq(Message)
    BY <1>14, <2>1 DEF PublishNext, TypeOK
  <2>3. QED
    BY <1>14, <2>2 DEF PublishNext, TypeOK, ledger, runRow, Stages
<1>15. CASE Ack
  BY <1>15 DEF Ack, Rest, TypeOK, broker, ledger, runRow, Stages
<1>16. Original \in Message
  BY DEF Original, TypeOK, Message
<1>17. CASE Crash
  <2>1. orphans' \in Seq(Message)
    BY <1>16, <1>17 DEF Crash, Orphaned, TypeOK
  <2>2. QED
    BY <1>17, <2>1, SpendType DEF Crash, Rest, TypeOK, ledger, runRow, Stages, Bounds
<1>18. CASE CrashInTrigger
  <2>1. queue' \in Seq(Message)
    BY <1>18 DEF CrashInTrigger, TypeOK
  <2>2. QED
    BY <1>18, <2>1, SpendType DEF CrashInTrigger, TypeOK, ledger, runRow, Bounds
<1>19. CASE ChildLost
  BY <1>19, SpendType DEF ChildLost, Rest, TypeOK, broker, ledger, runRow, Stages, Bounds
<1>20. CASE Boot
  BY <1>20, PurgeType, FailRunsType DEF Boot, Reconcile, TypeOK
<1>21. CASE RedeliverOrphan
  <2>1. Head(orphans) \in Message /\ Tail(orphans) \in Seq(Message)
    BY <1>21, HeadTailProperties DEF RedeliverOrphan, TypeOK
  <2>2. Again(Head(orphans)) \in Message
    BY <2>1 DEF Again, Message
  <2>3. <<Again(Head(orphans))>> \o queue \in Seq(Message)
    BY <2>2, ConcatProperties DEF TypeOK
  <2>4. QED
    BY <1>21, <2>1, <2>3 DEF RedeliverOrphan, TypeOK, worker, ledger, runRow
<1>22. CASE RedeliverInFlight
  <2>1. Again(Original) \in Message
    BY <1>16 DEF Again, Message
  <2>3. <<Again(Original)>> \o queue \in Seq(Message)
    BY <2>1, ConcatProperties DEF TypeOK
  <2>4. QED
    BY <1>22, <2>1, <2>3, SpendType DEF RedeliverInFlight, TypeOK, ledger, runRow, Bounds
<1>23. CASE UNCHANGED vars
  BY <1>23 DEF vars, broker, worker, ledger, runRow, TypeOK
<1>24. QED
  BY <1>1, <1>2, <1>3, <1>4, <1>5, <1>6, <1>7, <1>8, <1>9, <1>10, <1>11, <1>12,
     <1>13, <1>14, <1>15, <1>17, <1>18, <1>19, <1>20, <1>21, <1>22, <1>23
     DEF Next, Handler

LEMMA TypeInit == Init => TypeOK
<1> SUFFICES ASSUME Init PROVE TypeOK
  OBVIOUS
<1>1. queue \in Seq(Message) /\ orphans \in Seq(Message)
  BY DEF Init
<1>2. today \in Days
  BY PipelineAssumption DEF Init, Days
<1>3. at \in [Days -> Pos] /\ msg \in Message
  BY TriggerType, PosFacts DEF Init
<1>4. /\ status \in [Days -> Statuses]
      /\ stepRow \in [Days -> [Steps -> Statuses]]
      /\ ended \in [Days -> BOOLEAN] /\ err \in [Days -> BOOLEAN]
      /\ worked \in [Days -> SUBSET Steps] /\ used \in [Bounds -> Nat]
  BY DEF Init, Statuses
<1>5. QED
  BY <1>1, <1>2, <1>3, <1>4 DEF Init, TypeOK, Stages

(* Every reachable state of the broker, the worker and the ops tables is    *)
(* well formed, whatever the chain, the kinds of its steps and the faults.  *)
THEOREM TypeCorrect == Spec => []TypeOK
BY TypeInit, TypeStep, PTL DEF Spec

-----------------------------------------------------------------------------
(* ended_at and status change together in each of the four statements.      *)
LEMMA GuardsAgreeStep == TypeOK /\ GuardsAgree /\ [Next]_vars => GuardsAgree'
<1> SUFFICES ASSUME TypeOK, GuardsAgree, [Next]_vars PROVE GuardsAgree'
  OBVIOUS
<1> USE DEF GuardsAgree, Terminal
<1>1. CASE StartRun
  BY <1>1 DEF StartRun, OpenRun, TypeOK, ledger, runRow
<1>2. CASE FinishRun
  BY <1>2 DEF FinishRun, TypeOK
<1>3. ASSUME NEW rs, FailRuns(rs) PROVE GuardsAgree'
  BY <1>3 DEF FailRuns, TypeOK
<1>4. CASE FailRunAndHalt \/ Boot
  BY <1>3, <1>4 DEF FailRunAndHalt, Boot, Reconcile
<1>5. CASE UNCHANGED <<status, ended>>
  BY <1>5
<1>6. QED
  BY <1>1, <1>2, <1>4, <1>5
     DEF Next, Handler, SendTrigger, Midnight, RunTrigger, Take, SkipStale, EnterStep,
         StepReturns, DiagnosticReturns, DirectStepRaises, RaiseAndHalt, PublishNext,
         Ack, Crash, CrashInTrigger, ChildLost, RedeliverOrphan, RedeliverInFlight,
         vars, ledger, runRow

(* The guard of the trigger (status) and the guard of run_service           *)
(* (ended_at) agree about every run, under every kind of fault.             *)
THEOREM GuardsAlwaysAgree == Spec => []GuardsAgree
<1>1. Init => GuardsAgree
  BY DEF Init, GuardsAgree, Terminal
<1>2. QED
  BY <1>1, TypeCorrect, GuardsAgreeStep, PTL DEF Spec

-----------------------------------------------------------------------------
(* What the operations on the queue do to the messages that carry a run.    *)
LEMMA AppendCarries ==
  ASSUME NEW q \in Seq(Message), NEW m \in Message, NEW r,
         QueueCarries(q, r) \/ Carries(m, r)
  PROVE  QueueCarries(Append(q, m), r)
<1>1. /\ DOMAIN q = 1 .. Len(q) /\ DOMAIN Append(q, m) = 1 .. Len(q) + 1
      /\ Append(q, m)[Len(q) + 1] = m
      /\ \A i \in DOMAIN q : Append(q, m)[i] = q[i]
      /\ Len(q) \in Nat
  BY AppendProperties, LenProperties
<1>2. CASE QueueCarries(q, r)
  BY <1>1, <1>2 DEF QueueCarries
<1>3. CASE Carries(m, r)
  BY <1>1, <1>3 DEF QueueCarries
<1>4. QED
  BY <1>2, <1>3

LEMMA TailCarries ==
  ASSUME NEW q \in Seq(Message), q # <<>>, NEW r,
         QueueCarries(q, r), ~Carries(Head(q), r)
  PROVE  QueueCarries(Tail(q), r)
<1>1. PICK i \in DOMAIN q : Carries(q[i], r)
  BY DEF QueueCarries
<1>2. i \in 1 .. Len(q) /\ i # 1 /\ Len(q) \in Nat
  BY <1>1, HeadTailProperties, LenProperties
<1>3. i - 1 \in DOMAIN Tail(q) /\ Tail(q)[i - 1] = q[i]
  BY <1>2, HeadTailProperties, LenProperties
<1>4. QED
  BY <1>1, <1>3 DEF QueueCarries

LEMMA PrependCarries ==
  ASSUME NEW q \in Seq(Message), NEW m \in Message, NEW r, QueueCarries(q, r)
  PROVE  QueueCarries(<<m>> \o q, r)
<1>1. PICK i \in DOMAIN q : Carries(q[i], r)
  BY DEF QueueCarries
<1>2. i + 1 \in DOMAIN (<<m>> \o q) /\ (<<m>> \o q)[i + 1] = q[i]
  BY <1>1, ConcatProperties, LenProperties
<1>3. QED
  BY <1>1, <1>2 DEF QueueCarries

(* RunningIsCarried is inductive together with GuardsAgree, which excludes  *)
(* that the redelivery guard drops a step of a run still 'running'.         *)
LEMMA CarriedStep ==
  ASSUME Loud, TypeOK, GuardsAgree, RunningIsCarried, [Next]_vars
  PROVE  RunningIsCarried'
<1> SUFFICES ASSUME up', used'["lost"] = 0, NEW r \in Days, status'[r] = "running"
             PROVE  WorkerCarries(r)' \/ QueueCarries(queue', r)
  BY DEF RunningIsCarried
<1> USE PipelineAssumption
<1>0. /\ queue \in Seq(Message) /\ orphans \in Seq(Message)
      /\ msg \in Message
  BY DEF TypeOK
<1> DEFINE Was == up /\ status[r] = "running"
           InQueue == QueueCarries(queue, r)
<1>a. used["lost"] = 0
  <2>1. used["lost"] \in Nat
    BY DEF TypeOK, Bounds
  <2>2. CASE used' = used
    BY <2>2
  <2>3. CASE SendTrigger \/ Crash \/ CrashInTrigger \/ RedeliverInFlight
    BY <2>3 DEF SendTrigger, Crash, CrashInTrigger, RedeliverInFlight, Spend, TypeOK, Bounds
  <2>4. CASE ChildLost
    BY <2>1, <2>4 DEF ChildLost, Spend, TypeOK, Bounds
  <2>5. QED
    BY <2>2, <2>3, <2>4
       DEF Next, Handler, Midnight, RunTrigger, Take, SkipStale, StartRun, EnterStep,
           StepReturns, FinishRun, DiagnosticReturns, DirectStepRaises, FailRunAndHalt,
           RaiseAndHalt, PublishNext, Ack, Boot, RedeliverOrphan, vars
<1>1. Was => WorkerCarries(r) \/ InQueue
  BY <1>a DEF RunningIsCarried
<1>2. CASE SendTrigger
  <2>1. Was
    BY <1>2 DEF SendTrigger, worker, ledger, runRow
  <2>2. InQueue => QueueCarries(queue', r)
    BY <1>0, <1>2, AppendCarries, TriggerType DEF SendTrigger
  <2>3. QED
    BY <1>1, <1>2, <2>1, <2>2 DEF SendTrigger, worker, WorkerCarries
<1>3. CASE RunTrigger
  <2>1. Was
    BY <1>3 DEF RunTrigger, worker, ledger, runRow
  <2>2. ~Carries(Head(queue), r) /\ queue # <<>>
    BY <1>3 DEF RunTrigger, Carries, Trig, Start
  <2>3. InQueue => QueueCarries(Tail(queue), r)
    BY <1>0, <2>2, TailCarries
  <2>4. Message0(today, Start, FALSE) \in Message
    BY PosFacts, MessageType DEF TypeOK
  <2>5. Tail(queue) \in Seq(Message)
    BY <1>0, <2>2, HeadTailProperties
  <2>6. InQueue => QueueCarries(queue', r)
    BY <1>3, <2>3, <2>4, <2>5, AppendCarries DEF RunTrigger
  <2>7. QED
    BY <1>1, <1>3, <2>1, <2>6 DEF RunTrigger, worker, WorkerCarries
<1>4. CASE Take
  <2>1. Was /\ ~WorkerCarries(r) /\ queue # <<>>
    BY <1>4 DEF Take, Idle, WorkerCarries, ledger, runRow
  <2>2. CASE Carries(Head(queue), r)
    BY <1>4, <2>2 DEF Take, Carries, WorkerCarries
  <2>3. CASE ~Carries(Head(queue), r)
    BY <1>0, <1>1, <1>4, <2>1, <2>3, TailCarries DEF Take
  <2>4. QED
    BY <2>2, <2>3
<1>5. CASE SkipStale
  <2>1. Was /\ ~ended[r]
    BY <1>5 DEF SkipStale, ledger, runRow, GuardsAgree, Terminal
  <2>2. ~WorkerCarries(r)
    BY <1>5, <2>1 DEF SkipStale, Stale, WorkerCarries, r0
  <2>3. QED
    BY <1>1, <1>5, <2>1, <2>2 DEF SkipStale, broker
<1>6. CASE StartRun
  <2>1. ~WorkerCarries(r) /\ up /\ queue' = queue
    BY <1>6 DEF StartRun, WorkerCarries, Start, broker
  <2>2. CASE r = r0 /\ status[r] # "success"
    <3>1. msg'.tracked /\ msg'.run = r /\ msg'.pos = Start /\ stage' = "returned"
      BY <1>0, <1>6, <2>2 DEF StartRun, r0, Message
    <3>2. QED
      BY <3>1 DEF WorkerCarries, Start
  <2>3. CASE r # r0 \/ status[r] = "success"
    <3>1. Was
      BY <1>6, <2>1, <2>3 DEF StartRun, OpenRun, TypeOK, ledger, runRow
    <3>2. QED
      BY <1>1, <2>1, <3>1
  <2>4. QED
    BY <2>2, <2>3
<1>7. CASE EnterStep
  BY <1>1, <1>7 DEF EnterStep, broker, WorkerCarries
<1>8. CASE StepReturns
  BY <1>1, <1>8 DEF StepReturns, broker, WorkerCarries, Steps, Start
<1>9. CASE FinishRun
  <2>1. up /\ queue' = queue
    BY <1>9 DEF FinishRun, broker
  <2>2. CASE WorkerCarries(r)
    <3>1. msg.tracked /\ r = r0
      BY <2>2 DEF WorkerCarries, r0
    <3>2. status'[r] = "success"
      BY <1>9, <3>1 DEF FinishRun, TypeOK
    <3>3. QED
      BY <3>2
  <2>3. CASE ~WorkerCarries(r)
    <3>1. Was
      BY <1>9, <2>1 DEF FinishRun, TypeOK
    <3>2. QED
      BY <1>1, <2>1, <2>3, <3>1
  <2>4. QED
    BY <2>2, <2>3
<1>10. CASE DiagnosticReturns
  BY <1>1, <1>10 DEF DiagnosticReturns, broker, ledger, runRow, WorkerCarries, TypeOK, Message, Pos
<1>11. CASE DirectStepRaises
  BY <1>1, <1>11 DEF DirectStepRaises, broker, WorkerCarries
<1>12. CASE FailRunAndHalt
  <2>1. r # r0 /\ Was
    BY <1>12 DEF FailRunAndHalt, FailRuns, TypeOK
  <2>2. QED
    BY <1>1, <1>12, <2>1 DEF FailRunAndHalt, broker, WorkerCarries, r0
<1>13. CASE RaiseAndHalt
  <2>1. Was /\ queue' = queue
    BY <1>13 DEF RaiseAndHalt, ledger, runRow, broker
  <2>2. ~WorkerCarries(r)
    <3>1. SUFFICES ASSUME WorkerCarries(r) PROVE FALSE
      OBVIOUS
    <3>2. msg.tracked /\ msg.pos \in Fallible \cap (Start + 1 .. Finish)
      BY <1>13, <3>1 DEF RaiseAndHalt, WorkerCarries, Start
    <3>3. Direct(msg.pos)
      BY <3>2 DEF Loud, Direct
    <3>4. QED
      BY <1>13, <3>3 DEF RaiseAndHalt
  <2>3. QED
    BY <1>1, <2>1, <2>2
<1>14. CASE PublishNext
  <2>1. Was
    BY <1>14 DEF PublishNext, ledger, runRow
  <2>2. DEFINE next == Message0(r0, msg.pos + 1, msg.tracked)
  <2>3. ASSUME msg.pos < Last PROVE next \in Message
    BY <1>0, <2>3, PosFacts, MessageType DEF Message, r0
  <2>4. CASE InQueue
    BY <1>0, <1>14, <2>3, <2>4, AppendCarries DEF PublishNext
  <2>5. CASE WorkerCarries(r)
    <3>1. msg.pos < Last /\ msg.pos \in Start .. Finish - 1 /\ msg.run = r /\ msg.tracked
      BY <1>14, <2>5 DEF PublishNext, WorkerCarries
    <3>2. Carries(next, r)
      BY <3>1 DEF Carries, Message0, r0, Start
    <3>3. queue' = Append(queue, next)
      BY <1>14, <3>1 DEF PublishNext
    <3>4. QED
      BY <1>0, <2>3, <3>1, <3>2, <3>3, AppendCarries
  <2>6. QED
    BY <1>1, <2>1, <2>4, <2>5
<1>15. CASE Ack
  BY <1>1, <1>15 DEF Ack, broker, ledger, runRow, WorkerCarries
<1>16. CASE Crash \/ CrashInTrigger
  BY <1>16 DEF Crash, CrashInTrigger
<1>17. CASE ChildLost
  BY <1>a, <1>17 DEF ChildLost, Spend, TypeOK, Bounds
<1>18. CASE Boot
  BY <1>18 DEF Boot, Reconcile, FailRuns
<1>19. CASE RedeliverOrphan
  <2>1. Was
    BY <1>19 DEF RedeliverOrphan, ledger, runRow
  <2>2. Head(orphans) \in Message
    BY <1>0, <1>19, HeadTailProperties DEF RedeliverOrphan
  <2>3. InQueue => QueueCarries(queue', r)
    BY <1>0, <1>19, <2>2, PrependCarries DEF RedeliverOrphan, Again, Message
  <2>4. QED
    BY <1>1, <1>19, <2>1, <2>3 DEF RedeliverOrphan, worker, WorkerCarries
<1>20. CASE RedeliverInFlight
  <2>1. Was
    BY <1>20 DEF RedeliverInFlight, ledger, runRow
  <2>2. Again(Original) \in Message
    BY <1>0 DEF Again, Original, Message
  <2>3. InQueue => QueueCarries(queue', r)
    BY <1>0, <1>20, <2>2, PrependCarries DEF RedeliverInFlight
  <2>4. QED
    BY <1>1, <1>20, <2>1, <2>3 DEF RedeliverInFlight, WorkerCarries
<1>21. CASE Midnight \/ UNCHANGED vars
  BY <1>1, <1>21 DEF Midnight, vars, broker, worker, ledger, runRow, WorkerCarries
<1>22. QED
  BY <1>2, <1>3, <1>4, <1>5, <1>6, <1>7, <1>8, <1>9, <1>10, <1>11, <1>12, <1>13,
     <1>14, <1>15, <1>16, <1>17, <1>18, <1>19, <1>20, <1>21 DEF Next, Handler

(* If only tracked steps outside a transaction may raise, then whatever the *)
(* chain, the triggers, the restarts and the redelivered messages, no run is*)
(* left 'running' with nothing that will end it before a pool child dies.   *)
THEOREM RunsAreCarried == Loud => (Spec => []RunningIsCarried)
<1> SUFFICES ASSUME Loud PROVE Spec => []RunningIsCarried
  OBVIOUS
<1>1. Init => RunningIsCarried
  BY DEF Init, RunningIsCarried
<1>2. TypeOK /\ GuardsAgree /\ RunningIsCarried /\ [Next]_vars => RunningIsCarried'
  BY CarriedStep
<1>3. QED
  BY <1>1, <1>2, TypeCorrect, GuardsAlwaysAgree, PTL DEF Spec

-----------------------------------------------------------------------------
(* What keeps two chains off one run: the worker never dies, no message     *)
(* outlives the visibility timeout and triggers do not pile up.  Pool       *)
(* children may die, any number of triggers may come, and every service may *)
(* raise.                                                                   *)
Quiet == MaxCrashes = 0 /\ MaxSlow = 0 /\ ~Burst

(* The position whose work the message of the worker stands before          *)
Working == stage \notin {"idle", "published"}
NextPos == IF stage = "returned" THEN msg.pos + 1 ELSE msg.pos

(* The chain of run r has come as far as p, in the queue or in the worker.  *)
Queued(r, p) == \E i \in DOMAIN queue : queue[i].run = r /\ queue[i].pos = p
InHand(r, p) == Working /\ msg.run = r /\ NextPos = p
ChainAt(r, p) == Queued(r, p) \/ InHand(r, p)

(* What the rows of a run say when its chain has come as far as p           *)
Reached(r, p) ==
  /\ p = Start => status[r] \in {"none", "failed"}
  /\ p \in Start + 1 .. Finish => status[r] = "running" /\ worked[r] = {s \in Steps : s < p}
  /\ p > Finish => status[r] = "success"
  /\ p > Start => \A s \in Steps : s < p /\ Kind[s] # "untracked" => stepRow[r][s] = "success"

Sound(m) ==
  ~m.redelivered /\ (m.pos = Trig <=> m.run = NoRun) /\ (m.tracked <=> m.pos > Start)

WorkerSound ==
  Working =>
    /\ ~msg.redelivered /\ msg.run \in Days /\ msg.pos # Trig
    /\ (msg.tracked <=> NextPos > Start)
    /\ stage = "entered" => msg.pos > Start
    /\ stage = "failing" => msg.pos \in Steps

(* No two messages are of one run, and at most one is a trigger; it comes   *)
(* after every message that is to start a run.                              *)
OneEach(q) == \A i, j \in DOMAIN q : q[i].run = q[j].run => i = j
TriggerLast(q) == \A i, j \in DOMAIN q : q[i].pos = Trig /\ q[j].pos = Start => j < i
Absent(q, r) == \A i \in DOMAIN q : q[i].run # r

(* The shape of the queue and of the worker while nothing fails             *)
QueueInv ==
  /\ up /\ orphans = <<>>
  /\ \A i \in DOMAIN queue : Sound(queue[i])
  /\ OneEach(queue) /\ TriggerLast(queue)
  /\ WorkerSound
  /\ Working => Absent(queue, msg.run)

(* Each chain and the rows of its run tell the same.                        *)
RowsInv ==
  /\ \A r \in Days, p \in Nat : ChainAt(r, p) => Reached(r, p)
  /\ \A r \in Days : err[r] => status[r] = "failed"
  /\ SuccessIsComplete
(* What the worker and the broker do to the queue keeps its shape.          *)
LEMMA AppendQueue ==
  ASSUME NEW q \in Seq(Message), NEW m \in Message, Sound(m),
         \A i \in DOMAIN q : Sound(q[i]), OneEach(q), TriggerLast(q),
         Absent(q, m.run), m.pos = Start => \A i \in DOMAIN q : q[i].pos # Trig
  PROVE  /\ \A i \in DOMAIN Append(q, m) : Sound(Append(q, m)[i])
         /\ OneEach(Append(q, m)) /\ TriggerLast(Append(q, m))
         /\ \A r : Absent(q, r) /\ m.run # r => Absent(Append(q, m), r)
<1>1. /\ DOMAIN q = 1 .. Len(q) /\ DOMAIN Append(q, m) = 1 .. Len(q) + 1
      /\ Append(q, m)[Len(q) + 1] = m
      /\ \A i \in DOMAIN q : Append(q, m)[i] = q[i]
      /\ Len(q) \in Nat
  BY AppendProperties, LenProperties
<1>2. \A i \in DOMAIN Append(q, m) :
        \/ i \in DOMAIN q /\ Append(q, m)[i] = q[i]
        \/ i = Len(q) + 1 /\ Append(q, m)[i] = m
  BY <1>1
<1>3. \A i \in DOMAIN Append(q, m) : Sound(Append(q, m)[i])
  BY <1>2
<1>4. OneEach(Append(q, m))
  BY <1>2 DEF OneEach, Absent
<1>5. TriggerLast(Append(q, m))
  BY <1>1, <1>2 DEF TriggerLast, Trig, Start
<1>6. QED
  BY <1>2, <1>3, <1>4, <1>5 DEF Absent

LEMMA TailQueue ==
  ASSUME NEW q \in Seq(Message), q # <<>>,
         \A i \in DOMAIN q : Sound(q[i]), OneEach(q), TriggerLast(q)
  PROVE  /\ \A i \in DOMAIN Tail(q) : \E j \in DOMAIN q : Tail(q)[i] = q[j]
         /\ \A i \in DOMAIN Tail(q) : Sound(Tail(q)[i])
         /\ OneEach(Tail(q)) /\ TriggerLast(Tail(q))
         /\ Sound(Head(q)) /\ Head(q) \in Message /\ Absent(Tail(q), Head(q).run)
         /\ Head(q).pos = Trig => \A i \in DOMAIN Tail(q) : Tail(q)[i].pos \notin {Trig, Start}
<1>1. /\ DOMAIN q = 1 .. Len(q) /\ DOMAIN Tail(q) = 1 .. Len(q) - 1
      /\ Head(q) = q[1] /\ Head(q) \in Message /\ Len(q) \in Nat /\ 1 \in DOMAIN q
      /\ \A i \in DOMAIN Tail(q) : i \in Nat /\ i + 1 \in DOMAIN q /\ Tail(q)[i] = q[i + 1]
  BY HeadTailProperties, LenProperties, EmptySeq
<1>2. OneEach(Tail(q))
  BY <1>1 DEF OneEach
<1>3. TriggerLast(Tail(q))
  BY <1>1 DEF TriggerLast
<1>4. Absent(Tail(q), Head(q).run)
  BY <1>1 DEF OneEach, Absent
<1>5. ASSUME Head(q).pos = Trig, NEW i \in DOMAIN Tail(q)
      PROVE  Tail(q)[i].pos \notin {Trig, Start}
  <2>1. Tail(q)[i].run # Head(q).run
    BY <1>4 DEF Absent
  <2>2. Tail(q)[i].pos # Trig
    BY <1>1, <1>5, <2>1 DEF Sound
  <2>3. Tail(q)[i].pos # Start
    BY <1>1, <1>5 DEF TriggerLast
  <2>4. QED
    BY <2>2, <2>3
<1>6. QED
  BY <1>1, <1>2, <1>3, <1>4, <1>5
(* Without bounds to spend, nothing dies with a message and nothing is      *)
(* delivered twice.                                                         *)
LEMMA QuietSteps ==
  ASSUME Quiet, TypeOK, QueueInv
  PROVE  ~Crash /\ ~CrashInTrigger /\ ~RedeliverInFlight /\ ~RedeliverOrphan /\ ~Boot
         /\ ~SkipStale
<1>1. used["crash"] \in Nat /\ used["slow"] \in Nat
  BY DEF TypeOK, Bounds
<1>2. ~Spend("crash", MaxCrashes) /\ ~Spend("slow", MaxSlow)
  BY <1>1 DEF Quiet, Spend
<1>3. ~SkipStale
  BY DEF SkipStale, Stale, QueueInv, WorkerSound, Working
<1>4. QED
  BY <1>2, <1>3 DEF QueueInv, Crash, CrashInTrigger, RedeliverInFlight, RedeliverOrphan, Boot

LEMMA StartSound == ASSUME NEW d \in Days PROVE Sound(Message0(d, Start, FALSE))
BY DEF Sound, Message0, Start, Trig, NoRun, Days

(* What any step of a quiet worker does to the queue and to its message     *)
LEMMA QueueStep ==
  ASSUME Quiet, TypeOK, QueueInv, RowsInv, [Next]_vars
  PROVE  QueueInv'
<1> USE PipelineAssumption
<1>0. /\ queue \in Seq(Message) /\ msg \in Message
      /\ up /\ orphans = <<>> /\ WorkerSound
      /\ \A i \in DOMAIN queue : Sound(queue[i])
      /\ OneEach(queue) /\ TriggerLast(queue)
      /\ Working => Absent(queue, msg.run)
  BY DEF TypeOK, QueueInv
<1>1. CASE SendTrigger
  <2>1. \A i \in DOMAIN queue : queue[i].pos # Trig
    BY <1>1 DEF SendTrigger, Quiet
  <2>2. Sound(Trigger) /\ Trigger.run = NoRun /\ Trigger.pos = Trig
    BY DEF Sound, Trigger, Message0, Trig, Start
  <2>3. Absent(queue, NoRun)
    BY <1>0, <2>1 DEF Absent, Sound
  <2>4. /\ \A i \in DOMAIN queue' : Sound(queue'[i])
        /\ OneEach(queue') /\ TriggerLast(queue')
        /\ \A r : Absent(queue, r) /\ NoRun # r => Absent(queue', r)
    BY <1>0, <1>1, <2>2, <2>3, AppendQueue, TriggerType DEF SendTrigger, Trig, Start
  <2>5. QED
    BY <1>0, <1>1, <2>4
       DEF SendTrigger, QueueInv, worker, WorkerSound, Working, NextPos, Days, NoRun
<1>2. CASE RunTrigger
  <2>0. queue # <<>> /\ Head(queue).pos = Trig /\ ~Working
    BY <1>2 DEF RunTrigger, Idle, Working
  <2>1. /\ \A i \in DOMAIN Tail(queue) : Sound(Tail(queue)[i])
        /\ OneEach(Tail(queue)) /\ TriggerLast(Tail(queue))
        /\ \A i \in DOMAIN Tail(queue) : Tail(queue)[i].pos \notin {Trig, Start}
    BY <1>0, <2>0, TailQueue
  <2>2. CASE RunActive(today)
    BY <1>0, <1>2, <2>0, <2>1, <2>2
       DEF RunTrigger, worker, QueueInv, WorkerSound, Working, NextPos
  <2>3. CASE ~RunActive(today)
    <3> DEFINE m == Message0(today, Start, FALSE)
    <3>1. Sound(m) /\ m.run = today /\ m.pos = Start /\ m \in Message /\ today \in Days
      <4>1. today \in Days
        BY DEF TypeOK
      <4>2. m \in Message
        BY <4>1, PosFacts, MessageType
      <4>3. QED
        BY <4>1, <4>2, StartSound DEF Message0
    <3>2. Absent(Tail(queue), today)
      <4> SUFFICES ASSUME NEW i \in DOMAIN Tail(queue), Tail(queue)[i].run = today
                   PROVE  FALSE
        BY DEF Absent
      <4>1. PICK j \in DOMAIN queue : Tail(queue)[i] = queue[j]
        BY <1>0, <2>0, TailQueue
      <4>2. queue[j].pos \in Nat /\ queue[j].pos > Start
        <5>1. queue[j] \in Message
          BY <1>0, ElementOfSeq, LenProperties
        <5>2. QED
          BY <2>1, <4>1, <5>1 DEF Message, Pos, Trig, Start
      <4>3. Reached(today, queue[j].pos)
        BY <3>1, <4>1, <4>2 DEF RowsInv, ChainAt, Queued
      <4>4. RunActive(today)
        BY <4>2, <4>3 DEF Reached, RunActive, Start
      <4>5. QED
        BY <2>3, <4>4
    <3>3. Tail(queue) \in Seq(Message) /\ queue' = Append(Tail(queue), m)
      BY <1>0, <1>2, <2>0, <2>3, HeadTailProperties DEF RunTrigger
    <3>4. /\ \A i \in DOMAIN queue' : Sound(queue'[i])
          /\ OneEach(queue') /\ TriggerLast(queue')
      BY <2>1, <3>1, <3>2, <3>3, AppendQueue
    <3>5. QED
      BY <1>0, <1>2, <2>0, <3>4 DEF RunTrigger, worker, QueueInv, WorkerSound, Working, NextPos
  <2>4. QED
    BY <2>2, <2>3
<1>3. CASE Take
  <2>0. queue # <<>> /\ Head(queue).pos # Trig
    BY <1>3 DEF Take
  <2>1. /\ \A i \in DOMAIN Tail(queue) : Sound(Tail(queue)[i])
        /\ OneEach(Tail(queue)) /\ TriggerLast(Tail(queue))
        /\ Sound(Head(queue)) /\ Head(queue) \in Message
        /\ Absent(Tail(queue), Head(queue).run)
    BY <1>0, <2>0, TailQueue
  <2>2. WorkerSound'
    BY <1>3, <2>0, <2>1 DEF Take, WorkerSound, Working, NextPos, Sound, Message
  <2>3. QED
    BY <1>0, <1>3, <2>1, <2>2 DEF Take, QueueInv, Working
<1>4. CASE StartRun
  <2>1. msg.run \in Days /\ Reached(msg.run, Start) /\ Working
    BY <1>0, <1>4 DEF StartRun, WorkerSound, Working, NextPos, RowsInv, ChainAt, InHand, Start
  <2>2. msg' = [msg EXCEPT !.tracked = TRUE] /\ stage' = "returned"
    BY <1>4, <2>1 DEF StartRun, Reached, r0
  <2>3. msg'.run = msg.run /\ msg'.pos = Start /\ msg'.tracked
        /\ msg'.redelivered = msg.redelivered
    BY <1>0, <1>4, <2>2 DEF StartRun, Message
  <2>4. WorkerSound'
    BY <1>0, <2>1, <2>2, <2>3 DEF WorkerSound, Working, NextPos, Start, Trig
  <2>5. QED
    BY <1>0, <1>4, <2>1, <2>3, <2>4 DEF StartRun, QueueInv, broker
<1>5. CASE EnterStep \/ StepReturns \/ FinishRun \/ DiagnosticReturns \/ DirectStepRaises
  <2>1. msg' = msg /\ queue' = queue /\ orphans' = orphans /\ up' = up /\ Working
        /\ stage \in {"taken", "entered"}
    BY <1>5 DEF EnterStep, StepReturns, FinishRun, DiagnosticReturns, DirectStepRaises,
                broker, Working
  <2>2. /\ msg.pos > Start /\ msg.pos \in Nat /\ stage' \in {"entered", "returned", "failing"}
        /\ stage' = "failing" => msg.pos \in Steps
    BY <1>0, <1>5, <2>1 DEF EnterStep, StepReturns, FinishRun, DiagnosticReturns,
       DirectStepRaises, Direct, WorkerSound, Message, Pos, Trig, Start
  <2>3. WorkerSound'
    BY <1>0, <2>1, <2>2 DEF WorkerSound, Working, NextPos, Start
  <2>4. QED
    BY <1>0, <2>1, <2>3 DEF QueueInv
<1>6. CASE FailRunAndHalt \/ RaiseAndHalt \/ Ack \/ ChildLost
  <2>1. queue' = queue /\ orphans' = orphans /\ up' = up /\ stage' = "idle"
    BY <1>6 DEF FailRunAndHalt, RaiseAndHalt, Ack, ChildLost, Rest, broker
  <2>2. QED
    BY <1>0, <2>1 DEF QueueInv, WorkerSound, Working
<1>7. CASE PublishNext
  <2>0. Working /\ NextPos = msg.pos + 1 /\ msg.pos \in Nat /\ msg.pos # Trig
        /\ msg.run \in Days /\ (msg.tracked <=> msg.pos + 1 > Start)
    BY <1>0, <1>7 DEF PublishNext, Working, NextPos, WorkerSound, Message, Pos, Trig
  <2>1. CASE msg.pos < Last
    <3> DEFINE m == Message0(r0, msg.pos + 1, msg.tracked)
    <3>1. m \in Message /\ m.run = msg.run /\ m.pos = msg.pos + 1 /\ m.pos > Start /\ Sound(m)
      BY <1>0, <2>0, <2>1, PosFacts, MessageType
         DEF Message, r0, Message0, Sound, Start, Trig, NoRun, Days
    <3>2. queue' = Append(queue, m)
      BY <1>7, <2>1 DEF PublishNext
    <3>3. /\ \A i \in DOMAIN queue' : Sound(queue'[i])
          /\ OneEach(queue') /\ TriggerLast(queue')
      BY <1>0, <2>0, <3>1, <3>2, AppendQueue DEF Start
    <3>4. QED
      BY <1>0, <1>7, <3>3 DEF PublishNext, QueueInv, WorkerSound, Working
  <2>2. CASE ~(msg.pos < Last)
    BY <1>0, <1>7, <2>2 DEF PublishNext, QueueInv, WorkerSound, Working
  <2>3. QED
    BY <2>1, <2>2
<1>8. CASE Midnight \/ UNCHANGED vars
  BY <1>0, <1>8 DEF Midnight, vars, broker, worker, QueueInv, WorkerSound, Working, NextPos
<1>9. QED
  BY <1>1, <1>2, <1>3, <1>4, <1>5, <1>6, <1>7, <1>8, QuietSteps, <1>0 DEF Next, Handler, QueueInv
(* A step that leaves the rows of a run alone leaves what they say.         *)
SameRows(r) ==
  /\ status'[r] = status[r] /\ err'[r] = err[r]
  /\ worked'[r] = worked[r] /\ stepRow'[r] = stepRow[r]

Complete(r) ==
  worked[r] = Steps /\ ~err[r] /\ \A s \in Steps : Kind[s] # "untracked" => stepRow[r][s] = "success"

(* A step of the worker for the run it works for                            *)
LEMMA WorkerStep ==
  ASSUME TypeOK, QueueInv, RowsInv, Working, queue' = queue,
         NEW run \in Days, run = r0,
         \A r \in Days : r # run => SameRows(r),
         Working' => msg'.run = run,
         \A p \in Nat : Working' /\ p = NextPos' => Reached(run, p)',
         err'[run] => status'[run] = "failed",
         status'[run] = "success" => Complete(run)'
  PROVE  RowsInv'
<1>1. ASSUME NEW r \in Days, NEW p \in Nat, ChainAt(r, p)' PROVE Reached(r, p)'
  <2>1. CASE r = run
    <3>1. ~Queued(r, p)'
      BY <2>1 DEF Queued, QueueInv, Absent, r0
    <3>2. InHand(r, p)'
      BY <1>1, <3>1 DEF ChainAt
    <3>3. QED
      BY <2>1, <3>2 DEF InHand
  <2>2. CASE r # run
    <3>1. Queued(r, p)
      BY <1>1, <2>2 DEF ChainAt, Queued, InHand
    <3>2. Reached(r, p)
      BY <3>1 DEF RowsInv, ChainAt
    <3>3. QED
      BY <2>2, <3>2 DEF Reached, SameRows
  <2>3. QED
    BY <2>1, <2>2
<1>2. ASSUME NEW r \in Days
      PROVE  (err'[r] => status'[r] = "failed") /\ (status'[r] = "success" => Complete(r)')
  <2>1. CASE r # run
    BY <2>1 DEF SameRows, RowsInv, SuccessIsComplete, Complete
  <2>2. QED
    BY <2>1
<1>3. SuccessIsComplete'
  BY <1>2 DEF SuccessIsComplete, Complete
<1>4. QED
  BY <1>1, <1>2, <1>3 DEF RowsInv

(* A step that writes no row and moves no chain but by publishing it        *)
LEMMA MessageStep ==
  ASSUME RowsInv, UNCHANGED ledger,
         \A r \in Days, p \in Nat : ChainAt(r, p)' => ChainAt(r, p) \/ Reached(r, p)
  PROVE  RowsInv'
<1>1. ASSUME NEW r \in Days, NEW p \in Nat, ChainAt(r, p)' PROVE Reached(r, p)'
  <2>1. Reached(r, p)
    BY <1>1 DEF RowsInv
  <2>2. QED
    BY <2>1 DEF Reached, ledger, runRow
<1>2. SuccessIsComplete' /\ \A r \in Days : err'[r] => status'[r] = "failed"
  BY DEF RowsInv, SuccessIsComplete, ledger, runRow
<1>3. QED
  BY <1>1, <1>2 DEF RowsInv

(* The rows of the runs follow their chains.                                *)
LEMMA RowsStep ==
  ASSUME Quiet, TypeOK, QueueInv, RowsInv, [Next]_vars
  PROVE  RowsInv'
<1> USE PipelineAssumption
<1>0. /\ queue \in Seq(Message) /\ msg \in Message /\ WorkerSound
      /\ \A i \in DOMAIN queue : Sound(queue[i])
      /\ OneEach(queue) /\ TriggerLast(queue)
  BY DEF TypeOK, QueueInv
<1>m. ASSUME NEW q \in Seq(Message), NEW m \in Message
      PROVE  \A i \in DOMAIN Append(q, m) :
               Append(q, m)[i] = m \/ (i \in DOMAIN q /\ Append(q, m)[i] = q[i])
  BY AppendProperties, LenProperties
<1>r. ASSUME Working
      PROVE  /\ r0 \in Days /\ NextPos \in Nat /\ Reached(r0, NextPos)
             /\ err[r0] => status[r0] = "failed"
             /\ status[r0] = "success" => Complete(r0)
             /\ msg.pos \in Nat /\ msg.pos >= Start /\ msg.pos <= Last
  <2>1. r0 \in Days /\ msg.pos \in Nat /\ msg.pos >= Start /\ msg.pos <= Last
    BY <1>0, <1>r DEF WorkerSound, r0, Message, Pos, Trig, Start
  <2>2. NextPos \in Nat
    BY <2>1 DEF NextPos
  <2>3. QED
    BY <1>r, <2>1, <2>2 DEF RowsInv, ChainAt, InHand, SuccessIsComplete, Complete, r0
<1>2. CASE SendTrigger
  <2>1. ASSUME NEW r \in Days, NEW p \in Nat, ChainAt(r, p)' PROVE ChainAt(r, p)
    <3>1. CASE InHand(r, p)'
      BY <1>2, <3>1 DEF SendTrigger, worker, InHand, Working, NextPos, ChainAt
    <3>2. CASE Queued(r, p)'
      <4>1. \A i \in DOMAIN queue' :
              queue'[i] = Trigger \/ (i \in DOMAIN queue /\ queue'[i] = queue[i])
        BY <1>0, <1>2, <1>m, TriggerType DEF SendTrigger
      <4>2. Trigger.run \notin Days
        BY DEF Trigger, Message0, NoRun, Days
      <4>3. QED
        BY <3>2, <4>1, <4>2 DEF Queued, ChainAt
    <3>3. QED
      BY <2>1, <3>1, <3>2 DEF ChainAt
  <2>2. QED
    BY <1>2, <2>1, MessageStep DEF SendTrigger
<1>3. CASE RunTrigger
  <2> DEFINE m == Message0(today, Start, FALSE)
  <2>0. queue # <<>> /\ Tail(queue) \in Seq(Message) /\ m \in Message /\ today \in Days
    <3>1. today \in Days
      BY DEF TypeOK
    <3>2. QED
      BY <1>0, <1>3, <3>1, HeadTailProperties, PosFacts, MessageType DEF RunTrigger
  <2>1. ASSUME NEW r \in Days, NEW p \in Nat, ChainAt(r, p)'
        PROVE  ChainAt(r, p) \/ Reached(r, p)
    <3>1. CASE InHand(r, p)'
      BY <1>3, <3>1 DEF RunTrigger, worker, InHand, Working, NextPos, ChainAt
    <3>2. CASE Queued(r, p)'
      <4>1. PICK i \in DOMAIN queue' : queue'[i].run = r /\ queue'[i].pos = p
        BY <3>2 DEF Queued
      <4>2. \/ i \in DOMAIN Tail(queue) /\ queue'[i] = Tail(queue)[i]
            \/ ~RunActive(today) /\ queue'[i] = m
        BY <1>3, <1>m, <2>0 DEF RunTrigger
      <4>3. CASE queue'[i] = m /\ ~RunActive(today)
        <5>1. r = today /\ p = Start
          BY <4>1, <4>3 DEF Message0
        <5>2. status[r] \in {"none", "failed"}
          BY <4>3, <5>1 DEF RunActive, TypeOK, Statuses
        <5>3. QED
          BY <5>1, <5>2 DEF Reached, Start
      <4>4. CASE i \in DOMAIN Tail(queue) /\ queue'[i] = Tail(queue)[i]
        <5>1. PICK j \in DOMAIN queue : Tail(queue)[i] = queue[j]
          BY <1>0, <2>0, <4>4, TailQueue
        <5>2. QED
          BY <4>1, <4>4, <5>1 DEF Queued, ChainAt
      <4>5. QED
        BY <4>2, <4>3, <4>4
    <3>3. QED
      BY <2>1, <3>1, <3>2 DEF ChainAt
  <2>2. QED
    BY <1>3, <2>1, MessageStep DEF RunTrigger
<1>4. CASE Take
  <2>0. queue # <<>> /\ stage' = "taken" /\ msg' = Head(queue) /\ queue' = Tail(queue)
    BY <1>4 DEF Take
  <2>1. ASSUME NEW r \in Days, NEW p \in Nat, ChainAt(r, p)' PROVE ChainAt(r, p)
    <3>1. CASE InHand(r, p)'
      <4>1. Head(queue).run = r /\ Head(queue).pos = p
        BY <2>0, <3>1 DEF InHand, NextPos
      <4>2. Head(queue) = queue[1] /\ 1 \in DOMAIN queue
        BY <1>0, <2>0, HeadTailProperties, LenProperties, EmptySeq
      <4>3. QED
        BY <4>1, <4>2 DEF ChainAt, Queued
    <3>2. CASE Queued(r, p)'
      BY <1>0, <2>0, <3>2, TailQueue DEF Queued, ChainAt
    <3>3. QED
      BY <2>1, <3>1, <3>2 DEF ChainAt
  <2>2. QED
    BY <1>4, <2>1, MessageStep DEF Take
<1>5. CASE RaiseAndHalt \/ Ack \/ ChildLost
  <2>1. queue' = queue /\ stage' = "idle" /\ UNCHANGED ledger
    BY <1>5 DEF RaiseAndHalt, Ack, ChildLost, Rest, broker
  <2>2. \A r \in Days, p \in Nat : ChainAt(r, p)' => ChainAt(r, p)
    BY <2>1 DEF ChainAt, Queued, InHand, Working
  <2>3. QED
    BY <2>1, <2>2, MessageStep
<1>6. CASE PublishNext
  <2> DEFINE m == Message0(r0, msg.pos + 1, msg.tracked)
  <2>0. Working /\ NextPos = msg.pos + 1 /\ stage' = "published"
    BY <1>6 DEF PublishNext, Working, NextPos
  <2>1. ASSUME NEW r \in Days, NEW p \in Nat, ChainAt(r, p)' PROVE ChainAt(r, p)
    <3>1. PICK i \in DOMAIN queue' : queue'[i].run = r /\ queue'[i].pos = p
      BY <2>0, <2>1 DEF ChainAt, Queued, InHand, Working
    <3>2. CASE i \in DOMAIN queue /\ queue'[i] = queue[i]
      BY <3>1, <3>2 DEF ChainAt, Queued
    <3>3. CASE queue'[i] = m
      BY <2>0, <3>1, <3>3 DEF ChainAt, InHand, Message0, r0
    <3>4. CASE msg.pos < Last
      <4>1. m \in Message
        BY <1>0, <3>4, PosFacts, MessageType DEF Message, r0
      <4>2. QED
        BY <1>0, <1>6, <1>m, <3>1, <3>2, <3>3, <3>4, <4>1 DEF PublishNext
    <3>5. QED
      BY <1>6, <3>1, <3>2, <3>4 DEF PublishNext
  <2>2. QED
    BY <1>6, <2>1, MessageStep DEF PublishNext
<1>7. CASE Midnight \/ UNCHANGED vars
  <2>1. UNCHANGED <<broker, worker, ledger>>
    BY <1>7 DEF Midnight, vars
  <2>2. QED
    BY <2>1, MessageStep DEF broker, worker, ChainAt, Queued, InHand, Working, NextPos
(* Steps that write the rows of the run that the worker works for           *)
<1>w. ASSUME Working, \/ StartRun \/ EnterStep \/ StepReturns \/ FinishRun
                       \/ DiagnosticReturns \/ DirectStepRaises \/ FailRunAndHalt
      PROVE  RowsInv'
  <2>0. PICK run \in Days : run = r0
    BY <1>r, <1>w
  <2>1. /\ NextPos \in Nat /\ Reached(run, NextPos)
        /\ err[run] => status[run] = "failed"
        /\ status[run] = "success" => Complete(run)
        /\ msg.pos \in Nat /\ msg.pos >= Start /\ msg.pos <= Last
    BY <1>r, <1>w, <2>0
  <2>2. /\ status \in [Days -> Statuses] /\ err \in [Days -> BOOLEAN]
        /\ stepRow \in [Days -> [Steps -> Statuses]] /\ worked \in [Days -> SUBSET Steps]
    BY DEF TypeOK
  <2> USE <2>0
  <2>5. CASE StartRun
    <3>1. /\ status' = [status EXCEPT ![run] = "running"]
          /\ err' = [err EXCEPT ![run] = FALSE]
          /\ worked' = [worked EXCEPT ![run] = {}] /\ stepRow' = stepRow
      BY <2>1, <2>5 DEF StartRun, OpenRun, NextPos, Reached
    <3>2. msg'.run = run /\ NextPos' = Start + 1 /\ queue' = queue
      BY <1>0, <2>5 DEF StartRun, NextPos, Message, r0, broker
    <3>3. Reached(run, Start + 1)'
      <4>1. Start + 1 \in Start + 1 .. Finish /\ ~(Start + 1 > Finish) /\ Start + 1 # Start
        BY DEF Start
      <4>2. \A s \in Steps : ~(s < Start + 1)
        BY DEF Steps, Start
      <4>3. {s \in Steps : s < Start + 1} = {}
        BY <4>2
      <4>4. status'[run] = "running" /\ worked'[run] = {}
        BY <2>2, <3>1
      <4>5. QED
        BY <4>1, <4>2, <4>3, <4>4 DEF Reached
    <3>4. \A r \in Days : r # run => SameRows(r)
      BY <2>2, <3>1 DEF SameRows
    <3>5. err'[run] = FALSE /\ status'[run] = "running"
      BY <2>2, <3>1
    <3>6. QED
      BY <1>w, <3>2, <3>3, <3>4, <3>5, WorkerStep
  (* the step row of the position at hand, which its success comes after      *)
  <2>u. ASSUME NEW s \in Steps, NEW st \in Statuses, UpdateRun(r0, s, st)
        PROVE  /\ \A r \in Days : r # run => stepRow'[r] = stepRow[r]
               /\ \A t \in Steps : stepRow[run][t] = "success" => stepRow'[run][t] = "success"
               /\ st = "success" => stepRow'[run][s] = "success"
    BY <2>2, <2>u DEF UpdateRun
  <2>6. CASE EnterStep
    <3>0. NextPos = msg.pos /\ NextPos' = msg.pos /\ msg' = msg /\ queue' = queue
          /\ UNCHANGED <<status, err, worked>>
      BY <2>6 DEF EnterStep, NextPos, broker
    <3>1. /\ \A r \in Days : r # run => stepRow'[r] = stepRow[r]
          /\ \A t \in Steps : stepRow[run][t] = "success" => stepRow'[run][t] = "success"
      BY <2>6, <2>u DEF EnterStep, Direct, Statuses
    <3>2. \A r \in Days : r # run => SameRows(r)
      BY <3>0, <3>1 DEF SameRows
    <3>3. Reached(run, msg.pos)'
      BY <2>1, <3>0, <3>1 DEF Reached
    <3>4. status'[run] = "success" => Complete(run)'
      BY <2>1, <3>0, <3>1 DEF Complete
    <3>5. QED
      BY <1>w, <2>1, <3>0, <3>2, <3>3, <3>4, WorkerStep DEF r0
  <2>7. CASE StepReturns
    <3>0. NextPos = msg.pos /\ NextPos' = msg.pos + 1 /\ msg' = msg /\ queue' = queue
          /\ UNCHANGED <<status, err>> /\ worked' = [worked EXCEPT ![run] = @ \cup {msg.pos}]
          /\ msg.pos \in Steps /\ msg.tracked
      BY <1>0, <1>w, <2>7 DEF StepReturns, NextPos, broker, WorkerSound, Steps, Start
    <3>1. /\ \A r \in Days : r # run => stepRow'[r] = stepRow[r]
          /\ \A t \in Steps : stepRow[run][t] = "success" => stepRow'[run][t] = "success"
          /\ Kind[msg.pos] # "untracked" => stepRow'[run][msg.pos] = "success"
      BY <2>7, <2>u, <3>0 DEF StepReturns, Direct, InTxn, Statuses, Kinds
    <3>2. \A r \in Days : r # run => SameRows(r)
      BY <2>2, <3>0, <3>1 DEF SameRows
    <3>3. status[run] = "running" /\ worked[run] = {s \in Steps : s < msg.pos}
      BY <2>1, <3>0 DEF Reached, Steps
    <3>4. worked'[run] = {s \in Steps : s < msg.pos + 1}
      <4>1. \A s \in Steps : s < msg.pos + 1 <=> s < msg.pos \/ s = msg.pos
        BY <2>1 DEF Steps, Start
      <4>2. worked'[run] = worked[run] \cup {msg.pos}
        BY <2>2, <3>0
      <4>3. QED
        BY <3>0, <3>3, <4>1, <4>2
    <3>5. Reached(run, msg.pos + 1)'
      <4>1. msg.pos + 1 \in Start + 1 .. Finish /\ ~(msg.pos + 1 > Finish) /\ msg.pos + 1 # Start
        BY <3>0 DEF Steps, Start
      <4>2. \A s \in Steps : s < msg.pos + 1 /\ Kind[s] # "untracked" => stepRow'[run][s] = "success"
        <5>1. \A s \in Steps : s < msg.pos + 1 => s < msg.pos \/ s = msg.pos
          BY <2>1 DEF Steps, Start
        <5>2. msg.pos > Start
          BY <3>0 DEF Steps, Start
        <5>3. QED
          BY <2>1, <3>0, <3>1, <5>1, <5>2 DEF Reached
      <4>3. QED
        BY <3>0, <3>3, <3>4, <4>1, <4>2 DEF Reached
    <3>6. status'[run] # "success"
      BY <3>0, <3>3
    <3>7. QED
      BY <1>w, <2>1, <3>0, <3>2, <3>5, <3>6, WorkerStep DEF r0
  <2>8. CASE FinishRun
    <3>0. NextPos = Finish /\ NextPos' = Finish + 1 /\ msg' = msg /\ queue' = queue
          /\ UNCHANGED <<err, worked, stepRow>> /\ msg.tracked
      BY <1>0, <1>w, <2>8 DEF FinishRun, NextPos, broker, WorkerSound
    <3>1. status' = [status EXCEPT ![run] = "success"]
      BY <2>8, <3>0 DEF FinishRun
    <3>2. \A r \in Days : r # run => SameRows(r)
      BY <2>2, <3>0, <3>1 DEF SameRows
    <3>3. \A s \in Steps : s < Finish /\ s < Finish + 1
      BY DEF Steps, Start
    <3>4. status[run] = "running" /\ worked[run] = Steps
      BY <2>1, <3>0, <3>3 DEF Reached, Start
    <3>5. \A s \in Steps : Kind[s] # "untracked" => stepRow[run][s] = "success"
      BY <2>1, <3>0, <3>3 DEF Reached, Start
    <3>6. status'[run] = "success" /\ ~err[run]
      BY <2>1, <2>2, <3>1, <3>4
    <3>7. Reached(run, Finish + 1)' /\ Complete(run)'
      <4>1. Finish + 1 > Finish /\ Finish + 1 \notin Start + 1 .. Finish /\ Finish + 1 # Start
        BY DEF Start
      <4>2. QED
        BY <3>0, <3>4, <3>5, <3>6, <4>1 DEF Reached, Complete
    <3>8. QED
      BY <1>w, <2>1, <3>0, <3>2, <3>6, <3>7, WorkerStep DEF r0
  <2>9. CASE DiagnosticReturns
    <3>0. NextPos = msg.pos /\ NextPos' = msg.pos + 1 /\ msg' = msg /\ queue' = queue
          /\ UNCHANGED <<status, err, worked, stepRow>> /\ msg.pos > Finish
      BY <2>9 DEF DiagnosticReturns, NextPos, broker, ledger, runRow
    <3>1. Reached(run, msg.pos + 1)'
      <4>1. msg.pos + 1 > Finish /\ msg.pos + 1 # Start /\ msg.pos + 1 \notin Start + 1 .. Finish
        BY <2>1, <3>0 DEF Start
      <4>2. \A s \in Steps : s < msg.pos
        BY <2>1, <3>0 DEF Steps, Start
      <4>3. msg.pos > Start
        BY <2>1, <3>0 DEF Start
      <4>4. QED
        BY <2>1, <3>0, <4>1, <4>2, <4>3 DEF Reached
    <3>2. \A r \in Days : r # run => SameRows(r)
      BY <3>0 DEF SameRows
    <3>3. status'[run] = "success" => Complete(run)'
      BY <2>1, <3>0 DEF Complete
    <3>4. QED
      BY <1>w, <2>1, <3>0, <3>1, <3>2, <3>3, WorkerStep DEF r0
  <2>10. CASE DirectStepRaises
    <3>0. NextPos = msg.pos /\ NextPos' = msg.pos /\ msg' = msg /\ queue' = queue
          /\ UNCHANGED <<status, err, worked>>
      BY <2>10 DEF DirectStepRaises, NextPos, broker
    <3>1. /\ \A r \in Days : r # run => stepRow'[r] = stepRow[r]
          /\ \A t \in Steps : stepRow[run][t] = "success" => stepRow'[run][t] = "success"
      BY <2>10, <2>u DEF DirectStepRaises, Direct, Statuses
    <3>2. \A r \in Days : r # run => SameRows(r)
      BY <3>0, <3>1 DEF SameRows
    <3>3. Reached(run, msg.pos)'
      BY <2>1, <3>0, <3>1 DEF Reached
    <3>4. status'[run] = "success" => Complete(run)'
      BY <2>1, <3>0, <3>1 DEF Complete
    <3>5. QED
      BY <1>w, <2>1, <3>0, <3>2, <3>3, <3>4, WorkerStep DEF r0
  <2>11. CASE FailRunAndHalt
    <3>1. queue' = queue /\ ~Working' /\ UNCHANGED <<worked, stepRow>>
          /\ \A r \in Days : /\ r # run => status'[r] = status[r] /\ err'[r] = err[r]
                             /\ r = run => status'[r] = "failed"
      BY <2>2, <2>11 DEF FailRunAndHalt, FailRuns, Rest, Working, broker
    <3>2. \A r \in Days : r # run => SameRows(r)
      BY <3>1 DEF SameRows
    <3>3. QED
      BY <1>w, <3>1, <3>2, WorkerStep
  <2>12. QED
    BY <1>w, <2>5, <2>6, <2>7, <2>8, <2>9, <2>10, <2>11
<1>8. QED
  BY <1>2, <1>3, <1>4, <1>5, <1>6, <1>7, <1>w, QuietSteps
     DEF Next, Handler, Working, StartRun, EnterStep, StepReturns, FinishRun,
         DiagnosticReturns, DirectStepRaises, FailRunAndHalt
(* The inductive invariant holds of every state of a quiet worker.          *)
LEMMA ChainsCorrect == Quiet => (Spec => [](TypeOK /\ QueueInv /\ RowsInv))
<1> SUFFICES ASSUME Quiet PROVE Spec => [](TypeOK /\ QueueInv /\ RowsInv)
  OBVIOUS
<1>1. ASSUME Init PROVE QueueInv /\ RowsInv
  <2>1. DOMAIN queue = {} /\ ~Working
    BY <1>1 DEF Init, Working
  <2>2. QueueInv
    BY <1>1, <2>1 DEF Init, QueueInv, OneEach, TriggerLast, WorkerSound
  <2>3. RowsInv
    BY <1>1, <2>1 DEF Init, RowsInv, ChainAt, Queued, InHand, SuccessIsComplete
  <2>4. QED
    BY <2>2, <2>3
<1>2. TypeOK /\ QueueInv /\ RowsInv /\ [Next]_vars => QueueInv' /\ RowsInv'
  BY QueueStep, RowsStep
<1>3. QED
  BY <1>1, <1>2, TypeInit, TypeStep, PTL DEF Spec

(* Whatever the chain, the kinds of its steps, the triggers and the services*)
(* that raise: as long as the worker lives and redelivers nothing, no two   *)
(* messages work for one run, even when pool children die.                  *)
THEOREM ChainsStaySingle == Quiet => (Spec => []OneChainPerRun)
<1>1. QueueInv => OneChainPerRun
  <2> SUFFICES ASSUME QueueInv, NEW r \in Days,
                      NEW i \in ChainMessages(r), NEW j \in ChainMessages(r)
               PROVE  i = j
    BY DEF OneChainPerRun
  <2>1. \A k \in ChainMessages(r) :
          \/ k \in DOMAIN queue /\ queue[k].run = r
          \/ k = 0 /\ Working /\ msg.run = r
    BY DEF ChainMessages, Working
  <2>2. \A k, l \in DOMAIN queue : queue[k].run = queue[l].run => k = l
    BY DEF QueueInv, OneEach
  <2>3. Working => \A k \in DOMAIN queue : queue[k].run # msg.run
    BY DEF QueueInv, Absent
  <2>4. QED
    BY <2>1, <2>2, <2>3
<1>2. QED
  BY <1>1, ChainsCorrect, PTL

(* Under the same conditions a run that says 'success' did every step in its*)
(* last attempt: no retry, restart of a failed run or dispatch by a second  *)
(* trigger makes a run successful with work of an earlier attempt only.     *)
THEOREM SuccessMeansDone == Quiet => (Spec => []SuccessIsComplete)
<1>1. RowsInv => SuccessIsComplete
  BY DEF RowsInv
<1>2. QED
  BY <1>1, ChainsCorrect, PTL

(* The refinement, step by step: four statements move the life cycle, the   *)
(* other steps of the broker and of the worker leave it where it is.        *)
LEMMA LifecycleStep ==
  ASSUME Quiet, TypeOK, QueueInv, RowsInv, [Next]_vars
  PROVE  [Lifecycle!Next]_Lifecycle!vars
<1> USE PipelineAssumption DEF Lifecycle!Next, Lifecycle!vars
<1>0. /\ status \in [Days -> Statuses] /\ worked \in [Days -> SUBSET Steps]
      /\ msg \in Message /\ WorkerSound
  BY DEF TypeOK, QueueInv
<1>1. Working => /\ r0 \in Days /\ NextPos \in Nat /\ Reached(r0, NextPos)
  <2>1. ASSUME Working PROVE r0 \in Days /\ NextPos \in Nat
    BY <1>0, <2>1 DEF WorkerSound, r0, NextPos, Message, Pos, Trig
  <2>2. QED
    BY <2>1 DEF RowsInv, ChainAt, InHand, r0
<1>2. CASE StartRun
  <2>1. r0 \in Days /\ status[r0] \in {"none", "failed"}
    BY <1>1, <1>2 DEF StartRun, Working, NextPos, Reached
  <2>2. Lifecycle!Open(r0)
    BY <1>2, <2>1 DEF StartRun, OpenRun, Lifecycle!Open
  <2>3. QED
    BY <2>1, <2>2
<1>3. CASE StepReturns
  <2>1. r0 \in Days /\ msg.pos \in Steps /\ NextPos = msg.pos /\ Reached(r0, msg.pos)
    BY <1>1, <1>3 DEF StepReturns, Working, NextPos
  <2>2. status[r0] = "running" /\ worked[r0] = {s \in Steps : s < msg.pos}
    BY <2>1 DEF Reached, Steps
  <2>3. Lifecycle!Work(r0, msg.pos)
    BY <1>3, <2>2 DEF StepReturns, Lifecycle!Work
  <2>4. QED
    BY <2>1, <2>3 DEF Lifecycle!Advance
<1>4. CASE FinishRun
  <2>1. r0 \in Days /\ Reached(r0, Finish) /\ msg.tracked
    BY <1>1, <1>4 DEF FinishRun, Working, NextPos, QueueInv, WorkerSound
  <2>2. {s \in Steps : s < Finish} = Steps
    BY DEF Steps
  <2>3. status[r0] = "running" /\ worked[r0] = Steps
    BY <2>1, <2>2 DEF Reached, Start
  <2>4. Lifecycle!Succeed(r0)
    BY <1>4, <2>1, <2>3 DEF FinishRun, Lifecycle!Succeed
  <2>5. QED
    BY <2>1, <2>4 DEF Lifecycle!Advance
<1>5. CASE FailRunAndHalt
  <2>1. r0 \in Days /\ msg.pos \in Steps /\ Reached(r0, msg.pos)
    BY <1>0, <1>1, <1>5 DEF FailRunAndHalt, Working, NextPos, WorkerSound
  <2>2. status[r0] = "running"
    BY <2>1 DEF Reached, Steps
  <2>3. status' = [status EXCEPT ![r0] = "failed"] /\ worked' = worked
    BY <1>0, <1>5 DEF FailRunAndHalt, FailRuns
  <2>4. Lifecycle!Fail(r0)
    BY <2>2, <2>3 DEF Lifecycle!Fail
  <2>5. QED
    BY <2>1, <2>4 DEF Lifecycle!Advance
<1>6. CASE UNCHANGED <<status, worked>>
  BY <1>6
<1>7. QED
  BY <1>2, <1>3, <1>4, <1>5, <1>6, QuietSteps
     DEF Next, Handler, SendTrigger, Midnight, RunTrigger, Take, EnterStep,
         DiagnosticReturns, DirectStepRaises, RaiseAndHalt, PublishNext, Ack, ChildLost,
         vars, ledger, runRow

(* The rows of ops.ingestion_runs follow the promised life cycle as long as *)
(* the worker lives and redelivers nothing: a run opens, does its steps in  *)
(* order and ends once; a successful one is never opened again.             *)
THEOREM FollowsLifecycle ==
  Quiet => (Spec => Lifecycle!Init /\ [][Lifecycle!Next]_Lifecycle!vars)
<1> SUFFICES ASSUME Quiet PROVE Spec => Lifecycle!Init /\ [][Lifecycle!Next]_Lifecycle!vars
  OBVIOUS
<1>1. Init => Lifecycle!Init
  BY DEF Init, Lifecycle!Init
<1>2. TypeOK /\ QueueInv /\ RowsInv /\ [Next]_vars => [Lifecycle!Next]_Lifecycle!vars
  BY LifecycleStep
<1>3. QED
  BY <1>1, <1>2, ChainsCorrect, PTL DEF Spec
=============================================================================
