----------------------------- MODULE HealthAlert -----------------------------
(* ops.health.alert_check: twice a day every integrity service is run, its    *)
(* status is stored as a snapshot, and the check sets whose status differs    *)
(* from their previous snapshot are posted to a Discord channel, before the   *)
(* transaction that stores the snapshots commits.                             *)
EXTENDS FiniteSets, Integers, Sequences

CONSTANTS
  Keys,        \* the integrity services, in the order they are run
  Rule,        \* the severity rule of each one's metric, see Rules
  Values,      \* bound: the values a metric takes
  MaxNamed,    \* how many transitions of a kind one message names
  Faults       \* bound: posts lost and commits failed

CheckSets == {Keys[i] : i \in 1..Len(Keys)}
NoRule == [warn |-> 0, error |-> 0, direction |-> "none"]
Rules == [warn : Int, error : Int, direction : {"higher_is_worse", "lower_is_worse"}]
           \cup {NoRule}

ASSUME HealthAssumption ==
  /\ Rule \in [CheckSets -> Rules]
  /\ MaxNamed \in Nat \ {0} /\ Faults \in Nat

VARIABLES
  step,      \* where the alert check stands
  found,     \* the statuses found by the present check
  recorded,  \* the status of the latest committed snapshot of each check set
  told,      \* what the channel last heard of each check set
  missed,    \* history: check sets with a transition that no message has named,
             \* or that was announced and then not recorded
  faults     \* history: faults so far

healthVars == <<step, found, recorded, told, missed, faults>>

HealthStatuses == {"ok", "warn", "error"}
Unknown == "none"

(* Threshold.evaluate, and MetricRegistry.evaluate for a metric with no rule. *)
Severity(rule, value) ==
  LET worse(limit) == IF rule.direction = "higher_is_worse" THEN value >= limit
                                                          ELSE value <= limit
  IN CASE rule.direction = "none" -> "ok"
       [] value = -1              -> "warn"        \* the metric has no value
       [] worse(rule.error)       -> "error"
       [] worse(rule.warn)        -> "warn"
       [] OTHER                   -> "ok"

(* The severities in a report: of the metric, or of the metric that raised.   *)
ReportRows(key) == {{Severity(Rule[key], v)} : v \in Values \cup {-1}} \cup {{"error"}}

(* derive_status.                                                             *)
DeriveStatus(rows) ==
  IF "error" \in rows THEN "error" ELSE IF "warn" \in rows THEN "warn" ELSE "ok"

(* A report's status, or error when the service itself raises.                *)
RunStatuses(key) == {DeriveStatus(rows) : rows \in ReportRows(key)} \cup {"error"}

(* classify_transition.                                                       *)
Rank == [ok |-> 0, warn |-> 1, error |-> 2]
Transition(prior, current) ==
  CASE prior = Unknown -> "baseline"
    [] prior = current -> "unchanged"
    [] OTHER -> IF Rank[current] > Rank[prior] THEN "degraded" ELSE "recovered"

(* Mutant: the prior snapshot is the one this run has inserted.               *)
ChangedSinceItself(kind) == {k \in CheckSets : Transition(found[k], found[k]) = kind}

Changed(kind) == {k \in CheckSets : Transition(recorded[k], found[k]) = kind}
ToTell == Changed("degraded") \cup Changed("recovered")

(* format_discord_payload: of each kind the first MaxNamed, in key order.     *)
Position(k) == CHOOSE i \in 1..Len(Keys) : Keys[i] = k
NamedOf(items) ==
  {k \in items : Cardinality({j \in items : Position(j) < Position(k)}) < MaxNamed}
Named == NamedOf(Changed("degraded")) \cup NamedOf(Changed("recovered"))

HealthInit ==
  /\ step = "idle"
  /\ found = [k \in CheckSets |-> Unknown]
  /\ recorded = [k \in CheckSets |-> Unknown]
  /\ told = [k \in CheckSets |-> Unknown]
  /\ missed = {}
  /\ faults = 0

(* The service call begins, with its own connection and transaction.          *)
StartCheck ==
  /\ step = "idle"
  /\ step' = "checking"
  /\ found' = [k \in CheckSets |-> Unknown]
  /\ UNCHANGED <<recorded, told, missed, faults>>

(* One integrity service, a call with a connection of its own.                *)
RunIntegrityService ==
  /\ step = "checking"
  /\ \E i \in 1..Len(Keys) :
       /\ found[Keys[i]] = Unknown /\ \A j \in 1..(i - 1) : found[Keys[j]] # Unknown
       /\ \E status \in RunStatuses(Keys[i]) : found' = [found EXCEPT ![Keys[i]] = status]
       /\ step' = IF i = Len(Keys) THEN "alerting" ELSE "checking"
  /\ UNCHANGED <<recorded, told, missed, faults>>

(* The snapshots are inserted and compared with those of earlier runs, and    *)
(* the transitions posted.  An answer other than 2xx, an exception and an     *)
(* unset webhook are logged.                                                  *)
Alert(delivered) ==
  /\ step = "alerting"
  /\ IF delivered \/ ToTell = {} THEN faults' = faults
                                 ELSE faults < Faults /\ faults' = faults + 1
  /\ LET heard == IF delivered THEN Named ELSE {}
         new == Changed("baseline")
     IN /\ told' = [k \in CheckSets |-> IF k \in heard \cup new THEN found[k] ELSE told[k]]
        /\ missed' = (missed \ (heard \cup new)) \cup (ToTell \ heard)
  /\ step' = "posted"
  /\ UNCHANGED <<found, recorded>>

(* The transaction of the alert check commits.                                *)
CommitSnapshots ==
  /\ step = "posted"
  /\ recorded' = found
  /\ step' = "idle"
  /\ UNCHANGED <<found, told, missed, faults>>

(* The process dies, or the transaction fails: no snapshot is stored.  The    *)
(* message is redelivered or the next check runs in its turn.                 *)
LoseSnapshots ==
  /\ step # "idle" /\ faults < Faults
  /\ faults' = faults + 1
  /\ missed' = IF step = "posted" THEN missed \cup {k \in CheckSets : told[k] # recorded[k]}
                                  ELSE missed
  /\ step' = "idle"
  /\ UNCHANGED <<found, recorded, told>>

HealthNext ==
  \/ StartCheck \/ RunIntegrityService \/ CommitSnapshots \/ LoseSnapshots
  \/ \E delivered \in BOOLEAN : Alert(delivered)

HealthSpec == HealthInit /\ [][HealthNext]_healthVars

-----------------------------------------------------------------------------
(* Every variable has its type.                                              *)
HealthTypeOK ==
  /\ step \in {"idle", "checking", "alerting", "posted"}
  /\ found \in [CheckSets -> HealthStatuses \cup {Unknown}]
  /\ recorded \in [CheckSets -> HealthStatuses \cup {Unknown}]
  /\ told \in [CheckSets -> HealthStatuses \cup {Unknown}]
  /\ missed \subseteq CheckSets
  /\ faults \in 0..Faults

(* Between two checks the last thing the channel heard of a check set is its  *)
(* latest snapshot, so no transition is lost and none is announced that was   *)
(* not recorded, for every check set whose transitions were all named in a    *)
(* message that was delivered and recorded by a transaction that committed.   *)
ChannelIsCurrent ==
  step = "idle" => \A k \in CheckSets \ missed : told[k] = recorded[k]
=============================================================================
