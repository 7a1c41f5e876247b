---------------------------- MODULE ListingActions ----------------------------
(***************************************************************************)
(* The queue of staged pricing actions, listing_pending_actions: stage_    *)
(* action appends an action for an item that has none open, and the        *)
(* drain_listing_actions task fetches the oldest pending actions and takes *)
(* each one through processing to done or failed.  The drain runs outside  *)
(* a transaction: every statement commits on its own.                      *)
(***************************************************************************)
EXTENDS Naturals, FiniteSets

CONSTANTS
  Items,       \* eBay listings
  Clients,     \* concurrent stage requests
  Drains,      \* drain tasks that may run at a time
  Limit,       \* the LIMIT of get_pending
  MaxActions,  \* bound: transactions that may stage an action
  MaxFails     \* bound: statements that raise, workers that die

Ids == 1 .. MaxActions         \* created_at: the start of the transaction
Ends == {"done", "failed"}
Statuses == {"pending", "processing"} \cup Ends

ASSUME ActionAssumption ==
  /\ "absent" \notin Items
  /\ Limit \in Nat \ {0} /\ MaxActions \in Nat /\ MaxFails \in Nat

NoRow == [item |-> "absent", status |-> "absent"]
NotStaging == [id |-> 0, item |-> "absent"]
AtRest == [batch |-> {}, at |-> "rest"]

VARIABLES
  row,        \* the table, by created_at
  clock,      \* transactions started by stage_action
  staging,    \* per client, a stage_action that found no open action
  drain,      \* per drain, the fetched rows left and the next statement
  acted,      \* history: how often each action was acted upon, 2 for more
  fails       \* history: failures so far

vars == <<row, clock, staging, drain, acted, fails>>

Init ==
  /\ row = [i \in Ids |-> NoRow] /\ clock = 0
  /\ staging = [c \in Clients |-> NotStaging]
  /\ drain = [d \in Drains |-> AtRest]
  /\ acted = [i \in Ids |-> 0] /\ fails = 0

(* get_pending_for_item *)
Open(x) == {i \in Ids : row[i].item = x /\ row[i].status \in {"pending", "processing"}}

NotEnded  == {i \in Ids : row[i].status \in {"pending", "processing"}}
NotDone   == {i \in Ids : row[i].status \in {"pending", "failed"}}

Pending == {i \in Ids : row[i].status = "pending"}

Oldest(S, n) == {i \in S : Cardinality({j \in S : j < i}) < n}

-----------------------------------------------------------------------------
(* stage_action: an open action is returned as it is, else one is inserted *)
Stage(c, x) ==
  /\ staging[c] = NotStaging /\ clock < MaxActions
  /\ Open(x) = {}
  /\ clock' = clock + 1
  /\ staging' = [staging EXCEPT ![c] = [id |-> clock + 1, item |-> x]]
  /\ UNCHANGED <<row, drain, acted, fails>>

Insert(c) ==
  /\ staging[c] # NotStaging
  /\ row' = [row EXCEPT ![staging[c].id] =
               [item |-> staging[c].item, status |-> "pending"]]
  /\ staging' = [staging EXCEPT ![c] = NotStaging]
  /\ UNCHANGED <<clock, drain, acted, fails>>

(* a request that raises is rolled back                                    *)
StageFails(c) ==
  /\ staging[c] # NotStaging /\ fails < MaxFails
  /\ fails' = fails + 1
  /\ staging' = [staging EXCEPT ![c] = NotStaging]
  /\ UNCHANGED <<row, clock, drain, acted>>

(* drain_pending_actions: rows = get_pending(limit)                        *)
Fetch(d) ==
  /\ drain[d] = AtRest /\ Pending # {}
  /\ drain' = [drain EXCEPT ![d] =
       [batch |-> Oldest(Pending, Limit), at |-> "mark"]]
  /\ UNCHANGED <<row, clock, staging, acted, fails>>

(* the fetched rows are taken in the order of created_at *)
Current(d) == CHOOSE i \in drain[d].batch : \A j \in drain[d].batch : i <= j

SetStatus(i, s) == row' = [row EXCEPT ![i].status = s]

Goto(d, at) == drain' = [drain EXCEPT ![d].at = at]

NextRow(d) ==
  LET rest == drain[d].batch \ {Current(d)}
  IN  drain' = [drain EXCEPT ![d] =
                  IF rest = {} THEN AtRest ELSE [batch |-> rest, at |-> "mark"]]

MarkProcessing(d) ==
  /\ drain[d].at = "mark"
  /\ SetStatus(Current(d), "processing")
  /\ Goto(d, "act")
  /\ UNCHANGED <<clock, staging, acted, fails>>

(* the place of the eBay call: for now the action is only logged           *)
Act(d) ==
  /\ drain[d].at = "act"
  /\ acted' = [acted EXCEPT ![Current(d)] = IF @ = 0 THEN 1 ELSE 2]
  /\ Goto(d, "done")
  /\ UNCHANGED <<row, clock, staging, fails>>

MarkDone(d) ==
  /\ drain[d].at = "done"
  /\ SetStatus(Current(d), "done")
  /\ NextRow(d)
  /\ UNCHANGED <<clock, staging, acted, fails>>

(* any of the three raises: except Exception                               *)
Raise(d) ==
  /\ drain[d].at \in {"mark", "act", "done"} /\ fails < MaxFails
  /\ fails' = fails + 1
  /\ Goto(d, "fail")
  /\ UNCHANGED <<row, clock, staging, acted>>

MarkFailed(d) ==
  /\ drain[d].at = "fail"
  /\ SetStatus(Current(d), "failed")
  /\ NextRow(d)
  /\ UNCHANGED <<clock, staging, acted, fails>>

(* the worker dies, or mark_failed itself raises: the drain is over; the   *)
(* redelivered task is a drain like the next one                           *)
Die(d) ==
  /\ drain[d] # AtRest /\ fails < MaxFails
  /\ fails' = fails + 1
  /\ drain' = [drain EXCEPT ![d] = AtRest]
  /\ UNCHANGED <<row, clock, staging, acted>>

Step(d) == MarkProcessing(d) \/ Act(d) \/ MarkDone(d) \/ MarkFailed(d)

Next ==
  \/ \E c \in Clients : Insert(c) \/ StageFails(c) \/ \E x \in Items : Stage(c, x)
  \/ \E d \in Drains : Fetch(d) \/ Step(d) \/ Raise(d) \/ Die(d)

Spec == Init /\ [][Next]_vars

-----------------------------------------------------------------------------
Places == {"rest", "mark", "act", "done", "fail"}

(* Every variable has its type; a drain at work has a row to work on.      *)
TypeOK ==
  /\ row \in [Ids -> [item : Items, status : Statuses] \cup {NoRow}]
  /\ clock \in 0 .. MaxActions
  /\ staging \in [Clients -> [id : Ids, item : Items] \cup {NotStaging}]
  /\ drain \in [Drains -> [batch : SUBSET Ids, at : Places]]
  /\ \A d \in Drains : drain[d].batch = {} <=> drain[d].at = "rest"
  /\ acted \in [Ids -> 0 .. 2]
  /\ fails \in 0 .. MaxFails

(* One drain at a time never acts twice on an action, whatever dies or     *)
(* raises in between: an action is fetched while pending and marked before *)
(* it is acted upon. *)
ActedAtMostOnce == \A i \in Ids : acted[i] <= 1

(* An action that ended, done or failed, is not taken up again.            *)
OverIsFinal ==
  [][\A i \in Ids : row[i].status \in Ends => row'[i].status = row[i].status]_vars
=============================================================================
