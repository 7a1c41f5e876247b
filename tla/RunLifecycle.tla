---------------------------- MODULE RunLifecycle ----------------------------
(***************************************************************************)
(* What the operators of the pipelines are promised about a run: it opens, *)
(* does its steps in order, and ends once.  A successful run has done every*)
(* step since it last opened and is never opened again; a failed one may   *)
(* be.  No broker, no worker and no tables.                                *)
(***************************************************************************)
EXTENDS Integers

CONSTANTS
  Runs,     \* identities of the runs
  Steps     \* the numbers of the work steps of a run

VARIABLES
  status,   \* "none", "running", "success" or "failed" for every run
  done      \* the steps done since the run last opened

vars == <<status, done>>

Init ==
  /\ status = [r \in Runs |-> "none"]
  /\ done = [r \in Runs |-> {}]

Open(r) ==
  /\ status[r] \in {"none", "failed"}
  /\ status' = [status EXCEPT ![r] = "running"]
  /\ done' = [done EXCEPT ![r] = {}]

Work(r, s) ==
  /\ status[r] = "running"
  /\ done[r] = {t \in Steps : t < s}
  /\ done' = [done EXCEPT ![r] = @ \cup {s}]
  /\ UNCHANGED status

Succeed(r) ==
  /\ status[r] = "running" /\ done[r] = Steps
  /\ status' = [status EXCEPT ![r] = "success"]
  /\ UNCHANGED done

Fail(r) ==
  /\ status[r] = "running"
  /\ status' = [status EXCEPT ![r] = "failed"]
  /\ UNCHANGED done

Advance(r) == (\E s \in Steps : Work(r, s)) \/ Succeed(r) \/ Fail(r)

Next == \E r \in Runs : Open(r) \/ Advance(r)

(* A run that is open keeps advancing, so it ends.                         *)
Spec == Init /\ [][Next]_vars /\ \A r \in Runs : WF_vars(Advance(r))
=============================================================================
