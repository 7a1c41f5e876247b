------------------------------- MODULE UserRoles -------------------------------
(***************************************************************************)
(* Accounts and the roles of users, with the log that a trigger keeps of   *)
(* the changes of roles.  Each operation is one service, in a transaction. *)
(***************************************************************************)
EXTENDS Naturals, Sequences

CONSTANTS
  People,      \* whoever has an account or may register one
  Registered,  \* those with an account at first
  Admins       \* those who are admin at first

ASSUME UserAssumption == Admins \subseteq Registered /\ Registered \subseteq People

VARIABLES
  account,   \* users: "none", "active" or "disabled"
  admins,    \* the user_roles rows of the role admin, by user
  roleLog    \* user_role_audit_logs: whose role was changed, how and by whom

userVars == <<account, admins, roleLog>>

UserInit ==
  /\ account = [p \in People |-> IF p \in Registered THEN "active" ELSE "none"]
  /\ admins = Admins
  /\ roleLog = << >>

(* is_admin: the view has the role of a user who is not disabled, whatever *)
(* expires_at and effective_from say *)
IsAdmin(p) == p \in admins /\ account[p] # "disabled"

(* register: the username and the email are UNIQUE                         *)
Register(p) ==
  /\ account[p] = "none"
  /\ account' = [account EXCEPT ![p] = "active"]
  /\ UNCHANGED <<admins, roleLog>>

(* delete_user is a soft delete; the trigger on disabled logs who did it,  *)
(* which nothing has told it, and that column is NOT NULL: it fails unless *)
(* it changes nothing *)
DeleteUser(p) ==
  /\ account[p] # "active"
  /\ UNCHANGED userVars

(* an operator disables an account, or enables it again, with SQL          *)
Switch(p) ==
  /\ account[p] # "none"
  /\ account' = [account EXCEPT ![p] = IF @ = "active" THEN "disabled" ELSE "active"]
  /\ UNCHANGED <<admins, roleLog>>

Recorded(p, change, by) == Append(roleLog, [user |-> p, change |-> change, by |-> by])

(* assign_role: the user must exist and not have the role                  *)
Assign(p, by) ==
  /\ account[p] # "none" /\ p \notin admins
  /\ admins' = admins \cup {p}
  /\ roleLog' = Recorded(p, "assigned", by)
  /\ UNCHANGED account

(* revoke_role: no error when there was nothing to delete, nor a log entry *)
Revoke(p, by) ==
  IF p \in admins
  THEN /\ admins' = admins \ {p}
       /\ roleLog' = Recorded(p, "removed", by)
       /\ UNCHANGED account
  ELSE UNCHANGED userVars

-----------------------------------------------------------------------------
Changes == [user : People, change : {"assigned", "removed"}, by : People]

(* Every variable has its type.                                            *)
UserTypeOK ==
  /\ admins \subseteq People /\ account \in [People -> {"none", "active", "disabled"}]
  /\ roleLog \in Seq(Changes)

(* The log of the role changes explains who is admin: the last change of a *)
(* user's role, or else what the user was at first.                        *)
ChangesOf(p) == {i \in DOMAIN roleLog : roleLog[i].user = p}
LastOf(p, i) == i \in ChangesOf(p) /\ \A j \in ChangesOf(p) : j <= i
LogExplainsRoles ==
  \A p \in People :
    /\ ChangesOf(p) = {} => (p \in admins <=> p \in Admins)
    /\ \A i \in DOMAIN roleLog :
         LastOf(p, i) => (p \in admins <=> roleLog[i].change = "assigned")
=============================================================================
