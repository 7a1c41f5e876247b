------------------------------- MODULE Sessions -------------------------------
(***************************************************************************)
(* The login sessions and the password of one user: login, which rotates   *)
(* the refresh token of an active session or creates a session,            *)
(* refresh_session, logout_reset and reset_password.  Each call   *)
(* is a transaction that reads what is committed and writes later; what it *)
(* writes is seen at its commit.                                           *)
(***************************************************************************)
EXTENDS Naturals, FiniteSets

CONSTANTS
  Calls,        \* concurrent calls of login and refresh_session
  Resets,       \* concurrent calls of reset_password
  Links,        \* reset links; each request_reset draws a fresh one
  MaxSessions,  \* bound: sessions
  MaxRefresh     \* bound: refresh tokens

ASSUME SessionAssumption == {MaxSessions, MaxRefresh} \subseteq Nat

Sids == 1 .. MaxSessions
Tids == 1 .. MaxRefresh

VARIABLES
  session,    \* sessions: "none", "active", "lapsed" (active, past its two
              \* hours) or "inactive"
  refresh,      \* refresh_tokens, session 0 for a row not inserted yet
  call,       \* per call of login or refresh_session, what it has read
  link,       \* password_reset_tokens: "none", "live", "used" or "dead"
  reset,      \* per call of reset_password, what it has read
  ended,      \* history: sessions that a reset which committed had to end
  changes,    \* history: per link, the password changes made with it
  shared,     \* history: links that two resets held at the same time
  twice       \* history: sessions with a token that was rotated twice

tableVars == <<session, refresh, twice>>
resetVars == <<link, reset, ended, changes, shared>>
sessionVars == <<session, refresh, call, link, reset, ended, changes, shared, twice>>

NoRow == [sid |-> 0, used |-> FALSE, revoked |-> FALSE]
AtRest == [at |-> "rest", tid |-> 0]
NoLink == "none"
Idle == [at |-> "rest", link |-> NoLink, known |-> {}, ends |-> {}]

SessionsInit ==
  /\ session = [s \in Sids |-> "none"]
  /\ refresh = [t \in Tids |-> NoRow]
  /\ call = [c \in Calls |-> AtRest]
  /\ link = [l \in Links |-> "none"]
  /\ reset = [r \in Resets |-> Idle]
  /\ ended = {} /\ shared = {} /\ twice = {}
  /\ changes = [l \in Links |-> 0]

(* v_active_sessions, by the token of each row *)
View ==
  {t \in Tids : /\ refresh[t].sid # 0 /\ ~refresh[t].used /\ ~refresh[t].revoked
                /\ session[refresh[t].sid] = "active"}

Usable(s) == {t \in View : refresh[t].sid = s}

FreeSids == {s \in Sids : session[s] = "none"}
FreeTids == {t \in Tids : refresh[t].sid = 0}
Some(S) == CHOOSE x \in S : TRUE

-----------------------------------------------------------------------------
Rotating(c, t) ==
  call' = [call EXCEPT ![c] = [at |-> "rotate", tid |-> t]]

(* login: once authenticated, it takes any active session that             *)
(* get_by_user_id returns, or creates one *)
LoginReads(c) ==
  /\ call[c] = AtRest
  /\ \/ \E t \in View : Rotating(c, t)
     \/ View = {} /\ call' = [call EXCEPT ![c].at = "create"]
  /\ UNCHANGED <<tableVars, resetVars>>

(* refresh_session: validate_session_credentials, else SessionNotFound     *)
RefreshReads(c, s) ==
  /\ call[c] = AtRest
  /\ \E t \in Usable(s) : Rotating(c, t)
  /\ UNCHANGED <<tableVars, resetVars>>

SessionOf(c) == refresh[call[c].tid].sid

UseWholeSession(tok, c) ==
  [t \in Tids |-> IF tok[t].sid = SessionOf(c) THEN [tok[t] EXCEPT !.used = TRUE]
                                              ELSE tok[t]]
UseOld(tok, c) == [tok EXCEPT ![call[c].tid].used = TRUE]

Issue(tok, s) ==
  [tok EXCEPT ![Some(FreeTids)] = [sid |-> s, used |-> FALSE, revoked |-> FALSE]]

(* rotate_refresh_token *)
RotateToken(c) ==
  /\ call[c].at = "rotate" /\ FreeTids # {}
  /\ refresh' = UseOld(Issue(refresh, SessionOf(c)), c)
  /\ twice' = IF refresh[call[c].tid].used THEN twice \cup {SessionOf(c)} ELSE twice
  /\ call' = [call EXCEPT ![c] = AtRest]
  /\ UNCHANGED <<session, resetVars>>

CreateTokenOnly(c) ==
  /\ call[c].at = "create" /\ FreeSids # {} /\ FreeTids # {}
  /\ refresh' = Issue(refresh, Some(FreeSids))
  /\ call' = [call EXCEPT ![c] = AtRest]
  /\ UNCHANGED <<session, twice, resetVars>>

(* insert_add_token *)
Create(c) ==
  /\ call[c].at = "create" /\ FreeSids # {} /\ FreeTids # {}
  /\ session' = [session EXCEPT ![Some(FreeSids)] = "active"]
  /\ refresh' = Issue(refresh, Some(FreeSids))
  /\ call' = [call EXCEPT ![c] = AtRest]
  /\ UNCHANGED <<twice, resetVars>>

(* a call raises or dies; its transaction is rolled back                   *)
CallFails(c) ==
  /\ call[c] # AtRest
  /\ call' = [call EXCEPT ![c] = AtRest]
  /\ UNCHANGED <<tableVars, resetVars>>

RevokeTokens(S) ==
  refresh' = [t \in Tids |-> IF refresh[t].sid \in S THEN [refresh[t] EXCEPT !.revoked = TRUE]
                                                 ELSE refresh[t]]

RevokeOnly(S) == RevokeTokens(S) /\ UNCHANGED session

(* inactivate_session, for each of the sessions S                          *)
Inactivate(S) ==
  /\ session' = [s \in Sids |-> IF s \in S THEN "inactive" ELSE session[s]]
  /\ RevokeTokens(S)

(* logout and delete_session, for whatever session id the caller has       *)
Logout(s) ==
  /\ session[s] # "none"
  /\ Inactivate({s})
  /\ UNCHANGED <<twice, call, resetVars>>

(* two hours on *)
Lapse(s) ==
  /\ session[s] = "active"
  /\ session' = [session EXCEPT ![s] = "lapsed"]
  /\ UNCHANGED <<refresh, twice, call, resetVars>>

-----------------------------------------------------------------------------
(* invalidate_for_user deletes the live links it sees: not the one of a    *)
(* request that has not committed yet *)
DeleteSeen(live) == SUBSET live

(* request_reset: the old links are deleted and one is created and mailed  *)
RequestReset(l) ==
  /\ link[l] = "none"
  /\ \E seen \in DeleteSeen({k \in Links : link[k] = "live"}) :
       link' = [k \in Links |-> CASE k = l -> "live" [] k \in seen -> "dead"
                                 [] OTHER -> link[k]]
  /\ UNCHANGED <<tableVars, call, reset, ended, changes, shared>>

(* thirty minutes on *)
LinkExpires(l) ==
  /\ link[l] = "live"
  /\ link' = [link EXCEPT ![l] = "dead"]
  /\ UNCHANGED <<tableVars, call, reset, ended, changes, shared>>

(* reset_password: get_by_token_hash, else InvalidResetTokenError          *)
ResetReads(r, l) ==
  /\ reset[r] = Idle /\ link[l] = "live"
  /\ reset' = [reset EXCEPT ![r] = [at |-> "read", link |-> l, known |-> {}, ends |-> {}]]
  /\ shared' = IF \E o \in Resets \ {r} : reset[o].link = l THEN shared \cup {l} ELSE shared
  /\ UNCHANGED <<tableVars, call, link, ended, changes>>

(* invalidate_all_for_user: the sessions it reads                          *)
EndsAll == {s \in Sids : Usable(s) # {}}

(* update_password waits for the row of the user, then mark_used           *)
ResetWrites(r) ==
  /\ reset[r].at = "read" /\ \A o \in Resets : reset[o].at # "written"
  /\ reset' = [reset EXCEPT ![r] =
                [at |-> "written", link |-> reset[r].link, ends |-> EndsAll,
                 known |-> {s \in Sids : session[s] # "none"}]]
  /\ UNCHANGED <<tableVars, call, link, ended, changes, shared>>

MarkUsed(l) == link' = IF link[l] = "dead" THEN link ELSE [link EXCEPT ![l] = "used"]

ResetCommits(r) ==
  /\ reset[r].at = "written"
  /\ MarkUsed(reset[r].link)
  /\ Inactivate(reset[r].ends)
  /\ changes' = [changes EXCEPT ![reset[r].link] = changes[reset[r].link] + 1]
  /\ reset' = [reset EXCEPT ![r] = Idle]
  /\ ended' = ended \cup reset[r].known
  /\ UNCHANGED <<twice, call, shared>>

ResetFails(r) ==
  /\ reset[r] # Idle
  /\ reset' = [reset EXCEPT ![r] = Idle]
  /\ UNCHANGED <<tableVars, call, link, ended, changes, shared>>

SessionsNext ==
  \/ \E c \in Calls :
       LoginReads(c) \/ RotateToken(c) \/ Create(c) \/ CallFails(c)
  \/ \E c \in Calls, s \in Sids : RefreshReads(c, s)
  \/ \E s \in Sids : Logout(s) \/ Lapse(s)
  \/ \E l \in Links : RequestReset(l) \/ LinkExpires(l)
  \/ \E r \in Resets : \/ ResetWrites(r) \/ ResetCommits(r) \/ ResetFails(r)
                       \/ \E l \in Links : ResetReads(r, l)

SessionsSpec == SessionsInit /\ [][SessionsNext]_sessionVars

-----------------------------------------------------------------------------
(* Every variable has its type; a token belongs to a session that exists.  *)
SessionsTypeOK ==
  /\ session \in [Sids -> {"none", "active", "lapsed", "inactive"}]
  /\ refresh \in [Tids -> [sid : Sids \cup {0}, used : BOOLEAN, revoked : BOOLEAN]]
  /\ \A t \in Tids : refresh[t].sid # 0 => session[refresh[t].sid] # "none"
  /\ call \in [Calls -> [at : {"rest", "rotate", "create"}, tid : Tids \cup {0}]]
  /\ link \in [Links -> {"none", "live", "used", "dead"}]
  /\ reset \in [Resets -> [at : {"rest", "read", "written"}, link : Links \cup {NoLink},
                           known : SUBSET Sids, ends : SUBSET Sids]]
  /\ changes \in [Links -> Nat]
  /\ shared \subseteq Links /\ ended \cup twice \subseteq Sids

(* A session that was logged out or ran out never comes back, not even     *)
(* through a rotation that had read it as active and commits afterwards. *)
LoggedOutStaysOut ==
  [][\A s \in Sids : session[s] # "none" /\ Usable(s) = {} => Usable(s)' = {}]_sessionVars

(* An active session keeps a refresh token that works, whatever logins and *)
(* refreshes rotate at the same time. *)
ActiveHasToken ==
  \A s \in Sids : session[s] = "active" => Usable(s) # {}

(* A session has more than one refresh token that works only if two calls  *)
(* rotated the same one: the second finds it used and issues another.      *)
OneTokenPerSession ==
  \A s \in Sids \ twice : Cardinality(Usable(s)) <= 1

(* A password reset ends every session that exists when it changes the     *)
(* password.  Only a session that a login commits after the reset has read *)
(* the list survives it. *)
ResetEndsSessions == \A s \in ended : Usable(s) = {}

(* "One-time reset token": a link changes the password once, unless two    *)
(* resets had read it as unused before either committed.                   *)
LinkWorksOnce == \A l \in Links \ shared : changes[l] <= 1

(* Whatever logins, refreshes, logouts and resets run at the same time: an *)
(* active session keeps a refresh token that works, and more than one only *)
(* if two calls rotated the same; a password reset ends every session that *)
(* exists when it changes the password, and a link changes it once, unless *)
(* two resets had both read it as unused. *)
SessionsHold == ActiveHasToken /\ OneTokenPerSession /\ ResetEndsSessions /\ LinkWorksOnce
=============================================================================
