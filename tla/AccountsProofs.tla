---------------------------- MODULE AccountsProofs ----------------------------
(* Theorems about what belongs to a user: Sessions, EbayTokens, Articles,    *)
(* EbayConsent, Collections and ApiRequests, and MCAccounts composed of them. *)
EXTENDS MCAccounts, FiniteSetTheorems, SequenceTheorems, TLAPS

-----------------------------------------------------------------------------
(***************************************************************************)
(* Proofs about Sessions, for every number of sessions, tokens, links and  *)
(* concurrent calls.  A call writes from what it has read before others    *)
(* wrote, so the invariant says what of a reading is still true at the     *)
(* write: the token a call rotates belongs to a session, and a session     *)
(* that a reset knows of and does not end can never be active again.       *)
(***************************************************************************)
Over == {"lapsed", "inactive"}

(* What a rotation has read: the row of a token that exists.               *)
CallInv ==
  \A c \in Calls : call[c].at = "rotate" =>
    call[c].tid \in Tids /\ refresh[call[c].tid].sid # 0

(* Only an inactive session has revoked tokens.                            *)
RevokedInv ==
  \A t \in Tids : refresh[t].revoked =>
    refresh[t].sid # 0 /\ session[refresh[t].sid] = "inactive"

OneUsable == \A s \in Sids \ twice : \A t, u \in Usable(s) : t = u

(* The sessions that resets had to end are over.                           *)
EndedInv == \A s \in ended : session[s] \in Over

(* What a reset has written: each session it knows of exists, and is over  *)
(* unless it ends it.                                                      *)
KnownInv ==
  \A r \in Resets : reset[r].at = "written" =>
    \A s \in reset[r].known \ reset[r].ends : session[s] \in Over

Holds(r, l) == reset[r].at # "rest" /\ reset[r].link = l

(* A link that only one reset held at a time is held before it changes the *)
(* password, and not readable after.                                       *)
LinkInv ==
  /\ \A r \in Resets : reset[r].at # "rest" =>
       reset[r].link \in Links /\ link[reset[r].link] # "none"
  /\ \A l \in Links : link[l] \in {"none", "live"} => changes[l] = 0
  /\ \A l \in Links \ shared :
       /\ changes[l] <= 1
       /\ \A r \in Resets : Holds(r, l) => changes[l] = 0
       /\ \A r, o \in Resets : Holds(r, l) /\ Holds(o, l) => r = o

SessionsInv ==
  /\ SessionsTypeOK /\ ActiveHasToken /\ CallInv /\ RevokedInv
  /\ OneUsable /\ EndedInv /\ KnownInv /\ LinkInv

-----------------------------------------------------------------------------
LEMMA SomeFits == ASSUME NEW S, S # {} PROVE Some(S) \in S
  BY DEF Some

LEMMA SidsArePositive == 0 \notin Sids
  BY SessionAssumption DEF Sids

LEMMA SessionsInitHolds == SessionsInit => SessionsInv
<1> SUFFICES ASSUME SessionsInit PROVE SessionsInv
  OBVIOUS
<1>1. SessionsTypeOK
  BY DEF SessionsInit, SessionsTypeOK, NoRow, AtRest, Idle, NoLink
<1>2. \A s \in Sids : Usable(s) = {} /\ session[s] # "active"
  BY DEF SessionsInit, Usable, View, NoRow
<1>3. ActiveHasToken /\ OneUsable
  BY <1>2 DEF ActiveHasToken, OneUsable
<1>4. CallInv /\ RevokedInv
  BY DEF SessionsInit, CallInv, RevokedInv, AtRest, NoRow
<1>5. EndedInv /\ KnownInv /\ LinkInv
  BY DEF SessionsInit, EndedInv, KnownInv, LinkInv, Holds, Idle
<1> QED BY <1>1, <1>3, <1>4, <1>5 DEF SessionsInv

(* The parts of the invariant about the tables stay when these do.         *)
LEMMA TablesStay ==
  ASSUME SessionsInv, UNCHANGED tableVars
  PROVE  ActiveHasToken' /\ RevokedInv' /\ OneUsable'
<1>1. UNCHANGED <<session, refresh, twice>>
  BY DEF tableVars
<1>2. \A s \in Sids : Usable(s)' = Usable(s)
  BY <1>1 DEF Usable, View
<1> QED BY <1>1, <1>2 DEF SessionsInv, ActiveHasToken, RevokedInv, OneUsable

(* The parts about the resets stay when these do and no session that is    *)
(* over comes back.                                                        *)
LEMMA ResetsStay ==
  ASSUME SessionsInv, UNCHANGED resetVars,
         \A s \in Sids : session[s] \in Over => session'[s] \in Over
  PROVE  EndedInv' /\ KnownInv' /\ LinkInv'
<1>1. UNCHANGED <<link, reset, ended, changes, shared>>
  BY DEF resetVars
<1>2. EndedInv'
  BY <1>1 DEF SessionsInv, EndedInv, SessionsTypeOK
<1>3. KnownInv'
  BY <1>1 DEF SessionsInv, KnownInv, SessionsTypeOK
<1>4. LinkInv'
  BY <1>1 DEF SessionsInv, LinkInv, Holds
<1> QED BY <1>2, <1>3, <1>4

(* A call that only reads changes nothing but what it has read.            *)
LEMMA ReadingKeeps ==
  ASSUME SessionsInv, NEW c \in Calls,
         \/ LoginReads(c)
         \/ \E s \in Sids : RefreshReads(c, s)
         \/ CallFails(c)
  PROVE  SessionsInv'
<1>1. UNCHANGED tableVars /\ UNCHANGED resetVars
  BY DEF LoginReads, RefreshReads, CallFails
<1>2. UNCHANGED <<session, refresh, twice, link, reset, ended, changes, shared>>
  BY <1>1 DEF tableVars, resetVars
<1>3. \/ \E t \in View : call' = [call EXCEPT ![c] = [at |-> "rotate", tid |-> t]]
      \/ call[c] = AtRest /\ call' = [call EXCEPT ![c].at = "create"]
      \/ call' = [call EXCEPT ![c] = AtRest]
  BY DEF LoginReads, RefreshReads, CallFails, Rotating, Usable
<1>4. SessionsTypeOK'
  <2>1. CASE \E t \in View : call' = [call EXCEPT ![c] = [at |-> "rotate", tid |-> t]]
    BY <1>2, <2>1 DEF SessionsInv, SessionsTypeOK, View
  <2>2. CASE call[c] = AtRest /\ call' = [call EXCEPT ![c].at = "create"]
    BY <1>2, <2>2 DEF SessionsInv, SessionsTypeOK, AtRest
  <2>3. CASE call' = [call EXCEPT ![c] = AtRest]
    BY <1>2, <2>3 DEF SessionsInv, SessionsTypeOK, AtRest
  <2> QED BY <1>3, <2>1, <2>2, <2>3
<1>5. CallInv'
  BY <1>2, <1>3 DEF SessionsInv, SessionsTypeOK, CallInv, View, AtRest
<1> QED BY <1>1, <1>2, <1>4, <1>5, TablesStay, ResetsStay DEF SessionsInv

-----------------------------------------------------------------------------
(* A new row goes to a free token, which no call has read.                 *)
LEMMA Issued ==
  ASSUME SessionsInv, FreeTids # {}, NEW s \in Sids
  PROVE  /\ Some(FreeTids) \in Tids /\ refresh[Some(FreeTids)].sid = 0
         /\ Issue(refresh, s) = [refresh EXCEPT ![Some(FreeTids)] =
                                   [sid |-> s, used |-> FALSE, revoked |-> FALSE]]
<1>1. Some(FreeTids) \in FreeTids
  BY SomeFits
<1> QED BY <1>1 DEF FreeTids, Issue

LEMMA RotateKeeps ==
  ASSUME SessionsInv, NEW c \in Calls, RotateToken(c)
  PROVE  SessionsInv'
<1>1. PICK old \in Tids, mine \in Sids :
        old = call[c].tid /\ refresh[old].sid = mine /\ mine = SessionOf(c)
  BY DEF RotateToken, SessionOf, SessionsInv, CallInv, SessionsTypeOK
<1>2. PICK new \in Tids : new = Some(FreeTids) /\ refresh[new].sid = 0 /\ new # old
  BY <1>1, Issued, SidsArePositive DEF RotateToken
<1>3. refresh' = [t \in Tids |->
        CASE t = new -> [sid |-> mine, used |-> FALSE, revoked |-> FALSE]
          [] t = old -> [refresh[old] EXCEPT !.used = TRUE]
          [] OTHER -> refresh[t]]
  <2> DEFINE row == [sid |-> mine, used |-> FALSE, revoked |-> FALSE]
             granted == [refresh EXCEPT ![new] = row]
  <2>1. Issue(refresh, mine) = granted
    BY <1>2, Issued DEF RotateToken
  <2>2. refresh' = [granted EXCEPT ![old] = [granted[old] EXCEPT !.used = TRUE]]
    BY <1>1, <2>1 DEF RotateToken, UseOld
  <2>3. refresh = [t \in Tids |-> refresh[t]]
    BY DEF SessionsInv, SessionsTypeOK
  <2>4. granted = [t \in Tids |-> IF t = new THEN row ELSE refresh[t]]
    BY <2>3, Zenon
  <2> QED BY <1>2, <2>2, <2>4, Zenon
<1>4. /\ UNCHANGED session /\ UNCHANGED resetVars
      /\ twice' = IF refresh[old].used THEN twice \cup {mine} ELSE twice
      /\ call' = [call EXCEPT ![c] = AtRest]
  BY <1>1 DEF RotateToken
<1>5. refresh' \in [Tids -> [sid : Sids \cup {0}, used : BOOLEAN, revoked : BOOLEAN]]
  <2>1. refresh[old] \in [sid : Sids \cup {0}, used : BOOLEAN, revoked : BOOLEAN]
    BY <1>1 DEF SessionsInv, SessionsTypeOK
  <2>2. [refresh[old] EXCEPT !.used = TRUE] \in [sid : Sids \cup {0}, used : BOOLEAN, revoked : BOOLEAN]
    BY <2>1
  <2> QED BY <1>1, <1>2, <1>3, <2>2 DEF SessionsInv, SessionsTypeOK
<1>6. /\ refresh'[new].sid = mine /\ ~refresh'[new].used /\ ~refresh'[new].revoked
      /\ \A t \in Tids \ {new} : /\ refresh'[t].sid = refresh[t].sid
                                 /\ refresh'[t].revoked = refresh[t].revoked
      /\ refresh'[old].used
      /\ \A t \in Tids \ {new, old} : refresh'[t] = refresh[t]
  <2>1. /\ [refresh[old] EXCEPT !.used = TRUE].sid = refresh[old].sid
        /\ [refresh[old] EXCEPT !.used = TRUE].revoked = refresh[old].revoked
        /\ [refresh[old] EXCEPT !.used = TRUE].used = TRUE
    BY <1>1 DEF SessionsInv, SessionsTypeOK
  <2> QED BY <1>1, <1>2, <1>3, <2>1
<1>7. SessionsTypeOK'
  <2>1. \A t \in Tids : refresh'[t].sid # 0 => session'[refresh'[t].sid] # "none"
    BY <1>1, <1>2, <1>4, <1>6, SidsArePositive DEF SessionsInv, SessionsTypeOK
  <2>2. UNCHANGED <<link, reset, ended, changes, shared>>
    BY <1>4 DEF resetVars
  <2> QED BY <1>1, <1>4, <1>5, <2>1, <2>2 DEF SessionsInv, SessionsTypeOK, AtRest
<1>8. CallInv'
  <2> SUFFICES ASSUME NEW d \in Calls, call'[d].at = "rotate"
               PROVE  call'[d].tid \in Tids /\ refresh'[call'[d].tid].sid # 0
    BY DEF CallInv
  <2>1. call'[d] = call[d]
    BY <1>4 DEF AtRest, SessionsInv, SessionsTypeOK
  <2>2. call[d].tid \in Tids /\ refresh[call[d].tid].sid # 0
    BY <2>1 DEF SessionsInv, CallInv
  <2> QED BY <1>2, <1>6, <2>1, <2>2
<1>9. RevokedInv'
  BY <1>1, <1>2, <1>4, <1>6 DEF SessionsInv, RevokedInv
<1>10. \A s \in Sids \ {mine} : Usable(s)' = Usable(s)
  <2> SUFFICES ASSUME NEW s \in Sids, s # mine, NEW t \in Tids
               PROVE  t \in Usable(s)' <=> t \in Usable(s)
    BY DEF Usable, View
  <2>1. t = new => t \notin Usable(s)' /\ t \notin Usable(s)
    BY <1>2, <1>6, SidsArePositive DEF Usable, View
  <2>2. t = old => t \notin Usable(s)' /\ t \notin Usable(s)
    BY <1>1, <1>2, <1>6 DEF Usable, View
  <2>3. t \notin {new, old} => (t \in Usable(s)' <=> t \in Usable(s))
    BY <1>4, <1>6 DEF Usable, View
  <2> QED BY <2>1, <2>2, <2>3
<1>11. session[mine] = "active" => new \in Usable(mine)'
  BY <1>1, <1>2, <1>4, <1>6, SidsArePositive DEF Usable, View
<1>12. Usable(mine)' \subseteq (Usable(mine) \ {old}) \cup {new}
  BY <1>4, <1>6 DEF Usable, View
<1>13. ActiveHasToken'
  <2> SUFFICES ASSUME NEW s \in Sids, session'[s] = "active"
               PROVE  Usable(s)' # {}
    BY DEF ActiveHasToken
  <2>1. CASE s = mine
    BY <1>4, <1>11, <2>1
  <2>2. CASE s # mine
    BY <1>4, <1>10, <2>2 DEF SessionsInv, ActiveHasToken
  <2> QED BY <2>1, <2>2
<1>14. OneUsable'
  <2> SUFFICES ASSUME NEW s \in Sids, s \notin twice', NEW t \in Usable(s)', NEW u \in Usable(s)'
               PROVE  t = u
    BY DEF OneUsable
  <2>1. s \notin twice
    BY <1>4
  <2>2. CASE s # mine
    <3>1. t \in Usable(s) /\ u \in Usable(s)
      BY <1>10, <2>2
    <3> QED BY <2>1, <3>1 DEF SessionsInv, OneUsable
  <2>3. CASE s = mine
    <3>1. ~refresh[old].used /\ session[mine] = "active"
      BY <1>4, <2>3 DEF Usable, View
    <3>2. old \in Usable(mine)
      BY <1>1, <3>1, SidsArePositive DEF Usable, View, SessionsInv, RevokedInv
    <3>3. \A x \in Usable(mine) : x = old
      BY <2>1, <2>3, <3>2, <1>1 DEF SessionsInv, OneUsable
    <3> QED BY <1>12, <2>3, <3>3
  <2> QED BY <2>2, <2>3
<1> QED
  BY <1>4, <1>7, <1>8, <1>9, <1>13, <1>14, ResetsStay DEF SessionsInv

LEMMA CreateKeeps ==
  ASSUME SessionsInv, NEW c \in Calls, Create(c)
  PROVE  SessionsInv'
<1>1. PICK mine \in Sids : mine = Some(FreeSids) /\ session[mine] = "none"
  BY SomeFits DEF Create, FreeSids
<1>2. PICK new \in Tids : new = Some(FreeTids) /\ refresh[new].sid = 0
  BY <1>1, Issued DEF Create
<1>3. refresh' = [refresh EXCEPT ![new] = [sid |-> mine, used |-> FALSE, revoked |-> FALSE]]
  BY <1>1, <1>2, Issued DEF Create
<1>4. /\ session' = [session EXCEPT ![mine] = "active"]
      /\ twice' = twice /\ UNCHANGED resetVars
      /\ call' = [call EXCEPT ![c] = AtRest]
  BY <1>1 DEF Create
<1>5. /\ refresh' \in [Tids -> [sid : Sids \cup {0}, used : BOOLEAN, revoked : BOOLEAN]]
      /\ refresh'[new].sid = mine /\ ~refresh'[new].used /\ ~refresh'[new].revoked
      /\ \A t \in Tids \ {new} : refresh'[t] = refresh[t]
  BY <1>1, <1>2, <1>3 DEF SessionsInv, SessionsTypeOK
<1>6. /\ session'[mine] = "active"
      /\ \A s \in Sids \ {mine} : session'[s] = session[s]
      /\ session' \in [Sids -> {"none", "active", "lapsed", "inactive"}]
  BY <1>1, <1>4 DEF SessionsInv, SessionsTypeOK
<1>7. \A t \in Tids : refresh[t].sid # mine
  BY <1>1, SidsArePositive DEF SessionsInv, SessionsTypeOK
<1>8. SessionsTypeOK'
  <2>1. \A t \in Tids : refresh'[t].sid # 0 => session'[refresh'[t].sid] # "none"
    BY <1>1, <1>5, <1>6, <1>7, SidsArePositive DEF SessionsInv, SessionsTypeOK
  <2>2. UNCHANGED <<link, reset, ended, changes, shared>>
    BY <1>4 DEF resetVars
  <2> QED BY <1>4, <1>5, <1>6, <2>1, <2>2 DEF SessionsInv, SessionsTypeOK, AtRest
<1>9. CallInv'
  <2> SUFFICES ASSUME NEW d \in Calls, call'[d].at = "rotate"
               PROVE  call'[d].tid \in Tids /\ refresh'[call'[d].tid].sid # 0
    BY DEF CallInv
  <2>1. call'[d] = call[d]
    BY <1>4 DEF AtRest, SessionsInv, SessionsTypeOK
  <2>2. call[d].tid \in Tids /\ refresh[call[d].tid].sid # 0
    BY <2>1 DEF SessionsInv, CallInv
  <2> QED BY <1>2, <1>5, <2>1, <2>2
<1>10. RevokedInv'
  <2> SUFFICES ASSUME NEW t \in Tids, refresh'[t].revoked
               PROVE  refresh'[t].sid # 0 /\ session'[refresh'[t].sid] = "inactive"
    BY DEF RevokedInv
  <2>1. refresh'[t] = refresh[t]
    BY <1>5
  <2>2. refresh[t].sid \in Sids /\ session[refresh[t].sid] = "inactive"
    BY <2>1 DEF SessionsInv, SessionsTypeOK, RevokedInv
  <2> QED BY <1>6, <1>7, <2>1, <2>2, SidsArePositive
<1>11. \A s \in Sids \ {mine} : Usable(s)' = Usable(s)
  <2> SUFFICES ASSUME NEW s \in Sids, s # mine, NEW t \in Tids
               PROVE  t \in Usable(s)' <=> t \in Usable(s)
    BY DEF Usable, View
  <2>1. t = new => t \notin Usable(s)' /\ t \notin Usable(s)
    BY <1>2, <1>5, SidsArePositive DEF Usable, View
  <2>2. t # new => (t \in Usable(s)' <=> t \in Usable(s))
    BY <1>5, <1>6 DEF Usable, View
  <2> QED BY <2>1, <2>2
<1>12. Usable(mine)' = {new}
  <2>1. new \in Usable(mine)'
    BY <1>5, <1>6, SidsArePositive DEF Usable, View
  <2>2. \A t \in Usable(mine)' : t = new
    BY <1>5, <1>7 DEF Usable, View
  <2> QED BY <2>1, <2>2
<1>13. ActiveHasToken'
  BY <1>6, <1>11, <1>12 DEF SessionsInv, ActiveHasToken
<1>14. OneUsable'
  BY <1>4, <1>11, <1>12 DEF SessionsInv, OneUsable
<1>15. \A s \in Sids : session[s] \in Over => session'[s] \in Over
  BY <1>1, <1>6 DEF Over
<1> QED
  BY <1>4, <1>8, <1>9, <1>10, <1>13, <1>14, <1>15, ResetsStay DEF SessionsInv

-----------------------------------------------------------------------------
(* Sessions that are made inactive, or that lapse, lose their usable       *)
(* tokens; those of the others are as before.                              *)
LEMMA EndingKeeps ==
  ASSUME SessionsInv, NEW S \in SUBSET Sids, call' = call, twice' = twice,
         \/ Inactivate(S)
         \/ /\ UNCHANGED refresh
            /\ \A s \in S : session[s] = "active"
            /\ session' = [s \in Sids |-> IF s \in S THEN "lapsed" ELSE session[s]]
  PROVE  /\ session' \in [Sids -> {"none", "active", "lapsed", "inactive"}]
         /\ refresh' \in [Tids -> [sid : Sids \cup {0}, used : BOOLEAN, revoked : BOOLEAN]]
         /\ \A t \in Tids : refresh'[t].sid # 0 => session'[refresh'[t].sid] # "none"
         /\ ActiveHasToken' /\ CallInv' /\ RevokedInv' /\ OneUsable'
         /\ \A s \in S : session'[s] \in Over
         /\ \A s \in Sids : session[s] \in Over => session'[s] \in Over
<1>1. /\ session' \in [Sids -> {"none", "active", "lapsed", "inactive"}]
      /\ \A s \in Sids \ S : session'[s] = session[s]
      /\ \A s \in S : session'[s] \in Over
  BY DEF Inactivate, SessionsInv, SessionsTypeOK, Over
<1>2. /\ refresh' \in [Tids -> [sid : Sids \cup {0}, used : BOOLEAN, revoked : BOOLEAN]]
      /\ \A t \in Tids : /\ refresh'[t].sid = refresh[t].sid
                         /\ refresh'[t].used = refresh[t].used
                         /\ refresh[t].sid \notin S => refresh'[t].revoked = refresh[t].revoked
  <2> DEFINE row(t) == [refresh[t] EXCEPT !.revoked = TRUE]
  <2>1. CASE Inactivate(S)
    <3>1. \A t \in Tids :
            /\ row(t) \in [sid : Sids \cup {0}, used : BOOLEAN, revoked : BOOLEAN]
            /\ row(t).sid = refresh[t].sid /\ row(t).used = refresh[t].used
      <4> TAKE t \in Tids
      <4>1. refresh[t] \in [sid : Sids \cup {0}, used : BOOLEAN, revoked : BOOLEAN]
        BY DEF SessionsInv, SessionsTypeOK
      <4> QED BY <4>1
    <3>2. refresh' = [t \in Tids |-> IF refresh[t].sid \in S THEN row(t) ELSE refresh[t]]
      BY <2>1 DEF Inactivate, RevokeTokens
    <3> HIDE DEF row
    <3> QED BY <3>1, <3>2 DEF SessionsInv, SessionsTypeOK
  <2>2. CASE UNCHANGED refresh
    BY <2>2 DEF SessionsInv, SessionsTypeOK
  <2> QED BY <2>1, <2>2
<1>3. \A t \in Tids : refresh'[t].sid # 0 => session'[refresh'[t].sid] # "none"
  <2> SUFFICES ASSUME NEW t \in Tids, refresh[t].sid # 0
               PROVE  session'[refresh[t].sid] # "none"
    BY <1>2
  <2>1. refresh[t].sid \in Sids /\ session[refresh[t].sid] # "none"
    BY DEF SessionsInv, SessionsTypeOK
  <2> QED BY <1>1, <2>1 DEF Over
<1>4. \A s \in Sids \ S : Usable(s)' = Usable(s)
  <2> SUFFICES ASSUME NEW s \in Sids \ S, NEW t \in Tids
               PROVE  t \in Usable(s)' <=> t \in Usable(s)
    BY DEF Usable, View
  <2> QED BY <1>1, <1>2 DEF Usable, View
<1>5. \A s \in S : Usable(s)' = {} /\ session'[s] # "active"
  BY <1>1 DEF Usable, View, Over
<1>6. ActiveHasToken'
  BY <1>1, <1>4, <1>5 DEF SessionsInv, ActiveHasToken
<1>7. CallInv'
  BY <1>2 DEF SessionsInv, CallInv
<1>8. RevokedInv'
  <2> SUFFICES ASSUME NEW t \in Tids, refresh'[t].revoked
               PROVE  refresh[t].sid # 0 /\ session'[refresh[t].sid] = "inactive"
    BY <1>2 DEF RevokedInv
  <2>1. CASE refresh[t].sid \notin S
    <3>1. refresh[t].sid \in Sids /\ session[refresh[t].sid] = "inactive"
      BY <1>2, <2>1 DEF SessionsInv, SessionsTypeOK, RevokedInv
    <3> QED BY <1>1, <2>1, <3>1, SidsArePositive
  <2>2. CASE refresh[t].sid \in S /\ Inactivate(S)
    BY <2>2, SidsArePositive DEF Inactivate
  <2>3. CASE refresh[t].sid \in S /\ ~Inactivate(S)
    BY <2>3 DEF SessionsInv, RevokedInv
  <2> QED BY <2>1, <2>2, <2>3
<1>9. OneUsable'
  BY <1>4, <1>5 DEF SessionsInv, OneUsable
<1> QED BY <1>1, <1>2, <1>3, <1>6, <1>7, <1>8, <1>9

LEMMA LogoutKeeps ==
  ASSUME SessionsInv, NEW s \in Sids, Logout(s) \/ Lapse(s)
  PROVE  SessionsInv'
<1>1. UNCHANGED call /\ UNCHANGED twice /\ UNCHANGED resetVars
  BY DEF Logout, Lapse
<1>2. \/ Inactivate({s})
      \/ /\ UNCHANGED refresh
         /\ \A x \in {s} : session[x] = "active"
         /\ session' = [x \in Sids |-> IF x \in {s} THEN "lapsed" ELSE session[x]]
  BY DEF Logout, Lapse, SessionsInv, SessionsTypeOK
<1>3. /\ session' \in [Sids -> {"none", "active", "lapsed", "inactive"}]
      /\ refresh' \in [Tids -> [sid : Sids \cup {0}, used : BOOLEAN, revoked : BOOLEAN]]
      /\ \A t \in Tids : refresh'[t].sid # 0 => session'[refresh'[t].sid] # "none"
      /\ ActiveHasToken' /\ CallInv' /\ RevokedInv' /\ OneUsable'
      /\ \A x \in Sids : session[x] \in Over => session'[x] \in Over
  BY <1>1, <1>2, EndingKeeps
<1>4. UNCHANGED <<link, reset, ended, changes, shared>>
  BY <1>1 DEF resetVars
<1>5. SessionsTypeOK'
  BY <1>1, <1>3, <1>4 DEF SessionsInv, SessionsTypeOK
<1> QED BY <1>1, <1>3, <1>5, ResetsStay DEF SessionsInv

-----------------------------------------------------------------------------
(* Requests and expiries touch links only, and never revive one.           *)
LEMMA RequestKeeps ==
  ASSUME SessionsInv, NEW l \in Links, RequestReset(l) \/ LinkExpires(l)
  PROVE  SessionsInv'
<1>1. /\ UNCHANGED tableVars
      /\ UNCHANGED <<session, refresh, twice, call, reset, ended, changes, shared>>
  BY DEF RequestReset, LinkExpires, tableVars
<1>2. /\ link' \in [Links -> {"none", "live", "used", "dead"}]
      /\ \A k \in Links : link'[k] = link[k] \/ link'[k] = "dead"
                          \/ (link[k] = "none" /\ link'[k] = "live")
  BY DEF RequestReset, LinkExpires, DeleteSeen, SessionsInv, SessionsTypeOK
<1>3. SessionsTypeOK'
  BY <1>1, <1>2 DEF SessionsInv, SessionsTypeOK
<1>4. CallInv' /\ EndedInv' /\ KnownInv'
  BY <1>1 DEF SessionsInv, CallInv, EndedInv, KnownInv
<1>5. LinkInv'
  <2>1. \A r \in Resets : reset'[r].at # "rest" =>
          reset'[r].link \in Links /\ link'[reset'[r].link] # "none"
    BY <1>1, <1>2 DEF SessionsInv, LinkInv
  <2>2. \A k \in Links : link'[k] \in {"none", "live"} => changes'[k] = 0
    BY <1>1, <1>2 DEF SessionsInv, LinkInv
  <2>3. \A r \in Resets, k \in Links : Holds(r, k)' <=> Holds(r, k)
    BY <1>1 DEF Holds
  <2> QED BY <1>1, <2>1, <2>2, <2>3 DEF SessionsInv, LinkInv
<1> QED BY <1>1, <1>3, <1>4, <1>5, TablesStay DEF SessionsInv

LEMMA ResetReadsKeeps ==
  ASSUME SessionsInv, NEW r \in Resets, NEW l \in Links, ResetReads(r, l)
  PROVE  SessionsInv'
<1>1. /\ UNCHANGED tableVars
      /\ UNCHANGED <<session, refresh, twice, call, link, ended, changes>>
      /\ link[l] = "live" /\ reset[r] = Idle
  BY DEF ResetReads, tableVars
<1>2. reset' = [reset EXCEPT ![r] =
        [at |-> "read", link |-> l, known |-> {}, ends |-> {}]]
  BY DEF ResetReads, Idle
<1>3. /\ shared' \subseteq Links /\ shared \subseteq shared'
      /\ l \notin shared' => \A o \in Resets \ {r} : reset[o].link # l
  BY DEF ResetReads, SessionsInv, SessionsTypeOK
<1>4. /\ reset'[r] = [at |-> "read", link |-> l, known |-> {}, ends |-> {}]
      /\ \A o \in Resets \ {r} : reset'[o] = reset[o]
  BY <1>2 DEF SessionsInv, SessionsTypeOK
<1>5. SessionsTypeOK'
  BY <1>1, <1>2, <1>3 DEF SessionsInv, SessionsTypeOK
<1>6. CallInv' /\ EndedInv'
  BY <1>1 DEF SessionsInv, CallInv, EndedInv
<1>7. KnownInv'
  BY <1>1, <1>4 DEF SessionsInv, KnownInv
<1>8. LinkInv'
  <2>1. \A o \in Resets : reset'[o].at # "rest" =>
          reset'[o].link \in Links /\ link'[reset'[o].link] # "none"
    BY <1>1, <1>4 DEF SessionsInv, LinkInv
  <2>2. \A k \in Links : link'[k] \in {"none", "live"} => changes'[k] = 0
    BY <1>1 DEF SessionsInv, LinkInv
  <2>3. ASSUME NEW k \in Links \ shared'
        PROVE  /\ changes'[k] <= 1
               /\ \A o \in Resets : Holds(o, k)' => changes'[k] = 0
               /\ \A o, q \in Resets : Holds(o, k)' /\ Holds(q, k)' => o = q
    <3>1. CASE k = l
      <4>1. changes[l] = 0
        BY <1>1 DEF SessionsInv, LinkInv
      <4>2. \A o \in Resets \ {r} : ~Holds(o, l)'
        BY <1>3, <1>4, <2>3, <3>1 DEF Holds
      <4> QED BY <1>1, <3>1, <4>1, <4>2
    <3>2. CASE k # l
      <4>1. ~Holds(r, k)'
        BY <1>4, <3>2 DEF Holds
      <4>2. \A o \in Resets \ {r} : Holds(o, k)' <=> Holds(o, k)
        BY <1>4 DEF Holds
      <4>3. k \notin shared
        BY <1>3, <2>3
      <4> QED BY <1>1, <2>3, <4>1, <4>2, <4>3 DEF SessionsInv, LinkInv
    <3> QED BY <3>1, <3>2
  <2> QED BY <2>1, <2>2, <2>3 DEF LinkInv
<1> QED BY <1>1, <1>5, <1>6, <1>7, <1>8, TablesStay DEF SessionsInv

(* What a reset has not on its list is over, for an active session is on   *)
(* it by its token.                                                        *)
LEMMA ResetWritesKeeps ==
  ASSUME SessionsInv, NEW r \in Resets, ResetWrites(r)
  PROVE  SessionsInv'
<1> DEFINE exist == {s \in Sids : session[s] # "none"}
<1>1. /\ UNCHANGED tableVars
      /\ UNCHANGED <<session, refresh, twice, call, link, ended, changes, shared>>
      /\ reset[r].at = "read"
  BY DEF ResetWrites, tableVars
<1>2. reset' = [reset EXCEPT ![r] =
        [at |-> "written", link |-> reset[r].link, ends |-> EndsAll, known |-> exist]]
  BY DEF ResetWrites
<1>3. EndsAll \in SUBSET Sids /\ \A s \in exist \ EndsAll : session[s] \in Over
  BY DEF EndsAll, SessionsInv, ActiveHasToken, SessionsTypeOK, Over
<1> HIDE DEF exist
<1>4. /\ reset'[r] = [at |-> "written", link |-> reset[r].link, ends |-> EndsAll, known |-> exist]
      /\ \A o \in Resets \ {r} : reset'[o] = reset[o]
  BY <1>2 DEF SessionsInv, SessionsTypeOK
<1>5. exist \in SUBSET Sids
  BY DEF exist
<1>6. SessionsTypeOK'
  <2>1. reset[r].link \in Links \cup {NoLink}
    BY DEF SessionsInv, SessionsTypeOK
  <2>2. reset' \in [Resets -> [at : {"rest", "read", "written"}, link : Links \cup {NoLink},
                               known : SUBSET Sids, ends : SUBSET Sids]]
    BY <1>2, <1>3, <1>5, <2>1 DEF SessionsInv, SessionsTypeOK
  <2> QED BY <1>1, <2>2 DEF SessionsInv, SessionsTypeOK
<1>7. CallInv' /\ EndedInv'
  BY <1>1 DEF SessionsInv, CallInv, EndedInv
<1>8. KnownInv'
  BY <1>1, <1>3, <1>4 DEF SessionsInv, KnownInv
<1>9. LinkInv'
  <2>1. \A o \in Resets : reset'[o].link = reset[o].link
                          /\ (reset'[o].at # "rest" <=> reset[o].at # "rest")
    BY <1>1, <1>4
  <2>2. \A o \in Resets, l \in Links : Holds(o, l)' <=> Holds(o, l)
    BY <2>1 DEF Holds
  <2> QED BY <1>1, <2>1, <2>2 DEF SessionsInv, LinkInv
<1> QED BY <1>1, <1>6, <1>7, <1>8, <1>9, TablesStay DEF SessionsInv

LEMMA ResetFailsKeeps ==
  ASSUME SessionsInv, NEW r \in Resets, ResetFails(r)
  PROVE  SessionsInv'
<1>1. /\ UNCHANGED tableVars
      /\ UNCHANGED <<session, refresh, twice, call, link, ended, changes, shared>>
  BY DEF ResetFails, tableVars
<1>2. /\ reset'[r].at = "rest"
      /\ \A o \in Resets \ {r} : reset'[o] = reset[o]
  BY DEF ResetFails, Idle, SessionsInv, SessionsTypeOK
<1>3. SessionsTypeOK'
  BY <1>1 DEF ResetFails, Idle, SessionsInv, SessionsTypeOK
<1>4. CallInv' /\ EndedInv' /\ KnownInv'
  BY <1>1, <1>2 DEF SessionsInv, CallInv, EndedInv, KnownInv
<1>5. LinkInv'
  <2>1. \A o \in Resets, l \in Links : Holds(o, l)' => Holds(o, l)
    BY <1>2 DEF Holds
  <2>2. \A o \in Resets : reset'[o].at # "rest" =>
          reset'[o].link \in Links /\ link'[reset'[o].link] # "none"
    BY <1>1, <1>2 DEF SessionsInv, LinkInv
  <2> QED BY <1>1, <2>1, <2>2 DEF SessionsInv, LinkInv
<1> QED BY <1>1, <1>3, <1>4, <1>5, TablesStay DEF SessionsInv

LEMMA ResetCommitsKeeps ==
  ASSUME SessionsInv, NEW r \in Resets, ResetCommits(r)
  PROVE  SessionsInv'
<1>1. PICK l \in Links : l = reset[r].link /\ link[l] # "none"
  BY DEF ResetCommits, SessionsInv, LinkInv
<1>2. /\ reset[r].at = "written"
      /\ reset' = [reset EXCEPT ![r] = Idle]
      /\ link' = IF link[l] = "dead" THEN link ELSE [link EXCEPT ![l] = "used"]
      /\ changes' = [changes EXCEPT ![l] = changes[l] + 1]
      /\ ended' = ended \cup reset[r].known
      /\ Inactivate(reset[r].ends)
      /\ UNCHANGED <<twice, call, shared>>
  BY <1>1 DEF ResetCommits, MarkUsed
<1>3. reset[r].ends \in SUBSET Sids /\ reset[r].known \in SUBSET Sids
  BY DEF SessionsInv, SessionsTypeOK
<1>4. /\ session' \in [Sids -> {"none", "active", "lapsed", "inactive"}]
      /\ refresh' \in [Tids -> [sid : Sids \cup {0}, used : BOOLEAN, revoked : BOOLEAN]]
      /\ \A t \in Tids : refresh'[t].sid # 0 => session'[refresh'[t].sid] # "none"
      /\ ActiveHasToken' /\ CallInv' /\ RevokedInv' /\ OneUsable'
      /\ \A s \in reset[r].ends : session'[s] \in Over
      /\ \A s \in Sids : session[s] \in Over => session'[s] \in Over
  <2> DEFINE S == reset[r].ends
  <2>1. S \in SUBSET Sids /\ Inactivate(S)
    BY <1>2, <1>3
  <2> HIDE DEF S
  <2>2. /\ session' \in [Sids -> {"none", "active", "lapsed", "inactive"}]
        /\ refresh' \in [Tids -> [sid : Sids \cup {0}, used : BOOLEAN, revoked : BOOLEAN]]
        /\ \A t \in Tids : refresh'[t].sid # 0 => session'[refresh'[t].sid] # "none"
        /\ ActiveHasToken' /\ CallInv' /\ RevokedInv' /\ OneUsable'
        /\ \A s \in S : session'[s] \in Over
        /\ \A s \in Sids : session[s] \in Over => session'[s] \in Over
    BY <1>2, <2>1, EndingKeeps
  <2> QED BY <2>2 DEF S
<1>5. /\ reset'[r] = Idle
      /\ \A o \in Resets \ {r} : reset'[o] = reset[o]
  BY <1>2 DEF SessionsInv, SessionsTypeOK
<1>6. /\ link' \in [Links -> {"none", "live", "used", "dead"}]
      /\ link'[l] \in {"used", "dead"}
      /\ \A k \in Links \ {l} : link'[k] = link[k]
  BY <1>1, <1>2 DEF SessionsInv, SessionsTypeOK
<1>7. /\ changes' \in [Links -> Nat]
      /\ changes'[l] = changes[l] + 1
      /\ \A k \in Links \ {l} : changes'[k] = changes[k]
  BY <1>1, <1>2 DEF SessionsInv, SessionsTypeOK
<1>8. SessionsTypeOK'
  BY <1>2, <1>3, <1>4, <1>6, <1>7 DEF SessionsInv, SessionsTypeOK, Idle
<1>9. EndedInv'
  <2>1. \A s \in reset[r].known : session'[s] \in Over
    BY <1>2, <1>3, <1>4 DEF SessionsInv, KnownInv
  <2> QED BY <1>2, <1>4, <2>1 DEF SessionsInv, SessionsTypeOK, EndedInv
<1>10. KnownInv'
  <2> SUFFICES ASSUME NEW o \in Resets, reset'[o].at = "written",
                      NEW s \in reset'[o].known \ reset'[o].ends
               PROVE  session'[s] \in Over
    BY DEF KnownInv
  <2>1. reset'[o] = reset[o] /\ s \in Sids
    BY <1>5 DEF Idle, SessionsInv, SessionsTypeOK
  <2> QED BY <1>4, <2>1 DEF SessionsInv, KnownInv
<1>11. LinkInv'
  <2>1. \A o \in Resets : reset'[o].at # "rest" =>
          reset'[o].link \in Links /\ link'[reset'[o].link] # "none"
    BY <1>5, <1>6 DEF Idle, SessionsInv, LinkInv
  <2>2. \A k \in Links : link'[k] \in {"none", "live"} => changes'[k] = 0
    BY <1>6, <1>7 DEF SessionsInv, LinkInv
  <2>3. ASSUME NEW k \in Links \ shared'
        PROVE  /\ changes'[k] <= 1
               /\ \A o \in Resets : Holds(o, k)' => changes'[k] = 0
               /\ \A o, q \in Resets : Holds(o, k)' /\ Holds(q, k)' => o = q
    <3>1. k \notin shared
      BY <1>2, <2>3
    <3>2. \A o \in Resets : Holds(o, k)' => o # r /\ Holds(o, k)
      BY <1>5 DEF Holds, Idle
    <3>3. CASE k = l
      <4>1. Holds(r, k)
        BY <1>1, <1>2, <3>3 DEF Holds
      <4>2. changes[k] = 0
        BY <3>1, <4>1 DEF SessionsInv, LinkInv
      <4>3. \A o \in Resets : ~Holds(o, k)'
        BY <3>1, <3>2, <4>1 DEF SessionsInv, LinkInv
      <4> QED BY <1>7, <3>3, <4>2, <4>3
    <3>4. CASE k # l
      BY <1>7, <3>1, <3>2, <3>4 DEF SessionsInv, LinkInv
    <3> QED BY <3>3, <3>4
  <2> QED BY <2>1, <2>2, <2>3 DEF LinkInv
<1> QED BY <1>4, <1>8, <1>9, <1>10, <1>11 DEF SessionsInv

-----------------------------------------------------------------------------
LEMMA StepKeeps ==
  ASSUME SessionsInv, [SessionsNext]_sessionVars
  PROVE  SessionsInv'
<1>1. CASE UNCHANGED sessionVars
  <2>1. UNCHANGED tableVars /\ UNCHANGED <<session, refresh, call, link, reset, ended,
                                           changes, shared, twice>>
    BY <1>1 DEF sessionVars, tableVars
  <2>2. SessionsTypeOK' /\ CallInv' /\ EndedInv' /\ KnownInv' /\ LinkInv'
    BY <2>1 DEF SessionsInv, SessionsTypeOK, CallInv, EndedInv, KnownInv, LinkInv, Holds
  <2> QED BY <2>1, <2>2, TablesStay DEF SessionsInv
<1>2. CASE \E c \in Calls : LoginReads(c) \/ CallFails(c) \/ \E s \in Sids : RefreshReads(c, s)
  BY <1>2, ReadingKeeps
<1>3. CASE \E c \in Calls : RotateToken(c) \/ Create(c)
  BY <1>3, RotateKeeps, CreateKeeps
<1>4. CASE \E s \in Sids : Logout(s) \/ Lapse(s)
  BY <1>4, LogoutKeeps
<1>5. CASE \E l \in Links : RequestReset(l) \/ LinkExpires(l)
  BY <1>5, RequestKeeps
<1>6. CASE \E r \in Resets : ResetWrites(r) \/ ResetCommits(r) \/ ResetFails(r)
  BY <1>6, ResetWritesKeeps, ResetCommitsKeeps, ResetFailsKeeps
<1>7. CASE \E r \in Resets, l \in Links : ResetReads(r, l)
  BY <1>7, ResetReadsKeeps
<1> QED BY <1>1, <1>2, <1>3, <1>4, <1>5, <1>6, <1>7 DEF SessionsNext

LEMMA InvIsInvariant == SessionsSpec => []SessionsInv
<1>1. SessionsInv /\ [SessionsNext]_sessionVars => SessionsInv'
  BY StepKeeps
<1> QED BY <1>1, SessionsInitHolds, PTL DEF SessionsSpec

LEMMA InvImpliesHold == SessionsInv => SessionsHold
<1> SUFFICES ASSUME SessionsInv PROVE SessionsHold
  OBVIOUS
<1>1. ActiveHasToken
  BY DEF SessionsInv
<1>2. OneTokenPerSession
  <2> SUFFICES ASSUME NEW s \in Sids \ twice PROVE Cardinality(Usable(s)) <= 1
    BY DEF OneTokenPerSession
  <2>1. CASE Usable(s) = {}
    BY <2>1, FS_EmptySet
  <2>2. CASE Usable(s) # {}
    <3>1. PICK t \in Usable(s) : TRUE
      BY <2>2
    <3>2. Usable(s) = {t}
      BY <3>1 DEF SessionsInv, OneUsable
    <3>3. Cardinality(Usable(s)) = 1
      BY <3>2, FS_Singleton, Zenon
    <3> QED BY <3>3
  <2> QED BY <2>1, <2>2
<1>3. ResetEndsSessions
  <2> SUFFICES ASSUME NEW s \in ended PROVE Usable(s) = {}
    BY DEF ResetEndsSessions
  <2>1. s \in Sids /\ session[s] # "active"
    BY DEF SessionsInv, SessionsTypeOK, EndedInv, Over
  <2> QED BY <2>1 DEF Usable, View
<1>4. LinkWorksOnce
  BY DEF SessionsInv, LinkInv, LinkWorksOnce
<1> QED BY <1>1, <1>2, <1>3, <1>4 DEF SessionsHold

(* Whatever logins, refreshes, logouts and resets run together, an active  *)
(* session has a token that works, and one only unless two calls rotated   *)
(* the same; a reset ends every session it could see, and a link that no   *)
(* two resets held at once changes the password once.  Here the number of  *)
(* sessions, tokens, calls, resets and links is any.                       *)
THEOREM SessionsAlwaysHold == SessionsSpec => []SessionsHold
BY InvIsInvariant, InvImpliesHold, PTL

(* An existing session without a usable token is not active, since active  *)
(* ones keep a token, and no step makes it active again: login creates new *)
(* sessions and a rotation, however late, only adds a token.               *)
LEMMA StepLeavesOut ==
  ASSUME SessionsInv, SessionsInv', [SessionsNext]_sessionVars
  PROVE  \A s \in Sids : session[s] # "none" /\ Usable(s) = {} => Usable(s)' = {}
<1> SUFFICES ASSUME NEW s \in Sids, session[s] \notin {"none", "active"}
             PROVE  Usable(s)' = {}
  BY DEF SessionsInv, ActiveHasToken
<1>1. session'[s] # "active"
  <2>1. CASE session' = session
    BY <2>1
  <2>2. CASE \E c \in Calls : Create(c)
    <3>1. PICK x \in Sids : session[x] = "none" /\ session' = [session EXCEPT ![x] = "active"]
      BY <2>2, SomeFits DEF Create, FreeSids
    <3> QED BY <3>1 DEF SessionsInv, SessionsTypeOK
  <2>3. CASE \E S : Inactivate(S)
    BY <2>3 DEF Inactivate
  <2>4. CASE \E x \in Sids : Lapse(x)
    BY <2>4 DEF Lapse, SessionsInv, SessionsTypeOK
  <2>5. \/ session' = session
        \/ \E c \in Calls : Create(c)
        \/ \E S : Inactivate(S)
        \/ \E x \in Sids : Lapse(x)
    BY DEF SessionsNext, sessionVars, tableVars, LoginReads, RefreshReads, RotateToken,
           CallFails, Logout, RequestReset, LinkExpires, ResetReads, ResetWrites,
           ResetCommits, ResetFails
  <2> QED BY <2>1, <2>2, <2>3, <2>4, <2>5
<1> QED BY <1>1 DEF Usable, View

(* A session that was logged out, ended by a reset or ran out never comes  *)
(* back, not even through a rotation that had read it as active.           *)
THEOREM LoggedOutAlwaysStaysOut == SessionsSpec => LoggedOutStaysOut
<1>1. SessionsInv /\ SessionsInv' /\ [SessionsNext]_sessionVars
      => [\A s \in Sids : session[s] # "none" /\ Usable(s) = {} => Usable(s)' = {}]_sessionVars
  BY StepLeavesOut
<1> QED BY <1>1, InvIsInvariant, PTL DEF SessionsSpec, LoggedOutStaysOut

-----------------------------------------------------------------------------
(***************************************************************************)
(* Proofs about EbayTokens for any number of callers, inside and outside a *)
(* transaction, and of failures.  A token is pending from the answer of    *)
(* eBay until its row is committed.  While nothing was lost and nobody     *)
(* raced, a dead token stays in the row only as long as the caller that    *)
(* replaced it has the new one pending, and keeps the others from reading. *)
(***************************************************************************)
Typed ==
  /\ stored \in Tokens \cup {NoToken}
  /\ unsaved \in [Everyone -> Tokens \cup {NoToken}]
  /\ holder \subseteq Everyone
  /\ cached \in BOOLEAN
  /\ pc \in [Everyone -> Running \cup {"start", "over"}]
  /\ token \in [Everyone -> Tokens \cup {NoToken}]
  /\ issued \in 0 .. MaxTokens /\ dead \subseteq Tokens
  /\ reused \in BOOLEAN /\ lost \in BOOLEAN /\ raced \in BOOLEAN
  /\ fails \in 0 .. MaxFails
  /\ \A c \in Everyone : pc[c] \in {"exchange", "save"} => token[c] # NoToken

Pending(c) ==
  IF pc[c] = "save" THEN {token[c]} ELSE {unsaved[c]} \ {NoToken}

(* An open upsert holds the row, and so does a caller in a transaction     *)
(* from its read on.                                                       *)
LockInv ==
  /\ \A c \in holder : Transactional(c)
  /\ \A c \in Everyone : unsaved[c] # NoToken =>
       c \in holder /\ Transactional(c) /\ pc[c] \in {"cache", "work"}
  /\ \A c \in InTxn : pc[c] \in {"exchange", "save"} => c \in holder
  /\ \A c, d \in holder : c = d
  /\ \A c \in Consents : pc[c] \notin {"fetch", "exchange"}
  /\ \A c \in Consents : pc[c] \in {"cache", "work"} =>
       unsaved[c] = token[c] /\ token[c] # NoToken

(* A pending token is new: nobody else has it, the row never had it.       *)
FreshInv ==
  /\ stored <= issued /\ \A t \in dead : t <= issued
  /\ \A c \in Everyone :
       /\ token[c] <= issued /\ unsaved[c] <= issued
       /\ \A t \in Pending(c) :
            /\ t # stored /\ t \notin dead
            /\ \A d \in Everyone \ {c} : t \notin Pending(d)
            /\ \A d \in Everyone : pc[d] = "exchange" => token[d] # t

Engaged(c) == pc[c] \in {"exchange", "save"}

(* Who reads outside a transaction is alone with the row, or there was a   *)
(* race.                                                                   *)
AloneInv ==
  raced \/ \A d \in Callers \ InTxn : Engaged(d) =>
             holder = {} /\ \A c \in Callers \ {d} : ~Engaged(c)

(* Unless a token was lost or there was a race: who is about to present a  *)
(* token has a live one, and the row has a dead one only while the new one *)
(* is pending.                                                             *)
LiveInv ==
  lost \/ raced
  \/ /\ ~reused
     /\ \A c \in Callers : pc[c] = "exchange" => token[c] \notin dead
     /\ stored \in dead => \E c \in Callers : Pending(c) # {}

(* The row and whatever is still to be written to it are as new as the     *)
(* consent that was given.                                                 *)
ConsentInv ==
  raced \/ \A c \in Consents : pc[c] = "over" /\ token[c] # NoToken =>
             /\ stored >= token[c]
             /\ \A d \in Callers : \A t \in Pending(d) : t >= token[c]

TokensInv == Typed /\ LockInv /\ FreshInv /\ AloneInv /\ LiveInv

-----------------------------------------------------------------------------
LEMMA TokenTypes ==
  /\ Tokens \subseteq Nat \ {0} /\ NoToken = 0 /\ MaxTokens \in Nat /\ 1 \in Tokens
  /\ \A n \in 0 .. MaxTokens : n < MaxTokens => n + 1 \in Tokens /\ n + 1 \in 0 .. MaxTokens
  BY TokenAssumption DEF Tokens, NoToken

LEMMA TokensInitHolds == Init => TokensInv /\ ConsentInv
<1> SUFFICES ASSUME Init PROVE TokensInv /\ ConsentInv
  OBVIOUS
<1>1. Typed
  <2>1. fails \in 0 .. MaxFails /\ issued \in 0 .. MaxTokens /\ stored \in Tokens \cup {NoToken}
    BY TokenTypes, TokenAssumption DEF Init
  <2> QED BY <2>1 DEF Init, Typed
<1>2. \A c \in Everyone : Pending(c) = {} /\ token[c] = NoToken /\ unsaved[c] = NoToken
                          /\ pc[c] = "start"
  BY DEF Init, Pending
<1>3. LockInv
  BY <1>2, TokenAssumption DEF Init, LockInv, Everyone
<1>4. FreshInv
  BY <1>2, TokenTypes DEF Init, FreshInv
<1>5. AloneInv /\ LiveInv /\ ConsentInv
  BY <1>2 DEF Init, AloneInv, LiveInv, ConsentInv, Engaged, Everyone
<1> QED BY <1>1, <1>3, <1>4, <1>5 DEF TokensInv

(* A step of one call c, as the parts of the invariant see it.             *)
Steps(c) ==
  \/ c \in Callers /\ (UseCached(c) \/ NotCached(c) \/ Fetch(c) \/ Exchange(c)
                       \/ Refused(c) \/ Again(c))
  \/ Save(c) \/ Cache(c) \/ Finish(c) \/ Fail(c)
  \/ c \in Consents /\ Consent(c)

LEMMA TypesKept ==
  ASSUME Typed, NEW c \in Everyone, Steps(c)
  PROVE  Typed'
<1> USE DEF Typed, Goto
<1>1. CASE UseCached(c) \/ NotCached(c) \/ Cache(c)
  BY <1>1 DEF UseCached, NotCached, Cache, Running
<1>2. CASE Fetch(c)
  BY <1>2 DEF Fetch, Race, Unheld, Running
<1>3. CASE Exchange(c)
  <2>1. CASE Rotate(c)
    <3>1. issued + 1 \in Tokens /\ issued + 1 \in 0 .. MaxTokens
      BY <2>1, TokenTypes DEF Rotate
    <3>2. token[c] \in Tokens /\ issued + 1 # NoToken
      BY <1>3, <3>1, TokenTypes DEF Exchange
    <3> QED BY <1>3, <2>1, <3>1, <3>2 DEF Exchange, Rotate, Running
  <2>2. CASE ~Rotate(c)
    BY <1>3, <2>2 DEF Exchange, Running
  <2> QED BY <2>1, <2>2
<1>4. CASE Refused(c) \/ Again(c)
  BY <1>4 DEF Refused, Again, Running
<1>5. CASE Save(c)
  BY <1>5 DEF Save, Upsert, Race, Unheld, Running
<1>6. CASE Finish(c)
  BY <1>6 DEF Finish, Running
<1>7. CASE Fail(c)
  <2>1. fails' \in 0 .. MaxFails
    BY <1>7, TokenAssumption DEF Fail
  <2> QED BY <1>7, <2>1 DEF Fail, LosesToken, Running
<1>8. CASE Consent(c)
  <2>1. issued + 1 \in Tokens /\ issued + 1 \in 0 .. MaxTokens /\ issued + 1 # NoToken
    BY <1>8, TokenTypes DEF Consent
  <2> QED BY <1>8, <2>1 DEF Consent, Running
<1> QED BY <1>1, <1>2, <1>3, <1>4, <1>5, <1>6, <1>7, <1>8 DEF Steps

(* A call writes its own entries, and its own name among the holders.      *)
LEMMA OthersStay ==
  ASSUME Typed, NEW c \in Everyone, Steps(c)
  PROVE  /\ \A d \in Everyone \ {c} :
              pc'[d] = pc[d] /\ token'[d] = token[d] /\ unsaved'[d] = unsaved[d]
         /\ \A d \in Everyone \ {c} : Pending(d)' = Pending(d)
         /\ holder' \ {c} = holder \ {c}
<1>1. /\ \A d \in Everyone \ {c} :
           pc'[d] = pc[d] /\ token'[d] = token[d] /\ unsaved'[d] = unsaved[d]
      /\ holder' \ {c} = holder \ {c}
  BY DEF Steps, Typed, Goto, UseCached, NotCached, Fetch, Exchange, Rotate, Refused, Again,
         Save, Upsert, Cache, Finish, Fail, Consent
<1> QED BY <1>1 DEF Pending

(* What the step does to the call itself.                                  *)
LEMMA OwnEntry ==
  ASSUME Typed, NEW c \in Everyone, Steps(c)
  PROVE  /\ UseCached(c) => pc[c] = "start" /\ pc'[c] = "work"
         /\ NotCached(c) => pc[c] = "start" /\ pc'[c] = "fetch"
         /\ Fetch(c) => /\ pc[c] = "fetch" /\ pc'[c] \in {"exchange", "over"}
                        /\ pc'[c] = "exchange" => token'[c] = stored
         /\ Exchange(c) => /\ pc[c] = "exchange"
                           /\ \/ Rotate(c) /\ pc'[c] = "save" /\ token'[c] = issued + 1
                              \/ /\ pc'[c] = "cache" /\ token'[c] = token[c]
                                 /\ UNCHANGED <<issued, dead>>
         /\ Refused(c) => pc[c] = "exchange" /\ pc'[c] = "over"
         /\ Again(c) => pc[c] = "over" /\ pc'[c] = "start"
         /\ Save(c) => /\ pc[c] = "save" /\ pc'[c] = "cache" /\ token'[c] = token[c]
                       /\ IF Transactional(c)
                          THEN unsaved'[c] = token[c] /\ c \in holder'
                          ELSE unsaved'[c] = unsaved[c]
         /\ Cache(c) => pc[c] = "cache" /\ pc'[c] = "work"
         /\ Finish(c) => pc[c] = "work" /\ pc'[c] = "over" /\ unsaved'[c] = NoToken
                         /\ c \notin holder' /\ token'[c] = token[c]
         /\ Fail(c) => pc'[c] = "over" /\ unsaved'[c] = NoToken /\ token'[c] = NoToken
                       /\ c \notin holder'
         /\ Consent(c) => pc[c] = "start" /\ pc'[c] = "save" /\ token'[c] = issued + 1
BY DEF Typed, Goto, UseCached, NotCached, Fetch, Exchange, Rotate, Refused, Again,
       Save, Upsert, Cache, Finish, Fail, Consent

LEMMA LocksKept ==
  ASSUME Typed, LockInv, NEW c \in Everyone, Steps(c)
  PROVE  LockInv'
<1> DEFINE Locked(d) ==
      /\ unsaved[d] # NoToken =>
           d \in holder /\ Transactional(d) /\ pc[d] \in {"cache", "work"}
      /\ d \in InTxn /\ pc[d] \in {"exchange", "save"} => d \in holder
      /\ d \in Consents => pc[d] \notin {"fetch", "exchange"}
      /\ d \in Consents /\ pc[d] \in {"cache", "work"} =>
           unsaved[d] = token[d] /\ token[d] # NoToken
<1>1. \A d \in Everyone : Locked(d)
  BY DEF LockInv
<1>2. /\ \A d \in Everyone \ {c} :
           pc'[d] = pc[d] /\ token'[d] = token[d] /\ unsaved'[d] = unsaved[d]
      /\ holder' \ {c} = holder \ {c}
  BY OthersStay
<1>3. \A d \in Everyone \ {c} : Locked(d)'
  BY <1>1, <1>2
<1>4. Locked(c)'
  <2> HIDE DEF Steps
  <2>0. c \in Callers => c \notin Consents
    BY TokenAssumption
  <2>1. CASE c \in Callers /\ (UseCached(c) \/ NotCached(c) \/ Refused(c) \/ Again(c))
    <3>1. unsaved'[c] = unsaved[c]
      BY <2>1 DEF UseCached, NotCached, Refused, Again
    <3>2. \/ pc[c] = "start" /\ pc'[c] \in {"work", "fetch"}
          \/ pc[c] = "exchange" /\ pc'[c] = "over"
          \/ pc[c] = "over" /\ pc'[c] = "start"
      BY <2>1, OwnEntry
    <3> QED BY <1>1, <2>0, <2>1, <3>1, <3>2
  <2>2. CASE Fetch(c)
    <3>1. pc[c] = "fetch" /\ pc'[c] \in {"exchange", "over"}
      BY <2>2, OwnEntry
    <3>2. unsaved'[c] = unsaved[c] /\ c \notin Consents
      BY <1>1, <2>2, <3>1 DEF Fetch
    <3>3. pc'[c] = "exchange" /\ c \in InTxn => c \in holder'
      BY <2>2 DEF Fetch, Goto, Typed, Transactional
    <3> QED BY <1>1, <3>1, <3>2, <3>3
  <2>3. CASE Exchange(c)
    <3>1. pc[c] = "exchange" /\ pc'[c] \in {"save", "cache"}
      BY <2>3, OwnEntry
    <3>2. unsaved'[c] = unsaved[c] /\ holder' = holder
      BY <2>3 DEF Exchange
    <3> QED BY <1>1, <3>1, <3>2
  <2>4. CASE Save(c)
    <3>1. /\ pc[c] = "save" /\ pc'[c] = "cache" /\ token'[c] = token[c]
          /\ IF Transactional(c) THEN unsaved'[c] = token[c] /\ c \in holder'
                                 ELSE unsaved'[c] = unsaved[c]
      BY <2>4, OwnEntry
    <3>2. token[c] # NoToken /\ (c \in Consents => Transactional(c))
      BY <3>1 DEF Typed, Transactional
    <3> QED BY <1>1, <3>1, <3>2
  <2>5. CASE Cache(c)
    <3>1. pc[c] = "cache" /\ pc'[c] = "work"
      BY <2>5, OwnEntry
    <3>2. unsaved'[c] = unsaved[c] /\ token' = token /\ holder' = holder
      BY <2>5 DEF Cache
    <3> QED BY <1>1, <3>1, <3>2
  <2>6. CASE Finish(c) \/ Fail(c)
    BY <1>1, <2>6, OwnEntry
  <2>7. CASE c \in Consents /\ Consent(c)
    <3>1. pc[c] = "start" /\ pc'[c] = "save"
      BY <2>7, OwnEntry
    <3>2. unsaved'[c] = unsaved[c]
      BY <2>7 DEF Consent
    <3> QED BY <1>1, <2>7, <3>1, <3>2, TokenAssumption
  <2> QED BY <2>1, <2>2, <2>3, <2>4, <2>5, <2>6, <2>7 DEF Steps
<1>5. \A d \in holder' : Transactional(d)
  BY DEF LockInv, Steps, UseCached, NotCached, Fetch, Exchange, Rotate, Refused, Again,
         Save, Upsert, Cache, Finish, Fail, Consent, Transactional
<1>6. \A d, e \in holder' : d = e
  BY DEF LockInv, Steps, UseCached, NotCached, Fetch, Exchange, Rotate, Refused, Again,
         Save, Upsert, Cache, Finish, Fail, Consent, LockIsFree
<1>7. \A d \in Everyone : Locked(d)'
  BY <1>3, <1>4
<1> QED BY <1>5, <1>6, <1>7, TokenAssumption DEF LockInv, Transactional, Everyone

(* What the step does to the pending tokens: only eBay makes a new one,    *)
(* and a token that goes into the row was pending.                         *)
LEMMA PendingOfStep ==
  ASSUME Typed, LockInv, NEW c \in Everyone, Steps(c)
  PROVE  /\ \/ /\ Rotate(c) \/ Consent(c)
               /\ Pending(c) = {} /\ Pending(c)' = {issued + 1} /\ issued' = issued + 1
               /\ issued + 1 \in Tokens /\ UNCHANGED stored
               /\ pc'[c] = "save" /\ token'[c] = issued + 1 /\ unsaved'[c] = unsaved[c]
            \/ /\ Pending(c)' \subseteq Pending(c) /\ UNCHANGED <<issued, dead>>
               /\ token'[c] \in {token[c], stored, NoToken}
               /\ unsaved'[c] \in {unsaved[c], token[c], NoToken}
               /\ stored' # stored => stored' \in Pending(c) /\ Pending(c)' = {}
         /\ \/ UNCHANGED dead
            \/ dead' = dead \cup {token[c]} /\ Rotate(c) /\ pc[c] = "exchange"
         /\ pc'[c] = "exchange" => Fetch(c) /\ token'[c] = stored
<1>1. unsaved[c] # NoToken => pc[c] \in {"cache", "work"}
  BY DEF LockInv
<1>2. CASE c \in Callers /\ (UseCached(c) \/ NotCached(c) \/ Refused(c) \/ Again(c))
  <2>1. unsaved'[c] = unsaved[c] /\ UNCHANGED <<issued, dead, stored>>
        /\ token'[c] \in {token[c], NoToken}
    BY <1>2 DEF UseCached, NotCached, Refused, Again, Typed
  <2>2. pc[c] \notin {"save", "cache", "work"} /\ pc'[c] \notin {"save", "exchange"}
    BY <1>2, OwnEntry
  <2> QED BY <1>1, <2>1, <2>2 DEF Pending
<1>3. CASE Fetch(c)
  <2>1. unsaved'[c] = unsaved[c] /\ UNCHANGED <<issued, dead, stored>>
        /\ token'[c] \in {token[c], stored}
    BY <1>3 DEF Fetch, Typed
  <2>2. pc[c] = "fetch" /\ pc'[c] \in {"exchange", "over"}
        /\ (pc'[c] = "exchange" => token'[c] = stored)
    BY <1>3, OwnEntry
  <2> QED BY <1>1, <1>3, <2>1, <2>2 DEF Pending
<1>4. CASE Exchange(c)
  <2>1. unsaved'[c] = unsaved[c] /\ UNCHANGED stored
    BY <1>4 DEF Exchange
  <2>2. /\ pc[c] = "exchange"
        /\ \/ Rotate(c) /\ pc'[c] = "save" /\ token'[c] = issued + 1
           \/ pc'[c] = "cache" /\ token'[c] = token[c] /\ UNCHANGED <<issued, dead>>
    BY <1>4, OwnEntry
  <2>3. Rotate(c) => issued' = issued + 1 /\ issued + 1 \in Tokens
                     /\ dead' = dead \cup {token[c]}
    BY TokenTypes DEF Rotate, Typed
  <2> QED BY <1>1, <2>1, <2>2, <2>3 DEF Pending
<1>5. CASE Save(c)
  <2>1. /\ pc[c] = "save" /\ pc'[c] = "cache" /\ token'[c] = token[c]
        /\ IF Transactional(c) THEN unsaved'[c] = token[c] ELSE unsaved'[c] = unsaved[c]
    BY <1>5, OwnEntry
  <2>2. /\ UNCHANGED <<issued, dead>>
        /\ stored' # stored => stored' = token[c] /\ ~Transactional(c)
    BY <1>5 DEF Save, Upsert
  <2> QED BY <1>1, <2>1, <2>2 DEF Pending
<1>6. CASE Cache(c)
  <2>1. unsaved'[c] = unsaved[c] /\ token'[c] = token[c] /\ UNCHANGED <<issued, dead, stored>>
    BY <1>6 DEF Cache
  <2>2. pc[c] = "cache" /\ pc'[c] = "work"
    BY <1>6, OwnEntry
  <2> QED BY <2>1, <2>2 DEF Pending
<1>7. CASE Finish(c)
  <2>1. /\ UNCHANGED <<issued, dead>>
        /\ stored' # stored => unsaved[c] # NoToken /\ stored' = unsaved[c]
    BY <1>7 DEF Finish
  <2>2. pc[c] = "work" /\ pc'[c] = "over" /\ unsaved'[c] = NoToken /\ token'[c] = token[c]
    BY <1>7, OwnEntry
  <2> QED BY <2>1, <2>2 DEF Pending
<1>8. CASE Fail(c)
  <2>1. UNCHANGED <<issued, dead, stored>>
    BY <1>8 DEF Fail
  <2>2. pc'[c] = "over" /\ unsaved'[c] = NoToken /\ token'[c] = NoToken
    BY <1>8, OwnEntry
  <2> QED BY <2>1, <2>2 DEF Pending
<1>9. CASE c \in Consents /\ Consent(c)
  <2>1. /\ unsaved'[c] = unsaved[c] /\ UNCHANGED <<dead, stored>>
        /\ issued' = issued + 1 /\ issued + 1 \in Tokens
    BY <1>9, TokenTypes DEF Consent, Typed
  <2>2. pc[c] = "start" /\ pc'[c] = "save" /\ token'[c] = issued + 1
    BY <1>9, OwnEntry
  <2> QED BY <1>1, <1>9, <2>1, <2>2 DEF Pending
<1> QED BY <1>2, <1>3, <1>4, <1>5, <1>6, <1>7, <1>8, <1>9 DEF Steps

LEMMA FreshKept ==
  ASSUME Typed, LockInv, FreshInv, NEW c \in Everyone, Steps(c)
  PROVE  FreshInv'
<1>1. /\ \A d \in Everyone \ {c} :
           pc'[d] = pc[d] /\ token'[d] = token[d] /\ unsaved'[d] = unsaved[d]
      /\ \A d \in Everyone \ {c} : Pending(d)' = Pending(d)
  BY OthersStay
<1>2. /\ issued \in Nat /\ stored \in Nat /\ dead \subseteq Nat
      /\ \A d \in Everyone : token[d] \in Nat /\ unsaved[d] \in Nat
      /\ \A d \in Everyone : Pending(d) \subseteq Nat /\ \A t \in Pending(d) : t <= issued
  <2>1. issued \in Nat /\ stored \in Nat /\ dead \subseteq Nat
    BY TokenTypes DEF Typed
  <2>2. \A d \in Everyone : token[d] \in Nat /\ unsaved[d] \in Nat
    <3>1. Tokens \cup {NoToken} \subseteq Nat
      BY TokenTypes
    <3> QED BY <3>1 DEF Typed
  <2>3. \A d \in Everyone : Pending(d) \subseteq {token[d], unsaved[d]}
    BY DEF Pending
  <2>4. \A d \in Everyone : token[d] <= issued /\ unsaved[d] <= issued
    BY DEF FreshInv
  <2> QED BY <2>1, <2>2, <2>3, <2>4
<1>3. CASE /\ Pending(c) = {} /\ Pending(c)' = {issued + 1} /\ issued' = issued + 1
           /\ UNCHANGED stored
           /\ pc'[c] = "save" /\ token'[c] = issued + 1 /\ unsaved'[c] = unsaved[c]
           /\ \/ UNCHANGED dead
              \/ dead' = dead \cup {token[c]} /\ pc[c] = "exchange"
  <2>0. stored <= issued /\ token[c] <= issued /\ \A t \in dead : t <= issued
    BY DEF FreshInv
  <2>1. stored' <= issued' /\ \A t \in dead' : t <= issued'
    <3>1. stored <= issued + 1 /\ token[c] <= issued + 1
      BY <1>2, <2>0
    <3>2. \A t \in dead : t <= issued + 1
      BY <1>2, <2>0
    <3> QED BY <1>3, <3>1, <3>2
  <2>2. \A d \in Everyone : token'[d] <= issued' /\ unsaved'[d] <= issued'
    BY <1>1, <1>2, <1>3 DEF FreshInv
  <2>3. \A d \in Everyone : \A t \in Pending(d)' : t # stored' /\ t \notin dead'
    BY <1>1, <1>2, <1>3 DEF FreshInv
  <2>4. \A d, e \in Everyone : d # e => \A t \in Pending(d)' : t \notin Pending(e)'
    BY <1>1, <1>2, <1>3 DEF FreshInv
  <2>5. \A d, e \in Everyone : pc'[e] = "exchange" => \A t \in Pending(d)' : token'[e] # t
    BY <1>1, <1>2, <1>3 DEF FreshInv
  <2> QED BY <2>1, <2>2, <2>3, <2>4, <2>5 DEF FreshInv
<1>4. CASE /\ Pending(c)' \subseteq Pending(c) /\ UNCHANGED <<issued, dead>>
           /\ token'[c] \in {token[c], stored, NoToken}
           /\ unsaved'[c] \in {unsaved[c], token[c], NoToken}
           /\ stored' # stored => stored' \in Pending(c) /\ Pending(c)' = {}
           /\ pc'[c] = "exchange" => token'[c] = stored
  <2>0. \A d \in Everyone : Pending(d)' \subseteq Pending(d)
    BY <1>1, <1>4
  <2>1. stored' <= issued' /\ \A t \in dead' : t <= issued'
    BY <1>2, <1>4 DEF FreshInv
  <2>2. \A d \in Everyone : token'[d] <= issued' /\ unsaved'[d] <= issued'
    BY <1>1, <1>2, <1>4, TokenTypes DEF FreshInv
  <2>3. \A d \in Everyone : \A t \in Pending(d)' : t # stored' /\ t \notin dead'
    BY <1>1, <1>4, <2>0 DEF FreshInv
  <2>4. \A d, e \in Everyone : d # e => \A t \in Pending(d)' : t \notin Pending(e)'
    BY <2>0 DEF FreshInv
  <2>5. \A d, e \in Everyone : pc'[e] = "exchange" => \A t \in Pending(d)' : token'[e] # t
    BY <1>1, <1>4, <2>0 DEF FreshInv
  <2> QED BY <2>1, <2>2, <2>3, <2>4, <2>5 DEF FreshInv
<1> QED BY <1>3, <1>4, PendingOfStep

(* What happened once is not forgotten.                                    *)
LEMMA HistoryStays ==
  ASSUME Typed, NEW c \in Everyone, Steps(c)
  PROVE  /\ raced => raced'
         /\ lost => lost'
         /\ reused' # reused => Refused(c) /\ token[c] \in dead
         /\ lost' # lost => Fail(c) /\ lost' = (lost \/ LosesToken(c))
BY DEF Typed, Steps, UseCached, NotCached, Fetch, Race, Exchange, Refused, Again, Save,
       Cache, Finish, Fail, Consent

LEMMA AloneKept ==
  ASSUME Typed, LockInv, LockInv', AloneInv, NEW c \in Everyone, Steps(c)
  PROVE  AloneInv'
<1> SUFFICES ASSUME ~raced', NEW d \in Callers \ InTxn, Engaged(d)'
             PROVE  holder' = {} /\ \A e \in Callers \ {d} : ~Engaged(e)'
  BY DEF AloneInv
<1>1. /\ \A e \in Everyone \ {c} : pc'[e] = pc[e]
      /\ holder' \ {c} = holder \ {c}
  BY OthersStay
<1>2. ~raced /\ d \in Everyone /\ ~Transactional(d)
  BY HistoryStays, TokenAssumption DEF Everyone, Transactional
<1>3. Engaged(d) => holder = {} /\ \A e \in Callers \ {d} : ~Engaged(e)
  BY <1>2 DEF AloneInv
<1>4. \A e \in InTxn : Engaged(e)' => e \in holder'
  BY DEF LockInv, Engaged
<1>5. CASE Fetch(c)
  <2>1. ~Unheld(c) /\ holder \subseteq {c} /\ pc[c] = "fetch"
    BY <1>2, <1>5 DEF Fetch, Race, LockIsFree
  <2>2. d = c
    BY <1>1, <2>1, <1>2 DEF Unheld, Engaged
  <2>3. holder' = {}
    BY <1>2, <1>5, <2>1, <2>2 DEF Fetch, LockInv
  <2>4. \A e \in Callers \ {d} : ~Engaged(e)'
    <3> SUFFICES ASSUME NEW e \in Callers \ {d}, Engaged(e)' PROVE FALSE
      OBVIOUS
    <3>1. e \notin InTxn
      BY <1>4, <2>3
    <3>2. Engaged(e)
      BY <1>1, <2>2 DEF Engaged, Everyone
    <3> QED BY <2>1, <2>2, <3>1, <3>2 DEF Unheld, Engaged
  <2> QED BY <2>3, <2>4
<1>6. CASE Save(c)
  <2>1. ~Unheld(c) /\ pc'[c] = "cache"
    BY <1>2, <1>6, OwnEntry DEF Save, Race
  <2>2. d # c /\ pc[d] \in {"exchange", "save"}
    BY <1>1, <1>2, <2>1 DEF Engaged
  <2> QED BY <2>1, <2>2 DEF Unheld
<1>7. CASE ~Fetch(c) /\ ~Save(c)
  <2>1. \A e \in Callers : Engaged(e)' => Engaged(e)
    <3>1. c \in Callers => c \notin Consents
      BY TokenAssumption
    <3>2. c \in Callers /\ Engaged(c)' => Engaged(c)
      BY <1>7, <3>1, OwnEntry DEF Steps, Engaged
    <3> QED BY <1>1, <3>2 DEF Engaged, Everyone
  <2>2. holder' \subseteq holder
    BY <1>7 DEF Steps, UseCached, NotCached, Exchange, Refused, Again, Cache, Finish, Fail, Consent
  <2> QED BY <1>3, <2>1, <2>2
<1> QED BY <1>5, <1>6, <1>7

(* A pending token of a caller stays so, goes into the row or is lost.     *)
LEMMA PendingStays ==
  ASSUME Typed, LockInv, NEW c \in Callers, Steps(c), Pending(c) # {}
  PROVE  Pending(c)' # {} \/ stored' \in Pending(c) \/ lost'
<1>0. c \in Everyone /\ c \notin Consents
  BY TokenAssumption DEF Everyone
<1>1. \/ pc[c] = "save" /\ Pending(c) = {token[c]} /\ token[c] # NoToken
      \/ /\ pc[c] \in {"cache", "work"} /\ unsaved[c] # NoToken /\ c \in InTxn
         /\ Pending(c) = {unsaved[c]}
  <2>1. unsaved[c] # NoToken => pc[c] \in {"cache", "work"} /\ Transactional(c)
    BY <1>0 DEF LockInv
  <2>2. Transactional(c) => c \in InTxn
    BY <1>0 DEF Transactional
  <2>3. pc[c] = "save" => token[c] # NoToken
    BY <1>0 DEF Typed
  <2> QED BY <2>1, <2>2, <2>3 DEF Pending
<1>2. CASE Save(c)
  <2>1. /\ pc[c] = "save" /\ pc'[c] = "cache"
        /\ IF Transactional(c) THEN unsaved'[c] = token[c] ELSE unsaved'[c] = unsaved[c]
    BY <1>0, <1>2, OwnEntry
  <2>2. ~Transactional(c) => stored' = token[c]
    BY <1>2 DEF Save, Upsert
  <2> QED BY <1>1, <2>1, <2>2 DEF Pending
<1>3. CASE Cache(c)
  <2>1. pc[c] = "cache" /\ pc'[c] = "work"
    BY <1>0, <1>3, OwnEntry
  <2>2. unsaved'[c] = unsaved[c]
    BY <1>3 DEF Cache
  <2> QED BY <1>1, <2>1, <2>2 DEF Pending
<1>4. CASE Finish(c)
  <2>1. pc[c] = "work"
    BY <1>0, <1>4, OwnEntry
  <2> QED BY <1>1, <1>4, <2>1 DEF Finish
<1>5. CASE Fail(c)
  BY <1>1, <1>5 DEF Fail, LosesToken
<1>6. CASE UseCached(c) \/ NotCached(c) \/ Fetch(c) \/ Exchange(c) \/ Refused(c) \/ Again(c)
  BY <1>0, <1>1, <1>6, OwnEntry
<1> QED BY <1>0, <1>2, <1>3, <1>4, <1>5, <1>6 DEF Steps

(* Two callers are about to present or have just replaced a token only if  *)
(* there was a race.                                                       *)
LEMMA OneEngaged ==
  ASSUME LockInv, AloneInv, ~raced, NEW c \in Callers, NEW d \in Callers,
         Engaged(c), Engaged(d)
  PROVE  c = d
BY DEF LockInv, AloneInv, Engaged

LEMMA LiveKept ==
  ASSUME TokensInv, NEW c \in Everyone, Steps(c)
  PROVE  LiveInv'
<1> SUFFICES ASSUME ~lost', ~raced'
             PROVE  /\ ~reused'
                    /\ \A d \in Callers : pc'[d] = "exchange" => token'[d] \notin dead'
                    /\ stored' \in dead' => \E d \in Callers : Pending(d)' # {}
  BY DEF LiveInv
<1>0. Typed /\ LockInv /\ FreshInv /\ AloneInv
  BY DEF TokensInv
<1>1. ~lost /\ ~raced
  BY <1>0, HistoryStays
<1>2. /\ ~reused
      /\ \A d \in Callers : pc[d] = "exchange" => token[d] \notin dead
      /\ stored \in dead => \E d \in Callers : Pending(d) # {}
  BY <1>1 DEF TokensInv, LiveInv
<1>3. /\ \A d \in Everyone \ {c} : pc'[d] = pc[d] /\ token'[d] = token[d]
      /\ \A d \in Everyone \ {c} : Pending(d)' = Pending(d)
  BY <1>0, OthersStay
<1>4. c \in Consents => pc[c] \notin {"fetch", "exchange"}
  BY <1>0 DEF LockInv
<1>5. Callers \subseteq Everyone /\ (c \notin Callers => c \in Consents)
  BY DEF Everyone
<1>6. ~reused'
  <2> SUFFICES ASSUME reused' # reused PROVE FALSE
    BY <1>2
  <2>1. Refused(c) /\ token[c] \in dead
    BY <1>0, HistoryStays
  <2>2. pc[c] = "exchange"
    BY <2>1 DEF Refused
  <2> QED BY <1>2, <1>4, <1>5, <2>1, <2>2
<1>7. \/ UNCHANGED dead
      \/ dead' = dead \cup {token[c]} /\ pc[c] = "exchange"
  BY <1>0, PendingOfStep
<1>8. ASSUME NEW d \in Callers, pc'[d] = "exchange"
      PROVE  token'[d] \notin dead'
  <2>1. CASE d = c
    <3>1. Fetch(c) /\ token'[c] = stored
      BY <1>0, <1>8, <2>1, PendingOfStep
    <3>2. holder \subseteq {c} /\ ~Unheld(c) /\ pc[c] = "fetch" /\ UNCHANGED dead
      BY <3>1 DEF Fetch, LockIsFree, Race
    <3>3. stored \notin dead
      <4> SUFFICES ASSUME stored \in dead PROVE FALSE
        OBVIOUS
      <4>1. PICK e \in Callers : Pending(e) # {}
        BY <1>2
      <4>2. e \in Everyone /\ e \notin Consents
        BY <1>5, TokenAssumption
      <4>3. unsaved[e] # NoToken => e \in holder /\ e \in InTxn /\ pc[e] \in {"cache", "work"}
        BY <1>0, <4>2 DEF LockInv, Transactional
      <4>4. pc[e] = "save" \/ unsaved[e] # NoToken
        BY <4>1 DEF Pending
      <4>5. e # c
        BY <3>2, <4>3, <4>4
      <4>6. e \notin holder
        BY <3>2, <4>5
      <4>7. pc[e] = "save" /\ e \notin InTxn
        BY <1>0, <4>3, <4>4, <4>6 DEF LockInv
      <4> QED BY <3>2, <4>5, <4>7 DEF Unheld
    <3> QED BY <2>1, <3>1, <3>2, <3>3
  <2>2. CASE d # c
    <3>1. pc[d] = "exchange" /\ token'[d] = token[d] /\ token[d] \notin dead
      BY <1>2, <1>3, <1>5, <1>8, <2>2
    <3>2. pc[c] # "exchange"
      <4> SUFFICES ASSUME pc[c] = "exchange" PROVE FALSE
        OBVIOUS
      <4>1. c \in Callers /\ Engaged(c) /\ Engaged(d)
        BY <1>4, <1>5, <3>1 DEF Engaged
      <4> QED BY <1>0, <1>1, <2>2, <4>1, OneEngaged
    <3> QED BY <1>7, <3>1, <3>2
  <2> QED BY <2>1, <2>2
<1>9. ASSUME stored' \in dead'
      PROVE  \E d \in Callers : Pending(d)' # {}
  <2>1. CASE /\ Pending(c)' = {issued + 1} /\ UNCHANGED stored
    <3>1. CASE c \in Callers
      BY <2>1, <3>1
    <3>2. CASE c \notin Callers
      <4>1. stored \in dead
        BY <1>4, <1>5, <1>7, <1>9, <2>1, <3>2
      <4>2. PICK e \in Callers : Pending(e) # {}
        BY <1>2, <4>1
      <4> QED BY <1>3, <1>5, <3>2, <4>2
    <3> QED BY <3>1, <3>2
  <2>2. CASE /\ UNCHANGED dead
             /\ stored' # stored => stored' \in Pending(c)
    <3>1. \A t \in Pending(c) : t # stored /\ t \notin dead
      BY <1>0 DEF FreshInv
    <3>2. stored' = stored /\ stored \in dead
      BY <1>9, <2>2, <3>1
    <3>3. PICK e \in Callers : Pending(e) # {}
      BY <1>2, <3>2
    <3>4. CASE e = c
      <4>1. stored' \notin Pending(c)
        BY <3>1, <3>2
      <4> QED BY <1>0, <3>3, <3>4, <4>1, PendingStays
    <3>5. CASE e # c
      BY <1>3, <1>5, <3>3, <3>5
    <3> QED BY <3>4, <3>5
  <2> QED BY <1>0, <2>1, <2>2, PendingOfStep
<1> QED BY <1>6, <1>8, <1>9

(* While a consent's own upsert is open no caller has a token pending, and *)
(* the tokens that eBay issues after it are newer.  A second consent of    *)
(* the same user would be no caller, and may well save the older token.    *)
SingleConsent == \A c, d \in Consents : c = d

LEMMA ConsentKept ==
  ASSUME SingleConsent, TokensInv, ConsentInv, NEW c \in Everyone, Steps(c)
  PROVE  ConsentInv'
<1>0. Typed /\ LockInv /\ FreshInv /\ AloneInv
  BY DEF TokensInv
<1> SUFFICES ASSUME ~raced', NEW k \in Consents, pc'[k] = "over", token'[k] # NoToken
             PROVE  /\ stored' >= token'[k]
                    /\ \A d \in Callers : \A t \in Pending(d)' : t >= token'[k]
  BY DEF ConsentInv
<1>1. ~raced
  BY <1>0, HistoryStays
<1>2. /\ \A d \in Everyone \ {c} : pc'[d] = pc[d] /\ token'[d] = token[d]
      /\ \A d \in Everyone \ {c} : Pending(d)' = Pending(d)
  BY <1>0, OthersStay
<1>3. /\ Callers \subseteq Everyone /\ k \in Everyone /\ k \notin Callers
      /\ issued \in Nat /\ token[k] \in Nat /\ token[k] <= issued
  <2>1. Callers \subseteq Everyone /\ k \in Everyone /\ k \notin Callers
    BY TokenAssumption DEF Everyone
  <2>2. issued \in Nat /\ Tokens \cup {NoToken} \subseteq Nat
    BY <1>0, TokenTypes DEF Typed
  <2>3. token[k] \in Nat
    BY <1>0, <2>1, <2>2 DEF Typed
  <2> QED BY <1>0, <2>1, <2>2, <2>3 DEF FreshInv
<1>4. CASE c = k
  <2>1. Finish(k)
    <3>1. ~Fail(k)
      BY <1>0, <1>3, <1>4, OwnEntry
    <3>2. ~Save(k) /\ ~Cache(k) /\ ~Consent(k)
      BY <1>0, <1>3, <1>4, OwnEntry
    <3> QED BY <1>3, <1>4, <3>1, <3>2 DEF Steps
  <2>2. pc[k] = "work" /\ token'[k] = token[k]
    BY <1>0, <1>3, <1>4, <2>1, OwnEntry
  <2>3. unsaved[k] = token[k] /\ token[k] # NoToken /\ k \in holder
    BY <1>0, <1>3, <2>2 DEF LockInv
  <2>4. stored' = token[k]
    BY <2>1, <2>3 DEF Finish
  <2>5. ASSUME NEW d \in Callers PROVE Pending(d)' = {}
    <3>1. d # k /\ d \in Everyone
      BY <1>3
    <3>2. d \notin holder
      BY <1>0, <2>3, <3>1 DEF LockInv
    <3>3. unsaved[d] = NoToken
      BY <1>0, <3>1, <3>2 DEF LockInv
    <3>4. pc[d] # "save"
      BY <1>0, <1>1, <2>3, <3>2 DEF LockInv, AloneInv, Engaged
    <3>5. Pending(d) = {}
      BY <3>3, <3>4 DEF Pending
    <3> QED BY <1>2, <1>4, <3>1, <3>5
  <2> QED BY <1>3, <2>2, <2>4, <2>5
<1>5. CASE c # k
  <2>1. c \in Callers
    BY <1>5 DEF SingleConsent, Everyone
  <2>2. pc[k] = "over" /\ token'[k] = token[k] /\ token[k] # NoToken
    BY <1>2, <1>3, <1>5
  <2>3. /\ stored >= token[k]
        /\ \A d \in Callers : \A t \in Pending(d) : t >= token[k]
    BY <1>1, <2>2 DEF ConsentInv
  <2>4. CASE Pending(c)' = {issued + 1} /\ UNCHANGED stored
    <3>1. issued + 1 >= token[k]
      BY <1>3
    <3> QED BY <1>2, <1>3, <2>2, <2>3, <2>4, <3>1
  <2>5. CASE /\ Pending(c)' \subseteq Pending(c)
             /\ stored' # stored => stored' \in Pending(c)
    BY <1>2, <1>3, <2>1, <2>2, <2>3, <2>5
  <2> QED BY <1>0, <2>4, <2>5, PendingOfStep
<1> QED BY <1>4, <1>5

-----------------------------------------------------------------------------
(* Nothing in the invariants depends on the cache.                         *)
LEMMA StutterKeeps ==
  ASSUME TokensInv, Expire \/ UNCHANGED vars
  PROVE  TokensInv' /\ (ConsentInv => ConsentInv')
<1>1. /\ UNCHANGED <<stored, unsaved, holder, pc, token, issued, dead, reused, lost, raced, fails>>
      /\ cached' \in BOOLEAN
  BY DEF Expire, vars, TokensInv, Typed
<1>2. \A c \in Everyone : Pending(c)' = Pending(c) /\ Engaged(c)' = Engaged(c)
  BY <1>1 DEF Pending, Engaged
<1>3. Callers \subseteq Everyone
  BY DEF Everyone
<1>4. Typed'
  BY <1>1 DEF TokensInv, Typed
<1>5. LockInv'
  BY <1>1 DEF TokensInv, LockInv
<1>6. FreshInv'
  BY <1>1, <1>2 DEF TokensInv, FreshInv
<1>7. AloneInv'
  BY <1>1 DEF TokensInv, AloneInv, Engaged
<1>8. LiveInv'
  BY <1>1, <1>2, <1>3 DEF TokensInv, LiveInv
<1>9. ConsentInv => ConsentInv'
  BY <1>1, <1>2, <1>3 DEF ConsentInv
<1> QED BY <1>4, <1>5, <1>6, <1>7, <1>8, <1>9 DEF TokensInv

LEMMA TokensKept ==
  ASSUME TokensInv, [Next]_vars
  PROVE  TokensInv' /\ (SingleConsent /\ ConsentInv => ConsentInv')
<1>1. CASE Expire \/ UNCHANGED vars
  BY <1>1, StutterKeeps
<1>2. CASE ~(Expire \/ UNCHANGED vars)
  <2>1. PICK c \in Everyone : Steps(c)
    BY <1>2 DEF Next, Steps, Everyone
  <2>2. Typed'
    BY <2>1, TypesKept DEF TokensInv
  <2>3. LockInv'
    BY <2>1, LocksKept DEF TokensInv
  <2>4. FreshInv'
    BY <2>1, FreshKept DEF TokensInv
  <2>5. AloneInv'
    BY <2>1, <2>3, AloneKept DEF TokensInv
  <2>6. LiveInv'
    BY <2>1, LiveKept
  <2>7. SingleConsent /\ ConsentInv => ConsentInv'
    BY <2>1, ConsentKept
  <2> QED BY <2>2, <2>3, <2>4, <2>5, <2>6, <2>7 DEF TokensInv
<1> QED BY <1>1, <1>2

LEMMA TokensInvHolds == Spec => []TokensInv
<1>1. Init => TokensInv
  BY TokensInitHolds
<1>2. TokensInv /\ [Next]_vars => TokensInv'
  BY TokensKept
<1> QED BY <1>1, <1>2, PTL DEF Spec

LEMMA TokensTyped == TokensInv => TypeOK
<1> SUFFICES ASSUME TokensInv PROVE TypeOK
  OBVIOUS
<1>1. Cardinality(holder) <= 1
  <2>1. CASE holder = {}
    BY <2>1, FS_EmptySet
  <2>2. CASE holder # {}
    <3>1. PICK c \in holder : TRUE
      BY <2>2
    <3>2. holder = {c}
      BY <3>1 DEF TokensInv, LockInv
    <3> QED BY <3>2, FS_Singleton
  <2> QED BY <2>1, <2>2
<1> QED BY <1>1 DEF TokensInv, Typed, TypeOK

(* Type correctness; the FOR UPDATE of get_valid_refresh_token and the     *)
(* upsert give the row to one transaction at a time.                       *)
THEOREM TokensStayTyped == Spec => []TypeOK
BY TokensTyped, TokensInvHolds, PTL

(* A refresh token that eBay has replaced is presented again only after a  *)
(* service lost the new one, or overlapped one that cannot hold the row.   *)
THEOREM OldTokenExplained == Spec => []OldTokenOnlyIfLost
<1>1. TokensInv => OldTokenOnlyIfLost
  BY DEF TokensInv, LiveInv, OldTokenOnlyIfLost
<1> QED BY <1>1, TokensInvHolds, PTL

(* Moreover, where a user has one run of handle_callback at a time, no     *)
(* rotation that saves late overwrites the token of the user's consent.    *)
THEOREM TokensAlwaysHold ==
  ASSUME SingleConsent
  PROVE  Spec => []TokensHold
<1>1. Init => TokensInv /\ ConsentInv
  BY TokensInitHolds
<1>2. TokensInv /\ ConsentInv /\ [Next]_vars => (TokensInv /\ ConsentInv)'
  BY SingleConsent, TokensKept
<1>3. TokensInv /\ ConsentInv => TokensHold
  BY DEF TokensInv, LiveInv, OldTokenOnlyIfLost, ConsentInv, ConsentSurvives, TokensHold
<1> QED BY <1>1, <1>2, <1>3, PTL DEF Spec

-----------------------------------------------------------------------------
(***************************************************************************)
(* Proofs about Articles, for every number of articles and of creations at *)
(* the same time, and every list of candidates.  A link leads to an        *)
(* article that is still stored.                                           *)
(***************************************************************************)
ArticleRows == [slug : Slugs, status : {"draft", "published"}]
Creations == [at : {"asking", "inserting"}, title : Titles, n : Nat]
SlugsDiffer == \A i, j \in Stored : article[i].slug = article[j].slug => i = j
GivenLead == \A g \in given : g[2] \in Stored /\ article[g[2]].slug = g[1]

ArticlesInv == ArticlesTypeOK /\ SlugsDiffer /\ GivenLead

LEMMA NoArticleIsNone == NoArticle \notin ArticleRows /\ NotWriting.at = "rest"
BY DEF NoArticle, ArticleRows, NotWriting

(* What changes of one article: its row, and the links to it.                *)
LEMMA OneRowChanges ==
  ASSUME ArticlesInv, NEW i \in Articles, NEW row \in ArticleRows \cup {NoArticle},
         article' = [article EXCEPT ![i] = row],
         row # NoArticle => \A j \in Stored \ {i} : article[j].slug # row.slug,
         given' \subseteq given \cup {<<row.slug, i>>},
         row = NoArticle => \A g \in given' : g \in given /\ g[2] # i,
         row # NoArticle => \A g \in given : g[2] = i => g[1] = row.slug
  PROVE  /\ article' \in [Articles -> ArticleRows \cup {NoArticle}]
         /\ given' \subseteq Slugs \X Articles
         /\ SlugsDiffer' /\ GivenLead'
<1>1. article \in [Articles -> ArticleRows \cup {NoArticle}] /\ given \subseteq Slugs \X Articles
  BY DEF ArticlesInv, ArticlesTypeOK, ArticleRows
<1>2. /\ article' \in [Articles -> ArticleRows \cup {NoArticle}]
      /\ article'[i] = row /\ \A j \in Articles \ {i} : article'[j] = article[j]
  BY <1>1
<1>3. Stored' = IF row = NoArticle THEN Stored \ {i} ELSE Stored \cup {i}
  BY <1>2 DEF Stored
<1>4. row # NoArticle => row.slug \in Slugs
  BY DEF ArticleRows
<1>5. given' \subseteq Slugs \X Articles
  BY <1>1, <1>4
<1>6. SlugsDiffer'
  <2>1. SUFFICES ASSUME NEW j \in Stored', NEW k \in Stored', article'[j].slug = article'[k].slug
                 PROVE  j = k
    BY DEF SlugsDiffer
  <2>2. j \in Articles /\ k \in Articles
    BY <2>1 DEF Stored
  <2>3. CASE j # i /\ k # i
    BY <1>2, <1>3, <2>1, <2>2, <2>3 DEF ArticlesInv, SlugsDiffer
  <2>4. CASE j = i \/ k = i
    BY <1>2, <1>3, <2>1, <2>2, <2>4
  <2>5. QED
    BY <2>3, <2>4
<1>7. GivenLead'
  <2>1. SUFFICES ASSUME NEW g \in given'
                 PROVE  g[2] \in Stored' /\ article'[g[2]].slug = g[1]
    BY DEF GivenLead
  <2>2. CASE row = NoArticle
    BY <1>1, <1>2, <1>3, <2>1, <2>2 DEF ArticlesInv, GivenLead, Stored
  <2>3. CASE row # NoArticle /\ g = <<row.slug, i>>
    BY <1>2, <1>3, <2>3
  <2>4. CASE row # NoArticle /\ g \in given
    BY <1>1, <1>2, <1>3, <2>1, <2>4 DEF ArticlesInv, GivenLead, Stored
  <2>5. QED
    BY <2>1, <2>2, <2>3, <2>4
<1>8. QED
  BY <1>2, <1>5, <1>6, <1>7

(* What changes of one creation.                                             *)
LEMMA OneCreationMoves ==
  ASSUME ArticlesInv, NEW w \in Writers, NEW new \in Creations \cup {NotWriting},
         new # NotWriting => new.n \in DOMAIN Candidates[new.title],
         writing' = [writing EXCEPT ![w] = new]
  PROVE  /\ writing' \in [Writers -> Creations \cup {NotWriting}]
         /\ \A v \in Writers : writing'[v] # NotWriting =>
              writing'[v].n \in DOMAIN Candidates[writing'[v].title]
<1>1. writing \in [Writers -> Creations \cup {NotWriting}]
  BY DEF ArticlesInv, ArticlesTypeOK, Creations
<1>2. /\ writing' \in [Writers -> Creations \cup {NotWriting}]
      /\ writing'[w] = new /\ \A v \in Writers \ {w} : writing'[v] = writing[v]
  BY <1>1
<1>3. QED
  BY <1>2 DEF ArticlesInv, ArticlesTypeOK

LEMMA ArticlesKept == ArticlesInv /\ [ArticlesNext]_articleVars => ArticlesInv'
<1> SUFFICES ASSUME ArticlesInv, [ArticlesNext]_articleVars PROVE ArticlesInv'
  OBVIOUS
<1>1. /\ article \in [Articles -> ArticleRows \cup {NoArticle}]
      /\ writing \in [Writers -> Creations \cup {NotWriting}]
      /\ \A w \in Writers : writing[w] # NotWriting =>
           writing[w].n \in DOMAIN Candidates[writing[w].title]
      /\ given \subseteq Slugs \X Articles
  BY DEF ArticlesInv, ArticlesTypeOK, ArticleRows, Creations
<1>2. ASSUME NEW w \in Writers, NEW new \in Creations \cup {NotWriting},
             new # NotWriting => new.n \in DOMAIN Candidates[new.title],
             writing' = [writing EXCEPT ![w] = new], UNCHANGED <<article, given>>
      PROVE  ArticlesInv'
  <2>1. /\ writing' \in [Writers -> Creations \cup {NotWriting}]
        /\ \A v \in Writers : writing'[v] # NotWriting =>
             writing'[v].n \in DOMAIN Candidates[writing'[v].title]
    BY <1>2, OneCreationMoves
  <2>2. QED
    BY <1>1, <1>2, <2>1
       DEF ArticlesInv, ArticlesTypeOK, SlugsDiffer, GivenLead, Stored, ArticleRows, Creations
<1>3. ASSUME NEW i \in Articles, NEW row \in ArticleRows \cup {NoArticle},
             article' = [article EXCEPT ![i] = row],
             row # NoArticle => \A j \in Stored \ {i} : article[j].slug # row.slug,
             given' \subseteq given \cup {<<row.slug, i>>},
             row = NoArticle => \A g \in given' : g \in given /\ g[2] # i,
             row # NoArticle => \A g \in given : g[2] = i => g[1] = row.slug,
             writing' \in [Writers -> Creations \cup {NotWriting}],
             \A v \in Writers : writing'[v] # NotWriting =>
               writing'[v].n \in DOMAIN Candidates[writing'[v].title]
      PROVE  ArticlesInv'
  <2>1. /\ article' \in [Articles -> ArticleRows \cup {NoArticle}]
        /\ given' \subseteq Slugs \X Articles
        /\ SlugsDiffer' /\ GivenLead'
    BY <1>3, OneRowChanges
  <2>2. QED
    BY <1>3, <2>1 DEF ArticlesInv, ArticlesTypeOK, ArticleRows, Creations
<1>4. ASSUME NEW w \in Writers, NEW t \in Titles, Begin(w, t) PROVE ArticlesInv'
  <2> DEFINE new == [at |-> "asking", title |-> t, n |-> 1]
  <2>1. 1 \in DOMAIN Candidates[t]
    BY ArticlesAssumption
  <2>2. new \in Creations /\ new.title = t /\ new.n = 1
    BY DEF Creations
  <2>3. writing' = [writing EXCEPT ![w] = new] /\ UNCHANGED <<article, given>>
    BY <1>4 DEF Begin
  <2> HIDE DEF new
  <2>4. QED
    BY <1>2, <2>1, <2>2, <2>3
<1>5. ASSUME NEW w \in Writers, Ask(w) PROVE ArticlesInv'
  <2>1. writing[w] \in Creations /\ writing[w] # NotWriting
    BY <1>1, <1>5, NoArticleIsNone DEF Ask
  <2>2. PICK old \in Creations : old = writing[w] /\ old.n \in DOMAIN Candidates[old.title]
    BY <1>1, <2>1
  <2>3. UNCHANGED <<article, given>>
    BY <1>5 DEF Ask
  <2>4. CASE SlugTaken(Candidate(w))
    <3> DEFINE new == [old EXCEPT !.n = old.n + 1]
    <3>1. old.n < Len(Candidates[old.title]) /\ writing' = [writing EXCEPT ![w] = new]
      BY <1>5, <2>2, <2>4 DEF Ask
    <3>2. new \in Creations /\ new.title = old.title /\ new.n = old.n + 1
      BY DEF Creations
    <3>3. old.title \in Titles /\ old.n \in Nat
      BY DEF Creations
    <3>4. old.n + 1 \in DOMAIN Candidates[old.title]
      BY <2>2, <3>1, <3>3, ArticlesAssumption
    <3> HIDE DEF new
    <3>5. QED
      BY <1>2, <2>3, <3>1, <3>2, <3>4
  <2>5. CASE ~SlugTaken(Candidate(w))
    <3> DEFINE new == [old EXCEPT !.at = "inserting"]
    <3>1. writing' = [writing EXCEPT ![w] = new]
      BY <1>5, <2>2, <2>5 DEF Ask
    <3>2. new \in Creations /\ new.title = old.title /\ new.n = old.n
      BY DEF Creations
    <3> HIDE DEF new
    <3>3. QED
      BY <1>2, <2>2, <2>3, <3>1, <3>2
  <2>6. QED
    BY <2>4, <2>5
<1>6. ASSUME NEW w \in Writers, NEW i \in Articles, Insert(w, i) PROVE ArticlesInv'
  <2> DEFINE slug == Candidate(w)
             row == [slug |-> slug, status |-> "draft"]
  <2>1. writing[w] \in Creations /\ writing[w] # NotWriting
    BY <1>1, <1>6, NoArticleIsNone DEF Insert
  <2>2. slug \in Slugs
    BY <1>1, <2>1 DEF Candidate, Slugs, Creations
  <2>3. row \in ArticleRows /\ row.slug = slug
    BY <2>2 DEF ArticleRows
  <2>4. row # NoArticle
    BY <2>3, NoArticleIsNone
  <2>5. \A j \in Stored : article[j].slug # slug
    BY <1>6 DEF Insert, SlugTaken
  <2>6. \A g \in given : g[2] # i
    BY <1>6 DEF Insert, ArticlesInv, GivenLead, Stored
  <2>7. /\ article' = [article EXCEPT ![i] = row] /\ given' = given
        /\ writing' = [writing EXCEPT ![w] = NotWriting]
    BY <1>6 DEF Insert
  <2>8. /\ writing' \in [Writers -> Creations \cup {NotWriting}]
        /\ \A v \in Writers : writing'[v] # NotWriting =>
             writing'[v].n \in DOMAIN Candidates[writing'[v].title]
    BY <2>7, OneCreationMoves
  <2> HIDE DEF row
  <2>9. QED
    BY <1>3, <2>3, <2>4, <2>5, <2>6, <2>7, <2>8
<1>7. ASSUME NEW w \in Writers, FailToCreate(w) PROVE ArticlesInv'
  BY <1>2, <1>7 DEF FailToCreate
<1>8. ASSUME NEW i \in Stored, NEW status \in {"draft", "published"},
             article' = [article EXCEPT ![i].status = status],
             given' \subseteq given \cup {<<article[i].slug, i>>}, writing' = writing
      PROVE  ArticlesInv'
  <2>1. i \in Articles /\ article[i] \in ArticleRows
    BY <1>1 DEF Stored
  <2>2. PICK old \in ArticleRows : old = article[i]
    BY <2>1
  <2> DEFINE row == [old EXCEPT !.status = status]
  <2>3. row \in ArticleRows /\ row.slug = article[i].slug
    BY <2>2 DEF ArticleRows
  <2>4. article' = [article EXCEPT ![i] = row]
    BY <1>1, <1>8, <2>1, <2>2
  <2>5. row # NoArticle
    BY <2>3, NoArticleIsNone
  <2>6. \A j \in Stored \ {i} : article[j].slug # article[i].slug
    BY <1>8 DEF ArticlesInv, SlugsDiffer
  <2>7. \A g \in given : g[2] = i => g[1] = article[i].slug
    BY DEF ArticlesInv, GivenLead
  <2>8. /\ writing' \in [Writers -> Creations \cup {NotWriting}]
        /\ \A v \in Writers : writing'[v] # NotWriting =>
             writing'[v].n \in DOMAIN Candidates[writing'[v].title]
    BY <1>1, <1>8
  <2> HIDE DEF row
  <2>9. /\ \A j \in Stored \ {i} : article[j].slug # row.slug
        /\ \A g \in given : g[2] = i => g[1] = row.slug
        /\ given' \subseteq given \cup {<<row.slug, i>>}
    BY <1>8, <2>3, <2>6, <2>7
  <2>10. QED
    BY <1>3, <2>1, <2>3, <2>4, <2>5, <2>8, <2>9
<1>9. ASSUME NEW i \in Articles, Remove(i) PROVE ArticlesInv'
  <2>1. /\ article' = [article EXCEPT ![i] = NoArticle]
        /\ given' = {g \in given : g[2] # i} /\ writing' = writing
    BY <1>9 DEF Remove
  <2>2. \A g \in given' : g \in given /\ g[2] # i
    BY <2>1
  <2>3. given' \subseteq given \cup {<<NoArticle.slug, i>>}
    BY <2>2
  <2>4. NoArticle \in ArticleRows \cup {NoArticle}
    OBVIOUS
  <2>5. QED
    BY <1>1, <1>3, <2>1, <2>2, <2>3, <2>4
<1>10. ASSUME NEW i \in Articles, Publish(i) \/ Unpublish(i) PROVE ArticlesInv'
  BY <1>8, <1>10 DEF Publish, Unpublish
<1>11. CASE UNCHANGED articleVars
  BY <1>11 DEF articleVars, ArticlesInv, ArticlesTypeOK, SlugsDiffer, GivenLead, Stored
<1>12. ASSUME NEW i \in Articles, Update(i) PROVE ArticlesInv'
  BY <1>11, <1>12 DEF Update
<1>13. QED
  BY <1>4, <1>5, <1>6, <1>7, <1>9, <1>10, <1>11, <1>12 DEF ArticlesNext

LEMMA ArticlesStart == ArticlesInit => ArticlesInv
BY DEF ArticlesInit, ArticlesInv, ArticlesTypeOK, SlugsDiffer, GivenLead, Stored

LEMMA LinksOfArticles == ArticlesInv => LinksLead
BY DEF ArticlesInv, SlugsDiffer, GivenLead, LinksLead

(* While creations ask for the same slug at the same time, and articles are  *)
(* renamed, published and removed, a slug has one article and a link that    *)
(* was given out leads to the article it was given for.                      *)
THEOREM LinksAlwaysLead == ArticlesSpec => []LinksLead
BY ArticlesStart, ArticlesKept, LinksOfArticles, PTL DEF ArticlesSpec

-----------------------------------------------------------------------------
(***************************************************************************)
(* Proofs about EbayConsent, for every number of users, apps and logins,   *)
(* whatever eBay cuts and however late it answers.  A callback goes on     *)
(* with the request of its own login, or there was a later one.            *)
(***************************************************************************)
Places == {"none", "ebay", "environment", "process", "exchange", "save", "over"}
Consented == [user : AppUsers, app : Apps]

(* What a callback that has its request knows of it.                         *)
TakenInv ==
  \A r \in Logged :
    /\ visit[r] \in {"exchange", "save"} =>
         taken[r] \in Logged /\ (requests[taken[r]].user = requests[r].user \/ r \in mixed)
    /\ visit[r] = "save" => requests[taken[r]].app = requests[r].app

FilingInv == ConsentTypeOK /\ TakenInv /\ ConsentIsFiledAsGiven

LEMMA FilingTypes ==
  ASSUME FilingInv
  PROVE  /\ requests \in Seq(Consented) /\ Latest \in Nat /\ Latest <= MaxRequests
         /\ Logged = DOMAIN requests /\ Logged \subseteq 1..MaxRequests
         /\ \A r \in Logged : requests[r] \in Consented /\ r \in Nat /\ r # None /\ r <= Latest
         /\ visit \in [1..MaxRequests -> Places]
         /\ taken \in [1..MaxRequests -> Logged \cup {None}]
         /\ filed \in [AppUsers \X Apps -> Logged \cup {None}]
         /\ expired \subseteq Logged /\ named \subseteq Logged /\ mixed \subseteq Logged
<1>1. requests \in Seq(Consented) /\ Latest <= MaxRequests
  BY DEF FilingInv, ConsentTypeOK, Consented
<1>2. Latest \in Nat /\ Logged = DOMAIN requests
  BY <1>1 DEF Latest, Logged
<1>3. Logged \subseteq 1..MaxRequests /\ \A r \in Logged : r \in Nat /\ r # None /\ r <= Latest
  BY <1>1, <1>2, ConsentAssumption DEF Logged, Latest, None
<1>4. \A r \in Logged : requests[r] \in Consented
  BY <1>1, <1>2
<1>5. QED
  BY <1>1, <1>2, <1>3, <1>4 DEF FilingInv, ConsentTypeOK, Places

(* A step of a callback that moves only its own place, and may only add to   *)
(* what is known of the answers.                                             *)
LEMMA CallbackMoves ==
  ASSUME FilingInv, NEW r \in Logged, NEW place \in Places,
         visit' = [visit EXCEPT ![r] = place],
         place \in {"exchange", "save"} =>
           /\ taken'[r] \in Logged
           /\ requests[taken'[r]].user = requests[r].user \/ r \in mixed',
         place = "save" => requests[taken'[r]].app = requests[r].app,
         taken' = taken \/ (\E t \in Logged : taken' = [taken EXCEPT ![r] = t]),
         mixed \subseteq mixed', mixed' \subseteq Logged,
         named' \subseteq Logged, DOMAIN target' = 1..MaxRequests,
         UNCHANGED <<requests, expired, filed>>
  PROVE  FilingInv'
<1>1. /\ visit \in [1..MaxRequests -> Places] /\ r \in 1..MaxRequests
      /\ taken \in [1..MaxRequests -> Logged \cup {None}]
      /\ expired \subseteq Logged
  BY FilingTypes
<1>2. /\ visit' \in [1..MaxRequests -> Places] /\ visit'[r] = place
      /\ \A q \in 1..MaxRequests \ {r} : visit'[q] = visit[q]
  BY <1>1
<1>3. /\ taken' \in [1..MaxRequests -> Logged \cup {None}]
      /\ \A q \in 1..MaxRequests \ {r} : taken'[q] = taken[q]
  BY <1>1
<1>4. Logged' = Logged /\ Latest' = Latest
  BY DEF Logged, Latest
<1>5. ConsentTypeOK'
  BY <1>1, <1>2, <1>3, <1>4 DEF FilingInv, ConsentTypeOK, Places
<1>6. TakenInv'
  <2>1. SUFFICES ASSUME NEW q \in Logged
        PROVE  /\ visit'[q] \in {"exchange", "save"} =>
                    /\ taken'[q] \in Logged
                    /\ requests[taken'[q]].user = requests[q].user \/ q \in mixed'
               /\ visit'[q] = "save" => requests[taken'[q]].app = requests[q].app
    BY <1>4 DEF TakenInv
  <2>2. CASE q = r
    BY <1>2, <2>2
  <2>3. CASE q # r
    <3>1. q \in 1..MaxRequests
      BY FilingTypes
    <3>2. visit'[q] = visit[q] /\ taken'[q] = taken[q]
      BY <1>2, <1>3, <2>3, <3>1
    <3>3. QED
      BY <2>1, <3>2 DEF FilingInv, TakenInv
  <2>4. QED
    BY <2>2, <2>3
<1>7. ConsentIsFiledAsGiven'
  BY DEF FilingInv, ConsentIsFiledAsGiven, Connected
<1>8. QED
  BY <1>5, <1>6, <1>7 DEF FilingInv

LEMMA LoginKeeps ==
  ASSUME FilingInv, NEW u \in AppUsers, NEW a \in Apps, Login(u, a)
  PROVE  FilingInv'
<1> DEFINE row == [user |-> u, app |-> a]
<1>1. PICK n \in Nat, log \in Seq(Consented) :
        n = Latest /\ log = requests /\ n = Len(log) /\ n < MaxRequests
  BY FilingTypes DEF Login, Latest
<1>2. row \in Consented
  BY DEF Consented
<1>3. requests' = Append(log, row)
  BY <1>1 DEF Login
<1> HIDE DEF row
<1>4. /\ Append(log, row) \in Seq(Consented) /\ Len(Append(log, row)) = n + 1
      /\ \A r \in 1..n : Append(log, row)[r] = log[r]
  BY <1>1, <1>2, AppendProperties
<1>5. Latest' = n + 1 /\ Logged' = 1..n + 1 /\ Logged = 1..n
  BY <1>1, <1>3, <1>4 DEF Latest, Logged
<1>6. /\ visit' = [visit EXCEPT ![n + 1] = "ebay"]
      /\ UNCHANGED <<expired, named, target, taken, filed, mixed>>
  BY <1>1 DEF Login, MovesTo
<1>7. /\ visit \in [1..MaxRequests -> Places]
      /\ taken \in [1..MaxRequests -> Logged \cup {None}]
      /\ filed \in [AppUsers \X Apps -> Logged \cup {None}]
      /\ expired \subseteq Logged /\ named \subseteq Logged /\ mixed \subseteq Logged
  BY FilingTypes
<1>8. n + 1 \in 1..MaxRequests /\ n + 1 <= MaxRequests /\ Logged \subseteq Logged'
  BY <1>1, <1>5, ConsentAssumption
<1>9. /\ visit' \in [1..MaxRequests -> Places] /\ visit'[n + 1] = "ebay"
      /\ \A r \in 1..n : visit'[r] = visit[r]
  BY <1>1, <1>6, <1>7, <1>8 DEF Places
<1>10. ConsentTypeOK'
  <2>1. requests' \in Seq([user : AppUsers, app : Apps]) /\ Latest' <= MaxRequests
    BY <1>3, <1>4, <1>5, <1>8 DEF Consented
  <2>2. taken' \in [1..MaxRequests -> Logged' \cup {None'}]
    BY <1>6, <1>7, <1>8 DEF None
  <2>3. filed' \in [AppUsers \X Apps -> Logged' \cup {None'}]
    BY <1>6, <1>7, <1>8 DEF None
  <2>4. expired' \cup named' \cup mixed' \subseteq Logged' /\ DOMAIN target' = 1..MaxRequests
    BY <1>6, <1>7, <1>8 DEF FilingInv, ConsentTypeOK
  <2>5. QED
    BY <1>9, <2>1, <2>2, <2>3, <2>4 DEF ConsentTypeOK, Places
<1>11. TakenInv'
  <2>1. SUFFICES ASSUME NEW r \in Logged'
        PROVE  /\ visit'[r] \in {"exchange", "save"} =>
                    /\ taken[r] \in Logged'
                    /\ requests'[taken[r]].user = requests'[r].user \/ r \in mixed
               /\ visit'[r] = "save" => requests'[taken[r]].app = requests'[r].app
    BY <1>6 DEF TakenInv
  <2>2. CASE r = n + 1
    BY <1>9, <2>2
  <2>3. CASE r \in 1..n
    <3>1. visit'[r] = visit[r] /\ requests'[r] = requests[r]
      BY <1>1, <1>3, <1>4, <1>9, <2>3
    <3>2. taken[r] \in 1..n => requests'[taken[r]] = requests[taken[r]] /\ taken[r] \in Logged'
      BY <1>1, <1>3, <1>4, <1>5, <1>8
    <3>3. QED
      BY <1>5, <2>3, <3>1, <3>2 DEF FilingInv, TakenInv
  <2>4. QED
    BY <1>1, <1>5, <2>2, <2>3
<1>12. ConsentIsFiledAsGiven'
  <2>1. \A q \in AppUsers, b \in Apps : filed[<<q, b>>] # None =>
          /\ requests'[filed[<<q, b>>]] = requests[filed[<<q, b>>]]
    BY <1>1, <1>3, <1>4, <1>5, <1>7
  <2>2. QED
    BY <1>6, <2>1 DEF FilingInv, ConsentIsFiledAsGiven, Connected
<1>13. QED
  BY <1>10, <1>11, <1>12 DEF FilingInv

LEMMA SaveTokenKeeps ==
  ASSUME FilingInv, NEW r \in Logged, SaveToken(r)
  PROVE  FilingInv'
<1>1. PICK row \in Consented :
        /\ row = requests[taken[r]] /\ row.app = requests[r].app
        /\ row.user = requests[r].user \/ r \in mixed
  BY FilingTypes DEF SaveToken, FilingInv, TakenInv
<1>2. row.user \in AppUsers /\ row.app \in Apps
  BY DEF Consented
<1>3. filed' = filed \/ filed' = [filed EXCEPT ![<<row.user, row.app>>] = r]
  BY <1>1 DEF SaveToken
<1>4. /\ filed \in [AppUsers \X Apps -> Logged \cup {None}]
      /\ visit \in [1..MaxRequests -> Places] /\ r \in 1..MaxRequests
  BY FilingTypes
<1>5. filed' \in [AppUsers \X Apps -> Logged \cup {None}]
  BY <1>2, <1>3, <1>4
<1>6. /\ visit' = [visit EXCEPT ![r] = "over"]
      /\ UNCHANGED <<requests, expired, named, target, taken, mixed>>
  BY DEF SaveToken, MovesTo
<1>7. /\ visit' \in [1..MaxRequests -> Places]
      /\ \A q \in 1..MaxRequests : visit'[q] = visit[q] \/ visit'[q] = "over"
  BY <1>4, <1>6 DEF Places
<1>8. Logged' = Logged /\ Latest' = Latest /\ Logged \subseteq 1..MaxRequests
  BY <1>6, FilingTypes DEF Logged, Latest
<1>9. ConsentTypeOK'
  BY <1>5, <1>6, <1>7, <1>8 DEF FilingInv, ConsentTypeOK, Places
<1>10. TakenInv'
  <2>1. \A q \in Logged : visit'[q] = visit[q] \/ visit'[q] = "over"
    BY <1>7, <1>8
  <2>2. QED
    BY <1>6, <1>8, <2>1 DEF FilingInv, TakenInv
<1>11. ConsentIsFiledAsGiven'
  <2>1. SUFFICES ASSUME NEW u \in AppUsers, NEW a \in Apps, filed'[<<u, a>>] # None
                 PROVE  LET q == filed'[<<u, a>>]
                        IN requests[q].app = a /\ (requests[q].user = u \/ q \in mixed)
    BY <1>6 DEF ConsentIsFiledAsGiven, Connected
  <2>2. CASE filed'[<<u, a>>] = filed[<<u, a>>]
    BY <2>1, <2>2 DEF FilingInv, ConsentIsFiledAsGiven, Connected
  <2>3. CASE filed'[<<u, a>>] # filed[<<u, a>>]
    <3>1. u = row.user /\ a = row.app /\ filed'[<<u, a>>] = r
      BY <1>2, <1>3, <1>4, <2>3
    <3>2. QED
      BY <1>1, <3>1
  <2>4. QED
    BY <2>2, <2>3
<1>12. QED
  BY <1>9, <1>10, <1>11 DEF FilingInv

LEMMA ConsentsKept == FilingInv /\ [ConsentNext]_consentVars => FilingInv'
<1> SUFFICES ASSUME FilingInv, [ConsentNext]_consentVars PROVE FilingInv'
  OBVIOUS
<1>0. DOMAIN target = 1..MaxRequests /\ named \subseteq Logged /\ mixed \subseteq Logged
  BY FilingTypes DEF FilingInv, ConsentTypeOK
<1>1. ASSUME NEW r \in Logged, Decline(r) PROVE FilingInv'
  <2>1. /\ visit' = [visit EXCEPT ![r] = "over"]
        /\ UNCHANGED <<requests, expired, named, target, taken, filed, mixed>>
    BY <1>1 DEF Decline, MovesTo
  <2>2. QED
    BY <1>0, <2>1, CallbackMoves DEF Places
<1>2. ASSUME NEW r \in Logged, Return(r) PROVE FilingInv'
  <2>1. /\ visit' = [visit EXCEPT ![r] = "environment"] /\ named' \subseteq Logged
        /\ UNCHANGED <<requests, expired, target, taken, filed, mixed>>
    BY <1>0, <1>2 DEF Return, MovesTo
  <2>2. QED
    BY <1>0, <2>1, CallbackMoves DEF Places
<1>3. ASSUME NEW r \in Logged, ResolveEnvironment(r) PROVE FilingInv'
  <2>1. /\ visit' = [visit EXCEPT ![r] = "process"] /\ DOMAIN target' = 1..MaxRequests
        /\ UNCHANGED <<requests, expired, named, taken, filed, mixed>>
    BY <1>0, <1>3 DEF ResolveEnvironment, MovesTo
  <2>2. QED
    BY <1>0, <2>1, CallbackMoves DEF Places
<1>4. ASSUME NEW r \in Logged, ProcessCallback(r) PROVE FilingInv'
  <2>1. /\ visit' = [visit EXCEPT ![r] = "exchange"]
        /\ taken' = [taken EXCEPT ![r] = RequestFor(r)]
        /\ mixed' = IF ~Valid(r) /\ Latest > r THEN mixed \cup {r} ELSE mixed
        /\ UNCHANGED <<requests, expired, named, target, filed>>
    BY <1>4 DEF ProcessCallback, MovesTo
  <2>2. /\ Latest \in Nat /\ r \in Nat /\ r <= Latest /\ 1 <= r /\ r \in 1..MaxRequests
        /\ taken \in [1..MaxRequests -> Logged \cup {None}]
    BY FilingTypes DEF Logged
  <2>3. /\ RequestFor(r) \in Logged
        /\ RequestFor(r) = r \/ r \in mixed'
    <3>1. Latest \in Logged
      BY <2>2 DEF Logged, Latest
    <3>2. CASE Valid(r)
      BY <3>2 DEF RequestFor
    <3>3. CASE ~Valid(r)
      BY <2>1, <2>2, <3>1, <3>3 DEF RequestFor
    <3>4. QED
      BY <3>2, <3>3
  <2>4. taken'[r] = RequestFor(r)
    BY <2>1, <2>2
  <2>5. mixed \subseteq mixed' /\ mixed' \subseteq Logged
    BY <1>0, <2>1
  <2>6. /\ "exchange" \in Places /\ taken'[r] \in Logged
        /\ requests[taken'[r]].user = requests[r].user \/ r \in mixed'
        /\ \E t \in Logged : taken' = [taken EXCEPT ![r] = t]
    BY <2>1, <2>3, <2>4 DEF Places
  <2>7. QED
    BY <1>0, <2>1, <2>5, <2>6, CallbackMoves
<1>5. ASSUME NEW r \in Logged, ExchangeCode(r) PROVE FilingInv'
  <2>1. /\ visit[r] = "exchange"
        /\ visit' = [visit EXCEPT ![r] = IF Accepts(r) THEN "save" ELSE "over"]
        /\ UNCHANGED <<requests, expired, named, target, taken, filed, mixed>>
    BY <1>5 DEF ExchangeCode, MovesTo
  <2>2. PICK place \in {"save", "over"} :
          /\ visit' = [visit EXCEPT ![r] = place]
          /\ place = "save" => requests[taken[r]].app = requests[r].app
    BY <2>1 DEF Accepts
  <2>3. taken[r] \in Logged /\ (requests[taken[r]].user = requests[r].user \/ r \in mixed)
    BY <2>1 DEF FilingInv, TakenInv
  <2>4. QED
    BY <1>0, <2>1, <2>2, <2>3, CallbackMoves DEF Places
<1>6. ASSUME NEW r \in Logged, ExpireRequest(r) PROVE FilingInv'
  <2>1. expired' \subseteq Logged /\ UNCHANGED <<requests, visit, named, target, taken, filed, mixed>>
    BY <1>6, FilingTypes DEF ExpireRequest
  <2>2. QED
    BY <2>1 DEF FilingInv, ConsentTypeOK, TakenInv, ConsentIsFiledAsGiven, Connected, Logged, Latest
<1>7. CASE UNCHANGED consentVars
  BY <1>7 DEF consentVars, FilingInv, ConsentTypeOK, TakenInv, ConsentIsFiledAsGiven, Connected,
     Logged, Latest
<1>8. CASE AllOver
  BY <1>7, <1>8 DEF AllOver
<1>9. QED
  BY <1>1, <1>2, <1>3, <1>4, <1>5, <1>6, <1>7, <1>8, LoginKeeps, SaveTokenKeeps DEF ConsentNext

LEMMA ConsentsStart == ConsentInit => FilingInv
<1> SUFFICES ASSUME ConsentInit PROVE FilingInv
  OBVIOUS
<1>1. requests = <<>> /\ Len(requests) = 0 /\ Logged = {}
  BY DEF ConsentInit, Logged
<1>2. QED
  BY <1>1, ConsentAssumption
     DEF ConsentInit, FilingInv, ConsentTypeOK, TakenInv, ConsentIsFiledAsGiven, Connected, Latest

(* However many users connect apps at the same time, and whatever state eBay *)
(* cuts or answers late: a token is filed under the app it was given for,    *)
(* and under the user who consented, or a later login was taken instead.     *)
THEOREM TokensAreFiledAsGiven == ConsentSpec => []ConsentIsFiledAsGiven
<1>1. FilingInv => ConsentIsFiledAsGiven
  BY DEF FilingInv
<1>2. QED
  BY <1>1, ConsentsStart, ConsentsKept, PTL DEF ConsentSpec

-----------------------------------------------------------------------------
(***************************************************************************)
(* Proofs about Collections, for every number of users, collections and    *)
(* cards.  An add knows its entry before the row is committed: no other    *)
(* add has the entry and it was not refused, or the row of one add could   *)
(* be stored under an entry whose own add was answered with an error.      *)
(***************************************************************************)
Committed(e) == items[e] # Missing
Held(e) == \E u \in Users : adding[u] # Missing /\ adding[u].entry = e

(* Deleted rows count, as they do for the UNIQUE of the table.               *)
NamesDiffer ==
  \A i, j \in Ids :
    /\ collections[i] # Missing /\ collections[j] # Missing
    /\ collections[i].owner = collections[j].owner
    /\ collections[i].name = collections[j].name
    => i = j

EntriesApart ==
  /\ \A e \in refused : ~Committed(e) /\ ~Held(e)
  /\ \A e \in Entries : Held(e) => ~Committed(e)
  /\ \A u, v \in Users :
       adding[u] # Missing /\ adding[v] # Missing /\ adding[u].entry = adding[v].entry => u = v

CollectionsInv == CollectionsTypeOK /\ NamesDiffer /\ EntriesApart

LEMMA MissingIsNoRow ==
  /\ \A row \in Row : row # Missing
  /\ \A row \in Item : row # Missing
  /\ \A row \in Adding : row # Missing
BY CollectionsAssumption

LEMMA CollectionTypes ==
  ASSUME CollectionsInv
  PROVE  /\ collections \in [Ids -> Row \cup {Missing}]
         /\ items \in [Entries -> Item \cup {Missing}]
         /\ adding \in [Users -> Adding \cup {Missing}]
         /\ cards \subseteq Cards /\ moved \subseteq cards /\ refused \subseteq Entries
BY DEF CollectionsInv, CollectionsTypeOK

(* A row of the user's is inserted or changed, and has a name of its own.    *)
LEMMA OneCollectionChanges ==
  ASSUME CollectionsInv, NEW i \in Ids, NEW row \in Row,
         collections' = [collections EXCEPT ![i] = row],
         \A j \in Ids \ {i} : collections[j] # Missing /\ collections[j].owner = row.owner
                              => collections[j].name # row.name,
         UNCHANGED <<items, adding, cards, moved, refused, listing, turns>>
  PROVE  CollectionsInv'
<1>1. /\ collections' \in [Ids -> Row \cup {Missing}] /\ collections'[i] = row
      /\ \A j \in Ids \ {i} : collections'[j] = collections[j]
  BY CollectionTypes
<1>2. CollectionsTypeOK'
  BY <1>1 DEF CollectionsInv, CollectionsTypeOK
<1>3. NamesDiffer'
  <2>1. SUFFICES ASSUME NEW j \in Ids, NEW k \in Ids,
                        collections'[j] # Missing, collections'[k] # Missing,
                        collections'[j].owner = collections'[k].owner,
                        collections'[j].name = collections'[k].name
                 PROVE  j = k
    BY DEF NamesDiffer
  <2>2. CASE j # i /\ k # i
    BY <1>1, <2>1, <2>2 DEF CollectionsInv, NamesDiffer
  <2>3. CASE j = i \/ k = i
    BY <1>1, <2>1, <2>3
  <2>4. QED
    BY <2>2, <2>3
<1>4. EntriesApart'
  BY DEF CollectionsInv, EntriesApart, Committed, Held
<1>5. QED
  BY <1>2, <1>3, <1>4 DEF CollectionsInv

(* A step that leaves the collections alone.                                 *)
LEMMA EntriesMove ==
  ASSUME CollectionsInv, collections' = collections, EntriesApart',
         items' \in [Entries -> Item \cup {Missing}],
         adding' \in [Users -> Adding \cup {Missing}],
         cards' \subseteq Cards, moved' \subseteq cards', refused' \subseteq Entries,
         listing' \in Listing, turns' \in 0..MaxChanges
  PROVE  CollectionsInv'
BY DEF CollectionsInv, CollectionsTypeOK, NamesDiffer

LEMMA CollectionsStart == CollectionsInit => CollectionsInv
BY CollectionsAssumption
   DEF CollectionsInit, CollectionsInv, CollectionsTypeOK, NamesDiffer, EntriesApart,
       Committed, Held, Listing

(* The services that create a collection, rename it, delete it or bring it   *)
(* back.                                                                     *)
LEMMA CollectionServicesKeep ==
  ASSUME CollectionsInv, NEW u \in Users, NEW i \in Ids,
         \/ \E n \in Names : CreateCollection(u, i, n) \/ Rename(u, i, n)
         \/ SetActive(u, i) \/ Delete(u, i)
  PROVE  CollectionsInv'
<1>1. collections \in [Ids -> Row \cup {Missing}]
  BY CollectionTypes
<1>2. ASSUME NEW n \in Names, CreateCollection(u, i, n) PROVE CollectionsInv'
  <2> DEFINE row == [owner |-> u, name |-> n, active |-> TRUE]
  <2>1. row \in Row /\ row.owner = u /\ row.name = n
    BY DEF Row
  <2>2. \A j \in Ids : collections[j] # Missing /\ collections[j].owner = u
                       => collections[j].name # n
    BY <1>2 DEF CreateCollection, Taken, Owned
  <2>3. /\ collections' = [collections EXCEPT ![i] = row]
        /\ UNCHANGED <<items, adding, cards, moved, refused, listing, turns>>
    BY <1>2 DEF CreateCollection
  <2> HIDE DEF row
  <2>4. QED
    BY <2>1, <2>2, <2>3, OneCollectionChanges
<1>3. ASSUME NEW row \in Row, Owned(u, i), row.owner = u,
             row.name = collections[i].name \/ ~Taken(u, row.name),
             collections' = [collections EXCEPT ![i] = row],
             UNCHANGED <<items, adding, cards, moved, refused, listing, turns>>
      PROVE  CollectionsInv'
  <2>1. \A j \in Ids \ {i} : collections[j] # Missing /\ collections[j].owner = row.owner
                             => collections[j].name # row.name
    BY <1>3 DEF Taken, Owned, CollectionsInv, NamesDiffer
  <2>2. QED
    BY <1>3, <2>1, OneCollectionChanges
<1>4. ASSUME Owned(u, i)
      PROVE  \E old \in Row : old = collections[i] /\ old.owner = u
  BY <1>1, <1>4 DEF Owned
<1>5. ASSUME NEW n \in Names, Rename(u, i, n) PROVE CollectionsInv'
  <2>1. PICK old \in Row : old = collections[i] /\ old.owner = u
    BY <1>4, <1>5 DEF Rename
  <2> DEFINE row == [old EXCEPT !.name = n]
  <2>2. row \in Row /\ row.owner = u /\ row.name = n
    BY <2>1 DEF Row
  <2>3. collections' = [collections EXCEPT ![i] = row]
    BY <1>5, <2>1 DEF Rename
  <2> HIDE DEF row
  <2>4. QED
    BY <1>3, <1>5, <2>2, <2>3 DEF Rename
<1>6. ASSUME NEW active \in BOOLEAN, Owned(u, i),
             collections' = [collections EXCEPT ![i].active = active],
             UNCHANGED <<items, adding, cards, moved, refused, listing, turns>>
      PROVE  CollectionsInv'
  <2>1. PICK old \in Row : old = collections[i] /\ old.owner = u
    BY <1>4, <1>6
  <2> DEFINE row == [old EXCEPT !.active = active]
  <2>2. row \in Row /\ row.owner = u /\ row.name = collections[i].name
    BY <2>1 DEF Row
  <2>3. collections' = [collections EXCEPT ![i] = row]
    BY <1>6, <2>1
  <2> HIDE DEF row
  <2>4. QED
    BY <1>3, <1>6, <2>2, <2>3
<1>7. CASE SetActive(u, i)
  BY <1>6, <1>7 DEF SetActive
<1>8. CASE Delete(u, i)
  BY <1>6, <1>8 DEF Delete
<1>9. QED
  BY <1>2, <1>5, <1>7, <1>8

(* An add gets its entry, or goes on with it.                                *)
LEMMA AddGoesOn ==
  ASSUME CollectionsInv, NEW u \in Users, NEW new \in Adding,
         adding' = [adding EXCEPT ![u] = new],
         \/ adding[u] = Missing /\ new.entry \in Entries /\ Unused(new.entry)
         \/ adding[u] # Missing /\ adding[u].entry = new.entry,
         UNCHANGED <<collections, items, cards, moved, refused, listing, turns>>
  PROVE  CollectionsInv'
<1>1. /\ adding' \in [Users -> Adding \cup {Missing}] /\ adding'[u] = new
      /\ \A v \in Users \ {u} : adding'[v] = adding[v]
  BY CollectionTypes
<1>2. \A v \in Users \ {u} : adding[v] # Missing => adding[v].entry # new.entry
  BY DEF Unused, CollectionsInv, EntriesApart
<1>3. ~Committed(new.entry) /\ new.entry \notin refused
  BY DEF Unused, CollectionsInv, EntriesApart, Committed, Held, Adding
<1>4. \A e \in Entries : Held(e)' => Held(e) \/ e = new.entry
  BY <1>1 DEF Held
<1>5. \A e \in Entries : Committed(e)' <=> Committed(e)
  BY DEF Committed
<1>6. EntriesApart'
  <2>1. \A e \in refused' : ~Committed(e)' /\ ~Held(e)'
    BY <1>3, <1>4, <1>5 DEF CollectionsInv, CollectionsTypeOK, EntriesApart
  <2>2. \A e \in Entries : Held(e)' => ~Committed(e)'
    BY <1>3, <1>4, <1>5 DEF CollectionsInv, EntriesApart
  <2>3. ASSUME NEW v \in Users, NEW w \in Users,
               adding'[v] # Missing, adding'[w] # Missing,
               adding'[v].entry = adding'[w].entry
        PROVE  v = w
    <3>1. CASE v # u /\ w # u
      BY <1>1, <2>3, <3>1 DEF CollectionsInv, EntriesApart
    <3>2. CASE v = u \/ w = u
      BY <1>1, <1>2, <2>3, <3>2
    <3>3. QED
      BY <3>1, <3>2
  <2>4. QED
    BY <2>1, <2>2, <2>3 DEF EntriesApart
<1>7. QED
  BY <1>1, <1>6, CollectionTypes, EntriesMove DEF CollectionsInv, CollectionsTypeOK

(* An add ends: its row is stored under its entry, or the entry is refused.  *)
LEMMA AddEnds ==
  ASSUME CollectionsInv, NEW u \in Users, NEW e \in Entries, NEW row \in Item,
         adding[u] # Missing, adding[u].entry = e,
         adding' = [adding EXCEPT ![u] = Missing],
         \/ items' = [items EXCEPT ![e] = row] /\ refused' = refused
         \/ items' = items /\ refused' = refused \cup {e},
         UNCHANGED <<collections, cards, moved, listing, turns>>
  PROVE  CollectionsInv'
<1>1. /\ adding' \in [Users -> Adding \cup {Missing}] /\ adding'[u] = Missing
      /\ \A v \in Users \ {u} : adding'[v] = adding[v]
  BY CollectionTypes
<1>2. items' \in [Entries -> Item \cup {Missing}] /\ refused' \subseteq Entries
  BY CollectionTypes
<1>3. e \notin refused /\ ~Committed(e)
  BY DEF CollectionsInv, EntriesApart, Committed, Held
<1>4. \A f \in Entries : Held(f)' => Held(f) /\ f # e
  BY <1>1 DEF Held, CollectionsInv, EntriesApart
<1>5. \A f \in Entries \ {e} : Committed(f)' <=> Committed(f)
  BY CollectionTypes DEF Committed
<1>6. items' = items => ~Committed(e)'
  BY <1>3 DEF Committed
<1>7. EntriesApart'
  <2>1. ASSUME NEW f \in refused' PROVE ~Committed(f)' /\ ~Held(f)'
    <3>1. CASE f = e
      BY <1>2, <1>3, <1>4, <1>6, <2>1, <3>1
    <3>2. CASE f # e
      BY <1>2, <1>4, <1>5, <2>1, <3>2 DEF CollectionsInv, EntriesApart
    <3>3. QED
      BY <3>1, <3>2
  <2>2. \A f \in Entries : Held(f)' => ~Committed(f)'
    BY <1>4, <1>5 DEF CollectionsInv, EntriesApart
  <2>3. \A v, w \in Users :
          adding'[v] # Missing /\ adding'[w] # Missing /\ adding'[v].entry = adding'[w].entry
          => v = w
    BY <1>1 DEF CollectionsInv, EntriesApart
  <2>4. QED
    BY <2>1, <2>2, <2>3 DEF EntriesApart
<1>8. QED
  BY <1>1, <1>2, <1>7, CollectionTypes, EntriesMove DEF CollectionsInv, CollectionsTypeOK

(* Rows that are committed change, or go and are refused from then on.       *)
LEMMA ItemsChange ==
  ASSUME CollectionsInv, items' \in [Entries -> Item \cup {Missing}],
         \A e \in Entries : Committed(e)' => Committed(e),
         refused' \subseteq Entries,
         \A e \in refused' : e \in refused \/ (Committed(e) /\ ~Committed(e)'),
         cards' \subseteq Cards, moved' \subseteq cards', turns' \in 0..MaxChanges,
         UNCHANGED <<collections, adding, listing>>
  PROVE  CollectionsInv'
<1>1. \A e \in Entries : Held(e)' <=> Held(e)
  BY DEF Held
<1>2. EntriesApart'
  BY <1>1 DEF CollectionsInv, EntriesApart
<1>3. QED
  BY <1>2, EntriesMove DEF CollectionsInv, CollectionsTypeOK

LEMMA CollectionsKept == CollectionsInv /\ [CollectionsNext]_collectionsVars => CollectionsInv'
<1> SUFFICES ASSUME CollectionsInv, [CollectionsNext]_collectionsVars PROVE CollectionsInv'
  OBVIOUS
<1>1. /\ items \in [Entries -> Item \cup {Missing}]
      /\ adding \in [Users -> Adding \cup {Missing}]
      /\ cards \subseteq Cards /\ moved \subseteq cards /\ refused \subseteq Entries
      /\ turns \in 0..MaxChanges
  BY CollectionTypes DEF CollectionsInv, CollectionsTypeOK
<1>2. ASSUME NEW u \in Users, NEW i \in Ids, NEW c \in Cards, NEW e \in Entries,
             AddResolves(u, i, c, e)
      PROVE  CollectionsInv'
  <2>1. PICK wish \in BOOLEAN :
          adding' = [adding EXCEPT ![u] = [at |-> "resolved", id |-> i, card |-> c,
                                           entry |-> e, wish |-> wish]]
    BY <1>2 DEF AddResolves
  <2> DEFINE new == [at |-> "resolved", id |-> i, card |-> c, entry |-> e, wish |-> wish]
  <2>2. new \in Adding /\ new.entry = e
    BY DEF Adding
  <2>3. adding' = [adding EXCEPT ![u] = new]
    BY <2>1
  <2> HIDE DEF new
  <2>4. QED
    BY <1>2, <2>2, <2>3, AddGoesOn DEF AddResolves
<1>3. ASSUME NEW u \in Users, adding[u] # Missing
      PROVE  \E a \in Adding : a = adding[u]
  BY <1>1, <1>3
<1>4. ASSUME NEW u \in Users, AddInserts(u) PROVE CollectionsInv'
  <2>1. PICK a \in Adding : a = adding[u]
    BY <1>3, <1>4 DEF AddInserts
  <2>2. adding[u] # Missing /\ a.entry \in Entries
    BY <1>4 DEF AddInserts, Adding
  <2>3. CASE a.card \in cards
    <3> DEFINE new == [a EXCEPT !.at = "inserted"]
    <3>1. new \in Adding /\ new.entry = a.entry
      BY DEF Adding
    <3>2. /\ adding' = [adding EXCEPT ![u] = new]
          /\ UNCHANGED <<collections, items, cards, moved, refused, listing, turns>>
      BY <1>4, <2>1, <2>3 DEF AddInserts
    <3> HIDE DEF new
    <3>3. QED
      BY <2>1, <2>2, <3>1, <3>2, AddGoesOn
  <2>4. CASE a.card \notin cards
    <3>1. /\ adding' = [adding EXCEPT ![u] = Missing] /\ refused' = refused \cup {a.entry}
          /\ UNCHANGED <<collections, items, cards, moved, listing, turns>>
      BY <1>4, <2>1, <2>4 DEF AddInserts
    <3> DEFINE row == [coll |-> a.id, card |-> a.card, status |-> "purchased",
                       wish |-> a.wish]
    <3>2. row \in Item
      BY CollectionsAssumption DEF Item, Adding
    <3> HIDE DEF row
    <3>3. QED
      BY <2>1, <2>2, <3>1, <3>2, AddEnds
  <2>5. QED
    BY <2>3, <2>4
<1>5. ASSUME NEW u \in Users, AddAnswers(u) PROVE CollectionsInv'
  <2>1. PICK a \in Adding : a = adding[u]
    BY <1>3, <1>5 DEF AddAnswers
  <2>2. adding[u] # Missing /\ a.entry \in Entries
    BY <1>5 DEF AddAnswers, Adding
  <2> DEFINE row == [coll |-> a.id, card |-> a.card, status |-> "purchased",
                     wish |-> a.wish]
  <2>3. row \in Item
    BY CollectionsAssumption DEF Item, Adding
  <2>4. /\ adding' = [adding EXCEPT ![u] = Missing]
        /\ UNCHANGED <<collections, cards, moved, listing, turns>>
    BY <1>5 DEF AddAnswers
  <2>5. \/ items' = [items EXCEPT ![a.entry] = row] /\ refused' = refused
        \/ items' = items /\ refused' = refused \cup {a.entry}
    BY <1>5, <2>1 DEF AddAnswers, RolledBack
  <2> HIDE DEF row
  <2>6. QED
    BY <2>1, <2>2, <2>3, <2>4, <2>5, AddEnds
<1>6. ASSUME NEW u \in Users, NEW e \in Entries, NEW s \in Statuses, UpdateStatus(u, e, s)
      PROVE  CollectionsInv'
  <2>1. /\ items' = [items EXCEPT ![e].status = s] /\ items[e] # Missing
        /\ UNCHANGED <<collections, adding, cards, moved, refused, listing, turns>>
    BY <1>6 DEF UpdateStatus
  <2>2. PICK old \in Item : old = items[e]
    BY <1>1, <2>1
  <2> DEFINE row == [old EXCEPT !.status = s]
  <2>3. row \in Item
    BY DEF Item
  <2>4. items' = [items EXCEPT ![e] = row]
    BY <2>1, <2>2
  <2> HIDE DEF row
  <2>5. /\ items' \in [Entries -> Item \cup {Missing}]
        /\ \A f \in Entries : Committed(f)' => Committed(f)
    BY <1>1, <2>1, <2>3, <2>4 DEF Committed
  <2>6. QED
    BY <1>1, <2>1, <2>5, ItemsChange
<1>7. ASSUME NEW u \in Users, NEW e \in Entries, DeleteEntry(u, e) PROVE CollectionsInv'
  <2>1. /\ items' = [items EXCEPT ![e] = Missing] /\ items[e] # Missing
        /\ refused' = refused \cup {e}
        /\ UNCHANGED <<collections, adding, cards, moved, listing, turns>>
    BY <1>7 DEF DeleteEntry
  <2>2. /\ items' \in [Entries -> Item \cup {Missing}]
        /\ \A f \in Entries : Committed(f)' => Committed(f)
        /\ Committed(e) /\ ~Committed(e)'
    BY <1>1, <2>1 DEF Committed
  <2>3. QED
    BY <1>1, <2>1, <2>2, ItemsChange
<1>8. ASSUME NEW u \in Users, NEW i \in Ids, ListEntries(u, i) PROVE CollectionsInv'
  <2>1. PICK offset \in {0, Limit}, wishes \in {{TRUE}, {FALSE}, BOOLEAN} :
          \E page \in Pages(i, offset, wishes) :
            listing' = [ok |-> \A e \in page : Fits(items[e].card), rows |-> page]
    BY <1>8 DEF ListEntries
  <2>2. PICK page \in SUBSET Entries :
          listing' = [ok |-> \A e \in page : Fits(items[e].card), rows |-> page]
    BY <2>1 DEF Pages
  <2>3. listing' \in Listing
    BY <2>2 DEF Listing
  <2>4. EntriesApart'
    BY <1>8 DEF ListEntries, CollectionsInv, EntriesApart, Committed, Held
  <2>5. QED
    BY <1>1, <1>8, <2>3, <2>4, EntriesMove DEF ListEntries
<1>9. ASSUME Refresh PROVE CollectionsInv'
  <2>1. turns' \in 0..MaxChanges
    BY <1>1, <1>9, CollectionsAssumption DEF Refresh, Change
  <2>2. QED
    BY <1>1, <1>9, <2>1, ItemsChange DEF Refresh, Change, Committed
<1>10. ASSUME NEW c \in Cards, DeleteCard(c) PROVE CollectionsInv'
  <2> DEFINE gone == {e \in Entries : items[e] # Missing /\ items[e].card = c}
  <2>1. turns' \in 0..MaxChanges
    BY <1>1, <1>10, CollectionsAssumption DEF DeleteCard, Change
  <2>2. /\ items' = [e \in Entries |-> IF e \in gone THEN Missing ELSE items[e]]
        /\ refused' = refused \cup gone
        /\ cards' = cards \ {c} /\ moved' = moved \ {c}
        /\ UNCHANGED <<collections, adding, listing>>
    BY <1>10 DEF DeleteCard, Change
  <2>3. /\ items' \in [Entries -> Item \cup {Missing}]
        /\ \A e \in Entries : Committed(e)' => Committed(e)
        /\ \A e \in gone : Committed(e) /\ ~Committed(e)'
    BY <1>1, <2>2 DEF Committed
  <2>4. refused' \subseteq Entries
    BY <1>1, <2>2
  <2> HIDE DEF gone
  <2>5. QED
    BY <1>1, <2>1, <2>2, <2>3, <2>4, ItemsChange
<1>11. CASE UNCHANGED collectionsVars
  BY <1>11 DEF collectionsVars, CollectionsInv, CollectionsTypeOK, NamesDiffer, EntriesApart,
               Committed, Held
<1>12. QED
  BY <1>2, <1>4, <1>5, <1>6, <1>7, <1>8, <1>9, <1>10, <1>11, CollectionServicesKeep
     DEF CollectionsNext

LEMMA CollectionsInvHolds == CollectionsSpec => []CollectionsInv
BY CollectionsStart, CollectionsKept, PTL DEF CollectionsSpec

LEMMA CollectionsOfInv == CollectionsInv => RefusedEntriesAreGone /\ OneActivePerName
<1> SUFFICES ASSUME CollectionsInv PROVE RefusedEntriesAreGone /\ OneActivePerName
  OBVIOUS
<1>1. RefusedEntriesAreGone
  BY DEF CollectionsInv, EntriesApart, Committed, RefusedEntriesAreGone
<1>2. OneActivePerName
  BY DEF CollectionsInv, NamesDiffer, OneActivePerName, Active, Owned
<1>3. QED
  BY <1>1, <1>2

(* A card whose add was answered with an error, or that was removed, is not  *)
(* in the collection, whatever adds overlap with changes of the market and   *)
(* of the catalogue; and the active collections of a user have names of      *)
(* their own through any sequence of renames, deletions and restorations.    *)
THEOREM CollectionsAlwaysHold ==
  CollectionsSpec => [](RefusedEntriesAreGone /\ OneActivePerName)
BY CollectionsInvHolds, CollectionsOfInv, PTL

-----------------------------------------------------------------------------
(***************************************************************************)
(* Proofs about ApiRequests, for every set of users and requests and any   *)
(* table of handlers that stores last and leaves the roles to admins, as   *)
(* the real one does.  A role may be taken away after the guard has        *)
(* passed: what holds of a running request is that its sender was admin    *)
(* while it was under way, and what is stored so far is what it would be   *)
(* answered for.                                                           *)
(***************************************************************************)
RequestRows ==
  [at : {"none", "sent", "known", "allowed", "running", "answered"},
   handler : DOMAIN Handlers, by : People \cup {Nobody}, target : People \cup {Nobody},
   next : Nat \ {0}, stored : SUBSET Nat, acted : SUBSET Nat, status : Errors \cup {0, 200}]

WritesOf(h) == {i \in DOMAIN h.services : h.services[i].does \in Changing}

(* How far a request is, with its handler h.                                 *)
OnItsWay(q, h) ==
  /\ q.at # "none" => q.by \in People /\ q.target \in Targets(h)
  /\ q.next <= Len(h.services) + 1
  /\ q.stored \subseteq WritesOf(h) /\ \A i \in q.stored : i < q.next
  /\ \A i \in WritesOf(h) : i < q.next => i \in q.stored \cup h.tolerates
  /\ q.acted \subseteq ActsOf(h)
  /\ \A i \in q.acted : i < q.next \/ (q.at = "answered" /\ i = q.next)
  /\ q.at \notin {"running", "answered"} => q.next = 1
  /\ q.at # "answered" => q.status = 0
  /\ q.at = "answered" /\ q.status # 200 => q.stored = {}
  /\ q.at = "answered" /\ q.status \notin OfExceptions \cup {200} => q.acted = {}
  /\ q.status = 200 => q.next > Len(h.services)

ProgressInv == \A r \in Requests : OnItsWay(request[r], HandlerOf(r))

(* A handler for admins runs, or has done something, for whoever was admin.  *)
NeedsAdmin(q) ==
  /\ Handlers[q.handler].guard = "admin"
  /\ q.at \in {"allowed", "running"} \/ q.stored \cup q.acted # {}

EntitledInv ==
  /\ \A r \in Requests : NeedsAdmin(request[r]) => r \in entitled
  /\ \A r \in entitled : request[r].at # "none"

LogNamesSender ==
  \A i \in DOMAIN roleLog :
    \E r \in entitled : request[r].by = roleLog[i].by /\ request[r].target = roleLog[i].user

RequestsInv ==
  /\ RequestsTypeOK /\ ProgressInv /\ EntitledInv
  /\ LogNamesSender /\ LogExplainsRoles

-----------------------------------------------------------------------------
LEMMA HandlersTyped ==
  ASSUME NEW n \in DOMAIN Handlers
  PROVE  /\ Handlers[n].services \in Seq(ServiceCall) /\ Len(Handlers[n].services) \in Nat
         /\ DOMAIN Handlers[n].services = 1..Len(Handlers[n].services)
         /\ \A k \in DOMAIN Handlers[n].on : Handlers[n].on[k] \in Errors
         /\ \A i \in DOMAIN Handlers[n].empty : Handlers[n].empty[i] \in Errors
         /\ Handlers[n].refuses \subseteq Errors
         /\ Handlers[n].guard \in {"open", "user", "admin"}
<1>1. HandlerTypes(Handlers[n])
  BY HandlersAssumption
<1>2. QED
  BY <1>1 DEF HandlerTypes

LEMMA NoErrorIsSuccess == 200 \notin Errors /\ 0 \notin Errors
BY DEF Errors

LEMMA RequestTypes ==
  ASSUME RequestsInv
  PROVE  /\ request \in [Requests -> RequestRows]
         /\ entitled \subseteq Requests /\ UserTypeOK
BY DEF RequestsInv, RequestsTypeOK, RequestRows

(* The log grows by a change of a role, and the role changes with it.        *)
LEMMA LogGrows ==
  ASSUME UserTypeOK, LogExplainsRoles, NEW p \in People, NEW by \in People,
         NEW change \in {"assigned", "removed"},
         roleLog' = Append(roleLog, [user |-> p, change |-> change, by |-> by]),
         admins' = IF change = "assigned" THEN admins \cup {p} ELSE admins \ {p},
         account' = account
  PROVE  UserTypeOK' /\ LogExplainsRoles'
<1> DEFINE entry == [user |-> p, change |-> change, by |-> by]
<1>1. PICK past \in Seq(Changes) : past = roleLog
  BY DEF UserTypeOK
<1>2. PICK n \in Nat : n = Len(past)
  BY <1>1
<1>3. entry \in Changes /\ entry.user = p /\ entry.change = change
  BY DEF Changes
<1> HIDE DEF entry
<1>4. roleLog' = Append(past, entry)
  BY <1>1 DEF entry
<1>5. /\ Append(past, entry) \in Seq(Changes) /\ DOMAIN past = 1..n
      /\ DOMAIN Append(past, entry) = 1..n + 1 /\ Append(past, entry)[n + 1] = entry
      /\ \A i \in 1..n : Append(past, entry)[i] = past[i]
  BY <1>2, <1>3, AppendProperties
<1>6. UserTypeOK'
  BY <1>4, <1>5 DEF UserTypeOK
<1>7. roleLog'[n + 1] = entry /\ DOMAIN roleLog' = 1..n + 1 /\ DOMAIN roleLog = 1..n
  BY <1>1, <1>4, <1>5
<1>8. \A i \in 1..n : roleLog'[i] = roleLog[i]
  BY <1>1, <1>4, <1>5
<1>9. LogExplainsRoles'
  <2>1. SUFFICES ASSUME NEW q \in People
                 PROVE  /\ ChangesOf(q)' = {} => (q \in admins' <=> q \in Admins)
                        /\ \A i \in DOMAIN roleLog' :
                             LastOf(q, i)' => (q \in admins' <=> roleLog'[i].change = "assigned")
    BY DEF LogExplainsRoles
  <2>2. CASE q = p
    <3>1. n + 1 \in ChangesOf(q)'
      BY <1>3, <1>7, <2>2 DEF ChangesOf
    <3>2. \A i \in DOMAIN roleLog' : LastOf(q, i)' => i = n + 1
      BY <1>7, <3>1 DEF LastOf
    <3>3. q \in admins' <=> roleLog'[n + 1].change = "assigned"
      BY <1>3, <1>7, <2>2
    <3>4. QED
      BY <3>1, <3>2, <3>3
  <2>3. CASE q # p
    <3>1. ChangesOf(q)' = ChangesOf(q) /\ ChangesOf(q) \subseteq 1..n
      BY <1>3, <1>7, <1>8, <2>3 DEF ChangesOf
    <3>2. q \in admins' <=> q \in admins
      BY <2>3
    <3>3. \A i \in DOMAIN roleLog' : LastOf(q, i)' => LastOf(q, i) /\ i \in 1..n
      BY <3>1 DEF LastOf
    <3>4. QED
      BY <1>7, <1>8, <3>1, <3>2, <3>3 DEF LogExplainsRoles
  <2>4. QED
    BY <2>2, <2>3
<1>10. QED
  BY <1>6, <1>9

(* A service about users keeps the past true, and only those about roles add  *)
(* to it, in the name of the sender.                                         *)
LEMMA EffectKeeps ==
  ASSUME UserTypeOK, LogExplainsRoles, NEW s, NEW by \in People, NEW whom,
         s \in AboutUsers => whom \in People, Effect(s, by, whom)
  PROVE  /\ UserTypeOK' /\ LogExplainsRoles'
         /\ \/ roleLog' = roleLog
            \/ /\ s \in AboutRoles
               /\ \E change \in {"assigned", "removed"} :
                    roleLog' = Append(roleLog, [user |-> whom, change |-> change, by |-> by])
<1>1. CASE UNCHANGED userVars
  BY <1>1 DEF userVars, UserTypeOK, LogExplainsRoles, ChangesOf, LastOf
<1>2. ASSUME whom \in People, roleLog' = roleLog, admins' = admins,
             account' \in [People -> {"none", "active", "disabled"}]
      PROVE  UserTypeOK' /\ LogExplainsRoles'
  BY <1>2 DEF UserTypeOK, LogExplainsRoles, ChangesOf, LastOf
<1>3. CASE s = "user.assign_role"
  <2>1. whom \in People /\ s \in AboutRoles
    BY <1>3 DEF AboutUsers, AboutRoles
  <2>2. Assign(whom, by)
    BY <1>3 DEF Effect
  <2>3. /\ roleLog' = Append(roleLog, [user |-> whom, change |-> "assigned", by |-> by])
        /\ admins' = admins \cup {whom} /\ account' = account
    BY <2>2 DEF Assign, Recorded
  <2>4. UserTypeOK' /\ LogExplainsRoles'
    BY <2>1, <2>3, LogGrows
  <2>5. QED
    BY <2>1, <2>3, <2>4
<1>4. CASE s = "user.revoke_role"
  <2>1. whom \in People /\ s \in AboutRoles
    BY <1>4 DEF AboutUsers, AboutRoles
  <2>2. Revoke(whom, by)
    BY <1>4 DEF Effect
  <2>3. CASE whom \in admins
    <3>1. /\ roleLog' = Append(roleLog, [user |-> whom, change |-> "removed", by |-> by])
          /\ admins' = admins \ {whom} /\ account' = account
      BY <2>2, <2>3 DEF Revoke, Recorded
    <3>2. UserTypeOK' /\ LogExplainsRoles'
      BY <2>1, <3>1, LogGrows
    <3>3. QED
      BY <2>1, <3>1, <3>2
  <2>4. CASE whom \notin admins
    BY <1>1, <2>2, <2>4 DEF Revoke, userVars
  <2>5. QED
    BY <2>3, <2>4
<1>5. CASE s = "user.delete"
  BY <1>1, <1>5 DEF Effect, DeleteUser, userVars
<1>6. CASE s = "auth.register"
  <2>1. whom \in People
    BY <1>6 DEF AboutUsers
  <2>2. Register(whom)
    BY <1>6 DEF Effect
  <2>3. /\ account' = [account EXCEPT ![whom] = "active"]
        /\ roleLog' = roleLog /\ admins' = admins
    BY <2>2 DEF Register
  <2>4. account' \in [People -> {"none", "active", "disabled"}]
    BY <2>3 DEF UserTypeOK
  <2>5. QED
    BY <1>2, <2>1, <2>3, <2>4
<1>7. CASE s \notin AboutUsers
  BY <1>1, <1>7 DEF Effect, AboutUsers, AboutRoles, userVars
<1>8. QED
  BY <1>3, <1>4, <1>5, <1>6, <1>7 DEF AboutUsers, AboutRoles

(* What a step of one request has to show.                                   *)
LEMMA RequestMoves ==
  ASSUME RequestsInv, NEW r \in Requests, NEW old \in RequestRows, NEW new \in RequestRows,
         old = request[r], Stepping(r, new), new.at # "none",
         OnItsWay(new, Handlers[new.handler]),
         old.at # "none" =>
           new.by = old.by /\ new.target = old.target /\ new.handler = old.handler,
         NeedsAdmin(new) => r \in entitled',
         UserTypeOK', LogExplainsRoles',
         \A i \in DOMAIN roleLog' :
           \E q \in entitled : request[q].by = roleLog'[i].by /\ request[q].target = roleLog'[i].user
  PROVE  RequestsInv'
<1>1. request \in [Requests -> RequestRows] /\ entitled \subseteq Requests
  BY RequestTypes
<1>2. /\ request' \in [Requests -> RequestRows] /\ request'[r] = new
      /\ \A q \in Requests \ {r} : request'[q] = request[q]
  BY <1>1 DEF Stepping
<1>3. entitled \subseteq entitled' /\ entitled' \subseteq Requests
  BY <1>1 DEF Stepping, Noting
<1>4. \A q \in entitled' \ entitled : request'[q].at # "none"
  BY DEF Stepping, Noting, UnderWay
<1>5. \A q \in entitled : q \in Requests /\ request[q].at # "none"
  BY <1>1 DEF RequestsInv, EntitledInv
<1>6. \A q \in entitled : /\ request'[q].at # "none" /\ request'[q].by = request[q].by
                          /\ request'[q].target = request[q].target
  BY <1>2, <1>5
<1>7. ProgressInv'
  <2>1. SUFFICES ASSUME NEW q \in Requests
                 PROVE  OnItsWay(request'[q], Handlers[request'[q].handler])
    BY DEF ProgressInv, HandlerOf
  <2>2. CASE q = r
    BY <1>2, <2>2
  <2>3. CASE q # r
    BY <1>2, <2>1, <2>3 DEF RequestsInv, ProgressInv, HandlerOf
  <2>4. QED
    BY <2>2, <2>3
<1>8. EntitledInv'
  <2>1. ASSUME NEW q \in Requests, NeedsAdmin(request'[q]) PROVE q \in entitled'
    <3>1. CASE q = r
      BY <1>2, <2>1, <3>1
    <3>2. CASE q # r
      BY <1>2, <1>3, <2>1, <3>2 DEF RequestsInv, EntitledInv
    <3>3. QED
      BY <3>1, <3>2
  <2>2. \A q \in entitled' : request'[q].at # "none"
    BY <1>4, <1>6
  <2>3. QED
    BY <2>1, <2>2 DEF EntitledInv
<1>9. LogNamesSender'
  BY <1>3, <1>6 DEF LogNamesSender
<1>10. RequestsTypeOK'
  <2>1. SUFFICES ASSUME NEW q \in Requests
                 PROVE  /\ request'[q].next \in 1..Len(Handlers[request'[q].handler].services) + 1
                        /\ request'[q].stored \subseteq 1..request'[q].next - 1
                        /\ request'[q].acted \subseteq 1..request'[q].next
    BY <1>2, <1>3 DEF RequestsTypeOK, RequestRows, HandlerOf
  <2>2. PICK row \in RequestRows : row = request'[q]
    BY <1>2
  <2>3. OnItsWay(row, Handlers[row.handler])
    BY <1>7, <2>2 DEF ProgressInv, HandlerOf
  <2>4. /\ row.next \in Nat \ {0} /\ row.stored \subseteq Nat /\ row.handler \in DOMAIN Handlers
    BY DEF RequestRows
  <2>5. row.stored \subseteq DOMAIN Handlers[row.handler].services
    BY <2>3 DEF OnItsWay, WritesOf
  <2>6. Len(Handlers[row.handler].services) \in Nat
    BY <2>4, HandlersTyped
  <2>7. row.next \in 1..Len(Handlers[row.handler].services) + 1
    BY <2>3, <2>4, <2>6 DEF OnItsWay
  <2>8. row.stored \subseteq 1..row.next - 1
    BY <2>3, <2>4, <2>5, <2>6, HandlersTyped DEF OnItsWay
  <2>9. row.acted \subseteq 1..row.next
    BY <2>3, <2>4, <2>6, HandlersTyped DEF OnItsWay, ActsOf
  <2>10. QED
    BY <2>2, <2>7, <2>8, <2>9
<1>11. QED
  BY <1>7, <1>8, <1>9, <1>10 DEF RequestsInv

(* The same where the users stay as they are.                                *)
LEMMA RequestMovesAlone ==
  ASSUME RequestsInv, NEW r \in Requests, NEW old \in RequestRows, NEW new \in RequestRows,
         old = request[r], Stepping(r, new), new.at # "none",
         OnItsWay(new, Handlers[new.handler]),
         old.at # "none" =>
           new.by = old.by /\ new.target = old.target /\ new.handler = old.handler,
         NeedsAdmin(new) => r \in entitled',
         UNCHANGED userVars
  PROVE  RequestsInv'
<1>1. UserTypeOK' /\ LogExplainsRoles'
  BY DEF userVars, RequestsInv, RequestsTypeOK, UserTypeOK, LogExplainsRoles, ChangesOf, LastOf
<1>2. \A i \in DOMAIN roleLog' :
        \E q \in entitled : request[q].by = roleLog'[i].by /\ request[q].target = roleLog'[i].user
  BY DEF userVars, RequestsInv, LogNamesSender
<1>3. QED
  BY <1>1, <1>2, RequestMoves

LEMMA RequestRow ==
  ASSUME RequestsInv, NEW r \in Requests
  PROVE  \E q \in RequestRows :
           /\ q = request[r] /\ q.handler \in DOMAIN Handlers
           /\ OnItsWay(q, Handlers[q.handler])
           /\ NeedsAdmin(q) => r \in entitled
           /\ q.next \in Nat \ {0}
<1>1. request[r] \in RequestRows
  BY RequestTypes
<1>2. OnItsWay(request[r], Handlers[request[r].handler])
  BY DEF RequestsInv, ProgressInv, HandlerOf
<1>3. NeedsAdmin(request[r]) => r \in entitled
  BY DEF RequestsInv, EntitledInv
<1>4. request[r].handler \in DOMAIN Handlers /\ request[r].next \in Nat \ {0}
  BY <1>1 DEF RequestRows
<1>5. QED
  BY <1>1, <1>2, <1>3, <1>4

(* The rows that steps write have their type.                                *)
MovedOn(q, n, stores, acts) == [q EXCEPT !.next = n, !.stored = stores, !.acted = acts]

LEMMA RowMovesOn ==
  ASSUME NEW q \in RequestRows, NEW n \in Nat \ {0}, NEW stores \in SUBSET Nat,
         NEW acts \in SUBSET Nat
  PROVE  LET row == MovedOn(q, n, stores, acts) IN
         /\ row \in RequestRows
         /\ row.at = q.at /\ row.status = q.status /\ row.handler = q.handler
         /\ row.by = q.by /\ row.target = q.target
         /\ row.next = n /\ row.stored = stores /\ row.acted = acts
<1> DEFINE row == MovedOn(q, n, stores, acts)
           one == [q EXCEPT !.next = n]
           two == [one EXCEPT !.stored = stores]
<1>1. one \in RequestRows
  BY DEF RequestRows
<1>2. row = [two EXCEPT !.acted = acts]
  BY DEF MovedOn
<1> HIDE DEF one
<1>3. two \in RequestRows
  BY <1>1 DEF RequestRows
<1> HIDE DEF two, row
<1>4. row \in RequestRows
  BY <1>2, <1>3 DEF RequestRows
<1> USE DEF row
<1>5. row.at = q.at /\ row.status = q.status /\ row.handler = q.handler
  BY DEF RequestRows, MovedOn
<1>6. row.by = q.by /\ row.target = q.target
  BY DEF RequestRows, MovedOn
<1>7. row.next = n /\ row.stored = stores /\ row.acted = acts
  BY DEF RequestRows, MovedOn
<1> HIDE DEF row
<1>8. QED
  BY <1>4, <1>5, <1>6, <1>7 DEF row

AnsweredWith(q, n, acts) == [q EXCEPT !.at = "answered", !.status = n, !.acted = acts]

LEMMA RowIsAnswered ==
  ASSUME NEW q \in RequestRows, NEW n \in Errors \cup {200}, NEW acts \in SUBSET Nat
  PROVE  LET row == AnsweredWith(q, n, acts) IN
         /\ row \in RequestRows /\ row.at = "answered" /\ row.status = n
         /\ row.handler = q.handler /\ row.by = q.by /\ row.target = q.target
         /\ row.next = q.next /\ row.stored = q.stored /\ row.acted = acts
<1> DEFINE row == AnsweredWith(q, n, acts)
           one == [q EXCEPT !.at = "answered"]
           two == [one EXCEPT !.status = n]
<1>1. one \in RequestRows
  BY DEF RequestRows
<1>2. row = [two EXCEPT !.acted = acts]
  BY DEF AnsweredWith
<1> HIDE DEF one
<1>3. two \in RequestRows
  BY <1>1 DEF RequestRows
<1> HIDE DEF two, row
<1>4. row \in RequestRows
  BY <1>2, <1>3 DEF RequestRows
<1> USE DEF row
<1>5. row.at = "answered" /\ row.status = n /\ row.handler = q.handler
  BY DEF RequestRows, AnsweredWith
<1>6. row.by = q.by /\ row.target = q.target
  BY DEF RequestRows, AnsweredWith
<1>7. row.next = q.next /\ row.stored = q.stored /\ row.acted = acts
  BY DEF RequestRows, AnsweredWith
<1> HIDE DEF row
<1>8. QED
  BY <1>4, <1>5, <1>6, <1>7 DEF row

SentAs(q, n, by, whom) ==
  [q EXCEPT !.at = "sent", !.handler = n, !.by = by, !.target = whom]

LEMMA RowIsSent ==
  ASSUME NEW q \in RequestRows, NEW n \in DOMAIN Handlers, NEW by \in People,
         NEW whom \in People \cup {Nobody}
  PROVE  LET row == SentAs(q, n, by, whom) IN
         /\ row \in RequestRows /\ row.at = "sent" /\ row.status = q.status
         /\ row.handler = n /\ row.by = by /\ row.target = whom
         /\ row.next = q.next /\ row.stored = q.stored /\ row.acted = q.acted
<1> DEFINE row == SentAs(q, n, by, whom)
           one == [q EXCEPT !.at = "sent"]
           two == [one EXCEPT !.handler = n]
           three == [two EXCEPT !.by = by]
<1>1. row = [three EXCEPT !.target = whom]
  BY DEF SentAs
<1>2. one \in RequestRows
  BY DEF RequestRows
<1> HIDE DEF one
<1>3. two \in RequestRows
  BY <1>2 DEF RequestRows
<1> HIDE DEF two
<1>4. three \in RequestRows
  BY <1>3 DEF RequestRows
<1> HIDE DEF three, row
<1>5. row \in RequestRows
  BY <1>1, <1>4 DEF RequestRows
<1> USE DEF row
<1>6. row.at = "sent" /\ row.handler = n /\ row.by = by /\ row.target = whom
  BY DEF RequestRows, SentAs
<1>7. /\ row.status = q.status /\ row.next = q.next
      /\ row.stored = q.stored /\ row.acted = q.acted
  BY DEF RequestRows, SentAs
<1> HIDE DEF row
<1>8. QED
  BY <1>5, <1>6, <1>7 DEF row

(* A request that has stored nothing gets an error, one that was turned away *)
(* has done nothing at all, and one that went through gets its success.      *)
LEMMA AnswerHavingKeeps ==
  ASSUME RequestsInv, NEW r \in Requests, NEW n \in Errors \cup {200},
         NEW done \in SUBSET ActsOf(HandlerOf(r)), AnsweredHaving(r, n, done),
         request[r].at \notin {"none", "answered"}, UNCHANGED userVars,
         \A i \in done : i = request[r].next,
         done # {} => request[r].at = "running" /\ n \in OfExceptions,
         n # 200 => request[r].stored = {},
         n \notin OfExceptions \cup {200} => request[r].acted = {},
         n = 200 => request[r].next > Len(HandlerOf(r).services)
  PROVE  RequestsInv'
<1>1. PICK q \in RequestRows :
        /\ q = request[r] /\ q.handler \in DOMAIN Handlers /\ OnItsWay(q, Handlers[q.handler])
        /\ NeedsAdmin(q) => r \in entitled
        /\ q.next \in Nat \ {0}
  BY RequestRow
<1> DEFINE h == Handlers[q.handler]
<1>2. done \in SUBSET ActsOf(h) /\ ActsOf(h) \subseteq Nat /\ q.acted \subseteq Nat
  BY <1>1, HandlersTyped DEF HandlerOf, ActsOf, RequestRows
<1>3. PICK acts \in SUBSET Nat : acts = q.acted \cup done
  BY <1>2
<1> DEFINE new == AnsweredWith(q, n, acts)
<1>4. Stepping(r, new)
  BY <1>1, <1>3 DEF AnsweredHaving, AnsweredWith
<1>5. /\ new \in RequestRows /\ new.at = "answered" /\ new.status = n
      /\ new.handler = q.handler /\ new.by = q.by /\ new.target = q.target
      /\ new.next = q.next /\ new.stored = q.stored /\ new.acted = acts
  BY RowIsAnswered
<1> HIDE DEF new
<1>6. /\ new.acted \subseteq ActsOf(h)
      /\ \A i \in new.acted : i < new.next \/ (new.at = "answered" /\ i = new.next)
      /\ new.status \notin OfExceptions \cup {200} => new.acted = {}
  BY <1>1, <1>2, <1>3, <1>5 DEF OnItsWay
<1>7. OnItsWay(new, Handlers[new.handler])
  BY <1>1, <1>5, <1>6 DEF OnItsWay, HandlerOf
<1>8. NeedsAdmin(new) => r \in entitled'
  <2>1. NeedsAdmin(new) => NeedsAdmin(q)
    BY <1>1, <1>3, <1>5 DEF NeedsAdmin
  <2>2. QED
    BY <1>1, <1>4, <2>1 DEF Stepping, Noting
<1>9. QED
  BY <1>1, <1>4, <1>5, <1>7, <1>8, RequestMovesAlone

LEMMA AnswerKeeps ==
  ASSUME RequestsInv, NEW r \in Requests, NEW n \in Errors \cup {200}, Answered(r, n),
         request[r].at \notin {"none", "answered"}, UNCHANGED userVars,
         n # 200 => request[r].stored = {},
         n \notin OfExceptions \cup {200} => request[r].acted = {},
         n = 200 => request[r].next > Len(HandlerOf(r).services)
  PROVE  RequestsInv'
BY AnswerHavingKeeps DEF Answered

(* A guard lets a request pass, or its handler starts.                       *)
LEMMA PlaceKeeps ==
  ASSUME RequestsInv, NEW r \in Requests, NEW place \in {"known", "allowed", "running"},
         At(r, place), request[r].at \in {"sent", "known", "allowed"}, UNCHANGED userVars,
         HandlerOf(r).guard = "admin" =>
           \/ place = "known"
           \/ place = "allowed" /\ IsAdmin(request[r].by)
           \/ place = "running" /\ request[r].at = "allowed"
  PROVE  RequestsInv'
<1>1. PICK q \in RequestRows :
        /\ q = request[r] /\ q.handler \in DOMAIN Handlers /\ OnItsWay(q, Handlers[q.handler])
        /\ NeedsAdmin(q) => r \in entitled
        /\ q.next \in Nat \ {0}
  BY RequestRow
<1> DEFINE new == [q EXCEPT !.at = place]
<1>2. Stepping(r, new)
  BY <1>1 DEF At
<1>3. /\ new \in RequestRows /\ new.at = place /\ new.status = q.status
      /\ new.handler = q.handler /\ new.by = q.by /\ new.target = q.target
      /\ new.next = q.next /\ new.stored = q.stored /\ new.acted = q.acted
  BY DEF RequestRows
<1> HIDE DEF new
<1>4. q.next = 1 /\ q.status = 0 /\ q.at # "none" /\ q.at # "answered"
  BY <1>1 DEF OnItsWay
<1>5. q.stored = {} /\ q.acted = {}
  <2>1. \A i \in q.stored \cup q.acted : i \in DOMAIN Handlers[q.handler].services /\ i < 1
    BY <1>1, <1>4 DEF OnItsWay, WritesOf, ActsOf
  <2>2. QED
    BY <1>1, <2>1, HandlersTyped
<1>6. \A i \in WritesOf(Handlers[q.handler]) : ~(i < 1)
  BY <1>1, HandlersTyped DEF WritesOf
<1>7. OnItsWay(new, Handlers[new.handler])
  BY <1>1, <1>3, <1>4, <1>5, <1>6 DEF OnItsWay
<1>8. NeedsAdmin(new) => r \in entitled'
  <2>1. SUFFICES ASSUME NeedsAdmin(new) PROVE r \in entitled'
    OBVIOUS
  <2>2. Handlers[q.handler].guard = "admin" /\ place # "known"
    BY <1>3, <1>5, <2>1 DEF NeedsAdmin
  <2>3. CASE place = "running"
    <3>1. q.at = "allowed"
      BY <1>1, <2>2, <2>3 DEF HandlerOf
    <3>2. r \in entitled
      BY <1>1, <2>2, <3>1 DEF NeedsAdmin
    <3>3. QED
      BY <1>2, <3>2 DEF Stepping, Noting
  <2>4. CASE place = "allowed"
    <3>1. IsAdmin(q.by)
      BY <1>1, <2>2, <2>4 DEF HandlerOf
    <3>2. request'[r] = new
      BY <1>2, RequestTypes DEF Stepping
    <3>3. request'[r].at = "allowed" /\ request'[r].by = q.by
      BY <1>3, <2>4, <3>2
    <3>4. UnderWay(r)' /\ IsAdmin(request[r].by)'
      BY <3>1, <3>3 DEF UnderWay, IsAdmin, userVars
    <3>5. QED
      BY <1>2, <3>4 DEF Stepping, Noting
  <2>5. QED
    BY <2>2, <2>3, <2>4
<1>9. QED
  BY <1>1, <1>2, <1>3, <1>4, <1>7, <1>8, RequestMovesAlone

(* After a service of the handler has stored or acted, no later one makes an *)
(* error.                                                                    *)
LEMMA NothingDoneYet ==
  ASSUME RequestsInv, NEW r \in Requests, HasService(r), request[r].at = "running",
         \/ Service(r).does # "nothing" /\ request[r].next \notin HandlerOf(r).tolerates
         \/ request[r].next \in DOMAIN HandlerOf(r).empty
  PROVE  request[r].stored = {} /\ request[r].acted = {}
<1>1. PICK q \in RequestRows :
        /\ q = request[r] /\ q.handler \in DOMAIN Handlers /\ OnItsWay(q, Handlers[q.handler])
        /\ q.next \in Nat \ {0}
  BY RequestRow
<1> DEFINE h == Handlers[q.handler]
<1>2. StoresLast(h)
  BY <1>1, HandlersAssumption
<1>3. q.next \in DOMAIN h.services
  BY <1>1, HandlersTyped DEF HasService, HandlerOf
<1>4. \/ h.services[q.next].does # "nothing" /\ q.next \notin h.tolerates
      \/ q.next \in DOMAIN h.empty
  BY <1>1 DEF Service, HandlerOf
<1>5. ASSUME NEW i \in q.stored \cup q.acted PROVE FALSE
  <2>1. i \in DOMAIN h.services /\ h.services[i].does \in Changing /\ i < q.next
    BY <1>1, <1>5 DEF OnItsWay, WritesOf, ActsOf, Changing
  <2> HIDE DEF h
  <2>2. QED
    BY <1>2, <1>3, <1>4, <2>1 DEF StoresLast
<1>6. QED
  BY <1>1, <1>5

(* A service of a running request is committed.                              *)
LEMMA ServeKeeps ==
  ASSUME RequestsInv, NEW r \in Requests, Serve(r) PROVE RequestsInv'
<1>1. PICK q \in RequestRows :
        /\ q = request[r] /\ q.handler \in DOMAIN Handlers /\ OnItsWay(q, Handlers[q.handler])
        /\ NeedsAdmin(q) => r \in entitled
        /\ q.next \in Nat \ {0}
  BY RequestRow
<1> DEFINE h == Handlers[q.handler]
           s == h.services[q.next].service
           storing == IF h.services[q.next].does \in Changing THEN {q.next} ELSE {}
<1>2. q.at = "running" /\ q.by \in People /\ q.target \in Targets(h)
  BY <1>1 DEF Serve, OnItsWay
<1>3. q.next \in DOMAIN h.services /\ q.next <= Len(h.services) /\ Len(h.services) \in Nat
  BY <1>1, HandlersTyped DEF Serve, HasService, HandlerOf
<1>4. PICK done \in Outside(r) :
         Stepping(r, [request[r] EXCEPT !.next = @ + 1, !.stored = @ \cup Storing(r),
                                        !.acted = @ \cup done])
  BY DEF Serve
<1>5. done \subseteq ActsOf(h) /\ \A i \in done : i = q.next
  BY <1>1, <1>3, <1>4 DEF Outside, ActsOf, Service, HandlerOf
<1> DEFINE new == [q EXCEPT !.next = q.next + 1, !.stored = q.stored \cup storing,
                            !.acted = q.acted \cup done]
<1>6. Stepping(r, new)
  BY <1>1, <1>4 DEF Storing, Service, HandlerOf
<1>7. /\ new \in RequestRows /\ new.at = q.at /\ new.status = q.status
      /\ new.handler = q.handler /\ new.by = q.by /\ new.target = q.target
      /\ new.next = q.next + 1 /\ new.stored = q.stored \cup storing
      /\ new.acted = q.acted \cup done
  <2>1. q.next + 1 \in Nat \ {0} /\ storing \in SUBSET Nat /\ done \in SUBSET Nat
    BY <1>1, <1>5
  <2>2. q.stored \in SUBSET Nat /\ q.acted \in SUBSET Nat
    BY DEF RequestRows
  <2>3. PICK n \in Nat \ {0}, stores \in SUBSET Nat, acts \in SUBSET Nat :
          n = q.next + 1 /\ stores = q.stored \cup storing /\ acts = q.acted \cup done
    BY <2>1, <2>2
  <2>4. new = MovedOn(q, n, stores, acts)
    BY <2>3 DEF MovedOn
  <2> HIDE DEF new, storing
  <2>5. QED
    BY <2>3, <2>4, RowMovesOn
<1>8. storing \subseteq WritesOf(h) /\ \A i \in storing : i = q.next
  BY <1>3 DEF WritesOf
<1>9. q.next \in WritesOf(h) => q.next \in storing
  BY DEF WritesOf
<1>10. WritesOf(h) \subseteq Nat /\ q.stored \subseteq Nat /\ q.acted \subseteq Nat
  BY <1>1, HandlersTyped DEF WritesOf, RequestRows
<1> HIDE DEF new, storing
<1>11. OnItsWay(new, Handlers[new.handler])
  <2>1. new.stored \subseteq WritesOf(h) /\ \A i \in new.stored : i < new.next
    BY <1>1, <1>7, <1>8, <1>10 DEF OnItsWay
  <2>2. \A i \in WritesOf(h) : i < new.next => i \in new.stored \cup h.tolerates
    <3>1. SUFFICES ASSUME NEW i \in WritesOf(h), i < q.next + 1
                   PROVE  i \in q.stored \cup storing \cup h.tolerates
      BY <1>7
    <3>2. i < q.next \/ i = q.next
      BY <1>1, <1>10, <3>1
    <3>3. QED
      BY <1>1, <1>9, <3>1, <3>2 DEF OnItsWay
  <2>3. q.status = 0
    BY <1>1, <1>2 DEF OnItsWay
  <2>4. new.next <= Len(h.services) + 1
    BY <1>1, <1>3, <1>7
  <2>5. new.at = "running" /\ new.status = 0 /\ new.by \in People /\ new.target \in Targets(h)
    BY <1>2, <1>7, <2>3
  <2>6. Handlers[new.handler] = h
    BY <1>7
  <2>7. new.acted \subseteq ActsOf(h) /\ \A i \in new.acted : i < new.next
    BY <1>1, <1>2, <1>7, <1>10, <1>5 DEF OnItsWay
  <2> HIDE DEF h
  <2>8. OnItsWay(new, h)
    BY <2>1, <2>2, <2>4, <2>5, <2>7 DEF OnItsWay
  <2>9. QED
    BY <2>6, <2>8
<1>12. h.guard = "admin" => r \in entitled /\ r \in entitled'
  BY <1>1, <1>2, <1>6 DEF NeedsAdmin, Stepping, Noting
<1>13. Uses(h, {s}) /\ (s \in AboutRoles => h.guard = "admin")
  BY <1>1, <1>3, HandlersAssumption DEF Uses
<1>14. s \in AboutUsers => q.target \in People
  BY <1>2, <1>3 DEF Targets, Uses
<1>15. Effect(s, q.by, q.target)
  BY <1>1 DEF Serve, Service, HandlerOf
<1> HIDE DEF s, h
<1>16. /\ UserTypeOK' /\ LogExplainsRoles'
       /\ \/ roleLog' = roleLog
          \/ /\ s \in AboutRoles
             /\ \E change \in {"assigned", "removed"} :
                  roleLog' = Append(roleLog, [user |-> q.target, change |-> change, by |-> q.by])
  BY <1>2, <1>14, <1>15, EffectKeeps, RequestTypes DEF RequestsInv
<1>17. \A i \in DOMAIN roleLog' :
         \E p \in entitled : request[p].by = roleLog'[i].by /\ request[p].target = roleLog'[i].user
  <2>1. CASE roleLog' = roleLog
    BY <2>1 DEF RequestsInv, LogNamesSender
  <2>2. ASSUME NEW change \in {"assigned", "removed"}, s \in AboutRoles,
               roleLog' = Append(roleLog, [user |-> q.target, change |-> change, by |-> q.by])
        PROVE  \A i \in DOMAIN roleLog' :
                 \E p \in entitled : request[p].by = roleLog'[i].by /\ request[p].target = roleLog'[i].user
    <3> DEFINE entry == [user |-> q.target, change |-> change, by |-> q.by]
    <3>1. q.target \in People /\ r \in entitled
      BY <1>12, <1>13, <1>14, <2>2 DEF AboutUsers
    <3>2. entry \in Changes /\ entry.user = q.target /\ entry.by = q.by
      BY <1>2, <3>1 DEF Changes
    <3>3. PICK past \in Seq(Changes) : past = roleLog
      BY RequestTypes DEF UserTypeOK
    <3>4. roleLog' = Append(past, entry)
      BY <2>2, <3>3
    <3> HIDE DEF entry
    <3>5. PICK n \in Nat : n = Len(past)
      BY <3>3
    <3>6. /\ DOMAIN past = 1..n /\ DOMAIN Append(past, entry) = 1..n + 1
          /\ Append(past, entry)[n + 1] = entry
          /\ \A i \in 1..n : Append(past, entry)[i] = past[i]
      BY <3>2, <3>5, AppendProperties
    <3>7. SUFFICES ASSUME NEW i \in 1..n + 1
                   PROVE  \E p \in entitled : /\ request[p].by = roleLog'[i].by
                                              /\ request[p].target = roleLog'[i].user
      BY <3>4, <3>6
    <3>8. CASE i = n + 1
      BY <1>1, <3>1, <3>2, <3>4, <3>6, <3>8
    <3>9. CASE i \in 1..n
      BY <3>3, <3>4, <3>6, <3>9 DEF RequestsInv, LogNamesSender
    <3>10. QED
      BY <3>5, <3>7, <3>8, <3>9
  <2>3. QED
    BY <1>16, <2>1, <2>2
<1>18. NeedsAdmin(new) => r \in entitled'
  BY <1>7, <1>12 DEF NeedsAdmin, h
<1>19. new.at # "none"
  BY <1>2, <1>7
<1>20. QED
  BY <1>1, <1>6, <1>7, <1>11, <1>16, <1>17, <1>18, <1>19, RequestMoves

(* A service that raises is tolerated, or makes the answer an error.         *)
LEMMA RaiseKeeps ==
  ASSUME RequestsInv, NEW r \in Requests, Raise(r) PROVE RequestsInv'
<1>1. PICK q \in RequestRows :
        /\ q = request[r] /\ q.handler \in DOMAIN Handlers /\ OnItsWay(q, Handlers[q.handler])
        /\ NeedsAdmin(q) => r \in entitled
        /\ q.next \in Nat \ {0}
  BY RequestRow
<1> DEFINE h == Handlers[q.handler]
<1>2. /\ q.at = "running" /\ HasService(r) /\ Service(r).does # "nothing"
      /\ UNCHANGED userVars
  BY <1>1 DEF Raise
<1>3. q.next <= Len(h.services) /\ Len(h.services) \in Nat /\ WritesOf(h) \subseteq Nat
  BY <1>1, <1>2, HandlersTyped DEF HasService, HandlerOf, WritesOf
<1>4. PICK done \in Outside(r) :
        IF request[r].next \in HandlerOf(r).tolerates
        THEN Stepping(r, [request[r] EXCEPT !.next = @ + 1, !.acted = @ \cup done])
        ELSE \E k \in DOMAIN HandlerOf(r).on : AnsweredHaving(r, HandlerOf(r).on[k], done)
  BY DEF Raise
<1>5. done \subseteq ActsOf(h) /\ \A i \in done : i = q.next
  BY <1>1, <1>3, <1>4, HandlersTyped DEF Outside, ActsOf, Service, HandlerOf
<1>6. ActsOf(h) \subseteq Nat /\ q.acted \subseteq Nat /\ q.stored \subseteq Nat
  BY <1>1, HandlersTyped DEF ActsOf, RequestRows
<1>7. CASE q.next \in h.tolerates
  <2> DEFINE new == [q EXCEPT !.next = q.next + 1, !.acted = q.acted \cup done]
  <2>1. Stepping(r, new)
    BY <1>1, <1>7, <1>4 DEF HandlerOf
  <2>2. /\ new \in RequestRows /\ new.at = q.at /\ new.status = q.status
        /\ new.handler = q.handler /\ new.by = q.by /\ new.target = q.target
        /\ new.next = q.next + 1 /\ new.stored = q.stored /\ new.acted = q.acted \cup done
    <3>1. PICK n \in Nat \ {0}, stores \in SUBSET Nat, acts \in SUBSET Nat :
            n = q.next + 1 /\ stores = q.stored /\ acts = q.acted \cup done
      <4>1. q.next + 1 \in Nat \ {0} /\ q.stored \in SUBSET Nat
        BY <1>1, <1>6
      <4>2. q.acted \cup done \in SUBSET Nat
        BY <1>5, <1>6
      <4>3. QED
        BY <4>1, <4>2
    <3>2. new = MovedOn(q, n, stores, acts)
      BY <3>1 DEF MovedOn, RequestRows
    <3> HIDE DEF new
    <3>3. QED
      BY <3>1, <3>2, RowMovesOn
  <2> HIDE DEF new
  <2>3. q.status = 0
    BY <1>1, <1>2 DEF OnItsWay
  <2>4. \A i \in WritesOf(h) : i < new.next => i \in new.stored \cup h.tolerates
    <3>1. SUFFICES ASSUME NEW i \in WritesOf(h), i < q.next + 1
                   PROVE  i \in q.stored \cup h.tolerates
      BY <2>2
    <3>2. i < q.next \/ i = q.next
      BY <1>1, <1>3, <3>1
    <3>3. QED
      BY <1>1, <1>7, <3>1, <3>2 DEF OnItsWay
  <2>5. new.stored \subseteq WritesOf(h) /\ \A i \in new.stored : i < new.next
    BY <1>1, <1>3, <2>2 DEF OnItsWay
  <2>6. new.acted \subseteq ActsOf(h) /\ \A i \in new.acted : i < new.next
    BY <1>1, <1>2, <1>5, <1>6, <2>2 DEF OnItsWay
  <2>7. OnItsWay(new, Handlers[new.handler])
    <3>1. /\ new.at = "running" /\ new.status = 0 /\ new.next <= Len(h.services) + 1
          /\ new.by \in People /\ new.target \in Targets(h) /\ Handlers[new.handler] = h
      BY <1>1, <1>2, <1>3, <2>2, <2>3 DEF OnItsWay
    <3> HIDE DEF h
    <3>2. OnItsWay(new, h)
      BY <3>1, <2>4, <2>5, <2>6 DEF OnItsWay
    <3>3. QED
      BY <3>1, <3>2
  <2>8. NeedsAdmin(new) => r \in entitled'
    <3>1. NeedsAdmin(new) => NeedsAdmin(q)
      BY <1>2, <2>2 DEF NeedsAdmin
    <3>2. QED
      BY <1>1, <2>1, <3>1 DEF Stepping, Noting
  <2>9. QED
    BY <1>1, <1>2, <2>1, <2>2, <2>7, <2>8, RequestMovesAlone
<1>8. CASE q.next \notin h.tolerates
  <2>1. PICK k \in DOMAIN h.on : AnsweredHaving(r, h.on[k], done)
    BY <1>1, <1>8, <1>4 DEF HandlerOf
  <2>2. PICK n \in Errors :
          AnsweredHaving(r, n, done) /\ (ActsOf(h) # {} => n \in OfExceptions)
    BY <1>1, <2>1, HandlersTyped, HandlersAssumption
  <2>3. request[r].stored = {} /\ request[r].acted = {}
    BY <1>1, <1>2, <1>8, NothingDoneYet DEF HandlerOf
  <2>4. n # 200 /\ (done # {} => n \in OfExceptions)
    BY <1>5, <2>2, NoErrorIsSuccess
  <2>5. done \in SUBSET ActsOf(HandlerOf(r)) /\ \A i \in done : i = request[r].next
    BY <1>1, <1>5 DEF HandlerOf
  <2>6. QED
    BY <1>1, <1>2, <2>2, <2>3, <2>4, <2>5, AnswerHavingKeeps
<1>9. QED
  BY <1>7, <1>8

LEMMA SendKeeps ==
  ASSUME RequestsInv, NEW r \in Requests, Send(r) PROVE RequestsInv'
<1>1. PICK n \in DOMAIN Handlers, by \in People : \E whom \in Targets(Handlers[n]) :
        Stepping(r, [Unsent EXCEPT !.at = "sent", !.handler = n, !.by = by, !.target = whom])
  BY DEF Send
<1>2. PICK whom \in Targets(Handlers[n]) :
        Stepping(r, [Unsent EXCEPT !.at = "sent", !.handler = n, !.by = by, !.target = whom])
  BY <1>1
<1>3. /\ Unsent \in RequestRows /\ Unsent.next = 1 /\ Unsent.stored = {} /\ Unsent.acted = {}
      /\ Unsent.status = 0
      /\ whom \in People \cup {Nobody}
  BY HandlersAssumption DEF Unsent, RequestRows, Targets
<1>4. PICK old \in RequestRows :
        old = Unsent /\ old.next = 1 /\ old.stored = {} /\ old.acted = {} /\ old.status = 0
  BY <1>3
<1> DEFINE new == SentAs(old, n, by, whom)
<1>5. Stepping(r, new)
  BY <1>2, <1>4 DEF SentAs
<1>6. /\ new \in RequestRows /\ new.at = "sent" /\ new.status = 0 /\ new.stored = {}
      /\ new.acted = {} /\ new.next = 1 /\ new.handler = n /\ new.by = by /\ new.target = whom
  BY <1>3, <1>4, RowIsSent
<1> HIDE DEF new
<1>7. \A i \in WritesOf(Handlers[n]) : ~(i < 1)
  BY HandlersTyped DEF WritesOf
<1>8. 1 <= Len(Handlers[n].services) + 1
  BY HandlersTyped
<1>9. OnItsWay(new, Handlers[new.handler])
  BY <1>6, <1>7, <1>8 DEF OnItsWay
<1>10. ~NeedsAdmin(new)
  BY <1>6 DEF NeedsAdmin
<1>11. request[r].at = "none" /\ request[r] \in RequestRows /\ UNCHANGED userVars
  <2>1. request[r] = Unsent /\ UNCHANGED userVars
    BY DEF Send
  <2>2. Unsent.at = "none"
    BY DEF Unsent
  <2>3. QED
    BY <1>3, <2>1, <2>2
<1>12. new.at # "none"
  BY <1>6
<1>13. QED
  BY <1>5, <1>6, <1>9, <1>10, <1>11, <1>12, RequestMovesAlone

LEMMA RequestsKept == RequestsInv /\ [RequestsNext]_apiVars => RequestsInv'
<1> SUFFICES ASSUME RequestsInv, [RequestsNext]_apiVars PROVE RequestsInv'
  OBVIOUS
<1>1. ASSUME NEW r \in Requests, request[r].at \in {"sent", "known", "allowed"}
      PROVE  request[r].stored = {} /\ request[r].acted = {}
  <2>1. PICK q \in RequestRows :
          /\ q = request[r] /\ q.handler \in DOMAIN Handlers
          /\ OnItsWay(q, Handlers[q.handler])
    BY RequestRow
  <2>2. \A i \in q.stored \cup q.acted : i \in DOMAIN Handlers[q.handler].services /\ i < 1
    BY <1>1, <2>1 DEF OnItsWay, WritesOf, ActsOf
  <2>3. QED
    BY <2>1, <2>2, HandlersTyped
<1>2. ASSUME NEW r \in Requests, NEW n \in Errors, Answered(r, n), UNCHANGED userVars,
             request[r].at \in {"sent", "known", "allowed"}
      PROVE  RequestsInv'
  <2>1. n # 200
    BY NoErrorIsSuccess
  <2>2. QED
    BY <1>1, <1>2, <2>1, AnswerKeeps
<1>3. ASSUME NEW r \in Requests, Know(r) PROVE RequestsInv'
  <2>1. request[r].at = "sent" /\ UNCHANGED userVars /\ 401 \in Errors
    BY <1>3 DEF Know, Errors
  <2>2. QED
    BY <1>2, <1>3, <2>1, PlaceKeeps DEF Know
<1>4. ASSUME NEW r \in Requests, Allow(r) PROVE RequestsInv'
  <2>1. request[r].at = "known" /\ UNCHANGED userVars /\ 403 \in Errors
    BY <1>4 DEF Allow, Errors
  <2>2. QED
    BY <1>2, <1>4, <2>1, PlaceKeeps DEF Allow
<1>5. ASSUME NEW r \in Requests, Start(r) PROVE RequestsInv'
  <2>1. HandlerOf(r).guard \in {"open", "user", "admin"} /\ HandlerOf(r).refuses \subseteq Errors
    BY RequestRow, HandlersTyped DEF HandlerOf
  <2>2. /\ request[r].at \in {"sent", "known", "allowed"}
        /\ HandlerOf(r).guard = "admin" => request[r].at = "allowed"
    BY <1>5, <2>1 DEF Start, LetIn
  <2>3. UNCHANGED userVars
    BY <1>5 DEF Start
  <2>4. QED
    BY <1>2, <1>5, <2>1, <2>2, <2>3, PlaceKeeps DEF Start
<1>6. ASSUME NEW r \in Requests, FindNothing(r) PROVE RequestsInv'
  <2>1. /\ request[r].at = "running" /\ HasService(r) /\ UNCHANGED userVars
        /\ request[r].next \in DOMAIN HandlerOf(r).empty
        /\ Answered(r, HandlerOf(r).empty[request[r].next])
    BY <1>6 DEF FindNothing
  <2>2. PICK n \in Errors : Answered(r, n)
    BY <2>1, RequestRow, HandlersTyped DEF HandlerOf
  <2>3. request[r].stored = {} /\ request[r].acted = {} /\ n # 200
    BY <2>1, NothingDoneYet, NoErrorIsSuccess
  <2>4. QED
    BY <2>1, <2>2, <2>3, AnswerKeeps
<1>7. ASSUME NEW r \in Requests, Reply(r) PROVE RequestsInv'
  <2>1. request[r].at = "running" /\ ~HasService(r) /\ UNCHANGED userVars
    BY <1>7 DEF Reply
  <2>2. PICK q \in RequestRows :
          /\ q = request[r] /\ q.handler \in DOMAIN Handlers
          /\ OnItsWay(q, Handlers[q.handler]) /\ q.next \in Nat \ {0}
    BY RequestRow
  <2>3. request[r].next > Len(HandlerOf(r).services)
    BY <2>1, <2>2, HandlersTyped DEF HasService, HandlerOf
  <2>4. ~HandlerOf(r).fits => request[r].stored = {}
    BY <2>2, HandlersAssumption DEF OnItsWay, WritesOf, StoresLast, HandlerOf
  <2>5. CASE HandlerOf(r).fits
    BY <1>7, <2>1, <2>3, <2>5, AnswerKeeps DEF Reply
  <2>6. CASE ~HandlerOf(r).fits
    <3>1. Answered(r, 500) /\ 500 \in Errors /\ 500 \in OfExceptions
      BY <1>7, <2>6 DEF Reply, Errors, OfExceptions
    <3>2. QED
      BY <2>1, <2>4, <2>6, <3>1, AnswerKeeps
  <2>7. QED
    BY <2>5, <2>6
<1>8. ASSUME NEW p \in People, SwitchAccount(p) PROVE RequestsInv'
  <2>1. /\ account' = [account EXCEPT ![p] = IF @ = "active" THEN "disabled" ELSE "active"]
        /\ UNCHANGED <<admins, roleLog, request>>
        /\ entitled \subseteq entitled' /\ entitled' \subseteq entitled \cup Requests
        /\ \A q \in entitled' \ entitled : request'[q].at # "none"
    BY <1>8 DEF SwitchAccount, Switch, Noting, UnderWay
  <2>2. UserTypeOK' /\ LogExplainsRoles'
    <3>1. account' \in [People -> {"none", "active", "disabled"}]
      BY <2>1, RequestTypes DEF UserTypeOK
    <3>2. QED
      BY <2>1, <3>1, RequestTypes
         DEF RequestsInv, UserTypeOK, LogExplainsRoles, ChangesOf, LastOf
  <2>3. RequestsTypeOK'
    BY <2>1, <2>2 DEF RequestsInv, RequestsTypeOK, HandlerOf
  <2>4. ProgressInv' /\ EntitledInv' /\ LogNamesSender'
    BY <2>1 DEF RequestsInv, ProgressInv, EntitledInv, LogNamesSender, HandlerOf
  <2>5. QED
    BY <2>2, <2>3, <2>4 DEF RequestsInv
<1>9. CASE UNCHANGED apiVars
  <2>1. UNCHANGED <<request, entitled, account, admins, roleLog>>
    BY <1>9 DEF apiVars, userVars
  <2>2. RequestsTypeOK' /\ LogExplainsRoles'
    BY <2>1 DEF RequestsInv, RequestsTypeOK, UserTypeOK, LogExplainsRoles, ChangesOf, LastOf,
                HandlerOf
  <2>3. ProgressInv' /\ EntitledInv' /\ LogNamesSender'
    BY <2>1 DEF RequestsInv, ProgressInv, EntitledInv, LogNamesSender, HandlerOf
  <2>4. QED
    BY <2>2, <2>3 DEF RequestsInv
<1>10. QED
  BY <1>3, <1>4, <1>5, <1>6, <1>7, <1>8, <1>9, SendKeeps, ServeKeeps, RaiseKeeps
     DEF RequestsNext

LEMMA RequestsStart == RequestsInit => RequestsInv
<1> SUFFICES ASSUME RequestsInit PROVE RequestsInv
  OBVIOUS
<1>1. /\ request = [r \in Requests |-> Unsent] /\ entitled = {}
      /\ account = [p \in People |-> IF p \in Registered THEN "active" ELSE "none"]
      /\ admins = Admins /\ roleLog = << >>
  BY DEF RequestsInit, UserInit
<1>2. /\ Unsent \in RequestRows /\ Unsent.at = "none" /\ Unsent.next = 1
      /\ Unsent.stored = {} /\ Unsent.acted = {} /\ Unsent.status = 0 /\ Unsent.handler \in DOMAIN Handlers
  BY HandlersAssumption DEF Unsent, RequestRows
<1>3. UserTypeOK /\ LogExplainsRoles /\ LogNamesSender
  BY <1>1, UserAssumption DEF UserTypeOK, LogExplainsRoles, ChangesOf, LastOf, LogNamesSender
<1>4. \A i \in WritesOf(Handlers[Unsent.handler]) : ~(i < 1)
  BY <1>2, HandlersTyped DEF WritesOf
<1>5. 1 \in 1..Len(Handlers[Unsent.handler].services) + 1
  BY <1>2, HandlersTyped
<1>6. OnItsWay(Unsent, Handlers[Unsent.handler])
  BY <1>2, <1>4, <1>5 DEF OnItsWay
<1>7. ProgressInv /\ EntitledInv
  BY <1>1, <1>2, <1>6 DEF ProgressInv, EntitledInv, NeedsAdmin, HandlerOf
<1>8. RequestsTypeOK
  BY <1>1, <1>2, <1>3, <1>5 DEF RequestsTypeOK, RequestRows, HandlerOf
<1>9. QED
  BY <1>3, <1>7, <1>8 DEF RequestsInv

LEMMA RequestsInvHolds == RequestsSpec => []RequestsInv
BY RequestsStart, RequestsKept, PTL DEF RequestsSpec

LEMMA RequestsOfInv ==
  RequestsInv => OnlyAdminsAct /\ LogExplainsRoles /\ AnswersTellTheTruth
<1> SUFFICES ASSUME RequestsInv PROVE OnlyAdminsAct /\ LogExplainsRoles /\ AnswersTellTheTruth
  OBVIOUS
<1>1. OnlyAdminsAct
  BY DEF RequestsInv, EntitledInv, NeedsAdmin, LogNamesSender, OnlyAdminsAct, HandlerOf
<1>2. AnswersTellTheTruth
  <2>1. SUFFICES ASSUME NEW r \in Requests
        PROVE  /\ request[r].at = "answered" /\ request[r].status # 200 => request[r].stored = {}
               /\ request[r].at = "answered" /\ request[r].status \notin OfExceptions \cup {200} =>
                    request[r].acted = {}
               /\ request[r].status = 200 =>
                    WritesOf(HandlerOf(r)) \subseteq request[r].stored \cup HandlerOf(r).tolerates
    BY DEF AnswersTellTheTruth, WritesOf
  <2>2. PICK q \in RequestRows :
          /\ q = request[r] /\ q.handler \in DOMAIN Handlers
          /\ OnItsWay(q, Handlers[q.handler]) /\ q.next \in Nat \ {0}
    BY RequestRow
  <2>3. q.next > Len(Handlers[q.handler].services)
        => \A i \in WritesOf(Handlers[q.handler]) : i < q.next
    BY <2>2, HandlersTyped DEF WritesOf
  <2>4. QED
    BY <2>2, <2>3 DEF OnItsWay, HandlerOf
<1>3. QED
  BY <1>1, <1>2 DEF RequestsInv

(* However requests overlap with changes of roles and with accounts that are *)
(* disabled: what only an admin may do is stored for nobody who was not one  *)
(* while it ran, the log explains who is admin; an error means that nothing  *)
(* was stored in the database, a request that was turned away did nothing at *)
(* eBay either, and a success means that every service was stored, but for a *)
(* tolerated one.                                                            *)
THEOREM AnswersAlwaysTrue ==
  RequestsSpec => [](OnlyAdminsAct /\ LogExplainsRoles /\ AnswersTellTheTruth)
BY RequestsInvHolds, RequestsOfInv, PTL

-----------------------------------------------------------------------------
(***************************************************************************)
(* The parts together, as MCAccounts composes them: a step is of one part, *)
(* and stutters in the others.                                             *)
(***************************************************************************)
AccountsInv ==
  /\ TokensInv /\ SessionsInv /\ CollectionsInv /\ FilingInv /\ ArticlesInv /\ RequestsInv

LEMMA AccountsStart == AccountsInit => AccountsInv
BY TokensInitHolds, SessionsInitHolds, CollectionsStart, ConsentsStart, ArticlesStart,
   RequestsStart
   DEF AccountsInit, AccountsInv

LEMMA PartsStep ==
  ASSUME [AccountsNext]_accountsVars
  PROVE  /\ [Next]_vars /\ [SessionsNext]_sessionVars /\ [CollectionsNext]_collectionsVars
         /\ [ConsentNext]_consentVars /\ [ArticlesNext]_articleVars /\ [RequestsNext]_apiVars
<1>1. /\ tokens = vars /\ owned = collectionsVars /\ consents = consentVars
      /\ articles = articleVars
      /\ UNCHANGED api => UNCHANGED apiVars
  BY DEF tokens, vars, owned, collectionsVars, consents, consentVars, articles, articleVars,
         api, apiVars, userVars
<1>2. /\ UNCHANGED tokens => UNCHANGED vars
      /\ UNCHANGED owned => UNCHANGED collectionsVars
      /\ UNCHANGED consents => UNCHANGED consentVars
      /\ UNCHANGED articles => UNCHANGED articleVars
  BY DEF tokens, vars, owned, collectionsVars, consents, consentVars, articles, articleVars
<1>3. CASE UNCHANGED accountsVars
  BY <1>1, <1>2, <1>3 DEF accountsVars
<1>4. CASE AccountsNext
  BY <1>1, <1>2, <1>4 DEF AccountsNext
<1>5. QED
  BY <1>3, <1>4

LEMMA AccountsKept == AccountsInv /\ [AccountsNext]_accountsVars => AccountsInv'
<1> SUFFICES ASSUME AccountsInv, [AccountsNext]_accountsVars PROVE AccountsInv'
  OBVIOUS
<1>1. /\ [Next]_vars /\ [SessionsNext]_sessionVars /\ [CollectionsNext]_collectionsVars
      /\ [ConsentNext]_consentVars /\ [ArticlesNext]_articleVars /\ [RequestsNext]_apiVars
  BY PartsStep
<1>2. TokensInv' /\ SessionsInv'
  BY <1>1, TokensKept, StepKeeps DEF AccountsInv
<1>3. CollectionsInv' /\ FilingInv' /\ ArticlesInv' /\ RequestsInv'
  BY <1>1, CollectionsKept, ConsentsKept, ArticlesKept, RequestsKept DEF AccountsInv
<1>4. QED
  BY <1>2, <1>3 DEF AccountsInv

(* Type correctness of everything that belongs to a user.                    *)
THEOREM AccountsStayTyped == AccountsSpec => []AccountTypes
<1>1. AccountsInv => AccountTypes
  BY TokensTyped
     DEF AccountsInv, AccountTypes, SessionsInv, CollectionsInv, FilingInv, ArticlesInv,
         RequestsInv
<1>2. QED
  BY <1>1, AccountsStart, AccountsKept, PTL DEF AccountsSpec

(* What the last four modules promise of a user's work holds together.       *)
THEOREM WorkAlwaysHolds == AccountsSpec => []WorkHolds
<1>1. AccountsInv => WorkHolds
  BY CollectionsOfInv, LinksOfArticles, RequestsOfInv
     DEF AccountsInv, WorkHolds, FilingInv
<1>2. QED
  BY <1>1, AccountsStart, AccountsKept, PTL DEF AccountsSpec
=============================================================================
