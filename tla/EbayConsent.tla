----------------------------- MODULE EbayConsent -----------------------------
(* How a user connects an eBay app: the login logs a request and sends the   *)
(* browser to eBay, eBay sends it back with a code, and the callback looks   *)
(* for the request the code belongs to.  eBay may cut the state that names   *)
(* the request; the callback then takes the latest request of anyone.        *)
EXTENDS Naturals, Sequences

CONSTANTS
  AppUsers, Apps,
  EnvOf,         \* app_info.environment of an app
  Linked,        \* app_user: the users of each app
  UserScopes, AppScopes,
  MaxRequests    \* bound: logins

ASSUME ConsentAssumption ==
  /\ DOMAIN EnvOf = Apps /\ Linked \in [Apps -> SUBSET AppUsers]
  /\ DOMAIN UserScopes = AppUsers \X Apps /\ DOMAIN AppScopes = Apps
  /\ MaxRequests \in Nat

VARIABLES
  requests,   \* log_oauth_request, in the order of its timestamps
  expired,    \* the requests whose expires_on is past
  visit,      \* per request, where its browser and its callback are
  named,      \* the requests whose state came back whole
  target,     \* per request, the environment the callback resolved
  taken,      \* per request, the request its callback went on with
  filed,      \* ebay_refresh_tokens: whose request the token comes from
  mixed       \* history: answered without a state while another was later

consentVars == <<requests, expired, visit, named, target, taken, filed, mixed>>

Logged == 1 .. Len(requests)
None == 0
Latest == Len(requests)         \* no request ever leaves the status pending
MovesTo(r, to) == visit' = [visit EXCEPT ![r] = to]

ConsentInit ==
  /\ requests = <<>> /\ expired = {} /\ named = {} /\ mixed = {}
  /\ visit = [r \in 1 .. MaxRequests |-> "none"]
  /\ target = [r \in 1 .. MaxRequests |-> "none"]
  /\ taken = [r \in 1 .. MaxRequests |-> None]
  /\ filed = [p \in AppUsers \X Apps |-> None]

-----------------------------------------------------------------------------
(* get_app_settings joins the app with its users; a user without scopes for  *)
(* the app has the app's.                                                    *)
HasSettings(u, a) == u \in Linked[a]
Scopes(u, a) == IF UserScopes[<<u, a>>] # {} THEN UserScopes[<<u, a>>] ELSE AppScopes[a]

(* start_oauth_flow: refused without settings, which need a link to the app, *)
(* and without scopes; otherwise the request is logged and the URL answered. *)
Login(u, a) ==
  /\ Latest < MaxRequests
  /\ HasSettings(u, a) /\ Scopes(u, a) # {}
  /\ requests' = Append(requests, [user |-> u, app |-> a])
  /\ MovesTo(Latest + 1, "ebay")
  /\ UNCHANGED <<expired, named, target, taken, filed, mixed>>

(* The user declines, or the callback comes without a code.                  *)
Decline(r) ==
  /\ visit[r] = "ebay" /\ MovesTo(r, "over")
  /\ UNCHANGED <<requests, expired, named, target, taken, filed, mixed>>

(* eBay calls back with the code: the state whole, cut or dropped.           *)
Return(r) ==
  /\ visit[r] = "ebay" /\ MovesTo(r, "environment")
  /\ named' \in {named, named \cup {r}}
  /\ UNCHANGED <<requests, expired, target, taken, filed, mixed>>

(* get_environment_callback: the request of the state, however old, or else  *)
(* the latest.                                                               *)
EnvironmentOf(row) == EnvOf[requests[row].app]
ResolveEnvironment(r) ==
  /\ visit[r] = "environment" /\ MovesTo(r, "process")
  /\ target' = [target EXCEPT ![r] = EnvironmentOf(IF r \in named THEN r ELSE Latest)]
  /\ UNCHANGED <<requests, expired, named, taken, filed, mixed>>

(* handle_callback, a service of its own: the request of the state while it  *)
(* is valid, or else the latest.                                             *)
Valid(r) == r \in named \ expired
RequestFor(r) == IF Valid(r) THEN r ELSE Latest

ProcessCallback(r) ==
  /\ visit[r] = "process" /\ MovesTo(r, "exchange")
  /\ taken' = [taken EXCEPT ![r] = RequestFor(r)]
  /\ mixed' = IF ~Valid(r) /\ Latest > r THEN mixed \cup {r} ELSE mixed
  /\ UNCHANGED <<requests, expired, named, target, filed>>

(* exchange_code_token: eBay gives a token to the app and the environment it *)
(* issued the code for.                                                      *)
Accepts(r) ==
  /\ requests[taken[r]].app = requests[r].app
  /\ target[r] = EnvironmentOf(r)
ExchangeCode(r) ==
  /\ visit[r] = "exchange"
  /\ MovesTo(r, IF Accepts(r) THEN "save" ELSE "over")
  /\ UNCHANGED <<requests, expired, named, target, taken, filed, mixed>>

(* upsert_refresh_token, keyed by user and app, and the commit; or the       *)
(* service raises.                                                           *)
SaveToken(r) ==
  /\ visit[r] = "save" /\ MovesTo(r, "over")
  /\ LET row == requests[taken[r]]
     IN filed' \in {filed, [filed EXCEPT ![<<row.user, row.app>>] = r]}
  /\ UNCHANGED <<requests, expired, named, target, taken, mixed>>

(* Ten minutes are over; they never are before those of an earlier request.  *)
ExpireRequest(r) ==
  /\ r \in Logged \ expired /\ 1 .. (r - 1) \subseteq expired
  /\ expired' = expired \cup {r}
  /\ UNCHANGED <<requests, visit, named, target, taken, filed, mixed>>

(* The bound is reached and nothing is under way.                            *)
AllOver ==
  /\ Latest = MaxRequests /\ expired = Logged
  /\ \A r \in Logged : visit[r] = "over"
  /\ UNCHANGED consentVars

ConsentNext ==
  \/ \E u \in AppUsers, a \in Apps : Login(u, a)
  \/ \E r \in Logged :
       \/ Decline(r) \/ Return(r) \/ ResolveEnvironment(r)
       \/ ProcessCallback(r) \/ ExchangeCode(r) \/ SaveToken(r) \/ ExpireRequest(r)
  \/ AllOver

ConsentSpec == ConsentInit /\ [][ConsentNext]_consentVars

-----------------------------------------------------------------------------
(* Every variable has its type.                                              *)
ConsentTypeOK ==
  /\ requests \in Seq([user : AppUsers, app : Apps]) /\ Latest <= MaxRequests
  /\ expired \cup named \cup mixed \subseteq Logged
  /\ visit \in [1 .. MaxRequests ->
                  {"none", "ebay", "environment", "process", "exchange", "save", "over"}]
  /\ DOMAIN target = 1 .. MaxRequests
  /\ taken \in [1 .. MaxRequests -> Logged \cup {None}]
  /\ filed \in [AppUsers \X Apps -> Logged \cup {None}]

(* list_user_apps shows an app as connected by a token that is there.        *)
Connected(u, a) == filed[<<u, a>>] # None

(* An app that is shown as connected is connected to the account whose owner *)
(* consented for it, and for that app: it is another user's account only if  *)
(* the state of the consent was lost, or too old, and somebody had logged in *)
(* later.  The token of another app is not filed even then.                  *)
ConsentIsFiledAsGiven ==
  \A u \in AppUsers, a \in Apps : Connected(u, a) =>
    LET r == filed[<<u, a>>]
    IN requests[r].app = a /\ (requests[r].user = u \/ r \in mixed)
=============================================================================
