------------------------------ MODULE ApiRequests ------------------------------
(***************************************************************************)
(* A request on its way through the API: who sent it (the session cookie   *)
(* or the bearer token), whether they may, the handler's services one by   *)
(* one and the answer.  Roles may change, and accounts be disabled,        *)
(* between any two of these steps.                                         *)
(***************************************************************************)
EXTENDS UserRoles

CONSTANTS
  Requests,   \* requests, each sent once
  Handlers,   \* the handlers of the API, by name
  Together    \* bound: the handlers of which more than one request is sent

Errors == {302, 400, 401, 403, 404, 409, 413, 500, 503}
ServiceCall == [service : STRING, does : {"reads", "writes", "acts", "fails", "nothing"}]
AboutRoles == {"user.assign_role", "user.revoke_role"}
AboutUsers == AboutRoles \cup {"user.delete", "auth.register"}
Uses(h, S) == \E i \in DOMAIN h.services : h.services[i].service \in S

HandlerTypes(h) ==
  /\ h.guard \in {"open", "user", "admin"} /\ h.services \in Seq(ServiceCall)
  /\ \A k \in DOMAIN h.on : h.on[k] \in Errors
  /\ \A i \in DOMAIN h.empty : h.empty[i] \in Errors
  /\ h.refuses \subseteq Errors

Changing == {"writes", "acts"}

(* After a service that stores or does something a handler calls none that   *)
(* may make the answer an error; roles are the business of handlers for      *)
(* admins.                                                                   *)
StoresLast(h) ==
  \A i, j \in DOMAIN h.services : h.services[i].does \in Changing =>
    /\ h.fits
    /\ i < j => /\ h.services[j].does = "nothing" \/ j \in h.tolerates
                /\ j \notin DOMAIN h.empty

(* The answers the handlers make of the exceptions of a service; one that acts *)
(* outside the database has no other.                                        *)
OfExceptions == {400, 409, 500, 503}
ActsOf(h) == {i \in DOMAIN h.services : h.services[i].does = "acts"}

ASSUME HandlersAssumption ==
  /\ "get_me" \in DOMAIN Handlers
  /\ \A n \in DOMAIN Handlers :
       /\ HandlerTypes(Handlers[n]) /\ StoresLast(Handlers[n])
       /\ ActsOf(Handlers[n]) # {} => \A k \in DOMAIN Handlers[n].on : Handlers[n].on[k] \in OfExceptions
       /\ Uses(Handlers[n], AboutRoles) => Handlers[n].guard = "admin"

VARIABLES
  request,   \* per request, how far it is, the services it has stored, those
             \* whose effect outside the database stands, and its answer
  entitled   \* history: requests whose sender was admin at some time since

apiVars == <<request, entitled, userVars>>

Nobody == "nobody"
Unsent == [at |-> "none", handler |-> "get_me", by |-> Nobody, target |-> Nobody,
           next |-> 1, stored |-> {}, acted |-> {}, status |-> 0]

RequestsInit ==
  /\ UserInit
  /\ request = [r \in Requests |-> Unsent]
  /\ entitled = {}

UnderWay(r) == request[r].at \notin {"none", "answered"}
HandlerOf(r) == Handlers[request[r].handler]
Service(r) == HandlerOf(r).services[request[r].next]
HasService(r) == request[r].next <= Len(HandlerOf(r).services)

(* What every step leaves: who is admin while their request runs is noted.   *)
Noting ==
  entitled' = entitled \cup
    {r \in Requests : UnderWay(r)' /\ IsAdmin(request[r].by)'}

Stepping(r, new) ==
  /\ request' = [request EXCEPT ![r] = new]
  /\ Noting

At(r, place) == Stepping(r, [request[r] EXCEPT !.at = place])
AnsweredHaving(r, n, done) ==
  Stepping(r, [request[r] EXCEPT !.at = "answered", !.status = n, !.acted = @ \cup done])
Answered(r, n) == AnsweredHaving(r, n, {})

Sent == {q \in Requests : request[q] # Unsent}

(* Whose role or account the request is about.                               *)
Targets(h) == IF Uses(h, AboutUsers) THEN People ELSE {Nobody}

Send(r) ==
  /\ UNCHANGED userVars
  /\ request[r] = Unsent
  /\ \E h \in DOMAIN Handlers, by \in People : \E target \in Targets(Handlers[h]) :
       /\ Sent = {} \/ {h} \cup {request[q].handler : q \in Sent} \subseteq Together
       /\ Stepping(r, [Unsent EXCEPT !.at = "sent", !.handler = h, !.by = by, !.target = target])

(* get_current_active_user: by the cookie or else by the token, if the     *)
(* session or the token is still good and the account is active            *)
Know(r) ==
  /\ UNCHANGED userVars
  /\ request[r].at = "sent" /\ HandlerOf(r).guard # "open"
  /\ \/ account[request[r].by] = "active" /\ At(r, "known")
     \/ Answered(r, 401)

(* require_admin: asks is_admin of the user it has just read               *)
Allow(r) ==
  /\ UNCHANGED userVars
  /\ request[r].at = "known" /\ HandlerOf(r).guard = "admin"
  /\ IF IsAdmin(request[r].by) THEN At(r, "allowed") ELSE Answered(r, 403)

LetIn(r) ==
  request[r].at = CASE HandlerOf(r).guard = "open"  -> "sent"
                    [] HandlerOf(r).guard = "user"  -> "known"
                    [] HandlerOf(r).guard = "admin" -> "allowed"

(* the handler starts, or refuses the input                                *)
Start(r) ==
  /\ UNCHANGED userVars
  /\ LetIn(r)
  /\ \/ At(r, "running")
     \/ \E n \in HandlerOf(r).refuses : Answered(r, n)

Effect(s, by, target) ==
  CASE s = "user.assign_role" -> Assign(target, by)
    [] s = "user.revoke_role" -> Revoke(target, by)
    [] s = "user.delete"      -> DeleteUser(target)
    [] s = "auth.register"    -> Register(target)
    [] OTHER                  -> UNCHANGED userVars

Storing(r) == IF Service(r).does \in Changing THEN {request[r].next} ELSE {}

(* What the service does outside has happened, or has been refused there.    *)
Outside(r) == {{}} \cup (IF Service(r).does = "acts" THEN {{request[r].next}} ELSE {})

(* execute_service: a service succeeds and its transaction is committed      *)
Serve(r) ==
  /\ request[r].at = "running" /\ HasService(r) /\ Service(r).does # "fails"
  /\ Effect(Service(r).service, request[r].by, request[r].target)
  /\ \E done \in Outside(r) :
       Stepping(r, [request[r] EXCEPT !.next = @ + 1, !.stored = @ \cup Storing(r),
                                      !.acted = @ \cup done])

(* it raises, at its commit at the latest: what it stored is rolled back,    *)
(* what it did outside the database stays done                               *)
Raise(r) ==
  /\ UNCHANGED userVars
  /\ request[r].at = "running" /\ HasService(r) /\ Service(r).does # "nothing"
  /\ \E done \in Outside(r) :
       IF request[r].next \in HandlerOf(r).tolerates
       THEN Stepping(r, [request[r] EXCEPT !.next = @ + 1, !.acted = @ \cup done])
       ELSE \E k \in DOMAIN HandlerOf(r).on : AnsweredHaving(r, HandlerOf(r).on[k], done)

(* it returns nothing, and the handler makes an error of that              *)
FindNothing(r) ==
  /\ UNCHANGED userVars
  /\ request[r].at = "running" /\ HasService(r) /\ Service(r).does # "fails"
  /\ request[r].next \in DOMAIN HandlerOf(r).empty
  /\ Answered(r, HandlerOf(r).empty[request[r].next])

Reply(r) ==
  /\ UNCHANGED userVars
  /\ request[r].at = "running" /\ ~HasService(r)
  /\ Answered(r, IF HandlerOf(r).fits THEN 200 ELSE 500)

SwitchAccount(p) ==
  /\ Switch(p)
  /\ UNCHANGED request
  /\ Noting

RequestsNext ==
  \/ \E r \in Requests :
       \/ Send(r) \/ Know(r) \/ Allow(r) \/ Start(r)
       \/ Serve(r) \/ Raise(r) \/ FindNothing(r) \/ Reply(r)
  \/ \E p \in People : SwitchAccount(p)

RequestsSpec == RequestsInit /\ [][RequestsNext]_apiVars

-----------------------------------------------------------------------------
(* Every variable has its type.                                            *)
RequestsTypeOK ==
  /\ UserTypeOK /\ entitled \subseteq Requests
  /\ request \in [Requests ->
       [at : {"none", "sent", "known", "allowed", "running", "answered"},
        handler : DOMAIN Handlers, by : People \cup {Nobody}, target : People \cup {Nobody},
        next : Nat \ {0}, stored : SUBSET Nat, acted : SUBSET Nat,
        status : Errors \cup {0, 200}]]
  /\ \A r \in Requests :
       /\ request[r].next \in 1..Len(HandlerOf(r).services) + 1
       /\ request[r].stored \subseteq 1..request[r].next - 1
       /\ request[r].acted \subseteq 1..request[r].next

(* Whoever is answered with an error has stored nothing in the database.     *)
(* What was done outside, at eBay above all, may stand for all an answer     *)
(* made of an exception says; a request that was turned away (302, 401, 403, *)
(* 404, 413) has done nothing there either.  An answer without an error has  *)
(* its services stored, apart from the record of a new eBay listing, which   *)
(* may have failed (ServiceManager.transaction, the handlers of the routers).*)
AnswersTellTheTruth ==
  \A r \in Requests :
    LET h == HandlerOf(r)
        changing == {i \in DOMAIN h.services : h.services[i].does \in Changing}
        says == request[r].status
    IN request[r].at = "answered" =>
         /\ says # 200 => request[r].stored = {}
         /\ says \notin OfExceptions \cup {200} => request[r].acted = {}
         /\ says = 200 => changing \subseteq request[r].stored \cup h.tolerates

(* A request for admins that does anything was sent by someone who was     *)
(* admin while it ran: what is sent after the role was taken away, or the  *)
(* account disabled, has no effect, however the requests overlap; and the  *)
(* log names such a sender for every change of a role.                     *)
OnlyAdminsAct ==
  /\ \A r \in Requests :
       HandlerOf(r).guard = "admin" /\ request[r].stored \cup request[r].acted # {} => r \in entitled
  /\ \A i \in DOMAIN roleLog :
       \E r \in entitled : request[r].by = roleLog[i].by /\ request[r].target = roleLog[i].user
=============================================================================
