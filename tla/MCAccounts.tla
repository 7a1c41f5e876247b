----------------------------- MODULE MCAccounts -----------------------------
(* What belongs to a user: the eBay apps and tokens, the sessions with the   *)
(* password, the collections, the articles, and the requests to the API with *)
(* the roles they need.  They share no state, so each is explored with the   *)
(* others at rest: part says which one moves.                                *)
EXTENDS MCEbayTokens, Sessions, Collections, EbayConsent, Articles, ApiRequests,
        ApiHandlers

CONSTANTS login1, login2, reset1, reset2, link1, link2

VARIABLE part

tokens == <<stored, unsaved, holder, cached, pc, token, issued, dead, reused, lost,
            raced, fails>>
owned == <<collections, items, adding, cards, moved, refused, listing, turns>>
consents == <<requests, expired, visit, named, target, taken, filed, mixed>>
articles == <<article, writing, given>>
api == <<request, entitled, account, admins, roleLog>>
accountsVars == <<part, sessionVars, tokens, owned, consents, articles, api>>

(* What the market knows of the cards varies when the collections move.      *)
AccountsInit ==
  /\ part \in {"tokens", "sessions", "collections", "consents", "articles", "api"}
  /\ Init /\ SessionsInit /\ CollectionsInit /\ ConsentInit
  /\ ArticlesInit /\ RequestsInit
  /\ part # "collections" => moved = {}
  /\ part # "tokens" => stored = NoToken

AccountsNext ==
  /\ UNCHANGED part
  /\ \/ /\ part = "tokens"      /\ Next
        /\ UNCHANGED <<sessionVars, owned, consents, articles, api>>
     \/ /\ part = "sessions"    /\ SessionsNext
        /\ UNCHANGED <<tokens, owned, consents, articles, api>>
     \/ /\ part = "collections" /\ CollectionsNext
        /\ UNCHANGED <<tokens, sessionVars, consents, articles, api>>
     \/ /\ part = "consents"    /\ ConsentNext
        /\ UNCHANGED <<tokens, sessionVars, owned, articles, api>>
     \/ /\ part = "articles"    /\ ArticlesNext
        /\ UNCHANGED <<tokens, sessionVars, owned, consents, api>>
     \/ /\ part = "api"         /\ RequestsNext
        /\ UNCHANGED <<tokens, sessionVars, owned, consents, articles>>

AccountsSpec == AccountsInit /\ [][AccountsNext]_accountsVars

-----------------------------------------------------------------------------
Logins == {login1, login2}
PasswordResets == {reset1, reset2}
ResetLinks == {link1, link2}
Alike == Permutations(Logins) \cup Permutations(PasswordResets) \cup Permutations(ResetLinks)

(* Two apps, one of each environment, that both users are linked to; the     *)
(* second has scopes, and one user has some for the first.                   *)
TwoEnvironments == [a \in Apps |-> IF a = "a1" THEN "sandbox" ELSE "production"]
Everybody == [a \in Apps |-> AppUsers]
ScopesOfOne == [p \in AppUsers \X Apps |-> IF p = <<"u1", "a1">> THEN {"sell"} ELSE {}]
ScopesOfApps == [a \in Apps |-> IF a = "a2" THEN {"sell"} ELSE {}]

(* Two titles, and the numbered slug of one is the slug of the other.        *)
TwoTitles == [t \in {"bolt", "bolt-2"} |->
                IF t = "bolt" THEN <<"bolt", "bolt-2", "bolt-3">>
                ELSE <<"bolt-2", "bolt-2-2", "bolt-2-3">>]

(* Every variable has its type, the row of the eBay token has one holder     *)
(* at most, a refresh token belongs to a session that exists and a card      *)
(* that the market has a change for is in the catalogue.                     *)
AccountTypes ==
  /\ TypeOK /\ SessionsTypeOK /\ CollectionsTypeOK /\ ConsentTypeOK
  /\ ArticlesTypeOK /\ RequestsTypeOK

(* What was refused or removed is not in a collection, the active            *)
(* collections of a user have names of their own, and the link of an article *)
(* leads to it.  Only requests of an admin do what only an admin may, and    *)
(* the log of the roles explains who is one.  After an error nothing is      *)
(* stored in the database, and after a refusal nothing is done at eBay       *)
(* either; after a success all is stored.  An app is connected to the        *)
(* account of the user who consented for it, unless the state of the consent *)
(* was lost and somebody had logged in later.                                *)
WorkHolds ==
  /\ RefusedEntriesAreGone /\ OneActivePerName /\ LinksLead
  /\ OnlyAdminsAct /\ LogExplainsRoles /\ AnswersTellTheTruth
  /\ ConsentIsFiledAsGiven
=============================================================================
