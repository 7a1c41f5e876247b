------------------------------- MODULE Listings -------------------------------
(***************************************************************************)
(* Writing eBay listings: create_listing with its idempotency store (a get *)
(* before the eBay call, a set-if-absent after it), update_listing and     *)
(* end_listing, and the cached page of get_active_listings that each of    *)
(* them invalidates.  What eBay answers to a request, be it a listing or a *)
(* refusal (an HTTP error or Ack=Failure, which the repository returns     *)
(* like any other body), is named by the request.                          *)
(***************************************************************************)
EXTENDS Naturals, FiniteSets

CONSTANTS
  Requests,     \* calls of create_listing
  IdemKeys,     \* idempotency keys
  KeyOf,        \* the key a request carries
  Legacy,       \* keys whose stored entry may not decode
  MaxFaults     \* bound: calls that raise, deaths and Redis calls that raise

Nothing == "nothing"
Malformed == "malformed"
NoPage == "no page"
Aged(p) == IF p = NoPage THEN NoPage ELSE "outdated"

ASSUME ListingAssumption ==
  /\ KeyOf \in [Requests -> IdemKeys] /\ Legacy \subseteq IdemKeys
  /\ {Nothing, Malformed} \cap Requests = {}
  /\ MaxFaults \in Nat

VARIABLES
  listing,    \* what eBay did with a request: "none", "refused", or its
              \* listing, which is "live" or "ended"
  stored,     \* the idempotency store: per key, whose answer of eBay it holds
  request,    \* per request, where create_listing is
  answer,     \* per request, whose answer of eBay it was given
  editing,    \* update_listing or end_listing: called eBay, not invalidated
  page,       \* the cached page: does it show eBay's listings as they are?
  pageRead,   \* get_active_listings: the page read and not yet cached
  forgotten,  \* history: keys with an answer no later request can find
  faults      \* history: faults so far

listingVars ==
  <<listing, stored, request, answer, editing, page, pageRead, forgotten, faults>>

ListingsInit ==
  /\ listing = [r \in Requests |-> "none"]
  /\ forgotten \in SUBSET Legacy
  /\ stored = [k \in IdemKeys |-> IF k \in forgotten THEN Malformed ELSE Nothing]
  /\ request = [r \in Requests |-> "start"]
  /\ answer = [r \in Requests |-> Nothing]
  /\ editing = FALSE
  /\ page = NoPage /\ pageRead = NoPage
  /\ faults = 0

Fault == faults < MaxFaults /\ faults' = faults + 1

Reach(r, to) == request' = [request EXCEPT ![r] = to]
Over == {"answered", "raised"}

Listed(r) == listing[r] \notin {"none", "refused"}
Forget(ks) == forgotten' = forgotten \cup ks
InFlight(k) == \E q \in Requests : KeyOf[q] = k /\ request[q] \in {"miss", "told"}

-----------------------------------------------------------------------------

(* store.get: a decodable entry is the answer, a stored refusal too;       *)
(* anything else is a miss                                                 *)
Replay(r) ==
  /\ request[r] = "start"
  /\ stored[KeyOf[r]] \in Requests
  /\ answer' = [answer EXCEPT ![r] = stored[KeyOf[r]]]
  /\ Reach(r, "answered")
  /\ UNCHANGED <<listing, stored, editing, page, pageRead, forgotten, faults>>

Miss(r) ==
  /\ request[r] = "start"
  /\ \/ /\ stored[KeyOf[r]] \notin Requests
        /\ Forget(IF InFlight(KeyOf[r]) THEN {KeyOf[r]} ELSE {})
        /\ UNCHANGED faults
     \/ Fault /\ Forget({KeyOf[r]})
  /\ Reach(r, "miss")
  /\ UNCHANGED <<listing, stored, answer, editing, page, pageRead>>

(* selling_repository.create_listing: eBay lists the item ...              *)
Create(r) ==
  /\ request[r] = "miss"
  /\ listing' = [listing EXCEPT ![r] = "live"]
  /\ page' = Aged(page) /\ pageRead' = Aged(pageRead)
  /\ Reach(r, "told")
  /\ UNCHANGED <<stored, answer, editing, forgotten, faults>>

(* ... or refuses, and the request goes on with that answer                *)
Refuse(r) ==
  /\ request[r] = "miss"
  /\ listing' = [listing EXCEPT ![r] = "refused"]
  /\ Reach(r, "told")
  /\ UNCHANGED <<stored, answer, editing, page, pageRead, forgotten, faults>>

(* no token, or no connection to eBay: the service raises                  *)
CallFails(r) ==
  /\ request[r] = "miss" /\ Fault
  /\ Reach(r, "raised")
  /\ UNCHANGED <<listing, stored, answer, editing, page, pageRead, forgotten>>

(* eBay's answer is lost, or the process before it has answered            *)
Lose(r) ==
  /\ request[r] \in {"told", "stored"} /\ Fault
  /\ Forget(IF request[r] = "told" /\ Listed(r) THEN {KeyOf[r]} ELSE {})
  /\ Reach(r, "raised")
  /\ UNCHANGED <<listing, stored, answer, editing, page, pageRead>>

StoreNothing(r) == request[r] = "told" /\ UNCHANGED <<stored, forgotten, faults>>

(* set_if_absent: SET NX, or nothing when Redis raises *)
SetIfAbsent(r) ==
  /\ request[r] = "told"
  /\ \/ /\ stored' = [stored EXCEPT ![KeyOf[r]] = IF @ = Nothing THEN r ELSE @]
        /\ UNCHANGED <<forgotten, faults>>
     \/ /\ Fault
        /\ Forget({KeyOf[r]})
        /\ UNCHANGED stored

Store(r) ==
  /\ SetIfAbsent(r)
  /\ Reach(r, "stored")
  /\ UNCHANGED <<listing, answer, editing, page, pageRead>>

(* invalidate_cache_pattern: nothing is deleted when Redis raises          *)
Drop == \/ page' = NoPage /\ UNCHANGED faults
        \/ Fault /\ UNCHANGED page

Answer(r) ==
  /\ request[r] = "stored"
  /\ Drop
  /\ answer' = [answer EXCEPT ![r] = r]
  /\ Reach(r, "answered")
  /\ UNCHANGED <<listing, stored, editing, pageRead, forgotten>>

(* update_listing and end_listing: the eBay call, then the invalidation    *)
Edit(l) ==
  /\ ~editing
  /\ listing[l] = "live"
  /\ \E s \in {"live", "ended"} : listing' = [listing EXCEPT ![l] = s]
  /\ page' = Aged(page) /\ pageRead' = Aged(pageRead)
  /\ editing' = TRUE
  /\ UNCHANGED <<stored, request, answer, forgotten, faults>>

(* a refused one, or an end that only verifies, invalidates all the same   *)
EditRefused ==
  /\ ~editing /\ editing' = TRUE
  /\ UNCHANGED <<listing, stored, request, answer, page, pageRead, forgotten, faults>>

EndEdit ==
  /\ editing /\ editing' = FALSE
  /\ Drop
  /\ UNCHANGED <<listing, stored, request, answer, pageRead, forgotten>>

(* get_active_listings on a cache miss: read eBay, then cache the page,    *)
(* even one that a write has overtaken meanwhile.                          *)
ReadActive ==
  /\ page = NoPage /\ pageRead = NoPage
  /\ pageRead' = "current"
  /\ UNCHANGED <<listing, stored, request, answer, editing, page, forgotten, faults>>

CachePage ==
  /\ pageRead # NoPage
  /\ page' = IF pageRead = "outdated" THEN "overtaken" ELSE pageRead
  /\ pageRead' = NoPage
  /\ UNCHANGED <<listing, stored, request, answer, editing, forgotten, faults>>

(* the page's _ACTIVE_LISTINGS_TTL runs out *)
ExpirePage ==
  /\ page # NoPage
  /\ page' = NoPage
  /\ UNCHANGED <<listing, stored, request, answer, editing, pageRead, forgotten, faults>>

(* ... and that of an idempotency entry *)
ExpireKey(k) ==
  /\ stored[k] # Nothing
  /\ stored' = [stored EXCEPT ![k] = Nothing]
  /\ Forget({k})
  /\ UNCHANGED <<listing, request, answer, editing, page, pageRead, faults>>

ListingsNext ==
  \/ \E r \in Requests :
       \/ Replay(r) \/ Miss(r) \/ Create(r) \/ Refuse(r) \/ CallFails(r) \/ Lose(r)
       \/ Store(r) \/ Answer(r) \/ Edit(r)
  \/ EditRefused \/ EndEdit \/ ReadActive \/ CachePage \/ ExpirePage
  \/ \E k \in IdemKeys : ExpireKey(k)

ListingsSpec == ListingsInit /\ [][ListingsNext]_listingVars

-----------------------------------------------------------------------------
Pages == {"current", "outdated", "overtaken", NoPage}

(* Every variable has its type.                                            *)
ListingsTypeOK ==
  /\ listing \in [Requests -> {"none", "refused", "live", "ended"}]
  /\ stored \in [IdemKeys -> Requests \cup {Nothing, Malformed}]
  /\ request \in [Requests -> {"start", "miss", "told", "stored"} \cup Over]
  /\ answer \in [Requests -> Requests \cup {Nothing}]
  /\ editing \in BOOLEAN
  /\ page \in Pages /\ pageRead \in Pages
  /\ forgotten \subseteq IdemKeys
  /\ faults \in 0 .. MaxFaults

(* An idempotency key creates at most one listing, however often it is     *)
(* retried, refused or replayed, unless the key was forgotten: two requests *)
(* of it were between the lookup and the store together, one died there,   *)
(* Redis failed the lookup or the store, or its entry was malformed or     *)
(* expired. *)
OneListingPerKey ==
  \A q, r \in Requests :
    /\ KeyOf[q] = KeyOf[r] /\ KeyOf[q] \notin forgotten
    /\ Listed(q) /\ Listed(r)
    => q = r

(* Whatever fails and overlaps, an answer is one eBay gave, and for the    *)
(* caller's own key. *)
AnswersAreReal ==
  \A r \in Requests :
    request[r] = "answered" => /\ answer[r] \in Requests
                               /\ listing[answer[r]] # "none"
                               /\ KeyOf[answer[r]] = KeyOf[r]

(* All requests of a key that is not forgotten are told the same, also when *)
(* that is a refusal: a retry is not asked of eBay again, and a user who   *)
(* was told of a refusal has no listing under that key. *)
SameAnswerPerKey ==
  \A q, r \in Requests :
    /\ KeyOf[q] = KeyOf[r] /\ KeyOf[q] \notin forgotten
    /\ request[r] = "answered"
    => /\ request[q] = "answered" => answer[q] = answer[r]
       /\ Listed(q) => answer[r] = q

(* A page that was cached before a write is served after it only while that *)
(* write is under way, unless something failed: the next listing shows the *)
(* seller what he did, or else what a read that the write overtook saw.    *)
OwnWritesShow ==
  page = "outdated" /\ faults = 0 =>
    editing \/ \E r \in Requests : request[r] \in {"told", "stored"}

(* An idempotency key that is not forgotten creates one listing and tells  *)
(* every request of it the same, which is what eBay said for that key, and *)
(* the cached page of active listings does not outlive a write that finds  *)
(* it. *)
ListingsHold ==
  OneListingPerKey /\ AnswersAreReal /\ SameAnswerPerKey /\ OwnWritesShow

(* A double click makes one listing: two requests of one key never hold a  *)
(* listing each that eBay has just made.  The code does not keep this: the *)
(* key is not reserved while eBay is called. *)
DoubleClickMakesOne ==
  \A q, r \in Requests :
    /\ KeyOf[q] = KeyOf[r] /\ Listed(q) /\ Listed(r)
    /\ request[q] = "told" /\ request[r] = "told"
    => q = r
=============================================================================
