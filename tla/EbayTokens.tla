------------------------------ MODULE EbayTokens ------------------------------
(***************************************************************************)
(* The eBay tokens of one user and app: the refresh token in Postgres, the *)
(* access token cached in Redis, and the services that call resolve_token  *)
(* (or exchange_refresh_token) first and then do their work on the same    *)
(* connection.  eBay may rotate the refresh token on an exchange; the old  *)
(* one is then dead.                                                       *)
(***************************************************************************)
EXTENDS Naturals, FiniteSets

CONSTANTS
  Callers,      \* service calls that need an access token
  InTxn,        \* those whose service runs in a transaction
  Consents,     \* runs of handle_callback
  MaxTokens,    \* bound: refresh tokens that eBay issues
  MaxFails      \* bound: calls that raise or die

Running == {"fetch", "exchange", "save", "cache", "work"}

ASSUME TokenAssumption ==
  /\ InTxn \subseteq Callers /\ Callers \cap Consents = {}
  /\ {MaxTokens, MaxFails} \subseteq Nat /\ MaxTokens > 0

Everyone == Callers \cup Consents
NoToken == 0
Tokens == 1 .. MaxTokens       \* in the order eBay issues them

VARIABLES
  stored,     \* the committed row of ebay_refresh_tokens, NoToken without one
  unsaved,    \* per call, its upsert in an open transaction, or NoToken
  holder,     \* the calls that hold the row's lock: one at most
  cached,     \* is an access token in Redis?
  pc,         \* per call, where it is
  token,      \* per call, the refresh token it fetched or was issued
  issued,     \* at eBay: refresh tokens issued so far
  dead,       \* at eBay: refresh tokens replaced by a rotation
  reused,     \* history: was a dead token presented?
  lost,       \* history: did a call end with a rotated token unsaved?
  raced,      \* history: was the row used beside a call that cannot hold it?
  fails       \* history: failures so far

vars == <<stored, unsaved, holder, cached, pc, token, issued, dead, reused, lost, raced, fails>>

Init ==      \* the user has consented before, or not yet
  /\ stored \in {NoToken, 1} /\ issued = stored
  /\ holder = {} /\ cached = FALSE
  /\ unsaved = [c \in Everyone |-> NoToken]
  /\ pc = [c \in Everyone |-> "start"]
  /\ token = [c \in Everyone |-> NoToken]
  /\ dead = {} /\ reused = FALSE /\ lost = FALSE /\ raced = FALSE /\ fails = 0

Goto(c, to) == pc' = [pc EXCEPT ![c] = to]
Transactional(c) == c \in InTxn \cup Consents

(* A call outside a transaction that has read the row and not yet saved    *)
Unheld(c) == \E d \in Callers \ (InTxn \cup {c}) : pc[d] \in {"exchange", "save"}
Race(c) == raced' = (raced \/ Unheld(c))
LockIsFree(c) == holder \subseteq {c}

-----------------------------------------------------------------------------
(* resolve_token: a cached access token is used; exchange_refresh_token    *)
(* does not look *)
UseCached(c) ==
  /\ pc[c] = "start" /\ cached
  /\ Goto(c, "work")
  /\ UNCHANGED <<stored, unsaved, holder, cached, token, issued, dead, reused, lost, raced, fails>>

NotCached(c) ==
  /\ pc[c] = "start"
  /\ Goto(c, "fetch")
  /\ UNCHANGED <<stored, unsaved, holder, cached, token, issued, dead, reused, lost, raced, fails>>

(* SELECT ... FOR UPDATE: waits for the row; without a transaction the     *)
(* lock ends with the statement.  No row: ValueError. *)
Fetch(c) ==
  /\ pc[c] = "fetch" /\ LockIsFree(c)
  /\ IF stored = NoToken
     THEN Goto(c, "over") /\ UNCHANGED <<token, holder>>
     ELSE /\ token' = [token EXCEPT ![c] = stored]
          /\ holder' = IF Transactional(c) THEN holder \cup {c} ELSE holder
          /\ Goto(c, "exchange")
  /\ Race(c)
  /\ UNCHANGED <<stored, unsaved, cached, issued, dead, reused, lost, fails>>

Rotate(c) ==
  /\ issued < MaxTokens
  /\ issued' = issued + 1
  /\ dead' = dead \cup {token[c]}
  /\ token' = [token EXCEPT ![c] = issued + 1]
  /\ Goto(c, "save")

(* the exchange at eBay: an access token, with or without a new refresh    *)
(* token; a dead token is refused and the service raises *)
Exchange(c) ==
  /\ pc[c] = "exchange" /\ token[c] \notin dead
  /\ \/ Rotate(c)
     \/ Goto(c, "cache") /\ UNCHANGED <<token, issued, dead>>
  /\ UNCHANGED <<stored, unsaved, holder, cached, reused, lost, raced, fails>>

Refused(c) ==
  /\ pc[c] = "exchange" /\ token[c] \in dead
  /\ reused' = TRUE
  /\ holder' = holder \ {c}
  /\ Goto(c, "over")
  /\ UNCHANGED <<stored, unsaved, cached, token, issued, dead, lost, raced, fails>>

UpsertUncommitted(c) ==
  /\ unsaved' = [unsaved EXCEPT ![c] = token[c]]
  /\ holder' = IF Transactional(c) THEN holder \cup {c} ELSE holder
  /\ UNCHANGED stored

(* the upsert: committed with the transaction, or at once without one *)
Upsert(c) ==
  IF Transactional(c)
  THEN /\ unsaved' = [unsaved EXCEPT ![c] = token[c]]
       /\ holder' = holder \cup {c}
       /\ UNCHANGED stored
  ELSE stored' = token[c] /\ UNCHANGED <<unsaved, holder>>

(* upsert_refresh_token *)
Save(c) ==
  /\ pc[c] = "save" /\ LockIsFree(c)
  /\ Upsert(c)
  /\ Goto(c, "cache")
  /\ Race(c)
  /\ UNCHANGED <<cached, token, issued, dead, reused, lost, fails>>

(* setex of the access token *)
Cache(c) ==
  /\ pc[c] = "cache"
  /\ cached' = TRUE
  /\ Goto(c, "work")
  /\ UNCHANGED <<stored, unsaved, holder, token, issued, dead, reused, lost, raced, fails>>

(* the rest of the service, and the commit of its transaction              *)
Finish(c) ==
  /\ pc[c] = "work"
  /\ stored' = IF unsaved[c] = NoToken THEN stored ELSE unsaved[c]
  /\ unsaved' = [unsaved EXCEPT ![c] = NoToken]
  /\ holder' = holder \ {c}
  /\ Goto(c, "over")
  /\ UNCHANGED <<cached, token, issued, dead, reused, lost, raced, fails>>

(* A rotated token not upserted, or upserted in an open transaction *)
LosesToken(c) ==
  /\ c \in Callers
  /\ pc[c] = "save" \/ (c \in InTxn /\ unsaved[c] # NoToken)

(* the service raises or dies: its transaction is rolled back              *)
Fail(c) ==
  /\ pc[c] \in Running
  /\ fails < MaxFails /\ fails' = fails + 1
  /\ unsaved' = [unsaved EXCEPT ![c] = NoToken]
  /\ holder' = holder \ {c}
  /\ Goto(c, "over")
  /\ token' = [token EXCEPT ![c] = NoToken]
  /\ lost' = (lost \/ LosesToken(c))
  /\ UNCHANGED <<stored, cached, issued, dead, reused, raced>>

(* handle_callback: eBay issues a refresh token for the user's consent     *)
Consent(c) ==
  /\ pc[c] = "start" /\ issued < MaxTokens
  /\ issued' = issued + 1
  /\ token' = [token EXCEPT ![c] = issued + 1]
  /\ Goto(c, "save")
  /\ UNCHANGED <<stored, unsaved, holder, cached, dead, reused, lost, raced, fails>>

Expire ==
  /\ cached
  /\ cached' = FALSE
  /\ UNCHANGED <<stored, unsaved, holder, pc, token, issued, dead, reused, lost, raced, fails>>

(* the next call of the same service                                       *)
Again(c) ==
  /\ pc[c] = "over"
  /\ Goto(c, "start")
  /\ token' = [token EXCEPT ![c] = NoToken]
  /\ UNCHANGED <<stored, unsaved, holder, cached, issued, dead, reused, lost, raced, fails>>

Next ==
  \/ \E c \in Callers :
       UseCached(c) \/ NotCached(c) \/ Fetch(c) \/ Exchange(c) \/ Refused(c) \/ Again(c)
  \/ \E c \in Everyone : Save(c) \/ Cache(c) \/ Finish(c) \/ Fail(c)
  \/ \E c \in Consents : Consent(c)
  \/ Expire

Spec == Init /\ [][Next]_vars

-----------------------------------------------------------------------------
(* Every variable has its type, and the row has one holder at most.        *)
TypeOK ==
  /\ stored \in Tokens \cup {NoToken}
  /\ unsaved \in [Everyone -> Tokens \cup {NoToken}]
  /\ holder \subseteq Everyone /\ Cardinality(holder) <= 1
  /\ cached \in BOOLEAN
  /\ pc \in [Everyone -> Running \cup {"start", "over"}]
  /\ token \in [Everyone -> Tokens \cup {NoToken}]
  /\ issued \in 0 .. MaxTokens /\ dead \subseteq Tokens
  /\ {reused, lost, raced} \subseteq BOOLEAN /\ fails \in 0 .. MaxFails

(* Once eBay has rotated the refresh token, the old one is never presented *)
(* again. *)
OldTokenNeverPresented == ~reused

(* There are two ways only in which it is: a service failed between eBay's *)
(* answer and the commit of the new token, or one outside a transaction,   *)
(* whose FOR UPDATE locks nothing, overlapped another.  Otherwise the row  *)
(* lock makes the others wait for the new token. *)
OldTokenOnlyIfLost == reused => lost \/ raced

(* The token of a user's new consent is not overwritten by one that eBay   *)
(* issued before it, to a rotation that saves late, unless they raced so.  *)
ConsentSurvives ==
  raced \/ \A c \in Consents : pc[c] = "over" /\ token[c] # NoToken => stored >= token[c]

(* A dead refresh token is presented to eBay only after one was lost or two *)
(* calls raced, and a rotation never overwrites a new consent.             *)
TokensHold == OldTokenOnlyIfLost /\ ConsentSurvives
=============================================================================
