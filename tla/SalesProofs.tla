----------------------------- MODULE SalesProofs -----------------------------
(* Theorems about Listings, for any requests, keys and faults, and about    *)
(* SoldPromotion, for any rows, keys, prices and faults; at the end the     *)
(* types of all parts of MCSelling together.                                *)
EXTENDS MCSelling, SellingProofs, TLAPS

-----------------------------------------------------------------------------
(* Listings.  Which listing a key that is not forgotten has: the stored     *)
(* one, or that of the only request of the key that is under way; and what  *)
(* its requests were told is what the store holds.                          *)
UnderWay(r) == request[r] \in {"miss", "told"}
Single(k) ==
  /\ stored[k] # Malformed
  /\ \A q, r \in Requests :
       KeyOf[q] = k /\ KeyOf[r] = k /\ UnderWay(q) /\ UnderWay(r) => q = r
  /\ \A r \in Requests : KeyOf[r] = k /\ UnderWay(r) => stored[k] \notin Requests
  /\ \A r \in Requests :
       KeyOf[r] = k /\ Listed(r) => stored[k] = r \/ request[r] = "told"
  /\ \A r \in Requests : KeyOf[r] = k /\ request[r] = "stored" => stored[k] = r
  /\ \A r \in Requests : KeyOf[r] = k /\ request[r] = "answered" => stored[k] = answer[r]
KeyInv == \A k \in IdemKeys \ forgotten : Single(k)

(* Whether eBay has answered a request, by its place in create_listing.     *)
RequestInv ==
  \A r \in Requests :
    /\ request[r] \in {"start", "miss"} => listing[r] = "none"
    /\ request[r] \in {"told", "stored"} => listing[r] # "none"

(* An entry of the store is an answer eBay gave for its key.                *)
StoreInv ==
  \A k \in IdemKeys :
    stored[k] \in Requests => KeyOf[stored[k]] = k /\ listing[stored[k]] # "none"

ListingsInv ==
  /\ ListingsTypeOK /\ KeyInv /\ RequestInv /\ StoreInv
  /\ AnswersAreReal /\ OwnWritesShow

LEMMA ListingsInitInv == ListingsInit => ListingsInv
<1> SUFFICES ASSUME ListingsInit PROVE ListingsInv
  OBVIOUS
<1> USE ListingAssumption
<1>1. ListingsTypeOK
  <2>1. editing \in BOOLEAN
    BY DEF ListingsInit
  <2>2. QED
    BY <2>1 DEF ListingsInit, ListingsTypeOK, Pages, Nothing, Malformed, Over
<1>2. KeyInv
  BY DEF ListingsInit, KeyInv, Single, UnderWay, Listed, Nothing, Malformed
<1>3. RequestInv /\ StoreInv /\ AnswersAreReal /\ OwnWritesShow
  BY DEF ListingsInit, RequestInv, StoreInv, AnswersAreReal, OwnWritesShow, Nothing, Malformed,
         NoPage
<1>4. QED
  BY <1>1, <1>2, <1>3 DEF ListingsInv

(* The types of the page, of faults and of what is forgotten, for any step. *)
LEMMA ListingsTypeStep ==
  ASSUME ListingsTypeOK, ListingsNext
  PROVE  ListingsTypeOK'
<1> USE ListingAssumption DEF ListingsTypeOK
<1>1. ASSUME NEW r \in Requests, Replay(r) \/ Miss(r) PROVE ListingsTypeOK'
  BY <1>1 DEF Replay, Miss, Reach, Over, Forget, Fault
<1>2. ASSUME NEW r \in Requests, Create(r) \/ Refuse(r) PROVE ListingsTypeOK'
  BY <1>2 DEF Create, Refuse, Reach, Aged, Pages
<1>9. ASSUME NEW r \in Requests, CallFails(r) \/ Lose(r) PROVE ListingsTypeOK'
  BY <1>9 DEF CallFails, Lose, Reach, Over, Forget, Fault
<1>3. ASSUME NEW r \in Requests, Store(r) \/ Answer(r) PROVE ListingsTypeOK'
  BY <1>3 DEF Store, SetIfAbsent, Answer, Reach, Over, Forget, Fault, Drop, Pages
<1>4. ASSUME NEW r \in Requests, Edit(r) PROVE ListingsTypeOK'
  BY <1>4 DEF Edit, Aged, Pages
<1>5. CASE EditRefused \/ EndEdit
  <2>1. editing' \in BOOLEAN
    BY <1>5 DEF EditRefused, EndEdit
  <2>2. QED
    BY <1>5, <2>1 DEF EditRefused, EndEdit, Drop, Fault, Pages
<1>8. CASE ReadActive \/ CachePage \/ ExpirePage
  BY <1>8 DEF ReadActive, CachePage, ExpirePage, Pages
<1>6. ASSUME NEW k \in IdemKeys, ExpireKey(k) PROVE ListingsTypeOK'
  BY <1>6 DEF ExpireKey, Forget
<1>7. QED
  BY <1>1, <1>2, <1>3, <1>4, <1>5, <1>6, <1>8, <1>9 DEF ListingsNext

(* One key one listing: whatever a request does, the key is forgotten, or   *)
(* the request is the only one of its key under way.                        *)
LEMMA KeyStep ==
  ASSUME ListingsTypeOK, KeyInv, RequestInv, StoreInv, AnswersAreReal, ListingsNext
  PROVE  KeyInv'
<1> USE ListingAssumption
<1>0. forgotten \subseteq forgotten'
  BY DEF ListingsNext, Replay, Miss, Create, Refuse, CallFails, Lose, Store, SetIfAbsent, Answer,
         Edit, EditRefused, EndEdit, ReadActive, CachePage, ExpirePage, ExpireKey, Forget
<1> SUFFICES ASSUME NEW k \in IdemKeys, k \notin forgotten' PROVE Single(k)'
  BY DEF KeyInv
<1>k. Single(k)
  BY <1>0 DEF KeyInv
<1>1. ASSUME NEW r \in Requests, Replay(r) PROVE Single(k)'
  BY <1>k, <1>1 DEF Replay, Reach, Single, UnderWay, Listed, ListingsTypeOK
<1>2. ASSUME NEW r \in Requests, Miss(r) PROVE Single(k)'
  <2>1. KeyOf[r] = k => stored[k] \notin Requests /\ ~InFlight(k)
    BY <1>2 DEF Miss, Forget
  <2>2. request' = [request EXCEPT ![r] = "miss"] /\ stored' = stored /\ listing' = listing
        /\ answer' = answer /\ request[r] = "start"
    BY <1>2 DEF Miss, Reach
  <2>3. QED
    BY <1>k, <2>1, <2>2 DEF InFlight, Single, UnderWay, Listed, ListingsTypeOK
<1>3. ASSUME NEW r \in Requests, Create(r) PROVE Single(k)'
  BY <1>k, <1>3 DEF Create, Reach, Single, UnderWay, Listed, ListingsTypeOK
<1>4. ASSUME NEW r \in Requests, Refuse(r) \/ CallFails(r) PROVE Single(k)'
  BY <1>k, <1>4 DEF Refuse, CallFails, Reach, Single, UnderWay, Listed, ListingsTypeOK
<1>5. ASSUME NEW r \in Requests, Lose(r) PROVE Single(k)'
  BY <1>k, <1>5 DEF Lose, Reach, Forget, Single, UnderWay, Listed, ListingsTypeOK
<1>6. ASSUME NEW r \in Requests, Store(r) PROVE Single(k)'
  <2>1. request' = [request EXCEPT ![r] = "stored"] /\ listing' = listing
        /\ answer' = answer /\ request[r] = "told"
    BY <1>6 DEF Store, SetIfAbsent, Reach
  <2>2. CASE KeyOf[r] # k
    <3>1. stored'[k] = stored[k]
      BY <1>6, <2>2 DEF Store, SetIfAbsent, ListingsTypeOK
    <3>2. QED
      BY <1>k, <2>1, <2>2, <3>1 DEF Single, UnderWay, Listed, ListingsTypeOK
  <2>3. CASE KeyOf[r] = k
    <3>1. stored[k] = Nothing
      BY <1>k, <2>1, <2>3 DEF Single, UnderWay, ListingsTypeOK
    <3>2. stored'[k] = r
      BY <1>6, <2>3, <3>1 DEF Store, SetIfAbsent, Forget, ListingsTypeOK
    <3>3. r # Malformed
      OBVIOUS
    <3>4. \A q \in Requests : KeyOf[q] = k /\ UnderWay(q) => q = r
      BY <1>k, <2>1, <2>3 DEF Single, UnderWay
    <3>5. \A q \in Requests : KeyOf[q] = k => ~UnderWay(q)'
      BY <2>1, <3>4 DEF UnderWay, ListingsTypeOK
    <3>6. \A q \in Requests : KeyOf[q] = k /\ Listed(q)' => q = r
      BY <1>k, <2>1, <3>1, <3>4 DEF Single, UnderWay, Listed
    <3>7. \A q \in Requests : KeyOf[q] = k => request[q] \notin {"stored", "answered"}
      BY <1>k, <3>1 DEF Single, AnswersAreReal
    <3>8. \A q \in Requests :
            KeyOf[q] = k => /\ request'[q] = "stored" => q = r
                            /\ request'[q] # "answered"
      BY <2>1, <3>7 DEF ListingsTypeOK
    <3>9. QED
      BY <3>2, <3>3, <3>5, <3>6, <3>8 DEF Single
  <2>4. QED
    BY <2>2, <2>3
<1>7. ASSUME NEW r \in Requests, Answer(r) PROVE Single(k)'
  BY <1>k, <1>7 DEF Answer, Reach, Single, UnderWay, Listed, ListingsTypeOK
<1>8. ASSUME NEW r \in Requests, Edit(r) PROVE Single(k)'
  <2>1. \A q \in Requests : Listed(q)' <=> Listed(q)
    BY <1>8 DEF Edit, Listed, ListingsTypeOK
  <2>2. request' = request /\ stored' = stored /\ answer' = answer
    BY <1>8 DEF Edit
  <2>3. QED
    BY <1>k, <2>1, <2>2 DEF Single, UnderWay
<1>9. CASE EditRefused \/ EndEdit \/ ReadActive \/ CachePage \/ ExpirePage
  BY <1>k, <1>9 DEF EditRefused, EndEdit, ReadActive, CachePage, ExpirePage, Single, UnderWay,
                    Listed
<1>10. ASSUME NEW e \in IdemKeys, ExpireKey(e) PROVE Single(k)'
  BY <1>k, <1>10 DEF ExpireKey, Forget, Single, UnderWay, Listed, ListingsTypeOK
<1>11. QED
  BY <1>1, <1>2, <1>3, <1>4, <1>5, <1>6, <1>7, <1>8, <1>9, <1>10 DEF ListingsNext

(* From eBay's answer on a request has one, which the store then names and  *)
(* what the user is told too.                                               *)
LEMMA RequestStep ==
  ASSUME ListingsTypeOK, RequestInv, StoreInv, AnswersAreReal, ListingsNext
  PROVE  RequestInv' /\ StoreInv' /\ AnswersAreReal'
<1> USE ListingAssumption DEF ListingsTypeOK
<1>1. ASSUME NEW r \in Requests, Replay(r) PROVE RequestInv' /\ StoreInv' /\ AnswersAreReal'
  BY <1>1 DEF Replay, Reach, RequestInv, StoreInv, AnswersAreReal
<1>2. ASSUME NEW r \in Requests, Miss(r) \/ CallFails(r) \/ Lose(r)
      PROVE  RequestInv' /\ StoreInv' /\ AnswersAreReal'
  BY <1>2 DEF Miss, CallFails, Lose, Reach, RequestInv, StoreInv, AnswersAreReal
<1>3. ASSUME NEW r \in Requests, Create(r) \/ Refuse(r)
      PROVE  RequestInv' /\ StoreInv' /\ AnswersAreReal'
  BY <1>3 DEF Create, Refuse, Reach, RequestInv, StoreInv, AnswersAreReal
<1>4. ASSUME NEW r \in Requests, Store(r) PROVE RequestInv' /\ StoreInv' /\ AnswersAreReal'
  <2>1. request' = [request EXCEPT ![r] = "stored"] /\ listing' = listing /\ answer' = answer
        /\ request[r] = "told"
    BY <1>4 DEF Store, SetIfAbsent, Reach
  <2>2. \A k \in IdemKeys : stored'[k] = stored[k] \/ (k = KeyOf[r] /\ stored'[k] = r)
    BY <1>4 DEF Store, SetIfAbsent
  <2>3. QED
    BY <2>1, <2>2 DEF RequestInv, StoreInv, AnswersAreReal
<1>5. ASSUME NEW r \in Requests, Answer(r) PROVE RequestInv' /\ StoreInv' /\ AnswersAreReal'
  BY <1>5 DEF Answer, Reach, RequestInv, StoreInv, AnswersAreReal
<1>6. ASSUME NEW r \in Requests, Edit(r) PROVE RequestInv' /\ StoreInv' /\ AnswersAreReal'
  <2>1. \A q \in Requests : listing'[q] = "none" <=> listing[q] = "none"
    BY <1>6 DEF Edit
  <2>2. request' = request /\ stored' = stored /\ answer' = answer
    BY <1>6 DEF Edit
  <2>3. QED
    BY <2>1, <2>2 DEF RequestInv, StoreInv, AnswersAreReal
<1>7. CASE EditRefused \/ EndEdit \/ ReadActive \/ CachePage \/ ExpirePage
  BY <1>7 DEF EditRefused, EndEdit, ReadActive, CachePage, ExpirePage, RequestInv, StoreInv,
              AnswersAreReal
<1>8. ASSUME NEW k \in IdemKeys, ExpireKey(k)
      PROVE  RequestInv' /\ StoreInv' /\ AnswersAreReal'
  BY <1>8 DEF ExpireKey, RequestInv, StoreInv, AnswersAreReal
<1>9. QED
  BY <1>1, <1>2, <1>3, <1>4, <1>5, <1>6, <1>7, <1>8 DEF ListingsNext

(* A page cached before a write is dropped when that write is over.         *)
LEMMA PageStep ==
  ASSUME ListingsTypeOK, OwnWritesShow, ListingsNext
  PROVE  OwnWritesShow'
<1> USE DEF ListingsTypeOK
<1>1. ASSUME NEW r \in Requests, Replay(r) \/ Miss(r) \/ Create(r) PROVE OwnWritesShow'
  BY <1>1, ListingAssumption DEF Replay, Miss, Create, Reach, Fault, OwnWritesShow
<1>2. ASSUME NEW r \in Requests, Refuse(r) \/ Store(r) PROVE OwnWritesShow'
  BY <1>2, ListingAssumption DEF Refuse, Store, SetIfAbsent, Reach, Fault, OwnWritesShow
<1>9. ASSUME NEW r \in Requests, CallFails(r) \/ Lose(r) PROVE OwnWritesShow'
  BY <1>9, ListingAssumption DEF CallFails, Lose, Fault, OwnWritesShow
<1>3. ASSUME NEW r \in Requests, Answer(r) PROVE OwnWritesShow'
  BY <1>3, ListingAssumption DEF Answer, Drop, Fault, OwnWritesShow, NoPage
<1>4. ASSUME NEW r \in Requests, Edit(r) PROVE OwnWritesShow'
  BY <1>4 DEF Edit, OwnWritesShow
<1>5. CASE EditRefused \/ EndEdit
  BY <1>5, ListingAssumption DEF EditRefused, EndEdit, Drop, Fault, OwnWritesShow, NoPage
<1>6. CASE ReadActive \/ CachePage \/ ExpirePage
  BY <1>6 DEF ReadActive, CachePage, ExpirePage, OwnWritesShow, NoPage
<1>7. ASSUME NEW k \in IdemKeys, ExpireKey(k) PROVE OwnWritesShow'
  BY <1>7 DEF ExpireKey, OwnWritesShow
<1>8. QED
  BY <1>1, <1>2, <1>3, <1>4, <1>5, <1>6, <1>7, <1>9 DEF ListingsNext

LEMMA ListingsStep == ListingsInv /\ [ListingsNext]_listingVars => ListingsInv'
<1> SUFFICES ASSUME ListingsInv, [ListingsNext]_listingVars PROVE ListingsInv'
  OBVIOUS
<1>1. CASE ListingsNext
  BY <1>1, ListingsTypeStep, KeyStep, RequestStep, PageStep DEF ListingsInv
<1>2. CASE UNCHANGED listingVars
  BY <1>2 DEF listingVars, ListingsInv, ListingsTypeOK, KeyInv, Single, UnderWay, Listed,
              RequestInv, StoreInv, AnswersAreReal, OwnWritesShow
<1>3. QED
  BY <1>1, <1>2

(* create_listing with its idempotency store: a key that is not forgotten   *)
(* has one listing at most and tells all its requests the same, a refusal   *)
(* too, an answer is one eBay gave for the caller's key, and the cached page *)
(* of get_active_listings does not outlive a write that finds it, for any   *)
(* requests, keys and faults and any order of them.                         *)
THEOREM ListingsAlwaysHold == ListingsSpec => []ListingsHold
<1>1. ListingsInv => ListingsHold
  <2> SUFFICES ASSUME ListingsInv PROVE OneListingPerKey /\ SameAnswerPerKey
    BY DEF ListingsInv, ListingsHold
  <2> SUFFICES ASSUME NEW q \in Requests, NEW r \in Requests,
                      KeyOf[q] = KeyOf[r], KeyOf[q] \notin forgotten
               PROVE  /\ Listed(q) /\ Listed(r) => q = r
                      /\ request[r] = "answered" =>
                           /\ request[q] = "answered" => answer[q] = answer[r]
                           /\ Listed(q) => answer[r] = q
    BY DEF OneListingPerKey, SameAnswerPerKey
  <2>1. Single(KeyOf[q])
    BY ListingAssumption DEF ListingsInv, KeyInv
  <2>2. request[r] = "answered" => answer[r] \in Requests
    BY DEF ListingsInv, AnswersAreReal
  <2>3. QED
    BY <2>1, <2>2 DEF Single, UnderWay
<1>2. QED
  BY <1>1, ListingsInitInv, ListingsStep, PTL DEF ListingsSpec

-----------------------------------------------------------------------------
(* SoldPromotion.                                                           *)
(* The rows collected by the loop have all been written, and stay so.       *)
Collected == sent \subseteq written /\ promoted \subseteq written

(* The history of what was written only grows, so what was collected or     *)
(* flagged before stays written.                                            *)
LEMMA StepKeepsCollected ==
  ASSUME Collected, [SoldNext]_soldVars
  PROVE  Collected'
<1>1. CASE UNCHANGED <<sent, promoted, written>>
  BY <1>1 DEF Collected
<1>2. CASE \E k \in Keys : UpsertObservation(k)
  BY <1>2 DEF Collected, UpsertObservation
<1>3. CASE MarkPromoted
  BY <1>3 DEF Collected, MarkPromoted, NextChannel
<1>4. CASE MarkFails \/ Abort
  BY <1>4 DEF Collected, MarkFails, NextChannel, Abort
<1>5. CASE \E k \in Keys : UpsertFails(k)
  BY <1>5 DEF Collected, UpsertFails, SkipKey
<1>6. CASE StartPromotion \/ ReadStaging
  BY <1>6 DEF Collected, StartPromotion, ReadStaging
<1>7. CASE StageSales
  BY <1>7 DEF Collected, StageSales, SyncLine, ScrapeSale, run
<1>8. QED
  BY <1>1, <1>2, <1>3, <1>4, <1>5, <1>6, <1>7 DEF SoldNext, Promote, soldVars, run

(* No sale is ever flagged promoted before an observation was written from  *)
(* it, whichever upserts fail and wherever the task dies: the flag update   *)
(* takes the ids of the keys that were written, not of those that were read.*)
THEOREM FlaggedAreWritten == SoldSpec => []NothingFlaggedUnwritten
<1>1. SoldInit => Collected
  BY DEF SoldInit, Collected
<1>2. Collected /\ [SoldNext]_soldVars => Collected'
  BY StepKeepsCollected
<1>3. Collected => NothingFlaggedUnwritten
  BY DEF Collected, NothingFlaggedUnwritten
<1>4. QED
  BY <1>1, <1>2, <1>3, PTL DEF SoldSpec

BatchRows == {s.row : s \in batch}

(* What is said of types here leaves the observations alone: nothing below  *)
(* depends on what _aggregate computes.                                     *)
SoldTypes ==
  /\ key \in [Rows -> Keys \cup {NoKey, Absent}]
  /\ cents \in [Rows -> Prices \cup {0}]
  /\ promoted \subseteq Rows /\ DOMAIN obs = Keys
  /\ channel \in Channels
  /\ \A s \in batch : s.row \in Rows /\ s.key \in Keys

(* The batch: unpromoted rows of one table, each once; nothing is read and  *)
(* nothing sent while no channel is being promoted.                         *)
BatchInv ==
  /\ stage # "upsert" => batch = {} /\ sent = {} /\ todo = {}
  /\ \A s \in batch : s.row \in Table(channel) \ promoted
  /\ \A s, t \in batch : s.row = t.row => s = t
  /\ todo \subseteq {s.key : s \in batch}

(* It says what the table says, or the keys it is wrong about are late.     *)
ReadInv ==
  /\ \A s \in batch : s = Sale(s.row) \/ {s.key, key[s.row]} \cap Keys \subseteq late
  /\ \A s \in batch, r \in Table(channel) :
       s.key \notin late /\ key[r] = s.key => Sale(r) \in batch

(* A key is sent as a whole, after its observation was written.             *)
SentInv ==
  /\ sent \subseteq BatchRows
  /\ \A s, t \in batch : s.key = t.key /\ s.row \in sent => t.row \in sent
  /\ \A s \in batch :
       s.row \in sent /\ s.key \notin late => obs[s.key] = Aggregate(Group(s.key))

(* The sales of a key in one table are promoted together.                   *)
Together ==
  \A q, r \in Rows, ch \in Channels :
    /\ {q, r} \subseteq Table(ch)
    /\ key[q] = key[r] /\ key[q] \in Keys \ late
    /\ q \in promoted
    => r \in promoted

SoldInv ==
  SoldTypes /\ BatchInv /\ ReadInv /\ SentInv /\ Together /\ ObservationIsAggregate

LEMMA SoldInitInv == SoldInit => SoldInv
<1> SUFFICES ASSUME SoldInit PROVE SoldInv
  OBVIOUS
<1>1. SoldTypes
  BY DEF SoldInit, SoldTypes, Channels, Rows
<1>2. BatchInv /\ ReadInv /\ SentInv /\ Together
  BY DEF SoldInit, BatchInv, ReadInv, SentInv, BatchRows, Together
<1>3. ObservationIsAggregate
  BY DEF SoldInit, ObservationIsAggregate, RowsOf
<1>4. QED
  BY <1>1, <1>2, <1>3 DEF SoldInv

(* Staging a sale: what is wrong about the row afterwards is late.          *)
Restage(r, k, c) ==
  /\ key' = [key EXCEPT ![r] = k] /\ cents' = [cents EXCEPT ![r] = c]
  /\ Note(r, k)
  /\ UNCHANGED <<promoted, obs, stage, channel, batch, todo, sent>>

LEMMA RestageKeeps ==
  ASSUME SoldInv, NEW r \in Rows, NEW k \in Keys \cup {NoKey}, NEW c \in Prices,
         Restage(r, k, c)
  PROVE  SoldInv'
<1>1. /\ late \subseteq late'
      /\ r \in Settled => {key[r], k} \cap Keys \subseteq late'
      /\ {key[r], k} \cap Closed \cap Keys \subseteq late'
  BY DEF Restage, Note
<1>2. SoldTypes'
  BY DEF Restage, SoldInv, SoldTypes
<1>3. BatchInv'
  BY DEF Restage, SoldInv, BatchInv
<1>t. key'[r] = k /\ \A q \in Rows \ {r} : key'[q] = key[q] /\ Sale(q)' = Sale(q)
  BY DEF Restage, SoldInv, SoldTypes, Sale
<1>4. ReadInv'
  <2>1. ASSUME NEW s \in batch
        PROVE  (s = Sale(s.row) \/ {s.key, key[s.row]} \cap Keys \subseteq late)'
    <3>1. s.row \in Rows /\ s.row \in Settled
      BY DEF SoldInv, SoldTypes, Settled
    <3>2. s = Sale(s.row) \/ {s.key, key[s.row]} \cap Keys \subseteq late
      BY DEF SoldInv, ReadInv
    <3>3. CASE s.row # r
      BY <1>1, <1>t, <3>1, <3>2, <3>3
    <3>4. CASE s.row = r
      <4>1. s.key = key[r] \/ s.key \in late
        BY <3>2, <3>4 DEF Sale, SoldInv, SoldTypes
      <4>2. QED
        BY <1>1, <1>t, <3>1, <3>4, <4>1
    <3>5. QED
      BY <3>3, <3>4
  <2>2. ASSUME NEW s \in batch, NEW q \in Table(channel), s.key \notin late', key'[q] = s.key
        PROVE  Sale(q)' \in batch
    <3>1. s.key \in Closed \cap Keys /\ s.key \notin late /\ q \in Rows
      BY <1>1, <2>2 DEF SoldInv, SoldTypes, Closed, Table, Rows
    <3>2. q # r
      BY <1>1, <1>t, <2>2, <3>1
    <3>3. QED
      BY <1>t, <2>2, <3>1, <3>2 DEF SoldInv, ReadInv
  <2>3. batch' = batch /\ channel' = channel
    BY DEF Restage
  <2>4. QED
    BY <2>1, <2>2, <2>3 DEF ReadInv, Table
<1>5. SentInv'
  BY <1>1 DEF Restage, SoldInv, SentInv, BatchRows, Group
<1>6. Together'
  <2> SUFFICES ASSUME NEW p \in Rows, NEW q \in Rows, NEW ch \in Channels,
                      {p, q} \subseteq Table(ch), key'[p] = key'[q],
                      key'[p] \in Keys \ late', p \in promoted'
               PROVE  q \in promoted'
    BY DEF Together, Table
  <2>1. promoted' = promoted /\ p \in Settled /\ key[p] \in Closed
    BY DEF Restage, Settled, Closed
  <2>2. p # r
    BY <1>1, <1>t, <2>1
  <2>3. q # r
    BY <1>1, <1>t, <2>1, <2>2
  <2>4. QED
    BY <1>1, <1>t, <2>1, <2>2, <2>3 DEF SoldInv, Together
<1>7. ObservationIsAggregate'
  <2> SUFFICES ASSUME NEW e \in Keys \ late', RowsOf(e)' # {}, RowsOf(e)' \subseteq promoted',
                      OneChannel(e)'
               PROVE  (obs[e] = Aggregate({Sale(q) : q \in RowsOf(e)}))'
    BY DEF ObservationIsAggregate
  <2>1. promoted' = promoted /\ obs' = obs
    BY DEF Restage
  <2>2. r \notin RowsOf(e)'
    BY <1>1, <1>t, <2>1 DEF RowsOf, Settled
  <2>3. PICK p \in Rows \ {r} : key'[p] = e /\ p \in promoted
    BY <2>1, <2>2 DEF RowsOf
  <2>4. key[r] # e /\ k # e
    BY <1>1, <1>t, <2>3 DEF Closed
  <2>5. RowsOf(e)' = RowsOf(e) /\ \A q \in RowsOf(e) : Sale(q)' = Sale(q)
    BY <1>t, <2>2, <2>4 DEF RowsOf
  <2>6. {Sale(q) : q \in RowsOf(e)}' = {Sale(q) : q \in RowsOf(e)}
    BY <2>5
  <2>7. obs[e] = Aggregate({Sale(q) : q \in RowsOf(e)})
    BY <1>1, <2>1, <2>5 DEF SoldInv, ObservationIsAggregate, OneChannel, Table
  <2>8. QED
    BY <2>1, <2>6, <2>7
<1>8. QED
  BY <1>2, <1>3, <1>4, <1>5, <1>6, <1>7 DEF SoldInv

LEMMA ReadStagingKeeps ==
  ASSUME SoldInv, ReadStaging
  PROVE  SoldInv'
<1> USE DEF SoldInv, ReadStaging
<1>1. /\ batch' = {Sale(r) : r \in Unpromoted(channel)} /\ sent = {} /\ sent' = {}
      /\ key' = key /\ cents' = cents /\ promoted' = promoted /\ obs' = obs
      /\ channel' = channel /\ late' = late
  BY DEF BatchInv, staged
<1>2. Unpromoted(channel) \subseteq {r \in Rows : r \in Table(channel) \ promoted /\ key[r] \in Keys}
  BY DEF Unpromoted, SoldTypes, Channels, Table, Rows
<1>3. \A r \in Rows : Sale(r).row = r /\ Sale(r).key = key[r] /\ Sale(r)' = Sale(r)
  BY <1>1 DEF Sale
<1>4. SoldTypes'
  BY <1>1, <1>2, <1>3 DEF SoldTypes
<1>5. BatchInv'
  BY <1>1, <1>2, <1>3 DEF BatchInv, Table
<1>6. ReadInv'
  <2>1. ASSUME NEW s \in batch' PROVE (s = Sale(s.row))'
    BY <1>1, <1>2, <1>3
  <2>2. ASSUME NEW s \in batch', NEW r \in Table(channel), s.key \notin late, key[r] = s.key
        PROVE  Sale(r) \in batch'
    <3>1. PICK q \in Unpromoted(channel) : s = Sale(q)
      BY <1>1
    <3>2. key[q] = s.key /\ q \in Rows /\ q \in Table(channel) \ promoted /\ key[q] \in Keys
      BY <1>2, <1>3, <3>1
    <3>3. r \notin promoted /\ r \in Rows
      BY <2>2, <3>2 DEF Together, SoldTypes, Table, Rows
    <3>4. QED
      BY <1>1, <2>2, <3>2, <3>3 DEF Unpromoted
  <2>3. QED
    BY <1>1, <1>3, <2>1, <2>2 DEF ReadInv, Table, SoldTypes, Channels, Rows
<1>7. SentInv'
  BY <1>1 DEF SentInv, BatchRows
<1>8. Together' /\ ObservationIsAggregate'
  BY <1>1 DEF Together, Table, ObservationIsAggregate, RowsOf, OneChannel, Sale
<1>9. QED
  BY <1>4, <1>5, <1>6, <1>7, <1>8

LEMMA UpsertKeepsInv ==
  ASSUME SoldInv, NEW k \in Keys, UpsertObservation(k)
  PROVE  SoldInv'
<1> USE DEF SoldInv
<1>1. /\ obs' = [obs EXCEPT ![k] = Aggregate(Group(k))]
      /\ sent' = sent \cup {s.row : s \in Group(k)}
      /\ key' = key /\ cents' = cents /\ promoted' = promoted /\ batch' = batch
      /\ stage = "upsert" /\ stage' = stage /\ channel' = channel /\ late' = late
      /\ todo' \subseteq todo
  BY DEF UpsertObservation, Replacing, staged
<1>2. SoldTypes' /\ BatchInv' /\ ReadInv' /\ Together'
  <2>1. SoldTypes' /\ BatchInv'
    BY <1>1 DEF SoldTypes, BatchInv, Table
  <2>2. ReadInv' /\ Together'
    BY <1>1 DEF Table, ReadInv, Sale, Together
  <2>3. QED
    BY <2>1, <2>2
<1>3. \A e \in Keys : Group(e)' = Group(e) /\ obs'[e] = IF e = k THEN Aggregate(Group(k)) ELSE obs[e]
  BY <1>1 DEF Group, SoldTypes
<1>4. ASSUME NEW s \in batch PROVE s.row \in sent' <=> s.row \in sent \/ s.key = k
  BY <1>1 DEF Group, BatchInv
<1>5. SentInv'
  <2>1. sent' \subseteq BatchRows'
    BY <1>1 DEF SentInv, BatchRows, Group
  <2>2. \A s, u \in batch : s.key = u.key /\ s.row \in sent' => u.row \in sent'
    BY <1>4 DEF SentInv
  <2>3. ASSUME NEW s \in batch, s.row \in sent', s.key \notin late
        PROVE  obs'[s.key] = Aggregate(Group(s.key))
    BY <1>3, <1>4, <2>3 DEF SentInv, SoldTypes
  <2>4. QED
    BY <1>1, <1>3, <2>1, <2>2, <2>3 DEF SentInv, SoldTypes
<1>6. ObservationIsAggregate'
  <2> SUFFICES ASSUME NEW e \in Keys \ late, RowsOf(e) # {}, RowsOf(e) \subseteq promoted,
                      OneChannel(e)
               PROVE  obs'[e] = Aggregate({Sale(q) : q \in RowsOf(e)})
    BY <1>1 DEF ObservationIsAggregate, RowsOf, OneChannel, Table, Sale
  <2>1. obs[e] = Aggregate({Sale(q) : q \in RowsOf(e)})
    BY DEF ObservationIsAggregate
  <2>2. CASE e # k
    BY <1>3, <2>1, <2>2
  <2>3. CASE e = k
    <3>1. k \in todo /\ todo \subseteq {s.key : s \in batch}
      BY DEF UpsertObservation, BatchInv
    <3>2. PICK s \in batch : s.key = k
      BY <3>1
    <3>3. s = Sale(s.row) /\ s.row \in Rows
      BY <2>3, <3>2 DEF ReadInv, SoldTypes
    <3>4. s.row \in RowsOf(e)
      BY <2>3, <3>2, <3>3 DEF RowsOf, Sale
    <3>5. QED
      BY <3>4 DEF BatchInv
  <2>4. QED
    BY <2>2, <2>3
<1>7. QED
  BY <1>2, <1>5, <1>6

(* The end of a channel, by its mark, its failure or the death of the task: *)
(* nothing is left in hand, and what was sent may be flagged.               *)
LEMMA EndKeepsSold ==
  ASSUME SoldInv, MarkPromoted \/ MarkFails \/ Abort
  PROVE  SoldInv'
<1> USE DEF SoldInv
<1>1. /\ batch' = {} /\ sent' = {} /\ todo' = {}
      /\ key' = key /\ cents' = cents /\ obs' = obs /\ late' = late
      /\ promoted' = promoted \/ (promoted' = promoted \cup sent /\ stage = "upsert")
      /\ channel' \in {channel, "scrape"}
  BY DEF MarkPromoted, MarkFails, Abort, NextChannel, staged, BatchInv
<1>2. sent \subseteq Rows
  BY DEF SentInv, BatchRows, SoldTypes
<1>3. SoldTypes' /\ BatchInv' /\ ReadInv' /\ SentInv'
  BY <1>1, <1>2 DEF SoldTypes, BatchInv, ReadInv, SentInv, BatchRows, Channels
<1>4. ASSUME NEW r \in sent, key[r] \in Keys \ late
      PROVE  r \in Table(channel) /\ Sale(r) \in batch /\ Sale(r).key = key[r] /\ Sale(r).row = r
  <2>1. PICK s \in batch : s.row = r
    BY DEF SentInv, BatchRows
  <2>2. s = Sale(r)
    BY <1>4, <2>1 DEF ReadInv
  <2>3. QED
    BY <2>1, <2>2 DEF BatchInv, Sale
<1>5. Together'
  <2> SUFFICES ASSUME NEW q \in Rows, NEW r \in Rows, NEW ch \in Channels,
                      {q, r} \subseteq Table(ch), key[q] = key[r], key[q] \in Keys \ late,
                      q \in promoted', q \notin promoted
               PROVE  r \in promoted'
    BY <1>1 DEF Together, Table
  <2>1. q \in sent /\ promoted' = promoted \cup sent
    BY <1>1
  <2>2. q \in Table(channel) /\ Sale(q) \in batch /\ Sale(q).key = key[q] /\ Sale(q).row = q
    BY <1>4, <2>1
  <2>3. ch = channel
    BY <2>2, SoldAssumption DEF Table, Channels, SoldTypes
  <2>4. Sale(r) \in batch /\ Sale(r).key = key[r] /\ Sale(r).row = r
    BY <2>2, <2>3 DEF ReadInv, Sale
  <2>5. QED
    BY <2>1, <2>2, <2>4 DEF SentInv
<1>6. ObservationIsAggregate'
  <2> SUFFICES ASSUME NEW e \in Keys \ late, RowsOf(e) # {}, RowsOf(e) \subseteq promoted',
                      OneChannel(e), ~(RowsOf(e) \subseteq promoted)
               PROVE  obs[e] = Aggregate({Sale(q) : q \in RowsOf(e)})
    BY <1>1 DEF ObservationIsAggregate, RowsOf, OneChannel, Table, Sale
  <2>1. PICK r \in RowsOf(e) : r \in sent
    BY <1>1
  <2>2. r \in Table(channel) /\ Sale(r) \in batch /\ Sale(r).key = e /\ Sale(r).row = r
    BY <1>4, <2>1 DEF RowsOf
  <2>3. RowsOf(e) \subseteq Table(channel)
    BY <2>1, <2>2, SoldAssumption DEF OneChannel, Table, Channels, SoldTypes
  <2>4. Group(e) \subseteq {Sale(q) : q \in RowsOf(e)}
    <3> SUFFICES ASSUME NEW s \in batch, s.key = e PROVE s = Sale(s.row) /\ s.row \in RowsOf(e)
      BY DEF Group
    <3>1. s = Sale(s.row) /\ s.row \in Rows
      BY DEF ReadInv, SoldTypes
    <3>2. key[s.row] = e
      BY <3>1 DEF Sale
    <3>3. QED
      BY <3>1, <3>2 DEF RowsOf
  <2>5. {Sale(q) : q \in RowsOf(e)} \subseteq Group(e)
    <3> SUFFICES ASSUME NEW q \in RowsOf(e) PROVE Sale(q) \in batch /\ Sale(q).key = e
      BY DEF Group
    <3>1. Sale(q).key = e /\ key[q] = e
      BY DEF RowsOf, Sale
    <3>2. QED
      BY <2>2, <2>3, <3>1 DEF ReadInv
  <2>6. Group(e) = {Sale(q) : q \in RowsOf(e)}
    BY <2>4, <2>5
  <2>7. obs[e] = Aggregate(Group(e))
    BY <2>1, <2>2 DEF SentInv
  <2>8. QED
    BY <2>6, <2>7
<1>7. QED
  BY <1>3, <1>5, <1>6

LEMMA OtherKeeps ==
  ASSUME SoldInv, StartPromotion \/ (\E k \in Keys : UpsertFails(k)) \/ UNCHANGED soldVars
  PROVE  SoldInv'
<1>1. /\ UNCHANGED <<batch, sent, key, cents, promoted, obs, late>>
      /\ stage' # "upsert" => stage # "upsert"
      /\ channel' = channel \/ (stage = "idle" /\ channel' = "own")
      /\ todo' \subseteq todo
  BY DEF StartPromotion, UpsertFails, SkipKey, staged, soldVars, run
<1>2. batch # {} => channel' = channel
  BY <1>1 DEF SoldInv, BatchInv
<1>3. SoldTypes' /\ BatchInv' /\ SentInv'
  BY <1>1, <1>2 DEF SoldInv, SoldTypes, BatchInv, SentInv, BatchRows, Group, Table, Channels
<1>4. ReadInv'
  BY <1>1, <1>2 DEF SoldInv, ReadInv, Sale, Table
<1>5. Together' /\ ObservationIsAggregate'
  BY <1>1 DEF SoldInv, Together, Table, ObservationIsAggregate, RowsOf, OneChannel, Sale
<1>6. QED
  BY <1>3, <1>4, <1>5 DEF SoldInv

LEMMA SoldStep == SoldInv /\ [SoldNext]_soldVars => SoldInv'
<1> SUFFICES ASSUME SoldInv, [SoldNext]_soldVars PROVE SoldInv'
  OBVIOUS
<1>1. CASE ReadStaging
  BY <1>1, ReadStagingKeeps
<1>2. CASE \E k \in Keys : UpsertObservation(k)
  BY <1>2, UpsertKeepsInv
<1>3. CASE MarkPromoted \/ MarkFails \/ Abort
  BY <1>3, EndKeepsSold
<1>4. CASE StartPromotion \/ (\E k \in Keys : UpsertFails(k)) \/ UNCHANGED soldVars
  BY <1>4, OtherKeeps
<1>5. CASE StageSales
  <2>1. PICK r \in Rows, k \in Keys \cup {NoKey}, c \in Prices : SyncLine(r, k, c) \/ ScrapeSale(r, k, c)
    BY <1>5 DEF StageSales, Rows, Keys
  <2>2. Restage(r, k, c)
    BY <2>1 DEF SyncLine, ScrapeSale, Restage, run
  <2>3. QED
    BY <2>2, RestageKeeps
<1>6. QED
  BY <1>1, <1>2, <1>3, <1>4, <1>5 DEF SoldNext, Promote

(* promote_sold_obs flags no sale before an observation was written from    *)
(* it, and the observation of a key whose sales came through one channel,   *)
(* all before its promotion began, counts each of them once: whichever      *)
(* upserts fail, wherever the task dies and however often it starts again.  *)
THEOREM PromotionAlwaysHolds == SoldSpec => []PromotionHolds
<1>1. SoldInv => ObservationIsAggregate
  BY DEF SoldInv
<1>2. SoldSpec => []SoldInv
  BY SoldInitInv, SoldStep, PTL DEF SoldSpec
<1>3. SoldSpec => []NothingFlaggedUnwritten
  BY FlaggedAreWritten
<1>4. QED
  BY <1>1, <1>2, <1>3, PTL DEF PromotionHolds

-----------------------------------------------------------------------------
(* The types of SoldPromotion: the count and the total that _aggregate      *)
(* gives are natural numbers, since the sales of a batch are finitely many  *)
(* and each has a price.                                                    *)
LEMMA HasLeast ==
  ASSUME NEW T \in SUBSET Nat, T # {}
  PROVE  \E n \in T : \A k \in T : n <= k
<1>1. PICK n \in T : \A k \in T : ~ (<<k, n>> \in OpToRel(<, Nat))
  BY NatLessThanWellFounded, WFMin
<1>2. \A k \in T : k \in Nat /\ n \in Nat /\ ~ (k < n)
  BY <1>1 DEF OpToRel
<1>3. QED
  BY <1>2

(* The fold that sums the prices is a recursive function over the subsets   *)
(* of the sales.  That there is one, and that its values are natural        *)
(* numbers, both follow from a least counterexample: the size of a subset.  *)
First(s) == CHOOSE x \in s : TRUE
Sums(f, D) ==
  f = [s \in D |-> IF s = {} THEN 0 ELSE First(s).cents + f[s \ {First(s)}]]
UpTo(S, n) == {s \in SUBSET S : Cardinality(s) <= n}

LEMMA OneLess ==
  ASSUME NEW S, IsFiniteSet(S), NEW s \in SUBSET S, s # {}
  PROVE  /\ First(s) \in s /\ s \ {First(s)} \in SUBSET S
         /\ Cardinality(s) \in Nat /\ Cardinality(s \ {First(s)}) \in Nat
         /\ Cardinality(s \ {First(s)}) = Cardinality(s) - 1
<1>1. IsFiniteSet(s)
  BY FS_Subset
<1>2. First(s) \in s
  BY DEF First
<1>3. /\ IsFiniteSet(s \ {First(s)})
      /\ Cardinality(s \ {First(s)}) = Cardinality(s) - 1
  BY <1>1, <1>2, FS_RemoveElement
<1>4. QED
  BY <1>1, <1>2, <1>3, FS_CardinalityType

LEMMA SumExists ==
  ASSUME NEW S, IsFiniteSet(S)
  PROVE  \E f : Sums(f, SUBSET S)
<1> DEFINE Lacking == {n \in Nat : ~ \E f : Sums(f, UpTo(S, n))}
<1>1. Lacking = {}
  <2> SUFFICES ASSUME Lacking # {} PROVE FALSE
    OBVIOUS
  <2>1. PICK n \in Lacking : \A k \in Lacking : n <= k
    BY HasLeast
  <2>2. n \in Nat
    OBVIOUS
  <2>3. PICK g : n > 0 => Sums(g, UpTo(S, n - 1))
    <3>1. CASE n > 0
      <4>1. n - 1 \in Nat /\ n - 1 \notin Lacking
        BY <2>1, <2>2, <3>1
      <4>2. QED
        BY <4>1
    <3>2. QED
      BY <3>1
  <2> DEFINE h == [s \in UpTo(S, n) |-> IF s = {} THEN 0
                                        ELSE First(s).cents + g[s \ {First(s)}]]
  <2>4. ASSUME NEW s \in UpTo(S, n), s # {} PROVE h[s \ {First(s)}] = g[s \ {First(s)}]
    <3> DEFINE t == s \ {First(s)}
    <3>1. /\ s \in SUBSET S /\ t \in SUBSET S /\ Cardinality(t) \in Nat
          /\ Cardinality(t) = Cardinality(s) - 1 /\ Cardinality(s) \in Nat /\ Cardinality(s) <= n
      BY <2>4, OneLess DEF UpTo
    <3> HIDE DEF t
    <3>2. n > 0 /\ Cardinality(t) <= n - 1 /\ Cardinality(t) <= n
      BY <2>2, <3>1
    <3>3. t \in UpTo(S, n - 1) /\ t \in UpTo(S, n)
      BY <3>1, <3>2 DEF UpTo
    <3>4. g[t] = IF t = {} THEN 0 ELSE First(t).cents + g[t \ {First(t)}]
      BY <2>3, <3>2, <3>3 DEF Sums
    <3>5. h[t] = IF t = {} THEN 0 ELSE First(t).cents + g[t \ {First(t)}]
      BY <3>3
    <3>6. QED
      BY <3>4, <3>5 DEF t
  <2>5. h = [s \in UpTo(S, n) |-> IF s = {} THEN 0 ELSE First(s).cents + h[s \ {First(s)}]]
    BY <2>4
  <2> HIDE DEF h
  <2>6. Sums(h, UpTo(S, n))
    BY <2>5 DEF Sums
  <2>7. QED
    BY <2>6
<1>2. Cardinality(S) \in Nat /\ UpTo(S, Cardinality(S)) = SUBSET S
  BY FS_CardinalityType, FS_Subset DEF UpTo
<1>3. \E f : Sums(f, UpTo(S, Cardinality(S)))
  BY <1>1, <1>2
<1>4. QED
  BY <1>2, <1>3

LEMMA SumIsNatural ==
  ASSUME NEW S, IsFiniteSet(S), \A x \in S : x.cents \in Nat
  PROVE  MapThenSumSet(LAMBDA x : x.cents, S) \in Nat
<1> DEFINE f == CHOOSE g : Sums(g, SUBSET S)
<1>1. MapThenSumSet(LAMBDA x : x.cents, S) = f[S]
  BY DEF MapThenSumSet, MapThenFoldSet, Sums, First
<1>2. Sums(f, SUBSET S)
  BY SumExists
<1> HIDE DEF f
<1> DEFINE Wrong == {n \in Nat : \E s \in SUBSET S : Cardinality(s) = n /\ f[s] \notin Nat}
<1>3. Wrong = {}
  <2> SUFFICES ASSUME Wrong # {} PROVE FALSE
    OBVIOUS
  <2>1. PICK n \in Wrong : \A k \in Wrong : n <= k
    BY HasLeast
  <2>2. PICK s \in SUBSET S : Cardinality(s) = n /\ f[s] \notin Nat
    OBVIOUS
  <2>3. f[s] = IF s = {} THEN 0 ELSE First(s).cents + f[s \ {First(s)}]
    BY <1>2 DEF Sums
  <2>4. s # {}
    BY <2>2, <2>3
  <2> DEFINE t == s \ {First(s)}
  <2>5. First(s) \in S /\ t \in SUBSET S /\ Cardinality(t) \in Nat /\ Cardinality(t) = n - 1
    BY <2>2, <2>4, OneLess
  <2> HIDE DEF t
  <2>6. Cardinality(t) \notin Wrong
    BY <2>1, <2>5
  <2>7. f[t] \in Nat
    BY <2>5, <2>6
  <2>8. First(s).cents \in Nat /\ f[s] = First(s).cents + f[t]
    BY <2>3, <2>4, <2>5 DEF t
  <2>9. f[s] \in Nat
    BY <2>7, <2>8
  <2>10. QED
    BY <2>2, <2>9
<1>4. f[S] \in Nat
  BY <1>3, FS_CardinalityType
<1>5. QED
  BY <1>1, <1>4

Staged == {r \in Rows : key[r] # Absent}

RowTypes ==
  /\ key \in [Rows -> Keys \cup {NoKey, Absent}] /\ cents \in [Rows -> Prices \cup {0}]
  /\ \A r \in Staged : cents[r] \in Prices
  /\ IsFiniteSet(Staged)
  /\ late \subseteq Keys /\ amends \in 0 .. MaxAmends
RunTypes ==
  /\ stage \in Stages /\ channel \in Channels /\ todo \subseteq Keys
  /\ batch \subseteq Sales /\ IsFiniteSet(batch)
  /\ sent \subseteq Rows /\ promoted \subseteq Rows /\ written \subseteq Rows
ObsTypes == obs \in [Keys -> [count : Nat, total : Nat]]
LapseType == lapses \in 0 .. MaxLapses

SoldTyped == RowTypes /\ RunTypes /\ ObsTypes /\ LapseType

LEMMA AggregateIs ==
  ASSUME RunTypes, NEW k
  PROVE  Aggregate(Group(k)) \in [count : Nat, total : Nat]
<1> DEFINE group == Group(k)
<1>1. group \subseteq batch
  BY DEF Group
<1>2. IsFiniteSet(group) /\ \A x \in group : x.cents \in Nat
  BY <1>1, FS_Subset, SoldAssumption DEF RunTypes, Sales
<1> HIDE DEF group
<1>3. Cardinality(group) \in Nat /\ MapThenSumSet(LAMBDA x : x.cents, group) \in Nat
  BY <1>2, FS_CardinalityType, SumIsNatural
<1>4. Aggregate(group) = [count |-> Cardinality(group),
                          total |-> MapThenSumSet(LAMBDA x : x.cents, group)]
  BY DEF Aggregate
<1>5. Aggregate(group) \in [count : Nat, total : Nat]
  BY <1>3, <1>4
<1>6. QED
  BY <1>5 DEF group

LEMMA RowsStayTyped ==
  ASSUME SoldTyped,
         NEW r \in Rows, NEW k \in Keys \cup {NoKey}, NEW c \in Prices,
         SyncLine(r, k, c) \/ ScrapeSale(r, k, c)
  PROVE  SoldTyped'
<1>1. /\ key' = [key EXCEPT ![r] = k] /\ cents' = [cents EXCEPT ![r] = c]
      /\ UNCHANGED <<promoted, obs, stage, channel, batch, todo, sent, written, lapses>>
      /\ late' \subseteq late \cup Keys
  BY DEF SyncLine, ScrapeSale, Note, run, bounds
<1>2. RowTypes
  BY DEF SoldTyped
<1>3. k # Absent
  BY SoldAssumption DEF NoKey, Absent
<1>4. Staged' = Staged \cup {r}
  BY <1>1, <1>2, <1>3 DEF Staged, RowTypes
<1>5. IsFiniteSet(Staged')
  BY <1>2, <1>4, FS_AddElement DEF RowTypes
<1>6. \A q \in Staged' : cents'[q] \in Prices
  <2>1. \A q \in Rows : cents'[q] = IF q = r THEN c ELSE cents[q]
    BY <1>1, <1>2 DEF RowTypes
  <2>2. QED
    BY <1>2, <1>4, <2>1 DEF RowTypes, Staged
<1>7. amends' \in 0 .. MaxAmends
  <2>1. CASE amends' = amends
    BY <1>2, <2>1 DEF RowTypes
  <2>2. CASE amends < MaxAmends /\ amends' = amends + 1
    BY <1>2, <2>2, SoldAssumption DEF RowTypes
  <2>3. QED
    BY <2>1, <2>2 DEF SyncLine, ScrapeSale, bounds
<1>8. /\ key' \in [Rows -> Keys \cup {NoKey, Absent}] /\ cents' \in [Rows -> Prices \cup {0}]
      /\ late' \subseteq Keys
  BY <1>1, <1>2 DEF RowTypes
<1>9. RowTypes'
  BY <1>5, <1>6, <1>7, <1>8 DEF RowTypes
<1>10. RunTypes' /\ ObsTypes' /\ LapseType'
  BY <1>1 DEF SoldTyped, RunTypes, ObsTypes, LapseType
<1>11. QED
  BY <1>9, <1>10 DEF SoldTyped

LEMMA ReadStaysTyped ==
  ASSUME SoldTyped, ReadStaging
  PROVE  SoldTyped'
<1> DEFINE read == Unpromoted(channel)
<1>1. RowTypes /\ RunTypes
  BY DEF SoldTyped
<1>2. read \subseteq Staged /\ \A r \in read : key[r] \in Keys
  BY <1>1, SoldAssumption DEF Unpromoted, Staged, Table, Rows, Absent
<1>3. IsFiniteSet(read)
  BY <1>1, <1>2, FS_Subset DEF RowTypes
<1>4. \A r \in read : Sale(r) \in Sales
  BY <1>1, <1>2 DEF Sale, Sales, RowTypes, Staged
<1> HIDE DEF read
<1>5. IsFiniteSet({Sale(r) : r \in read})
  <2> DEFINE sales == {Sale(r) : r \in read}
             sale == [r \in read |-> Sale(r)]
  <2>1. sale \in [read -> sales] /\ \A x \in sales : \E r \in read : sale[r] = x
    OBVIOUS
  <2>2. sale \in Surjection(read, sales)
    BY <2>1 DEF Surjection
  <2> HIDE DEF sale, sales
  <2>3. IsFiniteSet(sales)
    BY <1>3, <2>2, FS_Surjection
  <2>4. QED
    BY <2>3 DEF sales
<1>6. /\ stage' = "upsert" /\ batch' = {Sale(r) : r \in read} /\ todo' = {key[r] : r \in read}
      /\ UNCHANGED <<key, cents, promoted, obs, channel, sent, written, late, amends, lapses>>
  BY DEF ReadStaging, staged, bounds, read
<1>7. RunTypes'
  BY <1>1, <1>2, <1>4, <1>5, <1>6 DEF RunTypes, Stages
<1>8. RowTypes' /\ ObsTypes' /\ LapseType'
  BY <1>6 DEF SoldTyped, RowTypes, Staged, ObsTypes, LapseType
<1>9. QED
  BY <1>7, <1>8 DEF SoldTyped

LEMMA UpsertStaysTyped ==
  ASSUME SoldTyped, NEW k \in Keys, UpsertObservation(k)
  PROVE  SoldTyped'
<1>1. RunTypes /\ ObsTypes
  BY DEF SoldTyped
<1>2. PICK sum \in [count : Nat, total : Nat] : obs' = [obs EXCEPT ![k] = sum]
  BY <1>1, AggregateIs DEF UpsertObservation, Replacing
<1>3. ObsTypes'
  BY <1>1, <1>2 DEF ObsTypes
<1>4. {s.row : s \in Group(k)} \subseteq Rows
  BY <1>1 DEF RunTypes, Group, Sales
<1>5. /\ todo' \subseteq todo
      /\ sent' = sent \cup {s.row : s \in Group(k)} /\ written' = written \cup {s.row : s \in Group(k)}
      /\ UNCHANGED <<key, cents, promoted, stage, channel, batch, late, amends, lapses>>
  BY DEF UpsertObservation, staged, bounds
<1>6. RunTypes'
  BY <1>1, <1>4, <1>5 DEF RunTypes
<1>7. RowTypes' /\ LapseType'
  BY <1>5 DEF SoldTyped, RowTypes, Staged, LapseType
<1>8. QED
  BY <1>3, <1>6, <1>7 DEF SoldTyped

LEMMA RestStaysTyped ==
  ASSUME SoldTyped,
         \/ StartPromotion \/ MarkPromoted \/ MarkFails \/ Abort
         \/ (\E k \in Keys : UpsertFails(k)) \/ UNCHANGED soldVars
  PROVE  SoldTyped'
<1>0. RunTypes /\ LapseType
  BY DEF SoldTyped
<1>1. UNCHANGED <<key, cents, obs, written, late, amends>>
  BY DEF StartPromotion, MarkPromoted, MarkFails, Abort, UpsertFails, staged, bounds, soldVars
<1>2. /\ batch' \in {batch, {}} /\ sent' \in {sent, {}} /\ todo' \subseteq todo
      /\ promoted' \in {promoted, promoted \cup sent}
      /\ stage' \in {stage, "read", "idle"} /\ channel' \in {channel, "own", "scrape"}
  BY DEF StartPromotion, MarkPromoted, MarkFails, Abort, UpsertFails, NextChannel, SkipKey,
         soldVars, run
<1>3. IsFiniteSet(batch')
  BY <1>0, <1>2, FS_EmptySet DEF RunTypes
<1>4. RunTypes'
  BY <1>0, <1>1, <1>2, <1>3 DEF RunTypes, Stages, Channels
<1>5. LapseType'
  BY <1>0, SoldAssumption
  DEF LapseType, StartPromotion, MarkPromoted, MarkFails, Abort, UpsertFails, bounds, soldVars
<1>6. RowTypes' /\ ObsTypes'
  BY <1>1 DEF SoldTyped, RowTypes, Staged, ObsTypes
<1>7. QED
  BY <1>4, <1>5, <1>6 DEF SoldTyped

(* Whatever is staged, read, upserted, marked or lost, the variables of the *)
(* promotion keep their types: only sales with a product are in hand, and   *)
(* an observation has a count and a total.                                  *)
THEOREM SoldStaysTyped == SoldSpec => []SoldTypeOK
<1>1. SoldInit => SoldTyped
  <2> SUFFICES ASSUME SoldInit PROVE SoldTyped
    OBVIOUS
  <2>1. Staged = {} /\ batch = {}
    BY DEF SoldInit, Staged
  <2>2. IsFiniteSet(Staged) /\ IsFiniteSet(batch)
    BY <2>1, FS_EmptySet
  <2>3. RowTypes
    BY <2>1, <2>2, SoldAssumption DEF SoldInit, RowTypes
  <2>4. RunTypes
    BY <2>2 DEF SoldInit, RunTypes, Stages, Channels
  <2>5. ObsTypes /\ LapseType
    BY SoldAssumption DEF SoldInit, ObsTypes, LapseType, NoObs
  <2>6. QED
    BY <2>3, <2>4, <2>5 DEF SoldTyped
<1>2. SoldTyped /\ [SoldNext]_soldVars => SoldTyped'
  <2> SUFFICES ASSUME SoldTyped, [SoldNext]_soldVars PROVE SoldTyped'
    OBVIOUS
  <2>1. CASE StageSales
    <3>1. PICK r \in Rows, k \in Keys \cup {NoKey}, c \in Prices : SyncLine(r, k, c) \/ ScrapeSale(r, k, c)
      BY <2>1 DEF StageSales, Rows, Keys
    <3>2. QED
      BY <3>1, RowsStayTyped
  <2>2. QED
    BY <2>1, ReadStaysTyped, UpsertStaysTyped, RestStaysTyped DEF SoldNext, Promote
<1>3. SoldTyped => SoldTypeOK
  BY DEF SoldTyped, RowTypes, RunTypes, ObsTypes, LapseType, SoldTypeOK
<1>4. QED
  BY <1>1, <1>2, <1>3, PTL DEF SoldSpec

-----------------------------------------------------------------------------
(* Each step of a seller is one of a single part, or leaves it as it is.    *)
LEMMA SellingIsParts ==
  SellingSpec => Spec /\ OrdersSpec /\ ListingsSpec /\ SoldSpec
<1>1. SellingInit => Init /\ OrdersInit /\ ListingsInit /\ SoldInit
  BY DEF SellingInit
<1>2. [SellingNext]_sellingVars =>
        /\ [Next]_vars /\ [OrdersNext]_orderVars
        /\ [ListingsNext]_listingVars /\ [SoldNext]_soldVars
  BY DEF SellingNext, sellingVars
<1>3. QED
  BY <1>1, <1>2, PTL DEF SellingSpec, Spec, OrdersSpec, ListingsSpec, SoldSpec

(* Whichever part of selling moves, every variable of the four keeps its    *)
(* type, however many drains, requests, orders and sales there are.         *)
THEOREM SellingTypesHold == SellingSpec => []SellingTypes
<1>1. OrdersSpec => []OrdersTypeOK
  BY OrdersStart, OrdersStep, PTL DEF OrdersSpec
<1>2. ListingsSpec => []ListingsInv
  BY ListingsInitInv, ListingsStep, PTL DEF ListingsSpec
<1>3. ListingsInv => ListingsTypeOK
  BY DEF ListingsInv
<1>4. TypeOK /\ OrdersTypeOK /\ ListingsTypeOK /\ SoldTypeOK => SellingTypes
  BY DEF SellingTypes
<1>5. QED
  BY <1>1, <1>2, <1>3, <1>4, SellingIsParts, TypeCorrect, SoldStaysTyped, PTL
=============================================================================
