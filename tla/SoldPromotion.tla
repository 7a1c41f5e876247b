---------------------------- MODULE SoldPromotion ----------------------------
(***************************************************************************)
(* How eBay sales become price observations: the nightly own-sales sync    *)
(* and the external scraper stage sale rows in two tables, and the nightly *)
(* promote_sold_obs reads the unpromoted rows of each table, writes one    *)
(* averaged observation per product key, and then flags the rows.  None of *)
(* it runs in a transaction: every statement commits by itself.            *)
(***************************************************************************)
EXTENDS Integers, FiniteSets, FiniteSetsExt

CONSTANTS
  OwnRows,      \* order lines of ebay_order_source_product
  ScrapeRows,   \* items of ebay_scraped_sold
  OwnKeys,      \* observation keys (product, day, variant) own sales may have
  ScrapeKeys,   \* observation keys scraped sales may have
  Prices,       \* prices in cents
  MaxAmends,    \* bound: re-writes of a row that is already staged
  MaxLapses      \* bound: statements that fail and deaths of the task

Rows == OwnRows \cup ScrapeRows
Keys == OwnKeys \cup ScrapeKeys
NoKey  == "unresolved"    \* staged with source_product_id NULL
Absent == "absent"        \* not staged

Channels == {"own", "scrape"}
Table(ch) == IF ch = "own" THEN OwnRows ELSE ScrapeRows

ASSUME SoldAssumption ==
  /\ OwnRows \cap ScrapeRows = {}
  /\ NoKey \notin Keys /\ Absent \notin Keys
  /\ Prices \subseteq Nat
  /\ MaxAmends \in Nat /\ MaxLapses \in Nat

VARIABLES
  key,       \* source_product_id of each row, with its day and variant
  cents,     \* its price
  promoted,  \* rows with promoted_to_obs = true
  obs,       \* price_observation: sales counted and their total, per key
  stage,     \* where promote_sold_obs is
  channel,   \* the table it is promoting
  batch,     \* the rows it has read, as it read them
  todo,      \* keys of the batch it has not written yet
  sent,      \* promoted_ids: rows whose observation it has written
  written,   \* history: rows some successful write has covered
  late,      \* history: keys that got or lost a sale after their promotion began
  amends,    \* history: re-writes so far
  lapses      \* history: failures so far

staged == <<key, cents>>
run     == <<stage, channel, batch, todo, sent>>
bounds  == <<amends, lapses>>
soldVars == <<staged, promoted, obs, run, written, late, bounds>>

NoObs == [count |-> 0, total |-> 0]

SoldInit ==
  /\ key = [r \in Rows |-> Absent] /\ cents = [r \in Rows |-> 0]
  /\ promoted = {} /\ obs = [k \in Keys |-> NoObs]
  /\ stage = "idle" /\ channel = "own"
  /\ batch = {} /\ todo = {} /\ sent = {} /\ written = {} /\ late = {}
  /\ amends = 0 /\ lapses = 0

(* _aggregate over the sale records s (their count and total; the service  *)
(* divides one by the other) *)
Aggregate(s) ==
  [count |-> Cardinality(s), total |-> MapThenSumSet(LAMBDA x : x.cents, s)]

Sale(r) == [row |-> r, key |-> key[r], cents |-> cents[r]]

(* What the promotion has read or flagged already: a sale that comes to or  *)
(* leaves the key of such a row, or such a row itself, is late.             *)
Settled == promoted \cup {s.row : s \in batch}
Closed  == {key[r] : r \in promoted} \cup {s.key : s \in batch}

Note(r, k) ==
  late' = late \cup (Keys \cap IF r \in Settled THEN {key[r], k}
                                                 ELSE {key[r], k} \cap Closed)

-----------------------------------------------------------------------------
(* upsert_order_source_product: a new line is inserted; for a line already *)
(* staged the product and the price are replaced and the flag is kept.     *)
SyncLine(r, k, c) ==
  /\ key[r] # Absent => /\ <<key[r], cents[r]>> # <<k, c>>
                        /\ amends < MaxAmends
  /\ amends' = IF key[r] = Absent THEN amends ELSE amends + 1
  /\ key' = [key EXCEPT ![r] = k]
  /\ cents' = [cents EXCEPT ![r] = c]
  /\ Note(r, k)
  /\ UNCHANGED <<promoted, obs, run, written, lapses>>

(* insert_scraped_sold: ON CONFLICT (item_id) DO NOTHING *)
ScrapeSale(r, k, c) ==
  /\ key[r] = Absent
  /\ key' = [key EXCEPT ![r] = k]
  /\ cents' = [cents EXCEPT ![r] = c]
  /\ Note(r, k)
  /\ UNCHANGED <<promoted, obs, run, written, bounds>>

(* promote_sold_obs is called *)
StartPromotion ==
  /\ stage = "idle"
  /\ stage' = "read" /\ channel' = "own"
  /\ UNCHANGED <<staged, promoted, obs, batch, todo, sent, written, late, bounds>>

UnpromotedUnseen(ch) ==
  {r \in Table(ch) : key[r] \in Keys /\ obs[key[r]] = NoObs} \ promoted

(* get_unpromoted *)
Unpromoted(ch) == {r \in Table(ch) : key[r] \in Keys} \ promoted

ReadStaging ==
  /\ stage = "read"
  /\ stage' = "upsert"
  /\ batch' = {Sale(r) : r \in Unpromoted(channel)}
  /\ todo' = {key[r] : r \in Unpromoted(channel)}
  /\ UNCHANGED <<staged, promoted, obs, channel, sent, written, late, bounds>>

Group(k) == {s \in batch : s.key = k}

Adding(old, new) ==
  [count |-> old.count + new.count, total |-> old.total + new.total]

(* ON CONFLICT DO UPDATE SET sold_avg_cents = EXCLUDED..., sold_count = ... *)
Replacing(old, new) == new

UpsertObservation(k) ==
  /\ stage = "upsert"
  /\ k \in todo
  /\ obs' = [obs EXCEPT ![k] = Replacing(@, Aggregate(Group(k)))]
  /\ todo' = todo \ {k}
  /\ sent' = sent \cup {s.row : s \in Group(k)}
  /\ written' = written \cup {s.row : s \in Group(k)}
  /\ UNCHANGED <<staged, promoted, stage, channel, batch, late, bounds>>

SkipAndSend(k) ==
  /\ todo' = todo \ {k}
  /\ sent' = sent \cup {s.row : s \in Group(k)}

(* the except branch of the loop: log and go on with the next key *)
SkipKey(k) ==
  /\ todo' = todo \ {k}
  /\ UNCHANGED sent

UpsertFails(k) ==
  /\ stage = "upsert"
  /\ k \in todo
  /\ lapses < MaxLapses
  /\ lapses' = lapses + 1
  /\ SkipKey(k)
  /\ UNCHANGED <<staged, promoted, obs, stage, channel, batch, written, late, amends>>

(* the other table is next, or the run is over *)
NextChannel ==
  /\ stage' = IF channel = "own" THEN "read" ELSE "idle"
  /\ channel' = "scrape"
  /\ batch' = {} /\ sent' = {}
  /\ UNCHANGED todo

MarkPromoted ==
  /\ stage = "upsert"
  /\ todo = {}
  /\ promoted' = promoted \cup sent
  /\ NextChannel
  /\ UNCHANGED <<staged, obs, written, late, bounds>>

MarkFails ==
  /\ stage = "upsert"
  /\ todo = {} /\ sent # {}
  /\ lapses < MaxLapses
  /\ lapses' = lapses + 1
  /\ NextChannel
  /\ UNCHANGED <<staged, promoted, obs, written, late, amends>>

(* the worker dies, or a read raises out of the service *)
Abort ==
  /\ stage # "idle"
  /\ lapses < MaxLapses
  /\ lapses' = lapses + 1
  /\ stage' = "idle"
  /\ batch' = {} /\ todo' = {} /\ sent' = {}
  /\ UNCHANGED <<staged, promoted, obs, channel, written, late, amends>>

Promote ==
  \/ StartPromotion \/ ReadStaging \/ MarkPromoted \/ MarkFails \/ Abort
  \/ \E k \in Keys : UpsertObservation(k) \/ UpsertFails(k)

StageSales ==
  \/ \E r \in OwnRows, k \in OwnKeys \cup {NoKey}, c \in Prices : SyncLine(r, k, c)
  \/ \E r \in ScrapeRows, k \in ScrapeKeys \cup {NoKey}, c \in Prices : ScrapeSale(r, k, c)

SoldNext == Promote \/ StageSales
SoldSpec == SoldInit /\ [][SoldNext]_soldVars

(* Beat starts the promotion every night and the worker runs it.           *)
SoldFairness ==
  /\ WF_soldVars(StartPromotion) /\ WF_soldVars(ReadStaging) /\ WF_soldVars(MarkPromoted)
  /\ \A k \in Keys : WF_soldVars(UpsertObservation(k))
SoldFairSpec == SoldSpec /\ SoldFairness

-----------------------------------------------------------------------------
Sales == [row : Rows, key : Keys, cents : Prices]
Stages == {"idle", "read", "upsert"}

(* Every variable has its type: in particular promote_sold_obs only ever   *)
(* holds sales whose product is resolved. *)
SoldTypeOK ==
  /\ key \in [Rows -> Keys \cup {NoKey, Absent}]
  /\ cents \in [Rows -> Prices \cup {0}]
  /\ promoted \subseteq Rows /\ written \subseteq Rows
  /\ obs \in [Keys -> [count : Nat, total : Nat]]
  /\ stage \in Stages /\ channel \in Channels
  /\ batch \subseteq Sales /\ todo \subseteq Keys /\ sent \subseteq Rows
  /\ late \subseteq Keys
  /\ amends \in 0 .. MaxAmends /\ lapses \in 0 .. MaxLapses

(* A row is flagged promoted only after an observation was written from it:*)
(* the loop of _promote_channel collects the ids of the keys it wrote, not *)
(* of the keys it tried, so a failed upsert leaves its rows for tomorrow.  *)
NothingFlaggedUnwritten == promoted \subseteq written

(* When the sales of a key are all promoted, came through one channel, and *)
(* none came, went or changed after the key's promotion began, the         *)
(* observation counts each of them once, at its price: a failed mark, a    *)
(* failed key or a dead worker makes a later night write the key again,    *)
(* which replaces and does not add. *)
RowsOf(k) == {r \in Rows : key[r] = k}
OneChannel(k) == \E ch \in Channels : RowsOf(k) \subseteq Table(ch)
ObservationIsAggregate ==
  \A k \in Keys \ late :
    RowsOf(k) # {} /\ RowsOf(k) \subseteq promoted /\ OneChannel(k) =>
      obs[k] = Aggregate({Sale(r) : r \in RowsOf(k)})

(* A row is flagged promoted only after an observation was written from it,*)
(* and the observation of a key of one channel counts each of its sales    *)
(* once.                                                                   *)
PromotionHolds == NothingFlaggedUnwritten /\ ObservationIsAggregate

(* A sale whose product stays resolved is eventually promoted, whatever    *)
(* failed the nights before: get_unpromoted finds it again every night.    *)
ResolvedIsPromoted ==
  \A r \in Rows : <>[](key[r] \in Keys) => <>(r \in promoted)
=============================================================================
