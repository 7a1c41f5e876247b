---------------------------- MODULE ShopifyMarket ----------------------------
(* The weekly pipeline of one Shopify store, from its sitemap to the parquet *)
(* files of its products: collections are discovered, classified by a sample *)
(* of their products, fetched page by page at the same time, and merged.     *)
EXTENDS Integers, Sequences, FiniteSets, FiniteSetsExt

CONSTANTS
  Handles,      \* the collections, as the sequence their files are read in
  InStock,      \* those whose name says that they hold what is in stock
  Items,        \* product ids
  Cards,        \* the products that name a Magic card
  PageSize, Sampled,
  MaxWeeks, MaxChanges, MaxFails   \* bounds: runs; changes of shop, catalogue and marks

Collections == {Handles[k] : k \in DOMAIN Handles}
ASSUME ShopAssumption ==
  /\ Handles \in Seq(Collections) /\ InStock \subseteq Collections
  /\ Items \subseteq Nat \ {0} /\ IsFiniteSet(Items) /\ Cards \subseteq Items
  /\ PageSize \in Nat \ {0} /\ Sampled \in Nat \ {0}

VARIABLES
  shelf,     \* the shop: the products of each collection
  tag,       \* the shop: price of each product, and the week it was last changed
  learnt,     \* the products whose card is in the catalogue
  code,      \* collection_handles: game_code of each handle, "absent" without a row
  mark,      \* the code an operator set by hand last, "none" if none did
  raced,     \* the handles marked while a classification held them as unclassified
  step,      \* the service of the chain that runs
  unsampled,      \* the unclassified handles it has read
  cursor,    \* the collections being fetched: page and since_id, and if it is over
  stayed,    \* what has been on each shelf since the fetch began
  pages,     \* <<handle, page>> -> the rows of that file
  batch,     \* the rows last appended to the parquet file of each product
  week, changes, mishaps

shopVars == <<shelf, tag, learnt, code, mark, raced, step, unsampled, cursor, stayed,
              pages, batch, week, changes, mishaps>>
chainVars == <<step, unsampled, cursor, pages, batch, week>>

Codes == {"mtg", "other"}
Nothing == [h \in {} |-> 0]

ShopInit ==
  /\ shelf = [h \in Collections |-> IF h \in InStock THEN Cards ELSE Items]
  /\ learnt \in SUBSET Cards
  /\ tag = [p \in Items |-> [date |-> 0, price |-> 0]]
  /\ code = [h \in Collections |-> "absent"] /\ mark = [h \in Collections |-> "none"]
  /\ raced = {} /\ step = "idle" /\ unsampled = {} /\ cursor = Nothing
  /\ stayed = [h \in Collections |-> {}] /\ pages = Nothing
  /\ batch = [p \in Items |-> {}] /\ week = 0 /\ changes = 0 /\ mishaps = 0

-----------------------------------------------------------------------------
(* The shop changes while the chain runs, the catalogue learns a card, and an*)
(* operator classifies a collection.                                         *)
Change == changes < MaxChanges /\ changes' = changes + 1 /\ UNCHANGED <<chainVars, mishaps>>

Stock(h, p) ==
  /\ Change /\ p \notin shelf[h] /\ shelf' = [shelf EXCEPT ![h] = @ \cup {p}]
  /\ UNCHANGED <<tag, learnt, code, mark, raced, stayed>>
Unstock(h, p) ==
  /\ Change /\ p \in shelf[h] /\ shelf' = [shelf EXCEPT ![h] = @ \ {p}]
  /\ stayed' = [stayed EXCEPT ![h] = @ \ {p}]
  /\ UNCHANGED <<tag, learnt, code, mark, raced>>
Reprice(p) ==
  /\ Change /\ tag' = [tag EXCEPT ![p] = [date |-> week, price |-> @.price + 1]]
  /\ UNCHANGED <<shelf, learnt, code, mark, raced, stayed>>
Learn(p) ==
  /\ Change /\ p \in Cards \ learnt /\ learnt' = learnt \cup {p}
  /\ UNCHANGED <<shelf, tag, code, mark, raced, stayed>>
Mark(h, g) ==
  /\ Change /\ code[h] \notin {"absent", g}
  /\ code' = [code EXCEPT ![h] = g] /\ mark' = [mark EXCEPT ![h] = g]
  /\ raced' = IF h \in unsampled THEN raced \cup {h} ELSE raced \ {h}
  /\ UNCHANGED <<shelf, tag, learnt, stayed>>

-----------------------------------------------------------------------------
(* What a chain holds is gone when it ends; pages and parquet files stay.    *)
EndChain ==
  /\ step' = "idle" /\ unsampled' = {} /\ cursor' = Nothing
  /\ stayed' = [h \in Collections |-> {}] /\ batch' = [p \in Items |-> {}]

ShopRest == <<shelf, tag, learnt, mark, raced, changes>>

(* fetch_collections: a handle that has a row keeps it.                      *)
Added(c) == [h \in Collections |-> IF c[h] = "absent" THEN "none" ELSE c[h]]
FetchCollections ==
  /\ step = "idle" /\ week < MaxWeeks
  /\ code' = Added(code) /\ step' = "collected" /\ week' = week + 1
  /\ UNCHANGED <<ShopRest, unsampled, cursor, stayed, pages, batch, mishaps>>

(* classify_collections reads the unclassified handles once.                 *)
Unclassified == {h \in Collections : code[h] = "none"}
ReadUnclassified ==
  /\ step = "collected" /\ step' = "classify"
  /\ unsampled' = Unclassified
  /\ UNCHANGED <<ShopRest, code, cursor, stayed, pages, batch, week, mishaps>>

Lowest(S, n) == {p \in S : Cardinality({q \in S : q < p}) < n}

Matches(S) == S \cap learnt # {}
Verdict(h) == IF Matches(Lowest(shelf[h], Sampled)) THEN "mtg" ELSE "other"
Classify(h) ==
  /\ step = "classify" /\ h \in unsampled
  /\ code' = [code EXCEPT ![h] = Verdict(h)] /\ unsampled' = unsampled \ {h}
  /\ UNCHANGED <<ShopRest, step, cursor, stayed, pages, batch, week, mishaps>>

Mishap == mishaps < MaxFails /\ mishaps' = mishaps + 1
SkipHandle(h) ==
  /\ step = "classify" /\ h \in unsampled /\ Mishap /\ unsampled' = unsampled \ {h}
  /\ UNCHANGED <<ShopRest, code, step, cursor, stayed, pages, batch, week>>

(* fetch_all_markets; a store without a collection to fetch is left out by   *)
(* this and every later service.                                             *)
Active == {h \in Collections : code[h] = "mtg"}
StartFetch ==
  /\ step = "classify" /\ unsampled = {}
  /\ IF Active = {} THEN EndChain
     ELSE /\ step' = "fetch" /\ stayed' = shelf
          /\ cursor' = [h \in Active |-> [page |-> 0, since |-> 0, over |-> FALSE]]
          /\ UNCHANGED <<unsampled, batch>>
  /\ UNCHANGED <<ShopRest, code, pages, week, mishaps>>

Tier(h) == IF h \in InStock THEN 1 ELSE 0
PageRows(h, S) ==
  {[item |-> p, date |-> tag[p].date, price |-> tag[p].price, seen |-> week,
    handle |-> h, page |-> cursor[h].page] : p \in S}

PageByOffset(h) ==
  Lowest(shelf[h], PageSize * (cursor[h].page + 1)) \ Lowest(shelf[h], PageSize * cursor[h].page)
NextPage(h) == Lowest({p \in shelf[h] : p > cursor[h].since}, PageSize)

(* The file of a page replaces that of an earlier week.                      *)
PageFile(h) == <<h, cursor[h].page>>
Saved(h, rows) ==
  [x \in DOMAIN pages \cup {PageFile(h)} |-> IF x = PageFile(h) THEN rows ELSE pages[x]]

(* One page of one collection; the collections are fetched together.         *)
FetchPage(h) ==
  /\ step = "fetch" /\ h \in DOMAIN cursor /\ ~cursor[h].over
  /\ IF NextPage(h) = {}
     THEN cursor' = [cursor EXCEPT ![h].over = TRUE] /\ UNCHANGED pages
     ELSE /\ pages' = Saved(h, PageRows(h, NextPage(h)))
          /\ cursor' = [cursor EXCEPT ![h] = [page |-> @.page + 1, since |-> Max(NextPage(h)),
                                            over |-> FALSE]]
  /\ UNCHANGED <<ShopRest, code, step, unsampled, stayed, batch, week, mishaps>>

(* A page that cannot be fetched ends the chain; what was saved stays.       *)
FetchFails ==
  /\ step = "fetch" /\ \E h \in DOMAIN cursor : ~cursor[h].over
  /\ Mishap /\ EndChain /\ UNCHANGED <<ShopRest, code, pages, week>>

EndFetch ==
  /\ step = "fetch" /\ \A h \in DOMAIN cursor : cursor[h].over
  /\ step' = "process"
  /\ UNCHANGED <<ShopRest, code, unsampled, cursor, stayed, pages, batch, week, mishaps>>

(* process_to_parquet reads every page there is, in the order of the files.  *)
(* Of the rows of a product for one date the last one of the highest tier is *)
(* kept; what is kept is appended.                                           *)
FilePlace(r) == <<Tier(r.handle), CHOOSE k \in DOMAIN Handles : Handles[k] = r.handle, r.page>>
ComesBefore(a, b) ==
  \/ a[1] < b[1]
  \/ a[1] = b[1] /\ a[2] < b[2]
  \/ a[1] = b[1] /\ a[2] = b[2] /\ a[3] < b[3]
Read == UNION {pages[x] : x \in DOMAIN pages}
Same(r, other) == r.item = other.item /\ r.date = other.date
Kept(r, R) == \A other \in R : Same(r, other) /\ other # r => ComesBefore(FilePlace(other), FilePlace(r))
Dedupe(R) == {r \in R : Kept(r, R)}

ProcessToParquet ==
  /\ step = "process" /\ step' = "stage"
  /\ batch' = [p \in Items |-> {r \in Dedupe(Read) : r.item = p}]
  /\ UNCHANGED <<ShopRest, code, unsampled, cursor, stayed, pages, week, mishaps>>

(* stage_raw names the table in a form COPY does not find, so it raises as   *)
(* soon as there is a parquet file; without one, nothing is staged and       *)
(* nothing promoted.  The chain ends either way.                             *)
StageRaw ==
  /\ step = "stage" /\ EndChain /\ UNCHANGED <<ShopRest, code, pages, week, mishaps>>

ShopStep ==
  \/ FetchCollections \/ ReadUnclassified \/ StartFetch \/ FetchFails \/ EndFetch
  \/ ProcessToParquet \/ StageRaw
  \/ \E h \in Collections : Classify(h) \/ SkipHandle(h) \/ FetchPage(h)
ShopNext ==
  \/ ShopStep
  \/ \E h \in Collections, p \in Items : Stock(h, p) \/ Unstock(h, p)
  \/ \E p \in Items : Reprice(p) \/ Learn(p)
  \/ \E h \in Collections, g \in Codes : Mark(h, g)

ShopSpec == ShopInit /\ [][ShopNext]_shopVars

-----------------------------------------------------------------------------
ShopSteps == {"idle", "collected", "classify", "fetch", "process", "stage"}

(* Every variable has its type.                                              *)
ShopTypeOK ==
  /\ shelf \in [Collections -> SUBSET Items] /\ learnt \subseteq Cards
  /\ code \in [Collections -> Codes \cup {"absent", "none"}]
  /\ mark \in [Collections -> Codes \cup {"none"}] /\ raced \subseteq Collections
  /\ step \in ShopSteps /\ unsampled \subseteq Collections /\ DOMAIN cursor \subseteq Collections
  /\ DOMAIN pages \subseteq Collections \X Nat /\ DOMAIN batch = Items
  /\ \A p \in Items : \A r \in batch[p] : r.item = p /\ r.seen <= week

(* What an operator set by hand is never replaced by the sample, unless it   *)
(* was set while a classification that had read the handle as unclassified   *)
(* was still running.                                                        *)
MarksSurvive == \A h \in Collections \ raced : mark[h] # "none" => code[h] = mark[h]

(* A product that stays on the shelf of a collection while it is fetched is  *)
(* in a page of this week, whatever is added to or taken from the shelf.     *)
NothingIsMissed ==
  step = "process" =>
    \A h \in DOMAIN cursor : \A p \in stayed[h] :
      \E r \in Read : r.item = p /\ r.handle = h /\ r.seen = week

(* What is merged was fetched this week, or comes from a page beyond those   *)
(* the collection has today, or from a collection that is no longer fetched: *)
(* such files are never deleted.                                             *)
OldRowsAreLeftovers ==
  step = "stage" =>
    \A p \in Items : \A r \in batch[p] :
      r.seen < week =>
        r.handle \notin DOMAIN cursor \/ r.page >= cursor[r.handle].page

(* The price of a product in stock is not replaced by one of another         *)
(* collection of the same date, and every product fetched this week is kept. *)
InStockWins ==
  step = "stage" =>
    \A r \in Read :
      \E best \in batch[r.item] : best.date = r.date /\ Tier(best.handle) >= Tier(r.handle)
=============================================================================
