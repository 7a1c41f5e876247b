---------------------------- MODULE PriceCharting ----------------------------
(***************************************************************************)
(* Sold prices from PriceCharting: the catalog and the sold pages of each  *)
(* set are scraped into files, each product is matched once to a card      *)
(* version, and the sold listings of matched products are staged for the   *)
(* promotion.  The four services are started by an operator and may        *)
(* overlap; the match run is one transaction over many statements.         *)
(***************************************************************************)
EXTENDS Connection, Integers, FiniteSets, FiniteSetsExt

CONSTANTS
  Products,     \* single products, one per set of PriceCharting
  Title,        \* per product: the words of its bracket, and its number
  Passes,       \* per product: the passes that find a DB set for its set
  Candidates,   \* per product: the card versions of that set with its name
  Sales,        \* sold listings, one per item_id
  PageLink,     \* per product: the TCGPlayer id its page links to
  StrongVotes,  \* votes that make a TCGPlayer id certain
  MaxChanges    \* bound: changes on the site, manual locks, failures

None == "none"
Printings == UNION {{c.version : c \in Candidates[p]} : p \in Products}

ASSUME PriceChartingAssumption ==
  /\ \A p \in Products : /\ Title[p].number \in Nat \ {0} /\ PageLink[p] \in Nat
                         /\ IsFiniteSet(Title[p].words) /\ IsFiniteSet(Candidates[p])
                         /\ \A c \in Candidates[p] : c.number \in Nat
  /\ None \notin Printings
  /\ \A s \in Sales : s.product \in Products /\ s.link \in Nat /\ s.dated \in BOOLEAN
  /\ StrongVotes \in Nat /\ MaxChanges \in Nat

VARIABLES
  listed,    \* sold listings on the site
  catalog,   \* products/{uid}.json: "none", "empty" or "full"
  sold,      \* sales/{uid}.json: a file, or NoPage
  map,       \* pricecharting_card_map
  match,     \* the match run: what it read, has left and will upsert
  db,        \* its connection
  picked,   \* stage_sold: what it will insert
  staged,    \* ebay_scraped_sold: the version each listing is filed under
  locked,    \* history: the version each product was last locked to
  unlinked,  \* history: products whose identifier was not registered or lost
  changes

scraped == <<catalog, sold>>
marketVars == <<listed, scraped, map, match, db, picked, staged, locked, unlinked, changes>>

NoPage == [page |-> None, sales |-> {}]
NoRow == [version |-> None, finish |-> 0, certainty |-> 0, verified |-> FALSE]
Idle == [on |-> FALSE, existing |-> {}, todo |-> {}, upserts |-> {}]

-----------------------------------------------------------------------------
(* match_set_code: the first pass that finds a set                         *)
PassOrder == <<"override", "exact", "duel_deck", "suffix", "prefix", "fuzzy">>
SetMethod(p) ==
  IF Passes[p] = {} THEN None
  ELSE PassOrder[Min({i \in DOMAIN PassOrder : PassOrder[i] \in Passes[p]})]

(* parse_finish                                                            *)
Finish(title) ==
  IF "etched" \in title.words THEN 3
  ELSE IF {"foil", "prerelease"} \cap title.words # {} THEN 2 ELSE 1

Treatments == {"showcase", "extendedart", "fullart", "borderless", "etched", "inverted",
               "dazzlefoil", "shatteredglass", "textless", "colorshifted"}
(* score_candidate; a finish in the bracket ("etched foil") is no treatment *)
Score(c, title) ==
  LET finish  == IF "foil" \in title.words THEN {"etched", "dazzlefoil"} ELSE {}
      signals == (title.words \cap Treatments) \ finish
  IN 3 * Cardinality(signals \cap c.effects) - 2 * Cardinality(signals \ c.effects)

(* resolve_card_match: each rule narrows what the one before it left       *)
ByNumber(cs, title) ==
  LET same == {c \in cs : c.number = title.number}
  IN IF same # {} THEN same ELSE cs

ByTreatment(cs, title) ==
  LET top == Max({Score(c, title) : c \in cs})
  IN IF Cardinality(cs) > 1 /\ top > 0 THEN {c \in cs : Score(c, title) = top} ELSE cs

ByTcg(cs, id) ==
  LET hits == {c \in cs : c.tcg = id}
  IN IF id # 0 /\ Cardinality(hits) = 1 THEN hits ELSE cs

Winners(p, id) == ByTcg(ByTreatment(ByNumber(Candidates[p], Title[p]), Title[p]), id)

(* ... and the lowest number takes what is still ambiguous                 *)
Winner(p, id) == CHOOSE c \in Winners(p, id) : \A d \in Winners(p, id) : c.number <= d.number

Method(p, id) ==
  LET numbered == ByNumber(Candidates[p], Title[p])
      treated  == ByTreatment(numbered, Title[p])
  IN CASE id # 0 /\ Winner(p, id).tcg = id                           -> "tcg"
       [] Cardinality(Candidates[p]) = 1                             -> "name"
       [] Cardinality(numbered) = 1                                  -> "collector"
       [] Cardinality(treated) = 1                                   -> "treatment"
       [] OTHER                                                      -> "ambiguous"

Base == [tcg |-> 95, collector |-> 85, name |-> 80, treatment |-> 65, ambiguous |-> 40]
Loose == {"fuzzy", "prefix"}

Certainty(p, id, votes) ==
  LET base == Base[Method(p, id)]
      sure == IF Method(p, id) = "tcg" /\ votes >= StrongVotes THEN Min({99, base + 3}) ELSE base
  IN IF SetMethod(p) \in Loose THEN Max({20, sure - 20}) ELSE sure

Confident(row) == row.certainty >= 70

(* _consensus_tcg_id over the listings of the sales file                   *)
Votes(S, id) == Cardinality({s \in S : s.link = id})
Consensus(p, S) ==
  LET linked == {s \in S : s.product = p /\ s.link # 0}
      top == Max({Votes(linked, s.link) : s \in linked})
  IN IF linked = {} THEN {[id |-> PageLink[p], votes |-> 0]}
     ELSE {[id |-> s.link, votes |-> top] : s \in {t \in linked : Votes(linked, t.link) = top}}

(* _load_tcgplayer_ids: nothing without a sales file of the set            *)
TcgIds(p) ==
  IF sold[p].page # p THEN {[id |-> 0, votes |-> 0]} ELSE Consensus(p, sold[p].sales)

-----------------------------------------------------------------------------
MarketInit ==
  /\ listed \in SUBSET Sales
  /\ catalog = [p \in Products |-> "none"]
  /\ sold = [p \in Products |-> NoPage]
  /\ map = [p \in Products |-> NoRow]
  /\ match = Idle
  /\ db = [txn |-> "none", pending |-> {}, saved |-> {}]
  /\ picked = {} /\ staged = [s \in Sales |-> None]
  /\ locked = [p \in Products |-> None] /\ unlinked = {}
  /\ changes = 0

Change == changes < MaxChanges /\ changes' = changes + 1

(* a listing appears on the site or goes                                   *)
SiteChanges(s) ==
  /\ Change
  /\ listed' = (listed \ {s}) \cup ({s} \ listed)
  /\ UNCHANGED <<scraped, map, match, db, picked, staged, locked, unlinked>>

(* scrape_catalog: the page of a set that is not cached, or forced; a page *)
(* without a table is a catalog without products.  An error saves nothing. *)
ScrapeCatalog(p, force) ==
  /\ catalog[p] = "none" \/ force
  /\ \/ catalog' = [catalog EXCEPT ![p] = "full"] /\ UNCHANGED changes
     \/ catalog' = [catalog EXCEPT ![p] = "empty"] /\ Change
  /\ UNCHANGED <<listed, sold, map, match, db, picked, staged, locked, unlinked>>

(* scrape_sales: a product whose page fails is left out of the file        *)
ScrapeSales(p, force) ==
  /\ catalog[p] # "none"
  /\ sold[p] = NoPage \/ force
  /\ \/ /\ sold' = [sold EXCEPT ![p] =
              IF catalog[p] = "full"
              THEN [page |-> p, sales |-> {s \in listed : s.product = p}]
              ELSE [page |-> "empty", sales |-> {}]]
        /\ UNCHANGED changes
     \/ sold' = [sold EXCEPT ![p] = [page |-> "empty", sales |-> {}]] /\ Change
  /\ UNCHANGED <<listed, catalog, map, match, db, picked, staged, locked, unlinked>>

-----------------------------------------------------------------------------
(* build_match_catalog *)
StartMatch ==
  /\ ~match.on
  /\ match' = [on |-> TRUE, existing |-> {p \in Products : map[p].version # None \/ map[p].verified},
               todo |-> Products, upserts |-> {}]
  /\ db' = Begin(db)
  /\ UNCHANGED <<listed, scraped, map, picked, staged, locked, unlinked, changes>>

Matching(p) == match.on /\ p \in match.todo
Done(p) == match' = [match EXCEPT !.todo = @ \ {p}]

Skips(p) == p \in match.existing

(* no DB set, no catalog, or resolved before                               *)
SkipProduct(p) ==
  /\ Matching(p)
  /\ SetMethod(p) = None \/ catalog[p] # "full" \/ Skips(p)
  /\ Done(p)
  /\ UNCHANGED <<listed, scraped, map, db, picked, staged, locked, unlinked, changes>>

Row(p, tcg) ==
  IF Candidates[p] = {} THEN NoRow
  ELSE [version |-> Winner(p, tcg.id).version, finish |-> Finish(Title[p]),
        certainty |-> Certainty(p, tcg.id, tcg.votes), verified |-> FALSE]

(* register_external_identifier: one identifier per version, the first; in *)
(* an aborted transaction the executor has rolled back what came before    *)
Link(version, p) ==
  IF \E q \in Products : <<version, q>> \in Ready(db).pending \cup db.saved THEN {}
  ELSE {<<version, p>>}

(* the products of the run whose identifier is not committed yet           *)
LinksBefore ==
  {r[1] : r \in {u \in match.upserts : \E q \in Products : <<u[2].version, q>> \in db.pending}}

(* A registration that fails is caught, and the run goes on in a           *)
(* transaction that is aborted.                                            *)
MatchProduct(p) ==
  /\ Matching(p)
  /\ SetMethod(p) # None /\ catalog[p] = "full" /\ ~Skips(p)
  /\ \E tcg \in TcgIds(p) :
       LET row == Row(p, tcg)
       IN /\ match' = [match EXCEPT !.todo = @ \ {p}, !.upserts = @ \cup {<<p, row>>}]
          /\ \/ /\ ~Confident(row)
                /\ UNCHANGED <<db, unlinked, changes>>
             \/ /\ Confident(row)
                /\ db' = Execute(db, Link(row.version, p), TRUE)
                /\ unlinked' = unlinked \ {p}
                /\ UNCHANGED changes
             \/ /\ Confident(row) /\ Change
                /\ db' = Execute(db, {}, FALSE)
                /\ unlinked' = unlinked \cup {p} \cup LinksBefore
  /\ UNCHANGED <<listed, scraped, map, picked, staged, locked>>

Found(rows, p) == (CHOOSE r \in rows : r[1] = p)[2]

(* Mutant: the conflict clause has no WHERE.                               *)
UpsertAll(rows) == [p \in Products |->
  IF \E r \in rows : r[1] = p
  THEN [Found(rows, p) EXCEPT !.verified = map[p].verified] ELSE map[p]]

(* upsert_map: a verified row is left as it is                             *)
Upsert(rows) == [p \in Products |->
  IF ~map[p].verified /\ \E r \in rows : r[1] = p THEN Found(rows, p) ELSE map[p]]

EndMatch ==
  /\ match.on /\ match.todo = {}
  /\ map' = Upsert(match.upserts)
  /\ db' = Commit(IF match.upserts = {} THEN db ELSE Execute(db, {}, TRUE))
  /\ match' = Idle
  /\ UNCHANGED <<listed, scraped, picked, staged, locked, unlinked, changes>>

(* the run raises or its process dies                                      *)
MatchFails ==
  /\ match.on /\ Change
  /\ db' = Rollback(db)
  /\ match' = Idle
  /\ UNCHANGED <<listed, scraped, map, picked, staged, locked, unlinked>>

(* the operator locks a product to a version                               *)
Verify(p, v) ==
  /\ Change
  /\ map' = [map EXCEPT ![p] = [version |-> v, finish |-> Finish(Title[p]),
                                certainty |-> 100, verified |-> TRUE]]
  /\ locked' = [locked EXCEPT ![p] = v]
  /\ UNCHANGED <<listed, scraped, match, db, picked, staged, unlinked>>

-----------------------------------------------------------------------------
(* build_accepted_sales over the sales files and the matched map           *)
Accepted ==
  {s \in UNION {sold[p].sales : p \in Products} : s.dated /\ map[s.product].version # None}

(* stage_sold reads the map and the files ...                              *)
StartStage ==
  /\ picked = {}
  /\ picked' = {<<s, map[s.product].version>> : s \in Accepted}
  /\ UNCHANGED <<listed, scraped, map, match, db, staged, locked, unlinked, changes>>

(* ... and inserts them in one transaction: insert_scraped_sold keeps what *)
(* an item_id is filed under                                               *)
StageSold ==
  /\ picked # {}
  /\ staged' = [s \in Sales |->
       IF staged[s] = None /\ \E r \in picked : r[1] = s
       THEN (CHOOSE r \in picked : r[1] = s)[2] ELSE staged[s]]
  /\ picked' = {}
  /\ UNCHANGED <<listed, scraped, map, match, db, locked, unlinked, changes>>

StageFails ==
  /\ picked # {} /\ Change
  /\ picked' = {}
  /\ UNCHANGED <<listed, scraped, map, match, db, staged, locked, unlinked>>

MarketNext ==
  \/ \E s \in Sales : SiteChanges(s)
  \/ \E p \in Products :
       \/ \E force \in BOOLEAN : ScrapeCatalog(p, force) \/ ScrapeSales(p, force)
       \/ SkipProduct(p) \/ MatchProduct(p)
       \/ \E c \in Candidates[p] : Verify(p, c.version)
  \/ StartMatch \/ EndMatch \/ MatchFails
  \/ StartStage \/ StageSold \/ StageFails

MarketSpec == MarketInit /\ [][MarketNext]_marketVars

-----------------------------------------------------------------------------
(* Every variable has its type.                                            *)
MarketTypeOK ==
  /\ listed \subseteq Sales
  /\ catalog \in [Products -> {"none", "empty", "full"}]
  /\ \A p \in Products : sold[p].sales \subseteq {s \in Sales : s.product = p}
  /\ \A p \in Products : /\ map[p].version \in Printings \cup {None}
                         /\ map[p].certainty \in 0 .. 100
  /\ match.todo \subseteq Products /\ match.existing \subseteq Products
  /\ db.txn \in TxnStates
  /\ staged \in [Sales -> Printings \cup {None}]
  /\ {r[1] : r \in picked} \subseteq Sales /\ locked \in [Products -> Printings \cup {None}]
  /\ changes \in 0 .. MaxChanges

(* A product an operator has locked keeps the version it was locked to,    *)
(* also when the lock comes while a match run is on its way                *)
(* (pc_map_repository: "a manual lock").                                   *)
VerifiedIsKept ==
  \A p \in Products : map[p].verified => map[p].version = locked[p]

(* A product that was matched confidently has left its card version with a *)
(* pricecharting_id, unless a registration of the same run failed.         *)
ConfidentIsLinked ==
  ~match.on => \A p \in Products \ unlinked :
    Confident(map[p]) /\ ~map[p].verified =>
      \E q \in Products : <<map[p].version, q>> \in db.saved

(* A staged sale is filed under the version its product is matched to: a   *)
(* match is made once, whatever votes a later scrape brings, unless an     *)
(* operator has locked the product since.                                  *)
StagedAsMatched ==
  \A s \in Sales : staged[s] # None =>
    staged[s] = map[s.product].version \/ locked[s.product] # None

(* Matches hold: a product an operator has locked keeps its version, also     *)
(* when the lock comes in the middle of a match run; what was matched         *)
(* confidently is linked, and sales are staged as their product is matched.   *)
MatchesHold == VerifiedIsKept /\ ConfidentIsLinked /\ StagedAsMatched
=============================================================================
