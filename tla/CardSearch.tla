----------------------------- MODULE CardSearch -----------------------------
(***************************************************************************)
(* The card search of the catalogue: queries on a materialised view, with  *)
(* the answers of searches, suggestions and price charts in one cache and  *)
(* the price of each card in another.  A search is several statements and  *)
(* several calls of the cache; the view and the prices are refreshed, and  *)
(* the cached searches dropped, by tasks that run meanwhile.               *)
(***************************************************************************)
EXTENDS Integers, FiniteSets, Sequences

CONSTANTS
  Prints,      \* printings of cards
  Attr,        \* per version: its [card, set, rarity, promo, token, rank]
  Queries,     \* [kind, id, set, rarity, promo, layout, collapse, offset, limit]
  Containing,  \* per rarity asked for: the rarities whose name contains it
  Readers,     \* processes that answer requests
  Ttl,         \* per kind of query: the life of its cached answer, in ticks
  SparkTtl,    \* the life of a cached price
  MaxTime,     \* bound: ticks
  MaxTurns     \* bound: changes of the catalogue and refreshes

Unset == "none"

(* A rarity contains itself.                                               *)
ASSUME SearchAssumption ==
  /\ IsFiniteSet(Prints) /\ Queries # {}
  /\ \A q \in Queries :
       /\ q = [kind |-> q.kind, id |-> q.id, set |-> q.set, rarity |-> q.rarity,
               promo |-> q.promo, layout |-> q.layout, collapse |-> q.collapse,
               offset |-> q.offset, limit |-> q.limit]
       /\ q.kind \in {"search", "suggest", "get", "printings", "sets"}
       /\ q.limit \in Nat \ {0} /\ q.offset \in Nat /\ Ttl[q.kind] \in Nat
  /\ \A v \in Prints : Attr[v].rarity \in DOMAIN Containing
                        /\ Attr[v].rarity \in Containing[Attr[v].rarity]
  /\ SparkTtl \in Nat \ {0} /\ MaxTime \in Nat /\ MaxTurns \in Nat

VARIABLES
  cards,       \* card_version
  view,        \* v_card_versions_complete and v_card_name_suggest
  viewNo,      \* refreshes of the view
  sparkAt,     \* per refresh of mv_card_price_spark: when it was made
  answers,     \* cache: per query its answer, or an empty one
  prices,      \* cache: per version [spark, until]
  reader,      \* per process: the request it answers
  chain,       \* the end of a pipeline: "idle", or after its "first" task
  cleanAt,     \* history: the view of each pipeline that has dropped the searches
  now, turns

searchVars == <<cards, view, viewNo, sparkAt, answers, prices, reader, chain,
                cleanAt, now, turns>>

Empty == [kind |-> Unset, page |-> {}, total |-> 0, facets |-> {}, shown |-> {},
          view |-> 0, began |-> 0, saved |-> 0, until |-> 0]
NoPrice == [spark |-> 0, until |-> 0]
Quiet == [at |-> "idle", q |-> CHOOSE q \in Queries : TRUE, answer |-> Empty, fresh |-> {}]

SearchInit ==
  /\ cards = Prints /\ view = Prints /\ viewNo = 1
  /\ sparkAt = <<0>>
  /\ answers = [q \in Queries |-> Empty]
  /\ prices = [v \in Prints |-> NoPrice]
  /\ reader = [r \in Readers |-> Quiet]
  /\ chain = "idle" /\ cleanAt = <<1>> /\ now = 0 /\ turns = 0

-----------------------------------------------------------------------------
(* The statements of a search.                                             *)
Shown(v, q) ==
  \/ q.layout = "token" /\ Attr[v].token
  \/ q.layout = Unset /\ ~Attr[v].token
  \/ q.kind = "suggest"

Source(q) == IF q.kind = "suggest" THEN view \cap cards ELSE view
Unfiltered(q) == {v \in Source(q) : (q.set # Unset => Attr[v].set = q.set) /\ Shown(v, q)}
OfRarity(q) == {v \in view : q.rarity # Unset => Attr[v].rarity \in Containing[q.rarity]}
OfPromo(q) == {v \in view : q.promo # {} => Attr[v].promo \cap q.promo # {}}

Matches(q) == Unfiltered(q) \cap OfRarity(q) \cap OfPromo(q)

(* collapsed: of the printings of a card in a set, the plainest one        *)
PrintingsOf(v, q) == {w \in Matches(q) : Attr[w].card = Attr[v].card /\ Attr[w].set = Attr[v].set}
Results(q) ==
  IF q.collapse THEN {v \in Matches(q) : \A w \in PrintingsOf(v, q) : Attr[v].rank <= Attr[w].rank}
  ELSE Matches(q)

(* The rows are sorted by the name of the card; the database may put those *)
(* of one name in any order, and in another one for the next page.         *)
Before(v, w) == Attr[v].card < Attr[w].card
Prefix(q, cut) == cut \subseteq Results(q) /\ \A v \in cut, w \in Results(q) \ cut : ~Before(w, v)
Least(n, m) == IF n <= m THEN n ELSE m
Pages(q) ==
  {page \in SUBSET Results(q) : \E skipped \in SUBSET Results(q) :
     /\ Prefix(q, skipped) /\ Cardinality(skipped) = Least(q.offset, Cardinality(Results(q)))
     /\ page \cap skipped = {} /\ Prefix(q, skipped \cup page)
     /\ Cardinality(page) = Least(q.limit, Cardinality(Results(q) \ skipped))}

(* Mutant: the facets forget that tokens are left out.                     *)
FacetsOfEverything(q) ==
  (UNION {Attr[v].promo : v \in OfRarity(q)}) \cup {Attr[v].rarity : v \in OfPromo(q)}

(* each list of facets leaves its own condition out *)
Facets(q) ==
  (UNION {Attr[v].promo : v \in Unfiltered(q) \cap OfRarity(q)})
    \cup {Attr[v].rarity : v \in Unfiltered(q) \cap OfPromo(q)}

(* the pages of one card, and those beside it *)
ById(q) == {v \in view \cap cards : v = q.id}
InSet(q) == {v \in view : Attr[v].card = Attr[q.id].card /\ Attr[v].set = q.set}
OtherSets(q) ==
  LET all == {v \in view : Attr[v].card = Attr[q.id].card /\ ~Attr[v].token} IN
  {v \in all : \A w \in all : Attr[w].set = Attr[v].set => Attr[v].rank <= Attr[w].rank}
FoundBy(q) == CASE q.kind = "get" -> ById(q) [] q.kind = "printings" -> InSet(q)
              [] q.kind = "sets" -> OtherSets(q)
Listed(q) == q.kind \in {"search", "suggest"}
Uncached(q) == q.kind \in {"printings", "sets"}

-----------------------------------------------------------------------------
At(r, step) == reader[r].at = step
Step(r, step) == reader' = [reader EXCEPT ![r].at = step]

(* A request is answered from the cache; one that cannot be read is a miss. *)
Ask(r) ==
  /\ At(r, "idle")
  /\ \E q \in Queries :
       \/ /\ answers[q].kind # Unset
          /\ reader' = [reader EXCEPT ![r] = [at |-> "answered", q |-> q, fresh |-> {},
                                              answer |-> answers[q]]]
       \/ reader' = [reader EXCEPT ![r] = [at |-> "read", q |-> q, fresh |-> {},
            answer |-> [Empty EXCEPT !.kind = q.kind, !.began = Len(cleanAt)]]]
  /\ UNCHANGED <<cards, view, viewNo, sparkAt, answers, prices, chain, cleanAt, now, turns>>

Reads(r, q, page) ==
  reader' = [reader EXCEPT ![r].answer.page = page, ![r].answer.view = viewNo,
    ![r].at = IF page = {} THEN "count" ELSE IF q.kind = "suggest" THEN "save" ELSE "prices"]

ReadPage(r) ==
  /\ At(r, "read")
  /\ LET q == reader[r].q IN
     \/ Listed(q) /\ \E page \in Pages(q) : Reads(r, q, page)
     \/ ~Listed(q) /\ FoundBy(q) # {} /\ Reads(r, q, FoundBy(q))
     \/ ~Listed(q) /\ FoundBy(q) = {} /\ reader' = [reader EXCEPT ![r] = Quiet]
  /\ UNCHANGED <<cards, view, viewNo, sparkAt, answers, prices, chain, cleanAt, now, turns>>

(* Prices that are not in the cache are read; an unreadable cache is a miss*)
Cached(page) == {v \in page : prices[v].spark > 0}

ReadPrices(r) ==
  /\ At(r, "prices")
  /\ LET page == reader[r].answer.page IN
     \E hits \in {Cached(page), {}} :
       reader' = [reader EXCEPT ![r].at = "keep",
         ![r].answer.shown = {<<v, prices[v].spark>> : v \in hits}
                               \cup {<<v, Len(sparkAt)>> : v \in page \ hits},
         ![r].fresh = page \ hits]
  /\ UNCHANGED <<cards, view, viewNo, sparkAt, answers, prices, chain, cleanAt, now, turns>>

Kept(r) == {s \in reader[r].answer.shown : s[1] \in reader[r].fresh}

KeepPrices(r) ==
  /\ At(r, "keep")
  /\ \/ prices' = [v \in Prints |->
          IF \E s \in Kept(r) : s[1] = v
          THEN [spark |-> (CHOOSE s \in Kept(r) : s[1] = v)[2], until |-> now + SparkTtl]
          ELSE prices[v]]
     \/ UNCHANGED prices
  /\ Step(r, CASE Uncached(reader[r].q) -> "answered" [] reader[r].q.kind = "get" -> "save"
              [] OTHER -> "count")
  /\ UNCHANGED <<cards, view, viewNo, sparkAt, answers, chain, cleanAt, now, turns>>

Count(r) ==
  /\ At(r, "count")
  /\ LET q == reader[r].q IN
     reader' = [reader EXCEPT ![r].at = "save",
       ![r].answer.total = Cardinality(Results(q)), ![r].answer.facets = Facets(q)]
  /\ UNCHANGED <<cards, view, viewNo, sparkAt, answers, prices, chain, cleanAt, now, turns>>

(* a cache that cannot be written is passed over *)
Save(r) ==
  /\ At(r, "save")
  /\ LET q == reader[r].q
         answer == [reader[r].answer EXCEPT !.until = now + Ttl[q.kind],
                                             !.saved = Len(cleanAt)] IN
     /\ answers' = [answers EXCEPT ![q] = answer] \/ UNCHANGED answers
     /\ reader' = [reader EXCEPT ![r].answer = answer, ![r].at = "answered"]
  /\ UNCHANGED <<cards, view, viewNo, sparkAt, prices, chain, cleanAt, now, turns>>

(* the response is sent, or the request fails *)
Leave(r) ==
  /\ reader[r].at # "idle"
  /\ reader' = [reader EXCEPT ![r] = Quiet]
  /\ UNCHANGED <<cards, view, viewNo, sparkAt, answers, prices, chain, cleanAt, now, turns>>

-----------------------------------------------------------------------------
Changes == turns < MaxTurns /\ turns' = turns + 1

(* Imports insert printings, an administrator deletes one.                 *)
AddCards ==
  /\ Changes /\ cards' = Prints
  /\ UNCHANGED <<view, viewNo, sparkAt, answers, prices, reader, chain, cleanAt, now>>

DeleteCard(v) ==
  /\ Changes /\ v \in cards /\ cards' = cards \ {v}
  /\ UNCHANGED <<view, viewNo, sparkAt, answers, prices, reader, chain, cleanAt, now>>

RefreshSpark ==
  /\ Changes /\ sparkAt' = Append(sparkAt, now)
  /\ UNCHANGED <<cards, view, viewNo, answers, prices, reader, chain, cleanAt, now>>

Drops == answers' = [q \in Queries |-> Empty]
DropsSome == \E kept \in SUBSET Queries :
  answers' = [q \in Queries |-> IF q \in kept THEN answers[q] ELSE Empty]
Refreshes == view' = cards /\ viewNo' = viewNo + 1

(* Mutant: the pipelines drop the cached searches first.                   *)
ChainDropsFirst ==
  \/ chain = "idle" /\ Changes /\ chain' = "first" /\ Drops /\ UNCHANGED <<view, viewNo, cleanAt>>
  \/ /\ chain = "first" /\ chain' = "idle" /\ Refreshes
     /\ cleanAt' = Append(cleanAt, viewNo') /\ UNCHANGED <<answers, turns>>

(* Pipelines refresh the views and, in the next task, drop the searches.   *)
(* The task may be lost with its worker, or the cache stop answering while *)
(* the keys are scanned: some are not dropped and the pipeline goes on.    *)
ChainSteps ==
  \/ chain = "idle" /\ Changes /\ chain' = "first" /\ Refreshes /\ UNCHANGED <<answers, cleanAt>>
  \/ /\ chain = "first" /\ chain' = "idle"
     /\ \/ Drops /\ cleanAt' = Append(cleanAt, viewNo)
        \/ DropsSome /\ UNCHANGED cleanAt
     /\ UNCHANGED <<view, viewNo, turns>>

Pipeline ==
  /\ ChainSteps
  /\ UNCHANGED <<cards, sparkAt, prices, reader, now>>

(* A request does not last a tick: statements time out after a minute.     *)
Tick ==
  /\ now < MaxTime /\ \A r \in Readers : At(r, "idle")
  /\ now' = now + 1
  /\ answers' = [q \in Queries |-> IF answers[q].until > now + 1 THEN answers[q] ELSE Empty]
  /\ prices' = [v \in Prints |-> IF prices[v].until > now + 1 THEN prices[v] ELSE NoPrice]
  /\ UNCHANGED <<cards, view, viewNo, sparkAt, reader, chain, cleanAt, turns>>

SearchNext ==
  \/ \E r \in Readers :
       \/ Ask(r) \/ ReadPage(r) \/ ReadPrices(r) \/ KeepPrices(r)
       \/ Count(r) \/ Save(r) \/ Leave(r)
  \/ \E v \in Prints : DeleteCard(v)
  \/ AddCards \/ RefreshSpark \/ Pipeline \/ Tick

SearchSpec == SearchInit /\ [][SearchNext]_searchVars

-----------------------------------------------------------------------------
(* Every variable has its type.                                            *)
SearchTypeOK ==
  /\ cards \subseteq Prints /\ view \subseteq Prints /\ viewNo \in Nat
  /\ \A q \in Queries : answers[q].page \subseteq Prints /\ answers[q].total \in Nat
  /\ \A v \in Prints : prices[v].spark \in 0 .. Len(sparkAt)
  /\ \A r \in Readers : reader[r].at \in {"idle", "read", "prices", "keep", "count", "save", "answered"}
  /\ chain \in {"idle", "first"} /\ now \in 0 .. MaxTime /\ turns \in 0 .. MaxTurns

(* When a pipeline has refreshed the view and dropped the cached searches, *)
(* no older page is found in the cache, but that of a search which was     *)
(* under way meanwhile: one that was saved before is gone, and one that    *)
(* begins later reads the new view.                                        *)
DroppedPagesStayAway ==
  \A q \in Queries : answers[q].kind # Unset =>
    /\ answers[q].view >= cleanAt[answers[q].began]
    /\ answers[q].saved < Len(cleanAt) => answers[q].view >= cleanAt[Len(cleanAt)]

(* A price in an answer has not been replaced longer than both caches keep *)
(* it, however often the cards are looked at meanwhile.                    *)
ReplacedFor(no) == IF no < Len(sparkAt) THEN now - sparkAt[no + 1] ELSE 0
OldPricesExpire ==
  \A r \in Readers : At(r, "answered") =>
    \A s \in reader[r].answer.shown : ReplacedFor(s[2]) < SparkTtl + Ttl[reader[r].answer.kind]

(* Neither a page of cards nor a price in it outlives its caches.          *)
PagesAreCurrent == DroppedPagesStayAway /\ OldPricesExpire

(* Whoever picks one of the facets that an answer offers finds a card.     *)
FacetsFindCards ==
  \A q \in Queries : q.kind = "search" =>
    \A f \in Facets(q) : \/ Matches([q EXCEPT !.promo = {f}]) # {}
                         \/ f \in DOMAIN Containing /\ Matches([q EXCEPT !.rarity = f]) # {}
=============================================================================
