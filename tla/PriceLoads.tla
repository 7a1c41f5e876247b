----------------------------- MODULE PriceLoads -----------------------------
(***************************************************************************)
(* The loads of list prices from Scryfall and from Open TCG.  Each is one  *)
(* transaction over many batches; a batch resolves the identifiers of its  *)
(* rows, links the cards that have no product yet, reads the products that *)
(* another load has linked meanwhile, and upserts the observations.  The   *)
(* worker and an operator may run two loads at once.                       *)
(***************************************************************************)
EXTENDS Integers, FiniteSets, Sequences

CONSTANTS
  Loads,      \* processes that load
  Ids,        \* identifiers of cards on the sites
  CardsOf,    \* per identifier: the card versions that have it
  Skus,       \* conditions, finishes and languages a price is for
  Batches,    \* per load: its batches, sets of rows [id, sku, n]
  MaxRuns,    \* bound: loads that start
  MaxFailures \* bound: loads that raise

Cards == UNION {CardsOf[i] : i \in Ids}
NoProduct == 0
Offers == [id : Ids, sku : Skus, n : Nat]

ASSUME LoadsAssumption ==
  /\ MaxRuns \in Nat /\ MaxFailures \in Nat
  /\ IsFiniteSet(Cards) /\ "none" \notin Cards
  /\ \A l \in Loads : Batches[l] # <<>> /\ Batches[l] \in Seq(SUBSET Offers)

VARIABLES
  link,       \* mtg_card_products: the product of each card
  created,    \* product_ref: the last product id
  load,       \* per process: its step, batch, lookup and what it has not committed
  filed,      \* price_observation
  loaded,     \* history: rows of the batches of loads that were committed
  runs, failed

loadsVars == <<link, created, load, filed, loaded, runs, failed>>

Unknown == [card |-> "none", product |-> NoProduct]
IdleLoad == [at |-> "idle", batch |-> 1, meta |-> [i \in Ids |-> Unknown],
             links |-> {}, rows |-> {}]

LoadsInit ==
  /\ link = [c \in Cards |-> NoProduct] /\ created = 0
  /\ load = [l \in Loads |-> IdleLoad]
  /\ filed = {} /\ loaded = {} /\ runs = 0 /\ failed = 0

Batch(l) == Batches[l][load[l].batch]
RowIds(l) == {row.id : row \in Batch(l)}

(* what the statements of a load see: what is committed and its own links  *)
ProductOf(l, card) ==
  IF \E k \in load[l].links : k.card = card
  THEN (CHOOSE k \in load[l].links : k.card = card).product ELSE link[card]

StartLoad(l) ==
  /\ load[l].at = "idle" /\ runs < MaxRuns
  /\ runs' = runs + 1
  /\ load' = [load EXCEPT ![l].at = "resolve"]
  /\ UNCHANGED <<link, created, filed, loaded, failed>>

(* Step 1: of the versions that share an identifier, the last read is kept.*)
Resolve(l) ==
  /\ load[l].at = "resolve"
  /\ \E card \in [RowIds(l) -> Cards \cup {"none"}] :
       /\ \A i \in RowIds(l) : IF CardsOf[i] = {} THEN card[i] = "none" ELSE card[i] \in CardsOf[i]
       /\ load' = [load EXCEPT ![l].at = "link",
            ![l].meta = [i \in Ids |->
              IF i \in RowIds(l) /\ card[i] # "none"
              THEN [card |-> card[i], product |-> ProductOf(l, card[i])] ELSE Unknown]]
  /\ UNCHANGED <<link, created, filed, loaded, runs, failed>>

Unlinked(l) == {load[l].meta[i].card : i \in {j \in Ids :
  load[l].meta[j].card # "none" /\ load[l].meta[j].product = NoProduct}}

(* Step 2: ON CONFLICT DO NOTHING waits for the load that links the same   *)
(* card, and returns only what it inserted.                                *)
Waits(l) == \E other \in Loads \ {l} : \E k \in load[other].links : k.card \in Unlinked(l)

(* Mutant: a product is generated for every card that had none when read.  *)
GeneratesForAll(l) == Unlinked(l)

Generates(l) == {c \in Unlinked(l) : ProductOf(l, c) = NoProduct}

(* every order of the generated ids over the cards *)
Numberings(cards) == {f \in [cards -> created + 1 .. created + Cardinality(cards)] :
                        \A c, d \in cards : f[c] = f[d] => c = d}

LinkCards(l) ==
  /\ load[l].at = "link" /\ ~Waits(l)
  /\ created' = created + Cardinality(Generates(l))
  /\ \E product \in Numberings(Generates(l)) :
       load' = [load EXCEPT ![l].at = "reread",
         ![l].links = @ \cup {[card |-> c, product |-> product[c]] : c \in Generates(l)},
         ![l].meta = [i \in Ids |-> LET entry == load[l].meta[i] IN
           IF entry.product = NoProduct /\ entry.card \in Generates(l)
           THEN [entry EXCEPT !.product = product[entry.card]] ELSE entry]]
  /\ UNCHANGED <<link, filed, loaded, runs, failed>>

Fetched(l, entry) ==
  IF entry.card # "none" /\ entry.product = NoProduct THEN ProductOf(l, entry.card) ELSE entry.product

Reread(l) ==
  /\ load[l].at = "reread"
  /\ load' = [load EXCEPT ![l].at = "upsert",
       ![l].meta = [i \in Ids |->
         [load[l].meta[i] EXCEPT !.product = Fetched(l, load[l].meta[i])]]]
  /\ UNCHANGED <<link, created, filed, loaded, runs, failed>>

(* Steps 3 to 5: the rows whose identifier has a product.                  *)
Observations(l) ==
  {[card |-> load[l].meta[row.id].card, product |-> load[l].meta[row.id].product,
    sku |-> row.sku, id |-> row.id, n |-> row.n] :
     row \in {r \in Batch(l) : load[l].meta[r.id].product # NoProduct}}

(* one statement cannot update a row twice *)
Twice(rows) == \E r, s \in rows : r # s /\ r.product = s.product /\ r.sku = s.sku

UpsertBatch(l) ==
  /\ load[l].at = "upsert" /\ ~Twice(Observations(l))
  /\ load' = [load EXCEPT ![l].rows = @ \cup Observations(l),
       ![l].at = IF load[l].batch < Len(Batches[l]) THEN "resolve" ELSE "commit",
       ![l].batch = IF @ < Len(Batches[l]) THEN @ + 1 ELSE @]
  /\ UNCHANGED <<link, created, filed, loaded, runs, failed>>

CommitLoad(l) ==
  /\ load[l].at = "commit"
  /\ link' = [c \in Cards |-> ProductOf(l, c)]
  /\ filed' = filed \cup
       {[card |-> r.card, product |-> r.product, sku |-> r.sku, by |-> l] : r \in load[l].rows}
  /\ loaded' = loaded \cup UNION {{<<l, row>> : row \in Batches[l][b]} : b \in DOMAIN Batches[l]}
  /\ load' = [load EXCEPT ![l] = IdleLoad]
  /\ UNCHANGED <<created, runs, failed>>

(* Two loads that wait for each other, a row twice in a statement or any   *)
(* other error: everything the load has done is rolled back.               *)
Deadlocked(l) ==
  /\ load[l].at = "link" /\ Waits(l)
  /\ \E other \in Loads \ {l} : load[other].at = "link" /\ Waits(other)

LoadFails(l) ==
  /\ \/ Deadlocked(l) /\ UNCHANGED failed
     \/ load[l].at = "upsert" /\ Twice(Observations(l)) /\ UNCHANGED failed
     \/ load[l].at # "idle" /\ failed < MaxFailures /\ failed' = failed + 1
  /\ load' = [load EXCEPT ![l] = IdleLoad]
  /\ UNCHANGED <<link, created, filed, loaded, runs>>

LoadsNext ==
  \E l \in Loads :
    \/ StartLoad(l) \/ Resolve(l) \/ LinkCards(l) \/ Reread(l) \/ UpsertBatch(l)
    \/ CommitLoad(l) \/ LoadFails(l)

LoadsSpec == LoadsInit /\ [][LoadsNext]_loadsVars

-----------------------------------------------------------------------------
(* Every variable has its type.                                            *)
Entries == [card : Cards \cup {"none"}, product : Nat]
LoadsTypeOK ==
  /\ link \in [Cards -> Nat] /\ created \in Nat
  /\ \A l \in Loads :
       /\ load[l].at \in {"idle", "resolve", "link", "reread", "upsert", "commit"}
       /\ load[l].batch \in DOMAIN Batches[l] /\ load[l].meta \in [Ids -> Entries]
       /\ load[l].links \subseteq Entries
  /\ \A o \in filed : o.card \in Cards /\ o.product \in 1 .. created
  /\ runs \in 0 .. MaxRuns /\ failed \in 0 .. MaxFailures

(* A price is filed under the product of its card, although the products   *)
(* of a card may be generated by two loads at once, one of which is rolled *)
(* back, and the loser's id is never linked.                               *)
FiledUnderItsCard == \A o \in filed : link[o.card] = o.product

(* A load that is committed has stored every row whose identifier is known,*)
(* also those of cards that another load linked after this one looked.     *)
KnownRowsAreStored ==
  \A entry \in loaded :
    CardsOf[entry[2].id] # {} =>
      \E o \in filed : /\ o.by = entry[1] /\ o.sku = entry[2].sku
                          /\ o.card \in CardsOf[entry[2].id]

(* A load files each price under the product of its card, and all it knows. *)
LoadedIsFiled == FiledUnderItsCard /\ KnownRowsAreStored
=============================================================================
