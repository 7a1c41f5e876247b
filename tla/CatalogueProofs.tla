---------------------------- MODULE CatalogueProofs ----------------------------
(* Theorems about what the catalogue loads, for any instance: the loads of list *)
(* prices, the promotion of MTGJSON prices, the matches of PriceCharting; in    *)
(* any interleaving, each of their steps failed or rolled back.  At the end     *)
(* the types of all parts of the catalogue together.                            *)
EXTENDS MCCatalogue, SearchProofs, FiniteSetTheorems, SequenceTheorems,
        WellFoundedInduction, TLAPS

(* What the statements of a load see, given its own links and what is linked.  *)
Prod(links, linked, c) ==
  IF \E k \in links : k.card = c
  THEN (CHOOSE k \in links : k.card = c).product ELSE linked[c]

Positive == Nat \ {0}
Links == [card : Cards, product : Positive]
Stored == [card : Cards, product : Positive, sku : Skus, id : Ids, n : Nat]
LoadStates ==
  [at : {"idle", "resolve", "link", "reread", "upsert", "commit"}, batch : Nat,
   meta : [Ids -> Entries], links : SUBSET Links, rows : SUBSET Stored]

LoadTypes ==
  /\ link \in [Cards -> Nat] /\ created \in Nat
  /\ load \in [Loads -> LoadStates] /\ \A l \in Loads : load[l].batch \in DOMAIN Batches[l]
  /\ filed \subseteq [card : Cards, product : Positive, sku : Skus, by : Loads]
  /\ runs \in 0 .. MaxRuns /\ failed \in 0 .. MaxFailures

NumberInv ==
  /\ \A c \in Cards : link[c] <= created
  /\ \A l \in Loads : \A k \in load[l].links : k.product <= created

(* A card that a load has linked and not committed has no product, and no      *)
(* other link, of this load or another.                                        *)
LinkInv ==
  \A l \in Loads : \A k \in load[l].links :
    /\ link[k.card] = NoProduct
    /\ \A m \in Loads : \A j \in load[m].links : j.card = k.card => m = l /\ j = k

(* A product that a load has looked up, or filed a row under, is still the one *)
(* it sees.  When it has read again, every card it knows has one.              *)
IdsOf(l, b) == {row.id : row \in Batches[l][b]}

MetaOf(l, s, linked) ==
  /\ \A i \in Ids :
       /\ s.meta[i].product # NoProduct =>
            /\ s.meta[i].card \in Cards
            /\ Prod(s.links, linked, s.meta[i].card) = s.meta[i].product
       /\ s.at = "reread" /\ s.meta[i].card # "none" =>
            Prod(s.links, linked, s.meta[i].card) # NoProduct
       /\ s.at = "upsert" /\ s.meta[i].card # "none" => s.meta[i].product # NoProduct
       /\ s.at \in {"link", "reread", "upsert"} /\ i \in IdsOf(l, s.batch) /\ CardsOf[i] # {} =>
            s.meta[i].card \in CardsOf[i]
  /\ \A r \in s.rows : Prod(s.links, linked, r.card) = r.product

HasRow(rows, row) == \E r \in rows : r.sku = row.sku /\ r.card \in CardsOf[row.id]

(* The batches behind a load are in its rows, all of them when it commits.     *)
DoneOf(l, s) ==
  \A b \in DOMAIN Batches[l] : b < s.batch \/ s.at = "commit" =>
    \A row \in Batches[l][b] : CardsOf[row.id] # {} => HasRow(s.rows, row)

LoadInv ==
  /\ LoadTypes /\ NumberInv /\ LinkInv /\ \A l \in Loads : MetaOf(l, load[l], link) /\ DoneOf(l, load[l])
  /\ FiledUnderItsCard /\ KnownRowsAreStored

-----------------------------------------------------------------------------
LEMMA ProdIs ==
  ASSUME NEW links, NEW linked, NEW c, \A j, k \in links : j.card = k.card => j = k
  PROVE  /\ \A k \in links : k.card = c => Prod(links, linked, c) = k.product
         /\ (\A k \in links : k.card # c) => Prod(links, linked, c) = linked[c]
<1>1. ASSUME NEW k \in links, k.card = c PROVE Prod(links, linked, c) = k.product
  <2>1. (CHOOSE j \in links : j.card = c) \in links /\ (CHOOSE j \in links : j.card = c).card = c
    BY <1>1
  <2>2. (CHOOSE j \in links : j.card = c) = k
    BY <1>1, <2>1
  <2>3. QED
    BY <1>1, <2>2 DEF Prod
<1>2. QED
  BY <1>1 DEF Prod

(* The product a load sees of a card: its own link, or the one committed.      *)
LEMMA ProductIs ==
  ASSUME LoadTypes, LinkInv, NEW l \in Loads, NEW c \in Cards
  PROVE  /\ ProductOf(l, c) = Prod(load[l].links, link, c)
         /\ \A k \in load[l].links : k.card = c => ProductOf(l, c) = k.product
         /\ (\A k \in load[l].links : k.card # c) => ProductOf(l, c) = link[c]
         /\ ProductOf(l, c) \in Nat
<1>1. ProductOf(l, c) = Prod(load[l].links, link, c)
  BY DEF ProductOf, Prod
<1>2. \A j, k \in load[l].links : j.card = k.card => j = k
  BY DEF LinkInv
<1>3. /\ \A k \in load[l].links : k.card = c => ProductOf(l, c) = k.product
      /\ (\A k \in load[l].links : k.card # c) => ProductOf(l, c) = link[c]
  BY <1>1, <1>2, ProdIs
<1>4. link[c] \in Nat /\ \A k \in load[l].links : k.product \in Nat
  <2>1. load[l].links \subseteq Links
    BY DEF LoadTypes, LoadStates
  <2>2. QED
    BY <2>1 DEF LoadTypes, Links, Positive
<1>5. ProductOf(l, c) \in Nat
  BY <1>3, <1>4
<1>6. QED
  BY <1>1, <1>3, <1>5

(* A step of one load that touches neither links nor what is filed.            *)
LEMMA QuietKeeps ==
  ASSUME LoadInv, NEW p \in Loads, NEW s \in LoadStates, load' = [load EXCEPT ![p] = s],
         UNCHANGED <<link, created, filed, loaded>>,
         s.links = load[p].links, s.batch \in DOMAIN Batches[p],
         runs' \in 0 .. MaxRuns, failed' \in 0 .. MaxFailures,
         MetaOf(p, s, link), DoneOf(p, s)
  PROVE  LoadInv'
<1>1. load \in [Loads -> LoadStates]
  BY DEF LoadInv, LoadTypes
<1>2. load'[p] = s /\ \A l \in Loads : l # p => load'[l] = load[l]
  BY <1>1
<1>3. \A l \in Loads : load'[l].links = load[l].links
  BY <1>2
<1>4. LoadTypes'
  <2>1. load' \in [Loads -> LoadStates]
    BY <1>1
  <2>2. \A l \in Loads : load'[l].batch \in DOMAIN Batches[l]
    BY <1>2 DEF LoadInv, LoadTypes
  <2>3. QED
    BY <2>1, <2>2 DEF LoadInv, LoadTypes
<1>5. NumberInv'
  BY <1>3 DEF LoadInv, NumberInv
<1>6. LinkInv'
  BY <1>3 DEF LoadInv, LinkInv
<1>7. \A l \in Loads : MetaOf(l, load'[l], link') /\ DoneOf(l, load'[l])
  BY <1>2 DEF LoadInv
<1>8. FiledUnderItsCard' /\ KnownRowsAreStored'
  BY DEF LoadInv, FiledUnderItsCard, KnownRowsAreStored
<1>9. QED
  BY <1>4, <1>5, <1>6, <1>7, <1>8 DEF LoadInv, MetaOf, DoneOf

LEMMA StateOf ==
  ASSUME LoadInv, NEW p \in Loads
  PROVE  /\ load[p] \in LoadStates /\ load[p].meta \in [Ids -> Entries]
         /\ load[p].links \subseteq Links /\ load[p].rows \subseteq Stored
         /\ load[p].batch \in Nat /\ load[p].batch \in DOMAIN Batches[p]
         /\ Batch(p) \subseteq Offers /\ RowIds(p) \subseteq Ids
         /\ RowIds(p) = IdsOf(p, load[p].batch)
         /\ MetaOf(p, load[p], link) /\ DoneOf(p, load[p])
<1>1. load[p] \in LoadStates /\ load[p].batch \in DOMAIN Batches[p]
  BY DEF LoadInv, LoadTypes
<1>2. Batch(p) \subseteq Offers
  <2>1. Batches[p] \in Seq(SUBSET Offers)
    BY LoadsAssumption
  <2>2. QED
    BY <1>1, <2>1 DEF Batch
<1>3. RowIds(p) \subseteq Ids /\ RowIds(p) = IdsOf(p, load[p].batch)
  BY <1>2 DEF RowIds, IdsOf, Batch, Offers
<1>4. QED
  BY <1>1, <1>2, <1>3 DEF LoadStates, LoadInv

(* A load that is idle knows nothing.                                          *)
LEMMA IdleKnowsNothing ==
  /\ IdleLoad \in LoadStates /\ IdleLoad.links = {}
  /\ \A p \in Loads : \A linked :
       IdleLoad.batch \in DOMAIN Batches[p] /\ MetaOf(p, IdleLoad, linked) /\ DoneOf(p, IdleLoad)
<1>1. [i \in Ids |-> Unknown] \in [Ids -> Entries]
  BY DEF Unknown, Entries, NoProduct
<1>2. IdleLoad \in LoadStates
  BY <1>1 DEF IdleLoad, LoadStates
<1>3. /\ IdleLoad.links = {} /\ IdleLoad.rows = {} /\ IdleLoad.at = "idle" /\ IdleLoad.batch = 1
      /\ \A i \in Ids : IdleLoad.meta[i].product = NoProduct
  BY DEF IdleLoad, Unknown
<1>4. ASSUME NEW p \in Loads, NEW linked
      PROVE IdleLoad.batch \in DOMAIN Batches[p] /\ MetaOf(p, IdleLoad, linked) /\ DoneOf(p, IdleLoad)
  <2>1. 1 \in DOMAIN Batches[p] /\ \A b \in DOMAIN Batches[p] : ~(b < 1)
    BY LoadsAssumption
  <2>2. MetaOf(p, IdleLoad, linked)
    BY <1>3 DEF MetaOf
  <2>3. DoneOf(p, IdleLoad)
    BY <1>3, <2>1 DEF DoneOf
  <2>4. QED
    BY <1>3, <2>1, <2>2, <2>3
<1>5. QED
  BY <1>2, <1>3, <1>4

LEMMA LoadStarts ==
  ASSUME LoadInv, NEW p \in Loads, StartLoad(p)
  PROVE  LoadInv'
<1> DEFINE s == [load[p] EXCEPT !.at = "resolve"]
<1>1. /\ load[p] \in LoadStates /\ load[p].batch \in DOMAIN Batches[p] /\ load[p].at = "idle"
      /\ MetaOf(p, load[p], link) /\ DoneOf(p, load[p])
  BY StateOf DEF StartLoad
<1>2. /\ s \in LoadStates /\ s.links = load[p].links /\ s.batch = load[p].batch
      /\ s.meta = load[p].meta /\ s.rows = load[p].rows /\ s.at = "resolve"
  BY <1>1 DEF LoadStates
<1>3. load' = [load EXCEPT ![p] = s]
  BY DEF StartLoad
<1> HIDE DEF s
<1>4. MetaOf(p, s, link)
  BY <1>1, <1>2 DEF MetaOf
<1>5. DoneOf(p, s)
  BY <1>1, <1>2 DEF DoneOf
<1>6. runs' \in 0 .. MaxRuns /\ failed' \in 0 .. MaxFailures
  BY LoadsAssumption DEF LoadInv, LoadTypes, StartLoad
<1>7. UNCHANGED <<link, created, filed, loaded>>
  BY DEF StartLoad
<1>8. QED
  BY <1>1, <1>2, <1>3, <1>4, <1>5, <1>6, <1>7, QuietKeeps

LEMMA ResolveKeeps ==
  ASSUME LoadInv, NEW p \in Loads, Resolve(p)
  PROVE  LoadInv'
<1> DEFINE sees(c) == Prod(load[p].links, link, c)
<1>1. PICK card \in [RowIds(p) -> Cards \cup {"none"}] :
        /\ \A i \in RowIds(p) : IF CardsOf[i] = {} THEN card[i] = "none" ELSE card[i] \in CardsOf[i]
        /\ load' = [load EXCEPT ![p].at = "link",
             ![p].meta = [i \in Ids |->
               IF i \in RowIds(p) /\ card[i] # "none"
               THEN [card |-> card[i], product |-> ProductOf(p, card[i])] ELSE Unknown]]
  BY DEF Resolve
<1> DEFINE known(i) == i \in RowIds(p) /\ card[i] # "none"
           meta == [i \in Ids |->
             IF known(i) THEN [card |-> card[i], product |-> ProductOf(p, card[i])] ELSE Unknown]
           s == [load[p] EXCEPT !.at = "link", !.meta = meta]
<1>2. /\ load[p] \in LoadStates /\ load[p].batch \in DOMAIN Batches[p] /\ RowIds(p) \subseteq Ids
      /\ load[p].at = "resolve" /\ RowIds(p) = IdsOf(p, load[p].batch)
      /\ MetaOf(p, load[p], link) /\ DoneOf(p, load[p])
  BY StateOf DEF Resolve
<1>3. \A i \in Ids : known(i) => card[i] \in Cards /\ ProductOf(p, card[i]) \in Nat
                                /\ ProductOf(p, card[i]) = sees(card[i])
  BY <1>1, ProductIs DEF LoadInv
<1> HIDE DEF sees
<1>4. /\ meta \in [Ids -> Entries]
      /\ \A i \in Ids : known(i) => meta[i].card = card[i] /\ meta[i].product = sees(card[i])
      /\ \A i \in Ids : ~known(i) => meta[i].card = "none" /\ meta[i].product = NoProduct
  BY <1>3 DEF Entries, Unknown, NoProduct
<1>5. load' = [load EXCEPT ![p] = s]
  BY <1>1
<1> HIDE DEF meta
<1>6. /\ s \in LoadStates /\ s.links = load[p].links /\ s.batch = load[p].batch
      /\ s.meta = meta /\ s.rows = load[p].rows /\ s.at = "link"
  BY <1>2, <1>4 DEF LoadStates
<1> HIDE DEF s
<1>7. \A i \in RowIds(p) : CardsOf[i] # {} => known(i) /\ card[i] \in CardsOf[i]
  <2>1. \A j \in Ids : "none" \notin CardsOf[j]
    BY LoadsAssumption DEF Cards
  <2>2. QED
    BY <1>1, <1>2, <2>1
<1>8. MetaOf(p, s, link)
  <2>1. \A r \in s.rows : Prod(s.links, link, r.card) = r.product
    BY <1>2, <1>6 DEF MetaOf
  <2>2. ASSUME NEW i \in Ids
        PROVE  /\ s.meta[i].product # NoProduct =>
                    s.meta[i].card \in Cards /\ sees(s.meta[i].card) = s.meta[i].product
               /\ i \in RowIds(p) /\ CardsOf[i] # {} => s.meta[i].card \in CardsOf[i]
    <3>1. CASE known(i)
      BY <1>3, <1>4, <1>6, <1>7, <3>1
    <3>2. CASE ~known(i)
      BY <1>4, <1>6, <1>7, <3>2
    <3>3. QED
      BY <3>1, <3>2
  <2>3. QED
    BY <1>2, <1>6, <2>1, <2>2 DEF MetaOf, sees
<1>9. DoneOf(p, s)
  BY <1>2, <1>6 DEF DoneOf
<1>10. UNCHANGED <<link, created, filed, loaded, runs, failed>>
  BY DEF Resolve
<1>11. runs' \in 0 .. MaxRuns /\ failed' \in 0 .. MaxFailures
  BY <1>10 DEF LoadInv, LoadTypes
<1>12. QED
  BY <1>2, <1>5, <1>6, <1>8, <1>9, <1>10, <1>11, QuietKeeps

LEMMA RereadKeeps ==
  ASSUME LoadInv, NEW p \in Loads, Reread(p)
  PROVE  LoadInv'
<1> DEFINE sees(c) == Prod(load[p].links, link, c)
           old == load[p].meta
           meta == [i \in Ids |-> [old[i] EXCEPT !.product = Fetched(p, old[i])]]
           s == [load[p] EXCEPT !.at = "upsert", !.meta = meta]
<1>1. /\ load[p] \in LoadStates /\ load[p].batch \in DOMAIN Batches[p]
      /\ old \in [Ids -> Entries] /\ load[p].at = "reread"
      /\ MetaOf(p, load[p], link) /\ DoneOf(p, load[p])
  BY StateOf DEF Reread
<1>2. \A i \in Ids : old[i] \in Entries /\ (old[i].card # "none" => old[i].card \in Cards)
  BY <1>1 DEF Entries
<1>3. ASSUME NEW i \in Ids
      PROVE  /\ Fetched(p, old[i]) \in Nat
             /\ Fetched(p, old[i]) # NoProduct =>
                   old[i].card \in Cards /\ Fetched(p, old[i]) = sees(old[i].card)
             /\ old[i].card # "none" => Fetched(p, old[i]) # NoProduct
  <2>1. /\ old[i].product # NoProduct =>
             old[i].card \in Cards /\ sees(old[i].card) = old[i].product
        /\ old[i].card # "none" => sees(old[i].card) # NoProduct
    BY <1>1 DEF MetaOf
  <2>2. CASE old[i].card # "none" /\ old[i].product = NoProduct
    <3>1. old[i].card \in Cards /\ Fetched(p, old[i]) = ProductOf(p, old[i].card)
      BY <1>2, <2>2 DEF Fetched
    <3>2. Fetched(p, old[i]) = sees(old[i].card) /\ Fetched(p, old[i]) \in Nat
      BY <3>1, ProductIs DEF LoadInv
    <3> HIDE DEF sees
    <3>3. QED
      BY <2>1, <2>2, <3>1, <3>2
  <2>3. CASE ~(old[i].card # "none" /\ old[i].product = NoProduct)
    <3>1. Fetched(p, old[i]) = old[i].product /\ old[i].product \in Nat
      BY <1>2, <2>3 DEF Fetched, Entries
    <3> HIDE DEF sees
    <3>2. QED
      BY <2>1, <2>3, <3>1
  <2>4. QED
    BY <2>2, <2>3
<1>4. /\ meta \in [Ids -> Entries]
      /\ \A i \in Ids : meta[i].card = old[i].card /\ meta[i].product = Fetched(p, old[i])
  BY <1>2, <1>3 DEF Entries
<1>5. load' = [load EXCEPT ![p] = s]
  BY DEF Reread
<1> HIDE DEF meta
<1>6. /\ s \in LoadStates /\ s.links = load[p].links /\ s.batch = load[p].batch
      /\ s.meta = meta /\ s.rows = load[p].rows /\ s.at = "upsert"
  BY <1>1, <1>4 DEF LoadStates
<1> HIDE DEF s
<1>7. MetaOf(p, s, link)
  <2>1. \A r \in s.rows : Prod(s.links, link, r.card) = r.product
    BY <1>1, <1>6 DEF MetaOf
  <2>2. \A i \in Ids : i \in IdsOf(p, s.batch) /\ CardsOf[i] # {} => s.meta[i].card \in CardsOf[i]
    BY <1>1, <1>4, <1>6 DEF MetaOf
  <2>3. \A i \in Ids :
          /\ s.meta[i].product # NoProduct =>
               s.meta[i].card \in Cards /\ Prod(s.links, link, s.meta[i].card) = s.meta[i].product
          /\ s.meta[i].card # "none" => s.meta[i].product # NoProduct
    BY <1>3, <1>4, <1>6
  <2>4. QED
    BY <1>6, <2>1, <2>2, <2>3 DEF MetaOf
<1>8. DoneOf(p, s)
  BY <1>1, <1>6 DEF DoneOf
<1>9. UNCHANGED <<link, created, filed, loaded, runs, failed>>
  BY DEF Reread
<1>10. runs' \in 0 .. MaxRuns /\ failed' \in 0 .. MaxFailures
  BY <1>9 DEF LoadInv, LoadTypes
<1>11. QED
  BY <1>1, <1>5, <1>6, <1>7, <1>8, <1>9, <1>10, QuietKeeps

LEMMA UpsertKeeps ==
  ASSUME LoadInv, NEW p \in Loads, UpsertBatch(p)
  PROVE  LoadInv'
<1> DEFINE here == load[p].batch
           more == here < Len(Batches[p])
           priced == Observations(p)
           at == IF more THEN "resolve" ELSE "commit"
           batch == IF more THEN here + 1 ELSE here
           rows == load[p].rows \cup priced
           s == [load[p] EXCEPT !.rows = rows, !.at = at, !.batch = batch]
<1>1. /\ load[p] \in LoadStates /\ here \in DOMAIN Batches[p] /\ here \in Nat
      /\ load[p].meta \in [Ids -> Entries] /\ load[p].rows \subseteq Stored
      /\ load[p].at = "upsert" /\ Batch(p) \subseteq Offers
      /\ MetaOf(p, load[p], link) /\ DoneOf(p, load[p])
  BY StateOf DEF UpsertBatch
<1>2. /\ DOMAIN Batches[p] = 1 .. Len(Batches[p]) /\ Len(Batches[p]) \in Nat
      /\ Batch(p) = Batches[p][here] /\ RowIds(p) = IdsOf(p, here)
  BY LoadsAssumption, StateOf DEF Batch
<1>3. ASSUME NEW o \in priced
      PROVE  o \in Stored /\ Prod(load[p].links, link, o.card) = o.product
  <2>1. PICK row \in Batch(p) :
          /\ load[p].meta[row.id].product # NoProduct
          /\ o = [card |-> load[p].meta[row.id].card, product |-> load[p].meta[row.id].product,
                  sku |-> row.sku, id |-> row.id, n |-> row.n]
    BY <1>3 DEF Observations
  <2>2. row \in Offers /\ row.id \in Ids
    BY <1>1, <2>1 DEF Offers
  <2>3. /\ load[p].meta[row.id].card \in Cards
        /\ Prod(load[p].links, link, load[p].meta[row.id].card) = load[p].meta[row.id].product
    BY <1>1, <2>1, <2>2 DEF MetaOf
  <2>4. load[p].meta[row.id].product \in Positive
    BY <1>1, <2>1, <2>2 DEF Entries, Positive, NoProduct
  <2>5. QED
    BY <2>1, <2>2, <2>3, <2>4 DEF Stored, Offers
<1>4. ASSUME NEW row \in Batch(p), CardsOf[row.id] # {} PROVE HasRow(priced, row)
  <2> DEFINE entry == load[p].meta[row.id]
             o == [card |-> entry.card, product |-> entry.product,
                   sku |-> row.sku, id |-> row.id, n |-> row.n]
  <2>1. row.id \in Ids /\ row.id \in IdsOf(p, here)
    BY <1>1, <1>2 DEF IdsOf, Offers
  <2>2. entry.card \in CardsOf[row.id]
    BY <1>1, <1>4, <2>1 DEF MetaOf
  <2>3. entry.card # "none"
    BY <2>1, <2>2, LoadsAssumption DEF Cards
  <2>4. entry.product # NoProduct
    BY <1>1, <2>1, <2>3 DEF MetaOf
  <2>5. o \in priced
    BY <2>4 DEF Observations
  <2>6. o.sku = row.sku /\ o.card \in CardsOf[row.id]
    BY <2>2
  <2>7. QED
    BY <2>5, <2>6 DEF HasRow
<1>5. load' = [load EXCEPT ![p] = s]
  BY DEF UpsertBatch
<1> HIDE DEF priced
<1>6. /\ s.links = load[p].links /\ s.meta = load[p].meta /\ s.rows = load[p].rows \cup priced
      /\ s.at = (IF more THEN "resolve" ELSE "commit") /\ s.batch = (IF more THEN here + 1 ELSE here)
  BY <1>1 DEF LoadStates
<1>7. s \in LoadStates
  <2>1. rows \subseteq Stored
    BY <1>1, <1>3
  <2>2. at \in {"resolve", "commit"} /\ batch \in Nat
    BY <1>1
  <2> HIDE DEF rows, at, batch
  <2>3. QED
    BY <1>1, <2>1, <2>2 DEF LoadStates
<1> HIDE DEF s
<1>8. s.batch \in DOMAIN Batches[p]
  BY <1>1, <1>2, <1>6
<1>9. MetaOf(p, s, link)
  <2>1. \A r \in s.rows : Prod(s.links, link, r.card) = r.product
    BY <1>1, <1>3, <1>6 DEF MetaOf
  <2>2. s.at \notin {"link", "reread", "upsert"}
    BY <1>6
  <2>3. QED
    BY <1>1, <1>6, <2>1, <2>2 DEF MetaOf
<1>10. DoneOf(p, s)
  <2> SUFFICES ASSUME NEW b \in DOMAIN Batches[p], b < s.batch \/ s.at = "commit",
                      NEW row \in Batches[p][b], CardsOf[row.id] # {}
               PROVE  HasRow(s.rows, row)
    BY DEF DoneOf
  <2>1. b < here \/ b = here
    BY <1>1, <1>2, <1>6
  <2>2. CASE b < here
    BY <1>1, <1>6, <2>2 DEF DoneOf, HasRow
  <2>3. CASE b = here
    BY <1>2, <1>4, <1>6, <2>3 DEF HasRow
  <2>4. QED
    BY <2>1, <2>2, <2>3
<1>11. UNCHANGED <<link, created, filed, loaded, runs, failed>>
  BY DEF UpsertBatch
<1>12. runs' \in 0 .. MaxRuns /\ failed' \in 0 .. MaxFailures
  BY <1>11 DEF LoadInv, LoadTypes
<1>13. QED
  BY <1>5, <1>6, <1>7, <1>8, <1>9, <1>10, <1>11, <1>12, QuietKeeps

LEMMA FailsKeeps ==
  ASSUME LoadInv, NEW p \in Loads, LoadFails(p)
  PROVE  LoadInv'
<1>1. load' = [load EXCEPT ![p] = IdleLoad] /\ UNCHANGED <<link, created, filed, loaded, runs>>
  BY DEF LoadFails
<1>2. load'[p] = IdleLoad /\ \A l \in Loads : l # p => load'[l] = load[l]
  BY <1>1 DEF LoadInv, LoadTypes
<1>3. \A l \in Loads : load'[l].links \subseteq load[l].links
  BY <1>2, IdleKnowsNothing
<1>4. failed' \in 0 .. MaxFailures
  BY LoadsAssumption DEF LoadInv, LoadTypes, LoadFails
<1>5. LoadTypes'
  <2>1. load' \in [Loads -> LoadStates]
    BY <1>1, IdleKnowsNothing DEF LoadInv, LoadTypes
  <2>2. \A l \in Loads : load'[l].batch \in DOMAIN Batches[l]
    BY <1>2, IdleKnowsNothing DEF LoadInv, LoadTypes
  <2>3. QED
    BY <1>1, <1>4, <2>1, <2>2 DEF LoadInv, LoadTypes
<1>6. NumberInv' /\ LinkInv'
  BY <1>1, <1>3 DEF LoadInv, NumberInv, LinkInv
<1>7. \A l \in Loads : MetaOf(l, load'[l], link') /\ DoneOf(l, load'[l])
  BY <1>1, <1>2, IdleKnowsNothing DEF LoadInv
<1>8. FiledUnderItsCard' /\ KnownRowsAreStored'
  BY <1>1 DEF LoadInv, FiledUnderItsCard, KnownRowsAreStored
<1>9. QED
  BY <1>5, <1>6, <1>7, <1>8 DEF LoadInv, MetaOf, DoneOf

(* The loser of a race for a card waits, and takes the id of the winner: what  *)
(* is generated is for cards that nobody has linked.                           *)
LEMMA LinkCardsKeeps ==
  ASSUME LoadInv, NEW p \in Loads, LinkCards(p)
  PROVE  LoadInv'
<1> DEFINE G == Generates(p)
           old == load[p].meta
<1>1. PICK product \in Numberings(G) :
        load' = [load EXCEPT ![p].at = "reread",
          ![p].links = @ \cup {[card |-> c, product |-> product[c]] : c \in G},
          ![p].meta = [i \in Ids |-> LET entry == load[p].meta[i] IN
            IF entry.product = NoProduct /\ entry.card \in G
            THEN [entry EXCEPT !.product = product[entry.card]] ELSE entry]]
  BY DEF LinkCards
<1> DEFINE new == {[card |-> c, product |-> product[c]] : c \in G}
           meta == [i \in Ids |-> IF old[i].product = NoProduct /\ old[i].card \in G
                                  THEN [old[i] EXCEPT !.product = product[old[i].card]] ELSE old[i]]
           s == [load[p] EXCEPT !.at = "reread", !.links = @ \cup new, !.meta = meta]
<1>2. /\ load[p] \in LoadStates /\ load[p].batch \in DOMAIN Batches[p]
      /\ old \in [Ids -> Entries] /\ load[p].at = "link" /\ load[p].links \subseteq Links
      /\ MetaOf(p, load[p], link) /\ DoneOf(p, load[p]) /\ load[p].rows \subseteq Stored
  BY StateOf DEF LinkCards
<1>3. LoadTypes /\ LinkInv /\ NumberInv /\ created \in Nat
  BY DEF LoadInv, LoadTypes
<1>4. G \subseteq Unlinked(p) /\ G \subseteq Cards
  BY <1>2 DEF Generates, Unlinked, Entries
<1>5. ASSUME NEW c \in G
      PROVE  /\ Prod(load[p].links, link, c) = NoProduct /\ link[c] = NoProduct
             /\ \A l \in Loads : \A k \in load[l].links : k.card # c
  <2>1. ProductOf(p, c) = NoProduct /\ c \in Cards /\ c \in Unlinked(p)
    BY <1>4 DEF Generates
  <2>2. \A k \in load[p].links : k.card # c
    <3>1. \A k \in load[p].links : k.product # NoProduct
      BY <1>2 DEF Links, Positive, NoProduct
    <3>2. QED
      BY <1>3, <2>1, <3>1, ProductIs
  <2>3. \A l \in Loads \ {p} : \A k \in load[l].links : k.card # c
    BY <2>1 DEF LinkCards, Waits
  <2>4. QED
    BY <1>3, <2>1, <2>2, <2>3, ProductIs
<1>6. /\ created' \in Nat /\ created <= created'
      /\ \A c \in G : product[c] \in Positive /\ product[c] <= created'
  <2>1. Cardinality(G) \in Nat
    BY <1>4, LoadsAssumption, FS_Subset, FS_CardinalityType
  <2>2. created' = created + Cardinality(G)
    BY DEF LinkCards
  <2>3. \A c \in G : product[c] \in created + 1 .. created + Cardinality(G)
    BY <1>1 DEF Numberings
  <2> HIDE DEF G
  <2>4. QED
    BY <1>3, <2>1, <2>2, <2>3 DEF Positive
<1>7. load' = [load EXCEPT ![p] = s]
  BY <1>1
<1>8. new \subseteq Links /\ \A k \in new : k.card \in G /\ k.product = product[k.card]
  BY <1>4, <1>6 DEF Links
<1>9. \A c \in G : \E k \in new : k.card = c /\ k.product = product[c]
  <2> SUFFICES ASSUME NEW c \in G PROVE \E k \in new : k.card = c /\ k.product = product[c]
    OBVIOUS
  <2>1. [card |-> c, product |-> product[c]] \in new
    OBVIOUS
  <2> HIDE DEF new, G
  <2>2. QED
    BY <2>1
<1>10. \A j, k \in new : j.card = k.card => j = k
  BY DEF Links
<1> HIDE DEF new, G
<1>11. /\ meta \in [Ids -> Entries]
       /\ \A i \in Ids : meta[i].card = old[i].card
       /\ \A i \in Ids : IF old[i].product = NoProduct /\ old[i].card \in G
                          THEN meta[i].product = product[old[i].card]
                          ELSE meta[i].product = old[i].product
  BY <1>2, <1>6 DEF Entries, Positive
<1> HIDE DEF meta
<1>12. /\ s.links = load[p].links \cup new /\ s.meta = meta /\ s.rows = load[p].rows
       /\ s.at = "reread" /\ s.batch = load[p].batch
  BY <1>2 DEF LoadStates
<1>13. s \in LoadStates
  BY <1>2, <1>8, <1>11 DEF LoadStates
<1> HIDE DEF s
<1>14. load'[p] = s /\ \A l \in Loads : l # p => load'[l] = load[l]
  BY <1>3, <1>7 DEF LoadTypes
<1>15. UNCHANGED <<link, filed, loaded, runs, failed>>
  BY DEF LinkCards
<1>16. LoadTypes'
  <2>1. load' \in [Loads -> LoadStates]
    BY <1>3, <1>7, <1>13 DEF LoadTypes
  <2>2. \A l \in Loads : load'[l].batch \in DOMAIN Batches[l]
    BY <1>2, <1>3, <1>12, <1>14 DEF LoadTypes
  <2>3. QED
    BY <1>3, <1>6, <1>15, <2>1, <2>2 DEF LoadTypes
<1>17. \A l \in Loads : \A k \in load'[l].links : k \in load[l].links \/ (l = p /\ k \in new)
  BY <1>12, <1>14
<1>18. NumberInv'
  <2>1. \A c \in Cards : link'[c] <= created'
    BY <1>3, <1>6, <1>15 DEF NumberInv, LoadTypes
  <2>2. ASSUME NEW l \in Loads, NEW k \in load'[l].links PROVE k.product <= created'
    <3>1. CASE k \in load[l].links
      <4>1. k.product \in Nat /\ k.product <= created
        <5>1. load[l].links \subseteq Links
          BY <1>3 DEF LoadTypes, LoadStates
        <5>2. QED
          BY <1>3, <3>1, <5>1 DEF NumberInv, Links, Positive
      <4>2. QED
        BY <1>3, <1>6, <4>1
    <3>2. CASE k \in new
      BY <1>6, <1>8, <3>2
    <3>3. QED
      BY <1>17, <3>1, <3>2
  <2>3. QED
    BY <2>1, <2>2 DEF NumberInv
<1>19. LinkInv'
  <2>1. ASSUME NEW l \in Loads, NEW k \in load'[l].links PROVE link'[k.card] = NoProduct
    <3>1. CASE k \in load[l].links
      BY <1>3, <1>15, <3>1 DEF LinkInv
    <3>2. CASE k \in new
      BY <1>5, <1>8, <1>15, <3>2
    <3>3. QED
      BY <1>17, <3>1, <3>2
  <2>2. ASSUME NEW l \in Loads, NEW k \in load'[l].links, NEW m \in Loads, NEW j \in load'[m].links,
               j.card = k.card
        PROVE  m = l /\ j = k
    <3>1. CASE k \in load[l].links /\ j \in load[m].links
      BY <1>3, <2>2, <3>1 DEF LinkInv
    <3>2. CASE l = p /\ k \in new /\ m = p /\ j \in new
      BY <1>10, <2>2, <3>2
    <3>3. CASE k \in new /\ j \in load[m].links
      BY <1>5, <1>8, <2>2, <3>3
    <3>4. CASE k \in load[l].links /\ j \in new
      BY <1>5, <1>8, <2>2, <3>4
    <3>5. QED
      BY <1>17, <3>1, <3>2, <3>3, <3>4
  <2>3. QED
    BY <2>1, <2>2 DEF LinkInv
<1>20. \A c : /\ c \in G => Prod(s.links, link, c) = product[c]
              /\ c \notin G => Prod(s.links, link, c) = Prod(load[p].links, link, c)
  <2>1. \A j, k \in s.links : j.card = k.card => j = k
    BY <1>14, <1>19 DEF LinkInv
  <2>2. \A j, k \in load[p].links : j.card = k.card => j = k
    BY <1>3 DEF LinkInv
  <2>3. ASSUME NEW c \in G PROVE Prod(s.links, link, c) = product[c]
    <3>1. PICK k \in new : k.card = c /\ k.product = product[c]
      BY <1>9
    <3>2. k \in s.links
      BY <1>12
    <3>3. QED
      BY <2>1, <3>1, <3>2, ProdIs
  <2>4. ASSUME NEW c, c \notin G PROVE Prod(s.links, link, c) = Prod(load[p].links, link, c)
    <3>1. \A k \in s.links : k.card = c => k \in load[p].links
      BY <1>8, <1>12, <2>4
    <3>2. CASE \E k \in load[p].links : k.card = c
      <4>1. PICK k \in load[p].links : k.card = c
        BY <3>2
      <4>2. k \in s.links
        BY <1>12
      <4>3. Prod(s.links, link, c) = k.product
        BY <2>1, <4>1, <4>2, ProdIs
      <4>4. Prod(load[p].links, link, c) = k.product
        BY <2>2, <4>1, ProdIs
      <4>5. QED
        BY <4>3, <4>4
    <3>3. CASE \A k \in load[p].links : k.card # c
      <4>1. \A k \in s.links : k.card # c
        BY <3>1, <3>3
      <4>2. Prod(s.links, link, c) = link[c]
        BY <2>1, <4>1, ProdIs
      <4>3. Prod(load[p].links, link, c) = link[c]
        BY <2>2, <3>3, ProdIs
      <4>4. QED
        BY <4>2, <4>3
    <3>4. QED
      BY <3>2, <3>3
  <2>5. QED
    BY <2>3, <2>4
<1>21. MetaOf(p, s, link)
  <2>1. ASSUME NEW r \in s.rows PROVE Prod(s.links, link, r.card) = r.product
    <3>1. Prod(load[p].links, link, r.card) = r.product /\ r.product # NoProduct
      BY <1>2, <1>12 DEF MetaOf, Stored, Positive, NoProduct
    <3>2. r.card \notin G
      BY <1>5, <3>1
    <3>3. QED
      BY <1>20, <3>1, <3>2
  <2>2. ASSUME NEW i \in Ids
        PROVE  /\ s.meta[i].product # NoProduct =>
                    s.meta[i].card \in Cards
                    /\ Prod(s.links, link, s.meta[i].card) = s.meta[i].product
               /\ s.meta[i].card # "none" => Prod(s.links, link, s.meta[i].card) # NoProduct
    <3>1. CASE old[i].product # NoProduct
      <4>1. /\ s.meta[i].card = old[i].card /\ s.meta[i].product = old[i].product
            /\ old[i].card \in Cards
            /\ Prod(load[p].links, link, old[i].card) = old[i].product
        BY <1>2, <1>11, <1>12, <3>1 DEF MetaOf
      <4>2. old[i].card \notin G
        BY <1>5, <3>1, <4>1
      <4>3. QED
        BY <1>20, <3>1, <4>1, <4>2
    <3>2. CASE old[i].product = NoProduct /\ old[i].card \in G
      <4>1. s.meta[i].card = old[i].card /\ s.meta[i].product = product[old[i].card]
        BY <1>11, <1>12, <3>2
      <4>2. product[old[i].card] # NoProduct /\ old[i].card \in Cards
        BY <1>4, <1>6, <3>2 DEF Positive, NoProduct
      <4>3. QED
        BY <1>20, <3>2, <4>1, <4>2
    <3>3. CASE old[i].product = NoProduct /\ old[i].card \notin G
      <4>1. s.meta[i].card = old[i].card /\ s.meta[i].product = NoProduct
        BY <1>11, <1>12, <3>3
      <4>2. ASSUME old[i].card # "none" PROVE Prod(load[p].links, link, old[i].card) # NoProduct
        <5>1. old[i].card \in Cards /\ old[i].card \in Unlinked(p)
          BY <1>2, <3>3, <4>2 DEF Unlinked, Entries
        <5>2. ProductOf(p, old[i].card) # NoProduct
          BY <3>3, <5>1 DEF G, Generates
        <5>3. QED
          BY <1>3, <5>1, <5>2, ProductIs
      <4>3. QED
        BY <1>20, <3>3, <4>1, <4>2
    <3>4. QED
      BY <3>1, <3>2, <3>3
  <2>3. \A i \in Ids : i \in IdsOf(p, s.batch) /\ CardsOf[i] # {} => s.meta[i].card \in CardsOf[i]
    BY <1>2, <1>11, <1>12 DEF MetaOf
  <2>4. QED
    BY <1>12, <2>1, <2>2, <2>3 DEF MetaOf
<1>22. DoneOf(p, s)
  BY <1>2, <1>12 DEF DoneOf
<1>23. \A l \in Loads : MetaOf(l, load'[l], link') /\ DoneOf(l, load'[l])
  BY <1>14, <1>15, <1>21, <1>22 DEF LoadInv
<1>24. FiledUnderItsCard' /\ KnownRowsAreStored'
  BY <1>15 DEF LoadInv, FiledUnderItsCard, KnownRowsAreStored
<1>25. QED
  BY <1>16, <1>18, <1>19, <1>23, <1>24 DEF LoadInv, MetaOf, DoneOf

LEMMA CommitKeeps ==
  ASSUME LoadInv, NEW p \in Loads, CommitLoad(p)
  PROVE  LoadInv'
<1> DEFINE mine == {[card |-> r.card, product |-> r.product, sku |-> r.sku, by |-> p] :
                      r \in load[p].rows}
           done == UNION {{<<p, row>> : row \in Batches[p][b]} : b \in DOMAIN Batches[p]}
<1>1. /\ load' = [load EXCEPT ![p] = IdleLoad] /\ UNCHANGED <<created, runs, failed>>
      /\ link' = [c \in Cards |-> ProductOf(p, c)]
      /\ filed' = filed \cup mine /\ loaded' = loaded \cup done
      /\ load[p].at = "commit"
  BY DEF CommitLoad
<1>2. load'[p] = IdleLoad /\ \A l \in Loads : l # p => load'[l] = load[l]
  BY <1>1 DEF LoadInv, LoadTypes
<1>3. LoadTypes /\ LinkInv /\ NumberInv /\ created \in Nat
  BY DEF LoadInv, LoadTypes
<1>4. /\ load[p].links \subseteq Links /\ load[p].rows \subseteq Stored
      /\ MetaOf(p, load[p], link) /\ DoneOf(p, load[p])
  BY StateOf
<1>5. ASSUME NEW c \in Cards
      PROVE  /\ link'[c] = ProductOf(p, c) /\ link'[c] = Prod(load[p].links, link, c)
             /\ link'[c] \in Nat /\ link'[c] <= created
             /\ link[c] # NoProduct => link'[c] = link[c]
             /\ (\A k \in load[p].links : k.card # c) => link'[c] = link[c]
  <2>1. /\ ProductOf(p, c) = Prod(load[p].links, link, c)
        /\ \A k \in load[p].links : k.card = c => ProductOf(p, c) = k.product
        /\ (\A k \in load[p].links : k.card # c) => ProductOf(p, c) = link[c]
        /\ ProductOf(p, c) \in Nat
    BY <1>3, ProductIs
  <2>2. link'[c] = ProductOf(p, c)
    BY <1>1
  <2>3. ProductOf(p, c) <= created
    BY <1>3, <2>1 DEF NumberInv
  <2>4. link[c] # NoProduct => \A k \in load[p].links : k.card # c
    BY <1>3 DEF LinkInv
  <2>5. QED
    BY <2>1, <2>2, <2>3, <2>4
<1>6. ASSUME NEW o \in mine
      PROVE  /\ o \in [card : Cards, product : Positive, sku : Skus, by : Loads]
             /\ link'[o.card] = o.product
  <2>1. PICK r \in load[p].rows : o = [card |-> r.card, product |-> r.product, sku |-> r.sku, by |-> p]
    BY <1>6
  <2>2. r \in Stored /\ Prod(load[p].links, link, r.card) = r.product
    BY <1>4, <2>1 DEF MetaOf
  <2>3. r.card \in Cards /\ link'[r.card] = r.product
    BY <1>5, <2>2 DEF Stored
  <2>4. QED
    BY <2>1, <2>2, <2>3 DEF Stored
<1>7. LoadTypes'
  <2>1. load' \in [Loads -> LoadStates]
    BY <1>1, <1>3, IdleKnowsNothing DEF LoadTypes
  <2>2. \A l \in Loads : load'[l].batch \in DOMAIN Batches[l]
    BY <1>2, <1>3, IdleKnowsNothing DEF LoadTypes
  <2>3. link' \in [Cards -> Nat]
    BY <1>1, <1>5
  <2>4. filed' \subseteq [card : Cards, product : Positive, sku : Skus, by : Loads]
    BY <1>1, <1>3, <1>6 DEF LoadTypes
  <2>5. QED
    BY <1>1, <1>3, <2>1, <2>2, <2>3, <2>4 DEF LoadTypes
<1>8. NumberInv'
  <2>1. \A l \in Loads : load'[l].links \subseteq load[l].links
    BY <1>2, IdleKnowsNothing
  <2>2. QED
    BY <1>1, <1>3, <1>5, <2>1 DEF NumberInv
<1>9. LinkInv'
  <2>1. \A l \in Loads : \A k \in load'[l].links : l # p /\ k \in load[l].links
    BY <1>2, IdleKnowsNothing
  <2>2. ASSUME NEW l \in Loads, NEW k \in load'[l].links PROVE link'[k.card] = NoProduct
    <3>1. l # p /\ k \in load[l].links /\ link[k.card] = NoProduct
      BY <1>3, <2>1, <2>2 DEF LinkInv
    <3>2. k.card \in Cards
      BY <1>3, <3>1 DEF LoadTypes, LoadStates, Links
    <3>3. \A j \in load[p].links : j.card # k.card
      BY <1>3, <3>1 DEF LinkInv
    <3>4. QED
      BY <1>5, <3>1, <3>2, <3>3
  <2>3. QED
    BY <1>3, <2>1, <2>2 DEF LinkInv
<1>10. ASSUME NEW l \in Loads, l # p PROVE MetaOf(l, load'[l], link') /\ DoneOf(l, load'[l])
  <2>1. load'[l] = load[l] /\ MetaOf(l, load[l], link) /\ DoneOf(l, load[l])
    BY <1>2, <1>10 DEF LoadInv
  <2>2. load[l].meta \in [Ids -> Entries] /\ load[l].rows \subseteq Stored
    BY StateOf
  <2>3. ASSUME NEW c \in Cards, Prod(load[l].links, link, c) # NoProduct
        PROVE  Prod(load[l].links, link', c) = Prod(load[l].links, link, c)
    <3>1. \A j, k \in load[l].links : j.card = k.card => j = k
      BY <1>3 DEF LinkInv
    <3>2. CASE \E k \in load[l].links : k.card = c
      BY <3>1, <3>2, ProdIs
    <3>3. CASE \A k \in load[l].links : k.card # c
      <4>1. Prod(load[l].links, link, c) = link[c] /\ Prod(load[l].links, link', c) = link'[c]
        BY <3>1, <3>3, ProdIs
      <4>2. QED
        BY <1>5, <2>3, <4>1
    <3>4. QED
      BY <3>2, <3>3
  <2>4. \A r \in load[l].rows : Prod(load[l].links, link', r.card) = r.product
    <3>1. \A r \in load[l].rows : r.card \in Cards /\ r.product # NoProduct
      BY <2>2 DEF Stored, Positive, NoProduct
    <3>2. QED
      BY <2>1, <2>3, <3>1 DEF MetaOf
  <2>5. ASSUME NEW i \in Ids
        PROVE  /\ load[l].meta[i].product # NoProduct =>
                    /\ load[l].meta[i].card \in Cards
                    /\ Prod(load[l].links, link', load[l].meta[i].card) = load[l].meta[i].product
               /\ load[l].at = "reread" /\ load[l].meta[i].card # "none" =>
                    Prod(load[l].links, link', load[l].meta[i].card) # NoProduct
    <3>1. load[l].meta[i].card \in Cards \cup {"none"}
      BY <2>2 DEF Entries
    <3>2. QED
      BY <2>1, <2>3, <3>1 DEF MetaOf
  <2>6. MetaOf(l, load[l], link')
    BY <2>1, <2>4, <2>5 DEF MetaOf
  <2>7. QED
    BY <2>1, <2>6
<1>11. \A l \in Loads : MetaOf(l, load'[l], link') /\ DoneOf(l, load'[l])
  BY <1>2, <1>10, IdleKnowsNothing
<1>12. FiledUnderItsCard'
  <2> SUFFICES ASSUME NEW o \in filed' PROVE link'[o.card] = o.product
    BY DEF FiledUnderItsCard
  <2>1. CASE o \in filed
    <3>1. link[o.card] = o.product /\ o.card \in Cards /\ o.product # NoProduct
      BY <1>3, <2>1 DEF LoadInv, FiledUnderItsCard, LoadTypes, Positive, NoProduct
    <3>2. QED
      BY <1>5, <3>1
  <2>2. QED
    BY <1>1, <1>6, <2>1
<1>13. KnownRowsAreStored'
  <2> SUFFICES ASSUME NEW entry \in loaded', CardsOf[entry[2].id] # {}
               PROVE  \E o \in filed' : /\ o.by = entry[1] /\ o.sku = entry[2].sku
                                        /\ o.card \in CardsOf[entry[2].id]
    BY DEF KnownRowsAreStored
  <2>1. CASE entry \in loaded
    BY <1>1, <2>1 DEF LoadInv, KnownRowsAreStored
  <2>2. CASE entry \in done
    <3>1. PICK row : /\ \E b \in DOMAIN Batches[p] : row \in Batches[p][b]
                     /\ entry = <<p, row>>
      BY <2>2
    <3>2. HasRow(load[p].rows, row)
      BY <1>1, <1>4, <3>1 DEF DoneOf
    <3>3. PICK r \in load[p].rows : r.sku = row.sku /\ r.card \in CardsOf[row.id]
      BY <3>2 DEF HasRow
    <3> DEFINE o == [card |-> r.card, product |-> r.product, sku |-> r.sku, by |-> p]
    <3>4. o \in mine /\ o.by = p /\ o.sku = row.sku /\ o.card \in CardsOf[row.id]
      BY <3>3
    <3> HIDE DEF o, mine
    <3>5. o \in filed'
      BY <1>1, <3>4
    <3>6. QED
      BY <3>1, <3>4, <3>5
  <2>3. QED
    BY <1>1, <2>1, <2>2
<1>14. QED
  BY <1>7, <1>8, <1>9, <1>11, <1>12, <1>13 DEF LoadInv, MetaOf, DoneOf

LEMMA LoadsInitHolds == LoadsInit => LoadInv
<1> SUFFICES ASSUME LoadsInit PROVE LoadInv
  OBVIOUS
<1>1. \A l \in Loads : load[l] = IdleLoad
  BY DEF LoadsInit
<1>2. LoadTypes
  <2>1. load \in [Loads -> LoadStates] /\ \A l \in Loads : load[l].batch \in DOMAIN Batches[l]
    BY <1>1, IdleKnowsNothing DEF LoadsInit
  <2>2. link \in [Cards -> Nat] /\ created \in Nat
    BY DEF LoadsInit, NoProduct
  <2>3. runs \in 0 .. MaxRuns /\ failed \in 0 .. MaxFailures
    BY LoadsAssumption DEF LoadsInit
  <2>4. QED
    BY <2>1, <2>2, <2>3 DEF LoadsInit, LoadTypes
<1>3. NumberInv /\ LinkInv
  BY <1>1, IdleKnowsNothing DEF LoadsInit, NumberInv, LinkInv, NoProduct
<1>4. \A l \in Loads : MetaOf(l, load[l], link) /\ DoneOf(l, load[l])
  BY <1>1, IdleKnowsNothing
<1>5. FiledUnderItsCard /\ KnownRowsAreStored
  BY DEF LoadsInit, FiledUnderItsCard, KnownRowsAreStored
<1>6. QED
  BY <1>2, <1>3, <1>4, <1>5 DEF LoadInv

LEMMA LoadsNextKeeps == LoadInv /\ [LoadsNext]_loadsVars => LoadInv'
<1> SUFFICES ASSUME LoadInv, [LoadsNext]_loadsVars PROVE LoadInv'
  OBVIOUS
<1>1. CASE UNCHANGED loadsVars
  <2>1. LoadTypes' /\ NumberInv' /\ LinkInv'
    BY <1>1 DEF loadsVars, LoadInv, LoadTypes, NumberInv, LinkInv, Prod
  <2>2. \A l \in Loads : MetaOf(l, load[l], link)' /\ DoneOf(l, load[l])'
    BY <1>1 DEF loadsVars, LoadInv, MetaOf, DoneOf, Prod
  <2>3. FiledUnderItsCard' /\ KnownRowsAreStored'
    BY <1>1 DEF loadsVars, LoadInv, FiledUnderItsCard, KnownRowsAreStored, Prod
  <2>4. QED
    BY <2>1, <2>2, <2>3 DEF LoadInv
<1>2. CASE LoadsNext
  BY <1>2, LoadStarts, ResolveKeeps, LinkCardsKeeps, RereadKeeps, UpsertKeeps, CommitKeeps,
    FailsKeeps DEF LoadsNext
<1>3. QED
  BY <1>1, <1>2

LEMMA LoadInvHolds == LoadsSpec => []LoadInv
BY LoadsInitHolds, LoadsNextKeeps, PTL DEF LoadsSpec

(* The variables of the loads keep their types; what is filed has a product id *)
(* that was generated.                                                         *)
THEOREM LoadsStayTyped == LoadsSpec => []LoadsTypeOK
<1>1. LoadInv => LoadsTypeOK
  <2> SUFFICES ASSUME LoadInv PROVE LoadsTypeOK
    OBVIOUS
  <2>1. ASSUME NEW l \in Loads
        PROVE  /\ load[l].at \in {"idle", "resolve", "link", "reread", "upsert", "commit"}
               /\ load[l].batch \in DOMAIN Batches[l] /\ load[l].meta \in [Ids -> Entries]
               /\ load[l].links \subseteq Entries
    <3>1. Links \subseteq Entries
      BY DEF Links, Entries, Positive
    <3>2. QED
      BY <3>1, StateOf DEF LoadStates
  <2>2. ASSUME NEW o \in filed PROVE o.card \in Cards /\ o.product \in 1 .. created
    <3>1. o.card \in Cards /\ o.product \in Positive
      BY DEF LoadInv, LoadTypes
    <3>2. o.product <= created
      BY <3>1 DEF LoadInv, FiledUnderItsCard, NumberInv
    <3>3. QED
      BY <3>1, <3>2 DEF LoadInv, LoadTypes, Positive
  <2>3. QED
    BY <2>1, <2>2 DEF LoadInv, LoadTypes, LoadsTypeOK
<1>2. QED
  BY <1>1, LoadInvHolds, PTL

(* Whatever loads run at once and whichever of them fail, a price is filed     *)
(* under the product of its card, and a load that is committed has stored      *)
(* every row whose identifier is known.                                        *)
THEOREM LoadsAreAlwaysFiled == LoadsSpec => []LoadedIsFiled
<1>1. LoadInv => LoadedIsFiled
  BY DEF LoadInv, LoadedIsFiled
<1>2. QED
  BY <1>1, LoadInvHolds, PTL
-----------------------------------------------------------------------------
(* The MTGJSON chain and the catch-up of an operator over the same staging     *)
(* table.  While a run works through its batches, each row of its own of a     *)
(* known card is normalised and still ahead of it; when it begins to clean up  *)
(* there is none left, whatever another run has done to the table meanwhile.   *)
StagedRows == [uuid : Faces \cup Sealed, day : Dates, run : Runs, normal : BOOLEAN]
Promotes(s) == s.at \in {"batch", "cleanup"}

Ahead(r, s, rows) ==
  \A row \in rows : row.run = r /\ row.uuid \in s.knew =>
    s.at = "batch" /\ row.normal /\ row.day \in s.from .. s.to

Promoting ==
  \A r \in Runs : Promotes(run[r]) =>
    run[r].knew \subseteq Resolved /\ Ahead(r, run[r], staging)

MtgjsonInv == MtgjsonTypeOK /\ Promoting /\ OwnPricesSurvive

ChainStates ==
  [at : {"idle", "identify", "download", "stream", "copy", "promote", "batch", "cleanup", "files"},
   file : SUBSET Dates, sealed : SUBSET Sealed, knew : SUBSET Faces, from : Nat, to : Nat]

RunTypes == run \in [Runs -> ChainStates]
RowTypes ==
  /\ staging \subseteq StagedRows /\ sealedStaging \subseteq [uuid : Sealed, day : Dates]
  /\ observed \subseteq (Versions \cup Sealed) \X Dates
  /\ dropped \subseteq [uuid : Faces \cup Sealed, own : BOOLEAN, known : BOOLEAN]
RestTypes ==
  /\ date \in Dates /\ catalogue \subseteq Versions
  /\ primary \in [Versions -> Faces \cup {NoCard}] /\ alias \subseteq Faces
  /\ bootstrapped \subseteq Sealed /\ routed \subseteq Sealed
  /\ sealedRun \in {"idle", "cleanup"}
  /\ dailies \subseteq Dates /\ bulks \subseteq Dates /\ mishaps \in 0 .. MaxMishaps

LEMMA MtgjsonTypesAre == MtgjsonTypeOK <=> RunTypes /\ RowTypes /\ RestTypes
BY DEF MtgjsonTypeOK, RunTypes, RowTypes, RestTypes, ChainStates, StagedRows

LEMMA HasLeast ==
  ASSUME NEW T \in SUBSET Nat, T # {}
  PROVE  \E n \in T : \A k \in T : n <= k
<1>1. PICK n \in T : \A k \in T : ~ (<<k, n>> \in OpToRel(<, Nat))
  BY NatLessThanWellFounded, WFMin
<1>2. \A k \in T : k \in Nat /\ n \in Nat /\ ~ (k < n)
  BY <1>1 DEF OpToRel
<1>3. QED
  BY <1>2

LEMMA HasGreatest ==
  ASSUME NEW T \in SUBSET Int, T # {}, NEW top \in Int, \A n \in T : n <= top
  PROVE  \E m \in T : \A n \in T : m >= n
<1> DEFINE left == {top - n : n \in T}
<1>1. \A n \in T : n \in Int /\ top - n \in Nat
  OBVIOUS
<1>2. left \in SUBSET Nat
  BY <1>1
<1>3. /\ \A n \in T : top - n \in left
      /\ \A k \in left : \E m \in T : k = top - m
  OBVIOUS
<1> HIDE DEF left
<1>4. left # {}
  BY <1>3
<1>5. PICK least \in left : \A k \in left : least <= k
  BY <1>2, <1>4, HasLeast
<1>6. PICK m \in T : least = top - m
  BY <1>3
<1>7. QED
  BY <1>1, <1>3, <1>5, <1>6

LEMMA SpanIsOfDates ==
  ASSUME RowTypes, staging # {}
  PROVE  /\ Min(SpanOf(staging)) \in Nat /\ Max(SpanOf(staging)) \in Nat
         /\ \A row \in staging : row.day \in Min(SpanOf(staging)) .. Max(SpanOf(staging))
<1> DEFINE days == SpanOf(staging)
<1>1. days # {} /\ days \subseteq 1 .. LastDate /\ LastDate \in Nat
  BY MtgjsonAssumption DEF RowTypes, StagedRows, SpanOf, Dates
<1>2. \A row \in staging : row.day \in days
  BY DEF SpanOf
<1> HIDE DEF days
<1>3. \E least \in days : \A d \in days : least <= d
  <2>1. days \in SUBSET Nat
    BY <1>1
  <2>2. QED
    BY <1>1, <2>1, HasLeast
<1>4. \E most \in days : \A d \in days : most >= d
  <2>1. days \in SUBSET Int /\ LastDate \in Int /\ \A d \in days : d <= LastDate
    BY <1>1
  <2>2. QED
    BY <1>1, <2>1, HasGreatest
<1>5. Min(days) \in days /\ \A d \in days : Min(days) <= d
  BY <1>3 DEF Min
<1>6. Max(days) \in days /\ \A d \in days : Max(days) >= d
  BY <1>4 DEF Max
<1>7. QED
  BY <1>1, <1>2, <1>5, <1>6 DEF days

LEMMA BatchTypes ==
  ASSUME RunTypes, RowTypes, RestTypes, NEW r \in Runs, NEW rows \in SUBSET StagedRows,
         NEW from \in Nat, NEW to \in Nat, NEW knew \in SUBSET Faces,
         PromoteBatch(r, rows, from, to, knew)
  PROVE  RunTypes' /\ RowTypes' /\ RestTypes'
<1>1. InBatch(rows, from) \subseteq rows /\ \A row \in InBatch(rows, from) : row.uuid \in Faces
  BY DEF InBatch, Resolved
<1>2. RowTypes'
  <2>1. staging' \subseteq StagedRows
    BY DEF PromoteBatch
  <2>2. observed' \subseteq (Versions \cup Sealed) \X Dates
    <3>1. \A row \in InBatch(rows, from) : VersionOf[row.uuid] \in Versions /\ row.day \in Dates
      BY <1>1 DEF Versions, StagedRows
    <3>2. QED
      BY <3>1 DEF PromoteBatch, RowTypes
  <2>3. QED
    BY <2>1, <2>2 DEF RowTypes, PromoteBatch, sealedVars
<1>3. RunTypes'
  <2> DEFINE at == IF LastBatch(from, to) THEN "cleanup" ELSE "batch"
             s == [run[r] EXCEPT !.at = at, !.knew = knew, !.from = from + BatchDays, !.to = to]
  <2>1. run' = [run EXCEPT ![r] = s]
    BY DEF PromoteBatch
  <2>2. at \in {"batch", "cleanup"} /\ from + BatchDays \in Nat
    BY MtgjsonAssumption
  <2> HIDE DEF at
  <2>3. s \in ChainStates
    BY <2>2 DEF RunTypes, ChainStates
  <2> HIDE DEF s
  <2>4. QED
    BY <2>1, <2>3 DEF RunTypes
<1>4. RestTypes'
  BY DEF RestTypes, PromoteBatch, identityVars, sealedVars, fileVars
<1>5. QED
  BY <1>2, <1>3, <1>4

LEMMA PromotesABatch ==
  ASSUME RunTypes, RowTypes, RestTypes, NEW r \in Runs, StartPromote(r) \/ NextBatch(r), staging # {} \/ NextBatch(r)
  PROVE  \E rows \in SUBSET StagedRows, from \in Nat, to \in Nat, knew \in SUBSET Faces :
           /\ PromoteBatch(r, rows, from, to, knew)
           /\ \/ /\ run[r].at = "promote" /\ rows = Normalised /\ knew = Resolved
                 /\ \A row \in rows : row.normal /\ row.day \in from .. to
              \/ /\ run[r].at = "batch" /\ rows = staging
                 /\ from = run[r].from /\ to = run[r].to /\ knew = run[r].knew
<1>1. CASE NextBatch(r)
  <2>1. run[r].from \in Nat /\ run[r].to \in Nat /\ run[r].knew \in SUBSET Faces
    BY DEF RunTypes, ChainStates
  <2>2. staging \in SUBSET StagedRows
    BY DEF RowTypes
  <2>3. QED
    BY <1>1, <2>1, <2>2 DEF NextBatch
<1>2. CASE StartPromote(r) /\ staging # {}
  <2> DEFINE from == Min(SpanOf(staging))
             to == Max(SpanOf(staging))
  <2>1. Normalised \in SUBSET StagedRows
    BY DEF Normalised, RowTypes, StagedRows
  <2>2. from \in Nat /\ to \in Nat /\ \A row \in staging : row.day \in from .. to
    BY <1>2, SpanIsOfDates
  <2>3. Resolved \in SUBSET Faces
    BY DEF Resolved
  <2>4. run[r].at = "promote" /\ PromoteBatch(r, Normalised, from, to, Resolved)
    BY <1>2 DEF StartPromote
  <2> HIDE DEF from, to
  <2>5. \A row \in Normalised : row.normal /\ row.day \in from .. to
    BY <2>2 DEF Normalised, RowTypes, StagedRows
  <2>6. QED
    BY <2>1, <2>2, <2>3, <2>4, <2>5
<1>3. QED
  BY <1>1, <1>2

LEMMA MtgjsonTypesKeep ==
  ASSUME RunTypes, RowTypes, RestTypes, MtgjsonNext
  PROVE  RunTypes' /\ RowTypes' /\ RestTypes'
<1> USE MtgjsonAssumption
<1>1. ASSUME NEW r \in Runs,
             Start(r) \/ SyncUuids(r) \/ CleanupStaging(r) \/ StartStream(r)
      PROVE  RunTypes'
  BY <1>1 DEF RunTypes, ChainStates, RestTypes, Start, SyncUuids, CleanupStaging, StartStream, To
<1>2. ASSUME NEW r \in Runs, Start(r) PROVE RowTypes' /\ RestTypes'
  BY <1>2 DEF RowTypes, RestTypes, Start, Mishap, identityVars, sealedVars, fileVars
<1>3. ASSUME NEW r \in Runs, SyncUuids(r) PROVE RowTypes' /\ RestTypes'
  <2>1. RowTypes'
    BY <1>3 DEF RowTypes, SyncUuids, sealedVars
  <2>2. primary' \in [Versions -> Faces \cup {NoCard}]
    BY <1>3 DEF SyncUuids, RestTypes
  <2>3. alias' \subseteq Faces
    BY <1>3 DEF SyncUuids, RestTypes
  <2>4. UNCHANGED <<date, catalogue, sealedVars, fileVars, mishaps>>
    BY <1>3 DEF SyncUuids
  <2>5. QED
    BY <2>1, <2>2, <2>3, <2>4 DEF RestTypes, sealedVars, fileVars
<1>4. ASSUME NEW r \in Runs, Download(r) PROVE RunTypes' /\ RowTypes' /\ RestTypes'
  <2>1. date \in Dates /\ {date} \subseteq Dates /\ 1 .. date \subseteq Dates
    BY DEF RestTypes, Dates
  <2>2. PICK file \in SUBSET Dates :
          run' = [run EXCEPT ![r] = [@ EXCEPT !.at = "stream", !.file = file]]
    <3>1. \/ run' = [run EXCEPT ![r].at = "stream", ![r].file = {date}]
          \/ run' = [run EXCEPT ![r].at = "stream", ![r].file = 1 .. date]
      BY <1>4 DEF Download
    <3>2. CASE run' = [run EXCEPT ![r].at = "stream", ![r].file = {date}]
      BY <2>1, <3>2
    <3>3. CASE run' = [run EXCEPT ![r].at = "stream", ![r].file = 1 .. date]
      BY <2>1, <3>3
    <3>4. QED
      BY <3>1, <3>2, <3>3
  <2>3. RunTypes'
    <3>1. [run[r] EXCEPT !.at = "stream", !.file = file] \in ChainStates
      BY DEF RunTypes, ChainStates
    <3>2. QED
      BY <2>2, <3>1 DEF RunTypes
  <2>4. RowTypes'
    BY <1>4 DEF RowTypes, Download, sealedVars
  <2>5. RestTypes'
    BY <1>4, <2>1 DEF RestTypes, Download, identityVars, sealedVars
  <2>6. QED
    BY <2>3, <2>4, <2>5
<1>5. ASSUME NEW r \in Runs, StartStream(r) PROVE RowTypes' /\ RestTypes'
  BY <1>5 DEF RowTypes, RestTypes, StartStream, identityVars, sealedVars, fileVars
<1>6. ASSUME NEW r \in Runs, Stream(r) PROVE RunTypes' /\ RowTypes' /\ RestTypes'
  <2>1. run[r].file \subseteq Dates /\ run[r].sealed \subseteq Sealed
    BY DEF RunTypes, ChainStates
  <2>2. staging' \subseteq StagedRows
    BY <1>6, <2>1 DEF Stream, RowTypes, StagedRows
  <2>3. sealedStaging' \subseteq [uuid : Sealed, day : Dates]
    BY <1>6, <2>1 DEF Stream, RowTypes
  <2>4. RunTypes'
    BY <1>6 DEF Stream, To, RunTypes, ChainStates
  <2>5. QED
    BY <1>6, <2>2, <2>3, <2>4 DEF Stream, RowTypes, RestTypes, identityVars, fileVars
<1>7. ASSUME NEW r \in Runs, StartPromote(r) \/ NextBatch(r) PROVE RunTypes' /\ RowTypes' /\ RestTypes'
  <2>1. CASE staging # {} \/ NextBatch(r)
    BY <1>7, <2>1, PromotesABatch, BatchTypes
  <2>2. CASE StartPromote(r) /\ staging = {}
    <3>1. Resolved \subseteq Faces
      BY DEF Resolved
    <3>2. run' = [run EXCEPT ![r] = [@ EXCEPT !.at = "cleanup", !.knew = Resolved]]
      BY <2>2 DEF StartPromote
    <3>3. RunTypes'
      <4>1. [run[r] EXCEPT !.at = "cleanup", !.knew = Resolved] \in ChainStates
        BY <3>1 DEF RunTypes, ChainStates
      <4>2. QED
        BY <3>2, <4>1 DEF RunTypes
    <3>4. RowTypes'
      BY <2>2 DEF StartPromote, RowTypes, sealedVars
    <3>5. RestTypes'
      BY <2>2 DEF StartPromote, RestTypes, identityVars, sealedVars, fileVars
    <3>6. QED
      BY <3>3, <3>4, <3>5
  <2>3. QED
    BY <1>7, <2>1, <2>2
<1>8. ASSUME NEW r \in Runs, CleanupStaging(r) PROVE RowTypes' /\ RestTypes'
  <2> DEFINE thrown == {[uuid |-> row.uuid, own |-> row.run = r,
                         known |-> row.uuid \in run[r].knew] : row \in staging}
  <2>1. thrown \subseteq [uuid : Faces \cup Sealed, own : BOOLEAN, known : BOOLEAN]
    <3>1. ASSUME NEW row \in staging, NEW own, NEW known, own = (row.run = r), known = (row.uuid \in run[r].knew)
          PROVE [uuid |-> row.uuid, own |-> own, known |-> known]
                  \in [uuid : Faces \cup Sealed, own : BOOLEAN, known : BOOLEAN]
      <4>1. row.uuid \in Faces \cup Sealed
        BY DEF RowTypes, StagedRows
      <4>2. own \in BOOLEAN /\ known \in BOOLEAN
        BY <3>1
      <4>3. QED
        BY <4>1, <4>2
    <3>2. QED
      BY <3>1
  <2>2. dropped' = dropped \cup thrown /\ staging' = {}
    BY <1>8 DEF CleanupStaging
  <2> HIDE DEF thrown
  <2>3. QED
    BY <1>8, <2>1, <2>2 DEF CleanupStaging, RowTypes, RestTypes, identityVars, sealedVars, fileVars
<1>9. ASSUME NEW r \in Runs, CleanupFiles(r) \/ StepFails(r) PROVE RunTypes' /\ RowTypes' /\ RestTypes'
  <2>1. IdleRun \in ChainStates /\ run' = [run EXCEPT ![r] = IdleRun]
    BY <1>9 DEF IdleRun, ChainStates, NoFile, CleanupFiles, StepFails
  <2>2. RunTypes'
    BY <2>1 DEF RunTypes
  <2>3. RowTypes' /\ mishaps' \in 0 .. MaxMishaps
    BY <1>9 DEF CleanupFiles, StepFails, RowTypes, RestTypes, Mishap, sealedVars
  <2>4. dailies' \subseteq Dates /\ bulks' \subseteq Dates
    BY <1>9 DEF CleanupFiles, StepFails, RestTypes
  <2>5. UNCHANGED <<date, identityVars, sealedVars>>
    BY <1>9 DEF CleanupFiles, StepFails
  <2>6. QED
    BY <2>2, <2>3, <2>4, <2>5 DEF RestTypes, identityVars, sealedVars
<1>10. CASE NewDate \/ \E v \in Versions : ImportVersion(v)
  <2>1. RunTypes' /\ RowTypes'
    BY <1>10 DEF NewDate, ImportVersion, RunTypes, RowTypes, sealedVars
  <2>2. CASE NewDate
    <3>1. date' \in Dates
      BY <2>2 DEF NewDate, RestTypes, Dates
    <3>2. QED
      BY <2>1, <2>2, <3>1 DEF NewDate, RestTypes, identityVars, sealedVars, fileVars
  <2>3. CASE \E v \in Versions : ImportVersion(v)
    BY <2>1, <2>3 DEF ImportVersion, RestTypes, sealedVars, fileVars
  <2>4. QED
    BY <1>10, <2>2, <2>3
<1>11. CASE \E u \in Sealed : BootstrapSealed(u) \/ RouteByHand(u)
  BY <1>11 DEF BootstrapSealed, RouteByHand, Mishap, RunTypes, RowTypes, RestTypes, identityVars, fileVars
<1>12. CASE PromoteSealed
  <2>1. sealedStaging' \subseteq sealedStaging
    BY <1>12 DEF PromoteSealed
  <2>2. observed' \subseteq (Versions \cup Sealed) \X Dates
    BY <1>12 DEF PromoteSealed, RowTypes
  <2>3. QED
    BY <1>12, <2>1, <2>2 DEF PromoteSealed, Mishap, RunTypes, RowTypes, RestTypes, identityVars, fileVars
<1>13. CASE CleanupSealed
  BY <1>13 DEF CleanupSealed, RunTypes, RowTypes, RestTypes, identityVars, fileVars
<1>14. QED
  BY <1>1, <1>2, <1>3, <1>4, <1>5, <1>6, <1>7, <1>8, <1>9, <1>10, <1>11, <1>12, <1>13 DEF MtgjsonNext

(* What can be resolved to a card stays so.                                    *)
LEMMA ResolvedGrows ==
  ASSUME RestTypes, MtgjsonNext
  PROVE  Resolved \subseteq Resolved'
<1>1. UNCHANGED <<primary, alias>> \/ \E r \in Runs : SyncUuids(r)
  BY DEF MtgjsonNext, NewDate, ImportVersion, Start, Download, StartStream, Stream, StartPromote,
         NextBatch, PromoteBatch, CleanupStaging, CleanupFiles, StepFails, BootstrapSealed,
         RouteByHand, PromoteSealed, CleanupSealed, identityVars
<1>2. CASE UNCHANGED <<primary, alias>>
  BY <1>2 DEF Resolved
<1>3. CASE \E r \in Runs : SyncUuids(r)
  <2>1. alias \subseteq alias'
    BY <1>3 DEF SyncUuids
  <2>2. ASSUME NEW u \in Faces, primary[VersionOf[u]] = u PROVE primary'[VersionOf[u]] = u
    <3>1. VersionOf[u] \in Versions /\ u # NoCard
      BY MtgjsonAssumption DEF Versions
    <3>2. QED
      BY <1>3, <2>2, <3>1 DEF SyncUuids
  <2>3. QED
    BY <2>1, <2>2 DEF Resolved
<1>4. QED
  BY <1>1, <1>2, <1>3

(* A row of a run that is at its batches or its cleanup was there before: only *)
(* the run itself stages rows of its own, and not then.                        *)
Stems(row, rows) ==
  \E old \in rows : /\ old.run = row.run /\ old.uuid = row.uuid /\ old.day = row.day
                    /\ old.normal => row.normal

LEMMA OthersStayAhead ==
  ASSUME MtgjsonInv, RestTypes, Resolved \subseteq Resolved',
         NEW r \in Runs, Promotes(run[r]), run'[r] = run[r],
         \A row \in staging' : row.run = r => Stems(row, staging)
  PROVE  run'[r].knew \subseteq Resolved' /\ Ahead(r, run'[r], staging')
<1>1. run[r].knew \subseteq Resolved /\ Ahead(r, run[r], staging)
  BY DEF MtgjsonInv, Promoting
<1>2. ASSUME NEW row \in staging', row.run = r, row.uuid \in run[r].knew
      PROVE  run[r].at = "batch" /\ row.normal /\ row.day \in run[r].from .. run[r].to
  <2>1. PICK old \in staging : /\ old.run = row.run /\ old.uuid = row.uuid /\ old.day = row.day
                               /\ old.normal => row.normal
    BY <1>2 DEF Stems
  <2>2. QED
    BY <1>1, <1>2, <2>1 DEF Ahead
<1>3. QED
  BY <1>1, <1>2 DEF Ahead

LEMMA BatchStaysAhead ==
  ASSUME MtgjsonInv, RunTypes, RowTypes, NEW p \in Runs, NEW rows \in SUBSET StagedRows,
         NEW from \in Nat, NEW to \in Nat, NEW knew \in SUBSET Resolved,
         PromoteBatch(p, rows, from, to, knew),
         \A row \in rows : row.run = p /\ row.uuid \in knew => row.normal /\ row.day \in from .. to
  PROVE  run'[p].knew \subseteq Resolved' /\ Ahead(p, run'[p], staging')
<1> DEFINE s == run'[p]
<1>1. /\ s.at = (IF LastBatch(from, to) THEN "cleanup" ELSE "batch")
      /\ s.knew = knew /\ s.from = from + BatchDays /\ s.to = to
  BY DEF PromoteBatch, RunTypes, ChainStates
<1>2. staging' = rows \ InBatch(rows, from) /\ Resolved' = Resolved
  BY DEF PromoteBatch, Resolved, identityVars
<1> HIDE DEF s
<1>3. ASSUME NEW row \in staging', row.run = p, row.uuid \in knew
      PROVE  s.at = "batch" /\ row.normal /\ row.day \in s.from .. s.to
  <2>1. row \in rows /\ row \notin InBatch(rows, from) /\ row.uuid \in Resolved
    BY <1>2, <1>3
  <2>2. row.normal /\ row.day \in from .. to
    BY <1>3, <2>1
  <2>3. row.day \notin from .. from + BatchDays - 1
    BY <2>1, <2>2 DEF InBatch
  <2>4. ~ LastBatch(from, to) /\ row.day \in from + BatchDays .. to
    BY <2>2, <2>3, MtgjsonAssumption DEF LastBatch
  <2>5. QED
    BY <1>1, <2>2, <2>4
<1>4. QED
  BY <1>1, <1>2, <1>3 DEF Ahead, s

LEMMA PromotingKeeps ==
  ASSUME MtgjsonInv, RunTypes, RowTypes, RestTypes, MtgjsonNext
  PROVE  Promoting'
<1>1. Resolved \subseteq Resolved'
  BY ResolvedGrows
<1> SUFFICES ASSUME NEW r \in Runs, Promotes(run'[r])
             PROVE  run'[r].knew \subseteq Resolved' /\ Ahead(r, run'[r], staging')
  BY DEF Promoting
<1>2. CASE UNCHANGED <<run, staging>>
  <2>1. \A row \in staging' : Stems(row, staging)
    BY <1>2 DEF Stems
  <2>2. QED
    BY <1>1, <1>2, <2>1, OthersStayAhead
<1>3. ASSUME NEW p \in Runs, staging' = staging \/ staging' = {}, \A q \in Runs : q # p => run'[q] = run[q],
             ~ Promotes(run'[p])
      PROVE  run'[r].knew \subseteq Resolved' /\ Ahead(r, run'[r], staging')
  <2>1. \A row \in staging' : Stems(row, staging)
    BY <1>3 DEF Stems
  <2>2. r # p /\ run'[r] = run[r]
    BY <1>3
  <2>3. QED
    BY <1>1, <2>1, <2>2, OthersStayAhead
<1>4. ASSUME NEW p \in Runs,
             \/ Start(p) \/ SyncUuids(p) \/ Download(p) \/ StartStream(p) \/ CleanupStaging(p)
             \/ CleanupFiles(p) \/ StepFails(p)
      PROVE  run'[r].knew \subseteq Resolved' /\ Ahead(r, run'[r], staging')
  <2>1. staging' = staging \/ staging' = {}
    BY <1>4 DEF Start, SyncUuids, Download, StartStream, CleanupStaging, CleanupFiles, StepFails
  <2>2. \A q \in Runs : q # p => run'[q] = run[q]
    BY <1>4 DEF Start, SyncUuids, Download, StartStream, CleanupStaging, CleanupFiles, StepFails,
                To, RunTypes
  <2>3. run'[p].at \notin {"batch", "cleanup"}
    BY <1>4 DEF Start, SyncUuids, Download, StartStream, CleanupStaging, CleanupFiles, StepFails,
                To, RunTypes, ChainStates, IdleRun
  <2>4. QED
    BY <1>3, <2>1, <2>2, <2>3 DEF Promotes
<1>5. ASSUME NEW p \in Runs, Stream(p)
      PROVE  run'[r].knew \subseteq Resolved' /\ Ahead(r, run'[r], staging')
  <2>1. \A q \in Runs : q # p => run'[q] = run[q]
    BY <1>5 DEF Stream, To, RunTypes
  <2>2. run'[p].at = "promote"
    BY <1>5 DEF Stream, To, RunTypes, ChainStates
  <2>3. r # p
    BY <2>2 DEF Promotes
  <2>4. \A row \in staging' : row.run = r => row \in staging
    BY <1>5, <2>3 DEF Stream
  <2>5. QED
    BY <1>1, <2>1, <2>3, <2>4, OthersStayAhead DEF Stems
<1>6. ASSUME NEW p \in Runs, StartPromote(p) \/ NextBatch(p)
      PROVE  run'[r].knew \subseteq Resolved' /\ Ahead(r, run'[r], staging')
  <2>1. CASE staging = {} /\ StartPromote(p)
    <3>1. staging' = {} /\ Resolved' = Resolved
      BY <2>1 DEF StartPromote, identityVars, Resolved
    <3>2. run' = [run EXCEPT ![p] = [@ EXCEPT !.at = "cleanup", !.knew = Resolved]]
      BY <2>1 DEF StartPromote
    <3>3. run'[p].knew = Resolved /\ \A q \in Runs : q # p => run'[q] = run[q]
      BY <3>2 DEF RunTypes, ChainStates
    <3>4. run'[r].knew \subseteq Resolved'
      BY <1>1, <3>1, <3>3 DEF MtgjsonInv, Promoting
    <3>5. QED
      BY <3>1, <3>4 DEF Ahead
  <2>2. CASE staging # {} \/ NextBatch(p)
    <3>1. PICK rows \in SUBSET StagedRows, from \in Nat, to \in Nat, knew \in SUBSET Faces :
            /\ PromoteBatch(p, rows, from, to, knew)
            /\ \/ /\ run[p].at = "promote" /\ rows = Normalised /\ knew = Resolved
                  /\ \A row \in rows : row.normal /\ row.day \in from .. to
               \/ /\ run[p].at = "batch" /\ rows = staging
                  /\ from = run[p].from /\ to = run[p].to /\ knew = run[p].knew
      BY <1>6, <2>2, PromotesABatch
    <3>2. CASE r = p
      <4>1. knew \in SUBSET Resolved /\ \A row \in rows :
              row.run = p /\ row.uuid \in knew => row.normal /\ row.day \in from .. to
        BY <3>1 DEF MtgjsonInv, Promoting, Promotes, Ahead
      <4>2. QED
        BY <3>1, <3>2, <4>1, BatchStaysAhead
    <3>3. CASE r # p
      <4>1. run'[r] = run[r] /\ staging' \subseteq rows
        BY <3>1, <3>3 DEF PromoteBatch, RunTypes
      <4>2. \A row \in rows : Stems(row, staging)
        BY <3>1 DEF Stems, Normalised, RowTypes, StagedRows
      <4>3. QED
        BY <1>1, <4>1, <4>2, OthersStayAhead
    <3>4. QED
      BY <3>2, <3>3
  <2>3. QED
    BY <1>6, <2>1, <2>2
<1>7. UNCHANGED <<run, staging>> \/ \E p \in Runs :
        \/ Start(p) \/ SyncUuids(p) \/ Download(p) \/ StartStream(p) \/ Stream(p)
        \/ StartPromote(p) \/ NextBatch(p) \/ CleanupStaging(p) \/ CleanupFiles(p) \/ StepFails(p)
  BY DEF MtgjsonNext, NewDate, ImportVersion, BootstrapSealed, RouteByHand, PromoteSealed, CleanupSealed
<1>8. QED
  BY <1>2, <1>4, <1>5, <1>6, <1>7

LEMMA SurviveKeeps ==
  ASSUME MtgjsonInv, MtgjsonNext
  PROVE  OwnPricesSurvive'
<1>1. dropped' = dropped \/ \E r \in Runs : CleanupStaging(r)
  BY DEF MtgjsonNext, NewDate, ImportVersion, Start, SyncUuids, Download, StartStream, Stream,
         StartPromote, NextBatch, PromoteBatch, CleanupFiles, StepFails, BootstrapSealed,
         RouteByHand, PromoteSealed, CleanupSealed
<1>2. ASSUME NEW r \in Runs, CleanupStaging(r), NEW row \in staging
      PROVE  ~ (row.run = r /\ row.uuid \in run[r].knew)
  BY <1>2 DEF CleanupStaging, MtgjsonInv, Promoting, Promotes, Ahead
<1>3. CASE \E r \in Runs : CleanupStaging(r)
  <2>1. PICK r \in Runs : CleanupStaging(r)
    BY <1>3
  <2>2. ASSUME NEW d \in dropped', d.own, d.known PROVE FALSE
    <3>1. CASE d \in dropped
      BY <2>2, <3>1 DEF MtgjsonInv, OwnPricesSurvive
    <3>2. CASE d \notin dropped
      <4>1. PICK row \in staging : d = [uuid |-> row.uuid, own |-> row.run = r,
                                        known |-> row.uuid \in run[r].knew]
        BY <2>1, <3>2 DEF CleanupStaging
      <4>2. d.own = (row.run = r) /\ d.known = (row.uuid \in run[r].knew)
        BY <4>1
      <4>3. QED
        BY <1>2, <2>1, <2>2, <4>2
    <3>3. QED
      BY <3>1, <3>2
  <2>3. QED
    BY <2>2 DEF OwnPricesSurvive
<1>4. QED
  BY <1>1, <1>3 DEF MtgjsonInv, OwnPricesSurvive

LEMMA MtgjsonInvHolds == MtgjsonSpec => []MtgjsonInv
<1>1. MtgjsonInit => MtgjsonInv
  <2> SUFFICES ASSUME MtgjsonInit PROVE MtgjsonInv
    OBVIOUS
  <2>1. IdleRun \in ChainStates /\ ~ Promotes(IdleRun)
    BY DEF IdleRun, ChainStates, NoFile, Promotes
  <2>2. RunTypes /\ RowTypes /\ RestTypes
    BY <2>1, MtgjsonAssumption DEF MtgjsonInit, RunTypes, RowTypes, RestTypes, Dates
  <2>3. Promoting /\ OwnPricesSurvive
    BY <2>1 DEF MtgjsonInit, Promoting, OwnPricesSurvive
  <2>4. QED
    BY <2>2, <2>3, MtgjsonTypesAre DEF MtgjsonInv
<1>2. MtgjsonInv /\ [MtgjsonNext]_mtgjsonVars => MtgjsonInv'
  <2> SUFFICES ASSUME MtgjsonInv, [MtgjsonNext]_mtgjsonVars PROVE MtgjsonInv'
    OBVIOUS
  <2>1. RunTypes /\ RowTypes /\ RestTypes
    BY MtgjsonTypesAre DEF MtgjsonInv
  <2>2. CASE MtgjsonNext
    <3>1. RunTypes' /\ RowTypes' /\ RestTypes'
      BY <2>1, <2>2, MtgjsonTypesKeep
    <3>2. MtgjsonTypeOK'
      BY <3>1 DEF MtgjsonTypeOK, RunTypes, RowTypes, RestTypes, ChainStates, StagedRows
    <3>3. QED
      BY <2>1, <2>2, <3>2, PromotingKeeps, SurviveKeeps DEF MtgjsonInv
  <2>3. CASE UNCHANGED mtgjsonVars
    BY <2>3 DEF mtgjsonVars, identityVars, sealedVars, fileVars, MtgjsonInv, MtgjsonTypeOK,
                Promoting, Promotes, Ahead, Resolved, OwnPricesSurvive
  <2>4. QED
    BY <2>2, <2>3
<1>3. QED
  BY <1>1, <1>2, PTL DEF MtgjsonSpec

(* However the runs of the chain and of an operator interleave over the one    *)
(* staging table, and whichever of their steps fail, the cleanup of a run      *)
(* never throws away a price it has staged of a card it could resolve.         *)
THEOREM OwnPricesAlwaysSurvive == MtgjsonSpec => []OwnPricesSurvive
<1>1. MtgjsonInv => OwnPricesSurvive
  BY DEF MtgjsonInv
<1>2. QED
  BY <1>1, MtgjsonInvHolds, PTL

-----------------------------------------------------------------------------
(* The matches of PriceCharting.  A product has no match, the one of a run, or *)
(* the one an operator has locked it to.                                       *)
MarketForm ==
  /\ map = [p \in Products |-> map[p]] /\ locked = [p \in Products |-> locked[p]]
  /\ sold = [p \in Products |-> sold[p]] /\ staged = [s \in Sales |-> staged[s]]
  /\ match = [on |-> match.on, existing |-> match.existing, todo |-> match.todo,
              upserts |-> match.upserts]
  /\ listed \subseteq Sales /\ \A p \in Products : sold[p].sales \subseteq Sales

LockInv ==
  \A p \in Products : /\ locked[p] # None => map[p].verified
                      /\ map[p].version = None => ~ Confident(map[p])

(* A run matches what had no match when it began, each product once.           *)
ChoiceInv ==
  match.on =>
    /\ \A p \in Products : map[p].version # None /\ locked[p] = None => p \in match.existing
    /\ \A u \in match.upserts :
         /\ u = <<u[1], u[2]>> /\ u[1] \in Products \ (match.existing \cup match.todo)
         /\ ~ u[2].verified /\ (u[2].version = None => ~ Confident(u[2]))
    /\ \A u, w \in match.upserts : u[1] = w[1] => u = w

Sound(c) ==
  /\ c = [txn |-> c.txn, pending |-> c.pending, saved |-> c.saved]
  /\ c.txn \in TxnStates /\ (c.txn = "none" => c.pending = {})

TxnInv == Sound(db) /\ (~ match.on => db.txn = "none")

(* The identifiers that are committed or will be with the run.                 *)
KeptLinks(c) == c.saved \cup (IF c.txn = "open" THEN c.pending ELSE {})
Has(links, v) == \E q \in Products : <<v, q>> \in links

RegisteredInv ==
  /\ \A p \in Products \ unlinked :
       Confident(map[p]) /\ ~ map[p].verified => Has(db.saved, map[p].version)
  /\ match.on => \A u \in match.upserts :
       u[1] \notin unlinked /\ Confident(u[2]) => Has(KeptLinks(db), u[2].version)

PickedInv ==
  /\ \A r \in picked :
       /\ r = <<r[1], r[2]>> /\ r[1] \in Sales /\ r[2] # None
       /\ r[2] = map[r[1].product].version \/ locked[r[1].product] # None
  /\ \A r, w \in picked : r[1] = w[1] => r = w

MatchInv ==
  /\ MarketForm /\ LockInv /\ ChoiceInv /\ TxnInv /\ RegisteredInv /\ PickedInv
  /\ VerifiedIsKept /\ StagedAsMatched

(* Of the candidates of a product one wins.                                    *)
LEMMA WinnerIs ==
  ASSUME NEW p \in Products, Candidates[p] # {}, NEW id
  PROVE  Winner(p, id) \in Candidates[p]
<1> DEFINE title == Title[p]
           numbered == ByNumber(Candidates[p], title)
           treated == ByTreatment(numbered, title)
<1>1. numbered # {} /\ numbered \subseteq Candidates[p]
  BY DEF ByNumber
<1> HIDE DEF numbered
<1>2. treated # {} /\ treated \subseteq numbered
  <2> DEFINE signals == (title.words \cap Treatments) \
                          (IF "foil" \in title.words THEN {"etched", "dazzlefoil"} ELSE {})
             scores == {Score(c, title) : c \in numbered}
  <2>1. IsFiniteSet(signals)
    BY PriceChartingAssumption, FS_Subset
  <2> HIDE DEF signals
  <2>2. ASSUME NEW c PROVE Score(c, title) \in Int /\ Score(c, title) <= 3 * Cardinality(signals)
    <3>1. /\ Cardinality(signals \cap c.effects) \in Nat
          /\ Cardinality(signals \cap c.effects) <= Cardinality(signals)
          /\ Cardinality(signals \ c.effects) \in Nat /\ Cardinality(signals) \in Nat
      BY <2>1, FS_Intersection, FS_Difference, FS_CardinalityType
    <3>2. Score(c, title) = 3 * Cardinality(signals \cap c.effects) - 2 * Cardinality(signals \ c.effects)
      BY DEF Score, signals
    <3>3. QED
      BY <3>1, <3>2
  <2> HIDE DEF title
  <2>3. scores \in SUBSET Int /\ scores # {}
    BY <1>1, <2>2
  <2>4. 3 * Cardinality(signals) \in Int /\ \A n \in scores : n <= 3 * Cardinality(signals)
    BY <2>1, <2>2, FS_CardinalityType
  <2>5. Max(scores) \in scores
    <3> HIDE DEF scores
    <3>1. \E m \in scores : \A n \in scores : m >= n
      BY <2>3, <2>4, HasGreatest
    <3>2. QED
      BY <3>1 DEF Max
  <2>6. \E c \in numbered : Score(c, title) = Max(scores)
    BY <2>5
  <2>7. QED
    BY <1>1, <2>6 DEF ByTreatment
<1> HIDE DEF treated
<1>3. Winners(p, id) = ByTcg(treated, id)
  BY DEF Winners, treated, numbered
<1>4. Winners(p, id) # {} /\ Winners(p, id) \subseteq treated
  BY <1>2, <1>3, FS_EmptySet DEF ByTcg
<1>5. \E c \in Winners(p, id) : \A d \in Winners(p, id) : c.number <= d.number
  <2> DEFINE numbers == {c.number : c \in Winners(p, id)}
  <2>1. \A c \in Winners(p, id) : c.number \in Nat
    BY <1>1, <1>2, <1>4, PriceChartingAssumption
  <2>2. numbers \in SUBSET Nat /\ numbers # {}
    BY <1>4, <2>1
  <2>3. /\ \A c \in Winners(p, id) : c.number \in numbers
        /\ \A n \in numbers : \E c \in Winners(p, id) : n = c.number
    OBVIOUS
  <2> HIDE DEF numbers
  <2>4. PICK n \in numbers : \A k \in numbers : n <= k
    BY <2>2, HasLeast
  <2>5. QED
    BY <2>3, <2>4
<1>6. Winner(p, id) \in Winners(p, id)
  BY <1>5 DEF Winner
<1>7. QED
  BY <1>1, <1>2, <1>4, <1>6

LEMMA RowIs ==
  ASSUME NEW p \in Products, NEW tcg
  PROVE  ~ Row(p, tcg).verified /\ (Row(p, tcg).version = None => ~ Confident(Row(p, tcg)))
<1>1. CASE Candidates[p] = {}
  BY <1>1 DEF Row, NoRow, Confident
<1>2. CASE Candidates[p] # {}
  <2>1. Winner(p, tcg.id).version \in Printings
    BY <1>2, WinnerIs DEF Printings
  <2>2. Winner(p, tcg.id).version # None
    BY <2>1, PriceChartingAssumption
  <2>3. QED
    BY <1>2, <2>2 DEF Row
<1>3. QED
  BY <1>1, <1>2

LEMMA ScrapesKeep ==
  ASSUME MatchInv,
         \/ \E s \in Sales : SiteChanges(s)
         \/ \E p \in Products, force \in BOOLEAN : ScrapeCatalog(p, force) \/ ScrapeSales(p, force)
  PROVE  MatchInv'
<1>1. UNCHANGED <<map, match, db, picked, staged, locked, unlinked>>
  BY DEF SiteChanges, ScrapeCatalog, ScrapeSales
<1>2. listed' \subseteq Sales
  BY DEF MatchInv, MarketForm, SiteChanges, ScrapeCatalog, ScrapeSales
<1>3. sold' = [p \in Products |-> sold'[p]] /\ \A p \in Products : sold'[p].sales \subseteq Sales
  <2>1. CASE UNCHANGED sold
    BY <2>1 DEF MatchInv, MarketForm
  <2>2. CASE \E p \in Products, force \in BOOLEAN : ScrapeSales(p, force)
    <3>1. PICK p \in Products, force \in BOOLEAN : ScrapeSales(p, force)
      BY <2>2
    <3>2. PICK file \in {[page |-> p, sales |-> {s \in listed : s.product = p}],
                         [page |-> "empty", sales |-> {}]} : sold' = [sold EXCEPT ![p] = file]
      BY <3>1 DEF ScrapeSales
    <3>3. file.sales \subseteq Sales
      BY DEF MatchInv, MarketForm
    <3>4. QED
      BY <3>2, <3>3 DEF MatchInv, MarketForm
  <2>3. QED
    BY <2>1, <2>2 DEF SiteChanges, ScrapeCatalog, scraped
<1>4. MarketForm'
  BY <1>1, <1>2, <1>3 DEF MatchInv, MarketForm
<1>5. LockInv' /\ ChoiceInv' /\ TxnInv' /\ RegisteredInv' /\ PickedInv' /\ VerifiedIsKept' /\ StagedAsMatched'
  BY <1>1 DEF MatchInv, LockInv, ChoiceInv, TxnInv, RegisteredInv, PickedInv, VerifiedIsKept,
              StagedAsMatched, Confident
<1>6. QED
  BY <1>4, <1>5 DEF MatchInv

(* What changes the run and its connection only.                               *)
LEMMA MapStays ==
  ASSUME MatchInv, UNCHANGED <<listed, sold, map, picked, staged, locked>>,
         match' = [on |-> match'.on, existing |-> match'.existing, todo |-> match'.todo,
                   upserts |-> match'.upserts],
         ChoiceInv', TxnInv', RegisteredInv'
  PROVE  MatchInv'
BY DEF MatchInv, MarketForm, LockInv, PickedInv, VerifiedIsKept, StagedAsMatched, Confident

LEMMA StartMatchKeeps ==
  ASSUME MatchInv, StartMatch
  PROVE  MatchInv'
<1>1. UNCHANGED <<listed, sold, map, picked, staged, locked, unlinked>>
  BY DEF StartMatch, scraped
<1>2. /\ match'.on /\ match'.upserts = {} /\ match' = [on |-> match'.on, existing |-> match'.existing,
                                            todo |-> match'.todo, upserts |-> match'.upserts]
      /\ \A p \in Products : map[p].version # None => p \in match'.existing
  BY DEF StartMatch
<1>3. db'.txn = "open" /\ db'.saved = db.saved /\ Sound(db')
  <2>1. db' = [db EXCEPT !.txn = "open"]
    BY DEF StartMatch, Begin
  <2>2. QED
    BY <2>1 DEF MatchInv, TxnInv, Sound, TxnStates
<1>4. ChoiceInv' /\ TxnInv'
  BY <1>1, <1>2, <1>3 DEF ChoiceInv, TxnInv
<1>5. RegisteredInv'
  BY <1>1, <1>2, <1>3 DEF MatchInv, RegisteredInv, Confident
<1>6. QED
  BY <1>1, <1>2, <1>4, <1>5, MapStays

LEMMA SkipKeeps ==
  ASSUME MatchInv, NEW p \in Products, SkipProduct(p)
  PROVE  MatchInv'
<1>1. UNCHANGED <<listed, sold, map, picked, staged, locked, unlinked, db>>
  BY DEF SkipProduct, scraped
<1>2. /\ match' = [on |-> match'.on, existing |-> match'.existing, todo |-> match'.todo,
                   upserts |-> match'.upserts]
      /\ match'.on = match.on /\ match'.existing = match.existing
      /\ match'.todo = match.todo \ {p} /\ match'.upserts = match.upserts
  BY DEF SkipProduct, Done, MatchInv, MarketForm
<1>3. Sound(db')
  BY <1>1 DEF MatchInv, TxnInv
<1>4. ChoiceInv' /\ TxnInv'
  BY <1>1, <1>2, <1>3 DEF MatchInv, ChoiceInv, TxnInv, Confident
<1>5. RegisteredInv'
  BY <1>1, <1>2 DEF MatchInv, RegisteredInv, Confident
<1>6. QED
  BY <1>1, <1>2, <1>4, <1>5, MapStays

LEMMA Executed ==
  ASSUME NEW c, Sound(c), NEW rows
  PROVE  /\ Sound(Execute(c, rows, TRUE)) /\ c.saved \subseteq Execute(c, rows, TRUE).saved
         /\ KeptLinks(c) \cup rows \subseteq KeptLinks(Execute(c, rows, TRUE))
         /\ Sound(Execute(c, rows, FALSE)) /\ Execute(c, rows, FALSE).saved = c.saved
         /\ Ready(c).pending \cup c.saved = KeptLinks(c)
<1>1. CASE c.txn = "open"
  BY <1>1 DEF Sound, TxnStates, Execute, Wrote, Failed, Ready, KeptLinks
<1>2. CASE c.txn = "aborted"
  BY <1>2 DEF Sound, TxnStates, Execute, Wrote, Failed, Ready, Rollback, KeptLinks
<1>3. CASE c.txn = "none"
  BY <1>3 DEF Sound, TxnStates, Execute, Wrote, Failed, Ready, KeptLinks
<1>4. QED
  BY <1>1, <1>2, <1>3 DEF Sound, TxnStates

LEMMA TxnEnds ==
  ASSUME NEW c, Sound(c)
  PROVE  /\ Sound(Commit(c)) /\ Commit(c).txn = "none" /\ Commit(c).saved = KeptLinks(c)
         /\ Sound(Rollback(c)) /\ Rollback(c).txn = "none" /\ Rollback(c).saved = c.saved
<1> DEFINE saved == IF c.txn = "open" THEN c.saved \cup c.pending ELSE c.saved
<1>1. saved = KeptLinks(c)
  BY DEF KeptLinks
<1>2. Commit(c) = [c EXCEPT !.txn = "none", !.pending = {}, !.saved = saved]
  BY DEF Commit
<1> HIDE DEF saved
<1>3. Sound(Commit(c)) /\ Commit(c).txn = "none" /\ Commit(c).saved = KeptLinks(c)
  BY <1>1, <1>2 DEF Sound, TxnStates
<1>4. Sound(Rollback(c)) /\ Rollback(c).txn = "none" /\ Rollback(c).saved = c.saved
  <2> DEFINE d == [c EXCEPT !.txn = "none"]
  <2>1. d = [txn |-> "none", pending |-> c.pending, saved |-> c.saved]
    BY DEF Sound
  <2>2. Rollback(c) = [d EXCEPT !.pending = {}]
    BY DEF Rollback
  <2> HIDE DEF d
  <2>3. Rollback(c) = [txn |-> "none", pending |-> {}, saved |-> c.saved]
    BY <2>1, <2>2
  <2>4. QED
    BY <2>3 DEF Sound, TxnStates
<1>5. QED
  BY <1>3, <1>4

LEMMA MatchProductKeeps ==
  ASSUME MatchInv, NEW p \in Products, MatchProduct(p)
  PROVE  MatchInv'
<1>1. UNCHANGED <<listed, sold, map, picked, staged, locked>>
  BY DEF MatchProduct, scraped
<1>2. PICK row :
        /\ ~ row.verified /\ (row.version = None => ~ Confident(row))
        /\ match' = [match EXCEPT !.todo = @ \ {p}, !.upserts = @ \cup {<<p, row>>}]
        /\ \/ ~ Confident(row) /\ UNCHANGED <<db, unlinked>>
           \/ db' = Execute(db, Link(row.version, p), TRUE) /\ unlinked' = unlinked \ {p}
           \/ /\ db' = Execute(db, {}, FALSE)
              /\ unlinked' = unlinked \cup {p} \cup LinksBefore
  <2>1. PICK tcg : LET row == Row(p, tcg)
                   IN /\ match' = [match EXCEPT !.todo = @ \ {p}, !.upserts = @ \cup {<<p, row>>}]
                      /\ \/ ~ Confident(row) /\ UNCHANGED <<db, unlinked>>
                         \/ db' = Execute(db, Link(row.version, p), TRUE) /\ unlinked' = unlinked \ {p}
                         \/ /\ db' = Execute(db, {}, FALSE)
                            /\ unlinked' = unlinked \cup {p} \cup LinksBefore
    BY DEF MatchProduct
  <2>2. QED
    BY <2>1, RowIs
<1>3. /\ match.on /\ p \in match.todo /\ p \notin match.existing
      /\ MarketForm /\ LockInv /\ ChoiceInv /\ TxnInv /\ RegisteredInv
  BY DEF MatchProduct, Matching, Skips, MatchInv
<1>4. /\ match' = [on |-> match'.on, existing |-> match'.existing, todo |-> match'.todo,
                   upserts |-> match'.upserts]
      /\ match'.on /\ match'.existing = match.existing
      /\ match'.todo = match.todo \ {p} /\ match'.upserts = match.upserts \cup {<<p, row>>}
  BY <1>2, <1>3 DEF MarketForm
<1>5. ChoiceInv'
  <2>1. ASSUME NEW u \in match'.upserts
        PROVE  /\ u = <<u[1], u[2]>> /\ u[1] \in Products \ (match'.existing \cup match'.todo)
               /\ ~ u[2].verified /\ (u[2].version = None => ~ Confident(u[2]))
    <3>1. CASE u \in match.upserts
      BY <1>3, <1>4, <3>1 DEF ChoiceInv
    <3>2. CASE u = <<p, row>>
      BY <1>2, <1>3, <1>4, <3>2
    <3>3. QED
      BY <1>4, <3>1, <3>2
  <2>2. \A u, w \in match'.upserts : u[1] = w[1] => u = w
    <3>1. \A u \in match.upserts : u[1] # p
      BY <1>3 DEF ChoiceInv
    <3>2. QED
      BY <1>3, <1>4, <3>1 DEF ChoiceInv
  <2>3. \A q \in Products : map'[q].version # None /\ locked'[q] = None => q \in match'.existing
    BY <1>1, <1>3, <1>4 DEF ChoiceInv
  <2>4. QED
    BY <2>1, <2>2, <2>3 DEF ChoiceInv, Confident
<1>6. TxnInv'
  <2>1. Sound(db)
    BY <1>3 DEF TxnInv
  <2>2. Sound(Execute(db, Link(row.version, p), TRUE)) /\ Sound(Execute(db, {}, FALSE))
    BY <2>1, Executed
  <2>3. Sound(db')
    BY <1>2, <2>1, <2>2
  <2>4. QED
    BY <1>4, <2>3 DEF TxnInv
<1>7. ASSUME db.saved \subseteq db'.saved, unlinked \ {p} \subseteq unlinked',
             \A u \in match.upserts : u[1] \notin unlinked' /\ Confident(u[2]) => Has(KeptLinks(db'), u[2].version),
             p \notin unlinked' /\ Confident(row) => Has(KeptLinks(db'), row.version)
      PROVE  RegisteredInv'
  <2>1. ASSUME NEW q \in Products, q \notin unlinked', Confident(map[q]), ~ map[q].verified
        PROVE  Has(db'.saved, map[q].version)
    <3>1. q # p
      BY <1>3, <2>1 DEF LockInv, ChoiceInv
    <3>2. Has(db.saved, map[q].version)
      BY <1>3, <1>7, <2>1, <3>1 DEF RegisteredInv
    <3>3. QED
      BY <1>7, <3>2 DEF Has
  <2>2. \A u \in match'.upserts :
          u[1] \notin unlinked' /\ Confident(u[2]) => Has(KeptLinks(db'), u[2].version)
    BY <1>4, <1>7
  <2>3. QED
    BY <1>1, <2>1, <2>2 DEF RegisteredInv, Confident
<1>8. ASSUME ~ Confident(row), UNCHANGED <<db, unlinked>>
      PROVE  RegisteredInv'
  BY <1>3, <1>7, <1>8 DEF RegisteredInv
<1>9. ASSUME db' = Execute(db, Link(row.version, p), TRUE), unlinked' = unlinked \ {p}
      PROVE  RegisteredInv'
  <2>1. db.saved \subseteq db'.saved /\ KeptLinks(db) \cup Link(row.version, p) \subseteq KeptLinks(db')
    BY <1>3, <1>9, Executed DEF TxnInv
  <2>2. Has(KeptLinks(db'), row.version)
    <3>1. CASE \E q \in Products : <<row.version, q>> \in Ready(db).pending \cup db.saved
      <4>1. Has(KeptLinks(db), row.version)
        BY <1>3, <3>1, Executed DEF TxnInv, Has
      <4>2. QED
        BY <2>1, <4>1 DEF Has
    <3>2. CASE ~ \E q \in Products : <<row.version, q>> \in Ready(db).pending \cup db.saved
      <4>1. <<row.version, p>> \in Link(row.version, p)
        BY <3>2 DEF Link
      <4>2. QED
        BY <2>1, <4>1 DEF Has
    <3>3. QED
      BY <3>1, <3>2
  <2>3. ASSUME NEW u \in match.upserts, u[1] \notin unlinked', Confident(u[2])
        PROVE  Has(KeptLinks(db'), u[2].version)
    <3>1. u[1] # p
      BY <1>3 DEF ChoiceInv
    <3>2. Has(KeptLinks(db), u[2].version)
      BY <1>3, <1>9, <2>3, <3>1 DEF RegisteredInv
    <3>3. QED
      BY <2>1, <3>2 DEF Has
  <2>4. QED
    BY <1>7, <1>9, <2>1, <2>2, <2>3
<1>10. ASSUME db' = Execute(db, {}, FALSE), unlinked' = unlinked \cup {p} \cup LinksBefore
       PROVE  RegisteredInv'
  <2>1. db'.saved = db.saved
    BY <1>3, <1>10, Executed DEF TxnInv
  <2>2. ASSUME NEW u \in match.upserts, u[1] \notin unlinked', Confident(u[2])
        PROVE  Has(KeptLinks(db'), u[2].version)
    <3>1. Has(KeptLinks(db), u[2].version)
      BY <1>3, <1>10, <2>2 DEF RegisteredInv
    <3>2. ~ \E q \in Products : <<u[2].version, q>> \in db.pending
      BY <1>10, <2>2 DEF LinksBefore
    <3>3. Has(db.saved, u[2].version)
      BY <3>1, <3>2 DEF Has, KeptLinks
    <3>4. QED
      BY <2>1, <3>3 DEF Has, KeptLinks
  <2>3. QED
    BY <1>7, <1>10, <2>1, <2>2
<1>11. RegisteredInv'
  BY <1>2, <1>8, <1>9, <1>10
<1>12. QED
  BY <1>1, <1>4, <1>5, <1>6, <1>11, MapStays

(* At its end a run leaves each product it has matched what it found, unless   *)
(* the product is locked.                                                      *)
LEMMA UpsertIs ==
  ASSUME MatchInv, match.on, NEW p \in Products
  PROVE  \/ Upsert(match.upserts)[p] = map[p]
         \/ \E u \in match.upserts :
              /\ u[1] = p /\ Upsert(match.upserts)[p] = u[2] /\ ~ map[p].verified
              /\ map[p].version = None
<1>1. CASE ~ map[p].verified /\ \E u \in match.upserts : u[1] = p
  <2>1. PICK u \in match.upserts : u[1] = p
    BY <1>1
  <2>2. (CHOOSE r \in match.upserts : r[1] = p) = u
    BY <2>1 DEF MatchInv, ChoiceInv
  <2>3. Upsert(match.upserts)[p] = u[2]
    BY <1>1, <2>2 DEF Upsert, Found
  <2>4. map[p].version = None
    BY <1>1, <2>1 DEF MatchInv, ChoiceInv, LockInv
  <2>5. QED
    BY <1>1, <2>1, <2>3, <2>4
<1>2. CASE ~ (~ map[p].verified /\ \E u \in match.upserts : u[1] = p)
  BY <1>2 DEF Upsert
<1>3. QED
  BY <1>1, <1>2

LEMMA EndMatchKeeps ==
  ASSUME MatchInv, EndMatch
  PROVE  MatchInv'
<1>1. /\ UNCHANGED <<listed, sold, picked, staged, locked, unlinked>>
      /\ match.on /\ map' = Upsert(match.upserts) /\ match' = Idle
      /\ MarketForm /\ LockInv /\ ChoiceInv /\ TxnInv /\ RegisteredInv /\ PickedInv
      /\ VerifiedIsKept /\ StagedAsMatched
  BY DEF EndMatch, scraped, MatchInv
<1>2. ASSUME NEW p \in Products
      PROVE  \/ map'[p] = map[p]
             \/ \E u \in match.upserts : /\ u[1] = p /\ map'[p] = u[2] /\ ~ map[p].verified
                                         /\ map[p].version = None
  BY <1>1, UpsertIs
<1>3. Sound(db') /\ db'.txn = "none" /\ KeptLinks(db) \subseteq db'.saved
  <2>1. CASE match.upserts = {}
    BY <1>1, <2>1, TxnEnds DEF TxnInv, EndMatch
  <2>2. CASE match.upserts # {}
    <3> DEFINE c == Execute(db, {}, TRUE)
    <3>1. Sound(c) /\ KeptLinks(db) \subseteq KeptLinks(c)
      BY <1>1, Executed DEF TxnInv
    <3>2. db' = Commit(c)
      BY <2>2 DEF EndMatch
    <3> HIDE DEF c
    <3>3. QED
      BY <3>1, <3>2, TxnEnds
  <2>3. QED
    BY <2>1, <2>2
<1>4. MarketForm'
  BY <1>1 DEF MarketForm, Upsert, Idle
<1>5. LockInv'
  BY <1>1, <1>2 DEF LockInv, ChoiceInv, Confident
<1>6. ChoiceInv' /\ TxnInv'
  BY <1>1, <1>3 DEF ChoiceInv, TxnInv, Idle
<1>7. RegisteredInv'
  <2>1. ASSUME NEW p \in Products, p \notin unlinked, Confident(map'[p]), ~ map'[p].verified
        PROVE  Has(db'.saved, map'[p].version)
    <3>1. CASE map'[p] = map[p]
      <4>1. Has(db.saved, map'[p].version)
        BY <1>1, <2>1, <3>1 DEF RegisteredInv
      <4>2. QED
        BY <1>3, <4>1 DEF Has, KeptLinks
    <3>2. CASE \E u \in match.upserts : u[1] = p /\ map'[p] = u[2]
      <4>1. Has(KeptLinks(db), map'[p].version)
        BY <1>1, <2>1, <3>2 DEF RegisteredInv
      <4>2. QED
        BY <1>3, <4>1 DEF Has
    <3>3. QED
      BY <1>2, <3>1, <3>2
  <2>2. QED
    BY <1>1, <2>1 DEF RegisteredInv, Idle, Confident
<1>8. VerifiedIsKept'
  BY <1>1, <1>2 DEF VerifiedIsKept, ChoiceInv
<1>9. \A s \in Sales : s.product \in Products
  BY PriceChartingAssumption
<1>10. StagedAsMatched'
  BY <1>1, <1>2, <1>9 DEF StagedAsMatched
<1>11. PickedInv'
  BY <1>1, <1>2, <1>9 DEF PickedInv
<1>12. QED
  BY <1>4, <1>5, <1>6, <1>7, <1>8, <1>10, <1>11 DEF MatchInv

LEMMA MatchFailsKeeps ==
  ASSUME MatchInv, MatchFails
  PROVE  MatchInv'
<1>1. UNCHANGED <<listed, sold, map, picked, staged, locked, unlinked>> /\ match' = Idle
  BY DEF MatchFails, scraped
<1>2. Sound(db') /\ db'.txn = "none" /\ db'.saved = db.saved
  BY TxnEnds DEF MatchFails, MatchInv, TxnInv
<1>3. ChoiceInv' /\ TxnInv'
  BY <1>1, <1>2 DEF ChoiceInv, TxnInv, Idle
<1>4. RegisteredInv'
  BY <1>1, <1>2 DEF MatchInv, RegisteredInv, Idle, Confident
<1>5. QED
  BY <1>1, <1>3, <1>4, MapStays DEF Idle

LEMMA VerifyKeeps ==
  ASSUME MatchInv, NEW p \in Products, NEW v \in Printings, Verify(p, v)
  PROVE  MatchInv'
<1>1. /\ UNCHANGED <<listed, sold, match, db, picked, staged, unlinked>>
      /\ MarketForm /\ LockInv /\ ChoiceInv /\ TxnInv /\ RegisteredInv /\ PickedInv
      /\ VerifiedIsKept /\ StagedAsMatched
  BY DEF Verify, scraped, MatchInv
<1>2. v # None
  BY PriceChartingAssumption
<1>3. /\ map'[p].version = v /\ map'[p].verified /\ locked'[p] = v
      /\ \A q \in Products : q # p => map'[q] = map[q] /\ locked'[q] = locked[q]
      /\ map' = [q \in Products |-> map'[q]] /\ locked' = [q \in Products |-> locked'[q]]
  BY <1>1 DEF Verify, MarketForm
<1>4. MarketForm'
  BY <1>1, <1>3 DEF MarketForm
<1>5. LockInv' /\ VerifiedIsKept'
  BY <1>1, <1>2, <1>3 DEF LockInv, VerifiedIsKept, Confident
<1>6. ChoiceInv' /\ TxnInv'
  BY <1>1, <1>2, <1>3 DEF ChoiceInv, TxnInv, Confident
<1>7. RegisteredInv'
  BY <1>1, <1>3 DEF RegisteredInv, Confident
<1>8. \A s \in Sales : s.product \in Products
  BY PriceChartingAssumption
<1>9. StagedAsMatched' /\ PickedInv'
  BY <1>1, <1>2, <1>3, <1>8 DEF StagedAsMatched, PickedInv
<1>10. QED
  BY <1>4, <1>5, <1>6, <1>7, <1>9 DEF MatchInv

LEMMA StagingKeeps ==
  ASSUME MatchInv, StartStage \/ StageSold \/ StageFails
  PROVE  MatchInv'
<1>1. /\ UNCHANGED <<listed, sold, map, match, db, locked, unlinked>>
      /\ MarketForm /\ PickedInv /\ StagedAsMatched
  BY DEF StartStage, StageSold, StageFails, scraped, MatchInv
<1>2. PickedInv'
  <2>1. CASE StartStage
    <3>1. \A s \in Accepted : s \in Sales /\ map[s.product].version # None
      BY <1>1 DEF Accepted, MarketForm
    <3>2. picked' = {<<s, map[s.product].version>> : s \in Accepted}
      BY <2>1 DEF StartStage
    <3>3. QED
      BY <1>1, <3>1, <3>2 DEF PickedInv
  <2>2. CASE picked' = {}
    BY <2>2 DEF PickedInv
  <2>3. QED
    BY <2>1, <2>2 DEF StageSold, StageFails
<1>3. staged' = [s \in Sales |-> staged'[s]] /\ StagedAsMatched'
  <2>1. CASE UNCHANGED staged
    BY <1>1, <2>1 DEF MarketForm, StagedAsMatched
  <2>2. CASE StageSold
    <3>1. ASSUME NEW s \in Sales
          PROVE  staged'[s] = staged[s] \/ \E r \in picked : r[1] = s /\ staged'[s] = r[2]
      BY <2>2 DEF StageSold
    <3>2. staged' = [s \in Sales |-> staged'[s]]
      BY <2>2 DEF StageSold
    <3>3. QED
      BY <1>1, <3>1, <3>2 DEF StagedAsMatched, PickedInv
  <2>3. QED
    BY <2>1, <2>2 DEF StartStage, StageFails
<1>4. MarketForm'
  BY <1>1, <1>3 DEF MarketForm
<1>5. LockInv' /\ ChoiceInv' /\ TxnInv' /\ RegisteredInv' /\ VerifiedIsKept'
  BY <1>1 DEF MatchInv, LockInv, ChoiceInv, TxnInv, RegisteredInv, VerifiedIsKept, Confident
<1>6. QED
  BY <1>2, <1>3, <1>4, <1>5 DEF MatchInv

LEMMA MatchInvHolds == MarketSpec => []MatchInv
<1>1. MarketInit => MatchInv
  BY DEF MarketInit, MatchInv, MarketForm, LockInv, ChoiceInv, TxnInv, Sound, TxnStates, RegisteredInv,
         PickedInv, VerifiedIsKept, StagedAsMatched, Confident, Idle, NoRow, NoPage
<1>2. MatchInv /\ [MarketNext]_marketVars => MatchInv'
  <2> SUFFICES ASSUME MatchInv, [MarketNext]_marketVars PROVE MatchInv'
    OBVIOUS
  <2>1. CASE UNCHANGED marketVars
    BY <2>1 DEF marketVars, scraped, MatchInv, MarketForm, LockInv, ChoiceInv, TxnInv, RegisteredInv,
                PickedInv, VerifiedIsKept, StagedAsMatched, Confident
  <2>2. ASSUME NEW p \in Products, \E c \in Candidates[p] : Verify(p, c.version) PROVE MatchInv'
    BY <2>2, VerifyKeeps DEF Printings
  <2>3. QED
    BY <2>1, <2>2, ScrapesKeep, StartMatchKeeps, SkipKeeps, MatchProductKeeps, EndMatchKeeps,
       MatchFailsKeeps, StagingKeeps DEF MarketNext
<1>3. QED
  BY <1>1, <1>2, PTL DEF MarketSpec

(* Whatever an operator locks and whichever registrations, runs and stagings   *)
(* fail: a lock is kept, a confident match is linked, and a sale is staged as  *)
(* its product is matched.                                                     *)
THEOREM MatchesAlwaysHold == MarketSpec => []MatchesHold
<1>1. MatchInv => MatchesHold
  BY DEF MatchInv, MatchesHold, RegisteredInv, ConfidentIsLinked, Has
<1>2. QED
  BY <1>1, MatchInvHolds, PTL

(* The types of the matches.  A row of the map has a version of a candidate,   *)
(* and a certainty between the floor and what a lock gives.                    *)
RowTyped(row) == row.version \in Printings \cup {None} /\ row.certainty \in 0 .. 100

PageTypes ==
  /\ listed \subseteq Sales /\ catalog \in [Products -> {"none", "empty", "full"}]
  /\ \A p \in Products : sold[p].sales \subseteq {s \in Sales : s.product = p}
MapTypes ==
  /\ \A p \in Products : RowTyped(map[p])
  /\ locked \in [Products -> Printings \cup {None}]
MatchTypes ==
  /\ match.todo \subseteq Products /\ match.existing \subseteq Products
  /\ \A u \in match.upserts : RowTyped(u[2])
StageTypes ==
  /\ staged \in [Sales -> Printings \cup {None}]
  /\ \A r \in picked : r[1] \in Sales /\ r[2] \in Printings
CountType == changes \in 0 .. MaxChanges

MarketTyped == PageTypes /\ MapTypes /\ MatchTypes /\ StageTypes /\ CountType

LEMMA CertaintyIs ==
  ASSUME NEW p, NEW id, NEW votes
  PROVE  Certainty(p, id, votes) \in 0 .. 100
<1> DEFINE base == Base[Method(p, id)]
           raised == Min({99, base + 3})
           sure == IF Method(p, id) = "tcg" /\ votes >= StrongVotes THEN raised ELSE base
           lowered == Max({20, sure - 20})
<1>1. base \in 40 .. 95
  <2>1. Method(p, id) \in {"tcg", "name", "collector", "treatment", "ambiguous"}
    BY DEF Method
  <2>2. QED
    BY <2>1 DEF Base
<1> HIDE DEF base
<1>2. raised \in {99, base + 3}
  <2>1. \E x \in {99, base + 3} : \A y \in {99, base + 3} : x <= y
    BY <1>1
  <2>2. QED
    BY <2>1 DEF Min
<1> HIDE DEF raised
<1>3. sure \in 40 .. 99
  BY <1>1, <1>2
<1> HIDE DEF sure
<1>4. lowered \in {20, sure - 20}
  <2>1. \E x \in {20, sure - 20} : \A y \in {20, sure - 20} : x >= y
    BY <1>3
  <2>2. QED
    BY <2>1 DEF Max
<1> HIDE DEF lowered
<1>5. Certainty(p, id, votes) = IF SetMethod(p) \in Loose THEN lowered ELSE sure
  BY DEF Certainty, lowered, sure, raised, base
<1>6. QED
  BY <1>3, <1>4, <1>5

LEMMA RowIsTyped ==
  ASSUME NEW p \in Products, NEW tcg
  PROVE  RowTyped(Row(p, tcg))
<1>1. CASE Candidates[p] = {}
  BY <1>1 DEF Row, NoRow, RowTyped
<1>2. CASE Candidates[p] # {}
  <2>1. Winner(p, tcg.id).version \in Printings
    BY <1>2, WinnerIs DEF Printings
  <2>2. Certainty(p, tcg.id, tcg.votes) \in 0 .. 100
    BY CertaintyIs
  <2>3. QED
    BY <1>2, <2>1, <2>2 DEF Row, RowTyped
<1>3. QED
  BY <1>1, <1>2

LEMMA ChangeIs == ASSUME CountType, Change PROVE CountType'
BY PriceChartingAssumption DEF CountType, Change

LEMMA PagesStayTyped ==
  ASSUME MatchInv, MarketTyped,
         \/ \E s \in Sales : SiteChanges(s)
         \/ \E p \in Products, force \in BOOLEAN : ScrapeCatalog(p, force) \/ ScrapeSales(p, force)
  PROVE  MarketTyped'
<1>0. PageTypes /\ MapTypes /\ MatchTypes /\ StageTypes /\ CountType
  BY DEF MarketTyped
<1>1. UNCHANGED <<map, match, db, picked, staged, locked>>
  BY DEF SiteChanges, ScrapeCatalog, ScrapeSales
<1>2. MapTypes' /\ MatchTypes' /\ StageTypes'
  BY <1>0, <1>1 DEF MapTypes, MatchTypes, StageTypes, RowTyped
<1>3. CountType'
  BY <1>0, ChangeIs DEF SiteChanges, ScrapeCatalog, ScrapeSales, CountType
<1>4. listed' \subseteq Sales
  BY <1>0 DEF PageTypes, SiteChanges, ScrapeCatalog, ScrapeSales
<1>5. catalog' \in [Products -> {"none", "empty", "full"}]
  BY <1>0 DEF PageTypes, SiteChanges, ScrapeCatalog, ScrapeSales, scraped
<1>6. \A p \in Products : sold'[p].sales \subseteq {s \in Sales : s.product = p}
  <2>1. CASE UNCHANGED sold
    BY <1>0, <2>1 DEF PageTypes
  <2>2. CASE \E p \in Products, force \in BOOLEAN : ScrapeSales(p, force)
    <3>1. PICK p \in Products, force \in BOOLEAN : ScrapeSales(p, force)
      BY <2>2
    <3>2. PICK file \in {[page |-> p, sales |-> {s \in listed : s.product = p}],
                         [page |-> "empty", sales |-> {}]} : sold' = [sold EXCEPT ![p] = file]
      BY <3>1 DEF ScrapeSales
    <3>3. file.sales \subseteq {s \in Sales : s.product = p}
      BY <1>0 DEF PageTypes
    <3>4. QED
      BY <1>0, <3>2, <3>3 DEF PageTypes, MatchInv, MarketForm
  <2>3. QED
    BY <2>1, <2>2 DEF SiteChanges, ScrapeCatalog, scraped
<1>7. QED
  BY <1>2, <1>3, <1>4, <1>5, <1>6 DEF MarketTyped, PageTypes

LEMMA MatchStaysTyped ==
  ASSUME MatchInv, MarketTyped,
         StartMatch \/ EndMatch \/ MatchFails \/ \E p \in Products : SkipProduct(p) \/ MatchProduct(p)
  PROVE  MarketTyped'
<1>0. /\ PageTypes /\ MapTypes /\ MatchTypes /\ StageTypes /\ CountType
      /\ MarketForm /\ (match.on => ChoiceInv)
  BY DEF MarketTyped, MatchInv
<1>1. UNCHANGED <<listed, catalog, sold, picked, staged, locked>>
  BY DEF StartMatch, EndMatch, MatchFails, SkipProduct, MatchProduct, scraped
<1>2. PageTypes' /\ StageTypes'
  BY <1>0, <1>1 DEF PageTypes, StageTypes
<1>3. CountType'
  BY <1>0, ChangeIs DEF StartMatch, EndMatch, MatchFails, SkipProduct, MatchProduct, CountType
<1>4. MapTypes'
  <2>1. CASE UNCHANGED map
    BY <1>0, <1>1, <2>1 DEF MapTypes, RowTyped
  <2>2. CASE EndMatch
    <3>1. match.on /\ map' = Upsert(match.upserts)
      BY <2>2 DEF EndMatch
    <3>2. ASSUME NEW p \in Products PROVE RowTyped(map'[p])
      <4>1. map'[p] = map[p] \/ \E u \in match.upserts : map'[p] = u[2]
        BY <3>1, UpsertIs
      <4>2. QED
        BY <1>0, <4>1 DEF MapTypes, MatchTypes, RowTyped
    <3>3. QED
      BY <1>0, <1>1, <3>2 DEF MapTypes, RowTyped
  <2>3. QED
    BY <2>1, <2>2 DEF StartMatch, MatchFails, SkipProduct, MatchProduct
<1>5. MatchTypes'
  <2>1. CASE EndMatch \/ MatchFails
    <3>1. match' = Idle
      BY <2>1 DEF EndMatch, MatchFails
    <3>2. match'.todo = {} /\ match'.existing = {} /\ match'.upserts = {}
      BY <3>1 DEF Idle
    <3>3. QED
      BY <3>2 DEF MatchTypes
  <2>2. CASE StartMatch
    BY <2>2 DEF StartMatch, MatchTypes
  <2>3. ASSUME NEW p \in Products, SkipProduct(p) PROVE MatchTypes'
    BY <1>0, <2>3 DEF SkipProduct, Done, MatchTypes, MarketForm, RowTyped
  <2>4. ASSUME NEW p \in Products, MatchProduct(p) PROVE MatchTypes'
    <3>1. PICK tcg : match' = [match EXCEPT !.todo = @ \ {p},
                                            !.upserts = @ \cup {<<p, Row(p, tcg)>>}]
      BY <2>4 DEF MatchProduct
    <3>2. PICK row : RowTyped(row) /\ match' = [match EXCEPT !.todo = @ \ {p},
                                                            !.upserts = @ \cup {<<p, row>>}]
      BY <3>1, RowIsTyped
    <3>3. /\ match'.todo = match.todo \ {p} /\ match'.existing = match.existing
          /\ match'.upserts = match.upserts \cup {<<p, row>>}
      BY <1>0, <3>2 DEF MarketForm
    <3>4. QED
      BY <1>0, <3>2, <3>3 DEF MatchTypes, RowTyped
  <2>5. QED
    BY <2>1, <2>2, <2>3, <2>4
<1>6. QED
  BY <1>2, <1>3, <1>4, <1>5 DEF MarketTyped

LEMMA LockStaysTyped ==
  ASSUME MatchInv, MarketTyped, NEW p \in Products, NEW v \in Printings, Verify(p, v)
  PROVE  MarketTyped'
<1>0. PageTypes /\ MapTypes /\ MatchTypes /\ StageTypes /\ CountType /\ MarketForm
  BY DEF MarketTyped, MatchInv
<1>1. UNCHANGED <<listed, catalog, sold, match, picked, staged>> /\ Change
  BY DEF Verify, scraped
<1>2. PageTypes' /\ MatchTypes' /\ StageTypes' /\ CountType'
  BY <1>0, <1>1, ChangeIs DEF PageTypes, MatchTypes, StageTypes, RowTyped
<1>3. PICK row : /\ RowTyped(row) /\ map' = [map EXCEPT ![p] = row]
                 /\ locked' = [locked EXCEPT ![p] = v]
  <2> DEFINE row == [version |-> v, finish |-> Finish(Title[p]), certainty |-> 100, verified |-> TRUE]
  <2>1. RowTyped(row)
    BY DEF RowTyped
  <2>2. map' = [map EXCEPT ![p] = row] /\ locked' = [locked EXCEPT ![p] = v]
    BY DEF Verify
  <2>3. QED
    BY <2>1, <2>2
<1>4. \A q \in Products : map'[q] = row \/ map'[q] = map[q]
  BY <1>0, <1>3 DEF MarketForm
<1>5. MapTypes'
  BY <1>0, <1>3, <1>4 DEF MapTypes, RowTyped
<1>6. QED
  BY <1>2, <1>5 DEF MarketTyped

LEMMA StagingStaysTyped ==
  ASSUME MatchInv, MarketTyped, StartStage \/ StageSold \/ StageFails
  PROVE  MarketTyped'
<1>0. PageTypes /\ MapTypes /\ MatchTypes /\ StageTypes /\ CountType /\ PickedInv
  BY DEF MarketTyped, MatchInv
<1>1. UNCHANGED <<listed, catalog, sold, map, match, locked>>
  BY DEF StartStage, StageSold, StageFails, scraped
<1>2. PageTypes' /\ MapTypes' /\ MatchTypes'
  BY <1>0, <1>1 DEF PageTypes, MapTypes, MatchTypes, RowTyped
<1>3. CountType'
  BY <1>0, ChangeIs DEF StartStage, StageSold, StageFails, CountType
<1>4. StageTypes'
  <2>1. CASE StartStage
    <3>1. \A s \in Sales : s.product \in Products
      BY PriceChartingAssumption
    <3>2. \A s \in Accepted : s \in Sales /\ map[s.product].version \in Printings
      BY <1>0, <3>1 DEF Accepted, PageTypes, MapTypes, RowTyped
    <3>3. picked' = {<<s, map[s.product].version>> : s \in Accepted} /\ UNCHANGED staged
      BY <2>1 DEF StartStage
    <3>4. QED
      BY <1>0, <3>2, <3>3 DEF StageTypes
  <2>2. CASE StageSold
    <3>1. ASSUME NEW s \in Sales
          PROVE  staged'[s] = staged[s] \/ \E r \in picked : staged'[s] = r[2]
      BY <2>2 DEF StageSold
    <3>2. staged' = [s \in Sales |-> staged'[s]] /\ picked' = {}
      BY <2>2 DEF StageSold
    <3>3. \A s \in Sales : staged'[s] \in Printings \cup {None}
      BY <1>0, <3>1 DEF StageTypes
    <3>4. QED
      BY <3>2, <3>3 DEF StageTypes
  <2>3. CASE StageFails
    BY <1>0, <2>3 DEF StageFails, StageTypes
  <2>4. QED
    BY <2>1, <2>2, <2>3
<1>5. QED
  BY <1>2, <1>3, <1>4 DEF MarketTyped

LEMMA MarketTypedHolds == MarketSpec => []MarketTyped
<1>1. MarketInit => MarketTyped
  BY PriceChartingAssumption
  DEF MarketInit, MarketTyped, PageTypes, MapTypes, MatchTypes, StageTypes, CountType, RowTyped,
      Idle, NoRow, NoPage
<1>2. MatchInv /\ MarketTyped /\ [MarketNext]_marketVars => MarketTyped'
  <2> SUFFICES ASSUME MatchInv, MarketTyped, [MarketNext]_marketVars PROVE MarketTyped'
    OBVIOUS
  <2>1. CASE UNCHANGED marketVars
    BY <2>1 DEF marketVars, scraped, MarketTyped, PageTypes, MapTypes, MatchTypes, StageTypes,
                CountType, RowTyped
  <2>2. ASSUME NEW p \in Products, \E c \in Candidates[p] : Verify(p, c.version) PROVE MarketTyped'
    BY <2>2, LockStaysTyped DEF Printings
  <2>3. QED
    BY <2>1, <2>2, PagesStayTyped, MatchStaysTyped, StagingStaysTyped DEF MarketNext
<1>3. QED
  BY <1>1, <1>2, MatchInvHolds, PTL DEF MarketSpec

(* However scrapes, match runs, locks and stagings overlap, and whichever of   *)
(* them fail: each product and sale is filed under a version of a candidate or *)
(* under none, with a certainty of at most 100.                                *)
THEOREM MarketStaysTyped == MarketSpec => []MarketTypeOK
<1>1. MatchInv /\ MarketTyped => MarketTypeOK
  BY DEF MatchInv, TxnInv, Sound, MarketTyped, PageTypes, MapTypes, MatchTypes, StageTypes,
         CountType, RowTyped, MarketTypeOK
<1>2. QED
  BY <1>1, MatchInvHolds, MarketTypedHolds, PTL

-----------------------------------------------------------------------------
(* Each step of the catalogue is one of a single part, or leaves it as it is.  *)
LEMMA CatalogueIsParts ==
  CatalogueSpec => /\ TiersSpec /\ MarketSpec /\ MtgjsonSpec /\ LoadsSpec
                   /\ SearchSpec /\ ScryfallSpec
<1>1. CatalogueInit => /\ TiersInit /\ MarketInit /\ MtgjsonInit /\ LoadsInit
                       /\ SearchInit /\ ScryfallInit
  BY DEF CatalogueInit
<1>2. [CatalogueNext]_catalogueVars =>
        /\ [TiersNext]_tierVars /\ [MarketNext]_marketVars /\ [MtgjsonNext]_mtgjsonVars
        /\ [LoadsNext]_loadsVars /\ [SearchNext]_searchVars /\ [ScryfallNext]_scryfallVars
  BY DEF CatalogueNext, catalogueVars
<1>3. QED
  BY <1>1, <1>2, PTL DEF CatalogueSpec, TiersSpec, MarketSpec, MtgjsonSpec, LoadsSpec, SearchSpec,
                         ScryfallSpec

LEMMA TiersStayTyped == TiersSpec => []TiersTypeOK
<1>1. QED
  BY TiersStart, TiersTypeStep, PTL DEF TiersSpec, TiersInv

(* Whatever part of the catalogue moves, every variable of every part keeps    *)
(* its type.                                                                   *)
THEOREM CatalogueTypesHold == CatalogueSpec => []CatalogueTypes
<1>1. MtgjsonInv => MtgjsonTypeOK
  BY DEF MtgjsonInv
<1>2. TiersTypeOK /\ MarketTypeOK /\ MtgjsonTypeOK /\ LoadsTypeOK /\ SearchTypeOK /\ ScryfallTypeOK
        => CatalogueTypes
  BY DEF CatalogueTypes
<1>3. QED
  BY <1>1, <1>2, CatalogueIsParts, TiersStayTyped, MarketStaysTyped, MtgjsonInvHolds,
     LoadsStayTyped, SearchStaysTyped, ScryfallStaysTyped, PTL
=============================================================================
