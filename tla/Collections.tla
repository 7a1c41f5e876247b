---------------------------- MODULE Collections ----------------------------
(* A user's collections and the cards in them: the services                  *)
(* card_catalog.collection.* and the statements of CollectionRepository.  A  *)
(* collection is deleted by clearing its is_active flag.  Each service is a  *)
(* transaction; adding a card is two reads, an INSERT and a read-back whose  *)
(* failed validation rolls the INSERT back.                                  *)
EXTENDS Integers, FiniteSets

CONSTANTS Users, Ids, Entries, Cards, Names, Statuses,
          Missing,      \* a row that is not there
          Limit,      \* the page size of a listing
          MaxChanges  \* how often the market and the catalogue change

Row == [owner : Users, name : Names, active : BOOLEAN]
Item == [coll : Ids, card : Cards, status : Statuses, wish : BOOLEAN]
Adding == [at : {"resolved", "inserted"}, id : Ids, card : Cards, entry : Entries,
           wish : BOOLEAN]
Listing == [ok : BOOLEAN, rows : SUBSET Entries]

ASSUME CollectionsAssumption ==
  /\ "purchased" \in Statuses /\ Missing \notin Row \cup Item \cup Adding
  /\ Limit \in Nat \ {0} /\ MaxChanges \in Nat

VARIABLES collections,  \* user_collection.collections, Missing before the INSERT
          items,        \* user_collection.collection_items: entry -> row or Missing
          adding,       \* the add_entry each user has under way
          cards,        \* card_catalog.card_version
          moved,        \* the cards pricing.mv_card_price_spark has a change for
          refused,      \* history: the entries whose add was answered with an error
          listing,      \* the last listing: the rows read and the answer given
          turns

collectionsVars ==
  <<collections, items, adding, cards, moved, refused, listing, turns>>

CollectionsInit ==
  /\ collections = [i \in Ids |-> Missing]
  /\ items = [e \in Entries |-> Missing]
  /\ adding = [u \in Users |-> Missing]
  /\ cards = Cards /\ moved \in SUBSET Cards
  /\ refused = {}
  /\ listing = [ok |-> TRUE, rows |-> {}]
  /\ turns = 0

-----------------------------------------------------------------------------
(* WHERE collection_id = ... AND user_id = ..., and get's is_active = True.  *)
Owned(u, i) == collections[i] # Missing /\ collections[i].owner = u
Active(u, i) == Owned(u, i) /\ collections[i].active

(* The UNIQUE (collection_name, user_id) of the table: deleted rows count.   *)
Taken(u, n) == \E i \in Ids : Owned(u, i) /\ collections[i].name = n

CreateCollection(u, i, n) ==
  /\ collections[i] = Missing /\ ~Taken(u, n)
  /\ collections' = [collections EXCEPT ![i] = [owner |-> u, name |-> n, active |-> TRUE]]
  /\ UNCHANGED <<items, adding, cards, moved, refused, listing, turns>>

(* PUT changes any of the fields of any row of the user's, deleted or not.   *)
Rename(u, i, n) ==
  /\ Owned(u, i) /\ ~Taken(u, n)
  /\ collections' = [collections EXCEPT ![i].name = n]
  /\ UNCHANGED <<items, adding, cards, moved, refused, listing, turns>>

SetActive(u, i) ==
  /\ Owned(u, i)
  /\ collections' = [collections EXCEPT ![i].active = TRUE]
  /\ UNCHANGED <<items, adding, cards, moved, refused, listing, turns>>

Delete(u, i) ==
  /\ Owned(u, i)
  /\ collections' = [collections EXCEPT ![i].active = FALSE]
  /\ UNCHANGED <<items, adding, cards, moved, refused, listing, turns>>

-----------------------------------------------------------------------------
(* A row of get_entry, where the view has no row for the card or no change   *)
(* for the day, does not fit price_change_1d: float.                         *)
Fits(c) == c \in moved

(* The entry's id is its own whether or not the row is committed.            *)
Unused(e) ==
  /\ items[e] = Missing /\ e \notin refused
  /\ \A u \in Users : adding[u] # Missing => adding[u].entry # e

(* The collection is the user's and active.  An id given for the card is not *)
(* looked up; one found by its Scryfall id or its number in a set may be     *)
(* gone when it is inserted.                                                 *)
AddResolves(u, i, c, e) ==
  /\ adding[u] = Missing /\ Active(u, i) /\ Unused(e)
  /\ \E wish \in BOOLEAN :
       adding' = [adding EXCEPT ![u] = [at |-> "resolved", id |-> i, card |-> c,
                                        entry |-> e, wish |-> wish]]
  /\ UNCHANGED <<collections, items, cards, moved, refused, listing, turns>>

(* The INSERT ... SELECT asks for the owner only; a card that is not there   *)
(* breaks the foreign key.                                                   *)
AddInserts(u) ==
  /\ adding[u] # Missing /\ adding[u].at = "resolved"
  /\ IF adding[u].card \in cards
     THEN adding' = [adding EXCEPT ![u].at = "inserted"] /\ UNCHANGED refused
     ELSE /\ adding' = [adding EXCEPT ![u] = Missing]
          /\ refused' = refused \cup {adding[u].entry}
  /\ UNCHANGED <<collections, items, cards, moved, listing, turns>>

(* A plausible mistake: the INSERT is committed before its row is read back. *)
AlreadyCommitted(a) ==
  [items EXCEPT ![a.entry] = [coll |-> a.id, card |-> a.card, status |-> "purchased",
                              wish |-> a.wish]]

(* What a rolled back add leaves of its INSERT.                              *)
RolledBack(a) == items

(* The row is read back and validated; the transaction ends with the answer. *)
AddAnswers(u) ==
  LET a == adding[u]
      row == [coll |-> a.id, card |-> a.card, status |-> "purchased",
              wish |-> a.wish]
  IN /\ a # Missing /\ a.at = "inserted"
     /\ IF Fits(a.card)
        THEN /\ items' = [items EXCEPT ![a.entry] = row]
             /\ UNCHANGED refused
        ELSE /\ items' = RolledBack(a)
             /\ refused' = refused \cup {a.entry}
     /\ adding' = [adding EXCEPT ![u] = Missing]
     /\ UNCHANGED <<collections, cards, moved, listing, turns>>

(* A status change is committed with its answer; a row that does not fit     *)
(* takes the change back.                                                    *)
UpdateStatus(u, e, s) ==
  /\ items[e] # Missing /\ Owned(u, items[e].coll) /\ Fits(items[e].card)
  /\ items' = [items EXCEPT ![e].status = s]
  /\ UNCHANGED <<collections, adding, cards, moved, refused, listing, turns>>

DeleteEntry(u, e) ==
  /\ items[e] # Missing /\ Owned(u, items[e].coll)
  /\ items' = [items EXCEPT ![e] = Missing]
  /\ refused' = refused \cup {e}
  /\ UNCHANGED <<collections, adding, cards, moved, listing, turns>>

-----------------------------------------------------------------------------
(* A page of the entries, whatever their dates of purchase, by which they    *)
(* are ordered.                                                              *)
Pages(i, offset, wishes) ==
  LET all == {e \in Entries : /\ items[e] # Missing /\ items[e].coll = i
                              /\ items[e].wish \in wishes}
      left == Cardinality(all) - offset
      size == IF left < 0 THEN 0 ELSE IF left < Limit THEN left ELSE Limit
  IN {page \in SUBSET all : Cardinality(page) = size}

(* Every row of the page must fit for any of them to be answered.            *)
ListEntries(u, i) ==
  /\ Active(u, i)
  /\ \E offset \in {0, Limit}, wishes \in {{TRUE}, {FALSE}, BOOLEAN} :
       \E page \in Pages(i, offset, wishes) :
         listing' = [ok |-> \A e \in page : Fits(items[e].card), rows |-> page]
  /\ UNCHANGED <<collections, items, adding, cards, moved, refused, turns>>

-----------------------------------------------------------------------------
(* The view is refreshed, a card is deleted with its entries *)
(* (not while an add holds its row).                                         *)
Change ==
  /\ turns < MaxChanges /\ turns' = turns + 1
  /\ UNCHANGED <<collections, adding, listing>>

Refresh ==
  /\ Change /\ moved' \in SUBSET cards
  /\ UNCHANGED <<items, cards, refused>>

DeleteCard(c) ==
  /\ Change /\ c \in cards
  /\ \A u \in Users : adding[u] # Missing /\ adding[u].card = c => adding[u].at = "resolved"
  /\ cards' = cards \ {c} /\ moved' = moved \ {c}
  /\ LET lost == {e \in Entries : items[e] # Missing /\ items[e].card = c}
     IN /\ items' = [e \in Entries |-> IF e \in lost THEN Missing ELSE items[e]]
        /\ refused' = refused \cup lost

CollectionsNext ==
  \/ \E u \in Users, i \in Ids :
       \/ \E n \in Names : CreateCollection(u, i, n) \/ Rename(u, i, n)
       \/ SetActive(u, i) \/ Delete(u, i) \/ ListEntries(u, i)
       \/ \E c \in Cards, e \in Entries : AddResolves(u, i, c, e)
  \/ \E u \in Users : AddInserts(u) \/ AddAnswers(u)
  \/ \E u \in Users, e \in Entries :
       DeleteEntry(u, e) \/ \E s \in Statuses : UpdateStatus(u, e, s)
  \/ Refresh
  \/ \E c \in Cards : DeleteCard(c)

CollectionsSpec == CollectionsInit /\ [][CollectionsNext]_collectionsVars

-----------------------------------------------------------------------------
(* Every variable has its type.                                              *)
CollectionsTypeOK ==
  /\ collections \in [Ids -> Row \cup {Missing}]
  /\ items \in [Entries -> Item \cup {Missing}]
  /\ adding \in [Users -> Adding \cup {Missing}]
  /\ cards \subseteq Cards /\ moved \subseteq cards
  /\ refused \subseteq Entries
  /\ listing \in Listing
  /\ turns \in 0..MaxChanges

(* Renames, deletions and restorations in any order leave a user with one    *)
(* active collection of a name: a deleted row keeps its name for itself.     *)
OneActivePerName ==
  \A u \in Users, i, j \in Ids :
    Active(u, i) /\ Active(u, j) /\ collections[i].name = collections[j].name => i = j

(* A card whose add was answered with an error is not in the collection, and *)
(* a removed one does not come back.                                         *)
RefusedEntriesAreGone == \A e \in refused : items[e] = Missing

(* The listing of a user's own active collection is answered: the router     *)
(* says it "returns cards in the specified collection".                      *)
OwnListIsAnswered == listing.ok

=============================================================================
