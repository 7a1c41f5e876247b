------------------------------ MODULE SalesSync ------------------------------
(* What the table ebay_active_listings knows of an item on sale, and the      *)
(* nightly sync that stages its sale with it.  The router tracks an item once *)
(* it is listed; items tracked before variants were stored have none until an *)
(* operator reviews them.  Nothing of it runs in a transaction.               *)
EXTENDS Integers, Sequences, FiniteSets, Functions

CONSTANTS
  Items,        \* items on eBay; each is sold once
  Old,          \* those tracked without a variant
  Accounts,     \* the sellers' accounts, in the order the sync visits them
  AccountOf,    \* whose an item is
  Cards,
  Card,         \* the card version an item really is
  Guess,        \* the best candidate for its title, and whether it scores 0.7
  Foil,         \* the items listed as foil
  Priced,       \* the items whose order line has a price that can be read
  PageSize,     \* orders the sync fetches per account
  MaxMisses     \* bound: calls that fail

NoCard == "none"

ASSUME SyncAssumption ==
  /\ NoCard \notin Cards /\ Old \subseteq Items
  /\ Accounts \in Seq(Range(Accounts)) /\ IsInjective(Accounts)
  /\ AccountOf \in [Items -> Range(Accounts)] /\ Card \in [Items -> Cards]
  /\ Guess \in [Items -> [card : Cards, good : BOOLEAN]]
  /\ Priced \subseteq Items /\ Foil \subseteq Items
  /\ PageSize \in Nat \ {0} /\ MaxMisses \in Nat

VARIABLES
  creating,   \* items on eBay that the router has still to track
  row,        \* ebay_active_listings: card version and finish
  products,   \* cards that have a product
  sold,       \* the sold items, oldest first
  lines,      \* ebay_order_source_product: the card of the product, the finish
  review,     \* the item that the operator is looking at
  sync,       \* where the sync is: account, item, what it has read of it
  toSync,     \* the items of its page that it has still to go through
  owed,       \* history: sold when it began, less what failed or fell off a page
  untold,     \* history: items it took up before their variant was known
  misses

syncVars == <<creating, row, products, sold, lines, review, sync, toSync, owed,
              untold, misses>>
shop == <<creating, sold>>
nightly == <<lines, sync, toSync, owed, untold>>

UnknownFinish == "unknown"
FinishSold(i) == IF i \in Foil THEN "foil" ELSE "nonfoil"
NoRow == [card |-> NoCard, finish |-> UnknownFinish]
Nothing == "nothing"
AtRest ==
  [at |-> "idle", account |-> 0, item |-> Nothing, card |-> NoCard, finish |-> UnknownFinish]

SyncInit ==
  /\ creating = Items \ Old /\ sold = <<>> /\ products \in SUBSET Cards
  /\ row = [i \in Items |-> IF i \in Old THEN [NoRow EXCEPT !.card = Card[i]] ELSE NoRow]
  /\ lines = [i \in Items |-> NoRow] /\ review = Nothing
  /\ sync = AtRest /\ toSync = {} /\ owed = {} /\ untold = {} /\ misses = 0

Known(i) == row[i] # NoRow
Staged(i) == lines[i] # NoRow
Fails == misses < MaxMisses /\ misses' = misses + 1

-----------------------------------------------------------------------------
(* The router's last call after a listing, best effort.                      *)
Track(i) ==
  /\ i \in creating /\ creating' = creating \ {i}
  /\ row' = [row EXCEPT ![i] = [card |-> Card[i], finish |-> FinishSold(i)]]
  /\ UNCHANGED <<products, sold, review, nightly, misses>>

TrackFails(i) ==
  /\ i \in creating /\ creating' = creating \ {i} /\ Fails
  /\ UNCHANGED <<row, products, sold, review, nightly>>

Sell(i) ==
  /\ i \notin Range(sold) /\ sold' = Append(sold, i)
  /\ UNCHANGED <<creating, row, products, review, nightly, misses>>

(* A price load finds the card.                                              *)
MakeProduct(c) ==
  /\ c \notin products /\ products' = products \cup {c}
  /\ UNCHANGED <<shop, row, review, nightly, misses>>

(* fetch_pending: the rows without a variant, one after the other.           *)
Pending == {i \in Items : Known(i) /\ row[i].finish = UnknownFinish}
Review(i) ==
  /\ review = Nothing /\ i \in Pending /\ review' = i
  /\ UNCHANGED <<shop, row, products, nightly, misses>>

SkipItem ==
  /\ review # Nothing /\ review' = Nothing
  /\ UNCHANGED <<shop, row, products, nightly, misses>>

(* save_variant, for the version and the finish the operator has picked.     *)
SaveVariant ==
  /\ review # Nothing /\ review' = Nothing
  /\ products' = products \cup {Card[review]}
  /\ row' = [row EXCEPT ![review] = [card |-> Card[review], finish |-> FinishSold(review)]]
  /\ UNCHANGED <<shop, nightly, misses>>

-----------------------------------------------------------------------------
(* sync_own_sales: account after account; its token, its environment and its *)
(* latest orders, which eBay lists in an order of its own.                   *)
SoldBy(a) == {i \in Range(sold) : AccountOf[i] = a}
SoldLater(j, i) == \E m, n \in DOMAIN sold : m > n /\ sold[m] = j /\ sold[n] = i
LatestSales(a) ==
  {i \in SoldBy(a) : Cardinality({j \in SoldBy(a) : SoldLater(j, i)}) < PageSize}

Visit(n) ==
  sync' = IF n > Len(Accounts) THEN AtRest
          ELSE [AtRest EXCEPT !.at = "fetch", !.account = n]

StartSync ==
  /\ sync.at = "idle" /\ Visit(1) /\ toSync' = {}
  /\ owed' = Range(sold) \cap Priced
  /\ UNCHANGED <<shop, row, products, lines, review, untold, misses>>

ItemsOf(n) == {i \in Items : AccountOf[i] = Accounts[n]}
Fetch ==
  LET page == LatestSales(Accounts[sync.account])
  IN /\ sync.at = "fetch" /\ sync' = [sync EXCEPT !.at = "line"]
     /\ toSync' = page /\ owed' = owed \ (ItemsOf(sync.account) \ page)
     /\ UNCHANGED <<shop, row, products, lines, review, untold, misses>>

NextAccount ==
  /\ sync.at = "line" /\ toSync = {} /\ Visit(sync.account + 1)
  /\ UNCHANGED <<shop, row, products, lines, review, toSync, owed, untold, misses>>

(* What raises outside the handlers of a line ends the account, not the sync.*)
EndOfAccount == Visit(sync.account + 1)
AccountFails ==
  /\ sync.at \in {"fetch", "line", "variant"} /\ Fails
  /\ EndOfAccount /\ toSync' = {}
  /\ owed' = owed \ IF sync.at = "fetch" THEN ItemsOf(sync.account)
                     ELSE toSync \cup {sync.item}
  /\ UNCHANGED <<shop, row, products, lines, review, untold>>

(* _process_line_item: a line without a price is left out.                   *)
NextLine == sync' = [AtRest EXCEPT !.at = "line", !.account = sync.account]
SkipLine(i) ==
  /\ sync.at = "line" /\ i \notin Priced /\ toSync' = toSync \ {i}
  /\ UNCHANGED <<shop, row, products, lines, review, sync, owed, untold, misses>>

(* _resolve_card_version: the card of the listing, or else a good guess.     *)
CardFor(i) ==
  IF Known(i) THEN row[i].card
  ELSE IF Guess[i].good THEN Guess[i].card ELSE NoCard
ReadCard(i) ==
  /\ sync.at = "line" /\ i \in Priced /\ toSync' = toSync \ {i}
  /\ sync' = [sync EXCEPT !.at = "variant", !.item = i, !.card = CardFor(i)]
  /\ untold' = untold \cup IF row[i].finish = UnknownFinish /\ ~Staged(i) THEN {i} ELSE {}
  /\ UNCHANGED <<shop, row, products, lines, review, owed, misses>>

(* get_listing_variant: nothing is known of an item without a row.           *)
ReadVariant ==
  /\ sync.at = "variant"
  /\ sync' = [sync EXCEPT !.at = "product", !.finish = row[sync.item].finish]
  /\ UNCHANGED <<shop, row, products, lines, review, toSync, owed, untold, misses>>

(* ensure_source_product finds nothing for a card without a product.         *)
EnsureSourceProduct ==
  /\ sync.at = "product"
  /\ sync' = [sync EXCEPT !.at = "upsert",
                          !.card = IF @ \in products THEN @ ELSE NoCard]
  /\ UNCHANGED <<shop, row, products, lines, review, toSync, owed, untold, misses>>

(* upsert_order_source_product: an unknown variant is stored as nonfoil; of  *)
(* a line that is there only the product is replaced.                        *)
Default(finish) == IF finish = UnknownFinish THEN "nonfoil" ELSE finish
UpsertLine ==
  LET i == sync.item
  IN /\ sync.at = "upsert" /\ NextLine
     /\ lines' = [lines EXCEPT ![i] =
          [card |-> sync.card,
           finish |-> IF Staged(i) THEN @.finish ELSE Default(sync.finish)]]
     /\ UNCHANGED <<shop, row, products, review, toSync, owed, untold, misses>>

(* Either statement raises: the line is left for the next night.             *)
LineFails ==
  /\ sync.at \in {"product", "upsert"} /\ Fails
  /\ NextLine /\ owed' = owed \ {sync.item}
  /\ UNCHANGED <<shop, row, products, lines, review, toSync, untold>>

SyncNext ==
  \/ \E i \in Items : Track(i) \/ TrackFails(i) \/ Sell(i) \/ Review(i)
  \/ \E c \in Cards : MakeProduct(c)
  \/ SkipItem \/ SaveVariant
  \/ StartSync \/ Fetch \/ NextAccount \/ AccountFails
  \/ \E i \in toSync : SkipLine(i) \/ ReadCard(i)
  \/ ReadVariant \/ EnsureSourceProduct \/ UpsertLine \/ LineFails

SyncSpec == SyncInit /\ [][SyncNext]_syncVars

-----------------------------------------------------------------------------
Row == [card : Cards \cup {NoCard}, finish : {"foil", "nonfoil", UnknownFinish}]

(* Every variable has its type.                                              *)
SyncTypeOK ==
  /\ creating \subseteq Items /\ products \subseteq Cards /\ review \in Items \cup {Nothing}
  /\ row \in [Items -> Row] /\ lines \in [Items -> Row]
  /\ Range(sold) \subseteq Items /\ toSync \subseteq Range(sold)
  /\ owed \cup untold \subseteq Items /\ misses \in 0 .. MaxMisses

(* A sale that the sync first took up when the variant of its listing was    *)
(* known is staged with that variant, and under the card of the listing or,  *)
(* as long as that has no product, under none.                               *)
SoldAsListed ==
  \A i \in Items \ untold :
    Staged(i) => lines[i].finish = FinishSold(i) /\ lines[i].card \in {Card[i], NoCard}

(* When the sync is over it has staged every line that was sold when it      *)
(* began, except where a call of that line or of that account failed or      *)
(* newer orders filled the page.                                             *)
SoldIsStaged == sync = AtRest => \A i \in owed : Staged(i)
=============================================================================
