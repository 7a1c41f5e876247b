------------------------------ MODULE MCMtgStock ------------------------------
(* Three loaders from outside: MTGStocks, with two tiers in two markets, the *)
(* first with two slots a day over two days, the second with one slot over   *)
(* one day, where the worker's date changes after the first slot of the      *)
(* first, as UTC does in the Australian morning; a Shopify store over        *)
(* two weeks; and the sealed products of MTGJSON, bootstrapped by two runs.  *)
(* Print 1 is in a tier from the start; print 3, of the same card as print   *)
(* 2, is mapped by the pipelines only.                                       *)
(* They share no state here, so each is explored with the others at rest:    *)
(* part says which one moves.                                                *)
EXTENDS MtgStock, ShopifyMarket, SealedCatalog, TLC

CONSTANTS u1, u2, v1, v2, b1, b2
VARIABLE part

MarketsInit ==
  /\ part \in {"mtgstock", "shopify", "sealed"} /\ Init /\ ShopInit /\ SealedInit
  /\ part # "shopify" => learnt = {}
  /\ tier[3] = 0 /\ (part = "mtgstock" => tier[1] # 0)
  /\ part # "mtgstock" => site = Known /\ \A i \in Ids : tier[i] = 0

MarketsNext ==
  /\ UNCHANGED part
  /\ \/ part = "mtgstock" /\ Next /\ UNCHANGED <<shopVars, sealedVars>>
     \/ part = "shopify" /\ ShopNext /\ UNCHANGED <<vars, sealedVars>>
     \/ part = "sealed" /\ SealedNext /\ UNCHANGED <<vars, shopVars>>

MarketsSpec == MarketsInit /\ [][MarketsNext]_<<part, vars, shopVars, sealedVars>>

-----------------------------------------------------------------------------
TwoMarkets == [t \in {1, 2} |-> {1, 2}]
Windows == [t \in {1, 2} |-> IF t = 1 THEN 2 ELSE 1]
DailySlots == [t \in {1, 2} |-> IF t = 1 THEN 2 ELSE 1]
TcgFirst == <<2, 1>>
TwoCards == [i \in Ids |-> IF i = 1 THEN 1 ELSE 2]

Refresh(t, slot) == Step("refresh", t, {slot})
Sydney == <<Refresh(1, 0), Do("midnight"), Refresh(1, 1), Refresh(2, 0), Do("load")>>

(* A collection of everything, and one of what is in stock, read last.       *)
EverythingThenInStock == <<"all", "instock">>

(* Two products and two ids of a vendor, which a second file may exchange.   *)
Alike == Permutations({u1, u2}) \cup Permutations({v1, v2}) \cup Permutations({b1, b2})

(* Every variable of the three parts has its type.                           *)
MarketTypes == TypeOK /\ ShopTypeOK /\ SealedTypeOK

(* What an operator set by hand survives the sample, no product that stays   *)
(* in a collection is missed, what is merged is of the week or of a file the *)
(* collection has outgrown, and the price of what is in stock is kept.  A    *)
(* sealed product has one uuid, the ids of the last file and one row by      *)
(* which it is priced, however the bootstraps overlap.                       *)
FetchedIsKept ==
  /\ MarksSurvive /\ NothingIsMissed /\ OldRowsAreLeftovers /\ InStockWins
  /\ OnePricePerProduct /\ LastFileCounts
=============================================================================
