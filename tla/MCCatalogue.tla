----------------------------- MODULE MCCatalogue -----------------------------
(* The catalogue and its prices: the daily Scryfall chain that fills it, the  *)
(* card search with its caches, the matches and sold pages of PriceCharting,  *)
(* the MTGJSON chain, the loads of list prices and the tiers the observations *)
(* are aggregated in.  The parts share no state here, so each is explored     *)
(* with the others at rest: part says which one moves.                        *)
EXTENDS PriceTiers, PriceLoads, MtgjsonPrices, PriceCharting, CardSearch,
        ScryfallDaily

VARIABLE part

-----------------------------------------------------------------------------
(* A product with a choice of two versions and one with a single version that *)
(* the first may be matched to as well; no number helps.                      *)
TwoProducts == {"p1", "p2"}
PlainPrint == [version |-> "v1", number |-> 1, effects |-> {}, tcg |-> 11]
Showcase == [version |-> "v2", number |-> 2, effects |-> {"showcase"}, tcg |-> 12]
TheirVersions == [p \in TwoProducts |-> IF p = "p1" THEN {PlainPrint, Showcase} ELSE {Showcase}]
TheirTitles == [p \in TwoProducts |-> [words |-> {"foil"}, number |-> 7]]
TheirPasses == [p \in TwoProducts |-> IF p = "p1" THEN {"fuzzy"} ELSE {"exact", "fuzzy"}]
NoPageLink == [p \in TwoProducts |-> 0]

(* Two sales that vote for different versions, one of them without a date.    *)
TwoSales ==
  {[product |-> "p1", link |-> 11, dated |-> TRUE,  item |-> 1],
   [product |-> "p1", link |-> 12, dated |-> FALSE, item |-> 2]}

(* The two faces of one card, and a box.                                      *)
TwoFaces == {"front", "back"}
OneCard == [u \in TwoFaces |-> "v1"]

(* Two cards, an identifier each and one they share, and one that no card     *)
(* has; two loads that take them in different orders.                         *)
TwoLoads == {"scryfall", "opentcg"}
FourIds == {"i1", "i2", "shared", "unknown"}
WhoseIds == [i \in FourIds |-> CASE i = "i1" -> {"a"} [] i = "i2" -> {"b"}
                                 [] i = "shared" -> {"a", "b"} [] OTHER -> {}]
TwoConditions == {"nm", "lp"}
Offer(i, condition) == [id |-> i, sku |-> condition, n |-> 1]
TheirBatches == [l \in TwoLoads |->
  IF l = "scryfall" THEN <<{Offer("i1", "nm")}, {Offer("i2", "nm")}>>
  ELSE <<{Offer("shared", "nm"), Offer("i2", "nm")}, {Offer("i1", "lp"), Offer("unknown", "nm")}>>]

(* A card in two sets, once plain and once as a promo of another rarity, and  *)
(* a token.                                                                   *)
ThreeVersions == {"bolt", "foil", "goblin"}
TheirAttr == [v \in ThreeVersions |->
  CASE v = "bolt" -> [card |-> 2, set |-> "lea", rarity |-> "common",
                      promo |-> {}, token |-> FALSE, rank |-> 1]
    [] v = "foil" -> [card |-> 2, set |-> "sld", rarity |-> "uncommon",
                      promo |-> {"judge"}, token |-> FALSE, rank |-> 2]
    [] OTHER      -> [card |-> 3, set |-> "lea", rarity |-> "common",
                      promo |-> {"fnm"}, token |-> TRUE, rank |-> 4]]

(* A collapsed search, a single card, and the printings of a card in a set,   *)
(* which are not cached.                                                      *)
Plain == [kind |-> "search", id |-> "none", set |-> "lea", rarity |-> "none", promo |-> {},
          layout |-> "none", collapse |-> FALSE, offset |-> 0, limit |-> 2]
ThreeQueries ==
  {[Plain EXCEPT !.rarity = "common", !.collapse = TRUE],
   [Plain EXCEPT !.kind = "get", !.id = "bolt"],
   [Plain EXCEPT !.kind = "printings", !.id = "bolt"]}
ByContains == [r \in {"common", "uncommon"} |->
                 IF r = "common" THEN {"common", "uncommon"} ELSE {r}]
Lives == [k \in {"search", "get", "suggest", "printings", "sets"} |->
            IF k \in {"printings", "sets"} THEN 0 ELSE 1]

(* A promo set that the sets file lists before its parent.                    *)
ThreeRuns == 1 .. 3
ChildFirst == <<"promo", "main">>
MainIsParent == [s \in {"promo", "main"} |-> IF s = "promo" THEN "main" ELSE "none"]

catalogueVars == <<part, tierVars, marketVars, mtgjsonVars, loadsVars, searchVars, scryfallVars>>

(* What varies at the start of a part is fixed while the part is at rest.     *)
CatalogueInit ==
  /\ part \in {"tiers", "charting", "mtgjson", "loads", "search", "scryfall"}
  /\ TiersInit /\ MarketInit /\ MtgjsonInit /\ LoadsInit
  /\ SearchInit /\ ScryfallInit
  /\ part # "charting" => listed = {}
  /\ part # "scryfall" => published = {"main"}

CatalogueNext ==
  /\ UNCHANGED part
  /\ \/ /\ part = "tiers" /\ TiersNext
        /\ UNCHANGED <<marketVars, mtgjsonVars, loadsVars, searchVars, scryfallVars>>
     \/ /\ part = "charting" /\ MarketNext
        /\ UNCHANGED <<tierVars, mtgjsonVars, loadsVars, searchVars, scryfallVars>>
     \/ /\ part = "mtgjson" /\ MtgjsonNext
        /\ UNCHANGED <<tierVars, marketVars, loadsVars, searchVars, scryfallVars>>
     \/ /\ part = "loads" /\ LoadsNext
        /\ UNCHANGED <<tierVars, marketVars, mtgjsonVars, searchVars, scryfallVars>>
     \/ /\ part = "search" /\ SearchNext
        /\ UNCHANGED <<tierVars, marketVars, mtgjsonVars, loadsVars, scryfallVars>>
     \/ /\ part = "scryfall" /\ ScryfallNext
        /\ UNCHANGED <<tierVars, marketVars, mtgjsonVars, loadsVars, searchVars>>

CatalogueSpec == CatalogueInit /\ [][CatalogueNext]_catalogueVars

-----------------------------------------------------------------------------
(* Every variable of the six parts has its type.                              *)
CatalogueTypes ==
  /\ TiersTypeOK /\ MarketTypeOK /\ MtgjsonTypeOK /\ LoadsTypeOK
  /\ SearchTypeOK /\ ScryfallTypeOK
=============================================================================
