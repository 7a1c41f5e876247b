------------------------------ MODULE MCSelling ------------------------------
(* What a seller does on eBay and what becomes of it: staged actions, order *)
(* statuses, listings, and the promotion of sales to prices.  They share no *)
(* state here, so each is explored with the others at rest: part says which *)
(* one moves.                                                               *)
EXTENDS ListingActions, OrderStatus, Listings, SoldPromotion

VARIABLE part

sellingVars == <<part, vars, orderVars, listingVars, soldVars>>

SellingInit ==
  /\ part \in {"actions", "orders", "listings", "sold"}
  /\ Init /\ OrdersInit /\ ListingsInit /\ SoldInit
  /\ part # "listings" => forgotten = {}

SellingNext ==
  /\ UNCHANGED part
  /\ \/ part = "actions"  /\ Next   /\ UNCHANGED <<orderVars, listingVars, soldVars>>
     \/ part = "orders"   /\ OrdersNext /\ UNCHANGED <<vars, listingVars, soldVars>>
     \/ part = "listings" /\ ListingsNext /\ UNCHANGED <<vars, orderVars, soldVars>>
     \/ part = "sold"     /\ SoldNext /\ UNCHANGED <<vars, orderVars, listingVars>>

(* The fairness of SoldPromotion; at rest it is asked for no step.          *)
Moves(A) == part = "sold" /\ A
SellingFairness ==
  /\ WF_soldVars(Moves(StartPromotion)) /\ WF_soldVars(Moves(ReadStaging))
  /\ WF_soldVars(Moves(MarkPromoted))
  /\ \A k \in Keys : WF_soldVars(Moves(UpsertObservation(k)))
SellingSpec == SellingInit /\ [][SellingNext]_sellingVars /\ SellingFairness

-----------------------------------------------------------------------------
(* Two items, two requests at a time, one drain, as a worker of concurrency *)
(* 1 gives; more rows than one fetch takes.                                *)
(* One order, two tracking numbers a seller may give, two failures.        *)
TwoItems == {"i1", "i2"}
TwoClients == {"c1", "c2"}
OneDrainer == {"d1"}
OneOrder == {"o1"}
TwoNumbers == {"t1", "t2"}

(* Two requests of one key: a click, and its repetition.                   *)
RepeatedClick == [r \in Requests |-> "k1"]

(* Every variable of the four parts has its type.                          *)
SellingTypes == TypeOK /\ OrdersTypeOK /\ ListingsTypeOK /\ SoldTypeOK
=============================================================================
