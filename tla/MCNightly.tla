------------------------------ MODULE MCNightly ------------------------------
(* What a quiet night is made of: the chains of the pipelines, the service   *)
(* calls they are made of, the card import, the health alert, the sync of    *)
(* the sales, and the advice on the prices it leaves.  The parts share no    *)
(* state here, so each is explored with the others at rest: part says which  *)
(* one moves.                                                                *)
EXTENDS MCPipelineRuns, ServiceCalls, HealthAlert, PriceAdvice, CardImport, SalesSync

VARIABLE part

(* Two accounts; one item tracked without its variant and wrongly guessed    *)
(* from its title, one of which the order line has no price.                 *)
ThreeItems == {"i1", "i2", "i3"}
TwoAccounts == <<"a1", "a2">>
WhoseItem == [i1 |-> "a1", i2 |-> "a1", i3 |-> "a2"]
WhichCard == [i1 |-> "c1", i2 |-> "c2", i3 |-> "c1"]
WhatItLooksLike ==
  [i1 |-> [card |-> "c2", good |-> TRUE], i2 |-> [card |-> "c2", good |-> TRUE],
   i3 |-> [card |-> "c1", good |-> FALSE]]

(* A calm and a wild market for a card, of few listings or many; a card that *)
(* has one price on a buylist.                                               *)
Market(variation, crowded, rare) ==
  [p25 |-> IF variation = 10 THEN 10 ELSE 8, median |-> 10, p75 |-> 12,
   variation |-> variation, crowded |-> crowded, rare |-> rare]
FourMarkets == {Market(v, c, r) : v \in {10, 40}, c, r \in BOOLEAN}

nightlyVars == <<part, vars, callVars, importVars, healthVars, syncVars, adviceVars>>

(* The cards of the file are chosen when the import is the part that moves.  *)
NightlyInit ==
  /\ part \in {"runs", "calls", "import", "health", "sync", "advice"}
  /\ Init /\ CallsInit /\ ImportInit /\ HealthInit /\ SyncInit /\ AdviceInit
  /\ part # "import" => resume = 0 /\ file = [c \in 1..Size |-> "foreign"]
  /\ part # "sync" => products = {}
  /\ part # "advice" => offer = [price |-> 700, since |-> 1, watchers |-> 0]
  /\ part # "calls" => \A c, d \in Calls : kind[c] = kind[d] /\ ~kind[c].timed

NightlyNext ==
  /\ UNCHANGED part
  /\ \/ /\ part = "runs"   /\ Next
        /\ UNCHANGED <<callVars, importVars, healthVars, syncVars, adviceVars>>
     \/ /\ part = "calls"  /\ CallsNext
        /\ UNCHANGED <<vars, importVars, healthVars, syncVars, adviceVars>>
     \/ /\ part = "import" /\ ImportNext
        /\ UNCHANGED <<vars, callVars, healthVars, syncVars, adviceVars>>
     \/ /\ part = "health" /\ HealthNext
        /\ UNCHANGED <<vars, callVars, importVars, syncVars, adviceVars>>
     \/ /\ part = "sync"   /\ SyncNext
        /\ UNCHANGED <<vars, callVars, importVars, healthVars, adviceVars>>
     \/ /\ part = "advice" /\ AdviceNext
        /\ UNCHANGED <<vars, callVars, importVars, healthVars, syncVars>>

(* Chains at rest have nothing to do, so fairness asks nothing of them.      *)
NightlySpec == NightlyInit /\ [][NightlyNext]_nightlyVars /\ Fairness

-----------------------------------------------------------------------------
(* A service that calls another one, as the health alert does, and one more  *)
(* beside it; two ways services are registered.                              *)
ThreeCalls == {"outer", "inner", "other"}
InnerIsCalled == [c \in ThreeCalls |-> IF c = "inner" THEN "outer" ELSE c]
InTxnOrTimed == {[inTxn |-> TRUE, timed |-> FALSE], [inTxn |-> FALSE, timed |-> TRUE]}

(* Three check sets: a metric that is worse when higher, one that is worse   *)
(* when lower and one without a rule.                                        *)
ThreeChecks == <<"mtgstock", "pricing", "schema">>
TheirRules ==
  [mtgstock |-> [warn |-> 1, error |-> 2, direction |-> "higher_is_worse"],
   pricing  |-> [warn |-> 1, error |-> 0, direction |-> "lower_is_worse"],
   schema   |-> [warn |-> 0, error |-> 0, direction |-> "none"]]

(* Every variable of the six parts has its type.                            *)
NightlyTypes ==
  TypeOK /\ CallsTypeOK /\ ImportTypeOK /\ HealthTypeOK /\ SyncTypeOK
  /\ AdviceTypeOK

(* A full import that returns has counted or reported every card, and        *)
(* what it counted is stored, or lost together with the rolled back batches; *)
(* a sale is staged with the variant and the card of its listing once they   *)
(* are known, and no account or line is left out because another one failed. *)
LoadsAreTrue ==
  /\ EveryCardIsAccountedFor /\ CountedRowsAreStored
  /\ SoldAsListed /\ SoldIsStaged
=============================================================================
