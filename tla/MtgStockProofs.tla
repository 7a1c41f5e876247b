---------------------------- MODULE MtgStockProofs ----------------------------
(* Theorems about the three loaders of MCMtgStock, for any values of their   *)
(* constants.                                                                 *)
(*   MTGStocks: two chains may be in the queue together.  That the rows of    *)
(* one are not filed as those of the other rests on the order of the queue:   *)
(* between the bulk load of a chain and its staging every other message has   *)
(* one turn, and a chain that is dispatched in between has no more than its   *)
(* first message in that time (TurnInv).                                      *)
(* The window of a tier: each refresh that beat has sent is downloaded, in    *)
(* the queue, or a run of the same slot and day has its downloads ahead       *)
(* (IssuedAreDone); any days in a row, as many as the window has, come to     *)
(* each slice (EverySliceHasDay).                                             *)
(* The nightly load: a download that is not observed yet is of today, with    *)
(* the load ahead, or of an entry before the worker's midnight, with the next *)
(* load of its slot still to come (LoadInv).                                  *)
(*   Shopify: the pages before the place of a collection are of this week,    *)
(* and what has stayed on its shelf up to since_id is on one of them          *)
(* (FetchInv); that a row of each product and date is kept needs the greatest *)
(* of the files that are read, which exists as their numbers are bounded.     *)
(*   MTGJSON: what a bootstrap sees is as the table must be (Sees), and two   *)
(* bootstraps hold different products and write different values (Apart).     *)
EXTENDS MCMtgStock, FiniteSetTheorems, SequenceTheorems, WellFoundedInduction, TLAPS

Names == {"refresh", "load", "midnight", "full", "discover", "mapping", "start", "finish",
          "fetch", "bulk", "stage", "retry", "promote", "probe", "map", "download"}
Steps == {s \in [do : Names, n : Nat, ids : SUBSET Nat] :
            /\ s.do \in {"refresh", "stage"} => s.ids # {}
            /\ s.do = "bulk" => s.n \in Markets
            /\ s.do = "stage" => s.ids \subseteq Markets \cup {OwnSource}}
Keys == {"task", "tier", "load", "full", "discover", "mapping"} \X Nat \X Nat \X Nat

(* In a chain a bulk load and a staging of the same market follow another.    *)
Paired(todo) ==
  \A j \in DOMAIN todo :
    /\ todo[j].do = "bulk" =>
         /\ j + 1 \in DOMAIN todo /\ todo[j + 1].do = "stage"
         /\ todo[j + 1].ids \in {{todo[j].n}, {OwnSource}}
    /\ j + 1 \in DOMAIN todo /\ todo[j + 1].do = "stage" => todo[j].do = "bulk"

Chains == {todo \in Seq(Steps) : todo # <<>> /\ Paired(todo)}
Messages == [key : Keys, todo : Chains]

HasStage(m) == \E j \in DOMAIN m.todo : m.todo[j].do = "stage"
AtStage(m) == m.todo[1].do = "stage"

(* While no bulk load has come between a bulk load and its staging, a chain   *)
(* about to stage finds its own rows, and is before all others that stage.    *)
InTurn(q, rows) ==
  \A k \in DOMAIN q : AtStage(q[k]) =>
    /\ \A r \in rows : q[k].todo[1].ids \subseteq {r.market, OwnSource}
    /\ \A j \in DOMAIN q : j # k /\ HasStage(q[j]) => k < j

TurnInv == "shared" \notin odd => InTurn(queue, raw)

QueueTypes == queue \in Seq(Messages) /\ day \in Nat /\ beat \in DOMAIN BeatPlan

StagedOwn == \A o \in staged : o[2] = OwnSource

KeptInv ==
  QueueTypes /\ TurnInv /\ StagedOwn /\ RejectedRowsSurvive /\ FiledUnderItsMarket

-----------------------------------------------------------------------------
(* Chains *)
LEMMA ChainFacts ==
  ASSUME NEW todo \in Chains
  PROVE  /\ todo \in Seq(Steps) /\ Len(todo) \in Nat \ {0} /\ DOMAIN todo = 1 .. Len(todo)
         /\ todo[1] \in Steps /\ Paired(todo)
<1>1. todo \in Seq(Steps) /\ todo # <<>> /\ Paired(todo)
  BY DEF Chains
<1>2. QED
  BY <1>1

LEMMA TailIsChain ==
  ASSUME NEW todo \in Chains, Len(todo) # 1
  PROVE  /\ Tail(todo) \in Chains
         /\ Tail(todo)[1] = todo[2]
         /\ todo[1].do # "bulk" => Tail(todo)[1].do # "stage"
<1>1. /\ todo \in Seq(Steps) /\ Len(todo) \in Nat \ {0, 1} /\ DOMAIN todo = 1 .. Len(todo)
      /\ Paired(todo)
  BY ChainFacts
<1> DEFINE t == Tail(todo)
<1>2. /\ t \in Seq(Steps) /\ t # <<>> /\ Len(t) = Len(todo) - 1 /\ DOMAIN t = 1 .. Len(todo) - 1
      /\ \A j \in DOMAIN t : t[j] = todo[j + 1]
  <2>1. todo # <<>>
    BY DEF Chains
  <2>2. /\ t \in Seq(Steps) /\ Len(t) = Len(todo) - 1
        /\ \A i \in 1 .. Len(t) : t[i] = todo[i + 1]
    BY <1>1, <2>1, HeadTailProperties
  <2>3. DOMAIN t = 1 .. Len(t) /\ Len(t) # 0
    BY <1>1, <2>2
  <2> HIDE DEF t
  <2>4. t # <<>>
    BY <2>3
  <2>5. QED
    BY <2>2, <2>3, <2>4
<1> HIDE DEF t
<1>3. Paired(t)
  <2>1. ASSUME NEW j \in DOMAIN t, t[j].do = "bulk"
        PROVE  j + 1 \in DOMAIN t /\ t[j + 1].do = "stage" /\ t[j + 1].ids \in {{t[j].n}, {OwnSource}}
    <3>1. t[j] = todo[j + 1] /\ j + 1 \in DOMAIN todo /\ j + 1 \in Nat
      BY <1>1, <1>2
    <3>2. /\ (j + 1) + 1 \in DOMAIN todo /\ todo[(j + 1) + 1].do = "stage"
          /\ todo[(j + 1) + 1].ids \in {{todo[j + 1].n}, {OwnSource}}
      BY <1>1, <2>1, <3>1 DEF Paired
    <3>3. j + 1 \in DOMAIN t
      BY <1>1, <1>2, <3>1, <3>2
    <3>4. t[j + 1] = todo[(j + 1) + 1]
      BY <1>2, <3>3
    <3>5. QED
      BY <3>1, <3>2, <3>3, <3>4
  <2>2. ASSUME NEW j \in DOMAIN t, j + 1 \in DOMAIN t, t[j + 1].do = "stage"
        PROVE  t[j].do = "bulk"
    <3>1. t[j] = todo[j + 1] /\ t[j + 1] = todo[(j + 1) + 1] /\ (j + 1) + 1 \in DOMAIN todo
      BY <1>1, <1>2, <2>2
    <3>2. QED
      BY <1>1, <1>2, <2>2, <3>1 DEF Paired
  <2>3. QED
    BY <1>2, <2>1, <2>2 DEF Paired
<1>4. t \in Chains
  BY <1>2, <1>3 DEF Chains
<1>5. t[1] = todo[2] /\ (todo[2].do = "stage" => todo[1].do = "bulk")
  <2>1. 1 \in DOMAIN t /\ 1 \in DOMAIN todo /\ 1 + 1 \in DOMAIN todo /\ 1 + 1 = 2
    BY <1>1, <1>2
  <2>2. t[1] = todo[1 + 1]
    BY <1>2, <2>1
  <2>3. todo[1 + 1].do = "stage" => todo[1].do = "bulk"
    BY <1>1, <2>1 DEF Paired
  <2>4. QED
    BY <2>1, <2>2, <2>3
<1>6. QED
  BY <1>4, <1>5 DEF t

(* A step that is neither a bulk load nor a staging is a chain of its own.    *)
LEMMA SingleStep ==
  ASSUME NEW s \in Steps, s.do \notin {"bulk", "stage"}
  PROVE  <<s>> \in Chains /\ <<s>>[1].do # "stage"
BY DEF Chains, Paired

LEMMA Wrapped ==
  ASSUME NEW mid \in Seq(Steps), Paired(mid), Len(mid) > 0 => mid[1].do # "stage"
  PROVE  /\ <<Do("start")>> \o mid \o Ending \in Chains
         /\ (<<Do("start")>> \o mid \o Ending)[1].do = "start"
<1> DEFINE one == <<Do("start")>>
           two == one \o mid
           c == two \o Ending
<1>1. /\ one \in Seq(Steps) /\ Len(one) = 1 /\ one[1].do = "start"
      /\ Ending \in Seq(Steps) /\ Len(Ending) = 3
      /\ \A i \in 1 .. 3 : Ending[i].do \notin {"bulk", "stage"}
  BY DEF Do, Step, Steps, Names, Ending
<1>2. Len(mid) \in Nat /\ DOMAIN mid = 1 .. Len(mid)
  OBVIOUS
<1> HIDE DEF one
<1>3. /\ two \in Seq(Steps) /\ Len(two) = 1 + Len(mid) /\ two[1] = one[1]
      /\ \A i \in 1 .. Len(mid) : two[1 + i] = mid[i]
  <2>1. /\ two \in Seq(Steps) /\ Len(two) = Len(one) + Len(mid)
        /\ \A i \in 1 .. Len(one) + Len(mid) :
             two[i] = IF i <= Len(one) THEN one[i] ELSE mid[i - Len(one)]
    BY <1>1, ConcatProperties
  <2> HIDE DEF two
  <2>2. QED
    BY <1>1, <1>2, <2>1
<1> HIDE DEF two
<1>4. /\ c \in Seq(Steps) /\ Len(c) = 4 + Len(mid) /\ c[1] = one[1]
      /\ \A i \in 1 .. Len(mid) : c[1 + i] = mid[i]
      /\ \A i \in 1 .. 3 : c[1 + Len(mid) + i] = Ending[i]
  <2>1. /\ c \in Seq(Steps) /\ Len(c) = Len(two) + Len(Ending)
        /\ \A i \in 1 .. Len(two) + Len(Ending) :
             c[i] = IF i <= Len(two) THEN two[i] ELSE Ending[i - Len(two)]
    BY <1>1, <1>3, ConcatProperties
  <2> HIDE DEF c
  <2>2. Len(c) = 4 + Len(mid) /\ c[1] = one[1]
    BY <1>1, <1>2, <1>3, <2>1
  <2>3. \A i \in 1 .. Len(mid) : c[1 + i] = mid[i]
    BY <1>1, <1>2, <1>3, <2>1
  <2>4. ASSUME NEW i \in 1 .. 3 PROVE c[1 + Len(mid) + i] = Ending[i]
    <3>1. /\ 1 + Len(mid) + i \in 1 .. Len(two) + Len(Ending)
          /\ ~(1 + Len(mid) + i <= Len(two))
          /\ 1 + Len(mid) + i - Len(two) = i
      BY <1>1, <1>2, <1>3
    <3>2. QED
      BY <2>1, <3>1
  <2>5. QED
    BY <2>1, <2>2, <2>3, <2>4
<1> HIDE DEF c
<1>5. DOMAIN c = 1 .. 4 + Len(mid) /\ c # <<>>
  BY <1>2, <1>4
<1>6. ASSUME NEW j \in DOMAIN c, c[j].do \in {"bulk", "stage"}
      PROVE  j - 1 \in 1 .. Len(mid) /\ c[j] = mid[j - 1]
  <2>1. CASE j = 1
    BY <1>1, <1>4, <1>6, <2>1
  <2>2. CASE j - 1 \in 1 .. Len(mid)
    BY <1>2, <1>4, <2>2
  <2>3. CASE j - 1 - Len(mid) \in 1 .. 3
    BY <1>1, <1>2, <1>4, <1>6, <2>3
  <2>4. QED
    BY <1>2, <1>5, <2>1, <2>2, <2>3
<1>7. ASSUME NEW j \in DOMAIN c, c[j].do = "bulk"
      PROVE  /\ j + 1 \in DOMAIN c /\ c[j + 1].do = "stage"
             /\ c[j + 1].ids \in {{c[j].n}, {OwnSource}}
  <2> DEFINE i == j - 1
  <2>1. i \in DOMAIN mid /\ c[j] = mid[i]
    BY <1>2, <1>6, <1>7
  <2>2. i + 1 \in DOMAIN mid /\ mid[i + 1].do = "stage"
        /\ mid[i + 1].ids \in {{mid[i].n}, {OwnSource}}
    BY <1>7, <2>1 DEF Paired
  <2>3. i + 1 \in 1 .. Len(mid) /\ c[j + 1] = mid[i + 1] /\ j + 1 \in DOMAIN c
    BY <1>2, <1>4, <1>5, <2>1, <2>2
  <2>4. QED
    BY <2>1, <2>2, <2>3
<1>8. ASSUME NEW j \in DOMAIN c, j + 1 \in DOMAIN c, c[j + 1].do = "stage"
      PROVE  c[j].do = "bulk"
  <2>1. j \in 1 .. Len(mid) /\ c[j + 1] = mid[j]
    BY <1>2, <1>5, <1>6, <1>8
  <2>2. j # 1
    BY <1>8, <2>1
  <2> DEFINE i == j - 1
  <2>3. i \in DOMAIN mid /\ i + 1 \in DOMAIN mid /\ i + 1 = j /\ c[j] = mid[i]
    BY <1>2, <1>4, <2>1, <2>2
  <2>4. QED
    BY <1>8, <2>1, <2>3 DEF Paired
<1>9. Paired(c)
  BY <1>7, <1>8 DEF Paired
<1>10. QED
  BY <1>1, <1>4, <1>5, <1>9 DEF Chains, c, two, one

LEMMA ShortChains ==
  /\ <<Do("start"), Do("probe"), Do("finish")>> \in Chains
  /\ <<Do("start"), Do("map"), Do("finish")>> \in Chains
  /\ <<Do("start"), Do("probe"), Do("finish")>>[1].do = "start"
  /\ <<Do("start"), Do("map"), Do("finish")>>[1].do = "start"
BY DEF Chains, Paired, Do, Step, Steps, Names

LEMMA FullChainIsChain == FullChain \in Chains /\ FullChain[1].do = "start"
<1> DEFINE mid == <<Step("bulk", Tcg, Ids), Step("stage", Tcg, {OwnSource})>>
<1>1. Tcg \in Nat /\ Tcg \in Markets /\ Ids \subseteq Nat
  <2>1. LoadOrder \in Seq(Markets) /\ LoadOrder # <<>> /\ Markets \subseteq Nat
    BY MtgStockAssumption
  <2>2. LoadOrder[1] \in Markets
    BY <2>1
  <2>3. QED
    BY <2>1, <2>2, MtgStockAssumption DEF Tcg
<1>2. mid \in Seq(Steps)
  BY <1>1 DEF Step, Steps, Names, OwnSource
<1>3. Paired(mid) /\ Len(mid) = 2 /\ mid[1].do # "stage"
  BY DEF Paired, Step
<1> HIDE DEF mid
<1>4. <<Do("start")>> \o mid \o Ending \in Chains
      /\ (<<Do("start")>> \o mid \o Ending)[1].do = "start"
  BY <1>2, <1>3, Wrapped
<1>5. QED
  BY <1>4 DEF FullChain, mid

(* The markets of a chain, in any order, are markets.                         *)
LEMMA OrderedMarkets ==
  ASSUME NEW P \in SUBSET Markets
  PROVE  /\ \A ms \in InOrder(P) : ms \in Seq(Markets)
         /\ \A ms \in InLoadOrder(P) : ms \in Seq(Markets)
<1>1. \A A : \A s \in InOrder(A) : IsFiniteSet(A) => s \in [1 .. Len(s) -> A] /\ Len(s) \in Nat
  <2> SUFFICES ASSUME NEW A, NEW s \in InOrder(A), IsFiniteSet(A)
               PROVE  s \in [1 .. Len(s) -> A] /\ Len(s) \in Nat
    OBVIOUS
  <2>1. Cardinality(A) \in Nat /\ s \in [1 .. Cardinality(A) -> A]
    BY FS_CardinalityType DEF InOrder
  <2>2. s \in Seq(A) /\ Len(s) = Cardinality(A)
    BY <2>1
  <2>3. QED
    BY <2>1, <2>2
<1>2. IsFiniteSet(P)
  BY MtgStockAssumption, FS_Subset
<1>3. ASSUME NEW ms \in InOrder(P) PROVE ms \in Seq(Markets)
  <2>1. ms \in [1 .. Len(ms) -> P] /\ Len(ms) \in Nat
    BY <1>1, <1>2
  <2>2. ms \in [1 .. Len(ms) -> Markets]
    BY <2>1
  <2>3. QED
    BY <2>1, <2>2, SeqDef
<1>4. ASSUME NEW ms \in InLoadOrder(P) PROVE ms \in Seq(Markets)
  <2> DEFINE A == {k \in DOMAIN LoadOrder : LoadOrder[k] \in P}
  <2>1. PICK s \in InOrder(A) : ms = [k \in DOMAIN s |-> LoadOrder[s[k]]]
    BY DEF InLoadOrder
  <2>2. LoadOrder \in Seq(Markets) /\ DOMAIN LoadOrder = 1 .. Len(LoadOrder)
    BY MtgStockAssumption
  <2>3. IsFiniteSet(A)
    BY <2>2, FS_Interval, FS_Subset
  <2>4. s \in [1 .. Len(s) -> A] /\ Len(s) \in Nat
    BY <1>1, <2>1, <2>3
  <2>5. ms \in [1 .. Len(s) -> Markets]
    BY <2>1, <2>4
  <2>6. QED
    BY <2>4, <2>5, SeqDef
<1>5. QED
  BY <1>3, <1>4

LEMMA RefreshIsChain ==
  ASSUME NEW S \in [Markets -> SUBSET Ids], NEW ms \in Seq(Markets)
  PROVE  RefreshChain(S, ms) \in Chains /\ RefreshChain(S, ms)[1].do = "start"
<1> DEFINE Plain == {s \in Steps : s.do \notin {"bulk", "stage"}}
           one == <<Do("start")>>
           mid == [k \in DOMAIN ms |-> Step("fetch", ms[k], S[ms[k]])]
           end == <<Do("finish")>>
           two == one \o mid
           c == two \o end
<1>1. Len(ms) \in Nat /\ DOMAIN ms = 1 .. Len(ms) /\ \A k \in 1 .. Len(ms) : ms[k] \in Markets
  OBVIOUS
<1>2. ASSUME NEW k \in 1 .. Len(ms) PROVE Step("fetch", ms[k], S[ms[k]]) \in Plain
  <2>1. ms[k] \in Nat /\ S[ms[k]] \in SUBSET Nat
    BY <1>1, MtgStockAssumption
  <2>2. QED
    BY <2>1 DEF Step, Steps, Names
<1>3. /\ one \in Seq(Plain) /\ Len(one) = 1 /\ one[1].do = "start"
      /\ end \in Seq(Plain) /\ Len(end) = 1
  BY DEF Do, Step, Steps, Names
<1> HIDE DEF Plain, one, end
<1>4. mid \in [1 .. Len(ms) -> Plain]
  BY <1>1, <1>2
<1> HIDE DEF mid
<1>5. mid \in Seq(Plain)
  BY <1>1, <1>4, SeqDef
<1>6. two \in Seq(Plain) /\ Len(two) = 1 + Len(mid) /\ two[1] = one[1]
  BY <1>3, <1>5, ConcatProperties
<1> HIDE DEF two
<1>7. c \in Seq(Plain) /\ Len(c) = 2 + Len(mid) /\ c[1] = two[1]
  <2>1. /\ c \in Seq(Plain) /\ Len(c) = Len(two) + Len(end)
        /\ \A i \in 1 .. Len(two) + Len(end) :
             c[i] = IF i <= Len(two) THEN two[i] ELSE end[i - Len(two)]
    BY <1>3, <1>6, ConcatProperties
  <2> HIDE DEF c
  <2>2. Len(mid) \in Nat
    BY <1>5
  <2>3. QED
    BY <1>3, <1>6, <2>1, <2>2
<1> HIDE DEF c
<1>8. c \in Seq(Steps) /\ c # <<>> /\ \A j \in DOMAIN c : c[j].do \notin {"bulk", "stage"}
  <2>1. \A j \in DOMAIN c : c[j] \in Plain
    BY <1>7
  <2>2. c \in [1 .. Len(c) -> Plain] /\ Len(c) \in Nat /\ Len(c) # 0
    BY <1>5, <1>7
  <2>3. c \in [1 .. Len(c) -> Steps]
    BY <2>2 DEF Plain
  <2>4. c \in Seq(Steps) /\ c # <<>>
    BY <2>2, <2>3, SeqDef
  <2>5. QED
    BY <2>1, <2>4 DEF Plain
<1>9. c \in Chains /\ c[1].do = "start"
  BY <1>3, <1>6, <1>7, <1>8 DEF Chains, Paired
<1>10. QED
  BY <1>9 DEF RefreshChain, c, two, one, mid, end

LEMMA LoadIsChain ==
  ASSUME NEW S \in [Markets -> SUBSET Ids], NEW ms \in Seq(Markets)
  PROVE  LoadChain(S, ms) \in Chains /\ LoadChain(S, ms)[1].do = "start"
<1> DEFINE at(k) == ms[(k + 1) \div 2]
           link(k) == IF k % 2 = 1 THEN Step("bulk", at(k), S[at(k)])
                                   ELSE Step("stage", at(k), {at(k)})
           mid == [k \in 1 .. 2 * Len(ms) |-> link(k)]
<1>1. Len(ms) \in Nat /\ \A k \in 1 .. Len(ms) : ms[k] \in Markets
  OBVIOUS
<1>2. ASSUME NEW k \in 1 .. 2 * Len(ms)
      PROVE  at(k) \in Nat /\ at(k) \in Markets /\ S[at(k)] \in SUBSET Nat
  <2>1. (k + 1) \div 2 \in 1 .. Len(ms)
    BY <1>1
  <2>2. at(k) \in Markets
    BY <1>1, <2>1
  <2> HIDE DEF at
  <2>3. QED
    BY <2>2, MtgStockAssumption
<1>3. \A k \in 1 .. 2 * Len(ms) : k \in Nat /\ (k + 1) % 2 = 1 - (k % 2) /\ k % 2 \in {0, 1}
  BY <1>1
<1>4. \A k \in 1 .. 2 * Len(ms) : k % 2 = 1 => ((k + 1) + 1) \div 2 = (k + 1) \div 2
  BY <1>1
<1>5. \A k \in 1 .. 2 * Len(ms) : k % 2 = 1 => k + 1 \in 1 .. 2 * Len(ms)
  BY <1>1
<1>6. \A k \in 1 .. 2 * Len(ms) : k % 2 = 1 => at(k + 1) = at(k)
  BY <1>4
<1> HIDE DEF at
<1>7. ASSUME NEW k \in 1 .. 2 * Len(ms) PROVE link(k) \in Steps
  <2>1. at(k) \in Nat /\ at(k) \in Markets /\ S[at(k)] \in SUBSET Nat
    BY <1>2
  <2>2. Step("bulk", at(k), S[at(k)]) \in Steps
    BY <2>1 DEF Step, Steps, Names
  <2>3. Step("stage", at(k), {at(k)}) \in Steps
    BY <2>1 DEF Step, Steps, Names
  <2>4. QED
    BY <2>2, <2>3
<1>8. \A k \in 1 .. 2 * Len(ms) :
        IF k % 2 = 1 THEN link(k).do = "bulk" /\ link(k).n = at(k)
                     ELSE link(k).do = "stage" /\ link(k).ids = {at(k)}
  BY DEF Step
<1> HIDE DEF link
<1>9. mid \in [1 .. 2 * Len(ms) -> Steps] /\ \A k \in 1 .. 2 * Len(ms) : mid[k] = link(k)
  BY <1>7
<1> HIDE DEF mid
<1>10. mid \in Seq(Steps) /\ Len(mid) = 2 * Len(ms) /\ DOMAIN mid = 1 .. 2 * Len(ms)
  BY <1>1, <1>9, SeqDef
<1>11. Paired(mid) /\ (Len(mid) > 0 => mid[1].do # "stage")
  <2>1. ASSUME NEW k \in DOMAIN mid, mid[k].do = "bulk"
        PROVE  /\ k + 1 \in DOMAIN mid /\ mid[k + 1].do = "stage"
               /\ mid[k + 1].ids \in {{mid[k].n}, {OwnSource}}
    <3>1. k \in 1 .. 2 * Len(ms) /\ mid[k] = link(k)
      BY <1>9, <1>10
    <3>2. k % 2 = 1
      BY <1>8, <2>1, <3>1
    <3>3. k + 1 \in 1 .. 2 * Len(ms) /\ (k + 1) % 2 # 1 /\ at(k + 1) = at(k)
      BY <1>3, <1>5, <1>6, <3>1, <3>2
    <3>4. mid[k + 1] = link(k + 1)
      BY <1>9, <3>3
    <3>5. QED
      BY <1>8, <1>10, <3>1, <3>2, <3>3, <3>4
  <2>2. ASSUME NEW k \in DOMAIN mid, k + 1 \in DOMAIN mid, mid[k + 1].do = "stage"
        PROVE  mid[k].do = "bulk"
    <3>1. /\ k \in 1 .. 2 * Len(ms) /\ mid[k] = link(k)
          /\ k + 1 \in 1 .. 2 * Len(ms) /\ mid[k + 1] = link(k + 1)
      BY <1>9, <1>10, <2>2
    <3>2. (k + 1) % 2 # 1
      BY <1>8, <2>2, <3>1
    <3>3. k % 2 = 1
      BY <1>3, <3>1, <3>2
    <3>4. QED
      BY <1>8, <3>1, <3>3
  <2>3. Len(mid) > 0 => mid[1].do = "bulk"
    <3>1. 1 % 2 = 1
      OBVIOUS
    <3>2. Len(mid) > 0 => 1 \in 1 .. 2 * Len(ms)
      BY <1>1, <1>10
    <3>3. QED
      BY <1>8, <1>9, <3>1, <3>2
  <2>4. QED
    BY <2>1, <2>2, <2>3 DEF Paired
<1>12. QED
  BY <1>10, <1>11, Wrapped DEF LoadChain, mid, link, at

-----------------------------------------------------------------------------
(* The queue *)
LEMMA Popped ==
  ASSUME NEW q \in Seq(Messages), q # <<>>
  PROVE  /\ Head(q) = q[1] /\ q[1] \in Messages /\ 1 \in DOMAIN q
         /\ Tail(q) \in Seq(Messages) /\ Len(q) \in Nat \ {0} /\ Len(Tail(q)) = Len(q) - 1
         /\ DOMAIN q = 1 .. Len(q) /\ DOMAIN Tail(q) = 1 .. Len(q) - 1
         /\ \A i \in DOMAIN Tail(q) : i + 1 \in DOMAIN q /\ Tail(q)[i] = q[i + 1]
<1>1. /\ Head(q) \in Messages /\ Tail(q) \in Seq(Messages) /\ Len(Tail(q)) = Len(q) - 1
      /\ \A i \in 1 .. Len(Tail(q)) : Tail(q)[i] = q[i + 1]
  BY HeadTailProperties
<1>2. Len(q) \in Nat \ {0} /\ DOMAIN q = 1 .. Len(q) /\ Head(q) = q[1]
  OBVIOUS
<1> DEFINE t == Tail(q)
<1>3. DOMAIN t = 1 .. Len(t)
  BY <1>1
<1> HIDE DEF t
<1>4. 1 \in DOMAIN q /\ DOMAIN t = 1 .. Len(q) - 1
  BY <1>1, <1>2, <1>3 DEF t
<1>5. \A i \in 1 .. Len(q) - 1 : i + 1 \in 1 .. Len(q)
  BY <1>2
<1>6. QED
  BY <1>1, <1>2, <1>4, <1>5 DEF t

LEMMA Sent ==
  ASSUME NEW q \in Seq(Messages), NEW m \in Messages
  PROVE  /\ Append(q, m) \in Seq(Messages)
         /\ DOMAIN Append(q, m) = 1 .. Len(q) + 1
         /\ Len(q) \in Nat /\ DOMAIN q = 1 .. Len(q)
         /\ \A i \in 1 .. Len(q) : Append(q, m)[i] = q[i]
         /\ Append(q, m)[Len(q) + 1] = m
<1>1. /\ Append(q, m) \in Seq(Messages) /\ Len(Append(q, m)) = Len(q) + 1
      /\ \A i \in 1 .. Len(q) : Append(q, m)[i] = q[i]
      /\ Append(q, m)[Len(q) + 1] = m
  BY AppendProperties
<1> DEFINE a == Append(q, m)
<1>2. DOMAIN a = 1 .. Len(a)
  BY <1>1
<1> HIDE DEF a
<1>3. QED
  BY <1>1, <1>2 DEF a

LEMMA DropKeepsTurn ==
  ASSUME NEW q \in Seq(Messages), q # <<>>, NEW rows, InTurn(q, rows)
  PROVE  InTurn(Tail(q), rows)
<1> DEFINE t == Tail(q)
<1>1. /\ Len(q) \in Nat \ {0} /\ DOMAIN t = 1 .. Len(q) - 1 /\ DOMAIN q = 1 .. Len(q)
      /\ \A i \in DOMAIN t : i + 1 \in DOMAIN q /\ t[i] = q[i + 1]
  BY Popped
<1> HIDE DEF t
<1>2. ASSUME NEW k \in DOMAIN t, AtStage(t[k])
      PROVE  /\ \A r \in rows : t[k].todo[1].ids \subseteq {r.market, OwnSource}
             /\ \A j \in DOMAIN t : j # k /\ HasStage(t[j]) => k < j
  <2>1. k + 1 \in DOMAIN q /\ t[k] = q[k + 1]
    BY <1>1
  <2>2. /\ \A r \in rows : q[k + 1].todo[1].ids \subseteq {r.market, OwnSource}
        /\ \A j \in DOMAIN q : j # k + 1 /\ HasStage(q[j]) => k + 1 < j
    BY <1>2, <2>1 DEF InTurn
  <2>3. ASSUME NEW j \in DOMAIN t, j # k, HasStage(t[j]) PROVE k < j
    <3>1. j + 1 \in DOMAIN q /\ HasStage(q[j + 1])
      BY <1>1, <2>3
    <3>2. j + 1 # k + 1
      BY <1>1, <2>3
    <3>3. k + 1 < j + 1
      BY <2>2, <3>1, <3>2
    <3>4. QED
      BY <1>1, <3>3
  <2>4. QED
    BY <2>1, <2>2, <2>3
<1>3. QED
  BY <1>2 DEF InTurn, t

LEMMA SendKeepsTurn ==
  ASSUME NEW q \in Seq(Messages), NEW rows, InTurn(q, rows), NEW m \in Messages, ~AtStage(m)
  PROVE  InTurn(Append(q, m), rows)
<1> DEFINE a == Append(q, m)
<1>1. /\ DOMAIN a = 1 .. Len(q) + 1 /\ Len(q) \in Nat /\ DOMAIN q = 1 .. Len(q)
      /\ \A i \in 1 .. Len(q) : a[i] = q[i]
      /\ a[Len(q) + 1] = m
  BY Sent
<1> HIDE DEF a
<1>2. ASSUME NEW k \in DOMAIN a, AtStage(a[k])
      PROVE  /\ \A r \in rows : a[k].todo[1].ids \subseteq {r.market, OwnSource}
             /\ \A j \in DOMAIN a : j # k /\ HasStage(a[j]) => k < j
  <2>1. k # Len(q) + 1
    BY <1>1, <1>2
  <2>2. k \in DOMAIN q /\ a[k] = q[k]
    BY <1>1, <2>1
  <2>3. /\ \A r \in rows : q[k].todo[1].ids \subseteq {r.market, OwnSource}
        /\ \A j \in DOMAIN q : j # k /\ HasStage(q[j]) => k < j
    BY <1>2, <2>2 DEF InTurn
  <2>4. ASSUME NEW j \in DOMAIN a, j # k, HasStage(a[j]) PROVE k < j
    <3>1. CASE j = Len(q) + 1
      BY <1>1, <2>2, <3>1
    <3>2. CASE j \in DOMAIN q
      BY <1>1, <2>3, <2>4, <3>2
    <3>3. QED
      BY <1>1, <3>1, <3>2
  <2>5. QED
    BY <2>2, <2>3, <2>4
<1>3. QED
  BY <1>2 DEF InTurn, a

(* What the head of the queue does next, when its message is dropped, goes on *)
(* or is replaced by a new chain.                                             *)
LEMMA HeadFacts ==
  ASSUME QueueTypes, queue # <<>>
  PROVE  /\ Msg \in Messages /\ Msg = queue[1] /\ 1 \in DOMAIN queue
         /\ Msg.todo \in Chains /\ Msg.key \in Keys
         /\ This = Msg.todo[1] /\ This \in Steps
<1>1. Msg \in Messages /\ Msg = queue[1] /\ 1 \in DOMAIN queue
  BY Popped DEF QueueTypes, Msg
<1>2. Msg.todo \in Chains /\ Msg.key \in Keys
  BY <1>1 DEF Messages
<1>3. Msg.todo \in Seq(Steps) /\ Msg.todo # <<>> /\ Msg.todo[1] \in Steps
  BY <1>2, ChainFacts DEF Chains
<1>4. QED
  BY <1>1, <1>2, <1>3 DEF This

LEMMA EndsKeeps ==
  ASSUME QueueTypes, TurnInv, queue # <<>>, Ends, raw' = raw,
         "shared" \in odd => "shared" \in odd'
  PROVE  queue' \in Seq(Messages) /\ TurnInv'
<1>1. queue' \in Seq(Messages)
  BY Popped DEF QueueTypes, Ends
<1>2. ASSUME "shared" \notin odd PROVE InTurn(queue', raw)
  BY <1>2, DropKeepsTurn DEF QueueTypes, TurnInv, Ends
<1>3. QED
  BY <1>1, <1>2 DEF TurnInv, InTurn

LEMMA ContinueKeeps ==
  ASSUME QueueTypes, TurnInv, queue # <<>>, Continue, This.do # "bulk", raw' = raw,
         "shared" \in odd => "shared" \in odd'
  PROVE  queue' \in Seq(Messages) /\ TurnInv'
<1>1. CASE Len(Msg.todo) = 1
  BY <1>1, EndsKeeps DEF Continue, Ends
<1>2. CASE Len(Msg.todo) # 1
  <2> DEFINE m == Message(Msg.key, Tail(Msg.todo))
  <2>1. queue' = Append(Tail(queue), m)
    BY <1>2 DEF Continue
  <2>2. m \in Messages /\ ~AtStage(m)
    <3>1. Msg.todo \in Chains /\ Msg.key \in Keys /\ Msg.todo[1].do # "bulk"
      BY HeadFacts
    <3>2. Tail(Msg.todo) \in Chains /\ Tail(Msg.todo)[1].do # "stage"
      BY <1>2, <3>1, TailIsChain
    <3>3. QED
      BY <3>1, <3>2 DEF Messages, Message, AtStage
  <2> HIDE DEF m
  <2>3. Tail(queue) \in Seq(Messages)
    BY Popped DEF QueueTypes
  <2>4. queue' \in Seq(Messages)
    BY <2>1, <2>2, <2>3, Sent
  <2>5. ASSUME "shared" \notin odd PROVE InTurn(queue', raw)
    <3>1. InTurn(Tail(queue), raw)
      BY <2>5, DropKeepsTurn DEF QueueTypes, TurnInv
    <3>2. QED
      BY <2>1, <2>2, <2>3, <3>1, SendKeepsTurn
  <2>6. QED
    BY <2>4, <2>5 DEF TurnInv, InTurn
<1>3. QED
  BY <1>1, <1>2

LEMMA DispatchKeeps ==
  ASSUME QueueTypes, TurnInv, queue # <<>>, raw' = raw, odd' = odd,
         NEW key \in Keys, NEW todo \in Chains, todo[1].do = "start", Dispatch(key, todo)
  PROVE  queue' \in Seq(Messages) /\ TurnInv'
<1>1. CASE key \in active
  BY <1>1, EndsKeeps DEF Dispatch, Ends
<1>2. CASE key \notin active
  <2> DEFINE m == Message(key, todo)
  <2>1. queue' = Append(Tail(queue), m)
    BY <1>2 DEF Dispatch
  <2>2. m \in Messages /\ ~AtStage(m)
    BY DEF Messages, Message, AtStage
  <2> HIDE DEF m
  <2>3. Tail(queue) \in Seq(Messages)
    BY Popped DEF QueueTypes
  <2>4. queue' \in Seq(Messages)
    BY <2>1, <2>2, <2>3, Sent
  <2>5. ASSUME "shared" \notin odd PROVE InTurn(queue', raw)
    <3>1. InTurn(Tail(queue), raw)
      BY <2>5, DropKeepsTurn DEF QueueTypes, TurnInv
    <3>2. QED
      BY <2>1, <2>2, <2>3, <3>1, SendKeepsTurn
  <2>6. QED
    BY <2>4, <2>5 DEF TurnInv, InTurn
<1>3. QED
  BY <1>1, <1>2

(* A chain that has loaded is the only one that stages, or the table is       *)
(* shared; a bulk load that fails leaves no chain about to stage.             *)
LEMMA BulkLoadKeeps ==
  ASSUME QueueTypes, TurnInv, BulkLoad
  PROVE  queue' \in Seq(Messages) /\ TurnInv'
<1> DEFINE m == Message(Msg.key, Tail(Msg.todo))
           t == Tail(queue)
<1>1. queue # <<>> /\ This.do = "bulk" /\ Continue
  BY DEF BulkLoad, At
<1>2. /\ Msg.todo \in Chains /\ Msg.key \in Keys /\ This = Msg.todo[1] /\ This \in Steps
      /\ Msg = queue[1]
  BY <1>1, HeadFacts
<1>3. Len(Msg.todo) # 1 /\ Msg.todo[2].do = "stage" /\ Msg.todo[2].ids \in {{This.n}, {OwnSource}}
  <2>1. 1 \in DOMAIN Msg.todo /\ DOMAIN Msg.todo = 1 .. Len(Msg.todo) /\ Paired(Msg.todo)
    BY <1>2, ChainFacts
  <2>2. 1 + 1 \in DOMAIN Msg.todo /\ Msg.todo[1 + 1].do = "stage"
        /\ Msg.todo[1 + 1].ids \in {{Msg.todo[1].n}, {OwnSource}}
    BY <1>1, <1>2, <2>1 DEF Paired
  <2>3. QED
    BY <1>2, <2>1, <2>2
<1>4. queue' = Append(t, m)
  BY <1>1, <1>3 DEF Continue
<1>5. m \in Messages /\ m.todo[1] = Msg.todo[2]
  <2>1. Tail(Msg.todo) \in Chains /\ Tail(Msg.todo)[1] = Msg.todo[2]
    BY <1>2, <1>3, TailIsChain
  <2>2. QED
    BY <1>2, <2>1 DEF Messages, Message
<1> HIDE DEF m
<1>6. /\ t \in Seq(Messages) /\ DOMAIN t = 1 .. Len(queue) - 1 /\ Len(t) = Len(queue) - 1
      /\ Len(queue) \in Nat \ {0}
      /\ \A i \in DOMAIN t : t[i] = queue[i + 1]
  BY <1>1, Popped DEF QueueTypes
<1> HIDE DEF t
<1>7. /\ queue' \in Seq(Messages) /\ DOMAIN queue' = 1 .. Len(queue)
      /\ \A i \in 1 .. Len(queue) - 1 : queue'[i] = queue[i + 1]
      /\ queue'[Len(queue)] = m
  <2>1. /\ Append(t, m) \in Seq(Messages)
        /\ DOMAIN Append(t, m) = 1 .. Len(t) + 1
        /\ \A i \in 1 .. Len(t) : Append(t, m)[i] = t[i]
        /\ Append(t, m)[Len(t) + 1] = m
    BY <1>5, <1>6, Sent
  <2>2. QED
    BY <1>4, <1>6, <2>1
<1>8. CASE Shared
  BY <1>7, <1>8 DEF BulkLoad, TurnInv
<1>9. CASE ~Shared
  <2>1. \A i \in 1 .. Len(queue) - 1 : ~HasStage(queue'[i])
    <3>1. \A i \in 1 .. Len(queue) - 1 : i + 1 \in 2 .. Len(queue)
      BY <1>6
    <3>2. QED
      BY <1>7, <1>9, <3>1 DEF Shared, HasStage
  <2>2. \A q \in Messages : AtStage(q) => HasStage(q)
    <3>1. \A q \in Messages : 1 \in DOMAIN q.todo
      BY ChainFacts DEF Messages
    <3>2. QED
      BY <3>1 DEF AtStage, HasStage
  <2>3. ASSUME NEW j \in DOMAIN queue', HasStage(queue'[j]) PROVE j = Len(queue)
    BY <1>6, <1>7, <2>1, <2>3
  <2>4. \A r \in raw' : r.market = This.n
    <3> SUFFICES ASSUME NEW r \in raw' PROVE r.market = This.n
      OBVIOUS
    <3>1. r \in Loadable(This.ids, This.n)
      BY DEF BulkLoad, ReplaceRaw
    <3>2. PICK i : r = [id |-> i, market |-> This.n, ver |-> file[<<i, This.n>>]]
      BY <3>1 DEF Loadable
    <3>3. QED
      BY <3>2
  <2>5. \A r \in raw' : m.todo[1].ids \subseteq {r.market, OwnSource}
    BY <1>3, <1>5, <2>4
  <2>6. ASSUME NEW k \in DOMAIN queue', AtStage(queue'[k])
        PROVE  /\ \A r \in raw' : queue'[k].todo[1].ids \subseteq {r.market, OwnSource}
               /\ \A j \in DOMAIN queue' : j # k /\ HasStage(queue'[j]) => k < j
    <3>1. queue'[k] \in Messages
      BY <1>7
    <3>2. k = Len(queue)
      BY <2>2, <2>3, <2>6, <3>1
    <3>3. queue'[k] = m
      BY <1>7, <3>2
    <3>4. QED
      BY <2>3, <2>5, <3>2, <3>3
  <2>7. InTurn(queue', raw')
    BY <2>6 DEF InTurn
  <2>8. QED
    BY <1>7, <2>7 DEF TurnInv, InTurn
<1>10. QED
  BY <1>8, <1>9

LEMMA StepFailsKeeps ==
  ASSUME QueueTypes, TurnInv, StepFails
  PROVE  queue' \in Seq(Messages) /\ TurnInv'
<1>1. queue # <<>> /\ queue' = Tail(queue) /\ odd' = odd \cup {"failed"}
  BY DEF StepFails, At, Ends, Fails
<1>2. CASE This.do # "bulk"
  <2>1. raw' = raw
    BY <1>2 DEF StepFails, At
  <2>2. QED
    BY <1>1, <2>1, EndsKeeps DEF Ends
<1>3. CASE This.do = "bulk"
  <2>1. /\ Tail(queue) \in Seq(Messages) /\ DOMAIN queue = 1 .. Len(queue)
        /\ \A i \in DOMAIN Tail(queue) : i + 1 \in DOMAIN queue /\ Tail(queue)[i] = queue[i + 1]
        /\ DOMAIN Tail(queue) = 1 .. Len(queue) - 1 /\ Len(queue) \in Nat \ {0}
    BY <1>1, Popped DEF QueueTypes
  <2>2. HasStage(queue[1]) /\ 1 \in DOMAIN queue
    <3>1. Msg = queue[1] /\ Msg.todo \in Chains /\ This = Msg.todo[1] /\ 1 \in DOMAIN queue
      BY <1>1, HeadFacts
    <3>2. 1 \in DOMAIN Msg.todo /\ Paired(Msg.todo)
      BY <3>1, ChainFacts
    <3>3. QED
      BY <1>3, <3>1, <3>2 DEF Paired, HasStage
  <2>3. ASSUME "shared" \notin odd, NEW k \in DOMAIN Tail(queue) PROVE ~AtStage(Tail(queue)[k])
    <3>1. k + 1 \in DOMAIN queue /\ k + 1 # 1 /\ ~(k + 1 < 1) /\ Tail(queue)[k] = queue[k + 1]
      BY <2>1
    <3>2. ~AtStage(queue[k + 1])
      BY <2>2, <2>3, <3>1 DEF TurnInv, InTurn
    <3>3. QED
      BY <3>1, <3>2
  <2>4. QED
    BY <1>1, <2>1, <2>3 DEF TurnInv, InTurn
<1>4. QED
  BY <1>2, <1>3

-----------------------------------------------------------------------------
LEMMA InitKeeps == Init => KeptInv
<1> SUFFICES ASSUME Init PROVE KeptInv
  OBVIOUS
<1>1. QueueTypes
  <2>1. BeatPlan \in Seq(PlanSteps) /\ BeatPlan # <<>>
    BY MtgStockAssumption
  <2>2. 1 \in DOMAIN BeatPlan
    BY <2>1
  <2>3. QED
    BY <2>2 DEF Init, QueueTypes
<1>2. QED
  BY <1>1 DEF Init, KeptInv, TurnInv, InTurn, StagedOwn, RejectedRowsSurvive,
    FiledUnderItsMarket

(* A step that touches no row of the staging tables.                          *)
RowsInv == StagedOwn /\ RejectedRowsSurvive /\ FiledUnderItsMarket

LEMMA QuietRows ==
  ASSUME RowsInv, UNCHANGED <<staged, rejects, obs, refused>>, "shared" \in odd => "shared" \in odd'
  PROVE  RowsInv'
BY DEF RowsInv, StagedOwn, RejectedRowsSurvive, FiledUnderItsMarket

LEMMA BeatKeeps ==
  ASSUME QueueTypes, TurnInv, Beat
  PROVE  queue' \in Seq(Messages) /\ TurnInv' /\ day' \in Nat /\ beat' \in DOMAIN BeatPlan
<1> DEFINE b == BeatPlan[beat]
<1>1. BeatPlan \in Seq(PlanSteps) /\ BeatPlan # <<>>
  BY MtgStockAssumption
<1>2. Len(BeatPlan) \in Nat \ {0} /\ DOMAIN BeatPlan = 1 .. Len(BeatPlan) /\ beat \in 1 .. Len(BeatPlan)
  BY <1>1 DEF QueueTypes
<1>3. b \in PlanSteps /\ (b.do = "refresh" => b.ids # {})
  BY <1>1, <1>2, MtgStockAssumption
<1>4. beat' \in DOMAIN BeatPlan
  BY <1>2 DEF Beat
<1>5. "shared" \in odd => "shared" \in odd'
  BY DEF Beat
<1>6. raw' = raw
  BY DEF Beat, database
<1> HIDE DEF b
<1>7. CASE b.do = "midnight"
  <2>1. queue' = queue /\ day' = day + 1
    BY <1>7 DEF Beat, b
  <2>2. QED
    BY <1>4, <1>5, <1>6, <2>1 DEF QueueTypes, TurnInv, InTurn
<1>8. CASE b.do # "midnight"
  <2>1. queue' = Append(queue, Message(NoKey, <<b>>)) /\ day' = day
    BY <1>8 DEF Beat, b
  <2>2. b \in Steps /\ b.do \notin {"bulk", "stage"}
    BY <1>3 DEF PlanSteps, Steps, Names
  <2>3. Message(NoKey, <<b>>) \in Messages /\ ~AtStage(Message(NoKey, <<b>>))
    BY <2>2, SingleStep DEF Message, Messages, AtStage, NoKey, Keys
  <2>4. queue' \in Seq(Messages)
    BY <2>1, <2>3, Sent DEF QueueTypes
  <2>5. ASSUME "shared" \notin odd PROVE InTurn(queue', raw)
    BY <2>1, <2>3, <2>5, SendKeepsTurn DEF QueueTypes, TurnInv
  <2>6. QED
    BY <1>4, <1>5, <1>6, <2>1, <2>4, <2>5 DEF QueueTypes, TurnInv, InTurn
<1>9. QED
  BY <1>7, <1>8

LEMMA ManualKeeps ==
  ASSUME QueueTypes, TurnInv, NEW do \in OperatorTasks, Manual(do)
  PROVE  queue' \in Seq(Messages) /\ TurnInv'
<1>1. queue' = Append(queue, Message(NoKey, <<do>>)) /\ odd' = odd \cup {"manual"} /\ raw' = raw
  BY DEF Manual, database
<1>2. do \in Steps /\ do.do \notin {"bulk", "stage"}
  <2>1. CASE do \in {Do("discover"), Do("mapping"), Do("full")}
    BY <2>1 DEF Do, Step, Steps, Names
  <2>2. ASSUME NEW m \in Markets, do = Step("download", m, {})
        PROVE  do \in Steps /\ do.do \notin {"bulk", "stage"}
    <3>1. m \in Nat
      BY MtgStockAssumption
    <3>2. QED
      BY <2>2, <3>1 DEF Step, Steps, Names
  <2>3. QED
    BY <2>1, <2>2 DEF OperatorTasks
<1>3. Message(NoKey, <<do>>) \in Messages /\ ~AtStage(Message(NoKey, <<do>>))
  BY <1>2, SingleStep DEF Message, Messages, AtStage, NoKey, Keys
<1>4. queue' \in Seq(Messages)
  BY <1>1, <1>3, Sent DEF QueueTypes
<1>5. ASSUME "shared" \notin odd PROVE InTurn(queue', raw)
  BY <1>1, <1>3, <1>5, SendKeepsTurn DEF QueueTypes, TurnInv
<1>6. QED
  BY <1>1, <1>4, <1>5 DEF TurnInv, InTurn

LEMMA RunKeeps ==
  ASSUME QueueTypes, TurnInv, RunRefresh \/ RunLoad \/ RunTask
  PROVE  queue' \in Seq(Messages) /\ TurnInv'
<1>1. queue # <<>> /\ raw' = raw /\ odd' = odd /\ day \in Nat
  BY DEF RunRefresh, RunLoad, RunTask, At, Calm, database, QueueTypes
<1>2. This \in Steps
  BY <1>1, HeadFacts
<1>3. \A kind \in {"tier", "load", "full", "discover", "mapping"}, n, s \in Nat : Key(kind, n, s) \in Keys
  BY <1>1 DEF Key, Keys
<1>4. CASE RunRefresh
  <2> DEFINE slot == CHOOSE s \in This.ids : TRUE
             slice == Slice(TierIds(This.n), This.n, slot, day)
             S == [m \in Markets |-> {i \in Ids : <<i, m>> \in slice}]
  <2>1. PICK ms \in InOrder(Asked(S)) : Dispatch(Key("tier", This.n, slot), RefreshChain(S, ms))
    BY <1>4 DEF RunRefresh
  <2>2. This.n \in Nat /\ slot \in Nat
    BY <1>2, <1>4 DEF RunRefresh, At, Steps
  <2>3. S \in [Markets -> SUBSET Ids]
    OBVIOUS
  <2> HIDE DEF S, slot
  <2>4. Asked(S) \in SUBSET Markets
    BY DEF Asked
  <2>5. ms \in Seq(Markets)
    BY <2>1, <2>4, OrderedMarkets
  <2>6. RefreshChain(S, ms) \in Chains /\ RefreshChain(S, ms)[1].do = "start"
    BY <2>3, <2>5, RefreshIsChain
  <2>7. Key("tier", This.n, slot) \in Keys
    BY <1>3, <2>2
  <2>8. QED
    BY <1>1, <2>1, <2>6, <2>7, DispatchKeeps
<1>5. CASE RunLoad
  <2> DEFINE S == [m \in Markets |-> TodayIds(m)]
  <2>1. PICK ms \in InLoadOrder(Asked(S)) : Dispatch(Key("load", 0, 0), LoadChain(S, ms))
    BY <1>5 DEF RunLoad
  <2>2. S \in [Markets -> SUBSET Ids]
    BY DEF TodayIds
  <2> HIDE DEF S
  <2>3. Asked(S) \in SUBSET Markets
    BY DEF Asked
  <2>4. ms \in Seq(Markets)
    BY <2>1, <2>3, OrderedMarkets
  <2>5. LoadChain(S, ms) \in Chains /\ LoadChain(S, ms)[1].do = "start"
    BY <2>2, <2>4, LoadIsChain
  <2>6. QED
    BY <1>1, <1>3, <2>1, <2>5, DispatchKeeps
<1>6. CASE RunTask
  <2>1. /\ Key("full", 0, 0) \in Keys /\ Key("discover", 0, 0) \in Keys
        /\ Key("mapping", 0, 0) \in Keys
    BY <1>3
  <2>2. CASE Dispatch(Key("full", 0, 0), FullChain)
    BY <1>1, <2>1, <2>2, FullChainIsChain, DispatchKeeps
  <2>3. CASE Dispatch(Key("discover", 0, 0), <<Do("start"), Do("probe"), Do("finish")>>)
    BY <1>1, <2>1, <2>3, ShortChains, DispatchKeeps
  <2>4. CASE Dispatch(Key("mapping", 0, 0), <<Do("start"), Do("map"), Do("finish")>>)
    BY <1>1, <2>1, <2>4, ShortChains, DispatchKeeps
  <2>5. QED
    BY <1>6, <2>2, <2>3, <2>4 DEF RunTask
<1>7. QED
  BY <1>4, <1>5, <1>6

(* The rows that are staged are those of the head's market, or are filed      *)
(* under mtgstocks.                                                           *)
LEMMA StageRows ==
  ASSUME QueueTypes, TurnInv, RowsInv, Stage
  PROVE  RowsInv'
<1> DEFINE source == CHOOSE s \in This.ids : TRUE
           resolved == {r \in raw : Resolvable(r.id)}
<1>1. /\ obs' = IF raw = {} THEN obs ELSE obs \cup (resolved \X {source}) \cup staged
      /\ staged' = IF raw = {} THEN staged ELSE {}
      /\ rejects' = rejects \cup (raw \ resolved)
      /\ refused' = refused \cup (raw \ resolved)
      /\ "shared" \in odd => "shared" \in odd'
  BY DEF Stage
<1>2. ASSUME "shared" \notin odd, NEW r \in raw PROVE source \in {r.market, OwnSource}
  <2>1. /\ Msg = queue[1] /\ 1 \in DOMAIN queue /\ This = Msg.todo[1] /\ This \in Steps
        /\ This.do = "stage"
    BY HeadFacts DEF Stage, At
  <2>2. AtStage(queue[1]) /\ queue[1].todo[1] = This
    BY <2>1 DEF AtStage
  <2>3. This.ids \subseteq {r.market, OwnSource}
    BY <1>2, <2>1, <2>2 DEF TurnInv, InTurn
  <2>4. This.ids # {}
    BY <2>1 DEF Steps
  <2>5. QED
    BY <2>3, <2>4
<1>3. resolved \subseteq raw
  OBVIOUS
<1> HIDE DEF source, resolved
<1>4. StagedOwn'
  BY <1>1 DEF RowsInv, StagedOwn
<1>5. RejectedRowsSurvive'
  BY <1>1 DEF RowsInv, RejectedRowsSurvive
<1>6. FiledUnderItsMarket'
  <2> SUFFICES ASSUME "shared" \notin odd, NEW o \in obs' PROVE o[2] \in {o[1].market, OwnSource}
    BY <1>1 DEF FiledUnderItsMarket
  <2>1. CASE o \in obs
    BY <2>1 DEF RowsInv, FiledUnderItsMarket
  <2>2. CASE o \in staged
    BY <2>2 DEF RowsInv, StagedOwn
  <2>3. CASE o \in resolved \X {source}
    <3>1. o[1] \in raw /\ o[2] = source
      BY <1>3, <2>3
    <3>2. QED
      BY <1>2, <3>1
  <2>4. QED
    BY <1>1, <2>1, <2>2, <2>3
<1>7. QED
  BY <1>4, <1>5, <1>6 DEF RowsInv

LEMMA RetryRows ==
  ASSUME RowsInv, Retry
  PROVE  RowsInv'
<1> DEFINE ready == {r \in rejects : Resolvable(r.id)}
<1>1. /\ staged' = staged \cup (ready \X {OwnSource}) /\ rejects' = rejects \ ready
      /\ obs' = obs /\ refused' = refused /\ ("shared" \in odd => "shared" \in odd')
  BY DEF Retry
<1> HIDE DEF ready
<1>2. StagedOwn'
  BY <1>1 DEF RowsInv, StagedOwn
<1>3. FiledUnderItsMarket'
  BY <1>1 DEF RowsInv, FiledUnderItsMarket
<1>4. ASSUME NEW r \in refused' PROVE r \in rejects' \/ \E o \in staged' \cup obs' : o[1] = r
  <2>1. CASE r \in ready
    <3>1. <<r, OwnSource>> \in staged' /\ <<r, OwnSource>>[1] = r
      BY <1>1, <2>1
    <3>2. QED
      BY <3>1
  <2>2. CASE r \notin ready
    BY <1>1, <1>4, <2>2 DEF RowsInv, RejectedRowsSurvive
  <2>3. QED
    BY <2>1, <2>2
<1>5. QED
  BY <1>2, <1>3, <1>4 DEF RowsInv, RejectedRowsSurvive

LEMMA PromoteRows ==
  ASSUME RowsInv, Promote
  PROVE  RowsInv'
<1>1. obs' = obs \cup staged /\ staged' = {} /\ rejects' = rejects /\ refused' = refused /\ odd' = odd
  BY DEF Promote, Calm
<1>2. StagedOwn' /\ RejectedRowsSurvive'
  BY <1>1 DEF RowsInv, StagedOwn, RejectedRowsSurvive
<1>3. FiledUnderItsMarket'
  BY <1>1 DEF RowsInv, StagedOwn, FiledUnderItsMarket
<1>4. QED
  BY <1>2, <1>3 DEF RowsInv

LEMMA NextKeeps == KeptInv /\ [Next]_vars => KeptInv'
<1> SUFFICES ASSUME KeptInv, [Next]_vars PROVE KeptInv'
  OBVIOUS
<1>1. QueueTypes /\ TurnInv /\ RowsInv
  BY DEF KeptInv, RowsInv
<1>2. SUFFICES queue' \in Seq(Messages) /\ TurnInv' /\ RowsInv' /\ day' \in Nat
               /\ beat' \in DOMAIN BeatPlan
  BY DEF KeptInv, RowsInv, QueueTypes
<1>3. CASE UNCHANGED vars
  BY <1>1, <1>3, QuietRows DEF vars, database, QueueTypes, TurnInv, InTurn
<1>4. CASE Beat
  <2>1. UNCHANGED <<staged, rejects, obs, refused>> /\ ("shared" \in odd => "shared" \in odd')
    BY <1>4 DEF Beat, database
  <2>2. QED
    BY <1>1, <1>4, <2>1, BeatKeeps, QuietRows
<1>5. ASSUME NEW do \in OperatorTasks, Manual(do)
      PROVE  queue' \in Seq(Messages) /\ TurnInv' /\ RowsInv' /\ day' \in Nat
             /\ beat' \in DOMAIN BeatPlan
  <2>1. /\ UNCHANGED <<staged, rejects, obs, refused, day, beat>>
        /\ "shared" \in odd => "shared" \in odd'
    BY <1>5 DEF Manual, database
  <2>2. QED
    BY <1>1, <1>5, <2>1, ManualKeeps, QuietRows DEF QueueTypes
<1>6. CASE Move
  <2>1. /\ UNCHANGED <<queue, raw, staged, rejects, obs, refused, day, beat>>
        /\ "shared" \in odd => "shared" \in odd'
    BY <1>6 DEF Move
  <2>2. QED
    BY <1>1, <2>1, QuietRows DEF QueueTypes, TurnInv, InTurn
<1>7. CASE Work
  <2>1. day' = day /\ beat' = beat
    BY <1>7 DEF Work, RunRefresh, RunLoad, RunTask, Start, Finish, StepFails, Fetch, FetchRaises,
      Probe, Download, BuildMapping, BulkLoad, Stage, StageSkips, Retry, Promote
  <2>2. CASE RunRefresh \/ RunLoad \/ RunTask
    <3>1. UNCHANGED <<staged, rejects, obs, refused, odd>>
      BY <2>2 DEF RunRefresh, RunLoad, RunTask, database, Calm
    <3>2. QED
      BY <1>1, <2>1, <2>2, <3>1, RunKeeps, QuietRows DEF QueueTypes
  <2>3. CASE Start \/ Fetch \/ (Probe /\ Continue) \/ BuildMapping \/ StageSkips
    <3>1. /\ UNCHANGED <<raw, staged, rejects, obs, refused>> /\ queue # <<>> /\ Continue
          /\ This.do # "bulk" /\ ("shared" \in odd => "shared" \in odd')
      BY <2>3 DEF Start, Fetch, Probe, BuildMapping, StageSkips, At, database, Calm, Fails
    <3>2. QED
      BY <1>1, <2>1, <3>1, ContinueKeeps, QuietRows DEF QueueTypes
  <2>4. CASE Finish \/ FetchRaises \/ (Probe /\ Ends) \/ Download
    <3>1. /\ UNCHANGED <<raw, staged, rejects, obs, refused>> /\ queue # <<>> /\ Ends
          /\ ("shared" \in odd => "shared" \in odd')
      BY <2>4 DEF Finish, FetchRaises, Probe, Download, At, database, Calm, Fails
    <3>2. QED
      BY <1>1, <2>1, <3>1, EndsKeeps, QuietRows DEF QueueTypes
  <2>5. CASE StepFails
    <3>1. UNCHANGED <<staged, rejects, obs, refused>> /\ ("shared" \in odd => "shared" \in odd')
      BY <2>5 DEF StepFails, Fails
    <3>2. QED
      BY <1>1, <2>1, <2>5, <3>1, StepFailsKeeps, QuietRows DEF QueueTypes
  <2>6. CASE BulkLoad
    <3>1. UNCHANGED <<staged, rejects, obs, refused>> /\ ("shared" \in odd => "shared" \in odd')
      BY <2>6 DEF BulkLoad
    <3>2. QED
      BY <1>1, <2>1, <2>6, <3>1, BulkLoadKeeps, QuietRows DEF QueueTypes
  <2>7. CASE Stage \/ Retry \/ Promote
    <3>1. /\ raw' = raw /\ queue # <<>> /\ Continue /\ This.do # "bulk"
          /\ "shared" \in odd => "shared" \in odd'
      BY <2>7 DEF Stage, Retry, Promote, At, Calm
    <3>2. RowsInv'
      BY <1>1, <2>7, StageRows, RetryRows, PromoteRows
    <3>3. QED
      BY <1>1, <2>1, <3>1, <3>2, ContinueKeeps DEF QueueTypes
  <2>8. Probe => (Probe /\ Continue) \/ (Probe /\ Ends)
    BY DEF Probe
  <2>9. QED
    BY <1>7, <2>2, <2>3, <2>4, <2>5, <2>6, <2>7, <2>8 DEF Work
<1>8. QED
  BY <1>3, <1>4, <1>5, <1>6, <1>7 DEF Next

(* A row that the staging rejected is in the reject table, staged again or    *)
(* observed, and a price is filed under its market or under mtgstocks unless  *)
(* two chains used the raw table in turns: for any interleaving of chains,    *)
(* whatever fails in the load.                                                *)
THEOREM RowsAreAlwaysKept == Spec => []RowsAreKept
<1>1. KeptInv => RowsAreKept
  BY DEF KeptInv, RowsAreKept
<1>2. QED
  BY <1>1, InitKeeps, NextKeeps, PTL DEF Spec

-----------------------------------------------------------------------------
(* Types.  Two prints that are mapped are of different cards.                 *)
OnePrintPerCard == \A i, j \in Ids : tier[i] # 0 /\ tier[j] # 0 /\ Card[i] = Card[j] => i = j

StoreTypes ==
  /\ day \in 0 .. MaxDay /\ known \subseteq Ids /\ info \subseteq known
  /\ file \in [Pairs -> NoFile .. MaxDay + 1]
  /\ tier \in [Ids -> Tiers \cup {0}] /\ OnePrintPerCard
  /\ raw \subseteq Rows /\ rejects \subseteq Rows /\ refused \subseteq Rows
  /\ staged \subseteq Rows \X (Markets \cup {OwnSource})
  /\ obs \subseteq Rows \X (Markets \cup {OwnSource})

LEMMA TypesAre == QueueTypes /\ StoreTypes => TypeOK
<1> SUFFICES ASSUME QueueTypes, StoreTypes PROVE TypeOK
  OBVIOUS
<1>1. ASSUME NEW k \in DOMAIN queue PROVE queue[k].todo # <<>>
  <2>1. queue[k] \in Messages
    BY DEF QueueTypes
  <2>2. QED
    BY <2>1 DEF Messages, Chains
<1>2. QED
  BY <1>1 DEF QueueTypes, StoreTypes, OnePrintPerCard, TypeOK

LEMMA InitTypes == Init => StoreTypes
<1> SUFFICES ASSUME Init PROVE StoreTypes
  OBVIOUS
<1>1. 0 \in 0 .. MaxDay /\ 0 \in NoFile .. MaxDay + 1 /\ NoFile \in NoFile .. MaxDay + 1
  BY MtgStockAssumption DEF NoFile
<1>2. file \in [Pairs -> NoFile .. MaxDay + 1]
  BY <1>1 DEF Init
<1>3. tier \in [Ids -> Tiers \cup {0}] /\ OnePrintPerCard
  BY DEF Init, OnePrintPerCard
<1>4. QED
  BY <1>1, <1>2, <1>3, MtgStockAssumption DEF Init, StoreTypes

(* A mapping takes prints of cards that have none, and one print of each.     *)
LEMMA MapKeeps ==
  ASSUME tier \in [Ids -> Tiers \cup {0}], OnePrintPerCard, NEW S \in SUBSET Ids, MapPrints(S)
  PROVE  tier' \in [Ids -> Tiers \cup {0}] /\ OnePrintPerCard'
<1> DEFINE free == {i \in S : tier[i] = 0 /\ Card[i] \in cards
                              /\ \A j \in Ids : tier[j] # 0 => Card[j] # Card[i]}
<1>1. PICK new \in SUBSET free, t \in Tiers :
        /\ \A c \in {Card[i] : i \in free} : Cardinality({i \in new : Card[i] = c}) = 1
        /\ tier' = [i \in Ids |-> IF i \in new THEN t ELSE tier[i]]
  BY DEF MapPrints
<1>2. new \in SUBSET Ids /\ IsFiniteSet(new)
  BY MtgStockAssumption, FS_Subset
<1>3. ASSUME NEW i \in new, NEW j \in new, Card[i] = Card[j] PROVE i = j
  <2> DEFINE T == {k \in new : Card[k] = Card[i]}
  <2>1. i \in free /\ Cardinality(T) = 1
    BY <1>1
  <2>2. IsFiniteSet(T) /\ i \in T /\ j \in T
    BY <1>2, <1>3, FS_Subset
  <2> HIDE DEF T
  <2>3. \E x : T = {x}
    BY <2>1, <2>2, FS_Singleton
  <2>4. QED
    BY <2>2, <2>3
<1>4. \A i \in new, j \in Ids : tier[j] # 0 => Card[j] # Card[i]
  OBVIOUS
<1>5. ASSUME NEW i \in Ids, tier'[i] # 0 PROVE i \in new \/ tier[i] # 0
  BY <1>1, <1>5
<1>6. OnePrintPerCard'
  <2> SUFFICES ASSUME NEW i \in Ids, NEW j \in Ids, tier'[i] # 0, tier'[j] # 0, Card[i] = Card[j]
               PROVE  i = j
    BY DEF OnePrintPerCard
  <2>1. (i \in new \/ tier[i] # 0) /\ (j \in new \/ tier[j] # 0)
    BY <1>5
  <2>2. QED
    BY <1>3, <1>4, <2>1 DEF OnePrintPerCard
<1>7. QED
  BY <1>1, <1>6

(* What is loaded are rows of the market, of the files there are.             *)
LEMMA LoadableRows ==
  ASSUME StoreTypes, NEW S, NEW m \in Markets
  PROVE  Loadable(S, m) \subseteq Rows
<1> SUFFICES ASSUME NEW r \in Loadable(S, m) PROVE r \in Rows
  OBVIOUS
<1>1. PICK i \in S \cap info :
        file[<<i, m>>] # NoFile /\ r = [id |-> i, market |-> m, ver |-> file[<<i, m>>]]
  BY DEF Loadable
<1>2. i \in Ids /\ <<i, m>> \in Pairs
  BY <1>1 DEF StoreTypes, Pairs
<1>3. file[<<i, m>>] \in NoFile .. MaxDay + 1
  BY <1>2 DEF StoreTypes
<1>4. PICK v \in NoFile .. MaxDay + 1 : v = file[<<i, m>>]
  BY <1>3
<1>5. v \in 0 .. MaxDay + 1
  BY <1>1, <1>4, MtgStockAssumption DEF NoFile
<1>6. QED
  BY <1>1, <1>2, <1>4, <1>5 DEF Rows

LEMMA WriteTypes ==
  ASSUME StoreTypes, NEW S, NEW m, Write(S, m)
  PROVE  file' \in [Pairs -> NoFile .. MaxDay + 1]
<1>1. day + 1 \in NoFile .. MaxDay + 1
  BY MtgStockAssumption DEF StoreTypes, NoFile
<1>2. QED
  BY <1>1 DEF Write, StoreTypes

(* The rows that a staging files, and those that come from the reject table.  *)
LEMMA StageTypes ==
  ASSUME QueueTypes, StoreTypes, Stage
  PROVE  StoreTypes'
<1> DEFINE source == CHOOSE s \in This.ids : TRUE
           resolved == {r \in raw : Resolvable(r.id)}
           Filed == Rows \X (Markets \cup {OwnSource})
<1>1. /\ obs' = IF raw = {} THEN obs ELSE obs \cup (resolved \X {source}) \cup staged
      /\ staged' = IF raw = {} THEN staged ELSE {}
      /\ rejects' = rejects \cup (raw \ resolved)
      /\ refused' = refused \cup (raw \ resolved)
      /\ UNCHANGED <<day, known, info, file, raw>>
  BY DEF Stage, disk
<1>2. This \in Steps /\ This.do = "stage"
  BY HeadFacts DEF Stage, At
<1>3. source \in Markets \cup {OwnSource}
  BY <1>2 DEF Steps
<1>4. resolved \subseteq raw /\ raw \subseteq Rows
  BY DEF StoreTypes
<1>5. tier' \in [Ids -> Tiers \cup {0}] /\ OnePrintPerCard'
  <2>1. PICK S : S = {r.id : r \in raw}
    OBVIOUS
  <2>2. \A r \in raw : r.id \in Ids
    BY <1>4 DEF Rows
  <2>3. S \in SUBSET Ids /\ MapPrints(S)
    BY <2>1, <2>2 DEF Stage
  <2>4. QED
    BY <2>3, MapKeeps DEF StoreTypes
<1> HIDE DEF source, resolved
<1>6. (resolved \X {source}) \subseteq Rows \X (Markets \cup {OwnSource})
  BY <1>3, <1>4
<1>7. QED
  BY <1>1, <1>4, <1>5, <1>6 DEF StoreTypes

LEMMA RetryTypes ==
  ASSUME StoreTypes, Retry
  PROVE  StoreTypes'
<1> DEFINE ready == {r \in rejects : Resolvable(r.id)}
<1>1. /\ staged' = staged \cup (ready \X {OwnSource}) /\ rejects' = rejects \ ready
      /\ UNCHANGED <<day, known, info, file, raw, obs, refused>>
  BY DEF Retry, disk
<1>2. ready \subseteq Rows
  BY DEF StoreTypes
<1>3. tier' \in [Ids -> Tiers \cup {0}] /\ OnePrintPerCard'
  <2>1. PICK S : S = {r.id : r \in ready}
    OBVIOUS
  <2>2. \A r \in ready : r.id \in Ids
    BY <1>2 DEF Rows
  <2>3. S \in SUBSET Ids /\ MapPrints(S)
    BY <2>1, <2>2 DEF Retry
  <2>4. QED
    BY <2>3, MapKeeps DEF StoreTypes
<1> HIDE DEF ready
<1>4. QED
  BY <1>1, <1>2, <1>3 DEF StoreTypes

(* An action that touches neither the disk nor the database.                  *)
LEMMA StoreRests ==
  ASSUME StoreTypes, UNCHANGED <<day, disk, tier, raw, staged, rejects, obs, refused>>
  PROVE  StoreTypes'
BY DEF StoreTypes, OnePrintPerCard, disk

LEMMA NextTypes ==
  ASSUME QueueTypes, StoreTypes, [Next]_vars
  PROVE  StoreTypes'
<1>1. CASE UNCHANGED vars
  BY <1>1, StoreRests DEF vars, database
<1>2. CASE Beat
  <2>1. day' \in 0 .. MaxDay
    BY <1>2, MtgStockAssumption DEF Beat, StoreTypes
  <2>2. UNCHANGED <<disk, tier, raw, staged, rejects, obs, refused>>
    BY <1>2 DEF Beat, database
  <2>3. QED
    BY <2>1, <2>2 DEF StoreTypes, OnePrintPerCard, disk
<1>3. ASSUME NEW do \in OperatorTasks, Manual(do) PROVE StoreTypes'
  BY <1>3, StoreRests DEF Manual, database
<1>4. CASE Move
  <2>1. UNCHANGED <<day, disk, raw, staged, rejects, obs, refused>>
    BY <1>4 DEF Move
  <2>2. CASE UNCHANGED tier
    BY <2>1, <2>2, StoreRests
  <2>3. ASSUME NEW i \in Ids, NEW t \in Tiers, tier[i] \notin {0, t}, tier' = [tier EXCEPT ![i] = t]
        PROVE  StoreTypes'
    <3>1. tier \in [Ids -> Tiers \cup {0}]
      BY DEF StoreTypes
    <3>2. tier' \in [Ids -> Tiers \cup {0}] /\ \A j \in Ids : tier'[j] # 0 => tier[j] # 0
      BY <2>3, <3>1
    <3>3. OnePrintPerCard'
      BY <3>2 DEF StoreTypes, OnePrintPerCard
    <3>4. QED
      BY <2>1, <3>2, <3>3 DEF StoreTypes, disk
  <2>4. QED
    BY <1>4, <2>2, <2>3 DEF Move
<1>5. CASE RunRefresh \/ RunLoad \/ RunTask \/ Start \/ Finish \/ StageSkips
  BY <1>5, StoreRests DEF RunRefresh, RunLoad, RunTask, Start, Finish, StageSkips, database
<1>6. CASE Fetch \/ FetchRaises \/ Download
  <2>1. UNCHANGED <<day, known, info, tier, raw, staged, rejects, obs, refused>>
    BY <1>6 DEF Fetch, FetchRaises, Download, database
  <2>2. \E S : Write(S, This.n)
    BY <1>6 DEF Fetch, FetchRaises, Download
  <2>3. PICK S, m : Write(S, m)
    BY <2>2
  <2>4. file' \in [Pairs -> NoFile .. MaxDay + 1]
    BY <2>3, WriteTypes
  <2>5. QED
    BY <2>1, <2>4 DEF StoreTypes, OnePrintPerCard
<1>7. CASE Probe
  <2>1. UNCHANGED <<day, file, tier, raw, staged, rejects, obs, refused>>
    BY <1>7 DEF Probe, database
  <2>2. known' \subseteq Ids /\ info' \subseteq known'
    BY <1>7 DEF Probe, Fetched, StoreTypes
  <2>3. QED
    BY <2>1, <2>2 DEF StoreTypes, OnePrintPerCard
<1>8. CASE BuildMapping
  <2>1. UNCHANGED <<day, disk, raw, staged, rejects, obs, refused>>
    BY <1>8 DEF BuildMapping
  <2>2. PICK S : S = known \cap info
    OBVIOUS
  <2>3. S \in SUBSET Ids /\ MapPrints(S)
    BY <1>8, <2>2 DEF BuildMapping, StoreTypes
  <2>4. tier' \in [Ids -> Tiers \cup {0}] /\ OnePrintPerCard'
    BY <2>3, MapKeeps DEF StoreTypes
  <2>5. QED
    BY <2>1, <2>4 DEF StoreTypes, disk
<1>9. CASE BulkLoad \/ StepFails
  <2>1. UNCHANGED <<day, disk, tier, staged, rejects, obs, refused>>
    BY <1>9 DEF BulkLoad, StepFails
  <2>2. raw' \subseteq Rows
    <3>1. CASE At("bulk")
      <4>1. This \in Steps /\ This.do = "bulk"
        BY <3>1, HeadFacts DEF At
      <4>2. PICK S, m : S = This.ids /\ m = This.n
        OBVIOUS
      <4>3. m \in Markets
        BY <4>1, <4>2 DEF Steps
      <4>4. Loadable(S, m) \subseteq Rows
        BY <4>3, LoadableRows
      <4>5. raw' \in {{}, Loadable(S, m)}
        BY <1>9, <3>1, <4>2 DEF BulkLoad, ReplaceRaw, StepFails
      <4>6. QED
        BY <4>4, <4>5
    <3>2. CASE ~At("bulk")
      BY <1>9, <3>2 DEF BulkLoad, StepFails, StoreTypes
    <3>3. QED
      BY <3>1, <3>2
  <2>3. QED
    BY <2>1, <2>2 DEF StoreTypes, OnePrintPerCard, disk
<1>10. CASE Promote
  BY <1>10 DEF Promote, StoreTypes, OnePrintPerCard, disk
<1>11. QED
  BY <1>1, <1>2, <1>3, <1>4, <1>5, <1>6, <1>7, <1>8, <1>9, <1>10, StageTypes, RetryTypes
    DEF Next, Work

-----------------------------------------------------------------------------
(* The window.  What the queue has to do, the runs it belongs to, and the     *)
(* steps that ask for downloads: each is done by itself only.                 *)
StepsOf(q) == UNION {{q[k].todo[j] : j \in DOMAIN q[k].todo} : k \in DOMAIN q}
KeysOf(q) == {q[k].key : k \in DOMAIN q}
Asks(s) == s.do \in {"refresh", "fetch"}

FetchesFirst(todo) ==
  \A j \in DOMAIN todo :
    /\ todo[j].do = "refresh" => j = 1
    /\ todo[j].do = "fetch" => \A i \in DOMAIN todo : i < j => todo[i].do \in {"start", "fetch"}
InShape(q) == \A k \in DOMAIN q : FetchesFirst(q[k].todo)

LEMMA SentSteps ==
  ASSUME NEW q \in Seq(Messages), NEW m \in Messages
  PROVE  /\ StepsOf(q) \subseteq StepsOf(Append(q, m))
         /\ \A j \in DOMAIN m.todo : m.todo[j] \in StepsOf(Append(q, m))
         /\ KeysOf(Append(q, m)) \subseteq KeysOf(q) \cup {m.key}
         /\ InShape(q) /\ FetchesFirst(m.todo) => InShape(Append(q, m))
<1> DEFINE a == Append(q, m)
<1>1. /\ DOMAIN a = 1 .. Len(q) + 1 /\ Len(q) \in Nat /\ DOMAIN q = 1 .. Len(q)
      /\ \A k \in 1 .. Len(q) : a[k] = q[k]
      /\ a[Len(q) + 1] = m
  BY Sent
<1> HIDE DEF a
<1>2. /\ \A k \in DOMAIN q : k \in DOMAIN a /\ a[k] = q[k]
      /\ Len(q) + 1 \in DOMAIN a
      /\ \A k \in DOMAIN a : k \in DOMAIN q \/ k = Len(q) + 1
  BY <1>1
<1>3. StepsOf(q) \subseteq StepsOf(a)
  BY <1>2 DEF StepsOf
<1>4. ASSUME NEW j \in DOMAIN m.todo PROVE m.todo[j] \in StepsOf(a)
  <2>1. a[Len(q) + 1].todo = m.todo
    BY <1>1
  <2>2. m.todo[j] \in {a[Len(q) + 1].todo[i] : i \in DOMAIN a[Len(q) + 1].todo}
    BY <2>1
  <2>3. QED
    BY <1>2, <2>2 DEF StepsOf
<1>5. KeysOf(a) \subseteq KeysOf(q) \cup {m.key}
  BY <1>1, <1>2 DEF KeysOf
<1>6. InShape(q) /\ FetchesFirst(m.todo) => InShape(a)
  BY <1>1, <1>2 DEF InShape
<1>7. QED
  BY <1>3, <1>4, <1>5, <1>6 DEF a

(* What is lost with the head of the queue is a step of its message.          *)
LEMMA PoppedSteps ==
  ASSUME NEW q \in Seq(Messages), q # <<>>
  PROVE  /\ \A s \in StepsOf(q) : s \in StepsOf(Tail(q)) \/ \E j \in DOMAIN q[1].todo : q[1].todo[j] = s
         /\ KeysOf(Tail(q)) \subseteq KeysOf(q)
         /\ InShape(q) => InShape(Tail(q))
<1> DEFINE t == Tail(q)
<1>1. /\ Len(q) \in Nat \ {0} /\ DOMAIN t = 1 .. Len(q) - 1 /\ DOMAIN q = 1 .. Len(q)
      /\ \A k \in DOMAIN t : k + 1 \in DOMAIN q /\ t[k] = q[k + 1]
  BY Popped
<1> HIDE DEF t
<1>2. ASSUME NEW k \in DOMAIN q, k # 1 PROVE \E i \in DOMAIN t : t[i] = q[k]
  <2>1. PICK i \in DOMAIN t : i + 1 = k
    <3>1. k - 1 \in DOMAIN t /\ (k - 1) + 1 = k
      BY <1>1, <1>2
    <3>2. QED
      BY <3>1
  <2>2. QED
    BY <1>1, <2>1
<1>3. ASSUME NEW s \in StepsOf(q)
      PROVE  s \in StepsOf(t) \/ \E j \in DOMAIN q[1].todo : q[1].todo[j] = s
  <2>1. PICK k \in DOMAIN q : \E j \in DOMAIN q[k].todo : q[k].todo[j] = s
    BY DEF StepsOf
  <2>2. CASE k = 1
    BY <2>1, <2>2
  <2>3. CASE k # 1
    <3>1. PICK i \in DOMAIN t : t[i] = q[k]
      BY <1>2, <2>3
    <3>2. s \in {t[i].todo[j] : j \in DOMAIN t[i].todo}
      BY <2>1, <3>1
    <3>3. QED
      BY <3>2 DEF StepsOf
  <2>4. QED
    BY <2>2, <2>3
<1>4. KeysOf(t) \subseteq KeysOf(q)
  BY <1>1 DEF KeysOf
<1>5. InShape(q) => InShape(t)
  BY <1>1 DEF InShape
<1>6. QED
  BY <1>3, <1>4, <1>5 DEF t

(* The rest of a chain that has its downloads first.                          *)
LEMMA TailFetches ==
  ASSUME NEW todo \in Chains, FetchesFirst(todo), Len(todo) # 1
  PROVE  FetchesFirst(Tail(todo))
<1> DEFINE t == Tail(todo)
<1>1. /\ todo \in Seq(Steps) /\ Len(todo) \in Nat \ {0, 1} /\ DOMAIN todo = 1 .. Len(todo)
  BY ChainFacts
<1>2. /\ DOMAIN t = 1 .. Len(todo) - 1
      /\ \A j \in DOMAIN t : t[j] = todo[j + 1]
  <2>1. todo # <<>>
    BY DEF Chains
  <2>2. /\ t \in Seq(Steps) /\ Len(t) = Len(todo) - 1
        /\ \A i \in 1 .. Len(t) : t[i] = todo[i + 1]
    BY <1>1, <2>1, HeadTailProperties
  <2>3. DOMAIN t = 1 .. Len(t)
    BY <2>2
  <2> HIDE DEF t
  <2>4. QED
    BY <2>2, <2>3
<1> HIDE DEF t
<1>3. \A j \in DOMAIN t : j + 1 \in DOMAIN todo /\ j + 1 # 1 /\ j \in Nat
  BY <1>1, <1>2
<1>4. ASSUME NEW j \in DOMAIN t
      PROVE  /\ t[j].do = "refresh" => j = 1
             /\ t[j].do = "fetch" => \A i \in DOMAIN t : i < j => t[i].do \in {"start", "fetch"}
  <2>1. t[j] = todo[j + 1] /\ j + 1 \in DOMAIN todo /\ j + 1 # 1
    BY <1>2, <1>3
  <2>2. t[j].do # "refresh"
    BY <2>1 DEF FetchesFirst
  <2>3. ASSUME t[j].do = "fetch", NEW i \in DOMAIN t, i < j PROVE t[i].do \in {"start", "fetch"}
    <3>1. t[i] = todo[i + 1] /\ i + 1 \in DOMAIN todo
      BY <1>2, <1>3
    <3>2. i + 1 < j + 1
      BY <1>3, <2>3
    <3>3. todo[j + 1].do = "fetch"
      BY <2>1, <2>3
    <3>4. todo[i + 1].do \in {"start", "fetch"}
      BY <2>1, <3>1, <3>2, <3>3 DEF FetchesFirst
    <3>5. QED
      BY <3>1, <3>4
  <2>4. QED
    BY <2>2, <2>3
<1>5. QED
  BY <1>4 DEF FetchesFirst, t

(* A message whose head is neither a start nor a download asks for nothing    *)
(* more than its head does.                                                   *)
LEMMA HeadAsksLast ==
  ASSUME NEW todo \in Chains, FetchesFirst(todo), todo[1].do \notin {"start", "fetch"},
         NEW j \in DOMAIN todo, Asks(todo[j])
  PROVE  j = 1
<1>1. 1 \in DOMAIN todo /\ DOMAIN todo = 1 .. Len(todo) /\ Len(todo) \in Nat
  BY ChainFacts
<1>2. CASE todo[j].do = "refresh"
  BY <1>2 DEF FetchesFirst
<1>3. CASE todo[j].do = "fetch"
  <2>1. ~ (1 < j)
    BY <1>1, <1>3 DEF FetchesFirst
  <2>2. QED
    BY <1>1, <2>1
<1>4. QED
  BY <1>2, <1>3 DEF Asks

(* What the queue has to do stays when its head goes on, ends, or is replaced *)
(* by the chain it sends; but for the step that is done.                      *)
LEMMA ContinueSteps ==
  ASSUME QueueTypes, InShape(queue), queue # <<>>, Continue
  PROVE  /\ InShape(queue') /\ KeysOf(queue') \subseteq KeysOf(queue)
         /\ \A s \in StepsOf(queue) : s = This \/ s \in StepsOf(queue')
<1>1. /\ queue \in Seq(Messages) /\ Msg = queue[1] /\ Msg.todo \in Chains /\ Msg.key \in Keys
      /\ This = Msg.todo[1] /\ 1 \in DOMAIN queue
  BY HeadFacts DEF QueueTypes
<1>2. FetchesFirst(Msg.todo)
  BY <1>1 DEF InShape
<1>3. /\ \A s \in StepsOf(queue) : s \in StepsOf(Tail(queue)) \/ \E j \in DOMAIN Msg.todo : Msg.todo[j] = s
      /\ KeysOf(Tail(queue)) \subseteq KeysOf(queue)
      /\ InShape(Tail(queue)) /\ Tail(queue) \in Seq(Messages)
  BY <1>1, PoppedSteps, Popped
<1>4. /\ Msg.todo \in Seq(Steps) /\ Len(Msg.todo) \in Nat \ {0} /\ DOMAIN Msg.todo = 1 .. Len(Msg.todo)
      /\ Msg.todo # <<>>
  BY <1>1, ChainFacts DEF Chains
<1>5. CASE Len(Msg.todo) = 1
  <2>1. queue' = Tail(queue)
    BY <1>5 DEF Continue
  <2>2. \A j \in DOMAIN Msg.todo : j = 1
    BY <1>4, <1>5
  <2>3. QED
    BY <1>1, <1>3, <2>1, <2>2
<1>6. CASE Len(Msg.todo) # 1
  <2> DEFINE m == Message(Msg.key, Tail(Msg.todo))
  <2>1. queue' = Append(Tail(queue), m)
    BY <1>6 DEF Continue
  <2>2. Tail(Msg.todo) \in Chains /\ FetchesFirst(Tail(Msg.todo))
    BY <1>1, <1>2, <1>6, TailIsChain, TailFetches
  <2>3. m \in Messages /\ m.todo = Tail(Msg.todo) /\ m.key = Msg.key
    BY <1>1, <2>2 DEF Messages, Message
  <2> HIDE DEF m
  <2>4. /\ StepsOf(Tail(queue)) \subseteq StepsOf(queue')
        /\ \A j \in DOMAIN m.todo : m.todo[j] \in StepsOf(queue')
        /\ KeysOf(queue') \subseteq KeysOf(Tail(queue)) \cup {m.key}
        /\ InShape(queue')
    BY <1>3, <2>1, <2>2, <2>3, SentSteps
  <2>5. Msg.key \in KeysOf(queue)
    BY <1>1 DEF KeysOf
  <2>6. ASSUME NEW j \in DOMAIN Msg.todo, j # 1 PROVE Msg.todo[j] \in StepsOf(queue')
    <3>1. /\ Len(Tail(Msg.todo)) = Len(Msg.todo) - 1 /\ Tail(Msg.todo) \in Seq(Steps)
          /\ \A i \in 1 .. Len(Tail(Msg.todo)) : Tail(Msg.todo)[i] = Msg.todo[i + 1]
      BY <1>4, HeadTailProperties
    <3>2. PICK i \in 1 .. Len(Tail(Msg.todo)) : i + 1 = j
      <4>1. j - 1 \in 1 .. Len(Tail(Msg.todo)) /\ (j - 1) + 1 = j
        BY <1>4, <2>6, <3>1
      <4>2. QED
        BY <4>1
    <3>3. i \in DOMAIN m.todo /\ m.todo[i] = Msg.todo[j]
      BY <2>3, <3>1, <3>2
    <3>4. QED
      BY <2>4, <3>3
  <2>7. ASSUME NEW s \in StepsOf(queue) PROVE s = This \/ s \in StepsOf(queue')
    <3>1. CASE s \in StepsOf(Tail(queue))
      BY <2>4, <3>1
    <3>2. ASSUME NEW j \in DOMAIN Msg.todo, Msg.todo[j] = s PROVE s = This \/ s \in StepsOf(queue')
      BY <1>1, <2>6, <3>2
    <3>3. QED
      BY <1>3, <3>1, <3>2
  <2>8. QED
    BY <1>3, <2>3, <2>4, <2>5, <2>7
<1>7. QED
  BY <1>5, <1>6

LEMMA EndsSteps ==
  ASSUME QueueTypes, InShape(queue), queue # <<>>, queue' = Tail(queue),
         This.do \notin {"start", "fetch"}
  PROVE  /\ InShape(queue') /\ KeysOf(queue') \subseteq KeysOf(queue)
         /\ \A s \in StepsOf(queue) : Asks(s) => s = This \/ s \in StepsOf(queue')
<1>1. /\ queue \in Seq(Messages) /\ Msg = queue[1] /\ Msg.todo \in Chains
      /\ This = Msg.todo[1] /\ 1 \in DOMAIN queue
  BY HeadFacts DEF QueueTypes
<1>2. FetchesFirst(Msg.todo)
  BY <1>1 DEF InShape
<1>3. /\ \A s \in StepsOf(queue) : s \in StepsOf(queue') \/ \E j \in DOMAIN Msg.todo : Msg.todo[j] = s
      /\ KeysOf(queue') \subseteq KeysOf(queue) /\ InShape(queue')
  BY <1>1, PoppedSteps
<1>4. \A j \in DOMAIN Msg.todo : Asks(Msg.todo[j]) => j = 1
  BY <1>1, <1>2, HeadAsksLast
<1>5. QED
  BY <1>1, <1>3, <1>4

LEMMA DispatchSteps ==
  ASSUME QueueTypes, InShape(queue), queue # <<>>, This.do \notin {"start", "fetch"},
         NEW key \in Keys, NEW todo \in Chains, FetchesFirst(todo), Dispatch(key, todo)
  PROVE  /\ InShape(queue') /\ KeysOf(queue') \subseteq KeysOf(queue) \cup {key}
         /\ \A s \in StepsOf(queue) : Asks(s) => s = This \/ s \in StepsOf(queue')
         /\ key \notin active => \A j \in DOMAIN todo : todo[j] \in StepsOf(queue')
<1>1. CASE key \in active
  <2>1. queue' = Tail(queue)
    BY <1>1 DEF Dispatch
  <2>2. QED
    BY <1>1, <2>1, EndsSteps
<1>2. CASE key \notin active
  <2> DEFINE m == Message(key, todo)
  <2>1. queue' = Append(Tail(queue), m)
    BY <1>2 DEF Dispatch
  <2>2. m \in Messages /\ m.todo = todo /\ m.key = key
    BY DEF Messages, Message
  <2> HIDE DEF m
  <2>3. /\ queue \in Seq(Messages) /\ Msg = queue[1] /\ Msg.todo \in Chains
        /\ This = Msg.todo[1] /\ 1 \in DOMAIN queue
    BY HeadFacts DEF QueueTypes
  <2>4. /\ \A s \in StepsOf(queue) : s \in StepsOf(Tail(queue)) \/ \E j \in DOMAIN Msg.todo : Msg.todo[j] = s
        /\ KeysOf(Tail(queue)) \subseteq KeysOf(queue) /\ InShape(Tail(queue))
        /\ Tail(queue) \in Seq(Messages)
    BY <2>3, PoppedSteps, Popped
  <2>5. /\ StepsOf(Tail(queue)) \subseteq StepsOf(queue')
        /\ \A j \in DOMAIN m.todo : m.todo[j] \in StepsOf(queue')
        /\ KeysOf(queue') \subseteq KeysOf(Tail(queue)) \cup {m.key}
        /\ InShape(queue')
    BY <2>1, <2>2, <2>4, SentSteps
  <2>6. \A j \in DOMAIN Msg.todo : Asks(Msg.todo[j]) => j = 1
    BY <2>3, HeadAsksLast DEF InShape
  <2>7. QED
    BY <2>2, <2>3, <2>4, <2>5, <2>6
<1>3. QED
  BY <1>1, <1>2

(* Chains that ask for no downloads.                                          *)
Silent(todo) == \A j \in DOMAIN todo : ~Asks(todo[j])

LEMMA SilentIsInShape ==
  ASSUME NEW todo, Silent(todo)
  PROVE  FetchesFirst(todo)
BY DEF Silent, Asks, FetchesFirst

LEMMA Joined ==
  ASSUME NEW c \in Seq(Steps), NEW d \in Seq(Steps)
  PROVE  /\ c \o d \in Seq(Steps) /\ Len(c) \in Nat /\ Len(d) \in Nat
         /\ Len(c \o d) = Len(c) + Len(d)
         /\ DOMAIN c = 1 .. Len(c) /\ DOMAIN d = 1 .. Len(d)
         /\ DOMAIN (c \o d) = 1 .. Len(c) + Len(d)
         /\ \A i \in 1 .. Len(c) : (c \o d)[i] = c[i]
         /\ \A i \in 1 .. Len(d) : (c \o d)[i + Len(c)] = d[i]
<1> DEFINE e == c \o d
<1>1. /\ e \in Seq(Steps) /\ Len(e) = Len(c) + Len(d) /\ Len(c) \in Nat /\ Len(d) \in Nat
      /\ \A i \in 1 .. Len(c) + Len(d) : e[i] = IF i <= Len(c) THEN c[i] ELSE d[i - Len(c)]
  BY ConcatProperties
<1>2. DOMAIN e = 1 .. Len(c) + Len(d) /\ DOMAIN c = 1 .. Len(c) /\ DOMAIN d = 1 .. Len(d)
  BY <1>1
<1> HIDE DEF e
<1>3. \A i \in 1 .. Len(c) : e[i] = c[i]
  BY <1>1
<1>4. ASSUME NEW i \in 1 .. Len(d) PROVE e[i + Len(c)] = d[i]
  <2>1. /\ i + Len(c) \in 1 .. Len(c) + Len(d) /\ ~ (i + Len(c) <= Len(c))
        /\ (i + Len(c)) - Len(c) = i
    BY <1>1
  <2>2. QED
    BY <1>1, <2>1
<1>5. QED
  BY <1>1, <1>2, <1>3, <1>4 DEF e

LEMMA SilentConcat ==
  ASSUME NEW c \in Seq(Steps), NEW d \in Seq(Steps), Silent(c), Silent(d)
  PROVE  c \o d \in Seq(Steps) /\ Silent(c \o d)
<1> DEFINE e == c \o d
<1>1. /\ e \in Seq(Steps) /\ Len(c) \in Nat /\ Len(d) \in Nat
      /\ DOMAIN c = 1 .. Len(c) /\ DOMAIN d = 1 .. Len(d) /\ DOMAIN e = 1 .. Len(c) + Len(d)
      /\ \A i \in 1 .. Len(c) : e[i] = c[i]
      /\ \A i \in 1 .. Len(d) : e[i + Len(c)] = d[i]
  BY Joined
<1> HIDE DEF e
<1>2. ASSUME NEW j \in DOMAIN e PROVE ~Asks(e[j])
  <2>1. CASE j <= Len(c)
    <3>1. j \in DOMAIN c /\ e[j] = c[j]
      BY <1>1, <2>1
    <3>2. QED
      BY <3>1 DEF Silent
  <2>2. CASE ~ (j <= Len(c))
    <3>1. PICK i \in DOMAIN d : i + Len(c) = j
      <4>1. j - Len(c) \in DOMAIN d /\ (j - Len(c)) + Len(c) = j
        BY <1>1, <2>2
      <4>2. QED
        BY <4>1
    <3>2. e[j] = d[i]
      BY <1>1, <3>1
    <3>3. QED
      BY <3>2 DEF Silent
  <2>3. QED
    BY <2>1, <2>2
<1>3. QED
  BY <1>1, <1>2 DEF Silent, e

LEMMA PipelinesAreSilent ==
  /\ Silent(<<Do("start"), Do("probe"), Do("finish")>>)
  /\ Silent(<<Do("start"), Do("map"), Do("finish")>>)
  /\ <<Do("start")>> \in Seq(Steps) /\ Silent(<<Do("start")>>)
  /\ Ending \in Seq(Steps) /\ Silent(Ending)
BY DEF Silent, Asks, Do, Step, Steps, Names, Ending

LEMMA FullIsSilent == Silent(FullChain)
<1> DEFINE mid == <<Step("bulk", Tcg, Ids), Step("stage", Tcg, {OwnSource})>>
<1>1. Tcg \in Nat /\ Tcg \in Markets /\ Ids \subseteq Nat
  <2>1. LoadOrder \in Seq(Markets) /\ LoadOrder # <<>> /\ Markets \subseteq Nat
    BY MtgStockAssumption
  <2>2. LoadOrder[1] \in Markets
    BY <2>1
  <2>3. QED
    BY <2>1, <2>2, MtgStockAssumption DEF Tcg
<1>2. mid \in Seq(Steps)
  BY <1>1 DEF Step, Steps, Names, OwnSource
<1>3. Silent(mid)
  BY DEF Silent, Asks, Step
<1> HIDE DEF mid
<1>4. Silent(<<Do("start")>> \o mid \o Ending)
  <2>1. PICK a \in Seq(Steps) : a = <<Do("start")>> /\ Silent(a)
    BY PipelinesAreSilent
  <2>2. a \o mid \in Seq(Steps) /\ Silent(a \o mid)
    BY <1>2, <1>3, <2>1, SilentConcat
  <2>3. Silent((a \o mid) \o Ending)
    BY <2>2, PipelinesAreSilent, SilentConcat
  <2>4. QED
    BY <2>1, <2>3
<1>5. QED
  BY <1>4 DEF FullChain, mid

LEMMA LoadIsSilent ==
  ASSUME NEW S \in [Markets -> SUBSET Ids], NEW ms \in Seq(Markets)
  PROVE  Silent(LoadChain(S, ms))
<1> DEFINE at(k) == ms[(k + 1) \div 2]
           link(k) == IF k % 2 = 1 THEN Step("bulk", at(k), S[at(k)])
                                   ELSE Step("stage", at(k), {at(k)})
           mid == [k \in 1 .. 2 * Len(ms) |-> link(k)]
<1>1. Len(ms) \in Nat /\ \A k \in 1 .. Len(ms) : ms[k] \in Markets
  OBVIOUS
<1>2. ASSUME NEW k \in 1 .. 2 * Len(ms)
      PROVE  at(k) \in Nat /\ at(k) \in Markets /\ S[at(k)] \in SUBSET Nat
  <2>1. (k + 1) \div 2 \in 1 .. Len(ms)
    BY <1>1
  <2>2. at(k) \in Markets
    BY <1>1, <2>1
  <2> HIDE DEF at
  <2>3. QED
    BY <2>2, MtgStockAssumption
<1> HIDE DEF at
<1>3. ASSUME NEW k \in 1 .. 2 * Len(ms) PROVE link(k) \in Steps /\ ~Asks(link(k))
  <2>1. at(k) \in Nat /\ at(k) \in Markets /\ S[at(k)] \in SUBSET Nat
    BY <1>2
  <2>2. Step("bulk", at(k), S[at(k)]) \in Steps /\ ~Asks(Step("bulk", at(k), S[at(k)]))
    BY <2>1 DEF Step, Steps, Names, Asks
  <2>3. Step("stage", at(k), {at(k)}) \in Steps /\ ~Asks(Step("stage", at(k), {at(k)}))
    BY <2>1 DEF Step, Steps, Names, Asks
  <2>4. QED
    BY <2>2, <2>3
<1> HIDE DEF link
<1>4. mid \in [1 .. 2 * Len(ms) -> Steps] /\ \A k \in 1 .. 2 * Len(ms) : mid[k] = link(k)
  BY <1>3
<1> HIDE DEF mid
<1>5. mid \in Seq(Steps) /\ DOMAIN mid = 1 .. 2 * Len(ms)
  BY <1>1, <1>4, SeqDef
<1>6. Silent(mid)
  BY <1>3, <1>4, <1>5 DEF Silent
<1>7. Silent(<<Do("start")>> \o mid \o Ending)
  <2>1. PICK a \in Seq(Steps) : a = <<Do("start")>> /\ Silent(a)
    BY PipelinesAreSilent
  <2>2. a \o mid \in Seq(Steps) /\ Silent(a \o mid)
    BY <1>5, <1>6, <2>1, SilentConcat
  <2>3. Silent((a \o mid) \o Ending)
    BY <2>2, PipelinesAreSilent, SilentConcat
  <2>4. QED
    BY <2>1, <2>3
<1>8. QED
  BY <1>7 DEF LoadChain, mid, link, at

(* A refresh downloads first, and all it was asked for.                       *)
LEMMA RefreshFetches ==
  ASSUME NEW S \in [Markets -> SUBSET Ids], NEW ms \in Seq(Markets)
  PROVE  /\ FetchesFirst(RefreshChain(S, ms))
         /\ \A k \in DOMAIN ms : \E j \in DOMAIN RefreshChain(S, ms) :
              RefreshChain(S, ms)[j] = Step("fetch", ms[k], S[ms[k]])
<1> DEFINE one == <<Do("start")>>
           mid == [k \in DOMAIN ms |-> Step("fetch", ms[k], S[ms[k]])]
           end == <<Do("finish")>>
           two == one \o mid
           c == two \o end
<1>1. Len(ms) \in Nat /\ DOMAIN ms = 1 .. Len(ms) /\ \A k \in 1 .. Len(ms) : ms[k] \in Markets
  OBVIOUS
<1>2. ASSUME NEW k \in 1 .. Len(ms) PROVE Step("fetch", ms[k], S[ms[k]]) \in Steps
  <2>1. ms[k] \in Nat /\ S[ms[k]] \in SUBSET Nat
    BY <1>1, MtgStockAssumption
  <2>2. QED
    BY <2>1 DEF Step, Steps, Names
<1>3. /\ one \in Seq(Steps) /\ Len(one) = 1 /\ one[1].do = "start"
      /\ end \in Seq(Steps) /\ Len(end) = 1 /\ end[1].do = "finish"
  BY DEF Do, Step, Steps, Names
<1>4. /\ mid \in [1 .. Len(ms) -> Steps]
      /\ \A k \in 1 .. Len(ms) : mid[k] = Step("fetch", ms[k], S[ms[k]]) /\ mid[k].do = "fetch"
  BY <1>1, <1>2 DEF Step
<1> HIDE DEF one, end, mid
<1>5. mid \in Seq(Steps) /\ Len(mid) = Len(ms)
  BY <1>1, <1>4, SeqDef
<1>6. /\ two \in Seq(Steps) /\ Len(two) = 1 + Len(ms) /\ two[1] = one[1]
      /\ \A k \in 1 .. Len(ms) : two[k + 1] = mid[k]
  <2>1. /\ two \in Seq(Steps) /\ Len(two) = Len(one) + Len(mid)
        /\ \A i \in 1 .. Len(one) : two[i] = one[i]
        /\ \A i \in 1 .. Len(mid) : two[i + Len(one)] = mid[i]
    BY <1>3, <1>5, Joined
  <2> HIDE DEF two
  <2>2. QED
    BY <1>1, <1>3, <1>5, <2>1
<1> HIDE DEF two
<1>7. /\ c \in Seq(Steps) /\ Len(c) = 2 + Len(ms) /\ c[1] = two[1]
      /\ \A k \in 1 .. Len(ms) : c[k + 1] = two[k + 1]
      /\ c[Len(ms) + 2] = end[1]
  <2>1. /\ c \in Seq(Steps) /\ Len(c) = Len(two) + Len(end)
        /\ \A i \in 1 .. Len(two) : c[i] = two[i]
        /\ \A i \in 1 .. Len(end) : c[i + Len(two)] = end[i]
    BY <1>3, <1>6, Joined
  <2> HIDE DEF c
  <2>2. 1 + Len(two) = Len(ms) + 2 /\ 1 \in 1 .. Len(two) /\ 1 \in 1 .. Len(end)
    BY <1>1, <1>3, <1>6
  <2>3. \A k \in 1 .. Len(ms) : k + 1 \in 1 .. Len(two)
    BY <1>1, <1>6
  <2>4. c[1 + Len(two)] = end[1]
    BY <2>1, <2>2
  <2>5. QED
    BY <1>1, <1>3, <1>6, <2>1, <2>2, <2>3, <2>4
<1>8. DOMAIN c = 1 .. 2 + Len(ms)
  BY <1>1, <1>7
<1> HIDE DEF c
<1>9. /\ c[1].do = "start"
      /\ \A k \in 1 .. Len(ms) : c[k + 1] = Step("fetch", ms[k], S[ms[k]]) /\ c[k + 1].do = "fetch"
      /\ c[Len(ms) + 2].do = "finish"
  BY <1>3, <1>4, <1>6, <1>7
<1>10. ASSUME NEW j \in DOMAIN c
       PROVE  \/ j = 1 /\ c[j].do = "start"
              \/ j < Len(ms) + 2 /\ c[j].do = "fetch"
              \/ j = Len(ms) + 2 /\ c[j].do = "finish"
  <2>1. CASE j = 1 \/ j = Len(ms) + 2
    BY <1>9, <2>1
  <2>2. CASE j # 1 /\ j # Len(ms) + 2
    <3>1. PICK k \in 1 .. Len(ms) : k + 1 = j
      <4>1. j - 1 \in 1 .. Len(ms) /\ (j - 1) + 1 = j
        BY <1>1, <1>8, <2>2
      <4>2. QED
        BY <4>1
    <3>2. QED
      BY <1>1, <1>9, <3>1
  <2>3. QED
    BY <2>1, <2>2
<1>11. FetchesFirst(c)
  <2>1. ASSUME NEW j \in DOMAIN c, c[j].do = "fetch", NEW i \in DOMAIN c, i < j
        PROVE  c[i].do \in {"start", "fetch"}
    <3>1. j < Len(ms) + 2
      BY <1>10, <2>1
    <3>2. i # Len(ms) + 2
      BY <1>1, <1>8, <2>1, <3>1
    <3>3. QED
      BY <1>10, <3>2
  <2>2. \A j \in DOMAIN c : c[j].do # "refresh"
    BY <1>10
  <2>3. QED
    BY <2>1, <2>2 DEF FetchesFirst
<1>12. ASSUME NEW k \in DOMAIN ms
       PROVE  \E j \in DOMAIN c : c[j] = Step("fetch", ms[k], S[ms[k]])
  <2>1. k + 1 \in DOMAIN c
    BY <1>1, <1>8
  <2>2. QED
    BY <1>1, <1>9, <2>1
<1>13. QED
  BY <1>11, <1>12 DEF RefreshChain, c, two, one, mid, end

(* The chain has every market that is asked.                                  *)
LEMMA OrderIsAll ==
  ASSUME NEW P \in SUBSET Nat, IsFiniteSet(P), NEW ms \in InOrder(P), NEW m \in P
  PROVE  \E k \in DOMAIN ms : ms[k] = m
<1>1. IsFiniteSet(P) /\ P \subseteq Nat
  OBVIOUS
<1>2. Cardinality(P) \in Nat
  BY <1>1, FS_CardinalityType
<1>3. PICK n \in Nat : n = Cardinality(P)
  BY <1>2
<1>4. ms \in [1 .. n -> P] /\ \A i, j \in 1 .. n : i < j => ms[i] < ms[j]
  BY <1>3 DEF InOrder
<1>5. ASSUME NEW i \in 1 .. n, NEW j \in 1 .. n, ms[i] = ms[j] PROVE i = j
  <2>1. PICK a \in Nat : a = ms[i] /\ a = ms[j]
    BY <1>1, <1>4, <1>5
  <2>2. ~(i < j)
    <3> SUFFICES ASSUME i < j PROVE FALSE
      OBVIOUS
    <3>1. ms[i] < ms[j]
      BY <1>4
    <3>2. a < a
      BY <2>1, <3>1
    <3>3. QED
      BY <3>2
  <2>3. ~(j < i)
    <3> SUFFICES ASSUME j < i PROVE FALSE
      OBVIOUS
    <3>1. ms[j] < ms[i]
      BY <1>4
    <3>2. a < a
      BY <2>1, <3>1
    <3>3. QED
      BY <3>2
  <2>4. QED
    BY <2>2, <2>3
<1>6. ms \in Injection(1 .. n, P)
  BY <1>4, <1>5 DEF Injection, IsInjective
<1>7. IsFiniteSet(1 .. n) /\ Cardinality(1 .. n) = n
  BY FS_Interval
<1>8. ms \in Surjection(1 .. n, P)
  BY <1>1, <1>3, <1>6, <1>7, FS_Injection
<1>9. QED
  BY <1>4, <1>8 DEF Surjection

LEMMA OrderedIsAll ==
  ASSUME NEW P \in SUBSET Markets, NEW ms \in InOrder(P), NEW m \in P
  PROVE  \E k \in DOMAIN ms : ms[k] = m
<1>1. IsFiniteSet(P) /\ P \in SUBSET Nat
  BY MtgStockAssumption, FS_Subset
<1>2. QED
  BY <1>1, OrderIsAll

(* A load takes each of its markets that is in the order of the load.         *)
LEMMA LoadOrderIsAll ==
  ASSUME NEW P \in SUBSET Markets, NEW ms \in InLoadOrder(P), NEW m \in P,
         \E k \in DOMAIN LoadOrder : LoadOrder[k] = m
  PROVE  \E k \in DOMAIN ms : ms[k] = m
<1> DEFINE A == {k \in DOMAIN LoadOrder : LoadOrder[k] \in P}
<1>1. PICK s \in InOrder(A) : ms = [k \in DOMAIN s |-> LoadOrder[s[k]]]
  BY DEF InLoadOrder
<1>2. DOMAIN LoadOrder = 1 .. Len(LoadOrder) /\ Len(LoadOrder) \in Nat
  BY MtgStockAssumption
<1>3. A \in SUBSET Nat /\ IsFiniteSet(A)
  <2>1. PICK n \in Nat : DOMAIN LoadOrder = 1 .. n
    BY <1>2
  <2>2. A \subseteq 1 .. n /\ 1 .. n \subseteq Nat
    BY <2>1
  <2> HIDE DEF A
  <2>3. IsFiniteSet(1 .. n)
    BY FS_Interval
  <2>4. QED
    BY <2>2, <2>3, FS_Subset
<1>4. PICK k \in A : LoadOrder[k] = m
  OBVIOUS
<1> HIDE DEF A
<1>5. PICK j \in DOMAIN s : s[j] = k
  BY <1>1, <1>3, <1>4, OrderIsAll
<1>6. QED
  BY <1>1, <1>4, <1>5

-----------------------------------------------------------------------------
(* What beat has sent is downloaded, or still ahead today.                    *)
(* What a refresh of a slot downloads on a day, and a pair whose download is  *)
(* in the queue or done today.                                                *)
Share(t, slot, d) == Slice(TierIds(t), t, slot, d)
Pending(p) == \E s \in StepsOf(queue) : s.do = "fetch" /\ s.n = p[2] /\ p[1] \in s.ids
Due(p) == file[p] > day \/ Pending(p)

(* A run of today, dispatched or begun, has all its downloads done or ahead.  *)
TierKey(t, slot, d) == <<"tier", t, slot, d>>
DispatchedAreDue ==
  \A t \in Tiers, slot, d \in Nat :
    TierKey(t, slot, d) \in active \cup KeysOf(queue) =>
      d <= day /\ (d = day => \A p \in Share(t, slot, d) : Due(p))

(* An entry of the plan that beat has sent on day d: the entries before the   *)
(* worker's midnight are sent on the date of the local day, the others on the *)
(* next.  What it asks for is downloaded, or today and still to be done.      *)
Midnight == CHOOSE k \in DOMAIN BeatPlan : BeatPlan[k].do = "midnight"
Issued(k, d) ==
  IF k < Midnight THEN d < day \/ (d = day /\ k < beat /\ beat <= Midnight)
  ELSE d >= 1 /\ (d < day \/ (d = day /\ (k < beat \/ beat <= Midnight)))
IssuedAreDone ==
  \A k \in DOMAIN BeatPlan, t \in Tiers, slot, d \in Nat :
    BeatPlan[k] = Step("refresh", t, {slot}) /\ Issued(k, d) =>
      \A p \in Share(t, slot, d) :
        file[p] > d \/ (d = day /\ (BeatPlan[k] \in StepsOf(queue) \/ Due(p)))

OnTheWay == InShape(queue) /\ DispatchedAreDue /\ IssuedAreDone
WindowInv == Routine => OnTheWay

LEMMA ShareIsPairs ==
  ASSUME NEW t \in Tiers, NEW slot, NEW d
  PROVE  Share(t, slot, d) \subseteq Pairs
<1>1. TierMarkets[t] \subseteq Markets /\ TierIds(t) \subseteq Ids
  BY PlanAssumption DEF TierIds
<1>2. Slice(TierIds(t), t, slot, d) \subseteq TierIds(t) \X TierMarkets[t]
  BY DEF Slice, Worklist
<1>3. QED
  BY <1>1, <1>2 DEF Share, Pairs

LEMMA SharesStay ==
  ASSUME tier' = tier
  PROVE  \A t \in Tiers, slot, d \in Nat : Share(t, slot, d)' = Share(t, slot, d)
<1> TAKE t \in Tiers, slot, d \in Nat
<1>1. TierIds(t)' = TierIds(t)
  BY DEF TierIds
<1>2. QED
  BY <1>1 DEF Share, Slice, Worklist

LEMMA FilesAreNumbers ==
  ASSUME StoreTypes, NEW p \in Pairs
  PROVE  file[p] \in Int /\ day \in Nat
<1>1. file[p] \in NoFile .. MaxDay + 1 /\ day \in 0 .. MaxDay
  BY DEF StoreTypes
<1>2. NoFile .. MaxDay + 1 \subseteq Int /\ 0 .. MaxDay \subseteq Nat
  BY MtgStockAssumption DEF NoFile
<1>3. QED
  BY <1>1, <1>2

(* What a step of the worker must keep: the files written today, the          *)
(* downloads ahead, and the refreshes ahead unless they are dispatched.       *)
DueStays == \A p \in Pairs : Due(p) => Due(p)'

LEMMA DownloadsStay ==
  ASSUME StoreTypes, day' = day,
         \A p \in Pairs : file'[p] \in {file[p], day + 1},
         \A s \in StepsOf(queue) : s.do = "fetch" =>
           \/ s \in StepsOf(queue')
           \/ \A p \in Pairs : p[2] = s.n /\ p[1] \in s.ids => file'[p] = day + 1
  PROVE  /\ DueStays
         /\ \A p \in Pairs, d \in Nat : d <= day /\ file[p] > d => file'[p] > d
<1>1. ASSUME NEW p \in Pairs, NEW d \in Nat, d <= day, file[p] > d PROVE file'[p] > d
  <2>1. PICK f \in Int, e \in Nat : f = file[p] /\ e = day
    BY FilesAreNumbers
  <2>2. file'[p] = f \/ file'[p] = e + 1
    BY <2>1
  <2>3. d <= e /\ f > d
    BY <1>1, <2>1
  <2>4. QED
    BY <2>2, <2>3
<1>2. ASSUME NEW p \in Pairs, Due(p) PROVE Due(p)'
  <2>1. PICK e \in Nat : e = day
    BY FilesAreNumbers
  <2>2. CASE file[p] > day
    <3>1. file'[p] > e
      BY <1>1, <2>1, <2>2
    <3>2. QED
      BY <2>1, <3>1 DEF Due
  <2>3. CASE Pending(p)
    <3>1. PICK s \in StepsOf(queue) : s.do = "fetch" /\ s.n = p[2] /\ p[1] \in s.ids
      BY <2>3 DEF Pending
    <3>2. CASE s \in StepsOf(queue')
      <4>1. Pending(p)'
        BY <3>1, <3>2 DEF Pending
      <4>2. QED
        BY <4>1 DEF Due
    <3>3. CASE file'[p] = day + 1
      <4>1. file'[p] = e + 1 /\ e + 1 > e
        BY <2>1, <3>3
      <4>2. file'[p] > day'
        BY <2>1, <4>1
      <4>3. QED
        BY <4>2 DEF Due
    <3>4. QED
      BY <3>1, <3>2, <3>3
  <2>4. QED
    BY <1>2, <2>2, <2>3 DEF Due
<1>3. QED
  BY <1>1, <1>2 DEF DueStays

LEMMA WorkGoesOn ==
  ASSUME QueueTypes, StoreTypes, OnTheWay, UNCHANGED <<day, beat, tier>>, InShape(queue'),
         DueStays, \A p \in Pairs, d \in Nat : d <= day /\ file[p] > d => file'[p] > d,
         \A t \in Tiers, slot, d \in Nat :
           TierKey(t, slot, d) \in active' \cup KeysOf(queue') =>
             \/ TierKey(t, slot, d) \in active \cup KeysOf(queue)
             \/ d = day /\ \A p \in Share(t, slot, d) : Due(p)',
         \A s \in StepsOf(queue) : s.do = "refresh" =>
           \/ s \in StepsOf(queue')
           \/ \A t \in Tiers, slot, d \in Nat :
                s = Step("refresh", t, {slot}) /\ d = day => \A p \in Share(t, slot, d) : Due(p)'
  PROVE  OnTheWay'
<1>1. \A t \in Tiers, slot, d \in Nat : Share(t, slot, d)' = Share(t, slot, d)
  BY SharesStay
<1>2. \A t \in Tiers, slot, d \in Nat : \A p \in Share(t, slot, d) : p \in Pairs
  BY ShareIsPairs
<1>3. ASSUME NEW t \in Tiers, NEW slot \in Nat, NEW d \in Nat,
             TierKey(t, slot, d) \in active' \cup KeysOf(queue')
      PROVE  d <= day /\ (d = day => \A p \in Share(t, slot, d) : Due(p)')
  <2>1. CASE TierKey(t, slot, d) \in active \cup KeysOf(queue)
    BY <1>2, <2>1 DEF OnTheWay, DispatchedAreDue, DueStays
  <2>2. CASE d = day /\ \A p \in Share(t, slot, d) : Due(p)'
    BY <2>2
  <2>3. QED
    BY <1>3, <2>1, <2>2
<1>4. DispatchedAreDue'
  <2> SUFFICES ASSUME NEW t \in Tiers, NEW slot \in Nat, NEW d \in Nat,
                      TierKey(t, slot, d) \in active' \cup KeysOf(queue')
               PROVE  d <= day' /\ (d = day' => \A p \in Share(t, slot, d)' : Due(p)')
    BY DEF DispatchedAreDue, TierKey, KeysOf
  <2>1. QED
    BY <1>1, <1>3
<1>5. ASSUME NEW k \in DOMAIN BeatPlan, NEW t \in Tiers, NEW slot \in Nat, NEW d \in Nat,
             BeatPlan[k] = Step("refresh", t, {slot}), Issued(k, d), NEW p \in Share(t, slot, d)
      PROVE  file'[p] > d \/ (d = day /\ (BeatPlan[k] \in StepsOf(queue') \/ Due(p)'))
  <2>1. file[p] > d \/ (d = day /\ (BeatPlan[k] \in StepsOf(queue) \/ Due(p)))
    BY <1>5 DEF OnTheWay, IssuedAreDone
  <2>2. p \in Pairs
    BY <1>2
  <2>3. d <= day
    <3>1. day \in Nat
      BY DEF QueueTypes
    <3>2. QED
      BY <1>5, <3>1 DEF Issued
  <2>4. CASE file[p] > d
    BY <2>2, <2>3, <2>4
  <2>5. CASE d = day /\ Due(p)
    BY <2>2, <2>5 DEF DueStays
  <2>6. CASE d = day /\ BeatPlan[k] \in StepsOf(queue)
    <3>1. BeatPlan[k].do = "refresh"
      BY <1>5 DEF Step
    <3>2. CASE BeatPlan[k] \in StepsOf(queue')
      BY <2>6, <3>2
    <3>3. CASE \A p2 \in Share(t, slot, d) : Due(p2)'
      BY <2>6, <3>3
    <3>4. QED
      BY <1>5, <2>6, <3>1, <3>2, <3>3
  <2>7. QED
    BY <2>1, <2>4, <2>5, <2>6
<1>6. \A k \in DOMAIN BeatPlan, d \in Nat : Issued(k, d)' <=> Issued(k, d)
  BY DEF Issued
<1>7. IssuedAreDone'
  <2> SUFFICES ASSUME NEW k \in DOMAIN BeatPlan, NEW t \in Tiers, NEW slot \in Nat, NEW d \in Nat,
                      BeatPlan[k] = Step("refresh", t, {slot}), Issued(k, d)',
                      NEW p \in Share(t, slot, d)'
               PROVE  file'[p] > d \/ (d = day' /\ (BeatPlan[k] \in StepsOf(queue') \/ Due(p)'))
    BY DEF IssuedAreDone, Step, StepsOf
  <2>1. p \in Share(t, slot, d) /\ Issued(k, d)
    BY <1>1, <1>6
  <2>2. QED
    BY <1>5, <2>1
<1>8. QED
  BY <1>4, <1>7 DEF OnTheWay, InShape, FetchesFirst

LEMMA ContinuesOn ==
  ASSUME QueueTypes, StoreTypes, OnTheWay, queue # <<>>, Continue, UNCHANGED <<day, beat, tier>>,
         active' \subseteq active \cup {Msg.key}, This.do # "refresh",
         \A p \in Pairs : file'[p] \in {file[p], day + 1},
         This.do = "fetch" =>
           \A p \in Pairs : p[2] = This.n /\ p[1] \in This.ids => file'[p] = day + 1
  PROVE  OnTheWay'
<1>1. /\ InShape(queue') /\ KeysOf(queue') \subseteq KeysOf(queue)
      /\ \A s \in StepsOf(queue) : s = This \/ s \in StepsOf(queue')
  BY ContinueSteps DEF OnTheWay
<1>2. Msg.key \in KeysOf(queue)
  BY HeadFacts DEF KeysOf
<1>3. /\ DueStays
      /\ \A p \in Pairs, d \in Nat : d <= day /\ file[p] > d => file'[p] > d
  BY <1>1, DownloadsStay
<1>4. \A t \in Tiers, slot, d \in Nat :
        TierKey(t, slot, d) \in active' \cup KeysOf(queue') => TierKey(t, slot, d) \in active \cup KeysOf(queue)
  BY <1>1, <1>2
<1>5. \A s \in StepsOf(queue) : s.do = "refresh" => s \in StepsOf(queue')
  BY <1>1
<1>6. QED
  BY <1>1, <1>3, <1>4, <1>5, WorkGoesOn

LEMMA EndsOn ==
  ASSUME QueueTypes, StoreTypes, OnTheWay, queue # <<>>, Ends, UNCHANGED <<day, beat, tier, active>>,
         This.do \notin {"start", "fetch", "refresh"},
         \A p \in Pairs : file'[p] \in {file[p], day + 1}
  PROVE  OnTheWay'
<1>1. /\ InShape(queue') /\ KeysOf(queue') \subseteq KeysOf(queue)
      /\ \A s \in StepsOf(queue) : Asks(s) => s = This \/ s \in StepsOf(queue')
  BY EndsSteps DEF OnTheWay, Ends
<1>2. \A s \in StepsOf(queue) : s.do \in {"refresh", "fetch"} => s \in StepsOf(queue')
  BY <1>1 DEF Asks
<1>3. /\ DueStays
      /\ \A p \in Pairs, d \in Nat : d <= day /\ file[p] > d => file'[p] > d
  BY <1>2, DownloadsStay
<1>4. \A t \in Tiers, slot, d \in Nat :
        TierKey(t, slot, d) \in active' \cup KeysOf(queue') => TierKey(t, slot, d) \in active \cup KeysOf(queue)
  BY <1>1
<1>5. QED
  BY <1>1, <1>2, <1>3, <1>4, WorkGoesOn

LEMMA DispatchesOn ==
  ASSUME QueueTypes, StoreTypes, OnTheWay, queue # <<>>, UNCHANGED <<day, beat, tier, active, file>>,
         This.do \notin {"start", "fetch", "refresh"},
         NEW key \in Keys, key[1] # "tier", NEW todo \in Chains, Silent(todo), Dispatch(key, todo)
  PROVE  OnTheWay'
<1>1. /\ InShape(queue') /\ KeysOf(queue') \subseteq KeysOf(queue) \cup {key}
      /\ \A s \in StepsOf(queue) : Asks(s) => s = This \/ s \in StepsOf(queue')
  BY SilentIsInShape, DispatchSteps DEF OnTheWay
<1>2. \A s \in StepsOf(queue) : s.do \in {"refresh", "fetch"} => s \in StepsOf(queue')
  BY <1>1 DEF Asks
<1>3. /\ DueStays
      /\ \A p \in Pairs, d \in Nat : d <= day /\ file[p] > d => file'[p] > d
  BY <1>2, DownloadsStay
<1>4. \A t \in Tiers, slot, d \in Nat : TierKey(t, slot, d) # key
  BY DEF TierKey
<1>5. \A t \in Tiers, slot, d \in Nat :
        TierKey(t, slot, d) \in active' \cup KeysOf(queue') => TierKey(t, slot, d) \in active \cup KeysOf(queue)
  BY <1>1, <1>4
<1>6. QED
  BY <1>1, <1>2, <1>3, <1>5, WorkGoesOn

(* A refresh dispatches the downloads of its slice, unless a run of the same  *)
(* slot and day has been begun, which has them done or ahead.                 *)
LEMMA RefreshOn ==
  ASSUME QueueTypes, StoreTypes, OnTheWay, RunRefresh
  PROVE  OnTheWay'
<1>1. /\ queue # <<>> /\ This.do = "refresh"
      /\ UNCHANGED <<day, beat, active, disk, database>>
  BY DEF RunRefresh, At
<1>2. UNCHANGED <<tier, file>> /\ day \in Nat
  BY <1>1 DEF disk, database, QueueTypes
<1>3. This \in Steps
  BY <1>1, HeadFacts
<1> DEFINE slot0 == CHOOSE s \in This.ids : TRUE
           slice == Slice(TierIds(This.n), This.n, slot0, day)
           S0 == [m \in Markets |-> {i \in Ids : <<i, m>> \in slice}]
<1>4. PICK ms \in InOrder(Asked(S0)) : Dispatch(Key("tier", This.n, slot0), RefreshChain(S0, ms))
  BY DEF RunRefresh
<1>5. This.n \in Nat /\ slot0 \in Nat /\ \A x : This.ids = {x} => slot0 = x
  BY <1>1, <1>3 DEF Steps
<1>6. S0 \in [Markets -> SUBSET Ids] /\ \A m \in Markets : S0[m] = {i \in Ids : <<i, m>> \in slice}
  OBVIOUS
<1>7. PICK S, n, slot, sl :
        /\ S = S0 /\ n = This.n /\ slot = slot0 /\ sl = slice
  OBVIOUS
<1>8. /\ S \in [Markets -> SUBSET Ids] /\ \A m \in Markets : S[m] = {i \in Ids : <<i, m>> \in sl}
      /\ n \in Nat /\ slot \in Nat /\ n = This.n /\ \A x : This.ids = {x} => slot = x
      /\ ms \in InOrder(Asked(S)) /\ Dispatch(<<"tier", n, slot, day>>, RefreshChain(S, ms))
      /\ sl = Slice(TierIds(n), n, slot, day)
  BY <1>4, <1>5, <1>6, <1>7 DEF Key
<1> HIDE DEF slot0, slice, S0
<1>9. PICK e \in Nat : e = day
  BY <1>2
<1> DEFINE key == <<"tier", n, slot, e>>
           chain == RefreshChain(S, ms)
<1>10. Asked(S) \in SUBSET Markets
  BY DEF Asked
<1>11. ms \in Seq(Markets)
  BY <1>8, <1>10, OrderedMarkets
<1>12. /\ chain \in Chains /\ FetchesFirst(chain)
       /\ \A k \in DOMAIN ms : \E j \in DOMAIN chain : chain[j] = Step("fetch", ms[k], S[ms[k]])
  BY <1>8, <1>11, RefreshIsChain, RefreshFetches
<1>13. key \in Keys
  BY <1>8 DEF Keys
<1>14. Dispatch(key, chain) /\ key = TierKey(n, slot, e)
  BY <1>8, <1>9 DEF TierKey
<1> HIDE DEF chain, key
<1>15. /\ InShape(queue') /\ KeysOf(queue') \subseteq KeysOf(queue) \cup {key}
       /\ \A s \in StepsOf(queue) : Asks(s) => s = This \/ s \in StepsOf(queue')
       /\ key \notin active => \A j \in DOMAIN chain : chain[j] \in StepsOf(queue')
  BY <1>1, <1>12, <1>13, <1>14, DispatchSteps DEF OnTheWay
<1>16. \A s \in StepsOf(queue) : s.do = "fetch" => s \in StepsOf(queue')
  BY <1>1, <1>15 DEF Asks
<1>17. /\ DueStays
       /\ \A p \in Pairs, d \in Nat : d <= day /\ file[p] > d => file'[p] > d
  BY <1>1, <1>2, <1>16, DownloadsStay
<1>18. ASSUME n \in Tiers, NEW p \in Share(n, slot, e) PROVE Due(p)'
  <2>1. p \in Pairs
    BY <1>18, ShareIsPairs
  <2>2. CASE key \in active
    <3>1. Due(p)
      BY <1>8, <1>9, <1>14, <1>18, <2>2 DEF OnTheWay, DispatchedAreDue
    <3>2. QED
      BY <1>17, <2>1, <3>1 DEF DueStays
  <2>3. CASE key \notin active
    <3>1. PICK i \in Ids, m \in Markets : p = <<i, m>>
      BY <2>1 DEF Pairs
    <3>2. i \in S[m] /\ m \in Asked(S)
      <4>1. <<i, m>> \in sl
        BY <1>8, <1>9, <1>18, <3>1 DEF Share
      <4>2. i \in S[m]
        BY <1>8, <3>1, <4>1
      <4>3. QED
        BY <4>2 DEF Asked
    <3>3. PICK k \in DOMAIN ms : ms[k] = m
      BY <1>8, <1>10, <3>2, OrderedIsAll
    <3>4. Step("fetch", m, S[m]) \in StepsOf(queue')
      BY <1>12, <1>15, <2>3, <3>3
    <3>5. Step("fetch", m, S[m]).do = "fetch" /\ Step("fetch", m, S[m]).n = m
          /\ Step("fetch", m, S[m]).ids = S[m]
      BY DEF Step
    <3>6. Pending(p)'
      BY <3>1, <3>2, <3>4, <3>5 DEF Pending
    <3>7. QED
      BY <3>6 DEF Due
  <2>4. QED
    BY <2>2, <2>3
<1>19. ASSUME NEW t \in Tiers, NEW s \in Nat, NEW d \in Nat,
              TierKey(t, s, d) \in active' \cup KeysOf(queue')
       PROVE  \/ TierKey(t, s, d) \in active \cup KeysOf(queue)
              \/ d = day /\ \A p \in Share(t, s, d) : Due(p)'
  <2>1. CASE TierKey(t, s, d) = key
    <3>1. t = n /\ s = slot /\ d = e
      BY <1>14, <2>1 DEF TierKey
    <3>2. QED
      BY <1>9, <1>18, <3>1
  <2>2. CASE TierKey(t, s, d) # key
    BY <1>1, <1>15, <1>19, <2>2
  <2>3. QED
    BY <2>1, <2>2
<1>20. ASSUME NEW s \in StepsOf(queue), s.do = "refresh", s \notin StepsOf(queue'),
              NEW t \in Tiers, NEW x \in Nat, NEW d \in Nat, s = Step("refresh", t, {x}), d = day
       PROVE  \A p \in Share(t, x, d) : Due(p)'
  <2>1. This = Step("refresh", t, {x})
    BY <1>15, <1>20 DEF Asks
  <2>2. t = n /\ x = slot
    <3>1. This.n = t /\ This.ids = {x}
      BY <2>1 DEF Step
    <3>2. QED
      BY <1>8, <3>1
  <2>3. QED
    BY <1>9, <1>18, <1>20, <2>2
<1>21. UNCHANGED <<day, beat, tier>>
  BY <1>1, <1>2
<1>22. QED
  BY <1>15, <1>17, <1>19, <1>20, <1>21, WorkGoesOn

(* A step that leaves the routine as it was.                                  *)
LEMMA RoutineSteps ==
  ASSUME Work \/ Move, Routine'
  PROVE  Routine /\ tier' = tier /\ UNCHANGED <<day, beat>> /\ ~StepFails /\ ~FetchRaises /\ ~StageSkips
<1>1. \A x : x # "early" => odd' # odd \cup {x}
  BY DEF Routine
<1>2. ~StepFails /\ ~FetchRaises /\ ~StageSkips
  BY <1>1 DEF StepFails, FetchRaises, StageSkips, Fails
<1> SUFFICES Routine /\ tier' = tier /\ UNCHANGED <<day, beat>>
  BY <1>2
<1>3. CASE Move
  BY <1>1, <1>3 DEF Move, Routine
<1>4. CASE RunRefresh \/ RunLoad \/ RunTask \/ Start \/ Finish \/ Probe \/ Download \/ Promote
  BY <1>4 DEF RunRefresh, RunLoad, RunTask, Start, Finish, Probe, Download, Promote, Calm, Routine,
    database
<1>5. CASE Fetch
  BY <1>1, <1>5 DEF Fetch, Calm, Fails, Routine, database
<1>6. CASE BuildMapping
  BY <1>1, <1>6 DEF BuildMapping, Routine
<1>7. CASE BulkLoad
  BY <1>1, <1>7 DEF BulkLoad, Routine
<1>8. CASE Stage
  <2>1. odd' = odd /\ tier' = tier
    BY <1>1, <1>8 DEF Stage
  <2>2. QED
    BY <1>2, <1>8, <2>1 DEF Stage, Routine
<1>9. CASE Retry
  BY <1>1, <1>9 DEF Retry, Routine
<1>10. QED
  BY <1>2, <1>3, <1>4, <1>5, <1>6, <1>7, <1>8, <1>9 DEF Work

LEMMA WorkKeepsWindow ==
  ASSUME QueueTypes, StoreTypes, WindowInv, Work, Routine'
  PROVE  OnTheWay'
<1>1. /\ OnTheWay /\ UNCHANGED <<day, beat, tier>>
      /\ ~StepFails /\ ~FetchRaises /\ ~StageSkips
  BY RoutineSteps DEF WindowInv
<1>2. CASE RunRefresh
  BY <1>1, <1>2, RefreshOn
<1>3. CASE RunLoad
  <2> DEFINE S == [m \in Markets |-> TodayIds(m)]
  <2>1. PICK ms \in InLoadOrder(Asked(S)) : Dispatch(Key("load", 0, 0), LoadChain(S, ms))
    BY <1>3 DEF RunLoad
  <2>2. S \in [Markets -> SUBSET Ids]
    BY DEF TodayIds
  <2> HIDE DEF S
  <2>3. Asked(S) \in SUBSET Markets
    BY DEF Asked
  <2>4. ms \in Seq(Markets)
    BY <2>1, <2>3, OrderedMarkets
  <2>5. LoadChain(S, ms) \in Chains /\ Silent(LoadChain(S, ms))
    BY <2>2, <2>4, LoadIsChain, LoadIsSilent
  <2>6. PICK key \in Keys : key = Key("load", 0, 0) /\ key[1] # "tier"
    <3>1. Key("load", 0, 0) \in Keys /\ Key("load", 0, 0)[1] # "tier"
      BY DEF Key, Keys, QueueTypes
    <3>2. QED
      BY <3>1
  <2>7. PICK todo \in Chains : todo = LoadChain(S, ms) /\ Silent(todo)
    BY <2>5
  <2>8. Dispatch(key, todo)
    BY <2>1, <2>6, <2>7
  <2>9. /\ queue # <<>> /\ This.do \notin {"start", "fetch", "refresh"}
        /\ UNCHANGED <<active, file>>
    BY <1>3 DEF RunLoad, At, disk
  <2>10. QED
    BY <1>1, <2>6, <2>7, <2>8, <2>9, DispatchesOn
<1>4. CASE RunTask
  <2>1. \E key \in Keys, todo \in Chains : key[1] # "tier" /\ Silent(todo) /\ Dispatch(key, todo)
    <3>1. \A kind \in {"full", "discover", "mapping"} :
            Key(kind, 0, 0) \in Keys /\ Key(kind, 0, 0)[1] # "tier"
      BY DEF Key, Keys, QueueTypes
    <3>2. CASE Dispatch(Key("full", 0, 0), FullChain)
      BY <3>1, <3>2, FullChainIsChain, FullIsSilent
    <3>3. CASE Dispatch(Key("discover", 0, 0), <<Do("start"), Do("probe"), Do("finish")>>)
      BY <3>1, <3>3, ShortChains, PipelinesAreSilent
    <3>4. CASE Dispatch(Key("mapping", 0, 0), <<Do("start"), Do("map"), Do("finish")>>)
      BY <3>1, <3>4, ShortChains, PipelinesAreSilent
    <3>5. QED
      BY <1>4, <3>2, <3>3, <3>4 DEF RunTask
  <2>2. /\ queue # <<>> /\ This.do \notin {"start", "fetch", "refresh"}
        /\ UNCHANGED <<active, file>>
    BY <1>4 DEF RunTask, At, disk
  <2>3. QED
    BY <1>1, <2>1, <2>2, DispatchesOn
<1>5. CASE Start
  <2>1. /\ queue # <<>> /\ Continue /\ active' \subseteq active \cup {Msg.key}
        /\ This.do = "start" /\ file' = file
    BY <1>5 DEF Start, At, disk
  <2>2. QED
    BY <1>1, <2>1, ContinuesOn
<1>6. CASE Fetch
  <2>1. /\ queue # <<>> /\ Continue /\ active' = active /\ This.do = "fetch"
    BY <1>6 DEF Fetch, At
  <2>2. Write(This.ids, This.n)
    <3>1. ~Fails
      BY DEF Fails, Routine
    <3>2. QED
      BY <1>6, <3>1 DEF Fetch
  <2>3. /\ \A p \in Pairs : file'[p] \in {file[p], day + 1}
        /\ \A p \in Pairs : p[2] = This.n /\ p[1] \in This.ids => file'[p] = day + 1
    BY <2>2 DEF Write
  <2>4. QED
    BY <1>1, <2>1, <2>3, ContinuesOn
<1>7. CASE (Probe /\ Continue) \/ BuildMapping \/ BulkLoad \/ Stage \/ Retry \/ Promote
  <2>1. /\ queue # <<>> /\ Continue /\ active' = active
        /\ This.do \notin {"refresh", "fetch"} /\ file' = file
    BY <1>7 DEF Probe, BuildMapping, BulkLoad, Stage, Retry, Promote, At, disk
  <2>2. QED
    BY <1>1, <2>1, ContinuesOn
<1>8. CASE (Probe /\ Ends) \/ Finish
  <2>1. /\ queue # <<>> /\ Ends /\ active' = active
        /\ This.do \notin {"start", "refresh", "fetch"} /\ file' = file
    BY <1>8 DEF Probe, Finish, At, disk
  <2>2. QED
    BY <1>1, <2>1, EndsOn
<1>9. CASE Download
  <2>1. /\ queue # <<>> /\ Ends /\ active' = active
        /\ This.do \notin {"start", "refresh", "fetch"}
    BY <1>9 DEF Download, At
  <2>2. \E S : Write(S, This.n)
    BY <1>9 DEF Download
  <2>3. \A p \in Pairs : file'[p] \in {file[p], day + 1}
    BY <2>2 DEF Write
  <2>4. QED
    BY <1>1, <2>1, <2>3, EndsOn
<1>10. Probe => (Probe /\ Continue) \/ (Probe /\ Ends)
  BY DEF Probe
<1>11. QED
  BY <1>1, <1>2, <1>3, <1>4, <1>5, <1>6, <1>7, <1>8, <1>9, <1>10 DEF Work

LEMMA MidnightIs ==
  /\ Midnight \in DOMAIN BeatPlan
  /\ \A k \in DOMAIN BeatPlan : BeatPlan[k].do = "midnight" <=> k = Midnight
BY PlanAssumption DEF Midnight

LEMMA PlanIs ==
  /\ BeatPlan \in Seq(PlanSteps) /\ Len(BeatPlan) \in Nat \ {0}
  /\ DOMAIN BeatPlan = 1 .. Len(BeatPlan)
BY MtgStockAssumption

LEMMA Restful == StepsOf(<<>>) = {} /\ KeysOf(<<>>) = {} /\ InShape(<<>>)
BY DEF StepsOf, KeysOf, InShape

LEMMA WindowStarts == Init => WindowInv
<1> SUFFICES ASSUME Init PROVE OnTheWay
  BY DEF WindowInv
<1>1. InShape(queue) /\ DispatchedAreDue
  BY Restful DEF Init, DispatchedAreDue
<1>2. ASSUME NEW k \in DOMAIN BeatPlan, NEW d \in Nat PROVE ~Issued(k, d)
  BY PlanIs DEF Init, Issued
<1>3. QED
  BY <1>1, <1>2 DEF OnTheWay, IssuedAreDone

(* At the worker's midnight the queue is empty, so what was sent is done.     *)
LEMMA NothingIsLeft ==
  ASSUME QueueTypes, StoreTypes, OnTheWay, queue = <<>>,
         NEW k \in DOMAIN BeatPlan, NEW t \in Tiers, NEW slot \in Nat, NEW d \in Nat,
         BeatPlan[k] = Step("refresh", t, {slot}), Issued(k, d), NEW p \in Share(t, slot, d)
  PROVE  file[p] > d
<1>1. file[p] > d \/ (d = day /\ (BeatPlan[k] \in StepsOf(queue) \/ Due(p)))
  BY DEF OnTheWay, IssuedAreDone
<1>2. StepsOf(queue) = {}
  BY Restful
<1>3. ~Pending(p)
  BY <1>2 DEF Pending
<1>4. QED
  BY <1>1, <1>2, <1>3 DEF Due

LEMMA MidnightKeepsWindow ==
  ASSUME QueueTypes, StoreTypes, WindowInv, Beat, Routine', BeatPlan[beat].do = "midnight"
  PROVE  OnTheWay'
<1>1. /\ queue = <<>> /\ queue' = queue /\ day' = day + 1 /\ beat' = (beat % Len(BeatPlan)) + 1
      /\ UNCHANGED <<active, file, tier>> /\ Routine
  BY DEF Beat, Routine, disk, database
<1>2. OnTheWay /\ beat = Midnight
  BY <1>1, MidnightIs DEF WindowInv, Routine, QueueTypes
<1>3. PICK e \in Nat : e = day
  BY DEF QueueTypes
<1>4. InShape(queue') /\ KeysOf(queue') = {}
  BY <1>1, Restful
<1>5. \A t \in Tiers, slot, d \in Nat : Share(t, slot, d)' = Share(t, slot, d)
  BY <1>1, SharesStay
<1>6. DispatchedAreDue'
  <2> SUFFICES ASSUME NEW t \in Tiers, NEW slot \in Nat, NEW d \in Nat,
                      TierKey(t, slot, d) \in active' \cup KeysOf(queue')
               PROVE  d < day'
    <3>1. \A t \in Tiers, slot, d \in Nat :
            d < day' => d <= day' /\ (d = day' => \A p \in Share(t, slot, d)' : Due(p)')
      BY <1>1, <1>3
    <3>2. QED
      BY <3>1 DEF DispatchedAreDue, TierKey, KeysOf
  <2>1. TierKey(t, slot, d) \in active
    BY <1>1, <1>4
  <2>2. d <= day
    BY <1>2, <2>1 DEF OnTheWay, DispatchedAreDue
  <2>3. QED
    BY <1>1, <1>3, <2>2
<1>7. ASSUME NEW k \in DOMAIN BeatPlan, k # Midnight, NEW d \in Nat, Issued(k, d)'
      PROVE  Issued(k, d)
  <2>1. PICK n \in Nat \ {0} : n = Len(BeatPlan) /\ k \in 1 .. n /\ beat \in 1 .. n
    BY PlanIs DEF QueueTypes
  <2>2. PICK m \in 1 .. n : m = Midnight /\ m = beat
    BY <1>2, <2>1
  <2>3. PICK b \in 1 .. n : b = beat' /\ (m < n => b = m + 1) /\ (m = n => b = 1)
    <3>1. (m < n => m % n = m) /\ (m = n => m % n = 0)
      BY <2>1, <2>2
    <3>2. (m % n) + 1 \in 1 .. n
      BY <2>1, <2>2
    <3>3. beat' = (m % n) + 1
      BY <1>1, <2>1, <2>2
    <3>4. QED
      BY <3>1, <3>2, <3>3
  <2>4. IF k < m THEN d < e + 1 \/ (d = e + 1 /\ k < b /\ b <= m)
        ELSE d >= 1 /\ (d < e + 1 \/ (d = e + 1 /\ (k < b \/ b <= m)))
    BY <1>1, <1>3, <1>7, <2>2, <2>3 DEF Issued, Midnight
  <2>5. IF k < m THEN d < e \/ (d = e /\ k < m /\ m <= m)
        ELSE d >= 1 /\ (d < e \/ (d = e /\ (k < m \/ m <= m)))
    BY <1>7, <2>1, <2>2, <2>3, <2>4
  <2>6. QED
    BY <1>3, <2>2, <2>5 DEF Issued
<1>8. IssuedAreDone'
  <2> SUFFICES ASSUME NEW k \in DOMAIN BeatPlan, NEW t \in Tiers, NEW slot \in Nat, NEW d \in Nat,
                      BeatPlan[k] = Step("refresh", t, {slot}), Issued(k, d)',
                      NEW p \in Share(t, slot, d)'
               PROVE  file'[p] > d
    BY DEF IssuedAreDone, Step, StepsOf
  <2>1. BeatPlan[k].do # "midnight"
    BY DEF Step
  <2>2. Issued(k, d)
    BY <1>7, <2>1, MidnightIs
  <2>3. p \in Share(t, slot, d)
    BY <1>5
  <2>4. file[p] > d
    BY <1>1, <1>2, <2>2, <2>3, NothingIsLeft
  <2>5. QED
    BY <1>1, <2>4
<1>9. QED
  BY <1>4, <1>6, <1>8 DEF OnTheWay, InShape, FetchesFirst

(* Beat sends an entry, which is then in the queue.                           *)
LEMMA SendKeepsWindow ==
  ASSUME QueueTypes, StoreTypes, WindowInv, Beat, Routine', BeatPlan[beat].do # "midnight"
  PROVE  OnTheWay'
<1> DEFINE b == BeatPlan[beat]
           m == Message(NoKey, <<b>>)
<1>1. /\ queue' = Append(queue, m) /\ day' = day /\ beat' = (beat % Len(BeatPlan)) + 1
      /\ UNCHANGED <<active, file, tier>> /\ Routine
  BY DEF Beat, Routine, disk, database
<1>2. OnTheWay /\ beat # Midnight
  BY <1>1, MidnightIs DEF WindowInv, Routine
<1>3. PICK e \in Nat : e = day
  BY DEF QueueTypes
<1>4. b \in PlanSteps /\ (b.do = "refresh" => b.ids # {}) /\ beat \in DOMAIN BeatPlan
  BY PlanIs, MtgStockAssumption DEF QueueTypes
<1>5. m \in Messages /\ m.todo = <<b>> /\ m.key = NoKey
  <2>1. b \in Steps /\ b.do \notin {"bulk", "stage"}
    BY <1>4 DEF PlanSteps, Steps, Names
  <2> HIDE DEF b
  <2>2. QED
    BY <2>1, SingleStep DEF Message, Messages, NoKey, Keys
<1>6. FetchesFirst(m.todo) /\ DOMAIN m.todo = {1} /\ m.todo[1] = b
  <2>1. b.do # "fetch"
    BY <1>4 DEF PlanSteps
  <2> HIDE DEF b
  <2>2. QED
    BY <1>5, <2>1 DEF FetchesFirst
<1> HIDE DEF m, b
<1>7. /\ StepsOf(queue) \subseteq StepsOf(queue') /\ b \in StepsOf(queue')
      /\ KeysOf(queue') \subseteq KeysOf(queue) \cup {NoKey} /\ InShape(queue')
  <2>1. /\ StepsOf(queue) \subseteq StepsOf(Append(queue, m))
        /\ \A j \in DOMAIN m.todo : m.todo[j] \in StepsOf(Append(queue, m))
        /\ KeysOf(Append(queue, m)) \subseteq KeysOf(queue) \cup {m.key}
        /\ InShape(queue) /\ FetchesFirst(m.todo) => InShape(Append(queue, m))
    BY <1>5, SentSteps DEF QueueTypes
  <2>2. QED
    BY <1>1, <1>2, <1>5, <1>6, <2>1 DEF OnTheWay
<1>8. \A t \in Tiers, slot, d \in Nat : Share(t, slot, d)' = Share(t, slot, d)
  BY <1>1, SharesStay
<1>9. \A p : Due(p) => Due(p)'
  BY <1>1, <1>7 DEF Due, Pending
<1>10. DispatchedAreDue'
  <2> SUFFICES ASSUME NEW t \in Tiers, NEW slot \in Nat, NEW d \in Nat,
                      TierKey(t, slot, d) \in active' \cup KeysOf(queue')
               PROVE  d <= day' /\ (d = day' => \A p \in Share(t, slot, d)' : Due(p)')
    BY DEF DispatchedAreDue, TierKey, KeysOf
  <2>1. TierKey(t, slot, d) # NoKey
    BY DEF TierKey, NoKey
  <2>2. TierKey(t, slot, d) \in active \cup KeysOf(queue)
    BY <1>1, <1>7, <2>1
  <2>3. d <= day /\ (d = day => \A p \in Share(t, slot, d) : Due(p))
    BY <1>2, <2>2 DEF OnTheWay, DispatchedAreDue
  <2>4. QED
    BY <1>1, <1>8, <1>9, <2>3
<1>11. ASSUME NEW k \in DOMAIN BeatPlan, k # Midnight, NEW d \in Nat, Issued(k, d)'
       PROVE  Issued(k, d) \/ (k = beat /\ d = day)
  <2>1. PICK n \in Nat \ {0} : n = Len(BeatPlan) /\ k \in 1 .. n /\ beat \in 1 .. n
    BY PlanIs DEF QueueTypes
  <2>2. PICK mid \in 1 .. n, c \in 1 .. n : mid = Midnight /\ c = beat /\ c # mid
    BY <1>2, <2>1, MidnightIs, PlanIs
  <2>3. PICK c2 \in 1 .. n : c2 = beat' /\ (c < n => c2 = c + 1) /\ (c = n => c2 = 1)
    <3>1. (c < n => c % n = c) /\ (c = n => c % n = 0)
      BY <2>1, <2>2
    <3>2. (c % n) + 1 \in 1 .. n
      BY <2>1, <2>2
    <3>3. beat' = (c % n) + 1
      BY <1>1, <2>1, <2>2
    <3>4. QED
      BY <3>1, <3>2, <3>3
  <2>4. IF k < mid THEN d < e \/ (d = e /\ k < c2 /\ c2 <= mid)
        ELSE d >= 1 /\ (d < e \/ (d = e /\ (k < c2 \/ c2 <= mid)))
    BY <1>1, <1>3, <1>11, <2>2, <2>3 DEF Issued, Midnight
  <2>5. \/ IF k < mid THEN d < e \/ (d = e /\ k < c /\ c <= mid)
           ELSE d >= 1 /\ (d < e \/ (d = e /\ (k < c \/ c <= mid)))
        \/ k = c /\ d = e
    BY <1>11, <2>1, <2>2, <2>3, <2>4
  <2>6. QED
    BY <1>3, <2>2, <2>5 DEF Issued
<1>12. IssuedAreDone'
  <2> SUFFICES ASSUME NEW k \in DOMAIN BeatPlan, NEW t \in Tiers, NEW slot \in Nat, NEW d \in Nat,
                      BeatPlan[k] = Step("refresh", t, {slot}), Issued(k, d)',
                      NEW p \in Share(t, slot, d)'
               PROVE  file'[p] > d \/ (d = day' /\ (BeatPlan[k] \in StepsOf(queue') \/ Due(p)'))
    BY DEF IssuedAreDone, Step, StepsOf
  <2>1. BeatPlan[k].do # "midnight"
    BY DEF Step
  <2>2. p \in Share(t, slot, d)
    BY <1>8
  <2>3. CASE k = beat /\ d = day
    BY <1>1, <1>7, <2>3 DEF b
  <2>4. CASE Issued(k, d)
    <3>1. file[p] > d \/ (d = day /\ (BeatPlan[k] \in StepsOf(queue) \/ Due(p)))
      BY <1>2, <2>2, <2>4 DEF OnTheWay, IssuedAreDone
    <3>2. QED
      BY <1>1, <1>7, <1>9, <3>1
  <2>5. QED
    BY <1>11, <2>1, <2>3, <2>4, MidnightIs
<1>13. QED
  BY <1>7, <1>10, <1>12 DEF OnTheWay, InShape, FetchesFirst

LEMMA NextKeepsWindow ==
  ASSUME QueueTypes, StoreTypes, WindowInv, [Next]_vars
  PROVE  WindowInv'
<1> SUFFICES ASSUME Routine' PROVE OnTheWay'
  BY DEF WindowInv
<1>1. CASE Beat
  BY <1>1, MidnightKeepsWindow, SendKeepsWindow
<1>2. ASSUME NEW do \in OperatorTasks, Manual(do) PROVE FALSE
  BY <1>2 DEF Manual, Routine
<1>3. CASE Work
  BY <1>3, WorkKeepsWindow
<1>4. CASE Move \/ UNCHANGED vars
  <2>1. Routine /\ UNCHANGED <<day, beat, queue, active, file, tier>>
    BY <1>4, RoutineSteps DEF Move, vars, disk, database, Routine
  <2>2. OnTheWay
    BY <2>1 DEF WindowInv
  <2>3. \A t \in Tiers, slot, d \in Nat : Share(t, slot, d)' = Share(t, slot, d)
    BY <2>1, SharesStay
  <2>4. \A p : Due(p)' <=> Due(p)
    BY <2>1 DEF Due, Pending
  <2>5. DispatchedAreDue'
    BY <2>1, <2>2, <2>3, <2>4 DEF OnTheWay, DispatchedAreDue
  <2>6. IssuedAreDone'
    <3>1. \A k, d : Issued(k, d)' <=> Issued(k, d)
      BY <2>1 DEF Issued
    <3>2. QED
      BY <2>1, <2>2, <2>3, <2>4, <3>1 DEF OnTheWay, IssuedAreDone
  <2>7. QED
    BY <2>1, <2>2, <2>5, <2>6 DEF OnTheWay, InShape
<1>5. QED
  BY <1>1, <1>2, <1>3, <1>4 DEF Next

-----------------------------------------------------------------------------
(* The slices: a place of the list is in one of them, and any days in a row,  *)
(* as many as the window has, come to the index of each.                      *)
LEMMA Divides ==
  ASSUME NEW a \in Nat, NEW b \in Nat \ {0}
  PROVE  a \div b \in Nat /\ a % b \in 0 .. b - 1 /\ a = b * (a \div b) + (a % b)
OBVIOUS

LEMMA Remains ==
  ASSUME NEW total \in Nat \ {0}, NEW q \in Nat, NEW i \in 0 .. total - 1
  PROVE  (q * total + i) % total = i
<1>1. PICK a \in Nat : a = q * total + i
  OBVIOUS
<1>2. PICK q2 \in Nat, i2 \in 0 .. total - 1 : a = total * q2 + i2 /\ i2 = a % total
  BY Divides
<1>3. CASE q < q2
  <2>1. PICK x \in Nat : q2 = q + 1 + x
    <3>1. q2 - q - 1 \in Nat /\ q2 = q + 1 + (q2 - q - 1)
      BY <1>3
    <3>2. QED
      BY <3>1
  <2>2. total * q2 = total * q + total + total * x /\ total * x \in Nat
    BY <2>1
  <2>3. total * q \in Nat /\ q * total = total * q
    OBVIOUS
  <2>4. QED
    BY <1>1, <1>2, <2>2, <2>3
<1>4. CASE q2 < q
  <2>1. PICK x \in Nat : q = q2 + 1 + x
    <3>1. q - q2 - 1 \in Nat /\ q = q2 + 1 + (q - q2 - 1)
      BY <1>4
    <3>2. QED
      BY <3>1
  <2>2. total * q = total * q2 + total + total * x /\ total * x \in Nat
    BY <2>1
  <2>3. total * q2 \in Nat /\ q * total = total * q
    OBVIOUS
  <2>4. QED
    BY <1>1, <1>2, <2>2, <2>3
<1>5. CASE q = q2
  <2>1. total * q \in Nat /\ q * total = total * q
    OBVIOUS
  <2>2. i = i2
    BY <1>1, <1>2, <1>5, <2>1
  <2>3. QED
    BY <1>1, <1>2, <2>2
<1>6. QED
  BY <1>3, <1>4, <1>5

LEMMA EveryPlaceHasSlice ==
  ASSUME NEW place \in Nat, NEW size \in Nat, NEW total \in Nat \ {0}
  PROVE  \E i \in 0 .. total - 1 : InSlice(place, size, i, total)
<1>1. CASE size = 0
  <2>1. total - 1 \in 0 .. total - 1 /\ (total - 1) * size = 0
    BY <1>1
  <2>2. InSlice(place, size, total - 1, total)
    BY <2>1 DEF InSlice
  <2>3. QED
    BY <2>1, <2>2
<1>2. CASE size # 0
  <2>1. PICK q \in Nat, r \in 0 .. size - 1 : place = size * q + r
    BY <1>2, Divides
  <2>2. CASE q <= total - 1
    <3>1. q * size <= place /\ place < (q + 1) * size
      <4>1. q * size = size * q /\ (q + 1) * size = size * q + size /\ size * q \in Nat
        OBVIOUS
      <4>2. QED
        BY <2>1, <4>1
    <3>2. QED
      BY <2>2, <3>1 DEF InSlice
  <2>3. CASE q > total - 1
    <3>1. (total - 1) * size <= place
      <4>1. PICK x \in Nat : q = (total - 1) + x
        <5>1. q - (total - 1) \in Nat
          BY <2>3
        <5>2. QED
          BY <5>1
      <4>2. size * q = (total - 1) * size + size * x /\ size * x \in Nat /\ (total - 1) * size \in Nat
        BY <4>1
      <4>3. QED
        BY <2>1, <4>2
    <3>2. QED
      BY <3>1 DEF InSlice
  <2>4. QED
    BY <2>2, <2>3
<1>3. QED
  BY <1>1, <1>2

LEMMA EverySliceHasDay ==
  ASSUME NEW days \in Nat \ {0}, NEW slots \in Nat \ {0}, NEW i \in 0 .. days * slots - 1
  PROVE  \E slot \in 0 .. slots - 1 : \A lo \in Nat :
           \E d \in Nat : lo <= d /\ d < lo + days /\ (d * slots + slot) % (days * slots) = i
<1>1. PICK w \in Nat, slot \in 0 .. slots - 1 : i = slots * w + slot
  <2>1. PICK j \in Nat : j = i
    <3>1. days * slots \in Nat
      OBVIOUS
    <3>2. QED
      BY <3>1
  <2>2. j \div slots \in Nat /\ j % slots \in 0 .. slots - 1 /\ j = slots * (j \div slots) + (j % slots)
    BY Divides
  <2>3. QED
    BY <2>1, <2>2
<1>2. w < days
  <2> SUFFICES ASSUME ~ (w < days) PROVE FALSE
    OBVIOUS
  <2>1. PICK x \in Nat : w = days + x
    <3>1. w - days \in Nat
      OBVIOUS
    <3>2. QED
      BY <3>1
  <2>2. slots * w = days * slots + slots * x /\ slots * x \in Nat /\ days * slots \in Nat
    BY <2>1
  <2>3. QED
    BY <1>1, <2>2
<1>3. ASSUME NEW lo \in Nat
      PROVE  \E d \in Nat : lo <= d /\ d < lo + days /\ (d * slots + slot) % (days * slots) = i
  <2>1. PICK q \in Nat, r \in 0 .. days - 1 : lo = days * q + r
    BY Divides
  <2>2. ASSUME NEW k \in Nat PROVE ((days * k + w) * slots + slot) % (days * slots) = i
    <3>1. PICK total \in Nat \ {0} : total = days * slots
      OBVIOUS
    <3>2. (days * k + w) * slots + slot = k * total + i
      BY <1>1, <3>1
    <3>3. (k * total + i) % total = i
      BY <3>1, Remains
    <3>4. QED
      BY <3>1, <3>2, <3>3
  <2>3. CASE r <= w
    <3>1. days * q + w \in Nat /\ lo <= days * q + w /\ days * q + w < lo + days
      BY <1>2, <2>1, <2>3
    <3>2. QED
      BY <2>2, <3>1
  <2>4. CASE r > w
    <3>1. days * (q + 1) = days * q + days /\ days * q \in Nat
      OBVIOUS
    <3>2. days * (q + 1) + w \in Nat /\ lo <= days * (q + 1) + w /\ days * (q + 1) + w < lo + days
      BY <1>2, <2>1, <2>4, <3>1
    <3>3. PICK d \in Nat : d = days * (q + 1) + w
      BY <3>2
    <3>4. (d * slots + slot) % (days * slots) = i
      <4>1. q + 1 \in Nat
        OBVIOUS
      <4>2. QED
        BY <2>2, <3>3, <4>1
    <3>5. QED
      BY <3>2, <3>3, <3>4
  <2>5. QED
    BY <2>3, <2>4
<1>4. QED
  BY <1>3

(* Each pair of a tier is in the slice of some index.                         *)
LEMMA EveryPairHasSlice ==
  ASSUME NEW t \in Tiers, NEW p \in Worklist(TierIds(t), t)
  PROVE  \E i \in 0 .. TotalSlots(t) - 1 : \A slot, d \in Nat :
           SliceIndex(t, slot, d) = i => p \in Share(t, slot, d)
<1> DEFINE W == Worklist(TierIds(t), t)
           total == TotalSlots(t)
           size == Cardinality(W) \div total
<1>1. IsFiniteSet(W)
  <2>1. IsFiniteSet(TierIds(t)) /\ IsFiniteSet(TierMarkets[t])
    BY MtgStockAssumption, PlanAssumption, FS_Subset DEF TierIds
  <2>2. QED
    BY <2>1, FS_Product DEF Worklist
<1>2. WindowDays[t] \in Nat \ {0} /\ SlotsPerDay[t] \in Nat \ {0}
  BY PlanAssumption
<1>3. total \in Nat \ {0}
  <2>1. PICK a \in Nat \ {0}, b \in Nat \ {0} : a = WindowDays[t] /\ b = SlotsPerDay[t]
    BY <1>2
  <2>2. a * b \in Nat \ {0}
    OBVIOUS
  <2>3. QED
    BY <2>1, <2>2 DEF TotalSlots
<1>4. Place(p, W) \in Nat
  BY <1>1, FS_Subset, FS_CardinalityType DEF Place
<1> HIDE DEF total
<1>5. size \in Nat
  <2>1. Cardinality(W) \in Nat
    BY <1>1, FS_CardinalityType
  <2> HIDE DEF W
  <2>2. QED
    BY <1>3, <2>1, Divides
<1>6. PICK i \in 0 .. total - 1 : InSlice(Place(p, W), size, i, total)
  <2>1. PICK a \in Nat, s \in Nat : a = Place(p, W) /\ s = size
    BY <1>4, <1>5
  <2>2. \E i \in 0 .. total - 1 : InSlice(a, s, i, total)
    BY <1>3, EveryPlaceHasSlice
  <2>3. QED
    BY <2>1, <2>2
<1>7. ASSUME NEW slot \in Nat, NEW d \in Nat, SliceIndex(t, slot, d) = i
      PROVE  p \in Share(t, slot, d)
  BY <1>6, <1>7 DEF Share, Slice, total
<1>8. QED
  BY <1>6, <1>7 DEF total

LEMMA WindowHolds ==
  ASSUME QueueTypes, StoreTypes, WindowInv
  PROVE  WindowRefreshesAll
<1> SUFFICES ASSUME DayIsOver, Routine, NEW t \in Tiers, day >= WindowDays[t],
                    NEW p \in Worklist(TierIds(t), t)
             PROVE  file[p] > day - WindowDays[t]
  BY DEF WindowRefreshesAll
<1>1. OnTheWay /\ beat = 1 /\ queue = <<>>
  BY DEF WindowInv, DayIsOver
<1>2. PICK days \in Nat \ {0}, slots \in Nat \ {0} : days = WindowDays[t] /\ slots = SlotsPerDay[t]
  BY PlanAssumption
<1>3. PICK e \in Nat : e = day /\ e >= days
  BY <1>2 DEF QueueTypes
<1>4. PICK i \in 0 .. TotalSlots(t) - 1 : \A slot, d \in Nat :
        SliceIndex(t, slot, d) = i => p \in Share(t, slot, d)
  BY EveryPairHasSlice
<1>5. i \in 0 .. days * slots - 1 /\ \A slot, d \in Nat : SliceIndex(t, slot, d) = (d * slots + slot) % (days * slots)
  BY <1>2, <1>4 DEF TotalSlots, SliceIndex
<1>6. PICK slot \in 0 .. slots - 1 : \A lo \in Nat :
        \E d \in Nat : lo <= d /\ d < lo + days /\ (d * slots + slot) % (days * slots) = i
  BY <1>5, EverySliceHasDay
<1>7. slot \in Nat /\ slot \in Slots(t)
  BY <1>2 DEF Slots
<1>8. PICK k \in DOMAIN BeatPlan : BeatPlan[k] = Step("refresh", t, {slot})
  BY <1>7, PlanAssumption
<1>9. k # Midnight
  BY <1>8, MidnightIs DEF Step
<1>10. PICK n \in Nat \ {0} : k \in 1 .. n /\ Midnight \in 1 .. n
  BY MidnightIs, PlanIs
<1>11. PICK lo \in Nat : lo = IF k < Midnight THEN e - days ELSE e - days + 1
  <2>1. e - days \in Nat /\ e - days + 1 \in Nat
    BY <1>3
  <2>2. QED
    BY <2>1
<1>12. PICK d \in Nat : lo <= d /\ d < lo + days /\ (d * slots + slot) % (days * slots) = i
  BY <1>6
<1>13. Issued(k, d)
  <2>1. CASE k < Midnight
    <3>1. d < e
      BY <1>3, <1>11, <1>12, <2>1
    <3>2. QED
      BY <1>3, <2>1, <3>1 DEF Issued
  <2>2. CASE ~(k < Midnight)
    <3>1. d >= 1 /\ (d < e \/ d = e)
      BY <1>3, <1>11, <1>12, <2>2
    <3>2. beat <= Midnight
      BY <1>1, <1>10
    <3>3. QED
      BY <1>3, <2>2, <3>1, <3>2 DEF Issued
  <2>3. QED
    BY <2>1, <2>2
<1>14. p \in Share(t, slot, d)
  BY <1>4, <1>5, <1>7, <1>12
<1>15. file[p] > d
  BY <1>1, <1>7, <1>8, <1>13, <1>14, NothingIsLeft
<1>16. p \in Pairs
  BY <1>14, ShareIsPairs
<1>17. PICK f \in Int : f = file[p]
  BY <1>16, FilesAreNumbers
<1>18. f > e - days
  BY <1>3, <1>11, <1>12, <1>15, <1>17
<1>19. QED
  BY <1>2, <1>3, <1>17, <1>18

(* Unless work runs on into the next day, something fails or a tier changes,  *)
(* every pair of a tier is downloaded within the window of the tier: for any  *)
(* tiers, windows and slots, and any plan of a day that has an entry for each *)
(* slot, wherever in it the worker's date changes.                            *)
THEOREM WindowAlwaysRefreshesAll == Spec => []WindowRefreshesAll
<1> DEFINE Inv == KeptInv /\ StoreTypes /\ WindowInv
<1>1. Init => Inv
  BY InitKeeps, InitTypes, WindowStarts
<1>2. Inv /\ [Next]_vars => Inv'
  <2> SUFFICES ASSUME Inv, [Next]_vars PROVE Inv'
    OBVIOUS
  <2>1. QueueTypes /\ StoreTypes /\ WindowInv
    BY DEF KeptInv
  <2>2. KeptInv' /\ StoreTypes' /\ WindowInv'
    BY <2>1, NextKeeps, NextTypes, NextKeepsWindow
  <2>3. QED
    BY <2>2
<1>3. Inv => WindowRefreshesAll
  BY WindowHolds DEF KeptInv
<1>4. QED
  BY <1>1, <1>2, <1>3, PTL DEF Spec

-----------------------------------------------------------------------------
(* The nightly load.  It is sent when nothing else is in the queue, and the   *)
(* next day begins when it is done: so at the first entry of the plan the     *)
(* queue holds no more than a load, and at the others no part of one.         *)
LoadNames == {"load", "start", "bulk", "stage", "retry", "promote", "finish"}
Loads(todo) ==
  \A j \in DOMAIN todo :
    /\ todo[j].do \in LoadNames
    /\ todo[j].do = "load" => Len(todo) = 1
    /\ todo[j].do = "finish" => j = Len(todo)
    /\ todo[j].do = "bulk" =>
         j + 1 \in DOMAIN todo /\ todo[j + 1] = Step("stage", todo[j].n, {todo[j].n})
Alone ==
  IF beat = 1 THEN queue # <<>> => Len(queue) = 1 /\ Loads(queue[1].todo)
  ELSE \A s \in StepsOf(queue) : s.do \in {"refresh", "start", "fetch", "finish"}

(* A day is loaded once, after the worker's midnight and before the entries   *)
(* of the plan that come before it.                                           *)
LoadKey(d) == <<"load", 0, 0, d>>
LoadIsDue == \E s \in StepsOf(queue) : s.do = "load"
OncePerDay ==
  \A d \in Nat : LoadKey(d) \in active \cup KeysOf(queue) =>
    d < day \/ (d = day /\ beat <= Midnight /\ ~LoadIsDue)

(* What is asked of the queue was sent on the worker's date of today.         *)
EntryOf(t, slot) == CHOOSE k \in DOMAIN BeatPlan : BeatPlan[k] = Step("refresh", t, {slot})
IsTimely(s) ==
  /\ s.do = "refresh" =>
       \E k \in DOMAIN BeatPlan : BeatPlan[k] = s /\ (k > Midnight <=> beat > Midnight)
  /\ s.do = "fetch" => \E t \in Tiers : \E slot \in Slots(t) :
       /\ (EntryOf(t, slot) > Midnight <=> beat > Midnight)
       /\ \A i \in s.ids : <<i, s.n>> \in Share(t, slot, day)
InTime == \A s \in StepsOf(queue) : IsTimely(s)

(* The load of today will take the file of a pair.                            *)
FileRow(p) == [id |-> p[1], market |-> p[2], ver |-> file[p]]
Ahead(p) ==
  \/ beat > Midnight
  \/ \E s \in StepsOf(queue) : s.do = "load" \/ (s.do = "bulk" /\ s.n = p[2] /\ p[1] \in s.ids)
  \/ At("stage") /\ This.n = p[2] /\ FileRow(p) \in raw

(* A download that is not observed yet: it is of today, and the load ahead;   *)
(* or its slot comes before the midnight, and then the next load which takes  *)
(* the slot is still to come.                                                 *)
Unloaded(p) == tier[p[1]] # 0 /\ file[p] > 0 /\ ~Loaded(p, file[p])
FromSlot(p, slot) ==
  /\ p \in Share(tier[p[1]], slot, file[p] - 1) /\ file[p] <= day + 1
  /\ EntryOf(tier[p[1]], slot) > Midnight => file[p] = day + 1 /\ Ahead(p)
TakenNext(p) ==
  \A slot \in Slots(tier[p[1]]), d \in Nat :
    file[p] <= d /\ d <= day /\ p \in Share(tier[p[1]], slot, d) => d = day /\ Ahead(p)
ToBeLoaded(p) == (\E slot \in Slots(tier[p[1]]) : FromSlot(p, slot)) /\ TakenNext(p)

Mapped == \A i \in Ids : tier[i] # 0 => i \in info
LoadOrderly ==
  Alone /\ OncePerDay /\ InTime /\ Mapped /\ \A p \in Pairs : Unloaded(p) => ToBeLoaded(p)
LoadInv == odd = {} => LoadOrderly

LEMMA RestOf ==
  ASSUME NEW todo \in Chains, Len(todo) # 1
  PROVE  /\ Len(todo) \in Nat \ {0, 1} /\ DOMAIN todo = 1 .. Len(todo)
         /\ Len(Tail(todo)) = Len(todo) - 1
         /\ DOMAIN Tail(todo) = 1 .. Len(todo) - 1
         /\ \A j \in DOMAIN Tail(todo) : Tail(todo)[j] = todo[j + 1] /\ j + 1 \in DOMAIN todo
         /\ \A j \in DOMAIN todo : j # 1 => j - 1 \in DOMAIN Tail(todo) /\ Tail(todo)[j - 1] = todo[j]
<1> DEFINE t == Tail(todo)
<1>1. /\ todo \in Seq(Steps) /\ Len(todo) \in Nat \ {0, 1} /\ DOMAIN todo = 1 .. Len(todo)
      /\ todo # <<>>
  BY ChainFacts DEF Chains
<1>2. /\ t \in Seq(Steps) /\ Len(t) = Len(todo) - 1
      /\ \A i \in 1 .. Len(t) : t[i] = todo[i + 1]
  BY <1>1, HeadTailProperties
<1>3. DOMAIN t = 1 .. Len(t)
  BY <1>2
<1> HIDE DEF t
<1>4. \A j \in DOMAIN t : t[j] = todo[j + 1] /\ j + 1 \in DOMAIN todo
  BY <1>1, <1>2, <1>3
<1>5. ASSUME NEW j \in DOMAIN todo, j # 1 PROVE j - 1 \in DOMAIN t /\ t[j - 1] = todo[j]
  <2>1. j - 1 \in DOMAIN t /\ (j - 1) + 1 = j
    BY <1>1, <1>2, <1>3, <1>5
  <2>2. t[j - 1] = todo[(j - 1) + 1]
    BY <1>4, <2>1
  <2>3. QED
    BY <2>1, <2>2
<1>6. QED
  BY <1>1, <1>2, <1>3, <1>4, <1>5 DEF t

(* The queue gets no steps but those of the chain that is sent.               *)
LEMMA StepsSent ==
  ASSUME NEW q \in Seq(Messages), NEW m \in Messages
  PROVE  /\ StepsOf(Append(q, m)) \subseteq StepsOf(q) \cup {m.todo[j] : j \in DOMAIN m.todo}
         /\ KeysOf(Append(q, m)) \subseteq KeysOf(q) \cup {m.key}
<1> DEFINE a == Append(q, m)
<1>1. /\ DOMAIN a = 1 .. Len(q) + 1 /\ Len(q) \in Nat /\ DOMAIN q = 1 .. Len(q)
      /\ \A i \in 1 .. Len(q) : a[i] = q[i]
      /\ a[Len(q) + 1] = m
  BY Sent
<1> HIDE DEF a
<1>2. ASSUME NEW s \in StepsOf(a) PROVE s \in StepsOf(q) \cup {m.todo[j] : j \in DOMAIN m.todo}
  <2>1. PICK k \in DOMAIN a : s \in {a[k].todo[j] : j \in DOMAIN a[k].todo}
    BY DEF StepsOf
  <2>2. CASE k = Len(q) + 1
    BY <1>1, <2>1, <2>2
  <2>3. CASE k # Len(q) + 1
    <3>1. k \in DOMAIN q /\ a[k] = q[k]
      BY <1>1, <2>3
    <3>2. QED
      BY <2>1, <3>1 DEF StepsOf
  <2>4. QED
    BY <2>2, <2>3
<1>3. KeysOf(a) \subseteq KeysOf(q) \cup {m.key}
  BY <1>1 DEF KeysOf
<1>4. QED
  BY <1>2, <1>3 DEF a

LEMMA StepsPopped ==
  ASSUME NEW q \in Seq(Messages), q # <<>>
  PROVE  /\ StepsOf(Tail(q)) \subseteq StepsOf(q) /\ KeysOf(Tail(q)) \subseteq KeysOf(q)
         /\ \A j \in DOMAIN q[1].todo : q[1].todo[j] \in StepsOf(q)
         /\ q[1].key \in KeysOf(q)
<1> DEFINE t == Tail(q)
<1>1. /\ 1 \in DOMAIN q /\ \A k \in DOMAIN t : k + 1 \in DOMAIN q /\ t[k] = q[k + 1]
  BY Popped
<1> HIDE DEF t
<1>2. ASSUME NEW s \in StepsOf(t) PROVE s \in StepsOf(q)
  <2>1. PICK k \in DOMAIN t : s \in {t[k].todo[j] : j \in DOMAIN t[k].todo}
    BY DEF StepsOf
  <2>2. k + 1 \in DOMAIN q /\ s \in {q[k + 1].todo[j] : j \in DOMAIN q[k + 1].todo}
    BY <1>1, <2>1
  <2>3. QED
    BY <2>2 DEF StepsOf
<1>3. KeysOf(t) \subseteq KeysOf(q)
  BY <1>1 DEF KeysOf
<1>4. ASSUME NEW j \in DOMAIN q[1].todo PROVE q[1].todo[j] \in StepsOf(q)
  BY <1>1 DEF StepsOf
<1>5. q[1].key \in KeysOf(q)
  BY <1>1 DEF KeysOf
<1>6. QED
  BY <1>2, <1>3, <1>4, <1>5 DEF t

LEMMA NothingNew ==
  ASSUME QueueTypes, queue # <<>>, Continue \/ Ends
  PROVE  StepsOf(queue') \subseteq StepsOf(queue) /\ KeysOf(queue') \subseteq KeysOf(queue)
<1>1. /\ queue \in Seq(Messages) /\ Msg = queue[1] /\ Msg.todo \in Chains /\ Msg.key \in Keys
  BY HeadFacts DEF QueueTypes
<1>2. /\ StepsOf(Tail(queue)) \subseteq StepsOf(queue) /\ KeysOf(Tail(queue)) \subseteq KeysOf(queue)
      /\ \A j \in DOMAIN Msg.todo : Msg.todo[j] \in StepsOf(queue)
      /\ Msg.key \in KeysOf(queue) /\ Tail(queue) \in Seq(Messages)
  BY <1>1, StepsPopped, Popped
<1>3. CASE queue' = Tail(queue)
  BY <1>2, <1>3
<1>4. CASE queue' # Tail(queue)
  <2> DEFINE m == Message(Msg.key, Tail(Msg.todo))
  <2>1. Len(Msg.todo) # 1 /\ queue' = Append(Tail(queue), m)
    BY <1>4 DEF Continue, Ends
  <2>2. Tail(Msg.todo) \in Chains
    BY <1>1, <2>1, TailIsChain
  <2>3. m \in Messages /\ m.todo = Tail(Msg.todo) /\ m.key = Msg.key
    BY <1>1, <2>2 DEF Messages, Message
  <2> HIDE DEF m
  <2>4. /\ StepsOf(queue') \subseteq StepsOf(Tail(queue)) \cup {m.todo[j] : j \in DOMAIN m.todo}
        /\ KeysOf(queue') \subseteq KeysOf(Tail(queue)) \cup {m.key}
    BY <1>2, <2>1, <2>3, StepsSent
  <2>5. \A j \in DOMAIN m.todo : \E i \in DOMAIN Msg.todo : m.todo[j] = Msg.todo[i]
    BY <1>1, <2>1, <2>3, RestOf
  <2>6. QED
    BY <1>2, <2>3, <2>4, <2>5
<1>5. QED
  BY <1>3, <1>4

LEMMA NewOfChain ==
  ASSUME QueueTypes, queue # <<>>, NEW key \in Keys, NEW todo \in Chains, Dispatch(key, todo)
  PROVE  /\ StepsOf(queue') \subseteq StepsOf(queue) \cup {todo[j] : j \in DOMAIN todo}
         /\ KeysOf(queue') \subseteq KeysOf(queue) \cup {key}
<1>1. queue \in Seq(Messages) /\ Tail(queue) \in Seq(Messages)
  BY Popped DEF QueueTypes
<1>2. StepsOf(Tail(queue)) \subseteq StepsOf(queue) /\ KeysOf(Tail(queue)) \subseteq KeysOf(queue)
  BY <1>1, StepsPopped
<1>3. CASE key \in active
  BY <1>2, <1>3 DEF Dispatch
<1>4. CASE key \notin active
  <2> DEFINE m == Message(key, todo)
  <2>1. queue' = Append(Tail(queue), m)
    BY <1>4 DEF Dispatch
  <2>2. m \in Messages /\ m.todo = todo /\ m.key = key
    BY DEF Messages, Message
  <2> HIDE DEF m
  <2>3. /\ StepsOf(queue') \subseteq StepsOf(Tail(queue)) \cup {m.todo[j] : j \in DOMAIN m.todo}
        /\ KeysOf(queue') \subseteq KeysOf(Tail(queue)) \cup {m.key}
    BY <1>1, <2>1, <2>2, StepsSent
  <2>4. QED
    BY <1>2, <2>2, <2>3
<1>5. QED
  BY <1>3, <1>4

LEMMA RestLoads ==
  ASSUME NEW todo \in Chains, Len(todo) # 1, Loads(todo)
  PROVE  Loads(Tail(todo))
<1> DEFINE t == Tail(todo)
<1>1. /\ Len(todo) \in Nat \ {0, 1} /\ DOMAIN todo = 1 .. Len(todo)
      /\ Len(t) = Len(todo) - 1 /\ DOMAIN t = 1 .. Len(todo) - 1
      /\ \A j \in DOMAIN t : t[j] = todo[j + 1] /\ j + 1 \in DOMAIN todo
  BY RestOf
<1> HIDE DEF t
<1>2. ASSUME NEW j \in DOMAIN t
      PROVE  /\ t[j].do \in LoadNames
             /\ t[j].do # "load"
             /\ t[j].do = "finish" => j = Len(t)
             /\ t[j].do = "bulk" => j + 1 \in DOMAIN t /\ t[j + 1] = Step("stage", t[j].n, {t[j].n})
  <2>1. t[j] = todo[j + 1] /\ j + 1 \in DOMAIN todo
    BY <1>1
  <2>2. todo[j + 1].do \in LoadNames /\ todo[j + 1].do # "load"
    BY <2>1 DEF Loads
  <2>3. todo[j + 1].do = "finish" => j = Len(t)
    <3>1. todo[j + 1].do = "finish" => j + 1 = Len(todo)
      BY <2>1 DEF Loads
    <3>2. QED
      BY <1>1, <3>1
  <2>4. ASSUME todo[j + 1].do = "bulk"
        PROVE  j + 1 \in DOMAIN t /\ t[j + 1] = Step("stage", t[j].n, {t[j].n})
    <3>1. (j + 1) + 1 \in DOMAIN todo
          /\ todo[(j + 1) + 1] = Step("stage", todo[j + 1].n, {todo[j + 1].n})
      BY <2>1, <2>4 DEF Loads
    <3>2. j + 1 \in DOMAIN t
      BY <1>1, <3>1
    <3>3. t[j + 1] = todo[(j + 1) + 1]
      BY <1>1, <3>2
    <3>4. QED
      BY <2>1, <3>1, <3>2, <3>3
  <2>5. QED
    BY <2>1, <2>2, <2>3, <2>4
<1>3. QED
  BY <1>2 DEF Loads, t

(* The nightly load takes what is asked of each of its markets.               *)
LEMMA LoadTakes ==
  ASSUME NEW S \in [Markets -> SUBSET Ids], NEW ms \in Seq(Markets)
  PROVE  /\ Loads(LoadChain(S, ms))
         /\ \A j \in DOMAIN LoadChain(S, ms) : LoadChain(S, ms)[j].do # "load"
         /\ \A k \in DOMAIN ms : \E j \in DOMAIN LoadChain(S, ms) :
              LoadChain(S, ms)[j] = Step("bulk", ms[k], S[ms[k]])
<1> DEFINE one == <<Do("start")>>
           at(k) == ms[(k + 1) \div 2]
           link(k) == IF k % 2 = 1 THEN Step("bulk", at(k), S[at(k)])
                                   ELSE Step("stage", at(k), {at(k)})
           mid == [k \in 1 .. 2 * Len(ms) |-> link(k)]
           two == one \o mid
           c == two \o Ending
<1>1. PICK n \in Nat : n = Len(ms) /\ DOMAIN ms = 1 .. n /\ \A k \in 1 .. n : ms[k] \in Markets
  OBVIOUS
<1>2. \A k \in 1 .. 2 * n : k % 2 = 1 => k + 1 \in 1 .. 2 * n /\ (k + 1) % 2 # 1
                                         /\ ((k + 1) + 1) \div 2 = (k + 1) \div 2
  OBVIOUS
<1>3. \A k \in 1 .. n : 2 * k - 1 \in 1 .. 2 * n /\ (2 * k - 1) % 2 = 1 /\ ((2 * k - 1) + 1) \div 2 = k
  OBVIOUS
<1>4. \A k \in 1 .. 2 * n : (k + 1) \div 2 \in 1 .. n
  OBVIOUS
<1>5. \A k \in 1 .. 2 * n : at(k) \in Markets
  BY <1>1, <1>4
<1>6. \A k \in 1 .. 2 * n : k % 2 = 1 => at(k + 1) = at(k)
  BY <1>2
<1>7. \A k \in 1 .. n : at(2 * k - 1) = ms[k]
  BY <1>3
<1> HIDE DEF at
<1>8. ASSUME NEW k \in 1 .. 2 * n PROVE link(k) \in Steps
  <2>1. at(k) \in Nat /\ at(k) \in Markets /\ S[at(k)] \in SUBSET Nat
    BY <1>5, MtgStockAssumption
  <2>2. Step("bulk", at(k), S[at(k)]) \in Steps
    BY <2>1 DEF Step, Steps, Names
  <2>3. Step("stage", at(k), {at(k)}) \in Steps
    BY <2>1 DEF Step, Steps, Names
  <2>4. QED
    BY <2>2, <2>3
<1>9. \A k \in 1 .. 2 * n :
        IF k % 2 = 1 THEN /\ link(k) = Step("bulk", at(k), S[at(k)])
                          /\ link(k).do = "bulk" /\ link(k).n = at(k)
        ELSE link(k) = Step("stage", at(k), {at(k)}) /\ link(k).do = "stage"
  BY DEF Step
<1>10. \A k \in 1 .. 2 * n : link(k).do = "bulk" =>
         k % 2 = 1 /\ link(k + 1) = Step("stage", link(k).n, {link(k).n})
  BY <1>2, <1>6, <1>9
<1> HIDE DEF link
<1>11. mid \in [1 .. 2 * n -> Steps] /\ \A k \in 1 .. 2 * n : mid[k] = link(k)
  BY <1>1, <1>8
<1> HIDE DEF mid
<1>12. mid \in Seq(Steps) /\ Len(mid) = 2 * n /\ 2 * n \in Nat
  BY <1>1, <1>11, SeqDef
<1>13. /\ one \in Seq(Steps) /\ Len(one) = 1 /\ one[1].do = "start"
       /\ Ending \in Seq(Steps) /\ Len(Ending) = 3
       /\ Ending[1].do = "retry" /\ Ending[2].do = "promote" /\ Ending[3].do = "finish"
  BY DEF Do, Step, Steps, Names, Ending
<1> HIDE DEF one
<1>14. /\ two \in Seq(Steps) /\ Len(two) = 1 + 2 * n /\ two[1] = one[1]
       /\ \A i \in 1 .. 2 * n : two[i + 1] = mid[i]
  <2>1. /\ two \in Seq(Steps) /\ Len(two) = Len(one) + Len(mid)
        /\ \A i \in 1 .. Len(one) : two[i] = one[i]
        /\ \A i \in 1 .. Len(mid) : two[i + Len(one)] = mid[i]
    BY <1>12, <1>13, Joined
  <2> HIDE DEF two
  <2>2. QED
    BY <1>12, <1>13, <2>1
<1> HIDE DEF two
<1>15. /\ Len(c) = 4 + 2 * n /\ DOMAIN c = 1 .. 4 + 2 * n
       /\ \A i \in 1 .. 1 + 2 * n : c[i] = two[i]
       /\ \A i \in 1 .. 3 : c[i + (1 + 2 * n)] = Ending[i]
  <2>1. /\ c \in Seq(Steps) /\ Len(c) = Len(two) + Len(Ending)
        /\ DOMAIN c = 1 .. Len(two) + Len(Ending)
        /\ \A i \in 1 .. Len(two) : c[i] = two[i]
        /\ \A i \in 1 .. Len(Ending) : c[i + Len(two)] = Ending[i]
    BY <1>13, <1>14, Joined
  <2> HIDE DEF c
  <2>2. QED
    BY <1>13, <1>14, <2>1
<1> HIDE DEF c, Ending
<1>16. /\ c[1].do = "start"
       /\ \A i \in 1 .. 2 * n : c[i + 1] = link(i)
       /\ c[2 + 2 * n].do = "retry" /\ c[3 + 2 * n].do = "promote" /\ c[4 + 2 * n].do = "finish"
  <2>1. c[1] = one[1]
    <3>1. 1 \in 1 .. 1 + 2 * n
      OBVIOUS
    <3>2. QED
      BY <1>14, <1>15, <3>1
  <2>2. ASSUME NEW i \in 1 .. 2 * n PROVE c[i + 1] = link(i)
    <3>1. i + 1 \in 1 .. 1 + 2 * n
      OBVIOUS
    <3>2. QED
      BY <1>11, <1>14, <1>15, <3>1
  <2>3. c[1 + (1 + 2 * n)].do = "retry" /\ c[2 + (1 + 2 * n)].do = "promote" /\ c[3 + (1 + 2 * n)].do = "finish"
    BY <1>13, <1>15
  <2>4. 1 + (1 + 2 * n) = 2 + 2 * n /\ 2 + (1 + 2 * n) = 3 + 2 * n /\ 3 + (1 + 2 * n) = 4 + 2 * n
    OBVIOUS
  <2>5. QED
    BY <1>13, <2>1, <2>2, <2>3, <2>4
<1>17. ASSUME NEW j \in DOMAIN c
       PROVE  /\ c[j].do \in LoadNames /\ c[j].do # "load"
              /\ c[j].do = "finish" => j = Len(c)
              /\ c[j].do = "bulk" =>
                   j + 1 \in DOMAIN c /\ c[j + 1] = Step("stage", c[j].n, {c[j].n})
  <2>1. CASE j \in {1, 2 + 2 * n, 3 + 2 * n, 4 + 2 * n}
    BY <1>15, <1>16, <2>1 DEF LoadNames
  <2>2. CASE j \notin {1, 2 + 2 * n, 3 + 2 * n, 4 + 2 * n}
    <3>1. PICK i \in 1 .. 2 * n : i + 1 = j
      <4>1. j - 1 \in 1 .. 2 * n /\ (j - 1) + 1 = j
        BY <1>15, <2>2
      <4>2. QED
        BY <4>1
    <3>2. c[j] = link(i) /\ link(i).do \in {"bulk", "stage"}
      BY <1>9, <1>16, <3>1
    <3>3. ASSUME link(i).do = "bulk"
          PROVE  j + 1 \in DOMAIN c /\ c[j + 1] = Step("stage", c[j].n, {c[j].n})
      <4>1. i + 1 \in 1 .. 2 * n /\ link(i + 1) = Step("stage", link(i).n, {link(i).n})
        BY <1>2, <1>10, <3>3
      <4>2. c[(i + 1) + 1] = link(i + 1) /\ (i + 1) + 1 = j + 1 /\ j + 1 \in DOMAIN c
        BY <1>15, <1>16, <3>1, <4>1
      <4>3. QED
        BY <3>2, <4>1, <4>2
    <3>4. QED
      BY <3>2, <3>3 DEF LoadNames
  <2>3. QED
    BY <2>1, <2>2
<1>18. ASSUME NEW k \in 1 .. n PROVE \E j \in DOMAIN c : c[j] = Step("bulk", ms[k], S[ms[k]])
  <2>1. PICK i \in 1 .. 2 * n : i = 2 * k - 1 /\ i % 2 = 1 /\ at(i) = ms[k]
    BY <1>3, <1>7
  <2>2. link(i) = Step("bulk", ms[k], S[ms[k]])
    BY <1>9, <2>1
  <2>3. i + 1 \in DOMAIN c /\ c[i + 1] = link(i)
    BY <1>15, <1>16
  <2>4. QED
    BY <2>2, <2>3
<1>19. Loads(c)
  BY <1>17 DEF Loads
<1>20. QED
  BY <1>1, <1>17, <1>18, <1>19 DEF LoadChain, c, two, one, mid, link, at

(* A refresh asks for no more than its slice.                                 *)
LEMMA RefreshAsks ==
  ASSUME NEW S \in [Markets -> SUBSET Ids], NEW ms \in Seq(Markets)
  PROVE  \A j \in DOMAIN RefreshChain(S, ms) :
           LET s == RefreshChain(S, ms)[j]
           IN s.do \in {"start", "finish"} \/ \E m \in Markets : s = Step("fetch", m, S[m])
<1> DEFINE Asked1 == {s \in Steps : s.do \in {"start", "finish"}
                                    \/ \E m \in Markets : s = Step("fetch", m, S[m])}
           one == <<Do("start")>>
           mid == [k \in DOMAIN ms |-> Step("fetch", ms[k], S[ms[k]])]
           end == <<Do("finish")>>
           two == one \o mid
           c == two \o end
<1>1. Len(ms) \in Nat /\ DOMAIN ms = 1 .. Len(ms) /\ \A k \in 1 .. Len(ms) : ms[k] \in Markets
  OBVIOUS
<1>2. ASSUME NEW k \in 1 .. Len(ms) PROVE Step("fetch", ms[k], S[ms[k]]) \in Asked1
  <2>1. ms[k] \in Nat /\ S[ms[k]] \in SUBSET Nat
    BY <1>1, MtgStockAssumption
  <2>2. Step("fetch", ms[k], S[ms[k]]) \in Steps
    BY <2>1 DEF Step, Steps, Names
  <2>3. QED
    BY <1>1, <2>2
<1>3. one \in Seq(Asked1) /\ end \in Seq(Asked1)
  BY DEF Do, Step, Steps, Names
<1> HIDE DEF Asked1, one, end
<1>4. mid \in [1 .. Len(ms) -> Asked1]
  BY <1>1, <1>2
<1> HIDE DEF mid
<1>5. mid \in Seq(Asked1)
  BY <1>1, <1>4, SeqDef
<1>6. two \in Seq(Asked1)
  BY <1>3, <1>5, ConcatProperties
<1> HIDE DEF two
<1>7. c \in Seq(Asked1)
  BY <1>3, <1>6, ConcatProperties
<1> HIDE DEF c
<1>8. \A j \in DOMAIN c : c[j] \in Asked1
  BY <1>7
<1>9. QED
  BY <1>8 DEF RefreshChain, c, two, one, mid, end, Asked1

(* A pair of a tier is in one slice, and comes in the same slot on every day. *)
LEMMA OneSlice ==
  ASSUME NEW place \in Nat, NEW size \in Nat, NEW total \in Nat \ {0},
         NEW i \in 0 .. total - 1, NEW j \in 0 .. total - 1,
         InSlice(place, size, i, total), InSlice(place, size, j, total)
  PROVE  i = j
<1>1. ASSUME NEW a \in 0 .. total - 1, NEW b \in 0 .. total - 1,
             InSlice(place, size, a, total), InSlice(place, size, b, total), a < b
      PROVE  FALSE
  <2>1. a < total - 1 /\ a + 1 \in Nat
    BY <1>1
  <2>2. place < (a + 1) * size /\ b * size <= place
    BY <1>1, <2>1 DEF InSlice
  <2>3. PICK x \in Nat : b = (a + 1) + x
    <3>1. b - (a + 1) \in Nat /\ b = (a + 1) + (b - (a + 1))
      BY <1>1
    <3>2. QED
      BY <3>1
  <2>4. b * size = (a + 1) * size + x * size /\ x * size \in Nat /\ (a + 1) * size \in Nat
    BY <2>1, <2>3
  <2>5. QED
    BY <2>2, <2>4
<1>2. ~(i < j) /\ ~(j < i)
  BY <1>1
<1>3. QED
  BY <1>2

LEMMA OneRemainder ==
  ASSUME NEW slots \in Nat \ {0}, NEW r \in 0 .. slots - 1, NEW s \in 0 .. slots - 1,
         NEW a \in Int, NEW b \in Int, slots * a + r = slots * b + s
  PROVE  r = s
<1>1. ASSUME NEW c \in Int, NEW d \in Int, NEW u \in 0 .. slots - 1, NEW v \in 0 .. slots - 1,
             slots * c + u = slots * d + v, c < d
      PROVE  FALSE
  <2>1. PICK x \in Nat : d = c + 1 + x
    <3>1. d - c - 1 \in Nat /\ d = c + 1 + (d - c - 1)
      BY <1>1
    <3>2. QED
      BY <3>1
  <2>2. slots * d = slots * c + slots + slots * x /\ slots * x \in Nat /\ slots * c \in Int
    BY <2>1
  <2>3. QED
    BY <1>1, <2>2
<1>2. ~(a < b)
  BY <1>1
<1>3. ~(b < a)
  BY <1>1
<1>4. a = b
  BY <1>2, <1>3
<1>5. PICK z \in Int : z = slots * a
  OBVIOUS
<1>6. QED
  BY <1>4, <1>5

LEMMA OneSlot ==
  ASSUME NEW t \in Tiers, NEW r \in Slots(t), NEW s \in Slots(t), NEW d \in Nat, NEW e \in Nat,
         NEW p, p \in Share(t, r, d), p \in Share(t, s, e)
  PROVE  r = s
<1> DEFINE W == Worklist(TierIds(t), t)
           total == TotalSlots(t)
           size == Cardinality(W) \div total
<1>1. PICK days \in Nat \ {0}, slots \in Nat \ {0} : days = WindowDays[t] /\ slots = SlotsPerDay[t]
  BY PlanAssumption
<1>2. r \in 0 .. slots - 1 /\ s \in 0 .. slots - 1
  BY <1>1 DEF Slots
<1>3. total = days * slots /\ total \in Nat \ {0}
  <2>1. days * slots \in Nat \ {0}
    OBVIOUS
  <2>2. QED
    BY <1>1, <2>1 DEF TotalSlots
<1>4. IsFiniteSet(W)
  <2>1. IsFiniteSet(TierIds(t)) /\ IsFiniteSet(TierMarkets[t])
    BY MtgStockAssumption, PlanAssumption, FS_Subset DEF TierIds
  <2>2. QED
    BY <2>1, FS_Product DEF Worklist
<1>5. Place(p, W) \in Nat /\ Cardinality(W) \in Nat
  BY <1>4, FS_Subset, FS_CardinalityType DEF Place
<1>6. /\ InSlice(Place(p, W), size, SliceIndex(t, r, d), total)
      /\ InSlice(Place(p, W), size, SliceIndex(t, s, e), total)
  BY DEF Share, Slice
<1>7. SliceIndex(t, r, d) = (d * slots + r) % total /\ SliceIndex(t, s, e) = (e * slots + s) % total
  BY <1>1 DEF SliceIndex
<1> HIDE DEF W, total
<1>8. size \in Nat
  BY <1>3, <1>5, Divides
<1>9. PICK a \in Nat, b \in Nat : a = d * slots + r /\ b = e * slots + s
  BY <1>2
<1>10. /\ a \div total \in Nat /\ a % total \in 0 .. total - 1 /\ a = total * (a \div total) + (a % total)
       /\ b \div total \in Nat /\ b % total \in 0 .. total - 1 /\ b = total * (b \div total) + (b % total)
  BY <1>3, Divides
<1>11. a % total = b % total
  <2>1. PICK x \in Nat, y \in Nat : x = Place(p, W) /\ y = size
    BY <1>5, <1>8
  <2>2. InSlice(x, y, a % total, total) /\ InSlice(x, y, b % total, total)
    BY <1>6, <1>7, <1>9, <2>1
  <2>3. QED
    BY <1>3, <1>10, <2>2, OneSlice
<1>12. PICK u \in Nat, v \in Nat, w \in Nat :
         d * slots + r = total * u + w /\ e * slots + s = total * v + w
  BY <1>9, <1>10, <1>11
<1>13. slots * (d - days * u) + r = slots * (e - days * v) + s
  <2>1. total * u = slots * (days * u) /\ total * v = slots * (days * v)
    BY <1>3
  <2>2. PICK y \in Nat, z \in Nat : y = days * u /\ z = days * v
    OBVIOUS
  <2>3. d * slots = slots * d /\ e * slots = slots * e
    OBVIOUS
  <2>4. slots * (d - y) = slots * d - slots * y /\ slots * (e - z) = slots * e - slots * z
    OBVIOUS
  <2>5. slots * d \in Int /\ slots * e \in Int /\ slots * y \in Int /\ slots * z \in Int
    OBVIOUS
  <2>6. slots * d + r = slots * y + w /\ slots * e + s = slots * z + w
    BY <1>12, <2>1, <2>2, <2>3
  <2>7. slots * (d - y) + r = slots * (e - z) + s
    BY <1>2, <2>4, <2>5, <2>6
  <2>8. QED
    BY <2>2, <2>7
<1>14. d - days * u \in Int /\ e - days * v \in Int
  OBVIOUS
<1>15. QED
  BY <1>2, <1>13, <1>14, OneRemainder

LEMMA SlotsAreNumbers == \A t \in Tiers : \A slot \in Slots(t) : slot \in Nat
<1>1. \A t \in Tiers : SlotsPerDay[t] \in Nat \ {0}
  BY PlanAssumption
<1>2. QED
  BY <1>1 DEF Slots

(* Each slot has its entry, and a refresh is an entry of a slot.              *)
LEMMA EntryIs ==
  ASSUME NEW k \in DOMAIN BeatPlan, BeatPlan[k].do = "refresh"
  PROVE  \E t \in Tiers : \E slot \in Slots(t) :
           BeatPlan[k] = Step("refresh", t, {slot}) /\ EntryOf(t, slot) = k
<1>1. PICK t \in Tiers : \E slot \in Slots(t) : BeatPlan[k] = Step("refresh", t, {slot})
  BY LoadAssumption
<1> PICK slot \in Slots(t) : BeatPlan[k] = Step("refresh", t, {slot})
  BY <1>1
<1>2. EntryOf(t, slot) \in DOMAIN BeatPlan /\ BeatPlan[EntryOf(t, slot)] = Step("refresh", t, {slot})
  BY DEF EntryOf
<1>3. EntryOf(t, slot) = k
  BY <1>2, LoadAssumption
<1>4. QED
  BY <1>3

LEMMA HeadStep ==
  ASSUME NEW q \in Seq(Messages), q # <<>>
  PROVE  Head(q) = q[1] /\ Head(Head(q).todo) = q[1].todo[1] /\ q[1].todo[1] \in StepsOf(q)
<1>1. Head(q) = q[1] /\ q[1] \in Messages /\ 1 \in DOMAIN q
  BY Popped
<1>2. q[1].todo \in Chains
  BY <1>1 DEF Messages
<1>3. q[1].todo \in Seq(Steps) /\ q[1].todo # <<>> /\ 1 \in DOMAIN q[1].todo
  BY <1>2, ChainFacts DEF Chains
<1>4. Head(q[1].todo) = q[1].todo[1]
  BY <1>3
<1>5. QED
  BY <1>1, <1>3, <1>4, StepsPopped

LEMMA AloneStep ==
  ASSUME NEW q \in Seq(Messages), Len(q) = 1
  PROVE  /\ q # <<>> /\ Tail(q) = <<>> /\ DOMAIN q = {1}
         /\ StepsOf(q) = {q[1].todo[j] : j \in DOMAIN q[1].todo} /\ KeysOf(q) = {q[1].key}
<1>1. q # <<>> /\ DOMAIN q = {1}
  <2>1. DOMAIN q = 1 .. Len(q)
    OBVIOUS
  <2>2. q # <<>>
    BY EmptySeq
  <2>3. 1 .. 1 = {1}
    OBVIOUS
  <2>4. QED
    BY <2>1, <2>2, <2>3
<1>2. Tail(q) = <<>>
  <2>1. Tail(q) \in Seq(Messages) /\ Len(Tail(q)) = 0
    BY <1>1, HeadTailProperties
  <2>2. QED
    BY <2>1, EmptySeq
<1>3. StepsOf(q) = {q[1].todo[j] : j \in DOMAIN q[1].todo}
  BY <1>1 DEF StepsOf
<1>4. KeysOf(q) = {q[1].key}
  BY <1>1 DEF KeysOf
<1>5. QED
  BY <1>1, <1>2, <1>3, <1>4

LEMMA QueueOfOne ==
  ASSUME NEW m \in Messages
  PROVE  /\ Append(<<>>, m) \in Seq(Messages) /\ Len(Append(<<>>, m)) = 1
         /\ Append(<<>>, m)[1] = m /\ Append(<<>>, m) # <<>>
<1>1. <<>> \in Seq(Messages) /\ Len(<<>>) = 0
  OBVIOUS
<1>2. /\ Append(<<>>, m) \in Seq(Messages) /\ Len(Append(<<>>, m)) = 0 + 1
      /\ Append(<<>>, m)[0 + 1] = m
  BY <1>1, AppendProperties
<1>3. QED
  BY <1>2

(* On the way, nothing breaks the routine but the steps that say so.          *)
LEMMA PunctualSteps ==
  ASSUME Work \/ Move, odd' = {}
  PROVE  /\ odd = {} /\ tier' = tier /\ UNCHANGED <<day, beat>>
         /\ ~StepFails /\ ~FetchRaises /\ ~StageSkips /\ ~Fails
<1>1. Routine'
  BY DEF Routine
<1>2. /\ Routine /\ tier' = tier /\ UNCHANGED <<day, beat>>
      /\ ~StepFails /\ ~FetchRaises /\ ~StageSkips
  BY <1>1, RoutineSteps
<1>3. ~Fails
  BY DEF Fails
<1>4. CASE Move
  BY <1>2, <1>3, <1>4 DEF Move
<1>5. CASE Work
  <2>1. odd \subseteq odd'
    BY <1>2, <1>5 DEF Work, RunRefresh, RunLoad, RunTask, Start, Finish, Fetch, Probe, Download,
      BuildMapping, BulkLoad, Stage, Retry, Promote, Calm, Fails
  <2>2. QED
    BY <1>2, <1>3, <2>1
<1>6. QED
  BY <1>2, <1>3, <1>4, <1>5

(* A load works by itself; downloads are done while there is none.            *)
LEMMA WorkIs ==
  ASSUME QueueTypes, Alone, Work, odd' = {}
  PROVE  /\ queue # <<>>
         /\ beat # 1 => RunRefresh \/ Start \/ Fetch \/ Finish
         /\ beat = 1 => /\ Len(queue) = 1 /\ Loads(Msg.todo)
                        /\ RunLoad \/ Start \/ BulkLoad \/ Stage \/ Retry \/ Promote \/ Finish
<1>1. ~StepFails /\ ~FetchRaises /\ ~StageSkips
  BY PunctualSteps
<1>2. queue # <<>>
  BY <1>1 DEF Work, RunRefresh, RunLoad, RunTask, Start, Finish, Fetch, Probe, Download,
    BuildMapping, BulkLoad, Stage, Retry, Promote, At
<1>3. /\ queue \in Seq(Messages) /\ This = Msg.todo[1] /\ Msg = queue[1]
      /\ 1 \in DOMAIN Msg.todo /\ This \in StepsOf(queue)
  BY <1>2, HeadFacts, HeadStep, ChainFacts DEF QueueTypes
<1>4. /\ This.do \in {"refresh", "load", "full", "discover", "mapping", "start", "finish", "fetch",
                      "probe", "download", "map", "bulk", "stage", "retry", "promote"}
      /\ This.do = "refresh" => RunRefresh
      /\ This.do = "load" => RunLoad
      /\ This.do = "start" => Start
      /\ This.do = "finish" => Finish
      /\ This.do = "fetch" => Fetch
      /\ This.do = "bulk" => BulkLoad
      /\ This.do = "stage" => Stage
      /\ This.do = "retry" => Retry
      /\ This.do = "promote" => Promote
  BY <1>1, <1>2 DEF Work, RunRefresh, RunLoad, RunTask, Start, Finish, Fetch, Probe, Download,
    BuildMapping, BulkLoad, Stage, Retry, Promote, At
<1>5. CASE beat # 1
  <2>1. This.do \in {"refresh", "start", "fetch", "finish"}
    BY <1>3, <1>5 DEF Alone
  <2>2. QED
    BY <1>2, <1>4, <1>5, <2>1
<1>6. CASE beat = 1
  <2>1. Len(queue) = 1 /\ Loads(Msg.todo)
    BY <1>2, <1>3, <1>6 DEF Alone
  <2>2. This.do \in LoadNames
    BY <1>3, <2>1 DEF Loads
  <2>3. QED
    BY <1>2, <1>4, <1>6, <2>1, <2>2 DEF LoadNames
<1>7. QED
  BY <1>2, <1>5, <1>6

(* By day: what is sent is of the slots of this part of the local day, and a  *)
(* new file is of the share of such a slot.                                   *)
ByDay == {"refresh", "start", "fetch", "finish"}

LEMMA TierOfShare ==
  ASSUME NEW t \in Tiers, NEW slot, NEW d, NEW p \in Share(t, slot, d)
  PROVE  tier[p[1]] = t /\ p[2] \in TierMarkets[t]
BY DEF Share, Slice, Worklist, TierIds

LEMMA NotAhead ==
  ASSUME QueueTypes, NEW p, \A s \in StepsOf(queue) : s.do \in ByDay
  PROVE  Ahead(p) <=> beat > Midnight
<1>1. ~At("stage")
  <2> SUFFICES ASSUME queue # <<>>, This.do = "stage" PROVE FALSE
    BY DEF At
  <2>1. This \in StepsOf(queue)
    BY HeadFacts, HeadStep DEF QueueTypes
  <2>2. QED
    BY <2>1 DEF ByDay
<1>2. QED
  BY <1>1 DEF Ahead, ByDay

LEMMA StaysAhead ==
  ASSUME NEW p, beat' > Midnight <=> beat > Midnight, Ahead(p) <=> beat > Midnight
  PROVE  Ahead(p) => Ahead(p)'
BY DEF Ahead, Midnight

LEMMA TimelyStays ==
  ASSUME tier' = tier, day' = day, day \in Nat, beat' > Midnight <=> beat > Midnight, NEW s
  PROVE  IsTimely(s) => IsTimely(s)'
<1>1. \A t \in Tiers, slot, d \in Nat : Share(t, slot, d)' = Share(t, slot, d)
  BY SharesStay
<1>2. \A t \in Tiers : \A slot \in Slots(t) : slot \in Nat
  BY SlotsAreNumbers
<1>3. \A t \in Tiers : \A slot \in Slots(t) : Share(t, slot, day)' = Share(t, slot, day)
  BY <1>1, <1>2
<1>4. \A t, slot : EntryOf(t, slot)' = EntryOf(t, slot)
  BY DEF EntryOf
<1>5. QED
  BY <1>3 DEF IsTimely, Midnight, EntryOf, Slots

LEMMA DayGoesOn ==
  ASSUME QueueTypes, QueueTypes', StoreTypes, LoadOrderly, UNCHANGED <<day, tier, obs, info>>,
         beat' # 1, beat' > Midnight <=> beat > Midnight,
         \A s \in StepsOf(queue) : s.do \in ByDay,
         \A s \in StepsOf(queue') : s \in StepsOf(queue) \/ (s.do \in ByDay /\ IsTimely(s)),
         active' \subseteq active \cup KeysOf(queue),
         \A d \in Nat : LoadKey(d) \in KeysOf(queue') => LoadKey(d) \in KeysOf(queue),
         \A p \in Pairs :
           \/ file'[p] = file[p]
           \/ /\ file'[p] = day + 1
              /\ \E t \in Tiers : \E slot \in Slots(t) :
                   p \in Share(t, slot, day) /\ (EntryOf(t, slot) > Midnight <=> beat > Midnight)
  PROVE  LoadOrderly'
<1>1. Alone' /\ \A s \in StepsOf(queue') : s.do # "load"
  BY DEF Alone, ByDay, StepsOf
<1>2. day \in Nat /\ beat \in Nat /\ beat' \in Nat /\ Midnight \in Nat
  BY PlanIs, MidnightIs DEF QueueTypes
<1>3. OncePerDay'
  <2> SUFFICES ASSUME NEW d \in Nat, LoadKey(d) \in active' \cup KeysOf(queue')
               PROVE  d < day' \/ (d = day' /\ beat' <= Midnight /\ ~LoadIsDue')
    BY DEF OncePerDay, LoadKey, KeysOf, Midnight, LoadIsDue, StepsOf
  <2>1. d < day \/ (d = day /\ beat <= Midnight)
    BY DEF LoadOrderly, OncePerDay
  <2>2. ~LoadIsDue'
    BY <1>1 DEF LoadIsDue, StepsOf
  <2>3. beat <= Midnight => beat' <= Midnight
    BY <1>2
  <2>4. QED
    BY <2>1, <2>2, <2>3
<1>4. InTime'
  <2> SUFFICES ASSUME NEW s \in StepsOf(queue') PROVE IsTimely(s)'
    BY DEF InTime, StepsOf
  <2>1. IsTimely(s)
    BY DEF LoadOrderly, InTime
  <2>2. QED
    BY <1>2, <2>1, TimelyStays
<1>5. Mapped'
  BY DEF LoadOrderly, Mapped
<1>6. \A t \in Tiers, slot, d \in Nat : Share(t, slot, d)' = Share(t, slot, d)
  BY SharesStay
<1>7. \A t \in Tiers : \A slot \in Slots(t) : slot \in Nat
  BY SlotsAreNumbers
<1>8. ASSUME NEW p \in Pairs PROVE Ahead(p) => Ahead(p)'
  BY NotAhead, StaysAhead
<1>9. ASSUME NEW p \in Pairs, Unloaded(p)' PROVE ToBeLoaded(p)'
  <2>1. tier[p[1]] \in Tiers /\ tier'[p[1]] = tier[p[1]] /\ file'[p] > 0
    <3>1. p[1] \in Ids /\ tier[p[1]] # 0
      BY <1>9 DEF Pairs, Unloaded
    <3>2. QED
      BY <1>9, <3>1 DEF StoreTypes, Unloaded
  <2>2. PICK t \in Tiers : t = tier[p[1]]
    BY <2>1
  <2>3. PICK f \in Int : f = file[p]
    BY FilesAreNumbers
  <2>4. CASE file'[p] = file[p]
    <3>1. Unloaded(p)
      BY <1>9, <2>4 DEF Unloaded, Loaded
    <3>2. ToBeLoaded(p)
      BY <3>1 DEF LoadOrderly
    <3>3. PICK slot \in Slots(t) : FromSlot(p, slot)
      BY <2>2, <3>2 DEF ToBeLoaded
    <3>4. f - 1 \in Nat /\ slot \in Nat
      BY <1>7, <2>1, <2>3, <2>4
    <3>5. FromSlot(p, slot)'
      <4>1. /\ p \in Share(t, slot, f - 1) /\ f <= day + 1
            /\ EntryOf(t, slot) > Midnight => f = day + 1 /\ Ahead(p)
        BY <2>2, <2>3, <3>3 DEF FromSlot
      <4>2. p \in Share(t, slot, f - 1)'
        BY <1>6, <3>4, <4>1
      <4>3. p \in Share(tier[p[1]], slot, file[p] - 1)'
        BY <2>1, <2>2, <2>3, <2>4, <4>2
      <4>4. QED
        BY <1>8, <2>1, <2>2, <2>3, <2>4, <4>1, <4>3 DEF FromSlot, EntryOf, Midnight
    <3>6. TakenNext(p)'
      <4> SUFFICES ASSUME NEW s \in Slots(tier[p[1]])', NEW d \in Nat,
                          file'[p] <= d, d <= day', p \in Share(tier[p[1]], s, d)'
                   PROVE  d = day' /\ Ahead(p)'
        BY DEF TakenNext
      <4>1. s \in Slots(t) /\ s \in Nat
        BY <1>7, <2>1, <2>2 DEF Slots
      <4>2. p \in Share(t, s, d)'
        BY <2>1, <2>2
      <4>3. p \in Share(t, s, d)
        BY <1>6, <4>1, <4>2
      <4>4. d = day /\ Ahead(p)
        BY <2>2, <2>4, <3>2, <4>1, <4>3 DEF ToBeLoaded, TakenNext
      <4>5. QED
        BY <1>8, <4>4
    <3>7. QED
      BY <2>1, <2>2, <3>5, <3>6 DEF ToBeLoaded, Slots
  <2>5. CASE file'[p] # file[p]
    <3>1. file'[p] = day + 1
      BY <2>5
    <3>2. PICK u \in Tiers : \E slot \in Slots(u) :
            p \in Share(u, slot, day) /\ (EntryOf(u, slot) > Midnight <=> beat > Midnight)
      BY <2>5
    <3>3. PICK slot \in Slots(u) :
            p \in Share(u, slot, day) /\ (EntryOf(u, slot) > Midnight <=> beat > Midnight)
      BY <3>2
    <3>4. u = t
      BY <2>2, <3>3, TierOfShare
    <3>5. p \in Share(t, slot, day)'
      BY <1>2, <1>6, <1>7, <3>3, <3>4
    <3>6. EntryOf(t, slot) > Midnight => Ahead(p)'
      <4>1. beat > Midnight => Ahead(p)
        BY DEF Ahead
      <4>2. QED
        BY <1>8, <3>3, <3>4, <4>1
    <3>7. FromSlot(p, slot)'
      <4>1. (day + 1) - 1 = day /\ day + 1 <= day + 1
        BY <1>2
      <4>2. p \in Share(tier[p[1]], slot, file[p] - 1)'
        <5>1. file'[p] - 1 = day'
          BY <3>1, <4>1
        <5>2. p \in Share(tier[p[1]], slot, day)'
          BY <2>1, <2>2, <3>5
        <5>3. QED
          BY <5>1, <5>2
      <4>3. QED
        BY <2>1, <2>2, <3>1, <3>6, <4>1, <4>2 DEF FromSlot, EntryOf, Midnight
    <3>8. TakenNext(p)'
      <4>1. \A d \in Nat : ~(day + 1 <= d /\ d <= day)
        BY <1>2
      <4>2. \A d \in Nat : ~(file'[p] <= d /\ d <= day')
        BY <3>1, <4>1
      <4>3. QED
        BY <4>2 DEF TakenNext
    <3>9. QED
      BY <2>1, <2>2, <3>4, <3>7, <3>8 DEF ToBeLoaded, Slots
  <2>6. QED
    BY <2>4, <2>5
<1>10. QED
  BY <1>1, <1>3, <1>4, <1>5, <1>9 DEF LoadOrderly, Pairs

(* The steps of the day: a refresh asks for its slice, a fetch writes it.     *)
LEMMA RefreshIsTimely ==
  ASSUME QueueTypes, StoreTypes, LoadOrderly, RunRefresh
  PROVE  \E key \in Keys, todo \in Chains :
           /\ Dispatch(key, todo) /\ \A d : key # LoadKey(d)
           /\ \A j \in DOMAIN todo : todo[j].do \in ByDay /\ IsTimely(todo[j])
<1>1. queue # <<>> /\ This.do = "refresh" /\ day \in Nat
  BY DEF RunRefresh, At, QueueTypes
<1>2. This \in StepsOf(queue) /\ This \in Steps
  BY <1>1, HeadFacts, HeadStep DEF QueueTypes
<1>3. PICK k \in DOMAIN BeatPlan : BeatPlan[k] = This /\ (k > Midnight <=> beat > Midnight)
  BY <1>1, <1>2 DEF LoadOrderly, InTime, IsTimely
<1>4. PICK t \in Tiers : \E slot \in Slots(t) :
        BeatPlan[k] = Step("refresh", t, {slot}) /\ EntryOf(t, slot) = k
  BY <1>1, <1>3, EntryIs
<1>5. PICK slot \in Slots(t) : BeatPlan[k] = Step("refresh", t, {slot}) /\ EntryOf(t, slot) = k
  BY <1>4
<1>6. This.n = t /\ This.ids = {slot}
  BY <1>3, <1>5 DEF Step
<1>7. slot \in Nat /\ t \in Nat
  BY <1>2, <1>6 DEF Steps
<1> DEFINE slice == Share(t, slot, day)
           S0 == [m \in Markets |-> {i \in Ids : <<i, m>> \in slice}]
<1>8. PICK ms \in InOrder(Asked(S0)) : Dispatch(Key("tier", t, slot), RefreshChain(S0, ms))
  <2> DEFINE slot0 == CHOOSE s \in This.ids : TRUE
             slice0 == Slice(TierIds(This.n), This.n, slot0, day)
             S1 == [m \in Markets |-> {i \in Ids : <<i, m>> \in slice0}]
  <2>1. \E ms \in InOrder(Asked(S1)) : Dispatch(Key("tier", This.n, slot0), RefreshChain(S1, ms))
    BY DEF RunRefresh
  <2>2. slot0 = slot
    BY <1>6
  <2> HIDE DEF slot0
  <2>3. slice0 = slice
    BY <1>6, <2>2 DEF Share
  <2> HIDE DEF slice0, slice
  <2>4. S1 = S0
    BY <2>3
  <2>5. QED
    BY <1>6, <2>1, <2>2, <2>4
<1>9. PICK S : S = S0
  OBVIOUS
<1>10. S \in [Markets -> SUBSET Ids] /\ \A m \in Markets : \A i \in S[m] : <<i, m>> \in slice
  BY <1>9
<1>11. ms \in InOrder(Asked(S)) /\ Dispatch(Key("tier", t, slot), RefreshChain(S, ms))
  BY <1>8, <1>9
<1> HIDE DEF S0, slice
<1>12. Asked(S) \in SUBSET Markets
  BY DEF Asked
<1>13. ms \in Seq(Markets)
  BY <1>11, <1>12, OrderedMarkets
<1>14. RefreshChain(S, ms) \in Chains
  BY <1>10, <1>13, RefreshIsChain
<1>15. /\ Key("tier", t, slot) \in Keys
       /\ \A d : Key("tier", t, slot) # LoadKey(d)
  BY <1>1, <1>7 DEF Key, Keys, LoadKey
<1>16. ASSUME NEW j \in DOMAIN RefreshChain(S, ms)
       PROVE  RefreshChain(S, ms)[j].do \in ByDay /\ IsTimely(RefreshChain(S, ms)[j])
  <2>1. PICK s : s = RefreshChain(S, ms)[j]
    OBVIOUS
  <2>2. s.do \in {"start", "finish"} \/ \E m \in Markets : s = Step("fetch", m, S[m])
    BY <1>10, <1>13, <2>1, RefreshAsks
  <2>3. CASE s.do \in {"start", "finish"}
    BY <2>1, <2>3 DEF IsTimely, ByDay
  <2>4. ASSUME NEW m \in Markets, s = Step("fetch", m, S[m])
        PROVE  s.do \in ByDay /\ IsTimely(s)
    <3>1. s.do = "fetch" /\ s.n = m /\ s.ids = S[m]
      BY <2>4 DEF Step
    <3>2. \A i \in s.ids : <<i, s.n>> \in Share(t, slot, day)
      BY <1>10, <3>1 DEF slice
    <3>3. EntryOf(t, slot) > Midnight <=> beat > Midnight
      BY <1>3, <1>5
    <3>4. QED
      BY <3>1, <3>2, <3>3 DEF IsTimely, ByDay
  <2>5. QED
    BY <2>1, <2>2, <2>3, <2>4
<1>17. QED
  BY <1>11, <1>14, <1>15, <1>16

LEMMA DayWork ==
  ASSUME QueueTypes, QueueTypes', StoreTypes, LoadOrderly, beat # 1, Work, odd' = {}
  PROVE  LoadOrderly'
<1>1. /\ queue # <<>> /\ UNCHANGED <<day, beat, tier>> /\ ~Fails
      /\ RunRefresh \/ Start \/ Fetch \/ Finish
  BY PunctualSteps, WorkIs DEF LoadOrderly
<1>2. /\ \A s \in StepsOf(queue) : s.do \in ByDay
      /\ beat' # 1 /\ (beat' > Midnight <=> beat > Midnight)
  BY <1>1 DEF LoadOrderly, Alone, ByDay
<1>3. CASE RunRefresh
  <2>1. PICK key \in Keys, todo \in Chains :
          /\ Dispatch(key, todo) /\ \A d : key # LoadKey(d)
          /\ \A j \in DOMAIN todo : todo[j].do \in ByDay /\ IsTimely(todo[j])
    BY <1>3, RefreshIsTimely
  <2>2. /\ StepsOf(queue') \subseteq StepsOf(queue) \cup {todo[j] : j \in DOMAIN todo}
        /\ KeysOf(queue') \subseteq KeysOf(queue) \cup {key}
    BY <1>1, <2>1, NewOfChain
  <2>3. UNCHANGED <<tier, obs, info, active, file>>
    BY <1>3 DEF RunRefresh, disk, database
  <2>4. \A s \in StepsOf(queue') : s \in StepsOf(queue) \/ (s.do \in ByDay /\ IsTimely(s))
    BY <2>1, <2>2
  <2>5. \A d \in Nat : LoadKey(d) \in KeysOf(queue') => LoadKey(d) \in KeysOf(queue)
    BY <2>1, <2>2
  <2>6. QED
    BY <1>1, <1>2, <2>3, <2>4, <2>5, DayGoesOn
<1>4. CASE Start \/ Finish
  <2>1. /\ Continue \/ Ends
        /\ UNCHANGED <<tier, obs, info, file>> /\ active' \subseteq active \cup {Msg.key}
    BY <1>4 DEF Start, Finish, disk, database
  <2>2. StepsOf(queue') \subseteq StepsOf(queue) /\ KeysOf(queue') \subseteq KeysOf(queue)
    BY <1>1, <2>1, NothingNew
  <2>3. Msg.key \in KeysOf(queue)
    BY <1>1, HeadFacts DEF KeysOf
  <2>4. QED
    BY <1>1, <1>2, <2>1, <2>2, <2>3, DayGoesOn
<1>5. CASE Fetch
  <2>1. /\ Continue /\ This.do = "fetch" /\ Write(This.ids, This.n)
        /\ UNCHANGED <<tier, obs, info, active>>
    BY <1>1, <1>5 DEF Fetch, At, database
  <2>2. StepsOf(queue') \subseteq StepsOf(queue) /\ KeysOf(queue') \subseteq KeysOf(queue)
    BY <1>1, <2>1, NothingNew
  <2>3. IsTimely(This)
    BY <1>1, HeadFacts, HeadStep DEF LoadOrderly, InTime, QueueTypes
  <2>4. PICK t \in Tiers : \E slot \in Slots(t) :
          /\ (EntryOf(t, slot) > Midnight <=> beat > Midnight)
          /\ \A i \in This.ids : <<i, This.n>> \in Share(t, slot, day)
    BY <2>1, <2>3 DEF IsTimely
  <2>5. ASSUME NEW p \in Pairs, file'[p] # file[p]
        PROVE  /\ file'[p] = day + 1
               /\ \E u \in Tiers : \E slot \in Slots(u) :
                    p \in Share(u, slot, day) /\ (EntryOf(u, slot) > Midnight <=> beat > Midnight)
    <3>1. file'[p] = day + 1 /\ p[2] = This.n /\ p[1] \in This.ids /\ p = <<p[1], p[2]>>
      BY <2>1, <2>5 DEF Write, Pairs
    <3>2. QED
      BY <2>4, <3>1
  <2>6. QED
    BY <1>1, <1>2, <2>1, <2>2, <2>5, DayGoesOn
<1>6. QED
  BY <1>1, <1>3, <1>4, <1>5

(* The load goes on: what was ahead of it is observed, or still ahead.        *)
LEMMA LoadsOnly ==
  ASSUME NEW q \in Seq(Messages), q # <<>> => Len(q) = 1 /\ Loads(q[1].todo)
  PROVE  \A s \in StepsOf(q) : s.do \in LoadNames
<1>1. CASE q = <<>>
  BY <1>1, Restful
<1>2. CASE q # <<>>
  <2>1. StepsOf(q) = {q[1].todo[j] : j \in DOMAIN q[1].todo}
    BY <1>2, AloneStep
  <2>2. QED
    BY <1>2, <2>1 DEF Loads
<1>3. QED
  BY <1>1, <1>2

LEMMA LoadGoesOn ==
  ASSUME QueueTypes, QueueTypes', StoreTypes, LoadOrderly, beat = 1,
         UNCHANGED <<day, beat, tier, info, file>>, obs \subseteq obs',
         active' \subseteq active \cup KeysOf(queue), Alone', ~LoadIsDue',
         \A d \in Nat : LoadKey(d) \in KeysOf(queue') => LoadKey(d) \in KeysOf(queue) \/ d = day,
         \A p \in Pairs : \A slot \in Slots(tier[p[1]]) :
           Unloaded(p)' /\ p \in Share(tier[p[1]], slot, day) /\ Ahead(p) => Ahead(p)'
  PROVE  LoadOrderly'
<1>1. day \in Nat /\ beat <= Midnight
  BY PlanIs, MidnightIs DEF QueueTypes
<1>2. OncePerDay'
  <2> SUFFICES ASSUME NEW d \in Nat, LoadKey(d) \in active' \cup KeysOf(queue')
               PROVE  d < day' \/ (d = day' /\ beat' <= Midnight /\ ~LoadIsDue')
    BY DEF OncePerDay, LoadKey, KeysOf, Midnight, LoadIsDue, StepsOf
  <2>1. d < day \/ d = day
    BY DEF LoadOrderly, OncePerDay
  <2>2. QED
    BY <1>1, <2>1
<1>3. InTime'
  <2> SUFFICES ASSUME NEW s \in StepsOf(queue') PROVE IsTimely(s)'
    BY DEF InTime, StepsOf
  <2>1. queue' # <<>> => Len(queue') = 1 /\ Loads(queue'[1].todo)
    BY DEF Alone, Loads
  <2>2. s.do \in LoadNames
    BY <2>1, LoadsOnly DEF QueueTypes
  <2>3. QED
    BY <2>2 DEF LoadNames, IsTimely
<1>4. Mapped'
  BY DEF LoadOrderly, Mapped
<1>5. \A t \in Tiers, slot, d \in Nat : Share(t, slot, d)' = Share(t, slot, d)
  BY SharesStay
<1>6. \A t \in Tiers : \A slot \in Slots(t) : slot \in Nat
  BY SlotsAreNumbers
<1>7. ASSUME NEW p \in Pairs, Unloaded(p)' PROVE ToBeLoaded(p)'
  <2>1. tier[p[1]] \in Tiers /\ file[p] > 0
    <3>1. p[1] \in Ids /\ tier[p[1]] # 0
      BY <1>7 DEF Pairs, Unloaded
    <3>2. QED
      BY <1>7, <3>1 DEF StoreTypes, Unloaded
  <2>2. PICK t \in Tiers : t = tier[p[1]]
    BY <2>1
  <2>3. PICK f \in Int : f = file[p]
    BY FilesAreNumbers
  <2>4. Unloaded(p)
    BY <1>7 DEF Unloaded, Loaded
  <2>5. ToBeLoaded(p)
    BY <2>4 DEF LoadOrderly
  <2>6. PICK slot \in Slots(t) : FromSlot(p, slot)
    BY <2>2, <2>5 DEF ToBeLoaded
  <2>7. f - 1 \in Nat /\ slot \in Nat
    BY <1>6, <2>1, <2>3
  <2>8. /\ p \in Share(t, slot, f - 1) /\ f <= day + 1
        /\ EntryOf(t, slot) > Midnight => f = day + 1 /\ Ahead(p)
    BY <2>2, <2>3, <2>6 DEF FromSlot
  <2>9. EntryOf(t, slot) > Midnight => f = day + 1 /\ Ahead(p)'
    <3> SUFFICES ASSUME EntryOf(t, slot) > Midnight PROVE f = day + 1 /\ Ahead(p)'
      OBVIOUS
    <3>1. f = day + 1 /\ Ahead(p)
      BY <2>8
    <3>2. f - 1 = day
      BY <1>1, <3>1
    <3>3. p \in Share(tier[p[1]], slot, day)
      BY <2>2, <2>8, <3>2
    <3>4. QED
      BY <1>7, <2>2, <3>1, <3>3
  <2>10. FromSlot(p, slot)'
    <3>1. p \in Share(t, slot, f - 1)'
      BY <1>5, <2>7, <2>8
    <3>2. p \in Share(tier[p[1]], slot, file[p] - 1)'
      BY <2>2, <2>3, <3>1
    <3>3. QED
      BY <2>2, <2>3, <2>8, <2>9, <3>2 DEF FromSlot, EntryOf, Midnight
  <2>11. TakenNext(p)'
    <3> SUFFICES ASSUME NEW s \in Slots(tier[p[1]])', NEW d \in Nat,
                        file'[p] <= d, d <= day', p \in Share(tier[p[1]], s, d)'
                 PROVE  d = day' /\ Ahead(p)'
      BY DEF TakenNext
    <3>1. s \in Slots(t) /\ s \in Nat
      BY <1>6, <2>2 DEF Slots
    <3>2. p \in Share(t, s, d)'
      BY <2>2
    <3>3. p \in Share(t, s, d)
      BY <1>5, <3>1, <3>2
    <3>4. d = day /\ Ahead(p)
      BY <2>2, <2>5, <3>1, <3>3 DEF ToBeLoaded, TakenNext
    <3>5. QED
      BY <1>7, <2>2, <3>1, <3>3, <3>4
  <2>12. QED
    BY <2>2, <2>10, <2>11 DEF ToBeLoaded, Slots
<1>8. QED
  BY <1>2, <1>3, <1>4, <1>7 DEF LoadOrderly, Pairs

(* The load's message goes on with the rest of its chain.                     *)
LEMMA LoadContinues ==
  ASSUME QueueTypes, QueueTypes', queue # <<>>, Len(queue) = 1, Loads(Msg.todo), Continue,
         beat = 1, beat' = beat, This.do # "load"
  PROVE  /\ Alone' /\ ~LoadIsDue' /\ ~LoadIsDue /\ KeysOf(queue') \subseteq KeysOf(queue)
         /\ \A s \in StepsOf(queue) : s = This \/ s \in StepsOf(queue')
         /\ This.do = "bulk" => At("stage")' /\ This' = Step("stage", This.n, {This.n})
<1>1. /\ queue \in Seq(Messages) /\ Msg = queue[1] /\ Msg.todo \in Chains /\ Msg.key \in Keys
      /\ This = Msg.todo[1] /\ 1 \in DOMAIN Msg.todo /\ DOMAIN Msg.todo = 1 .. Len(Msg.todo)
      /\ Len(Msg.todo) \in Nat \ {0}
  BY HeadFacts, ChainFacts DEF QueueTypes
<1>2. /\ Tail(queue) = <<>> /\ KeysOf(queue) = {Msg.key}
      /\ StepsOf(queue) = {Msg.todo[j] : j \in DOMAIN Msg.todo}
  BY <1>1, AloneStep
<1>3. ASSUME NEW j \in DOMAIN Msg.todo PROVE Msg.todo[j].do # "load"
  <2> SUFFICES ASSUME Msg.todo[j].do = "load" PROVE FALSE
    OBVIOUS
  <2>1. Len(Msg.todo) = 1
    BY DEF Loads
  <2>2. j = 1
    BY <1>1, <2>1
  <2>3. QED
    BY <1>1, <2>2
<1>4. ~LoadIsDue
  BY <1>2, <1>3 DEF LoadIsDue
<1>5. CASE Len(Msg.todo) = 1
  <2>1. queue' = <<>>
    BY <1>2, <1>5 DEF Continue
  <2>2. StepsOf(queue') = {} /\ KeysOf(queue') = {}
    BY <2>1, Restful
  <2>3. \A s \in StepsOf(queue) : s = This
    BY <1>1, <1>2, <1>5
  <2>4. This.do # "bulk"
    BY <1>1, <1>5 DEF Loads
  <2>5. Alone' /\ ~LoadIsDue'
    BY <2>1, <2>2 DEF Alone, LoadIsDue, StepsOf
  <2>6. QED
    BY <1>4, <2>2, <2>3, <2>4, <2>5
<1>6. CASE Len(Msg.todo) # 1
  <2> DEFINE rest == Tail(Msg.todo)
             m == Message(Msg.key, rest)
  <2>1. queue' = Append(<<>>, m)
    BY <1>2, <1>6 DEF Continue
  <2>2. /\ Len(Msg.todo) \in Nat \ {0, 1} /\ Len(rest) = Len(Msg.todo) - 1
        /\ DOMAIN rest = 1 .. Len(Msg.todo) - 1
        /\ \A j \in DOMAIN rest : rest[j] = Msg.todo[j + 1] /\ j + 1 \in DOMAIN Msg.todo
        /\ \A j \in DOMAIN Msg.todo : j # 1 => j - 1 \in DOMAIN rest /\ rest[j - 1] = Msg.todo[j]
    BY <1>1, <1>6, RestOf
  <2>3. rest \in Chains /\ Loads(rest)
    BY <1>1, <1>6, TailIsChain, RestLoads
  <2> HIDE DEF rest
  <2>4. m \in Messages /\ m.todo = rest /\ m.key = Msg.key
    BY <1>1, <2>3 DEF Messages, Message
  <2> HIDE DEF m
  <2>5. queue' \in Seq(Messages) /\ Len(queue') = 1 /\ queue'[1] = m /\ queue' # <<>>
    BY <2>1, <2>4, QueueOfOne
  <2>6. KeysOf(queue') = {Msg.key} /\ StepsOf(queue') = {rest[j] : j \in DOMAIN rest}
    BY <2>4, <2>5, AloneStep
  <2>7. Alone'
    BY <2>3, <2>4, <2>5 DEF Alone, Loads
  <2>8. ~LoadIsDue'
    <3>1. \A s \in StepsOf(queue') : s.do # "load"
      BY <1>3, <2>2, <2>6
    <3>2. QED
      BY <3>1 DEF LoadIsDue, StepsOf
  <2>9. ASSUME NEW s \in StepsOf(queue) PROVE s = This \/ s \in StepsOf(queue')
    <3>1. PICK j \in DOMAIN Msg.todo : s = Msg.todo[j]
      BY <1>2
    <3>2. CASE j = 1
      BY <1>1, <3>1, <3>2
    <3>3. CASE j # 1
      BY <2>2, <2>6, <3>1, <3>3
    <3>4. QED
      BY <3>2, <3>3
  <2>10. ASSUME This.do = "bulk" PROVE At("stage")' /\ This' = Step("stage", This.n, {This.n})
    <3>1. 1 + 1 \in DOMAIN Msg.todo /\ Msg.todo[1 + 1] = Step("stage", This.n, {This.n})
      BY <1>1, <2>10 DEF Loads
    <3>2. rest[1] = Msg.todo[1 + 1]
      <4>1. 1 \in DOMAIN rest
        BY <1>1, <2>2, <3>1
      <4>2. QED
        BY <2>2, <4>1
    <3>3. Head(Head(queue').todo) = queue'[1].todo[1]
      BY <2>5, HeadStep
    <3>4. This' = Step("stage", This.n, {This.n})
      BY <2>4, <2>5, <3>1, <3>2, <3>3 DEF This, Msg
    <3>5. QED
      BY <2>5, <3>4 DEF At, Step
  <2>11. QED
    BY <1>2, <1>4, <2>6, <2>7, <2>8, <2>9, <2>10
<1>7. QED
  BY <1>5, <1>6

(* A load that is sent takes all that is asked of today.                      *)
LEMMA RunLoadGoesOn ==
  ASSUME QueueTypes, QueueTypes', StoreTypes, LoadOrderly, beat = 1, beat' = beat,
         Len(queue) = 1, Loads(Msg.todo), RunLoad
  PROVE  LoadOrderly'
<1>1. /\ queue # <<>> /\ This.do = "load"
      /\ UNCHANGED <<day, tier, info, file, obs, active, raw>>
  BY DEF RunLoad, At, disk, database
<1>2. /\ queue \in Seq(Messages) /\ Tail(queue) = <<>> /\ KeysOf(queue) = {Msg.key}
      /\ This \in StepsOf(queue) /\ day \in Nat
  BY <1>1, AloneStep, HeadStep, HeadFacts DEF QueueTypes
<1>3. Key("load", 0, 0) = LoadKey(day) /\ LoadKey(day) \in Keys
  BY <1>2 DEF Key, LoadKey, Keys
<1>4. LoadKey(day) \notin active
  <2>1. LoadIsDue
    BY <1>1, <1>2 DEF LoadIsDue
  <2>2. PICK e \in Nat : e = day
    BY <1>2
  <2>3. LoadKey(e) \in active => e < e
    BY <2>1, <2>2 DEF LoadOrderly, OncePerDay
  <2>4. QED
    BY <2>2, <2>3
<1> DEFINE S0 == [m \in Markets |-> TodayIds(m)]
<1>5. PICK ms \in InLoadOrder(Asked(S0)) : Dispatch(Key("load", 0, 0), LoadChain(S0, ms))
  BY DEF RunLoad
<1>6. PICK S : S = S0
  OBVIOUS
<1>7. S \in [Markets -> SUBSET Ids] /\ \A m \in Markets : S[m] = TodayIds(m)
  BY <1>6 DEF TodayIds
<1>8. ms \in InLoadOrder(Asked(S)) /\ Asked(S) \in SUBSET Markets
  BY <1>5, <1>6 DEF Asked
<1>9. ms \in Seq(Markets)
  BY <1>8, OrderedMarkets
<1> DEFINE chain == LoadChain(S, ms)
           m0 == Message(LoadKey(day), chain)
<1>10. queue' = Append(<<>>, m0)
  BY <1>2, <1>3, <1>4, <1>5, <1>6 DEF Dispatch
<1>11. /\ chain \in Chains /\ Loads(chain)
       /\ \A j \in DOMAIN chain : chain[j].do # "load"
       /\ \A k \in DOMAIN ms : \E j \in DOMAIN chain : chain[j] = Step("bulk", ms[k], S[ms[k]])
  BY <1>7, <1>9, LoadIsChain, LoadTakes
<1> HIDE DEF chain, S0
<1>12. m0 \in Messages /\ m0.todo = chain /\ m0.key = LoadKey(day)
  BY <1>3, <1>11 DEF Message, Messages
<1> HIDE DEF m0
<1>13. queue' \in Seq(Messages) /\ Len(queue') = 1 /\ queue'[1] = m0
  BY <1>10, <1>12, QueueOfOne
<1>14. StepsOf(queue') = {chain[j] : j \in DOMAIN chain} /\ KeysOf(queue') = {LoadKey(day)}
  BY <1>12, <1>13, AloneStep
<1>15. Alone'
  BY <1>11, <1>12, <1>13 DEF Alone, Loads
<1>16. ~LoadIsDue'
  <2>1. \A s \in StepsOf(queue') : s.do # "load"
    BY <1>11, <1>14
  <2>2. QED
    BY <2>1 DEF LoadIsDue, StepsOf
<1>17. \A d \in Nat : LoadKey(d) \in KeysOf(queue') => d = day
  BY <1>14 DEF LoadKey
<1>18. ASSUME NEW p \in Pairs, NEW slot \in Slots(tier[p[1]]), tier[p[1]] # 0,
              p \in Share(tier[p[1]], slot, day)
       PROVE  Ahead(p)'
  <2>1. PICK i \in Ids, m \in Markets : p = <<i, m>>
    BY DEF Pairs
  <2>2. PICK t \in Tiers : t = tier[i]
    BY <1>18, <2>1 DEF StoreTypes
  <2>3. p \in Share(t, slot, day) /\ slot \in Slots(t)
    BY <1>18, <2>1, <2>2
  <2>4. i \in S[m] /\ m \in Asked(S)
    <3>1. i \in TodayIds(m)
      BY <2>1, <2>3 DEF TodayIds, Share
    <3>2. i \in S[m]
      BY <1>7, <3>1
    <3>3. QED
      BY <3>2 DEF Asked
  <2>5. m \in TierMarkets[t]
    BY <2>1, <2>3, TierOfShare
  <2>6. \E k \in DOMAIN LoadOrder : LoadOrder[k] = m
    BY <2>5, LoadAssumption
  <2>7. PICK k \in DOMAIN ms : ms[k] = m
    BY <1>8, <2>4, <2>6, LoadOrderIsAll
  <2>8. PICK s \in StepsOf(queue') : s = Step("bulk", m, S[m])
    BY <1>11, <1>14, <2>7
  <2>9. s.do = "bulk" /\ s.n = p[2] /\ p[1] \in s.ids
    BY <2>1, <2>4, <2>8 DEF Step
  <2>10. QED
    BY <2>9 DEF Ahead, StepsOf
<1>19. ASSUME NEW p \in Pairs, NEW slot \in Slots(tier[p[1]]), Unloaded(p)',
              p \in Share(tier[p[1]], slot, day)
       PROVE  Ahead(p)'
  <2>1. tier[p[1]] # 0
    BY <1>1, <1>19 DEF Unloaded
  <2>2. QED
    BY <1>18, <1>19, <2>1
<1>20. /\ UNCHANGED <<day, beat, tier, info, file>> /\ obs \subseteq obs'
       /\ active' \subseteq active \cup KeysOf(queue)
  BY <1>1
<1>21. QED
  BY <1>15, <1>16, <1>17, <1>19, <1>20, LoadGoesOn

(* The other steps of a load: what a bulk load takes is staged by the next    *)
(* step, and so observed.                                                     *)
LEMMA LoadWork ==
  ASSUME QueueTypes, QueueTypes', StoreTypes, LoadOrderly, beat = 1, Work, odd' = {}
  PROVE  LoadOrderly'
<1>1. /\ queue # <<>> /\ UNCHANGED <<day, beat, tier>>
      /\ Len(queue) = 1 /\ Loads(Msg.todo)
      /\ RunLoad \/ Start \/ BulkLoad \/ Stage \/ Retry \/ Promote \/ Finish
  BY PunctualSteps, WorkIs DEF LoadOrderly
<1>2. CASE RunLoad
  BY <1>1, <1>2, RunLoadGoesOn
<1>3. CASE Start \/ BulkLoad \/ Stage \/ Retry \/ Promote \/ Finish
  <2>1. /\ This.do \in {"start", "bulk", "stage", "retry", "promote", "finish"}
        /\ UNCHANGED <<info, file>> /\ active' \subseteq active \cup {Msg.key} /\ obs \subseteq obs'
    BY <1>3 DEF Start, BulkLoad, Stage, Retry, Promote, Finish, At, disk, database
  <2>2. Continue
    <3>1. CASE Finish
      <4>1. This = Msg.todo[1] /\ 1 \in DOMAIN Msg.todo
        BY <1>1, HeadFacts, ChainFacts
      <4>2. This.do = "finish"
        BY <3>1 DEF Finish, At
      <4>3. Len(Msg.todo) = 1
        BY <1>1, <4>1, <4>2 DEF Loads
      <4>4. QED
        BY <3>1, <4>3 DEF Finish, Ends, Continue
    <3>2. QED
      BY <1>3, <3>1 DEF Start, BulkLoad, Stage, Retry, Promote
  <2>3. /\ Alone' /\ ~LoadIsDue' /\ ~LoadIsDue /\ KeysOf(queue') \subseteq KeysOf(queue)
        /\ \A s \in StepsOf(queue) : s = This \/ s \in StepsOf(queue')
        /\ This.do = "bulk" => At("stage")' /\ This' = Step("stage", This.n, {This.n})
    BY <1>1, <2>1, <2>2, LoadContinues
  <2>4. Msg.key \in KeysOf(queue)
    BY <1>1, HeadFacts DEF KeysOf
  <2>5. beat <= Midnight
    BY PlanIs, MidnightIs
  <2>6. ASSUME NEW p \in Pairs, Unloaded(p)', Ahead(p) PROVE Ahead(p)'
    <3>1. ~(beat > Midnight)
      BY <2>5, PlanIs, MidnightIs
    <3>2. \/ \E s \in StepsOf(queue) : s.do = "bulk" /\ s.n = p[2] /\ p[1] \in s.ids
          \/ At("stage") /\ This.n = p[2] /\ FileRow(p) \in raw
      BY <2>3, <2>6, <3>1 DEF Ahead, LoadIsDue
    <3>3. ASSUME NEW s \in StepsOf(queue'), s.do = "bulk", s.n = p[2], p[1] \in s.ids
          PROVE  Ahead(p)'
      BY <3>3 DEF Ahead, StepsOf
    <3>4. CASE At("bulk") /\ This.n = p[2] /\ p[1] \in This.ids
      <4>1. BulkLoad
        BY <1>3, <3>4 DEF Start, Stage, Retry, Promote, Finish, At
      <4>2. raw' = Loadable(This.ids, This.n)
        BY <4>1 DEF BulkLoad, ReplaceRaw
      <4>3. PICK i \in Ids, m \in Markets : p = <<i, m>>
        BY DEF Pairs
      <4>4. i \in info /\ file[<<i, m>>] # NoFile
        <5>1. tier[i] # 0 /\ file[p] > 0
          BY <1>1, <2>1, <2>6, <4>3 DEF Unloaded
        <5>2. PICK f \in Int : f = file[p]
          BY FilesAreNumbers
        <5>3. f # NoFile
          BY <5>1, <5>2 DEF NoFile
        <5>4. QED
          BY <4>3, <5>1, <5>2, <5>3 DEF LoadOrderly, Mapped
      <4>5. FileRow(p) \in raw'
        BY <3>4, <4>2, <4>3, <4>4 DEF Loadable, FileRow
      <4>6. FileRow(p)' = FileRow(p)
        BY <2>1 DEF FileRow
      <4>7. At("stage")' /\ This'.n = p[2]
        BY <2>3, <3>4 DEF At, Step
      <4>8. QED
        BY <4>5, <4>6, <4>7 DEF Ahead
    <3>5. CASE At("stage") /\ This.n = p[2] /\ FileRow(p) \in raw
      <4>1. Stage
        BY <1>3, <3>5 DEF Start, BulkLoad, Retry, Promote, Finish, At
      <4>2. tier[p[1]] # 0
        BY <1>1, <2>6 DEF Unloaded
      <4>3. raw # {} /\ Resolvable(FileRow(p).id)
        BY <3>5, <4>2 DEF Resolvable, FileRow
      <4>4. PICK source, resolved :
              /\ resolved = {r \in raw : Resolvable(r.id)}
              /\ obs' = obs \cup (resolved \X {source}) \cup staged
        BY <4>1, <4>3 DEF Stage
      <4>5. FileRow(p) \in resolved
        BY <3>5, <4>3, <4>4
      <4>6. <<FileRow(p), source>> \in obs'
        BY <4>4, <4>5
      <4>7. <<FileRow(p), source>>[1] = [id |-> p[1], market |-> p[2], ver |-> file'[p]]
        BY <2>1 DEF FileRow
      <4>8. QED
        BY <2>6, <4>6, <4>7 DEF Unloaded, Loaded
    <3>6. CASE \E s \in StepsOf(queue) : s.do = "bulk" /\ s.n = p[2] /\ p[1] \in s.ids
      <4>1. PICK s \in StepsOf(queue) : s.do = "bulk" /\ s.n = p[2] /\ p[1] \in s.ids
        BY <3>6
      <4>2. CASE s \in StepsOf(queue')
        BY <3>3, <4>1, <4>2
      <4>3. CASE s = This
        BY <1>1, <3>4, <4>1, <4>3 DEF At
      <4>4. QED
        BY <2>3, <4>2, <4>3
    <3>7. QED
      BY <3>2, <3>5, <3>6
  <2>7. QED
    BY <1>1, <2>1, <2>3, <2>4, <2>6, LoadGoesOn
<1>4. QED
  BY <1>1, <1>2, <1>3

(* What beat does at the worker's midnight, at the load and at a refresh.     *)
LEMMA NextBeat ==
  ASSUME QueueTypes, Beat, odd' = {}
  PROVE  /\ odd = {} /\ UNCHANGED <<tier, file, obs, info, active, raw>>
         /\ BeatPlan[beat].do \in {"refresh", "midnight"} => beat' = beat + 1
         /\ BeatPlan[beat].do = "load" => beat' = 1 /\ beat > Midnight
         /\ BeatPlan[beat].do \in {"midnight", "load"} \/ beat = 1 => queue = <<>>
         /\ BeatPlan[beat].do \in {"refresh", "midnight", "load"}
<1>1. odd \subseteq odd' /\ UNCHANGED <<tier, file, obs, info, active, raw>>
  BY DEF Beat, disk, database
<1>2. BeatPlan[beat].do \in {"midnight", "load"} \/ beat = 1 => queue = <<>>
  <2> SUFFICES ASSUME queue # <<>>, BeatPlan[beat].do \in {"midnight", "load"} \/ beat = 1 PROVE FALSE
    OBVIOUS
  <2>1. CASE BeatPlan[beat].do = "load"
    <3>1. "early" \in odd'
      BY <2>1 DEF Beat
    <3>2. QED
      BY <3>1
  <2>2. CASE BeatPlan[beat].do = "midnight" \/ beat = 1
    <3>1. "late" \in odd'
      BY <2>2 DEF Beat
    <3>2. QED
      BY <3>1
  <2>3. QED
    BY <2>1, <2>2
<1>3. PICK n \in Nat \ {0} : n = Len(BeatPlan) /\ DOMAIN BeatPlan = 1 .. n
  BY PlanIs
<1>4. PICK c \in 1 .. n : c = beat
  BY <1>3 DEF QueueTypes
<1>5. PICK mid \in 1 .. n : mid = Midnight
  BY <1>3, MidnightIs
<1>6. BeatPlan[c].do = "load" <=> c = n
  BY <1>3, LoadAssumption
<1>7. mid # n
  <2>1. BeatPlan[mid].do = "midnight"
    BY <1>3, <1>5, MidnightIs
  <2>2. BeatPlan[n].do = "load"
    BY <1>3, LoadAssumption
  <2>3. QED
    BY <2>1, <2>2
<1>8. (c # n => c % n = c) /\ (c = n => c % n = 0)
  OBVIOUS
<1>9. beat' = (c % n) + 1
  BY <1>3, <1>4 DEF Beat
<1>10. c # n => beat' = c + 1
  BY <1>8, <1>9
<1>11. c = n => beat' = 1 /\ c > mid
  BY <1>7, <1>8, <1>9
<1>12. BeatPlan[beat] \in PlanSteps
  BY PlanIs DEF QueueTypes
<1>13. BeatPlan[beat].do \in {"refresh", "midnight", "load"}
  BY <1>12 DEF PlanSteps
<1>14. QED
  BY <1>1, <1>2, <1>4, <1>5, <1>6, <1>10, <1>11, <1>13

LEMMA MidnightOrder ==
  ASSUME QueueTypes, QueueTypes', StoreTypes, LoadOrderly, Beat, odd' = {},
         BeatPlan[beat].do = "midnight"
  PROVE  LoadOrderly'
<1>1. /\ UNCHANGED <<tier, file, obs, info, active, raw>> /\ beat' = beat + 1
      /\ queue = <<>> /\ queue' = <<>> /\ day' = day + 1 /\ day \in Nat
  BY NextBeat DEF Beat, QueueTypes
<1>2. beat = Midnight /\ beat \in Nat \ {0}
  BY MidnightIs, PlanIs DEF QueueTypes
<1>3. beat' # 1 /\ beat' > Midnight /\ ~(beat > Midnight)
  BY <1>1, <1>2
<1>4. /\ StepsOf(queue) = {} /\ KeysOf(queue) = {}
      /\ StepsOf(queue') = {} /\ KeysOf(queue') = {}
  BY <1>1, Restful
<1>5. Alone' /\ InTime'
  BY <1>3, <1>4 DEF Alone, InTime, StepsOf
<1>6. OncePerDay'
  <2> SUFFICES ASSUME NEW d \in Nat, LoadKey(d) \in active' \cup KeysOf(queue') PROVE d < day'
    BY DEF OncePerDay, LoadKey, KeysOf
  <2>1. d < day \/ d = day
    BY <1>1, <1>4 DEF LoadOrderly, OncePerDay
  <2>2. QED
    BY <1>1, <2>1
<1>7. Mapped'
  BY <1>1 DEF LoadOrderly, Mapped
<1>8. \A t \in Tiers, slot, d \in Nat : Share(t, slot, d)' = Share(t, slot, d)
  BY <1>1, SharesStay
<1>9. \A t \in Tiers : \A slot \in Slots(t) : slot \in Nat
  BY SlotsAreNumbers
<1>10. ASSUME NEW p \in Pairs PROVE ~Ahead(p) /\ Ahead(p)'
  <2>1. ~Ahead(p)
    BY <1>1, <1>3, <1>4 DEF Ahead, At
  <2>2. Ahead(p)'
    BY <1>3 DEF Ahead, Midnight
  <2>3. QED
    BY <2>1, <2>2
<1>11. ASSUME NEW p \in Pairs, Unloaded(p)' PROVE ToBeLoaded(p)'
  <2>1. tier[p[1]] \in Tiers /\ file[p] > 0
    <3>1. p[1] \in Ids /\ tier[p[1]] # 0
      BY <1>1, <1>11 DEF Pairs, Unloaded
    <3>2. QED
      BY <1>1, <1>11, <3>1 DEF StoreTypes, Unloaded
  <2>2. PICK t \in Tiers : t = tier[p[1]]
    BY <2>1
  <2>3. PICK f \in Int, e \in Nat : f = file[p] /\ e = day
    BY <1>1, FilesAreNumbers
  <2>4. ToBeLoaded(p)
    BY <1>1, <1>11 DEF LoadOrderly, Unloaded, Loaded
  <2>5. PICK slot \in Slots(t) : FromSlot(p, slot)
    BY <2>2, <2>4 DEF ToBeLoaded
  <2>6. f - 1 \in Nat /\ slot \in Nat
    BY <1>9, <2>1, <2>3
  <2>7. /\ p \in Share(t, slot, f - 1) /\ f <= e + 1 /\ ~(EntryOf(t, slot) > Midnight)
    BY <1>10, <2>2, <2>3, <2>5 DEF FromSlot
  <2>8. FromSlot(p, slot)'
    <3>1. p \in Share(t, slot, f - 1)'
      BY <1>8, <2>6, <2>7
    <3>2. p \in Share(tier[p[1]], slot, file[p] - 1)'
      BY <1>1, <2>2, <2>3, <3>1
    <3>3. f <= (e + 1) + 1
      BY <2>7
    <3>4. QED
      BY <1>1, <2>2, <2>3, <2>7, <3>2, <3>3 DEF FromSlot, EntryOf, Midnight
  <2>9. TakenNext(p)'
    <3> SUFFICES ASSUME NEW s \in Slots(tier[p[1]])', NEW d \in Nat,
                        file'[p] <= d, d <= day', p \in Share(tier[p[1]], s, d)'
                 PROVE  d = day' /\ Ahead(p)'
      BY DEF TakenNext
    <3>1. s \in Slots(t) /\ s \in Nat
      BY <1>1, <1>9, <2>2 DEF Slots
    <3>2. p \in Share(t, s, d)'
      BY <1>1, <2>2
    <3>3. p \in Share(t, s, d)
      BY <1>8, <3>1, <3>2
    <3>4. ~(d <= day)
      BY <1>1, <1>10, <2>2, <2>4, <3>1, <3>3 DEF ToBeLoaded, TakenNext
    <3>5. d = day'
      BY <1>1, <3>4
    <3>6. QED
      BY <1>10, <3>5
  <2>10. QED
    BY <1>1, <2>2, <2>8, <2>9 DEF ToBeLoaded, Slots
<1>12. QED
  BY <1>5, <1>6, <1>7, <1>11 DEF LoadOrderly, Pairs

LEMMA SentMessage ==
  ASSUME QueueTypes
  PROVE  /\ Message(NoKey, <<BeatPlan[beat]>>) \in Messages
         \/ BeatPlan[beat].do = "midnight"
<1> DEFINE b == BeatPlan[beat]
<1>1. b \in PlanSteps /\ (b.do = "refresh" => b.ids # {})
  BY PlanIs, MtgStockAssumption DEF QueueTypes
<1>2. b \in Steps /\ b.do \notin {"bulk", "stage"}
  BY <1>1 DEF PlanSteps, Steps, Names
<1> HIDE DEF b
<1>3. Message(NoKey, <<b>>) \in Messages
  BY <1>2, SingleStep DEF Message, Messages, NoKey, Keys
<1>4. QED
  BY <1>3 DEF b

LEMMA LoadIsSent ==
  ASSUME QueueTypes, QueueTypes', StoreTypes, LoadOrderly, Beat, odd' = {},
         BeatPlan[beat].do = "load"
  PROVE  LoadOrderly'
<1> DEFINE b == BeatPlan[beat]
           m == Message(NoKey, <<b>>)
<1>1. /\ UNCHANGED <<tier, file, obs, info, active, raw, day>> /\ beat' = 1 /\ beat > Midnight
      /\ queue = <<>> /\ queue' = Append(<<>>, m) /\ b.do = "load"
  BY NextBeat DEF Beat
<1>2. m \in Messages /\ m.todo = <<b>> /\ m.key = NoKey
  BY SentMessage DEF Message
<1> HIDE DEF m, b
<1>3. queue' \in Seq(Messages) /\ Len(queue') = 1 /\ queue'[1] = m
  BY <1>1, <1>2, QueueOfOne
<1>4. DOMAIN m.todo = {1} /\ m.todo[1] = b /\ Len(m.todo) = 1
  BY <1>2
<1>5. StepsOf(queue') = {b} /\ KeysOf(queue') = {NoKey}
  BY <1>2, <1>3, <1>4, AloneStep
<1>6. Alone'
  <2>1. Loads(m.todo)
    BY <1>1, <1>4 DEF Loads, LoadNames
  <2>2. beat' = 1
    BY <1>1
  <2>3. QED
    BY <1>3, <2>1, <2>2 DEF Alone, Loads
<1>7. OncePerDay'
  <2> SUFFICES ASSUME NEW d \in Nat, LoadKey(d) \in active' \cup KeysOf(queue') PROVE d < day'
    BY DEF OncePerDay, LoadKey, KeysOf
  <2>1. LoadKey(d) \in active
    BY <1>1, <1>5 DEF LoadKey, NoKey
  <2>2. d < day \/ beat <= Midnight
    BY <2>1 DEF LoadOrderly, OncePerDay
  <2>3. beat \in Nat /\ Midnight \in Nat
    BY PlanIs, MidnightIs DEF QueueTypes
  <2>4. QED
    BY <1>1, <2>2, <2>3
<1>8. InTime'
  <2>1. \A s \in StepsOf(queue') : s.do = "load"
    BY <1>1, <1>5
  <2>2. QED
    BY <2>1 DEF InTime, IsTimely, StepsOf
<1>9. Mapped'
  BY <1>1 DEF LoadOrderly, Mapped
<1>10. ASSUME NEW p PROVE Ahead(p)'
  <2>1. b \in StepsOf(queue')
    BY <1>5
  <2>2. QED
    BY <1>1, <2>1 DEF Ahead, StepsOf
<1>11. \A t \in Tiers, slot, d \in Nat : Share(t, slot, d)' = Share(t, slot, d)
  BY <1>1, SharesStay
<1>12. \A t \in Tiers : \A slot \in Slots(t) : slot \in Nat
  BY SlotsAreNumbers
<1>13. ASSUME NEW p \in Pairs, Unloaded(p)' PROVE ToBeLoaded(p)'
  <2>1. tier[p[1]] \in Tiers /\ file[p] > 0
    <3>1. p[1] \in Ids /\ tier[p[1]] # 0
      BY <1>1, <1>13 DEF Pairs, Unloaded
    <3>2. QED
      BY <1>1, <1>13, <3>1 DEF StoreTypes, Unloaded
  <2>2. PICK t \in Tiers : t = tier[p[1]]
    BY <2>1
  <2>3. PICK f \in Int : f = file[p]
    BY FilesAreNumbers
  <2>4. ToBeLoaded(p)
    BY <1>1, <1>13 DEF LoadOrderly, Unloaded, Loaded
  <2>5. PICK slot \in Slots(t) : FromSlot(p, slot)
    BY <2>2, <2>4 DEF ToBeLoaded
  <2>6. f - 1 \in Nat /\ slot \in Nat
    BY <1>12, <2>1, <2>3
  <2>7. /\ p \in Share(t, slot, f - 1) /\ f <= day + 1
        /\ EntryOf(t, slot) > Midnight => f = day + 1
    BY <2>2, <2>3, <2>5 DEF FromSlot
  <2>8. FromSlot(p, slot)'
    <3>1. p \in Share(t, slot, f - 1)'
      BY <1>11, <2>6, <2>7
    <3>2. p \in Share(tier[p[1]], slot, file[p] - 1)'
      BY <1>1, <2>2, <2>3, <3>1
    <3>3. QED
      BY <1>1, <1>10, <2>2, <2>3, <2>7, <3>2 DEF FromSlot, EntryOf, Midnight
  <2>9. TakenNext(p)'
    <3> SUFFICES ASSUME NEW s \in Slots(tier[p[1]])', NEW d \in Nat,
                        file'[p] <= d, d <= day', p \in Share(tier[p[1]], s, d)'
                 PROVE  d = day' /\ Ahead(p)'
      BY DEF TakenNext
    <3>1. s \in Slots(t) /\ s \in Nat
      BY <1>1, <1>12, <2>2 DEF Slots
    <3>2. p \in Share(t, s, d)'
      BY <1>1, <2>2
    <3>3. p \in Share(t, s, d)
      BY <1>11, <3>1, <3>2
    <3>4. d = day
      BY <1>1, <2>2, <2>4, <3>1, <3>3 DEF ToBeLoaded, TakenNext
    <3>5. QED
      BY <1>1, <1>10, <3>4
  <2>10. QED
    BY <1>1, <2>2, <2>8, <2>9 DEF ToBeLoaded, Slots
<1>14. QED
  BY <1>6, <1>7, <1>8, <1>9, <1>13 DEF LoadOrderly, Pairs

LEMMA RefreshIsSent ==
  ASSUME QueueTypes, QueueTypes', StoreTypes, LoadOrderly, Beat, odd' = {},
         BeatPlan[beat].do = "refresh"
  PROVE  LoadOrderly'
<1> DEFINE b == BeatPlan[beat]
           m == Message(NoKey, <<b>>)
<1>1. /\ UNCHANGED <<tier, file, obs, info, active, day>> /\ beat' = beat + 1
      /\ beat = 1 => queue = <<>>
      /\ queue' = Append(queue, m) /\ b.do = "refresh" /\ b = BeatPlan[beat]
  BY NextBeat DEF Beat
<1>2. m \in Messages /\ m.todo = <<b>> /\ m.key = NoKey
  BY SentMessage DEF Message
<1> HIDE DEF m, b
<1>3. beat # Midnight /\ beat \in Nat \ {0} /\ Midnight \in Nat /\ beat \in DOMAIN BeatPlan
  <2>1. beat \in DOMAIN BeatPlan
    BY DEF QueueTypes
  <2>2. BeatPlan[beat].do # "midnight"
    BY <1>1
  <2>3. QED
    BY <2>1, <2>2, PlanIs, MidnightIs
<1>4. beat' # 1 /\ (beat' > Midnight <=> beat > Midnight)
  BY <1>1, <1>3
<1>5. \A s \in StepsOf(queue) : s.do \in ByDay
  <2>1. CASE beat = 1
    BY <1>1, <2>1, Restful
  <2>2. CASE beat # 1
    BY <2>2 DEF LoadOrderly, Alone, ByDay
  <2>3. QED
    BY <2>1, <2>2
<1>6. StepsOf(queue') \subseteq StepsOf(queue) \cup {b} /\ KeysOf(queue') \subseteq KeysOf(queue) \cup {NoKey}
  <2>1. /\ StepsOf(queue') \subseteq StepsOf(queue) \cup {m.todo[j] : j \in DOMAIN m.todo}
        /\ KeysOf(queue') \subseteq KeysOf(queue) \cup {m.key}
    BY <1>1, <1>2, StepsSent DEF QueueTypes
  <2>2. DOMAIN m.todo = {1} /\ m.todo[1] = b
    BY <1>2
  <2>3. QED
    BY <1>2, <2>1, <2>2
<1>7. b.do \in ByDay /\ IsTimely(b)
  <2>1. \E k \in DOMAIN BeatPlan : BeatPlan[k] = b /\ (k > Midnight <=> beat > Midnight)
    BY <1>1, <1>3
  <2>2. QED
    BY <1>1, <2>1 DEF IsTimely, ByDay
<1>8. \A d \in Nat : LoadKey(d) \in KeysOf(queue') => LoadKey(d) \in KeysOf(queue)
  BY <1>6 DEF LoadKey, NoKey
<1>9. \A s \in StepsOf(queue') : s \in StepsOf(queue) \/ (s.do \in ByDay /\ IsTimely(s))
  BY <1>6, <1>7
<1>10. QED
  BY <1>1, <1>4, <1>5, <1>8, <1>9, DayGoesOn

LEMMA OrderRests ==
  ASSUME QueueTypes, LoadOrderly, UNCHANGED <<day, beat, queue, active, tier, info, file, raw, obs>>
  PROVE  LoadOrderly'
<1>1. \A t, slot, d : Share(t, slot, d)' = Share(t, slot, d)
  <2> TAKE t, slot, d
  <2>1. TierIds(t)' = TierIds(t)
    BY DEF TierIds
  <2>2. QED
    BY <2>1 DEF Share, Slice, Worklist
<1>2. \A p : Ahead(p)' <=> Ahead(p)
  BY DEF Ahead, At, This, Msg, FileRow, StepsOf, Midnight
<1>3. \A p : Unloaded(p)' <=> Unloaded(p)
  BY DEF Unloaded, Loaded
<1>4. \A p : ToBeLoaded(p) => ToBeLoaded(p)'
  BY <1>1, <1>2 DEF ToBeLoaded, FromSlot, TakenNext, EntryOf, Midnight, Slots
<1>5. Alone' /\ OncePerDay' /\ Mapped'
  <2>1. Alone
    BY DEF LoadOrderly
  <2>2. Alone'
    <3>1. beat' = beat /\ queue' = queue
      OBVIOUS
    <3>2. Loads(queue[1].todo)' <=> Loads(queue[1].todo)
      BY <3>1 DEF Loads
    <3>3. StepsOf(queue)' = StepsOf(queue)
      BY <3>1 DEF StepsOf
    <3>4. QED
      BY <2>1, <3>1, <3>2, <3>3 DEF Alone
  <2>3. OncePerDay'
    BY DEF LoadOrderly, OncePerDay, LoadIsDue, StepsOf, KeysOf, LoadKey, Midnight
  <2>4. Mapped'
    BY DEF LoadOrderly, Mapped
  <2>5. QED
    BY <2>2, <2>3, <2>4
<1>6. \A s : IsTimely(s)' <=> IsTimely(s)
  BY <1>1 DEF IsTimely, EntryOf, Midnight, Slots
<1>7. InTime'
  BY <1>6 DEF LoadOrderly, InTime, StepsOf
<1>8. QED
  BY <1>3, <1>4, <1>5, <1>7 DEF LoadOrderly, Pairs

LEMMA LoadStarts == Init => LoadInv
<1> SUFFICES ASSUME Init PROVE LoadOrderly
  BY DEF LoadInv
<1>1. queue = <<>> /\ active = {} /\ StepsOf(queue) = {} /\ KeysOf(queue) = {}
  BY Restful DEF Init
<1>2. Alone /\ OncePerDay /\ InTime
  BY <1>1 DEF Alone, OncePerDay, InTime
<1>3. Mapped
  BY DEF Init, Mapped
<1>4. \A p \in Pairs : ~Unloaded(p)
  BY DEF Init, Unloaded, NoFile
<1>5. QED
  BY <1>2, <1>3, <1>4 DEF LoadOrderly

LEMMA NextKeepsLoad ==
  ASSUME QueueTypes, QueueTypes', StoreTypes, LoadInv, [Next]_vars
  PROVE  LoadInv'
<1> SUFFICES ASSUME odd' = {} PROVE LoadOrderly'
  BY DEF LoadInv
<1>1. CASE Beat
  BY <1>1, NextBeat, MidnightOrder, LoadIsSent, RefreshIsSent DEF LoadInv
<1>2. ASSUME NEW do \in OperatorTasks, Manual(do) PROVE FALSE
  BY <1>2 DEF Manual
<1>3. CASE Work
  <2>1. LoadOrderly
    BY <1>3, PunctualSteps DEF LoadInv
  <2>2. QED
    BY <1>3, <2>1, DayWork, LoadWork
<1>4. CASE Move \/ UNCHANGED vars
  <2>1. odd = {} /\ tier' = tier
    BY <1>4, PunctualSteps DEF vars, database
  <2>2. UNCHANGED <<day, beat, queue, active, info, file, raw, obs>>
    BY <1>4 DEF Move, vars, disk, database
  <2>3. QED
    BY <2>1, <2>2, OrderRests DEF LoadInv
<1>5. QED
  BY <1>1, <1>2, <1>3, <1>4 DEF Next

(* A fetch replaces no file that the load has still to take.                  *)
LEMMA FetchReplacesLoaded ==
  ASSUME QueueTypes, StoreTypes, LoadInv, [Next]_vars, odd' = {},
         NEW p \in Pairs, file'[p] # file[p], file[p] > 0, tier[p[1]] # 0
  PROVE  Loaded(p, file[p])
<1>1. Work
  <2>1. ASSUME NEW do \in OperatorTasks, Manual(do) PROVE FALSE
    BY <2>1 DEF Manual
  <2>2. Beat \/ Move \/ UNCHANGED vars => file' = file
    BY DEF Beat, Move, vars, disk
  <2>3. QED
    BY <2>1, <2>2 DEF Next
<1>2. LoadOrderly /\ ~Fails
  BY <1>1, PunctualSteps DEF LoadInv
<1>3. beat # 1 /\ queue # <<>> /\ Fetch
  <2>1. RunLoad \/ Start \/ BulkLoad \/ Stage \/ Retry \/ Promote \/ Finish \/ RunRefresh => file' = file
    BY DEF RunRefresh, RunLoad, Start, BulkLoad, Stage, Retry, Promote, Finish, disk
  <2>2. QED
    BY <1>1, <1>2, <2>1, WorkIs DEF LoadOrderly
<1>4. This.do = "fetch" /\ Write(This.ids, This.n)
  BY <1>2, <1>3 DEF Fetch, At
<1>5. file'[p] = day + 1 /\ p[2] = This.n /\ p[1] \in This.ids /\ p = <<p[1], p[2]>>
  BY <1>4 DEF Write, Pairs
<1>6. IsTimely(This)
  BY <1>2, <1>3, HeadFacts, HeadStep DEF LoadOrderly, InTime, QueueTypes
<1>7. PICK t \in Tiers : \E slot \in Slots(t) :
        /\ (EntryOf(t, slot) > Midnight <=> beat > Midnight)
        /\ \A i \in This.ids : <<i, This.n>> \in Share(t, slot, day)
  BY <1>4, <1>6 DEF IsTimely
<1>8. PICK slot \in Slots(t) :
        (EntryOf(t, slot) > Midnight <=> beat > Midnight) /\ p \in Share(t, slot, day)
  BY <1>5, <1>7
<1>9. tier[p[1]] = t
  BY <1>8, TierOfShare
<1> SUFFICES ASSUME ~Loaded(p, file[p]) PROVE FALSE
  OBVIOUS
<1>10. ToBeLoaded(p)
  BY <1>2 DEF LoadOrderly, Unloaded
<1>11. PICK r \in Slots(t) : FromSlot(p, r)
  BY <1>9, <1>10 DEF ToBeLoaded
<1>12. PICK f \in Int, e \in Nat : f = file[p] /\ e = day
  BY FilesAreNumbers
<1>13. /\ p \in Share(t, r, f - 1) /\ f <= e + 1 /\ f # e + 1
       /\ EntryOf(t, r) > Midnight => f = e + 1
  BY <1>5, <1>9, <1>11, <1>12 DEF FromSlot
<1>14. f <= e /\ f - 1 \in Nat
  BY <1>12, <1>13
<1>15. Ahead(p)
  BY <1>8, <1>9, <1>10, <1>12, <1>14 DEF ToBeLoaded, TakenNext
<1>16. beat > Midnight
  <2>1. \A s \in StepsOf(queue) : s.do \in ByDay
    BY <1>2, <1>3 DEF LoadOrderly, Alone, ByDay
  <2>2. QED
    BY <1>15, <2>1, NotAhead
<1>17. slot = r
  BY <1>8, <1>12, <1>13, <1>14, OneSlot
<1>18. QED
  BY <1>8, <1>13, <1>16, <1>17

(* Until the load, too, starts before the downloads are done, a download is   *)
(* observed before the next one of the same pair replaces its file.           *)
THEOREM EveryDownloadIsAlwaysLoaded == Spec => EveryDownloadIsLoaded
<1> DEFINE Inv == KeptInv /\ StoreTypes /\ LoadInv
           Replaced == \A p \in Pairs : /\ file'[p] # file[p] /\ file[p] > 0
                                        /\ odd' = {} /\ tier[p[1]] # 0
                                        => Loaded(p, file[p])
<1>1. Init => Inv
  BY InitKeeps, InitTypes, LoadStarts
<1>2. Inv /\ [Next]_vars => Inv'
  <2> SUFFICES ASSUME Inv, [Next]_vars PROVE Inv'
    OBVIOUS
  <2>1. KeptInv'
    BY NextKeeps
  <2>2. QueueTypes /\ QueueTypes'
    BY <2>1 DEF KeptInv
  <2>3. QED
    BY <2>1, <2>2, NextTypes, NextKeepsLoad
<1>3. Inv /\ [Next]_vars => [Replaced]_vars
  BY FetchReplacesLoaded DEF KeptInv
<1> HIDE DEF Inv
<1>4. QED
  BY <1>1, <1>2, <1>3, PTL DEF Spec, EveryDownloadIsLoaded

-----------------------------------------------------------------------------
(* The Shopify store: what is on the disk and what the chain holds.          *)
Cursors == UNION {[H -> [page : Nat, since : Nat, over : BOOLEAN]] : H \in SUBSET Collections}
ShopRows == [item : Items, date : Nat, price : Nat, seen : Nat, handle : Collections, page : Nat]

ShopTypes ==
  /\ shelf \in [Collections -> SUBSET Items] /\ learnt \subseteq Cards
  /\ tag \in [Items -> [date : Nat, price : Nat]]
  /\ code \in [Collections -> Codes \cup {"absent", "none"}]
  /\ mark \in [Collections -> Codes \cup {"none"}] /\ raced \subseteq Collections
  /\ step \in ShopSteps /\ unsampled \subseteq Collections /\ cursor \in Cursors
  /\ stayed \in [Collections -> SUBSET Items]
  /\ week \in Nat /\ changes \in Nat /\ mishaps \in Nat
  /\ batch \in [Items -> SUBSET ShopRows]
  /\ \A p \in Items : \A r \in batch[p] : r.item = p /\ r.seen <= week

(* An unclassified handle has no mark, and one about to be sampled has none   *)
(* but those set since it was read.                                          *)
MarkInv ==
  /\ \A h \in Collections : code[h] \in {"absent", "none"} => mark[h] = "none"
  /\ \A h \in unsampled \ raced : mark[h] = "none"

(* A file has one row per product, of the handle and page it is named after. *)
FilesInv ==
  /\ DOMAIN pages \subseteq Collections \X Nat
  /\ pages \in [DOMAIN pages -> SUBSET ShopRows]
  /\ \A x \in DOMAIN pages :
       /\ \A r \in pages[x] : r.handle = x[1] /\ r.page = x[2] /\ r.seen <= week
       /\ \A r, s \in pages[x] : r.item = s.item => r = s
  /\ \E n \in Nat : \A x \in DOMAIN pages : x[2] <= n

(* The pages before the place of a collection are of this week, and what has *)
(* stayed on its shelf up to since_id is on one of them.                     *)
FetchedUpTo(h) ==
  /\ \A k \in Nat : k < cursor[h].page =>
       <<h, k>> \in DOMAIN pages /\ \A r \in pages[<<h, k>>] : r.seen = week
  /\ \A p \in stayed[h] : p <= cursor[h].since =>
       \E k \in Nat : k < cursor[h].page /\ \E r \in pages[<<h, k>>] : r.item = p
  /\ cursor[h].over => \A p \in stayed[h] : p <= cursor[h].since

FetchInv ==
  /\ step \in {"idle", "collected", "classify"} => cursor = Nothing
  /\ \A h \in Collections : stayed[h] \subseteq shelf[h]
  /\ \A h \in DOMAIN cursor : FetchedUpTo(h)
  /\ step \in {"process", "stage"} => \A h \in DOMAIN cursor : cursor[h].over

ShopInv ==
  /\ ShopTypes /\ MarkInv /\ FilesInv /\ FetchInv
  /\ MarksSurvive /\ OldRowsAreLeftovers /\ InStockWins

-----------------------------------------------------------------------------
(* Least and greatest numbers, and what lowest-first paging answers.          *)
LEMMA HasLeast ==
  ASSUME NEW T \in SUBSET Nat, T # {}
  PROVE  \E n \in T : \A k \in T : n <= k
<1>1. PICK n \in T : \A k \in T : ~ (<<k, n>> \in OpToRel(<, Nat))
  BY NatLessThanWellFounded, WFMin
<1>2. \A k \in T : k \in Nat /\ n \in Nat /\ ~ (k < n)
  BY <1>1 DEF OpToRel
<1>3. QED
  BY <1>2

LEMMA HasGreatest ==
  ASSUME NEW T \in SUBSET Nat, T # {}, NEW top \in Nat, \A n \in T : n <= top
  PROVE  \E m \in T : \A n \in T : n <= m
<1> DEFINE left == {top - n : n \in T}
<1>1. \A n \in T : n \in Nat /\ top - n \in Nat
  OBVIOUS
<1>2. left \in SUBSET Nat
  BY <1>1
<1>3. /\ \A n \in T : top - n \in left
      /\ \A k \in left : \E m \in T : k = top - m
  OBVIOUS
<1> HIDE DEF left
<1>4. left # {}
  BY <1>3
<1>5. PICK least \in left : \A k \in left : least <= k
  BY <1>2, <1>4, HasLeast
<1>6. PICK m \in T : least = top - m
  BY <1>3
<1>7. QED
  BY <1>1, <1>3, <1>5, <1>6

(* The greatest of a finite set is the one with the fewest above it.         *)
LEMMA FiniteHasGreatest ==
  ASSUME NEW S \in SUBSET Nat, IsFiniteSet(S), S # {}
  PROVE  Max(S) \in S /\ \A p \in S : p <= Max(S)
<1> DEFINE Above(p) == {q \in S : p < q}
           counts == {Cardinality(Above(p)) : p \in S}
<1>1. ASSUME NEW p \in S PROVE IsFiniteSet(Above(p)) /\ Cardinality(Above(p)) \in Nat
  BY FS_Subset, FS_CardinalityType
<1>2. counts \in SUBSET Nat /\ counts # {}
  BY <1>1
<1>3. PICK least \in counts : \A k \in counts : least <= k
  BY <1>2, HasLeast
<1>4. PICK m \in S : least = Cardinality(Above(m))
  BY <1>3
<1>5. ASSUME NEW q \in S, m < q PROVE FALSE
  <2>1. Above(q) \in SUBSET Above(m) /\ q \in Above(m) /\ q \notin Above(q)
    <3>1. m \in Nat /\ q \in Nat /\ \A x \in S : x \in Nat
      OBVIOUS
    <3>2. ~(q < q) /\ \A x \in S : q < x => m < x
      BY <1>5, <3>1
    <3>3. QED
      BY <1>5, <3>2
  <2>2. Cardinality(Above(q)) <= Cardinality(Above(m)) /\ Cardinality(Above(q)) # Cardinality(Above(m))
    BY <1>1, <2>1, FS_Subset
  <2>3. Cardinality(Above(m)) <= Cardinality(Above(q))
    BY <1>3, <1>4
  <2>4. QED
    BY <1>1, <2>2, <2>3
<1>6. m \in S /\ \A q \in S : m >= q
  BY <1>5
<1>7. Max(S) \in S /\ \A q \in S : Max(S) >= q
  BY <1>6 DEF Max
<1>8. QED
  BY <1>7

(* What get_collection_products_page answers: nothing if nothing is left, and *)
(* of what is left everything up to the last product of the answer.           *)
LEMMA LowestAnswers ==
  ASSUME NEW S \in SUBSET Items, NEW n \in Nat \ {0}
  PROVE  /\ Lowest(S, n) \subseteq S
         /\ S # {} => Lowest(S, n) # {}
         /\ Lowest(S, n) # {} =>
              /\ Max(Lowest(S, n)) \in Lowest(S, n)
              /\ \A p \in S : p <= Max(Lowest(S, n)) => p \in Lowest(S, n)
<1> DEFINE Below(p) == {q \in S : q < p}
           low == Lowest(S, n)
<1>1. S \in SUBSET Nat /\ IsFiniteSet(S)
  BY ShopAssumption, FS_Subset
<1>2. low = {p \in S : Cardinality(Below(p)) < n}
  BY DEF Lowest
<1>3. ASSUME NEW p \in S PROVE IsFiniteSet(Below(p)) /\ Cardinality(Below(p)) \in Nat
  BY <1>1, FS_Subset, FS_CardinalityType
<1>4. ASSUME S # {} PROVE low # {}
  <2>1. PICK p \in S : \A q \in S : p <= q
    BY <1>1, <1>4, HasLeast
  <2>2. Below(p) = {}
    <3>1. \A q \in S : q \in Nat
      BY <1>1
    <3>2. \A q \in S : ~(q < p)
      BY <2>1, <3>1
    <3>3. QED
      BY <3>2
  <2>3. Cardinality(Below(p)) = 0
    BY <2>2, FS_EmptySet
  <2>4. QED
    BY <1>2, <2>3
<1>5. low \subseteq S
  BY <1>2
<1>6. ASSUME low # {} PROVE Max(low) \in low
  <2>1. low \in SUBSET Nat /\ IsFiniteSet(low)
    BY <1>1, <1>5, FS_Subset
  <2>2. QED
    BY <1>6, <2>1, FiniteHasGreatest
<1>7. ASSUME low # {}, NEW p \in S, p <= Max(low) PROVE p \in low
  <2>1. PICK m \in low : m = Max(low)
    BY <1>6, <1>7
  <2>2. m \in S /\ Cardinality(Below(m)) < n
    BY <1>2, <2>1
  <2>3. Below(p) \in SUBSET Below(m)
    <3>1. m \in Nat /\ p \in Nat /\ p <= m /\ \A q \in S : q \in Nat
      BY <1>1, <1>7, <2>1, <2>2
    <3>2. \A q \in S : q < p => q < m
      BY <3>1
    <3>3. QED
      BY <3>2
  <2>4. Cardinality(Below(p)) <= Cardinality(Below(m))
    BY <1>3, <2>2, <2>3, FS_Subset
  <2>5. Cardinality(Below(p)) < n
    BY <1>3, <2>2, <2>4
  <2>6. QED
    BY <1>2, <2>5
<1>8. QED
  BY <1>4, <1>5, <1>6, <1>7

-----------------------------------------------------------------------------
(* What people and the catalogue do between the steps of the chain.          *)
ShopChange ==
  \/ \E h \in Collections, p \in Items : Stock(h, p) \/ Unstock(h, p)
  \/ \E p \in Items : Reprice(p) \/ Learn(p)
  \/ \E h \in Collections, g \in Codes : Mark(h, g)

LEMMA ChangeRests == ShopChange => UNCHANGED chainVars
BY DEF ShopChange, Stock, Unstock, Reprice, Learn, Mark, Change

LEMMA ChangeKeepsTypes ==
  ASSUME ShopTypes, ShopChange
  PROVE  ShopTypes'
<1>1. UNCHANGED <<step, unsampled, cursor, pages, batch, week, mishaps>> /\ changes' \in Nat
  BY DEF ShopChange, Stock, Unstock, Reprice, Learn, Mark, Change, chainVars, ShopTypes
<1>2. /\ shelf' \in [Collections -> SUBSET Items] /\ learnt' \subseteq Cards
      /\ tag' \in [Items -> [date : Nat, price : Nat]]
      /\ stayed' \in [Collections -> SUBSET Items]
  <2>1. CASE \E h \in Collections, p \in Items : Stock(h, p) \/ Unstock(h, p)
    BY <2>1 DEF ShopTypes, Stock, Unstock
  <2>2. ASSUME NEW p \in Items, Reprice(p)
        PROVE  tag' \in [Items -> [date : Nat, price : Nat]] /\ UNCHANGED <<shelf, learnt, stayed>>
    <3>1. [date |-> week, price |-> tag[p].price + 1] \in [date : Nat, price : Nat]
      BY DEF ShopTypes
    <3>2. tag' = [tag EXCEPT ![p] = [date |-> week, price |-> tag[p].price + 1]]
      BY <2>2 DEF Reprice
    <3>3. QED
      BY <2>2, <3>1, <3>2 DEF ShopTypes, Reprice
  <2>3. CASE \E p \in Items : Learn(p)
    BY <2>3 DEF ShopTypes, Learn
  <2>4. CASE \E h \in Collections, g \in Codes : Mark(h, g)
    BY <2>4 DEF ShopTypes, Mark
  <2>5. QED
    BY <2>1, <2>2, <2>3, <2>4 DEF ShopChange, ShopTypes
<1>3. /\ code' \in [Collections -> Codes \cup {"absent", "none"}]
      /\ mark' \in [Collections -> Codes \cup {"none"}] /\ raced' \subseteq Collections
  <2>1. CASE \E h \in Collections, g \in Codes : Mark(h, g)
    BY <2>1 DEF ShopTypes, Mark
  <2>2. CASE UNCHANGED <<code, mark, raced>>
    BY <2>2 DEF ShopTypes
  <2>3. QED
    BY <2>1, <2>2 DEF ShopChange, Stock, Unstock, Reprice, Learn
<1>4. QED
  BY <1>1, <1>2, <1>3 DEF ShopTypes

(* The rows of a page *)
LEMMA PageIsRows ==
  ASSUME ShopTypes, NEW h \in Collections, h \in DOMAIN cursor, NEW S \in SUBSET Items
  PROVE  /\ PageRows(h, S) \subseteq ShopRows
         /\ \A r \in PageRows(h, S) :
              r.handle = h /\ r.page = cursor[h].page /\ r.seen = week /\ r.item \in S
         /\ \A r, s \in PageRows(h, S) : r.item = s.item => r = s
         /\ \A p \in S : \E r \in PageRows(h, S) : r.item = p
<1>1. cursor[h].page \in Nat
  BY DEF ShopTypes, Cursors
<1>2. \A p \in S : tag[p].date \in Nat /\ tag[p].price \in Nat
  BY DEF ShopTypes
<1> DEFINE Line(p) == [item |-> p, date |-> tag[p].date, price |-> tag[p].price,
                       seen |-> week, handle |-> h, page |-> cursor[h].page]
<1>3. /\ \A p \in S : Line(p) \in PageRows(h, S)
      /\ \A r \in PageRows(h, S) : \E p \in S : r = Line(p)
  BY DEF PageRows
<1>4. ASSUME NEW p \in S
      PROVE  /\ Line(p) \in ShopRows /\ Line(p).item = p /\ Line(p).handle = h
             /\ Line(p).page = cursor[h].page /\ Line(p).seen = week
  BY <1>1, <1>2 DEF ShopRows, ShopTypes
<1> HIDE DEF Line
<1>5. QED
  BY <1>3, <1>4

LEMMA CursorMoves ==
  ASSUME ShopTypes, NEW h \in DOMAIN cursor,
         NEW c \in [page : Nat, since : Nat, over : BOOLEAN]
  PROVE  /\ [cursor EXCEPT ![h] = c] \in Cursors
         /\ [cursor EXCEPT ![h].over = TRUE] \in Cursors
         /\ DOMAIN [cursor EXCEPT ![h] = c] = DOMAIN cursor
         /\ DOMAIN [cursor EXCEPT ![h].over = TRUE] = DOMAIN cursor
<1>1. PICK H \in SUBSET Collections : cursor \in [H -> [page : Nat, since : Nat, over : BOOLEAN]]
  BY DEF ShopTypes, Cursors
<1>2. /\ [cursor EXCEPT ![h] = c] \in [H -> [page : Nat, since : Nat, over : BOOLEAN]]
      /\ [cursor EXCEPT ![h].over = TRUE] \in [H -> [page : Nat, since : Nat, over : BOOLEAN]]
  BY <1>1
<1>3. QED
  BY <1>1, <1>2 DEF Cursors

LEMMA NextPageIs ==
  ASSUME ShopTypes, NEW h \in Collections, NextPage(h) # {}
  PROVE  /\ NextPage(h) \in SUBSET Items /\ Max(NextPage(h)) \in Nat
         /\ \A p \in shelf[h] : cursor[h].since < p /\ p <= Max(NextPage(h)) => p \in NextPage(h)
<1> DEFINE S == {p \in shelf[h] : p > cursor[h].since}
<1>1. S \in SUBSET Items /\ PageSize \in Nat \ {0} /\ NextPage(h) = Lowest(S, PageSize)
  BY ShopAssumption DEF ShopTypes, NextPage
<1> HIDE DEF S
<1>2. /\ NextPage(h) \subseteq S /\ Max(NextPage(h)) \in NextPage(h)
      /\ \A p \in S : p <= Max(NextPage(h)) => p \in NextPage(h)
  BY <1>1, LowestAnswers
<1>3. Max(NextPage(h)) \in Nat
  BY <1>1, <1>2, ShopAssumption
<1>4. QED
  BY <1>1, <1>2, <1>3 DEF S

(* What a chain that ends leaves *)
LEMMA EndRests ==
  ASSUME ShopTypes, EndChain
  PROVE  /\ step' = "idle" /\ unsampled' = {} /\ cursor' = Nothing /\ cursor' \in Cursors
         /\ DOMAIN cursor' = {} /\ stayed' = [h \in Collections |-> {}]
         /\ batch' = [p \in Items |-> {}]
<1>1. Nothing \in [{} -> [page : Nat, since : Nat, over : BOOLEAN]] /\ DOMAIN Nothing = {}
  BY DEF Nothing
<1>2. Nothing \in Cursors
  BY <1>1 DEF Cursors
<1>3. QED
  BY <1>1, <1>2 DEF EndChain

LEMMA StepKeepsTypes ==
  ASSUME ShopTypes, FilesInv, ShopStep
  PROVE  ShopTypes'
<1>1. UNCHANGED <<shelf, tag, learnt, mark, raced, changes>>
  BY DEF ShopStep, FetchCollections, ReadUnclassified, StartFetch, FetchFails, EndFetch,
    ProcessToParquet, StageRaw, Classify, SkipHandle, FetchPage, ShopRest
<1>2. CASE FetchCollections
  <2>1. /\ UNCHANGED <<unsampled, cursor, stayed, batch, mishaps>> /\ week' = week + 1
        /\ step' = "collected"
    BY <1>2 DEF FetchCollections
  <2>2. code' \in [Collections -> Codes \cup {"absent", "none"}]
    BY <1>2 DEF FetchCollections, Added, ShopTypes
  <2>3. \A p \in Items : \A r \in batch[p] : r.item = p /\ r.seen <= week + 1
    <3>1. ASSUME NEW p \in Items, NEW r \in batch[p] PROVE r.seen <= week + 1
      <4>1. r \in ShopRows /\ r.seen <= week /\ week \in Nat
        BY <3>1 DEF ShopTypes
      <4>2. r.seen \in Nat
        BY <4>1 DEF ShopRows
      <4>3. QED
        BY <4>1, <4>2
    <3>2. QED
      BY <3>1 DEF ShopTypes
  <2>4. QED
    BY <1>1, <2>1, <2>2, <2>3 DEF ShopTypes, ShopSteps
<1>3. CASE ReadUnclassified \/ EndFetch
  BY <1>1, <1>3 DEF ReadUnclassified, EndFetch, Unclassified, ShopTypes, ShopSteps
<1>4. CASE \E h \in Collections : Classify(h) \/ SkipHandle(h)
  <2>1. UNCHANGED <<step, cursor, stayed, batch, week>> /\ unsampled' \subseteq Collections
        /\ mishaps' \in Nat
    BY <1>4 DEF Classify, SkipHandle, Mishap, ShopTypes
  <2>2. code' \in [Collections -> Codes \cup {"absent", "none"}]
    BY <1>4 DEF Classify, SkipHandle, Verdict, Codes, ShopTypes
  <2>3. QED
    BY <1>1, <2>1, <2>2 DEF ShopTypes
<1>5. CASE StageRaw \/ FetchFails
  <2>1. EndChain /\ UNCHANGED <<code, week>> /\ mishaps' \in Nat
    BY <1>5 DEF StageRaw, FetchFails, Mishap, ShopTypes
  <2>2. QED
    BY <1>1, <2>1, EndRests DEF ShopTypes, ShopSteps
<1>6. CASE StartFetch
  <2>1. UNCHANGED <<code, week, mishaps>>
    BY <1>6 DEF StartFetch
  <2>2. CASE Active = {}
    <3>1. EndChain
      BY <1>6, <2>2 DEF StartFetch
    <3>2. QED
      BY <1>1, <2>1, <3>1, EndRests DEF ShopTypes, ShopSteps
  <2>3. CASE Active # {}
    <3>1. /\ step' = "fetch" /\ stayed' = shelf /\ UNCHANGED <<unsampled, batch>>
          /\ cursor' = [h \in Active |-> [page |-> 0, since |-> 0, over |-> FALSE]]
      BY <1>6, <2>3 DEF StartFetch
    <3>2. [page |-> 0, since |-> 0, over |-> FALSE] \in [page : Nat, since : Nat, over : BOOLEAN]
      OBVIOUS
    <3>3. cursor' \in [Active -> [page : Nat, since : Nat, over : BOOLEAN]]
      BY <3>1, <3>2
    <3>4. cursor' \in Cursors
      BY <3>3 DEF Cursors, Active
    <3>5. QED
      BY <1>1, <2>1, <3>1, <3>4 DEF ShopTypes, ShopSteps
  <2>4. QED
    BY <2>2, <2>3
<1>7. ASSUME NEW h \in Collections, FetchPage(h) PROVE ShopTypes'
  <2>1. UNCHANGED <<code, step, unsampled, stayed, batch, week, mishaps>> /\ h \in DOMAIN cursor
    BY <1>7 DEF FetchPage
  <2>2. cursor' \in Cursors
    <3>1. cursor[h].page \in Nat
      BY <2>1 DEF ShopTypes, Cursors
    <3>2. CASE NextPage(h) = {}
      <4>1. cursor' = [cursor EXCEPT ![h].over = TRUE]
        BY <1>7, <3>2 DEF FetchPage
      <4>2. [page |-> 0, since |-> 0, over |-> FALSE] \in [page : Nat, since : Nat, over : BOOLEAN]
        OBVIOUS
      <4>3. QED
        BY <2>1, <4>1, <4>2, CursorMoves
    <3>3. CASE NextPage(h) # {}
      <4>1. PICK c : c = [page |-> cursor[h].page + 1, since |-> Max(NextPage(h)), over |-> FALSE]
        OBVIOUS
      <4>2. cursor' = [cursor EXCEPT ![h] = c]
        BY <1>7, <3>3, <4>1 DEF FetchPage
      <4>3. Max(NextPage(h)) \in Nat
        BY <3>3, NextPageIs
      <4>4. c \in [page : Nat, since : Nat, over : BOOLEAN]
        BY <3>1, <4>1, <4>3
      <4>5. QED
        BY <2>1, <4>2, <4>4, CursorMoves
    <3>4. QED
      BY <3>2, <3>3
  <2>3. QED
    BY <1>1, <2>1, <2>2 DEF ShopTypes
<1>8. CASE ProcessToParquet
  <2>1. UNCHANGED <<code, unsampled, cursor, stayed, week, mishaps>> /\ step' = "stage"
        /\ batch' = [p \in Items |-> {r \in Dedupe(Read) : r.item = p}]
    BY <1>8 DEF ProcessToParquet
  <2>2. ASSUME NEW r \in Read PROVE r \in ShopRows /\ r.seen <= week
    BY DEF Read, FilesInv
  <2>3. Dedupe(Read) \subseteq Read
    BY DEF Dedupe
  <2>4. QED
    BY <1>1, <2>1, <2>2, <2>3 DEF ShopTypes, ShopSteps
<1>9. QED
  BY <1>2, <1>3, <1>4, <1>5, <1>6, <1>7, <1>8 DEF ShopStep

(* The marks of the operator *)
LEMMA MarksKeep ==
  ASSUME ShopTypes, MarkInv, MarksSurvive, ShopNext
  PROVE  MarkInv' /\ MarksSurvive'
<1>1. CASE \E h \in Collections, g \in Codes : Mark(h, g)
  <2>1. PICK h \in Collections, g \in Codes : Mark(h, g)
    BY <1>1
  <2>2. /\ code' = [code EXCEPT ![h] = g] /\ mark' = [mark EXCEPT ![h] = g]
        /\ raced' = (IF h \in unsampled THEN raced \cup {h} ELSE raced \ {h})
        /\ unsampled' = unsampled /\ g \notin {"absent", "none"}
    BY <2>1 DEF Mark, Change, chainVars, Codes
  <2>3. /\ code'[h] = g /\ mark'[h] = g
        /\ \A k \in Collections : k # h => code'[k] = code[k] /\ mark'[k] = mark[k]
    BY <2>2 DEF ShopTypes
  <2>4. MarkInv'
    BY <2>2, <2>3 DEF MarkInv
  <2>5. MarksSurvive'
    BY <2>2, <2>3 DEF MarksSurvive
  <2>6. QED
    BY <2>4, <2>5
<1>2. ASSUME UNCHANGED <<mark, raced>>, code' = code, unsampled' \subseteq unsampled
      PROVE  MarkInv' /\ MarksSurvive'
  BY <1>2 DEF MarkInv, MarksSurvive
<1>3. CASE FetchCollections
  <2>1. UNCHANGED <<mark, raced, unsampled>> /\ code' = Added(code)
    BY <1>3 DEF FetchCollections, ShopRest
  <2>2. \A h \in Collections : code'[h] = IF code[h] = "absent" THEN "none" ELSE code[h]
    BY <2>1 DEF Added
  <2>3. MarkInv'
    BY <2>1, <2>2 DEF MarkInv
  <2>4. MarksSurvive'
    BY <2>1, <2>2 DEF MarkInv, MarksSurvive
  <2>5. QED
    BY <2>3, <2>4
<1>4. CASE ReadUnclassified
  BY <1>4 DEF ReadUnclassified, ShopRest, Unclassified, MarkInv, MarksSurvive
<1>5. ASSUME NEW h \in Collections, Classify(h) PROVE MarkInv' /\ MarksSurvive'
  <2>1. /\ UNCHANGED <<mark, raced>> /\ h \in unsampled /\ unsampled' = unsampled \ {h}
        /\ code' = [code EXCEPT ![h] = Verdict(h)]
    BY <1>5 DEF Classify, ShopRest
  <2>2. /\ code'[h] \notin {"absent", "none"}
        /\ \A k \in Collections : k # h => code'[k] = code[k]
    BY <2>1 DEF ShopTypes, Verdict
  <2>3. MarkInv'
    BY <2>1, <2>2 DEF MarkInv
  <2>4. MarksSurvive'
    BY <2>1, <2>2 DEF MarkInv, MarksSurvive
  <2>5. QED
    BY <2>3, <2>4
<1>6. CASE (\E h \in Collections : SkipHandle(h) \/ FetchPage(h)) \/ EndFetch \/ ProcessToParquet
           \/ StartFetch \/ FetchFails \/ StageRaw
  <2>1. UNCHANGED <<mark, raced, code>> /\ unsampled' \subseteq unsampled
    BY <1>6 DEF SkipHandle, FetchPage, EndFetch, ProcessToParquet, StartFetch, FetchFails, StageRaw,
      EndChain, ShopRest
  <2>2. QED
    BY <1>2, <2>1
<1>7. CASE (\E h \in Collections, p \in Items : Stock(h, p) \/ Unstock(h, p))
           \/ \E p \in Items : Reprice(p) \/ Learn(p)
  <2>1. UNCHANGED <<mark, raced, code, unsampled>>
    BY <1>7 DEF Stock, Unstock, Reprice, Learn, Change, chainVars
  <2>2. QED
    BY <1>2, <2>1
<1>8. QED
  BY <1>1, <1>3, <1>4, <1>5, <1>6, <1>7 DEF ShopNext, ShopStep

-----------------------------------------------------------------------------
(* The files *)
LEMMA FilesRest ==
  ASSUME ShopTypes, FilesInv, pages' = pages, week' \in Nat, week <= week'
  PROVE  FilesInv'
<1>1. ASSUME NEW x \in DOMAIN pages, NEW r \in pages[x] PROVE r.seen <= week'
  <2>1. r.seen \in Nat /\ r.seen <= week /\ week \in Nat
    BY DEF FilesInv, ShopRows, ShopTypes
  <2>2. QED
    BY <2>1
<1>2. QED
  BY <1>1 DEF FilesInv

LEMMA PageIsSaved ==
  ASSUME ShopTypes, FilesInv, NEW h \in Collections, FetchPage(h), NextPage(h) # {}
  PROVE  /\ h \in DOMAIN cursor /\ PageFile(h) = <<h, cursor[h].page>> /\ cursor[h].page \in Nat
         /\ DOMAIN pages' = DOMAIN pages \cup {PageFile(h)}
         /\ pages' = [x \in DOMAIN pages' |-> pages'[x]]
         /\ pages'[PageFile(h)] = PageRows(h, NextPage(h))
         /\ \A x \in DOMAIN pages : x # PageFile(h) => pages'[x] = pages[x]
<1>1. h \in DOMAIN cursor /\ pages' = Saved(h, PageRows(h, NextPage(h)))
  BY DEF FetchPage
<1>2. cursor[h].page \in Nat
  BY <1>1 DEF ShopTypes, Cursors
<1>3. QED
  BY <1>1, <1>2 DEF Saved, PageFile

LEMMA FetchKeepsFiles ==
  ASSUME ShopTypes, FilesInv, NEW h \in Collections, FetchPage(h)
  PROVE  FilesInv'
<1>1. week' = week /\ week \in Nat
  BY DEF FetchPage, ShopTypes
<1>2. CASE NextPage(h) = {}
  <2>1. pages' = pages
    BY <1>2 DEF FetchPage
  <2>2. QED
    BY <1>1, <2>1, FilesRest
<1>3. CASE NextPage(h) # {}
  <2> DEFINE new == PageRows(h, NextPage(h))
  <2>1. /\ h \in DOMAIN cursor /\ PageFile(h) = <<h, cursor[h].page>> /\ cursor[h].page \in Nat
        /\ DOMAIN pages' = DOMAIN pages \cup {PageFile(h)}
        /\ pages' = [x \in DOMAIN pages' |-> pages'[x]]
        /\ pages'[PageFile(h)] = new
        /\ \A x \in DOMAIN pages : x # PageFile(h) => pages'[x] = pages[x]
    BY <1>3, PageIsSaved
  <2>2. NextPage(h) \in SUBSET Items
    BY <1>3, NextPageIs
  <2>3. /\ new \subseteq ShopRows
        /\ \A r \in new : r.handle = h /\ r.page = cursor[h].page /\ r.seen = week
        /\ \A r, s \in new : r.item = s.item => r = s
    BY <2>1, <2>2, PageIsRows
  <2> HIDE DEF new
  <2>4. DOMAIN pages' \subseteq Collections \X Nat
    BY <2>1 DEF FilesInv
  <2>5. ASSUME NEW x \in DOMAIN pages'
        PROVE  /\ pages'[x] \subseteq ShopRows
               /\ \A r \in pages'[x] : r.handle = x[1] /\ r.page = x[2] /\ r.seen <= week'
               /\ \A r, s \in pages'[x] : r.item = s.item => r = s
    <3>1. CASE x = PageFile(h)
      BY <1>1, <2>1, <2>3, <3>1
    <3>2. CASE x # PageFile(h)
      <4>1. x \in DOMAIN pages /\ pages'[x] = pages[x]
        BY <2>1, <2>5, <3>2
      <4>2. QED
        BY <1>1, <4>1 DEF FilesInv
    <3>3. QED
      BY <3>1, <3>2
  <2>6. \E n \in Nat : \A x \in DOMAIN pages' : x[2] <= n
    <3>1. PICK n \in Nat : \A x \in DOMAIN pages : x[2] <= n
      BY DEF FilesInv
    <3>2. PICK k \in Nat : k = cursor[h].page
      BY <2>1
    <3>3. \A x \in DOMAIN pages' : x[2] \in Nat
      BY <2>4
    <3>4. \A x \in DOMAIN pages' : x[2] <= n \/ x[2] = k
      BY <2>1, <3>1, <3>2
    <3>5. n + k \in Nat /\ \A x \in DOMAIN pages' : x[2] <= n + k
      BY <3>3, <3>4
    <3>6. QED
      BY <3>5
  <2>7. pages' \in [DOMAIN pages' -> SUBSET ShopRows]
    BY <2>1, <2>5
  <2>8. QED
    BY <2>4, <2>5, <2>6, <2>7 DEF FilesInv
<1>4. QED
  BY <1>2, <1>3

LEMMA FilesKeep ==
  ASSUME ShopTypes, FilesInv, ShopNext
  PROVE  FilesInv'
<1>1. CASE FetchCollections
  <2>1. pages' = pages /\ week' = week + 1 /\ week \in Nat
    BY <1>1 DEF FetchCollections, ShopTypes
  <2>2. QED
    BY <2>1, FilesRest
<1>2. CASE \E h \in Collections : FetchPage(h)
  BY <1>2, FetchKeepsFiles
<1>3. CASE ~FetchCollections /\ ~\E h \in Collections : FetchPage(h)
  <2>1. pages' = pages /\ week' = week /\ week \in Nat
    BY <1>3 DEF ShopNext, ShopStep, ReadUnclassified, StartFetch, FetchFails, EndFetch,
      ProcessToParquet, StageRaw, Classify, SkipHandle, Stock, Unstock, Reprice, Learn, Mark, Change,
      chainVars, ShopTypes
  <2>2. QED
    BY <2>1, FilesRest
<1>4. QED
  BY <1>1, <1>2, <1>3

-----------------------------------------------------------------------------
(* What is fetched *)
LEMMA ChangeKeepsFetch ==
  ASSUME ShopTypes, FetchInv, ShopChange
  PROVE  FetchInv'
<1>1. UNCHANGED <<step, cursor, pages, week>>
  BY ChangeRests DEF chainVars
<1>2. ASSUME NEW h \in Collections PROVE stayed'[h] \subseteq shelf'[h] /\ stayed'[h] \subseteq stayed[h]
  <2>1. CASE \E k \in Collections, p \in Items : Stock(k, p)
    BY <2>1 DEF Stock, ShopTypes, FetchInv
  <2>2. CASE \E k \in Collections, p \in Items : Unstock(k, p)
    BY <2>2 DEF Unstock, ShopTypes, FetchInv
  <2>3. CASE UNCHANGED <<shelf, stayed>>
    BY <2>3 DEF FetchInv
  <2>4. QED
    BY <2>1, <2>2, <2>3 DEF ShopChange, Reprice, Learn, Mark
<1>3. DOMAIN cursor \subseteq Collections
  BY DEF ShopTypes, Cursors
<1>4. \A h \in DOMAIN cursor : FetchedUpTo(h)'
  BY <1>1, <1>2, <1>3 DEF FetchInv, FetchedUpTo
<1>5. QED
  BY <1>1, <1>2, <1>4 DEF FetchInv

LEMMA EndKeepsFetch ==
  ASSUME ShopTypes, FetchInv, EndChain, UNCHANGED shelf
  PROVE  FetchInv'
<1>1. /\ step' = "idle" /\ cursor' = Nothing /\ DOMAIN cursor' = {}
      /\ stayed' = [h \in Collections |-> {}]
  BY EndRests
<1>2. QED
  BY <1>1 DEF FetchInv

LEMMA StartKeepsFetch ==
  ASSUME ShopTypes, FetchInv, StartFetch
  PROVE  FetchInv'
<1>1. CASE Active = {}
  BY <1>1, EndKeepsFetch DEF StartFetch, ShopRest
<1>2. CASE Active # {}
  <2>1. /\ step' = "fetch" /\ stayed' = shelf /\ shelf' = shelf
        /\ cursor' = [h \in Active |-> [page |-> 0, since |-> 0, over |-> FALSE]]
    BY <1>2 DEF StartFetch, ShopRest
  <2>2. ASSUME NEW h \in DOMAIN cursor' PROVE FetchedUpTo(h)'
    <3>1. cursor'[h].page = 0 /\ cursor'[h].since = 0 /\ cursor'[h].over = FALSE /\ h \in Collections
      BY <2>1, <2>2 DEF Active
    <3>2. \A p \in stayed'[h] : p \in Nat \ {0}
      BY <2>1, <3>1, ShopAssumption DEF ShopTypes
    <3>3. \A p \in stayed'[h] : ~(p <= 0)
      BY <3>2
    <3>4. \A k \in Nat : ~(k < 0)
      OBVIOUS
    <3>5. QED
      BY <3>1, <3>3, <3>4 DEF FetchedUpTo
  <2>3. QED
    BY <2>1, <2>2 DEF FetchInv
<1>3. QED
  BY <1>1, <1>2

LEMMA PageKeepsFetch ==
  ASSUME ShopTypes, FilesInv, FetchInv, NEW h \in Collections, FetchPage(h)
  PROVE  FetchInv'
<1>1. /\ step = "fetch" /\ h \in DOMAIN cursor /\ ~cursor[h].over
      /\ UNCHANGED <<shelf, step, stayed, week>>
  BY DEF FetchPage, ShopRest
<1>2. cursor[h].page \in Nat /\ cursor[h].since \in Nat /\ FetchedUpTo(h) /\ stayed[h] \subseteq shelf[h]
      /\ shelf[h] \in SUBSET Items /\ Items \subseteq Nat
  BY <1>1, ShopAssumption DEF ShopTypes, Cursors, FetchInv
<1>3. PICK page, since \in Nat : page = cursor[h].page /\ since = cursor[h].since
  BY <1>2
<1>4. \A p \in shelf[h] : p \in Nat
  BY <1>2
<1>5. DOMAIN cursor' = DOMAIN cursor /\ \A k \in DOMAIN cursor : k # h => cursor'[k] = cursor[k]
  BY DEF FetchPage
<1>6. CASE NextPage(h) = {}
  <2>1. cursor' = [cursor EXCEPT ![h].over = TRUE] /\ pages' = pages
    BY <1>6 DEF FetchPage
  <2>2. cursor'[h].page = page /\ cursor'[h].since = since
    <3>1. PICK H \in SUBSET Collections : cursor \in [H -> [page : Nat, since : Nat, over : BOOLEAN]]
      BY DEF ShopTypes, Cursors
    <3>2. cursor'[h] = [cursor[h] EXCEPT !.over = TRUE]
      BY <1>1, <2>1, <3>1
    <3>3. QED
      BY <1>1, <1>3, <3>1, <3>2
  <2>3. ASSUME NEW p \in shelf[h] PROVE p <= since
    <3> DEFINE S == {q \in shelf[h] : q > cursor[h].since}
    <3>1. S \in SUBSET Items /\ NextPage(h) = Lowest(S, PageSize) /\ PageSize \in Nat \ {0}
      BY <1>2, ShopAssumption DEF NextPage
    <3> HIDE DEF S
    <3>2. S = {}
      BY <1>6, <3>1, LowestAnswers
    <3>3. ~(p > since)
      BY <1>3, <2>3, <3>2 DEF S
    <3>4. QED
      BY <1>4, <3>3
  <2>4. FetchedUpTo(h)'
    BY <1>1, <1>2, <1>3, <2>1, <2>2, <2>3 DEF FetchedUpTo
  <2>5. ASSUME NEW k \in DOMAIN cursor, k # h PROVE FetchedUpTo(k)'
    BY <1>1, <1>5, <2>1, <2>5 DEF FetchInv, FetchedUpTo
  <2>6. QED
    BY <1>1, <1>5, <2>4, <2>5 DEF FetchInv
<1>7. CASE NextPage(h) # {}
  <2> DEFINE new == PageRows(h, NextPage(h))
             most == Max(NextPage(h))
  <2>1. cursor' = [cursor EXCEPT ![h] = [page |-> cursor[h].page + 1, since |-> most, over |-> FALSE]]
    BY <1>7 DEF FetchPage
  <2>2. cursor'[h] = [page |-> page + 1, since |-> most, over |-> FALSE]
    BY <1>1, <1>3, <2>1 DEF ShopTypes, Cursors
  <2>3. /\ PageFile(h) = <<h, page>>
        /\ DOMAIN pages' = DOMAIN pages \cup {PageFile(h)}
        /\ pages'[PageFile(h)] = new
        /\ \A x \in DOMAIN pages : x # PageFile(h) => pages'[x] = pages[x]
    BY <1>3, <1>7, PageIsSaved
  <2>4. /\ NextPage(h) \in SUBSET Items /\ most \in Nat
        /\ \A p \in shelf[h] : since < p /\ p <= most => p \in NextPage(h)
    BY <1>3, <1>7, NextPageIs
  <2>5. /\ \A r \in new : r.seen = week
        /\ \A p \in NextPage(h) : \E r \in new : r.item = p
    BY <1>1, <2>4, PageIsRows
  <2> HIDE DEF new, most
  <2>6. ASSUME NEW k \in Nat, k < page + 1
        PROVE  <<h, k>> \in DOMAIN pages' /\ \A r \in pages'[<<h, k>>] : r.seen = week'
    <3>1. CASE k = page
      BY <1>1, <2>3, <2>5, <3>1
    <3>2. CASE k # page
      <4>1. k < cursor[h].page /\ <<h, k>> # PageFile(h)
        BY <1>3, <2>3, <2>6, <3>2
      <4>2. <<h, k>> \in DOMAIN pages /\ \A r \in pages[<<h, k>>] : r.seen = week
        BY <1>2, <4>1 DEF FetchedUpTo
      <4>3. QED
        BY <1>1, <2>3, <4>1, <4>2
    <3>3. QED
      BY <3>1, <3>2
  <2>7. ASSUME NEW p \in stayed'[h], p <= most
        PROVE  \E k \in Nat : k < page + 1 /\ \E r \in pages'[<<h, k>>] : r.item = p
    <3>1. p \in stayed[h] /\ p \in shelf[h] /\ p \in Nat
      BY <1>1, <1>2, <1>4, <2>7
    <3>2. CASE p <= since
      <4>1. PICK k \in Nat : k < cursor[h].page /\ \E r \in pages[<<h, k>>] : r.item = p
        BY <1>2, <1>3, <3>1, <3>2 DEF FetchedUpTo
      <4>2. k < page + 1 /\ <<h, k>> # PageFile(h) /\ <<h, k>> \in DOMAIN pages
        BY <1>2, <1>3, <2>3, <4>1 DEF FetchedUpTo
      <4>3. pages'[<<h, k>>] = pages[<<h, k>>]
        BY <2>3, <4>2
      <4>4. QED
        BY <4>1, <4>2, <4>3
    <3>3. CASE since < p
      <4>1. \E r \in new : r.item = p
        BY <2>4, <2>5, <2>7, <3>1, <3>3
      <4>2. page < page + 1 /\ pages'[<<h, page>>] = new
        BY <2>3
      <4>3. QED
        BY <4>1, <4>2
    <3>4. p <= since \/ since < p
      BY <3>1
    <3>5. QED
      BY <3>2, <3>3, <3>4
  <2>8. FetchedUpTo(h)'
    <3>1. cursor'[h].page = page + 1 /\ cursor'[h].since = most /\ cursor'[h].over = FALSE
      BY <2>2
    <3>2. QED
      BY <2>6, <2>7, <3>1 DEF FetchedUpTo
  <2>9. ASSUME NEW k \in DOMAIN cursor, k # h PROVE FetchedUpTo(k)'
    <3>1. FetchedUpTo(k) /\ cursor'[k] = cursor[k]
      BY <1>5, <2>9 DEF FetchInv
    <3>2. \A n \in Nat : <<k, n>> # PageFile(h)
      BY <2>3, <2>9
    <3>3. \A n \in Nat : n < cursor[k].page =>
            <<k, n>> \in DOMAIN pages /\ <<k, n>> \in DOMAIN pages' /\ pages'[<<k, n>>] = pages[<<k, n>>]
      BY <2>3, <3>1, <3>2 DEF FetchedUpTo
    <3>4. QED
      BY <1>1, <3>1, <3>3 DEF FetchedUpTo
  <2>10. QED
    BY <1>1, <1>5, <2>8, <2>9 DEF FetchInv
<1>8. QED
  BY <1>6, <1>7

LEMMA FetchKeep ==
  ASSUME ShopTypes, FilesInv, FetchInv, ShopStep
  PROVE  FetchInv'
<1>1. CASE FetchCollections
  <2>1. /\ step = "idle" /\ step' = "collected" /\ UNCHANGED <<shelf, cursor, stayed, pages>>
    BY <1>1 DEF FetchCollections, ShopRest
  <2>2. cursor = Nothing /\ DOMAIN cursor = {}
    BY <2>1 DEF FetchInv, Nothing
  <2>3. QED
    BY <2>1, <2>2 DEF FetchInv
<1>2. CASE ReadUnclassified \/ (\E h \in Collections : Classify(h) \/ SkipHandle(h))
  <2>1. /\ UNCHANGED <<shelf, cursor, stayed, pages, week>>
        /\ step \in {"collected", "classify"} /\ step' = "classify"
    BY <1>2 DEF ReadUnclassified, Classify, SkipHandle, ShopRest
  <2>2. QED
    BY <2>1 DEF FetchInv, FetchedUpTo
<1>3. CASE EndFetch \/ ProcessToParquet
  <2>1. /\ UNCHANGED <<shelf, cursor, stayed, pages, week>>
        /\ step' \in {"process", "stage"} /\ \A h \in DOMAIN cursor : cursor[h].over
    BY <1>3 DEF EndFetch, ProcessToParquet, ShopRest, FetchInv
  <2>2. QED
    BY <2>1 DEF FetchInv, FetchedUpTo
<1>4. CASE StageRaw \/ FetchFails
  BY <1>4, EndKeepsFetch DEF StageRaw, FetchFails, ShopRest
<1>5. QED
  BY <1>1, <1>2, <1>3, <1>4, StartKeepsFetch, PageKeepsFetch DEF ShopStep

-----------------------------------------------------------------------------
(* What is merged *)
LEMMA ReadIs ==
  ASSUME FilesInv
  PROVE  /\ \A r \in Read : r \in ShopRows /\ <<r.handle, r.page>> \in DOMAIN pages
                            /\ r \in pages[<<r.handle, r.page>>]
         /\ \A r, s \in Read :
              r.item = s.item /\ r.handle = s.handle /\ r.page = s.page => r = s
         /\ \E n \in Nat : \A r \in Read : r.page <= n
<1>1. ASSUME NEW r \in Read
      PROVE  /\ r \in ShopRows /\ <<r.handle, r.page>> \in DOMAIN pages
             /\ r \in pages[<<r.handle, r.page>>]
  <2>1. PICK x \in DOMAIN pages : r \in pages[x]
    BY DEF Read
  <2>2. x \in Collections \X Nat /\ r \in ShopRows /\ r.handle = x[1] /\ r.page = x[2]
    BY <2>1 DEF FilesInv
  <2>3. x = <<r.handle, r.page>>
    BY <2>2
  <2>4. QED
    BY <2>1, <2>2, <2>3
<1>2. ASSUME NEW r \in Read, NEW s \in Read, r.item = s.item, r.handle = s.handle, r.page = s.page
      PROVE  r = s
  <2>1. PICK x : x = <<r.handle, r.page>>
    OBVIOUS
  <2>2. x \in DOMAIN pages /\ r \in pages[x] /\ s \in pages[x]
    BY <1>1, <1>2, <2>1
  <2>3. QED
    BY <1>2, <2>2 DEF FilesInv
<1>3. \E n \in Nat : \A r \in Read : r.page <= n
  <2>1. PICK n \in Nat : \A x \in DOMAIN pages : x[2] <= n
    BY DEF FilesInv
  <2>2. \A r \in Read : <<r.handle, r.page>>[2] <= n
    BY <1>1, <2>1
  <2>3. QED
    BY <2>2
<1>4. QED
  BY <1>1, <1>2, <1>3

LEMMA PlaceIs ==
  ASSUME NEW r \in ShopRows
  PROVE  \E k \in Nat : /\ k \in DOMAIN Handles /\ Handles[k] = r.handle /\ k <= Len(Handles)
                        /\ FilePlace(r) = <<Tier(r.handle), k, r.page>>
<1>1. /\ r.handle \in Collections /\ DOMAIN Handles = 1 .. Len(Handles) /\ Len(Handles) \in Nat
  BY ShopAssumption DEF ShopRows
<1>2. \E k \in DOMAIN Handles : Handles[k] = r.handle
  BY <1>1 DEF Collections
<1>3. PICK k : k = CHOOSE j \in DOMAIN Handles : Handles[j] = r.handle
  OBVIOUS
<1>4. k \in DOMAIN Handles /\ Handles[k] = r.handle
  BY <1>2, <1>3
<1>5. k \in Nat /\ k <= Len(Handles)
  BY <1>1, <1>4
<1>6. FilePlace(r) = <<Tier(r.handle), k, r.page>>
  BY <1>3 DEF FilePlace
<1>7. QED
  BY <1>4, <1>5, <1>6

(* Of the rows of one product and date there is a last one: of the highest    *)
(* tier, in the last file read, and of a file's rows only one.                *)
LEMMA OneIsKept ==
  ASSUME FilesInv, NEW r \in Read
  PROVE  \E best \in Dedupe(Read) : Same(best, r) /\ Tier(best.handle) >= Tier(r.handle)
<1> DEFINE R == {s \in Read : Same(s, r)}
           P(s) == FilePlace(s)
<1>1. PICK n \in Nat : \A s \in Read : s.page <= n
  BY ReadIs
<1>2. ASSUME NEW s \in R
      PROVE  /\ s \in ShopRows /\ s.page \in Nat /\ s.page <= n /\ P(s)[3] = s.page
             /\ P(s)[1] = Tier(s.handle) /\ P(s)[1] \in {0, 1}
             /\ P(s)[2] \in Nat /\ P(s)[2] <= Len(Handles) /\ Handles[P(s)[2]] = s.handle
  <2>1. s \in ShopRows /\ s \in Read
    BY ReadIs
  <2>2. PICK k \in Nat : /\ Handles[k] = s.handle /\ k <= Len(Handles)
                         /\ P(s) = <<Tier(s.handle), k, s.page>>
    BY <2>1, PlaceIs
  <2>3. s.page \in Nat
    BY <2>1 DEF ShopRows
  <2> HIDE DEF P
  <2>4. QED
    BY <1>1, <2>1, <2>2, <2>3 DEF Tier
<1>3. r \in R
  BY DEF Same
<1> HIDE DEF R, P
<1>4. PICK grade \in {P(s)[1] : s \in R} : \A t \in {P(s)[1] : s \in R} : t <= grade
  <2>1. {P(s)[1] : s \in R} \in SUBSET Nat /\ {P(s)[1] : s \in R} # {}
        /\ \A t \in {P(s)[1] : s \in R} : t <= 1
    BY <1>2, <1>3
  <2>2. QED
    BY <2>1, HasGreatest
<1> DEFINE R1 == {s \in R : P(s)[1] = grade}
<1>5. PICK k \in {P(s)[2] : s \in R1} : \A j \in {P(s)[2] : s \in R1} : j <= k
  <2>1. Len(Handles) \in Nat
    BY ShopAssumption
  <2>2. {P(s)[2] : s \in R1} \in SUBSET Nat /\ {P(s)[2] : s \in R1} # {}
        /\ \A j \in {P(s)[2] : s \in R1} : j <= Len(Handles)
    BY <1>2, <1>4
  <2>3. QED
    BY <2>1, <2>2, HasGreatest
<1> DEFINE R2 == {s \in R1 : P(s)[2] = k}
<1>6. PICK page \in {P(s)[3] : s \in R2} : \A j \in {P(s)[3] : s \in R2} : j <= page
  <2>1. {P(s)[3] : s \in R2} \in SUBSET Nat /\ {P(s)[3] : s \in R2} # {}
        /\ \A j \in {P(s)[3] : s \in R2} : j <= n
    BY <1>2, <1>5
  <2>2. QED
    BY <1>1, <2>1, HasGreatest
<1>7. PICK best \in R2 : P(best)[3] = page
  BY <1>6
<1>8. best \in R /\ P(best)[1] = grade /\ P(best)[2] = k /\ P(best)[3] = page
  BY <1>7
<1>9. ASSUME NEW other \in R, other # best PROVE ComesBefore(P(other), P(best))
  <2>1. P(other)[1] <= grade
    BY <1>4
  <2>2. P(other)[1] = grade => P(other)[2] <= k
    BY <1>5
  <2>3. P(other)[1] = grade /\ P(other)[2] = k => P(other)[3] <= page
    BY <1>6
  <2>4. ~(P(other)[1] = grade /\ P(other)[2] = k /\ P(other)[3] = page)
    <3>1. ASSUME P(other)[2] = k, P(other)[3] = page PROVE FALSE
      <4>1. other.handle = best.handle /\ other.page = best.page
        BY <1>2, <1>8, <3>1
      <4>2. other \in Read /\ best \in Read /\ other.item = best.item
        BY <1>8 DEF R, Same
      <4>3. QED
        BY <1>9, <4>1, <4>2, ReadIs
    <3>2. QED
      BY <3>1
  <2>5. /\ P(other)[1] \in Nat /\ P(other)[2] \in Nat /\ P(other)[3] \in Nat
        /\ grade \in Nat /\ k \in Nat /\ page \in Nat
    BY <1>2, <1>8
  <2>6. QED
    BY <1>8, <2>1, <2>2, <2>3, <2>4, <2>5 DEF ComesBefore
<1>10. best \in Dedupe(Read)
  <2>1. best \in Read /\ Same(best, r)
    BY <1>8 DEF R
  <2>2. ASSUME NEW other \in Read, Same(best, other), other # best
        PROVE  ComesBefore(FilePlace(other), FilePlace(best))
    <3>1. other \in R
      BY <2>1, <2>2 DEF R, Same
    <3>2. QED
      BY <1>9, <2>2, <3>1 DEF P
  <2>3. QED
    BY <2>1, <2>2 DEF Dedupe, Kept
<1>11. Tier(best.handle) >= Tier(r.handle)
  BY <1>2, <1>3, <1>4, <1>8
<1>12. Same(best, r)
  BY <1>8 DEF R
<1>13. QED
  BY <1>10, <1>11, <1>12

LEMMA MergeKeeps ==
  ASSUME ShopTypes, FilesInv, FetchInv, ProcessToParquet
  PROVE  OldRowsAreLeftovers' /\ InStockWins'
<1>1. /\ UNCHANGED <<cursor, pages, week>> /\ step' = "stage"
      /\ batch' = [p \in Items |-> {r \in Dedupe(Read) : r.item = p}] /\ Read' = Read
  BY DEF ProcessToParquet, Read
<1>2. Dedupe(Read) \subseteq Read
  BY DEF Dedupe
<1>3. ASSUME NEW r \in Read, r.seen < week, r.handle \in DOMAIN cursor
      PROVE  r.page >= cursor[r.handle].page
  <2>1. r \in ShopRows /\ r \in pages[<<r.handle, r.page>>]
    BY ReadIs
  <2>2. r.seen \in Nat /\ r.page \in Nat /\ week \in Nat /\ cursor[r.handle].page \in Nat
    BY <1>3, <2>1 DEF ShopRows, ShopTypes, Cursors
  <2>3. ASSUME r.page < cursor[r.handle].page PROVE FALSE
    <3>1. r.seen = week
      BY <1>3, <2>1, <2>2, <2>3 DEF FetchInv, FetchedUpTo
    <3>2. QED
      BY <1>3, <2>2, <3>1
  <2>4. QED
    BY <2>2, <2>3
<1>4. OldRowsAreLeftovers'
  BY <1>1, <1>2, <1>3 DEF OldRowsAreLeftovers
<1>5. ASSUME NEW r \in Read
      PROVE  \E best \in batch'[r.item] : best.date = r.date /\ Tier(best.handle) >= Tier(r.handle)
  <2>1. PICK best \in Dedupe(Read) : Same(best, r) /\ Tier(best.handle) >= Tier(r.handle)
    BY OneIsKept
  <2>2. r.item \in Items
    BY ReadIs DEF ShopRows
  <2>3. best \in batch'[r.item] /\ best.date = r.date
    BY <1>1, <2>1, <2>2 DEF Same
  <2>4. QED
    BY <2>1, <2>3
<1>6. InStockWins'
  BY <1>1, <1>5 DEF InStockWins
<1>7. QED
  BY <1>4, <1>6

LEMMA MergedRests ==
  ASSUME OldRowsAreLeftovers, InStockWins, UNCHANGED <<step, cursor, pages, batch, week>>
  PROVE  OldRowsAreLeftovers' /\ InStockWins'
BY DEF OldRowsAreLeftovers, InStockWins, Read

LEMMA MergedKeep ==
  ASSUME ShopTypes, FilesInv, FetchInv, OldRowsAreLeftovers, InStockWins, ShopNext
  PROVE  OldRowsAreLeftovers' /\ InStockWins'
<1>1. CASE ProcessToParquet
  BY <1>1, MergeKeeps
<1>2. CASE ShopChange
  BY <1>2, ChangeRests, MergedRests DEF chainVars
<1>3. CASE ShopStep /\ ~ProcessToParquet
  <2>1. step' # "stage"
    BY <1>3 DEF ShopStep, FetchCollections, ReadUnclassified, StartFetch, FetchFails, EndFetch,
      StageRaw, Classify, SkipHandle, FetchPage, EndChain
  <2>2. QED
    BY <2>1 DEF OldRowsAreLeftovers, InStockWins
<1>4. QED
  BY <1>1, <1>2, <1>3 DEF ShopNext, ShopChange

-----------------------------------------------------------------------------
LEMMA ShopInitKeeps == ShopInit => ShopInv
<1> SUFFICES ASSUME ShopInit PROVE ShopInv
  OBVIOUS
<1>1. Nothing \in [{} -> [page : Nat, since : Nat, over : BOOLEAN]] /\ DOMAIN Nothing = {}
  BY DEF Nothing
<1>2. ShopTypes
  <2>1. cursor \in Cursors
    BY <1>1 DEF ShopInit, Cursors
  <2>2. shelf \in [Collections -> SUBSET Items]
    BY ShopAssumption DEF ShopInit
  <2>3. tag \in [Items -> [date : Nat, price : Nat]]
    BY DEF ShopInit
  <2>4. QED
    BY <2>1, <2>2, <2>3 DEF ShopInit, ShopTypes, ShopSteps
<1>3. FilesInv
  <2>1. pages \in [DOMAIN pages -> SUBSET ShopRows] /\ DOMAIN pages = {} /\ 0 \in Nat
    BY <1>1 DEF ShopInit, Nothing
  <2>2. QED
    BY <2>1 DEF FilesInv
<1>4. FetchInv /\ MarkInv
  BY <1>1 DEF ShopInit, FetchInv, MarkInv
<1>5. QED
  BY <1>2, <1>3, <1>4 DEF ShopInit, ShopInv, MarksSurvive, OldRowsAreLeftovers, InStockWins

LEMMA ShopNextKeeps == ShopInv /\ [ShopNext]_shopVars => ShopInv'
<1> SUFFICES ASSUME ShopInv, [ShopNext]_shopVars PROVE ShopInv'
  OBVIOUS
<1>1. /\ ShopTypes /\ MarkInv /\ FilesInv /\ FetchInv /\ MarksSurvive /\ OldRowsAreLeftovers
      /\ InStockWins
  BY DEF ShopInv
<1>2. CASE UNCHANGED shopVars
  <2>1. ShopTypes' /\ MarkInv' /\ MarksSurvive'
    BY <1>1, <1>2 DEF shopVars, ShopTypes, MarkInv, MarksSurvive
  <2>2. FilesInv' /\ Read' = Read
    BY <1>1, <1>2 DEF shopVars, FilesInv, Read
  <2>3. FetchInv'
    BY <1>1, <1>2 DEF shopVars, FetchInv, FetchedUpTo
  <2>4. OldRowsAreLeftovers' /\ InStockWins'
    BY <1>1, <1>2, <2>2 DEF shopVars, OldRowsAreLeftovers, InStockWins
  <2>5. QED
    BY <2>1, <2>2, <2>3, <2>4 DEF ShopInv
<1>3. CASE ShopNext
  <2>1. ShopChange \/ ShopStep
    BY <1>3 DEF ShopNext, ShopChange
  <2>2. ShopTypes' /\ FetchInv'
    BY <1>1, <2>1, ChangeKeepsTypes, StepKeepsTypes, ChangeKeepsFetch, FetchKeep
  <2>3. MarkInv' /\ MarksSurvive'
    BY <1>1, <1>3, MarksKeep
  <2>4. FilesInv'
    BY <1>1, <1>3, FilesKeep
  <2>5. OldRowsAreLeftovers' /\ InStockWins'
    BY <1>1, <1>3, MergedKeep
  <2>6. QED
    BY <2>2, <2>3, <2>4, <2>5 DEF ShopInv
<1>4. QED
  BY <1>2, <1>3

(* Every page before the end is of this week, and the end is reached only    *)
(* when nothing is left, so what stayed is on one of the pages.              *)
LEMMA AllIsFetched == ShopInv => NothingIsMissed
<1> SUFFICES ASSUME ShopInv, step = "process", NEW h \in DOMAIN cursor, NEW p \in stayed[h]
             PROVE  \E r \in Read : r.item = p /\ r.handle = h /\ r.seen = week
  BY DEF NothingIsMissed
<1>1. FetchedUpTo(h) /\ cursor[h].over
  BY DEF ShopInv, FetchInv
<1>2. PICK k \in Nat : k < cursor[h].page /\ \E r \in pages[<<h, k>>] : r.item = p
  BY <1>1 DEF FetchedUpTo
<1>3. PICK r \in pages[<<h, k>>] : r.item = p
  BY <1>2
<1>4. <<h, k>> \in DOMAIN pages /\ r.seen = week
  BY <1>1, <1>2 DEF FetchedUpTo
<1>5. r \in Read /\ r.handle = h
  BY <1>4 DEF Read, ShopInv, FilesInv
<1>6. QED
  BY <1>3, <1>4, <1>5

LEMMA ShopTypesAre == ShopInv => ShopTypeOK
<1> SUFFICES ASSUME ShopInv PROVE ShopTypeOK
  OBVIOUS
<1>1. DOMAIN cursor \subseteq Collections
  BY DEF ShopInv, ShopTypes, Cursors
<1>2. QED
  BY <1>1 DEF ShopInv, ShopTypes, FilesInv, ShopTypeOK

-----------------------------------------------------------------------------
(* The sealed products: the tables, and what each bootstrap has in hand.      *)
Uuid(p, u) == [product |-> p, kind |-> "uuid", value |-> u]
Vendor(p, v) == [product |-> p, kind |-> "vendor", value |-> v]
IdRows == [product : Products, kind : {"uuid", "vendor"}, value : Uuids \cup Vendors]

Runs == [at : {"idle", "products", "identifiers", "done"}, file : Files, todo : SUBSET Uuids,
         product : Products \cup {0}, uuid : Uuids \cup {NoId},
         kinds : SUBSET {"uuid", "vendor"}, held : SUBSET Products, wrote : SUBSET IdRows,
         adds : SUBSET Products]

SealedTypes ==
  /\ published \in Files /\ identifiers \subseteq IdRows /\ DOMAIN priced \subseteq Products
  /\ priced \in [DOMAIN priced -> Nat] /\ DOMAIN filed \subseteq Uuids
  /\ filed \in [DOMAIN filed -> Vendors \cup {NoId}]
  /\ boot \in [Bootstraps -> Runs]

(* The products of the file that a run r has found, and those whose           *)
(* identifiers it is writing.                                                *)
Begun(r) == DOMAIN r.file \ r.todo
Working(r) == r.at = "identifiers"
HasId(r, u) == r.file[u] # NoId
Whose(r, p, u) == Uuid(p, u) \in r.wrote \/ (Working(r) /\ p = r.product /\ u = r.uuid)

(* What a run has written is of a product that it holds, and is what its file *)
(* has for the product; what it is through with is all written.               *)
Wrote(r) ==
  \A w \in r.wrote :
    /\ w.product \in r.held
    /\ \E u \in Begun(r) :
         /\ Whose(r, w.product, u)
         /\ w = Uuid(w.product, u) \/ (HasId(r, u) /\ w = Vendor(w.product, r.file[u]))
IsFiled(r, u) ==
  \E p \in r.held :
    Uuid(p, u) \in r.wrote /\ (HasId(r, u) => Vendor(p, r.file[u]) \in r.wrote)
Finished(r) == \A u \in Begun(r) : (Working(r) /\ u = r.uuid) \/ IsFiled(r, u)
Writing(r) ==
  Working(r) =>
    /\ r.product \in r.held /\ r.uuid \in Begun(r) /\ r.kinds \subseteq KindsOf(r.file[r.uuid])
    /\ "uuid" \notin r.kinds => Uuid(r.product, r.uuid) \in r.wrote
    /\ HasId(r, r.uuid) /\ "vendor" \notin r.kinds =>
         Vendor(r.product, r.file[r.uuid]) \in r.wrote
Progress(r) ==
  /\ r.at = "idle" => r = Idle
  /\ r.at = "done" => r.todo = {}
  /\ r.todo \subseteq DOMAIN r.file
  /\ Wrote(r) /\ Finished(r) /\ Writing(r)

(* A set of rows has one value per product and kind, and one product per     *)
(* value.                                                                    *)
Unique(S) == \A r, s \in S : Slot(r) = Slot(s) \/ Value(r) = Value(s) => r = s

(* What a run sees is as the table must be, and it writes over no uuid.      *)
Sees(b) ==
  /\ Unique(Seen(b))
  /\ \A w \in boot[b].wrote, r \in identifiers :
       w.kind = "uuid" /\ Slot(w) = Slot(r) => w = r
  /\ Working(boot[b]) =>
       \A r \in Seen(b) :
         r.kind = "uuid" /\ r.product = boot[b].product => r.value = boot[b].uuid

(* Every product a run has finished has a row to price it, or gets one.      *)
Prices(b) ==
  /\ boot[b].adds \cap DOMAIN priced = {}
  /\ boot[b].adds \subseteq {w.product : w \in boot[b].wrote}
  /\ \A w \in boot[b].wrote :
       \/ w.product \in DOMAIN priced \cup boot[b].adds
       \/ Working(boot[b]) /\ w.product = boot[b].product

(* Two runs hold different products and write different values.              *)
Apart(b, c) ==
  /\ boot[b].held \cap boot[c].held = {}
  /\ \A w \in boot[b].wrote, v \in boot[c].wrote : Value(w) # Value(v)

RunsInv ==
  /\ \A b \in Bootstraps : Progress(boot[b]) /\ Sees(b) /\ Prices(b)
  /\ \A b, c \in Bootstraps : b # c => Apart(b, c)

SealedInv ==
  SealedTypes /\ RunsInv /\ Unique(identifiers) /\ OnePricePerProduct /\ LastFileCounts

-----------------------------------------------------------------------------
LEMMA IdleRun ==
  /\ Idle \in Runs /\ Idle.at = "idle" /\ Idle.file = NoFileYet /\ Idle.todo = {}
  /\ Idle.wrote = {} /\ Idle.held = {} /\ Idle.adds = {} /\ DOMAIN NoFileYet = {}
  /\ Progress(Idle) /\ ~Working(Idle)
<1>1. NoFileYet \in [{} -> Vendors \cup {NoId}] /\ DOMAIN NoFileYet = {}
  BY DEF NoFileYet
<1>2. NoFileYet \in Files
  BY <1>1 DEF Files
<1>3. Idle \in Runs
  BY <1>2 DEF Idle, Runs
<1>4. QED
  BY <1>1, <1>3 DEF Idle, Progress, Wrote, Finished, Begun, Writing, Working

(* What the step of a run leaves of the others.                              *)
LEMMA OthersRest ==
  ASSUME SealedTypes, NEW b \in Bootstraps, NEW r, boot' = [boot EXCEPT ![b] = r]
  PROVE  boot'[b] = r /\ \A c \in Bootstraps : c # b => boot'[c] = boot[c]
BY DEF SealedTypes

LEMMA OthersSee ==
  ASSUME NEW c, boot'[c] = boot[c], UNCHANGED identifiers
  PROVE  WrittenOver(c)' = WrittenOver(c) /\ Seen(c)' = Seen(c)
BY DEF WrittenOver, Seen

(* A step of one run that writes to no table.                                *)
LEMMA RunSteps ==
  ASSUME SealedTypes, RunsInv, NEW b \in Bootstraps, NEW r \in Runs,
         boot' = [boot EXCEPT ![b] = r], UNCHANGED <<identifiers, priced>>,
         Progress(r), Sees(b)', Prices(b)',
         \A c \in Others(b) : /\ r.held \cap boot[c].held = {}
                              /\ \A w \in r.wrote, v \in boot[c].wrote : Value(w) # Value(v)
  PROVE  RunsInv' /\ boot' \in [Bootstraps -> Runs]
<1>1. boot'[b] = r /\ \A c \in Bootstraps : c # b => boot'[c] = boot[c]
  BY OthersRest
<1>2. boot' \in [Bootstraps -> Runs]
  BY DEF SealedTypes
<1>3. ASSUME NEW c \in Bootstraps PROVE Progress(boot'[c]) /\ Sees(c)' /\ Prices(c)'
  <2>1. CASE c = b
    BY <1>1, <2>1
  <2>2. CASE c # b
    <3>1. boot'[c] = boot[c] /\ Progress(boot[c]) /\ Sees(c) /\ Prices(c)
      BY <1>1, <2>2 DEF RunsInv
    <3>2. Seen(c)' = Seen(c)
      BY <3>1, OthersSee
    <3>3. Sees(c)'
      BY <3>1, <3>2 DEF Sees
    <3>4. Prices(c)'
      BY <3>1 DEF Prices
    <3>5. QED
      BY <3>1, <3>3, <3>4
  <2>3. QED
    BY <2>1, <2>2
<1>4. ASSUME NEW c \in Bootstraps, NEW d \in Bootstraps, c # d PROVE Apart(c, d)'
  <2>1. CASE c = b
    <3>1. d \in Others(b) /\ boot'[d] = boot[d]
      BY <1>1, <1>4, <2>1 DEF Others
    <3>2. QED
      BY <1>1, <2>1, <3>1 DEF Apart
  <2>2. CASE d = b
    <3>1. c \in Others(b) /\ boot'[c] = boot[c]
      BY <1>1, <1>4, <2>2 DEF Others
    <3>2. QED
      BY <1>1, <2>2, <3>1 DEF Apart
  <2>3. CASE c # b /\ d # b
    <3>1. Apart(c, d) /\ boot'[c] = boot[c] /\ boot'[d] = boot[d]
      BY <1>1, <1>4, <2>3 DEF RunsInv
    <3>2. QED
      BY <3>1 DEF Apart
  <2>4. QED
    BY <2>1, <2>2, <2>3
<1>5. QED
  BY <1>2, <1>3, <1>4 DEF RunsInv

LEMMA RollbackKeeps ==
  ASSUME SealedInv, NEW b \in Bootstraps, Rollback(b), Quiet
  PROVE  SealedInv'
<1>1. SealedTypes /\ RunsInv /\ Unique(identifiers)
  BY DEF SealedInv
<1>2. boot' = [boot EXCEPT ![b] = Idle] /\ UNCHANGED <<published, identifiers, priced, filed>>
  BY DEF Rollback, Quiet
<1>3. boot'[b] = Idle
  BY <1>1, <1>2, OthersRest
<1>4. Seen(b)' = identifiers
  BY <1>2, <1>3, IdleRun DEF Seen, WrittenOver
<1>5. Sees(b)' /\ Prices(b)'
  BY <1>1, <1>2, <1>3, <1>4, IdleRun DEF Sees, Prices, Unique
<1>6. RunsInv' /\ boot' \in [Bootstraps -> Runs]
  BY <1>1, <1>2, <1>5, IdleRun, RunSteps
<1>7. QED
  BY <1>2, <1>6 DEF SealedInv, SealedTypes, Unique, OnePricePerProduct, LastFileCounts

(* Only a run's own fields change while it works.                            *)
LEMMA TablesRest ==
  ASSUME SealedInv, Quiet, RunsInv', boot' \in [Bootstraps -> Runs]
  PROVE  SealedInv'
BY DEF SealedInv, Quiet, SealedTypes, Unique, OnePricePerProduct, LastFileCounts

LEMMA PublishKeeps ==
  ASSUME SealedInv, Publish
  PROVE  SealedInv'
<1>1. UNCHANGED <<identifiers, priced, boot, filed>> /\ published' \in Files
  BY DEF Publish, Files
<1>2. ASSUME NEW c \in Bootstraps PROVE Seen(c)' = Seen(c)
  BY <1>1, OthersSee
<1>3. RunsInv'
  BY <1>1, <1>2 DEF SealedInv, RunsInv, Sees, Prices, Apart
<1>4. QED
  BY <1>1, <1>3 DEF SealedInv, SealedTypes, Unique, OnePricePerProduct, LastFileCounts

LEMMA FetchSetKeeps ==
  ASSUME SealedInv, NEW b \in Bootstraps, FetchSet(b)
  PROVE  SealedInv'
<1> DEFINE r == [Idle EXCEPT !.at = "products", !.file = published, !.todo = DOMAIN published]
<1>1. SealedTypes /\ RunsInv /\ boot[b] = Idle
  BY DEF SealedInv, FetchSet, RunsInv, Progress
<1>2. /\ boot' = [boot EXCEPT ![b] = r] /\ UNCHANGED <<published, identifiers, priced, filed>>
      /\ Quiet
  BY DEF FetchSet, Quiet
<1>3. /\ r \in Runs /\ r.at = "products" /\ r.file = published /\ r.todo = DOMAIN published
      /\ r.wrote = {} /\ r.held = {} /\ r.adds = {}
  <2>1. DOMAIN published \subseteq Uuids /\ published \in Files
    BY <1>1 DEF SealedTypes, Files
  <2>2. QED
    BY <2>1, IdleRun DEF Runs, Idle
<1> HIDE DEF r
<1>4. Progress(r)
  BY <1>3 DEF Progress, Wrote, Finished, Begun, Writing, Working
<1>5. boot'[b] = r
  BY <1>1, <1>2, OthersRest
<1>6. Seen(b)' = Seen(b)
  BY <1>1, <1>2, <1>3, <1>5, IdleRun DEF Seen, WrittenOver
<1>7. Sees(b) /\ Prices(b)
  BY <1>1 DEF RunsInv
<1>8. Sees(b)' /\ Prices(b)'
  BY <1>2, <1>3, <1>5, <1>6, <1>7 DEF Sees, Prices, Unique, Working
<1>9. RunsInv' /\ boot' \in [Bootstraps -> Runs]
  BY <1>1, <1>2, <1>3, <1>4, <1>8, RunSteps
<1>10. QED
  BY <1>2, <1>9, TablesRest

LEMMA FindKeeps ==
  ASSUME SealedInv, NEW b \in Bootstraps, NEW u \in Uuids, Find(b, u)
  PROVE  SealedInv'
<1>1. SealedTypes /\ RunsInv /\ boot[b] \in Runs /\ Quiet
  BY DEF SealedInv, Find, SealedTypes
<1>2. PICK p \in (IF Of(b, u) # {} THEN Of(b, u) ELSE Fresh) :
        /\ \A c \in Others(b) : p \notin boot[c].held
        /\ boot' = [boot EXCEPT ![b] =
             [boot[b] EXCEPT !.at = "identifiers", !.todo = @ \ {u}, !.uuid = u, !.product = p,
                       !.held = @ \cup {p}, !.kinds = KindsOf(boot[b].file[u])]]
  BY DEF Find
<1> DEFINE old == boot[b]
           r == [old EXCEPT !.at = "identifiers", !.todo = @ \ {u}, !.uuid = u, !.product = p,
                            !.held = @ \cup {p}, !.kinds = KindsOf(boot[b].file[u])]
<1>3. boot' = [boot EXCEPT ![b] = r]
  BY <1>1, <1>2
<1>4. old.at = "products" /\ u \in old.todo /\ old.todo \subseteq DOMAIN old.file
  BY <1>1 DEF Find, RunsInv, Progress
<1>5. p \in Products
  <2>1. Seen(b) \subseteq IdRows
    BY <1>1 DEF Seen, SealedTypes, Runs
  <2>2. \A row \in IdRows : row.product \in Products
    BY DEF IdRows
  <2>3. QED
    BY <1>2, <2>1, <2>2 DEF Of, Fresh
<1>6. KindsOf(boot[b].file[u]) \subseteq {"uuid", "vendor"} /\ "uuid" \in KindsOf(boot[b].file[u])
  BY DEF KindsOf
<1>7. /\ r \in Runs /\ r.at = "identifiers" /\ r.todo = old.todo \ {u} /\ r.uuid = u
      /\ r.product = p /\ r.held = old.held \cup {p} /\ r.kinds = KindsOf(old.file[u])
      /\ r.file = old.file /\ r.wrote = old.wrote /\ r.adds = old.adds
  BY <1>1, <1>5, <1>6 DEF Runs
<1>8. boot'[b] = r /\ UNCHANGED <<identifiers, priced>>
  BY <1>1, <1>3, OthersRest DEF Quiet
<1> HIDE DEF r
<1>9. Progress(old) /\ Sees(b) /\ Prices(b) /\ ~Working(old)
  BY <1>1, <1>4 DEF RunsInv, Working
<1>10. Begun(r) = Begun(old) \cup {u}
  BY <1>4, <1>7 DEF Begun
<1>11. Wrote(r) /\ Finished(r)
  <2>1. Wrote(r)
    BY <1>7, <1>9, <1>10 DEF Progress, Wrote, Whose, HasId
  <2>2. Finished(r)
    BY <1>7, <1>9, <1>10 DEF Progress, Finished, IsFiled, HasId, Working
  <2>3. QED
    BY <2>1, <2>2
<1>12. Writing(r)
  BY <1>7, <1>10 DEF Writing, HasId, KindsOf
<1>13. Progress(r)
  BY <1>4, <1>7, <1>11, <1>12 DEF Progress
<1>14. Seen(b)' = Seen(b)
  BY <1>7, <1>8 DEF Seen, WrittenOver
<1>15. ASSUME NEW row \in Seen(b), row.kind = "uuid", row.product = p PROVE row.value = u
  <2>1. CASE Of(b, u) # {}
    <3>1. PICK own \in Seen(b) : own.kind = "uuid" /\ own.value = u /\ own.product = p
      BY <1>2, <2>1 DEF Of
    <3>2. Slot(own) = Slot(row)
      BY <1>15, <3>1 DEF Slot
    <3>3. QED
      BY <1>9, <3>1, <3>2 DEF Sees, Unique
  <2>2. CASE Of(b, u) = {}
    <3>1. p \notin InUse
      BY <1>2, <2>2 DEF Fresh
    <3>2. row.product \in InUse
      <4>1. CASE row \in identifiers
        BY <4>1 DEF InUse
      <4>2. CASE row \in old.wrote
        BY <1>9, <4>2 DEF Progress, Wrote, InUse
      <4>3. QED
        BY <4>1, <4>2 DEF Seen
    <3>3. QED
      BY <1>15, <3>1, <3>2
  <2>3. QED
    BY <2>1, <2>2
<1>16. Sees(b)'
  <2>1. Unique(Seen(b)')
    BY <1>9, <1>14 DEF Sees
  <2>2. QED
    BY <1>7, <1>8, <1>9, <1>14, <1>15, <2>1 DEF Sees, Unique
<1>17. Prices(b)'
  BY <1>7, <1>8, <1>9 DEF Prices
<1>18. ASSUME NEW c \in Others(b)
       PROVE  /\ r.held \cap boot[c].held = {}
              /\ \A w \in r.wrote, v \in boot[c].wrote : Value(w) # Value(v)
  <2>1. Apart(b, c)
    BY <1>1 DEF RunsInv, Others
  <2>2. QED
    BY <1>2, <1>7, <2>1 DEF Apart
<1>19. RunsInv' /\ boot' \in [Bootstraps -> Runs]
  BY <1>1, <1>3, <1>7, <1>8, <1>13, <1>16, <1>17, <1>18, RunSteps
<1>20. QED
  BY <1>1, <1>19, TablesRest

LEMMA SameRow ==
  ASSUME NEW r \in IdRows, NEW s \in IdRows, Slot(r) = Slot(s), r.value = s.value
  PROVE  r = s
BY DEF IdRows, Slot

LEMMA IdentifyKeeps ==
  ASSUME SealedInv, NEW b \in Bootstraps, NEW k \in {"uuid", "vendor"}, Identify(b, k)
  PROVE  SealedInv'
<1> DEFINE old == boot[b]
           value == IF k = "uuid" THEN old.uuid ELSE old.file[old.uuid]
           row == [product |-> old.product, kind |-> k, value |-> value]
           r == [old EXCEPT !.wrote = Upsert(b, row), !.kinds = @ \ {k}]
<1>1. /\ SealedTypes /\ RunsInv /\ old \in Runs /\ Quiet /\ UNCHANGED <<identifiers, priced>>
      /\ Working(old) /\ k \in old.kinds /\ ~Awaited(b, row)
  BY DEF SealedInv, Identify, SealedTypes, Working, Quiet
<1>2. Progress(old) /\ Sees(b) /\ Prices(b)
  BY <1>1 DEF RunsInv
<1>3. CASE \E s \in Seen(b) : Value(s) = Value(row) /\ s.product # row.product
  <2>1. Rollback(b)
    BY <1>3 DEF Identify
  <2>2. QED
    BY <1>1, <2>1, RollbackKeeps
<1>4. CASE \A s \in Seen(b) : Value(s) = Value(row) => s.product = row.product
  <2>1. boot' = [boot EXCEPT ![b] = r]
    BY <1>4 DEF Identify
  <2>2. /\ old.product \in old.held /\ old.uuid \in Begun(old)
        /\ old.kinds \subseteq KindsOf(old.file[old.uuid])
    BY <1>1, <1>2 DEF Progress, Writing
  <2>3. /\ k = "uuid" => row = Uuid(old.product, old.uuid)
        /\ k = "vendor" => HasId(old, old.uuid) /\ row = Vendor(old.product, old.file[old.uuid])
    BY <1>1, <2>2 DEF Uuid, Vendor, HasId, KindsOf
  <2>4. /\ old.held \subseteq Products /\ old.wrote \subseteq IdRows /\ identifiers \subseteq IdRows
        /\ old.uuid \in Uuids
    <3>1. old.file \in Files /\ old.held \subseteq Products /\ old.wrote \subseteq IdRows
      BY <1>1 DEF Runs
    <3>2. DOMAIN old.file \subseteq Uuids
      BY <3>1 DEF Files
    <3>3. QED
      BY <1>1, <2>2, <3>1, <3>2 DEF Begun, SealedTypes
  <2>5. value \in Uuids \cup Vendors
    <3>1. CASE k = "uuid"
      BY <2>4, <3>1
    <3>2. CASE k = "vendor"
      <4>1. old.file \in Files /\ old.uuid \in DOMAIN old.file /\ old.file[old.uuid] # NoId
        BY <1>1, <2>2, <2>3, <3>2 DEF Runs, Begun, HasId
      <4>2. old.file[old.uuid] \in Vendors
        BY <4>1 DEF Files
      <4>3. QED
        BY <3>2, <4>2
    <3>3. QED
      BY <3>1, <3>2
  <2>6. row \in IdRows /\ row.product = old.product /\ row.kind = k /\ row.value = value
    BY <2>2, <2>4, <2>5 DEF IdRows
  <2> DEFINE new == Upsert(b, row)
  <2>7. \A w : w \in new <=> w = row \/ (w \in old.wrote /\ Slot(w) # Slot(row))
    BY DEF Upsert
  <2>8. new \subseteq IdRows
    BY <2>4, <2>6, <2>7
  <2>9. /\ r \in Runs /\ r.at = old.at /\ r.file = old.file /\ r.todo = old.todo
        /\ r.product = old.product /\ r.uuid = old.uuid /\ r.kinds = old.kinds \ {k}
        /\ r.held = old.held /\ r.wrote = new /\ r.adds = old.adds
    <3> HIDE DEF new, row, old
    <3>1. r = [old EXCEPT !.wrote = new, !.kinds = @ \ {k}]
      BY DEF new
    <3>2. old \in Runs
      BY <1>1
    <3>3. new \in SUBSET IdRows
      BY <2>8
    <3> HIDE DEF r
    <3>4. r \in Runs
      BY <3>1, <3>2, <3>3 DEF Runs
    <3>5. QED
      BY <3>1, <3>2, <3>4 DEF Runs
  <2>10. boot'[b] = r
    BY <1>1, <2>1, OthersRest
  <2> HIDE DEF r, new
  <2> SUFFICES /\ Progress(r) /\ Sees(b)' /\ Prices(b)'
               /\ \A c \in Others(b) :
                    /\ r.held \cap boot[c].held = {}
                    /\ \A w \in r.wrote, v \in boot[c].wrote : Value(w) # Value(v)
    <3> HIDE DEF old, row
    <3>1. RunsInv' /\ boot' \in [Bootstraps -> Runs]
      BY <1>1, <2>1, <2>9, RunSteps
    <3>2. QED
      BY <1>1, <3>1, TablesRest
  <2> HIDE DEF value, row, old
  (* what a run sees of its own product is of the uuid it works at *)
  <2>11. \A s \in Seen(b) : s.kind = "uuid" /\ s.product = old.product => s.value = old.uuid
    BY <1>1, <1>2 DEF Sees, old
  <2>12. ASSUME NEW u \in Uuids, Uuid(old.product, u) \in old.wrote PROVE u = old.uuid
    <3>1. Uuid(old.product, u) \in Seen(b)
      BY <2>12 DEF Seen, old
    <3>2. QED
      BY <2>11, <3>1 DEF Uuid
  <2>13. Begun(r) = Begun(old) /\ Begun(old) \subseteq Uuids /\ Working(r)
    <3>1. DOMAIN old.file \subseteq Uuids
      BY <1>1 DEF Runs, Files
    <3>2. QED
      BY <1>1, <2>9, <3>1 DEF Begun, Working
  <2>14. Wrote(r)
    <3> SUFFICES ASSUME NEW w \in new
                 PROVE  /\ w.product \in old.held
                        /\ \E u \in Begun(old) :
                             /\ Whose(r, w.product, u)
                             /\ \/ w = Uuid(w.product, u)
                                \/ HasId(r, u) /\ w = Vendor(w.product, r.file[u])
      BY <2>9, <2>13 DEF Wrote
    <3>1. CASE w = row
      <4>1. Whose(r, w.product, old.uuid)
        BY <2>6, <2>9, <2>13, <3>1 DEF Whose
      <4>2. w = Uuid(w.product, old.uuid) \/ (HasId(r, old.uuid) /\ w = Vendor(w.product, r.file[old.uuid]))
        BY <2>3, <2>6, <2>9, <3>1 DEF HasId
      <4>3. QED
        BY <2>2, <2>6, <3>1, <4>1, <4>2
    <3>2. CASE w # row
      <4>1. w \in old.wrote /\ Slot(w) # Slot(row)
        BY <2>7, <3>2
      <4>2. PICK u \in Begun(old) :
              /\ Whose(old, w.product, u)
              /\ w = Uuid(w.product, u) \/ (HasId(old, u) /\ w = Vendor(w.product, old.file[u]))
        BY <1>2, <4>1 DEF Progress, Wrote, old
      <4>3. w.product \in old.held
        BY <1>2, <4>1 DEF Progress, Wrote, old
      <4>4. Whose(r, w.product, u)
        <5>1. CASE Working(old) /\ w.product = old.product /\ u = old.uuid
          BY <2>9, <2>13, <5>1 DEF Whose
        <5>2. CASE Uuid(w.product, u) \in old.wrote
          <6>1. CASE w.product = old.product
            BY <2>9, <2>12, <2>13, <4>2, <5>2, <6>1 DEF Whose
          <6>2. CASE w.product # old.product
            <7>1. Slot(Uuid(w.product, u)) # Slot(row)
              BY <2>6, <6>2 DEF Slot, Uuid
            <7>2. QED
              BY <2>7, <2>9, <5>2, <7>1 DEF Whose
          <6>3. QED
            BY <6>1, <6>2
        <5>3. QED
          BY <4>2, <5>1, <5>2 DEF Whose
      <4>5. QED
        BY <2>9, <4>2, <4>3, <4>4 DEF HasId
    <3>3. QED
      BY <3>1, <3>2
  <2>15. Finished(r)
    <3> SUFFICES ASSUME NEW u \in Begun(old), u # old.uuid PROVE IsFiled(r, u)
      BY <2>9, <2>13 DEF Finished
    <3>1. IsFiled(old, u)
      BY <1>2 DEF Progress, Finished, old
    <3>2. PICK p \in old.held :
            Uuid(p, u) \in old.wrote /\ (HasId(old, u) => Vendor(p, old.file[u]) \in old.wrote)
      BY <3>1 DEF IsFiled
    <3>3. p # old.product
      BY <2>12, <2>13, <3>2
    <3>4. Slot(Uuid(p, u)) # Slot(row) /\ Slot(Vendor(p, old.file[u])) # Slot(row)
      BY <2>6, <3>3 DEF Slot, Uuid, Vendor
    <3>5. QED
      BY <2>7, <2>9, <3>2, <3>4 DEF IsFiled, HasId
  <2>16. Writing(r)
    <3>1. "uuid" \notin r.kinds => Uuid(old.product, old.uuid) \in new
      <4>1. CASE k = "uuid"
        BY <2>3, <2>7, <4>1
      <4>2. CASE k = "vendor"
        <5>1. Slot(Uuid(old.product, old.uuid)) # Slot(row)
          BY <2>6, <4>2 DEF Slot, Uuid
        <5>2. "uuid" \notin old.kinds => Uuid(old.product, old.uuid) \in old.wrote
          BY <1>1, <1>2 DEF Progress, Writing, old
        <5>3. QED
          BY <2>7, <2>9, <4>2, <5>1, <5>2
      <4>3. QED
        BY <4>1, <4>2
    <3>2. HasId(old, old.uuid) /\ "vendor" \notin r.kinds => Vendor(old.product, old.file[old.uuid]) \in new
      <4>1. CASE k = "vendor"
        BY <2>3, <2>7, <4>1
      <4>2. CASE k = "uuid"
        <5>1. Slot(Vendor(old.product, old.file[old.uuid])) # Slot(row)
          BY <2>6, <4>2 DEF Slot, Vendor
        <5>2. HasId(old, old.uuid) /\ "vendor" \notin old.kinds
                => Vendor(old.product, old.file[old.uuid]) \in old.wrote
          BY <1>1, <1>2 DEF Progress, Writing, old
        <5>3. QED
          BY <2>7, <2>9, <4>2, <5>1, <5>2
      <4>3. QED
        BY <4>1, <4>2
    <3>3. QED
      BY <2>2, <2>9, <2>13, <3>1, <3>2 DEF Writing, HasId
  <2>17. Progress(r)
    <3>1. old.at = "identifiers" /\ old.todo \subseteq DOMAIN old.file
      BY <1>1, <1>2 DEF Working, Progress, old
    <3>2. QED
      BY <2>9, <2>14, <2>15, <2>16, <3>1 DEF Progress
  <2>18. \A s : s \in Seen(b)' => s = row \/ (s \in Seen(b) /\ Slot(s) # Slot(row))
    <3>1. \A s : s \in Seen(b)' => s \in new \/ (s \in identifiers /\ \A w \in new : Slot(w) # Slot(s))
      BY <1>1, <2>9, <2>10 DEF Seen, WrittenOver
    <3>2. ASSUME NEW s \in identifiers, \A w \in new : Slot(w) # Slot(s)
          PROVE  s \in Seen(b) /\ Slot(s) # Slot(row)
      <4>1. Slot(s) # Slot(row)
        BY <2>7, <3>2
      <4>2. \A w \in old.wrote : Slot(w) # Slot(s)
        BY <2>7, <3>2, <4>1
      <4>3. QED
        BY <4>1, <4>2 DEF Seen, WrittenOver, old
    <3>3. ASSUME NEW s \in new, s # row PROVE s \in Seen(b) /\ Slot(s) # Slot(row)
      BY <2>7, <3>3 DEF Seen, old
    <3>4. QED
      BY <3>1, <3>2, <3>3
  <2>19. Sees(b)'
    <3>1. Unique(Seen(b)')
      <4>1. \A s \in Seen(b) : Value(s) = Value(row) => Slot(s) = Slot(row)
        BY <1>4 DEF Value, Slot
      <4>2. Unique(Seen(b))
        BY <1>2 DEF Sees
      <4>3. QED
        BY <2>18, <4>1, <4>2 DEF Unique
    <3>2. ASSUME NEW w \in new, NEW s \in identifiers, w.kind = "uuid", Slot(w) = Slot(s)
          PROVE  w = s
      <4>1. CASE w # row
        BY <1>2, <2>7, <3>2, <4>1 DEF Sees, old
      <4>2. CASE w = row
        <5>1. s \in Seen(b)
          <6>1. CASE s \in WrittenOver(b)
            <7>1. PICK v \in old.wrote : Slot(v) = Slot(s)
              BY <6>1 DEF WrittenOver, old
            <7>2. v.kind = "uuid"
              BY <3>2, <7>1 DEF Slot
            <7>3. v = s
              BY <1>2, <7>1, <7>2 DEF Sees, old
            <7>4. QED
              BY <7>3 DEF Seen, old
          <6>2. CASE s \notin WrittenOver(b)
            BY <6>2 DEF Seen
          <6>3. QED
            BY <6>1, <6>2
        <5>2. s.kind = "uuid" /\ s.product = old.product /\ k = "uuid"
          BY <2>6, <3>2, <4>2 DEF Slot
        <5>3. s.value = row.value
          BY <2>6, <2>11, <5>1, <5>2 DEF value
        <5>4. QED
          BY <2>4, <2>6, <3>2, <4>2, <5>3, SameRow
      <4>3. QED
        BY <4>1, <4>2
    <3>3. ASSUME NEW s \in Seen(b)', s.kind = "uuid", s.product = old.product
          PROVE  s.value = old.uuid
      <4>1. CASE s = row
        BY <2>6, <3>3, <4>1 DEF value
      <4>2. CASE s # row
        BY <2>11, <2>18, <3>3, <4>2
      <4>3. QED
        BY <4>1, <4>2
    <3>4. QED
      BY <1>1, <2>9, <2>10, <3>1, <3>2, <3>3 DEF Sees
  <2>20. Prices(b)'
    <3>1. r.adds \cap DOMAIN priced = {} /\ r.adds = old.adds
      BY <1>2, <2>9 DEF Prices, old
    <3>2. ASSUME NEW p \in r.adds PROVE p \in {w.product : w \in r.wrote}
      <4>1. PICK w \in old.wrote : w.product = p
        BY <1>2, <3>1, <3>2 DEF Prices, old
      <4>2. CASE Slot(w) = Slot(row)
        BY <2>7, <2>9, <4>1, <4>2 DEF Slot
      <4>3. CASE Slot(w) # Slot(row)
        BY <2>7, <2>9, <4>1, <4>3
      <4>4. QED
        BY <4>2, <4>3
    <3>3. ASSUME NEW w \in r.wrote
          PROVE  w.product \in DOMAIN priced \cup r.adds \/ (Working(r) /\ w.product = r.product)
      <4>1. CASE w = row
        BY <2>6, <2>9, <2>13, <4>1
      <4>2. CASE w # row
        BY <1>2, <2>7, <2>9, <2>13, <3>1, <3>3, <4>2 DEF Prices, old
      <4>3. QED
        BY <4>1, <4>2
    <3>4. QED
      BY <1>1, <2>10, <3>1, <3>2, <3>3 DEF Prices
  <2>21. ASSUME NEW c \in Others(b)
         PROVE  /\ r.held \cap boot[c].held = {}
                /\ \A w \in r.wrote, v \in boot[c].wrote : Value(w) # Value(v)
    <3>1. Apart(b, c)
      BY <1>1 DEF RunsInv, Others
    <3>2. \A v \in boot[c].wrote : Value(v) # Value(row)
      BY <1>1 DEF Awaited
    <3>3. QED
      BY <2>7, <2>9, <3>1, <3>2 DEF Apart, old
  <2>22. QED
    BY <2>17, <2>19, <2>20, <2>21
<1>5. QED
  BY <1>3, <1>4

LEMMA EnsurePricedKeeps ==
  ASSUME SealedInv, NEW b \in Bootstraps, EnsurePriced(b)
  PROVE  SealedInv'
<1> DEFINE old == boot[b]
           p == old.product
           r == [old EXCEPT !.at = IF old.todo = {} THEN "done" ELSE "products",
                            !.product = 0, !.uuid = NoId, !.adds = @ \cup ({p} \ DOMAIN priced)]
<1>1. /\ SealedTypes /\ RunsInv /\ old \in Runs /\ Quiet /\ UNCHANGED <<identifiers, priced>>
      /\ Working(old) /\ old.kinds = {} /\ boot' = [boot EXCEPT ![b] = r]
  BY DEF SealedInv, EnsurePriced, SealedTypes, Working, Quiet
<1>2. Progress(old) /\ Sees(b) /\ Prices(b)
  BY <1>1 DEF RunsInv
<1>3. p \in old.held /\ old.uuid \in Begun(old) /\ IsFiled(old, old.uuid)
      /\ Uuid(p, old.uuid) \in old.wrote
  BY <1>1, <1>2 DEF Progress, Writing, IsFiled
<1>4. /\ r \in Runs /\ r.at = (IF old.todo = {} THEN "done" ELSE "products") /\ r.file = old.file
      /\ r.todo = old.todo /\ r.held = old.held /\ r.wrote = old.wrote
      /\ r.adds = old.adds \cup ({p} \ DOMAIN priced)
  <2>1. p \in Products
    BY <1>1, <1>3 DEF Runs
  <2> HIDE DEF p, old
  <2>2. QED
    BY <1>1, <2>1 DEF Runs
<1>5. boot'[b] = r
  BY <1>1, OthersRest
<1> HIDE DEF r, old
<1>6. ~Working(r) /\ Begun(r) = Begun(old)
  BY <1>4 DEF Working, Begun
<1>7. Wrote(r)
  BY <1>2, <1>3, <1>4, <1>6 DEF Progress, Wrote, Whose, HasId
<1>8. Finished(r)
  BY <1>2, <1>3, <1>4, <1>6 DEF Progress, Finished, IsFiled, HasId
<1>9. Progress(r)
  BY <1>2, <1>4, <1>6, <1>7, <1>8 DEF Progress, Writing
<1>10. Seen(b)' = Seen(b)
  BY <1>1, <1>4, <1>5 DEF Seen, WrittenOver, old
<1>11. Sees(b)'
  <2>1. Unique(Seen(b)')
    BY <1>2, <1>10 DEF Sees
  <2>2. QED
    BY <1>1, <1>2, <1>4, <1>5, <1>6, <2>1 DEF Sees, old
<1>12. Prices(b)'
  <2>1. p \in {w.product : w \in r.wrote}
    BY <1>3, <1>4 DEF Uuid
  <2>2. QED
    BY <1>1, <1>2, <1>4, <1>5, <1>6, <2>1 DEF Prices, old
<1>13. ASSUME NEW c \in Others(b)
       PROVE  /\ r.held \cap boot[c].held = {}
              /\ \A w \in r.wrote, v \in boot[c].wrote : Value(w) # Value(v)
  BY <1>1, <1>4 DEF RunsInv, Others, Apart, old
<1>14. RunsInv' /\ boot' \in [Bootstraps -> Runs]
  BY <1>1, <1>4, <1>9, <1>11, <1>12, <1>13, RunSteps
<1>15. QED
  BY <1>1, <1>14, TablesRest

(* The table after a commit is what the run saw.  No uuid of the table is     *)
(* lost, and the other runs see their own rows over it.                       *)
LEMMA CommitKeeps ==
  ASSUME SealedInv, NEW b \in Bootstraps, Commit(b)
  PROVE  SealedInv'
<1> DEFINE old == boot[b]
<1>1. /\ SealedTypes /\ RunsInv /\ old \in Runs /\ OnePricePerProduct /\ LastFileCounts
      /\ boot' = [boot EXCEPT ![b] = Idle] /\ UNCHANGED <<published, files>>
      /\ old.at = "done" /\ identifiers' = Seen(b)
  BY DEF SealedInv, Commit, SealedTypes, Rollback
<1>2. Progress(old) /\ Sees(b) /\ Prices(b) /\ ~Working(old)
  BY <1>1 DEF RunsInv, Working
<1>3. boot'[b] = Idle /\ \A c \in Bootstraps : c # b => boot'[c] = boot[c]
  BY <1>1, OthersRest
<1>4. old.wrote \subseteq IdRows /\ identifiers \subseteq IdRows /\ Seen(b) \subseteq IdRows
      /\ old.held \subseteq Products /\ old.adds \subseteq Products
  BY <1>1 DEF Runs, SealedTypes, Seen
<1>5. \A w \in old.wrote : w.product \in old.held
  BY <1>2 DEF Progress, Wrote
<1>6. ASSUME NEW w \in old.wrote
      PROVE  \E u \in Begun(old) :
               /\ Uuid(w.product, u) \in old.wrote
               /\ w = Uuid(w.product, u) \/ (HasId(old, u) /\ w = Vendor(w.product, old.file[u]))
  BY <1>2 DEF Progress, Wrote, Whose
<1>7. ASSUME NEW s \in identifiers, s.kind = "uuid" PROVE s \in Seen(b)
  <2>1. ASSUME s \in WrittenOver(b) PROVE s \in old.wrote
    <3>1. PICK w \in old.wrote : Slot(w) = Slot(s)
      BY <2>1 DEF WrittenOver
    <3>2. w.kind = "uuid"
      BY <1>7, <3>1 DEF Slot
    <3>3. QED
      BY <1>2, <3>1, <3>2 DEF Sees
  <2>2. QED
    BY <2>1 DEF Seen
<1>8. \A s \in Seen(b) : s \in old.wrote \/ (s \in identifiers /\ s \notin WrittenOver(b))
  BY DEF Seen
<1>9. old.wrote \subseteq Seen(b)
  BY DEF Seen
<1>10. Begun(old) = DOMAIN old.file
  BY <1>1, <1>2 DEF Progress, Begun
<1>11. /\ DOMAIN priced' = DOMAIN priced \cup old.adds
       /\ \A p \in DOMAIN priced' : priced'[p] =
            (IF p \in DOMAIN priced THEN priced[p] ELSE 0) + (IF p \in old.adds THEN 1 ELSE 0)
  BY DEF Commit
<1>12. /\ DOMAIN filed' = DOMAIN filed \cup Given(b)
       /\ \A u \in DOMAIN filed' : filed'[u] = IF u \in Given(b) THEN old.file[u] ELSE filed[u]
  BY DEF Commit
<1>13. Given(b) \subseteq Uuids /\ Given(b) = {u \in Begun(old) : HasId(old, u)}
       /\ \A u \in Given(b) : old.file[u] \in Vendors
  <2>1. DOMAIN old.file \subseteq Uuids /\ old.file \in [DOMAIN old.file -> Vendors \cup {NoId}]
    BY <1>1 DEF Runs, Files
  <2>2. QED
    BY <1>10, <2>1 DEF Given, HasId
<1> HIDE DEF old
<1>14. SealedTypes'
  <2>1. boot' \in [Bootstraps -> Runs]
    BY <1>1, IdleRun DEF SealedTypes
  <2>2. DOMAIN priced' \subseteq Products /\ priced' \in [DOMAIN priced' -> Nat]
    <3>1. \A p \in DOMAIN priced : priced[p] \in Nat
      BY <1>1 DEF SealedTypes
    <3>2. ASSUME NEW p \in DOMAIN priced' PROVE priced'[p] \in Nat
      BY <1>11, <3>1
    <3>3. DOMAIN priced' \subseteq Products
      BY <1>1, <1>4, <1>11 DEF SealedTypes
    <3>4. priced' = [p \in DOMAIN priced' |-> priced'[p]]
      BY DEF Commit
    <3>5. QED
      BY <3>2, <3>3, <3>4
  <2>3. DOMAIN filed' \subseteq Uuids /\ filed' \in [DOMAIN filed' -> Vendors \cup {NoId}]
    <3>1. \A u \in DOMAIN filed : filed[u] \in Vendors \cup {NoId}
      BY <1>1 DEF SealedTypes
    <3>2. ASSUME NEW u \in DOMAIN filed' PROVE filed'[u] \in Vendors \cup {NoId}
      BY <1>12, <1>13, <3>1
    <3>3. filed' = [u \in DOMAIN filed' |-> filed'[u]]
      BY DEF Commit
    <3>4. QED
      BY <1>1, <1>12, <1>13, <3>2, <3>3 DEF SealedTypes
  <2>4. QED
    BY <1>1, <1>4, <2>1, <2>2, <2>3 DEF SealedTypes
<1>15. Unique(identifiers')
  BY <1>1, <1>2 DEF Sees
<1>16. OnePricePerProduct'
  <2>1. \A row, other \in identifiers' : Value(row) = Value(other) => row = other
    BY <1>15 DEF Unique
  <2>2. ASSUME NEW row \in identifiers'
        PROVE  \E own \in identifiers' : own.kind = "uuid" /\ Slot(own) = <<row.product, "uuid">>
    <3>1. CASE row \in old.wrote
      <4>1. PICK u \in Begun(old) : Uuid(row.product, u) \in old.wrote
        BY <1>6, <3>1
      <4>2. QED
        BY <1>1, <1>9, <4>1 DEF Slot, Uuid
    <3>2. CASE row \in identifiers
      <4>1. PICK own \in identifiers : own.kind = "uuid" /\ Slot(own) = <<row.product, "uuid">>
        BY <1>1, <3>2 DEF OnePricePerProduct
      <4>2. QED
        BY <1>1, <1>7, <4>1
    <3>3. QED
      BY <1>1, <1>8, <2>2, <3>1, <3>2
  <2>3. DOMAIN priced = {row.product : row \in identifiers}
    BY <1>1 DEF OnePricePerProduct
  <2>4. ASSUME NEW p \in DOMAIN priced' PROVE p \in {row.product : row \in identifiers'}
    <3>1. CASE p \in DOMAIN priced
      <4>1. PICK row \in identifiers : row.product = p
        BY <2>3, <3>1
      <4>2. PICK own \in identifiers : own.kind = "uuid" /\ Slot(own) = <<row.product, "uuid">>
        BY <1>1 DEF OnePricePerProduct
      <4>3. own \in identifiers' /\ own.product = p
        BY <1>1, <1>7, <4>1, <4>2 DEF Slot
      <4>4. QED
        BY <4>3
    <3>2. CASE p \in old.adds
      BY <1>1, <1>2, <1>9, <3>2 DEF Prices, old
    <3>3. QED
      BY <1>11, <2>4, <3>1, <3>2
  <2>5. ASSUME NEW row \in identifiers' PROVE row.product \in DOMAIN priced'
    <3>1. CASE row \in old.wrote
      BY <1>2, <1>11, <3>1 DEF Prices, old
    <3>2. CASE row \in identifiers
      BY <1>11, <2>3, <3>2
    <3>3. QED
      BY <1>1, <1>8, <2>5, <3>1, <3>2
  <2>6. ASSUME NEW p \in DOMAIN priced' PROVE priced'[p] = 1
    <3>1. \A q \in DOMAIN priced : priced[q] = 1
      BY <1>1 DEF OnePricePerProduct
    <3>2. old.adds \cap DOMAIN priced = {}
      BY <1>2 DEF Prices, old
    <3>3. CASE p \in DOMAIN priced
      <4>1. p \notin old.adds
        BY <3>2, <3>3
      <4>2. QED
        BY <1>11, <3>1, <3>3, <4>1
    <3>4. CASE p \notin DOMAIN priced
      <4>1. p \in old.adds
        BY <1>11, <3>4
      <4>2. QED
        BY <1>11, <3>4, <4>1
    <3>5. QED
      BY <3>3, <3>4
  <2>7. QED
    BY <2>1, <2>2, <2>4, <2>5, <2>6 DEF OnePricePerProduct
<1>17. LastFileCounts'
  <2> SUFFICES ASSUME NEW u \in DOMAIN filed'
               PROVE  \E p \in Products :
                        Uuid(p, u) \in identifiers' /\ Vendor(p, filed'[u]) \in identifiers'
    BY DEF LastFileCounts, Uuid, Vendor
  <2>1. CASE u \in Given(b)
    <3>1. IsFiled(old, u)
      BY <1>2, <1>13, <2>1 DEF Progress, Finished, old
    <3>2. QED
      BY <1>1, <1>4, <1>9, <1>12, <1>13, <2>1, <3>1 DEF IsFiled
  <2>2. CASE u \notin Given(b)
    <3>1. PICK p \in Products : Uuid(p, u) \in identifiers /\ Vendor(p, filed[u]) \in identifiers
      BY <1>1, <1>12, <2>2 DEF LastFileCounts, Uuid, Vendor
    <3>2. Uuid(p, u) \in Seen(b)
      BY <1>7, <3>1 DEF Uuid
    <3>3. ASSUME Vendor(p, filed[u]) \in WrittenOver(b) PROVE FALSE
      <4>1. PICK w \in old.wrote : Slot(w) = Slot(Vendor(p, filed[u]))
        BY <3>3 DEF WrittenOver, old
      <4>2. w.product = p /\ w.kind = "vendor"
        BY <4>1 DEF Slot, Vendor
      <4>3. PICK v \in Begun(old) :
              /\ Uuid(w.product, v) \in old.wrote
              /\ w = Uuid(w.product, v) \/ (HasId(old, v) /\ w = Vendor(w.product, old.file[v]))
        BY <1>6
      <4>4. HasId(old, v)
        BY <4>2, <4>3 DEF Uuid
      <4>5. Slot(Uuid(p, v)) = Slot(Uuid(p, u))
        BY DEF Slot, Uuid
      <4>6. Uuid(p, v) = Uuid(p, u)
        BY <1>2, <1>9, <3>2, <4>2, <4>3, <4>5 DEF Sees, Unique
      <4>7. v = u
        BY <4>6 DEF Uuid
      <4>8. QED
        BY <1>13, <2>2, <4>3, <4>4, <4>7
    <3>4. Vendor(p, filed[u]) \in Seen(b)
      BY <3>1, <3>3 DEF Seen
    <3>5. QED
      BY <1>1, <1>12, <2>2, <3>1, <3>2, <3>4
  <2>3. QED
    BY <2>1, <2>2
<1>18. Progress(boot'[b]) /\ Sees(b)' /\ Prices(b)'
  <2>1. Seen(b)' = identifiers'
    BY <1>3, IdleRun DEF Seen, WrittenOver
  <2>2. QED
    BY <1>3, <1>15, <2>1, IdleRun DEF Sees, Prices, Unique
<1>19. ASSUME NEW c \in Bootstraps, c # b PROVE Progress(boot'[c]) /\ Sees(c)' /\ Prices(c)'
  <2>1. /\ boot'[c] = boot[c] /\ Progress(boot[c]) /\ Sees(c) /\ Prices(c)
        /\ Apart(c, b) /\ boot[c] \in Runs
    BY <1>1, <1>3, <1>19 DEF RunsInv, SealedTypes
  <2>2. \A w \in boot[c].wrote : w.product \in boot[c].held
    BY <2>1 DEF Progress, Wrote
  <2>3. \A w \in boot[c].wrote, v \in old.wrote : Slot(w) # Slot(v) /\ Value(w) # Value(v)
    BY <1>5, <2>1, <2>2 DEF Apart, Slot, old
  <2>4. ASSUME NEW s \in Seen(c)'
        PROVE  s \in boot[c].wrote \/ s \in old.wrote \/ s \in Seen(c)
    BY <1>1, <1>8, <2>1, <2>4 DEF Seen, WrittenOver
  <2>5. ASSUME NEW s \in Seen(c)', NEW t \in Seen(c)', Slot(s) = Slot(t) \/ Value(s) = Value(t)
        PROVE  s = t
    <3>1. ASSUME NEW x \in Seen(c)', x \notin Seen(c) PROVE x \in old.wrote
      BY <2>4, <3>1 DEF Seen
    <3>2. ASSUME NEW x \in Seen(c)', x \notin boot[c].wrote PROVE x \in Seen(b)
      BY <1>1, <2>1, <3>2 DEF Seen
    <3>3. CASE s \in Seen(c) /\ t \in Seen(c)
      BY <2>1, <2>5, <3>3 DEF Sees, Unique
    <3>4. CASE s \notin boot[c].wrote /\ t \notin boot[c].wrote
      BY <1>2, <2>5, <3>2, <3>4 DEF Sees, Unique
    <3>5. CASE s \notin Seen(c) /\ t \in boot[c].wrote
      BY <2>3, <2>5, <3>1, <3>5
    <3>6. CASE t \notin Seen(c) /\ s \in boot[c].wrote
      BY <2>3, <2>5, <3>1, <3>6
    <3>7. boot[c].wrote \subseteq Seen(c)
      BY DEF Seen
    <3>8. QED
      BY <3>3, <3>4, <3>5, <3>6, <3>7
  <2>6. Unique(Seen(c)')
    BY <2>5 DEF Unique
  <2>7. ASSUME NEW w \in boot[c].wrote, NEW s \in identifiers', w.kind = "uuid", Slot(w) = Slot(s)
        PROVE  w = s
    <3>1. s \in identifiers
      BY <1>1, <1>8, <2>3, <2>7
    <3>2. QED
      BY <2>1, <2>7, <3>1 DEF Sees
  <2>8. ASSUME Working(boot[c]), NEW s \in Seen(c)', s.kind = "uuid", s.product = boot[c].product
        PROVE  s.value = boot[c].uuid
    <3>1. s.product \in boot[c].held
      BY <2>1, <2>8 DEF Progress, Writing
    <3>2. s \notin old.wrote
      BY <1>5, <2>1, <3>1 DEF Apart, old
    <3>3. s \in Seen(c)
      BY <2>4, <3>2 DEF Seen
    <3>4. QED
      BY <2>1, <2>8, <3>3 DEF Sees
  <2>9. Sees(c)'
    BY <2>1, <2>6, <2>7, <2>8 DEF Sees
  <2>10. Prices(c)'
    <3>1. boot[c].adds \cap old.adds = {}
      <4>1. \A p \in boot[c].adds : p \in boot[c].held
        BY <2>1, <2>2 DEF Prices
      <4>2. \A p \in old.adds : p \in old.held
        BY <1>2, <1>5 DEF Prices, old
      <4>3. QED
        BY <2>1, <4>1, <4>2 DEF Apart, old
    <3>2. QED
      BY <1>11, <2>1, <3>1 DEF Prices
  <2>11. QED
    BY <2>1, <2>9, <2>10
<1>20. ASSUME NEW c \in Bootstraps, NEW d \in Bootstraps, c # d PROVE Apart(c, d)'
  <2>1. CASE c = b \/ d = b
    BY <1>3, <1>20, <2>1, IdleRun DEF Apart
  <2>2. CASE c # b /\ d # b
    BY <1>1, <1>3, <1>20, <2>2 DEF RunsInv, Apart
  <2>3. QED
    BY <2>1, <2>2
<1>21. RunsInv'
  BY <1>18, <1>19, <1>20 DEF RunsInv
<1>22. QED
  BY <1>14, <1>15, <1>16, <1>17, <1>21 DEF SealedInv

LEMMA SealedInitKeeps == SealedInit => SealedInv
<1> SUFFICES ASSUME SealedInit PROVE SealedInv
  OBVIOUS
<1>1. published \in Files /\ identifiers = {} /\ DOMAIN priced = {}
      /\ \A b \in Bootstraps : boot[b] = Idle
  <2>1. published \in [{} -> Vendors \cup {NoId}] /\ {} \in SUBSET Uuids
    BY DEF SealedInit
  <2>2. published \in Files
    BY <2>1 DEF Files
  <2>3. QED
    BY <2>2 DEF SealedInit
<1>2. SealedTypes
  BY <1>1, IdleRun DEF SealedInit, SealedTypes, NoFileYet
<1>3. \A b \in Bootstraps : Seen(b) = {}
  BY <1>1, IdleRun DEF Seen, WrittenOver
<1>4. RunsInv
  BY <1>1, <1>3, IdleRun DEF RunsInv, Sees, Unique, Prices, Apart
<1>5. QED
  BY <1>1, <1>2, <1>4, IdleRun DEF SealedInit, SealedInv, Unique, OnePricePerProduct, LastFileCounts

LEMMA SealedNextKeeps == SealedInv /\ [SealedNext]_sealedVars => SealedInv'
<1> SUFFICES ASSUME SealedInv, [SealedNext]_sealedVars PROVE SealedInv'
  OBVIOUS
<1>1. CASE UNCHANGED sealedVars
  <2>1. \A b \in Bootstraps : Seen(b)' = Seen(b)
    BY <1>1, OthersSee DEF sealedVars
  <2>2. RunsInv'
    BY <1>1, <2>1 DEF sealedVars, SealedInv, RunsInv, Sees, Prices, Apart
  <2>3. QED
    BY <1>1, <2>2 DEF sealedVars, SealedInv, SealedTypes, Unique, OnePricePerProduct, LastFileCounts
<1>2. ASSUME NEW b \in Bootstraps, Abort(b) PROVE SealedInv'
  BY <1>2, RollbackKeeps DEF Abort
<1>3. QED
  BY <1>1, <1>2, PublishKeeps, FetchSetKeeps, FindKeeps, IdentifyKeeps, EnsurePricedKeeps,
    CommitKeeps DEF SealedNext

(* A run has only products of its file to do, and holds products.             *)
LEMMA SealedTypesAre == SealedInv => SealedTypeOK
<1> SUFFICES ASSUME SealedInv PROVE SealedTypeOK
  OBVIOUS
<1>1. ASSUME NEW b \in Bootstraps
      PROVE  /\ boot[b].at \in {"idle", "products", "identifiers", "done"}
             /\ boot[b].todo \subseteq DOMAIN boot[b].file /\ boot[b].held \subseteq Products
  <2>1. boot[b] \in Runs /\ boot[b].todo \subseteq DOMAIN boot[b].file
    BY DEF SealedInv, SealedTypes, RunsInv, Progress
  <2>2. QED
    BY <2>1 DEF Runs
<1>2. QED
  BY <1>1 DEF SealedInv, SealedTypes, SealedTypeOK, IdRows

-----------------------------------------------------------------------------
(* The three loaders.  Each of them moves while the others rest.              *)
LoadersInv == KeptInv /\ StoreTypes /\ ShopInv /\ SealedInv

LEMMA LoadersInit == MarketsInit => LoadersInv
BY InitKeeps, InitTypes, ShopInitKeeps, SealedInitKeeps DEF MarketsInit, LoadersInv

LEMMA LoadersKeep ==
  LoadersInv /\ [MarketsNext]_<<part, vars, shopVars, sealedVars>> => LoadersInv'
<1> SUFFICES ASSUME LoadersInv, [MarketsNext]_<<part, vars, shopVars, sealedVars>>
             PROVE  LoadersInv'
  OBVIOUS
<1>1. [Next]_vars /\ [ShopNext]_shopVars /\ [SealedNext]_sealedVars
  BY DEF MarketsNext
<1>2. KeptInv' /\ StoreTypes'
  <2>1. KeptInv /\ QueueTypes /\ StoreTypes
    BY DEF LoadersInv, KeptInv
  <2>2. QED
    BY <1>1, <2>1, NextKeeps, NextTypes
<1>3. ShopInv' /\ SealedInv'
  BY <1>1, ShopNextKeeps, SealedNextKeeps DEF LoadersInv
<1>4. QED
  BY <1>2, <1>3 DEF LoadersInv

(* Every variable of the three loaders has its type; a card has one mapped    *)
(* print, and the rows that a staging files are of a market or of mtgstocks:  *)
(* for any plan, failures and pipelines of an operator.                       *)
THEOREM MarketTypesHold == MarketsSpec => []MarketTypes
<1>1. LoadersInv => MarketTypes
  BY TypesAre, ShopTypesAre, SealedTypesAre DEF LoadersInv, KeptInv, MarketTypes
<1>2. QED
  BY <1>1, LoadersInit, LoadersKeep, PTL DEF MarketsSpec

(* What an operator set by hand survives the sample, a product that stays in  *)
(* a collection is fetched though the shelf changes under the pages, what is  *)
(* merged is of the week or left over, a price in stock is kept, and a sealed *)
(* product has one uuid, one row to price it and the vendor's id of the last  *)
(* file: for any collections, changes, failures and overlapping bootstraps.   *)
THEOREM FetchedIsAlwaysKept == MarketsSpec => []FetchedIsKept
<1>1. LoadersInv => FetchedIsKept
  BY AllIsFetched DEF LoadersInv, ShopInv, SealedInv, FetchedIsKept
<1>2. QED
  BY <1>1, LoadersInit, LoadersKeep, PTL DEF MarketsSpec
=============================================================================
