------------------------------- MODULE MtgStock -------------------------------
(***************************************************************************)
(* The rolling refresh of the MTGStocks prices.  Celery beat starts, at    *)
(* fixed times of the local day, one refresh per tier and slot, which      *)
(* downloads a slice of the tier's (print, market) pairs, and one nightly  *)
(* load, which computes the slices of the day again and stages their       *)
(* files, one market at a time, through one shared raw table.  The date is *)
(* the worker's, which changes in the middle of the local day.  One worker *)
(* takes the messages in order; a chain sends its next link when a link    *)
(* has returned.                                                           *)
(***************************************************************************)
EXTENDS Integers, FiniteSets, Sequences

CONSTANTS
  Ids,          \* print ids, 1 .. n
  Known,        \* ids in existing_ids.json, with their files, at the start
  Card,         \* [Ids -> cards]: the card version the info file leads to
  Tiers,
  Markets,      \* numbers in the order of the markets' names
  TierMarkets,  \* [Tiers -> SUBSET Markets]
  LoadOrder,    \* the markets in the order of the nightly load
  WindowDays,   \* [Tiers -> days]
  SlotsPerDay,  \* [Tiers -> slots]
  BeatPlan,     \* the tasks of one local day, and the worker's midnight
  MaxDay,       \* bound: the worker's midnights
  MaxQueue,     \* bound: messages waiting when beat sends
  MaxExtra      \* bound: failures, changes from outside, operator's pipelines

Pairs == Ids \X Markets
NoFile == -1
Rows == [id : Ids, market : Markets, ver : 0 .. MaxDay + 1]
OwnSource == 0          \* the source "mtgstocks"; a market is its own source
PlanSteps == [do : {"refresh", "load", "midnight"}, n : Nat, ids : SUBSET Nat]

ASSUME MtgStockAssumption ==
  /\ Ids \subseteq Nat /\ IsFiniteSet(Ids) /\ Known \subseteq Ids
  /\ Markets \subseteq Nat \ {OwnSource} /\ IsFiniteSet(Markets)
  /\ LoadOrder \in Seq(Markets) /\ LoadOrder # <<>>
  /\ BeatPlan \in Seq(PlanSteps) /\ BeatPlan # <<>>
  /\ \A k \in DOMAIN BeatPlan : BeatPlan[k].do = "refresh" => BeatPlan[k].ids # {}
  /\ MaxDay \in Nat

VARIABLES
  day, beat,   \* the worker's date; the next entry of BeatPlan
  queue,       \* messages, each with the rest of its chain
  active,      \* run keys whose run is running or successful
  site,        \* ids MTGStocks serves
  known,       \* existing_ids.json
  info,        \* ids with an info file
  file,        \* per pair, the date of its price file plus one, 0 for one
               \* from before, or NoFile
  cards,       \* card versions in the catalogue
  tier,        \* tier of a mapped id, 0 when it is not mapped
  raw, staged, rejects,   \* raw_mtg_stock_price and the staging tables
  obs,         \* history: rows that reached price_observation, by source
  refused,     \* history: rows that were rejected
  odd,         \* history: what broke the routine of the schedule
  extra

disk     == <<known, info, file>>
database == <<cards, tier, raw, staged, rejects, obs, refused>>
vars == <<day, beat, queue, active, site, disk, database, odd, extra>>

-----------------------------------------------------------------------------
(* The slices of a tier *)
TierIds(t) == {i \in Ids : tier[i] = t}

Before(p, q) == p[1] < q[1] \/ (p[1] = q[1] /\ p[2] < q[2])
Worklist(S, t) == S \X TierMarkets[t]
Place(p, W) == Cardinality({q \in W : Before(q, p)})

TotalSlots(t) == WindowDays[t] * SlotsPerDay[t]
SliceIndex(t, slot, d) == (d * SlotsPerDay[t] + slot) % TotalSlots(t)

InEvenSlice(place, size, k, total) == k * size <= place /\ place < (k + 1) * size

InSlice(place, size, k, total) ==
  k * size <= place /\ (k < total - 1 => place < (k + 1) * size)

Slice(S, t, slot, d) ==
  LET W == Worklist(S, t)
      size == Cardinality(W) \div TotalSlots(t)
  IN {p \in W : InSlice(Place(p, W), size, SliceIndex(t, slot, d), TotalSlots(t))}

Slots(t) == 0 .. SlotsPerDay[t] - 1

LastSlotIds(m) ==
  {i \in Ids : \E t \in Tiers : <<i, m>> \in Slice(TierIds(t), t, SlotsPerDay[t] - 1, day)}

TodayIds(m) ==
  {i \in Ids : \E t \in Tiers : \E slot \in Slots(t) :
                 <<i, m>> \in Slice(TierIds(t), t, slot, day)}

-----------------------------------------------------------------------------
(* Messages *)
Step(do, n, S) == [do |-> do, n |-> n, ids |-> S]
Do(do) == Step(do, 0, {})

(* The date changes once in a local day, and each slot of a tier has its    *)
(* entry in the plan. *)
ASSUME PlanAssumption ==
  /\ TierMarkets \in [Tiers -> SUBSET Markets]
  /\ WindowDays \in [Tiers -> Nat \ {0}] /\ SlotsPerDay \in [Tiers -> Nat \ {0}]
  /\ \E k \in DOMAIN BeatPlan : \A j \in DOMAIN BeatPlan : BeatPlan[j].do = "midnight" <=> j = k
  /\ \A t \in Tiers : \A slot \in Slots(t) :
       \E k \in DOMAIN BeatPlan : BeatPlan[k] = Step("refresh", t, {slot})

(* The load ends the local day and takes the markets of every tier; a slot   *)
(* has one entry, and each refresh is of a slot. *)
ASSUME LoadAssumption ==
  /\ \A t \in Tiers : \A m \in TierMarkets[t] : \E k \in DOMAIN LoadOrder : LoadOrder[k] = m
  /\ \A k \in DOMAIN BeatPlan : BeatPlan[k].do = "load" <=> k = Len(BeatPlan)
  /\ \A k \in DOMAIN BeatPlan : BeatPlan[k].do = "refresh" =>
       /\ \E t \in Tiers : \E slot \in Slots(t) : BeatPlan[k] = Step("refresh", t, {slot})
       /\ \A j \in DOMAIN BeatPlan : BeatPlan[j] = BeatPlan[k] => j = k

Message(key, todo) == [key |-> key, todo |-> todo]
Key(kind, n, s) == <<kind, n, s, day>>
NoKey == <<"task", 0, 0, 0>>

(* The markets that have ids today, in the order of a chain.               *)
Asked(S) == {m \in Markets : S[m] # {}}
InOrder(P) == {s \in [1 .. Cardinality(P) -> P] : \A i, j \in DOMAIN s : i < j => s[i] < s[j]}
InLoadOrder(P) ==
  {[k \in DOMAIN s |-> LoadOrder[s[k]]] :
     s \in InOrder({k \in DOMAIN LoadOrder : LoadOrder[k] \in P})}

RefreshChain(S, ms) ==
  <<Do("start")>> \o [k \in DOMAIN ms |-> Step("fetch", ms[k], S[ms[k]])] \o <<Do("finish")>>

Ending == <<Do("retry"), Do("promote"), Do("finish")>>

(* per market, its bulk load and then its staging *)
LoadChain(S, ms) ==
  <<Do("start")>>
    \o [k \in 1 .. 2 * Len(ms) |->
          LET m == ms[(k + 1) \div 2]
          IN IF k % 2 = 1 THEN Step("bulk", m, S[m]) ELSE Step("stage", m, {m})]
    \o Ending

Tcg == LoadOrder[1]
FullChain ==
  <<Do("start")>> \o <<Step("bulk", Tcg, Ids), Step("stage", Tcg, {OwnSource})>> \o Ending

-----------------------------------------------------------------------------
Init ==
  /\ day = 0 /\ beat = 1
  /\ queue = <<>> /\ active = {}
  /\ site \in {Known, Ids} /\ known = Known /\ info = Known
  /\ file = [p \in Pairs |-> IF p[1] \in Known THEN 0 ELSE NoFile]
  /\ tier \in [Ids -> Tiers \cup {0}]
  /\ cards = {Card[i] : i \in {j \in Ids : tier[j] # 0}}
  /\ \A i \in Ids : tier[i] # 0 => i \in Known
  /\ \A i, j \in Ids : tier[i] # 0 /\ tier[j] # 0 /\ i # j => Card[i] # Card[j]
  /\ raw = {} /\ staged = {} /\ rejects = {} /\ obs = {} /\ refused = {}
  /\ odd = {}
  /\ extra = 0

(* beat sends the next task of the day, or the worker's date changes.  The *)
(* plan is not kept when work runs on into the next date or local day, and  *)
(* the load does not wait for the downloads of the day. *)
Beat ==
  /\ day < MaxDay /\ Len(queue) < MaxQueue
  /\ beat' = (beat % Len(BeatPlan)) + 1
  /\ LET b == BeatPlan[beat]
         late == queue # <<>> /\ (b.do = "midnight" \/ beat = 1)
         early == queue # <<>> /\ b.do = "load"
     IN /\ odd' = odd \cup (IF late THEN {"late"} ELSE {}) \cup (IF early THEN {"early"} ELSE {})
        /\ IF b.do = "midnight" THEN day' = day + 1 /\ queue' = queue
           ELSE day' = day /\ queue' = Append(queue, Message(NoKey, <<b>>))
  /\ UNCHANGED <<active, site, disk, database, extra>>

Extra == extra < MaxExtra /\ extra' = extra + 1

(* the weekly pipelines, and those that an operator starts *)
Manual(do) ==
  /\ Extra /\ Len(queue) < MaxQueue
  /\ queue' = Append(queue, Message(NoKey, <<do>>))
  /\ odd' = odd \cup {"manual"}
  /\ UNCHANGED <<day, beat, active, site, disk, database>>

(* a print changes tier, a card enters the catalogue *)
Move ==
  /\ Extra
  /\ \/ /\ \E i \in Ids, t \in Tiers : /\ tier[i] \notin {0, t}
                                       /\ tier' = [tier EXCEPT ![i] = t]
        /\ odd' = odd \cup {"moved"}
        /\ UNCHANGED cards
     \/ /\ \E i \in Ids : Card[i] \notin cards /\ cards' = cards \cup {Card[i]}
        /\ UNCHANGED <<tier, odd>>
  /\ UNCHANGED <<day, beat, queue, active, site, disk, raw, staged, rejects, obs, refused>>

-----------------------------------------------------------------------------
Msg == Head(queue)
This == Head(Msg.todo)
At(do) == queue # <<>> /\ This.do = do

Ends == queue' = Tail(queue)
Continue ==
  queue' = IF Len(Msg.todo) = 1 THEN Tail(queue)
           ELSE Append(Tail(queue), Message(Msg.key, Tail(Msg.todo)))

Dispatch(key, todo) ==
  queue' = IF key \in active THEN Tail(queue)
           ELSE Append(Tail(queue), Message(key, todo))

Fails == Extra /\ odd' = odd \cup {"failed"}

Calm == UNCHANGED <<odd, extra>>

RunRefresh ==
  /\ At("refresh")
  /\ LET t == This.n
         slot == CHOOSE s \in This.ids : TRUE
         slice == Slice(TierIds(t), t, slot, day)
         S == [m \in Markets |-> {i \in Ids : <<i, m>> \in slice}]
     IN \E ms \in InOrder(Asked(S)) : Dispatch(Key("tier", t, slot), RefreshChain(S, ms))
  /\ Calm /\ UNCHANGED <<day, beat, active, site, disk, database>>

RunLoad ==
  /\ At("load")
  /\ LET S == [m \in Markets |-> TodayIds(m)]
     IN \E ms \in InLoadOrder(Asked(S)) : Dispatch(Key("load", 0, 0), LoadChain(S, ms))
  /\ Calm /\ UNCHANGED <<day, beat, active, site, disk, database>>

RunTask ==
  /\ \/ At("full") /\ Dispatch(Key("full", 0, 0), FullChain)
     \/ At("discover") /\ Dispatch(Key("discover", 0, 0),
                                   <<Do("start"), Do("probe"), Do("finish")>>)
     \/ At("mapping") /\ Dispatch(Key("mapping", 0, 0),
                                  <<Do("start"), Do("map"), Do("finish")>>)
  /\ Calm /\ UNCHANGED <<day, beat, active, site, disk, database>>

Start ==
  /\ At("start")
  /\ active' = active \cup {Msg.key}
  /\ Continue
  /\ Calm /\ UNCHANGED <<day, beat, site, disk, database>>

Finish ==
  /\ At("finish") /\ Ends
  /\ Calm /\ UNCHANGED <<day, beat, active, site, disk, database>>

(* bulk_load: a folder without both files is an error of that folder *)
Loadable(S, m) ==
  {[id |-> i, market |-> m, ver |-> file[<<i, m>>]] :
     i \in {j \in S \cap info : file[<<j, m>>] # NoFile}}

(* track_step closes the run, so another trigger of the day may open it;   *)
(* the mapping runs in a transaction, which is rolled back with its failure *)
StepFails ==
  /\ \E do \in {"bulk", "stage", "retry", "promote", "map"} : At(do)
  /\ active' = IF At("map") THEN active ELSE active \ {Msg.key}
  /\ raw' \in IF At("bulk") THEN {{}, Loadable(This.ids, This.n)} ELSE {raw}
  /\ Ends /\ Fails
  /\ UNCHANGED <<day, beat, site, disk, cards, tier, staged, rejects, obs, refused>>

-----------------------------------------------------------------------------
(* Downloads *)
Write(S, m) == file' = [p \in Pairs |-> IF p[2] = m /\ p[1] \in S THEN day + 1 ELSE file[p]]

(* run_list_id_load: an id that fails is left out of its batch, and so are  *)
(* the ids after one whose file cannot be written *)
Fetch ==
  /\ At("fetch") /\ Continue
  /\ \/ Write(This.ids, This.n) /\ Calm
     \/ \E S \in SUBSET This.ids : S # This.ids /\ Write(S, This.n) /\ Fails
  /\ UNCHANGED <<day, beat, active, site, known, info, database>>

(* an exception ends the chain and the run stays running *)
FetchRaises ==
  /\ At("fetch") /\ Ends
  /\ \E S \in {{}, This.ids} : Write(S, This.n)
  /\ Fails
  /\ UNCHANGED <<day, beat, active, site, known, info, database>>

Largest(S) == IF S = {} THEN 0 ELSE CHOOSE i \in S : \A j \in S : j <= i

Down[l \in Nat] == IF l > 1 /\ l \notin site THEN Down[l - 1] ELSE l

Climb[lo, hi \in Nat] == IF hi \in site THEN Climb[hi, 2 * hi] ELSE <<lo, hi>>

Bisect[lo, hi \in Nat] ==
  IF lo + 1 >= hi THEN lo
  ELSE LET mid == (lo + hi) \div 2
       IN IF mid \in site THEN Bisect[mid, hi] ELSE Bisect[lo, mid]

(* get_last_print_id *)
LastPrintId(last) ==
  LET span == Climb[Down[last], Down[last] + 1]
  IN Bisect[span[1], span[2]]

(* fetch_card_data_batches: what is fetched of a print with prices ends as *)
(* an error, which is not written *)
Fetched(new) == {}

(* discover_and_fetch_new_ids: a print with no price page makes it raise *)
Probe ==
  /\ At("probe")
  /\ LET new == {i \in Ids : Largest(known) < i /\ i <= LastPrintId(Largest(known))}
     IN \/ /\ Continue
           /\ known' = known \cup new
           /\ info' = info \cup Fetched(new)
        \/ /\ new \cap site # {} /\ Ends
           /\ UNCHANGED <<known, info>>
  /\ Calm /\ UNCHANGED <<day, beat, active, site, file, database>>

(* run_full_load, by an operator: the prices of the known ids and of the   *)
(* ids after them, which enter neither existing_ids.json nor the info files *)
Download ==
  /\ At("download") /\ Ends
  /\ Write({i \in site : i \in known \/ i <= LastPrintId(Largest(known))}, This.n)
  /\ Calm /\ UNCHANGED <<day, beat, active, site, known, info, database>>

-----------------------------------------------------------------------------
(* Mapping and staging *)
Resolvable(i) == tier[i] # 0 \/ Card[i] \in cards

MapEveryPrint(S) ==
  \E t \in Tiers : tier' = [i \in Ids |->
    IF i \in S /\ tier[i] = 0 /\ Card[i] \in cards THEN t ELSE tier[i]]

(* a card version takes one print; a tier comes with the mapping *)
MapPrints(S) ==
  LET free == {i \in S : tier[i] = 0 /\ Card[i] \in cards
                         /\ \A j \in Ids : tier[j] # 0 => Card[j] # Card[i]}
  IN \E new \in SUBSET free, t \in Tiers :
       /\ \A c \in {Card[i] : i \in free} : Cardinality({i \in new : Card[i] = c}) = 1
       /\ tier' = [i \in Ids |-> IF i \in new THEN t ELSE tier[i]]

BuildMapping ==
  /\ At("map") /\ Continue
  /\ MapPrints(known \cap info)
  /\ odd' = IF tier' = tier THEN odd ELSE odd \cup {"moved"}
  /\ UNCHANGED <<day, beat, active, site, disk, cards, raw, staged, rejects, obs, refused,
                 extra>>

AddRaw(rows) == raw' = raw \cup rows

(* bulk_load deletes the rows of before *)
ReplaceRaw(rows) == raw' = rows

(* another chain that has not staged all its markets shares the raw table *)
Shared ==
  \E k \in 2 .. Len(queue) : \E j \in DOMAIN queue[k].todo : queue[k].todo[j].do = "stage"

BulkLoad ==
  /\ At("bulk") /\ Continue
  /\ ReplaceRaw(Loadable(This.ids, This.n))
  /\ odd' = IF Shared THEN odd \cup {"shared"} ELSE odd
  /\ UNCHANGED <<day, beat, active, site, disk, cards, tier, staged, rejects, obs, refused,
                 extra>>

(* load_staging_prices_batched: what is resolved is filed under the source *)
(* it is called with; all that is staged is promoted with it *)
Stage ==
  /\ At("stage") /\ Continue
  /\ LET source == CHOOSE s \in This.ids : TRUE
         resolved == {r \in raw : Resolvable(r.id)}
     IN /\ obs' = IF raw = {} THEN obs ELSE obs \cup (resolved \X {source}) \cup staged
        /\ staged' = IF raw = {} THEN staged ELSE {}
        /\ rejects' = rejects \cup (raw \ resolved)
        /\ refused' = refused \cup (raw \ resolved)
        /\ MapPrints({r.id : r \in raw})
        /\ odd' = IF tier' = tier THEN odd ELSE odd \cup {"moved"}
  /\ UNCHANGED <<day, beat, active, site, disk, cards, raw, extra>>

(* the procedure catches the error of a batch and goes on to the next *)
StageSkips ==
  /\ (At("stage") \/ At("promote")) /\ Continue
  /\ Fails
  /\ UNCHANGED <<day, beat, active, site, disk, database>>

(* resolve_price_rejects *)
Retry ==
  /\ At("retry") /\ Continue
  /\ LET ready == {r \in rejects : Resolvable(r.id)}
     IN /\ staged' = staged \cup (ready \X {OwnSource})
        /\ rejects' = rejects \ ready
        /\ MapPrints({r.id : r \in ready})
  /\ odd' = IF tier' = tier THEN odd ELSE odd \cup {"moved"}
  /\ UNCHANGED <<day, beat, active, site, disk, cards, raw, obs, refused, extra>>

(* load_prices_from_staged_batched *)
Promote ==
  /\ At("promote") /\ Continue
  /\ obs' = obs \cup staged /\ staged' = {}
  /\ Calm /\ UNCHANGED <<day, beat, active, site, disk, cards, tier, raw, rejects, refused>>

-----------------------------------------------------------------------------
Work ==
  \/ RunRefresh \/ RunLoad \/ RunTask \/ Start \/ Finish \/ StepFails
  \/ Fetch \/ FetchRaises \/ Probe \/ Download \/ BuildMapping
  \/ BulkLoad \/ Stage \/ StageSkips \/ Retry \/ Promote

OperatorTasks ==
  {Do("discover"), Do("mapping"), Do("full")} \cup {Step("download", m, {}) : m \in Markets}

Next == Beat \/ (\E do \in OperatorTasks : Manual(do)) \/ Move \/ Work

Spec == Init /\ [][Next]_vars
-----------------------------------------------------------------------------
(* Every variable has its type, and a mapped card has one print. *)
TypeOK ==
  /\ day \in 0 .. MaxDay /\ beat \in DOMAIN BeatPlan
  /\ \A k \in DOMAIN queue : queue[k].todo # <<>>
  /\ known \subseteq Ids /\ info \subseteq known
  /\ file \in [Pairs -> NoFile .. MaxDay + 1]
  /\ tier \in [Ids -> Tiers \cup {0}]
  /\ \A i, j \in Ids : tier[i] # 0 /\ tier[j] # 0 /\ Card[i] = Card[j] => i = j
  /\ raw \cup rejects \cup refused \subseteq Rows
  /\ staged \cup obs \subseteq Rows \X (Markets \cup {OwnSource})

Routine == odd \subseteq {"early"}
Loaded(p, v) == \E o \in obs : o[1] = [id |-> p[1], market |-> p[2], ver |-> v]
DayIsOver == beat = 1 /\ queue = <<>>

(* While no work runs past the worker's midnight, nothing fails and no     *)
(* tier changes, every pair of a tier has been downloaded within the       *)
(* window of the tier, wherever in the local day the date changes. *)
WindowRefreshesAll ==
  DayIsOver /\ Routine =>
    \A t \in Tiers : day >= WindowDays[t] =>
      \A p \in Worklist(TierIds(t), t) : file[p] > day - WindowDays[t]

(* When the load, too, finds the downloads of its day complete, a download  *)
(* reaches price_observation before the next download of the same pair     *)
(* replaces its file. *)
EveryDownloadIsLoaded ==
  [][\A p \in Pairs : /\ file'[p] # file[p] /\ file[p] > 0
                      /\ odd' = {} /\ tier[p[1]] # 0
                      => Loaded(p, file[p])]_vars

(* A row rejected by the staging procedure stays in the reject table, is   *)
(* staged again or is observed, whatever fails in the load. *)
RejectedRowsSurvive ==
  \A r \in refused : r \in rejects \/ \E o \in staged \cup obs : o[1] = r

(* As long as two load chains do not use the raw table in turns, the price *)
(* of a market is filed under that market, or under mtgstocks. *)
FiledUnderItsMarket ==
  "shared" \notin odd => \A o \in obs : o[2] \in {o[1].market, OwnSource}

(* A rejected row is not lost, and a price is filed under its market. *)
RowsAreKept == RejectedRowsSurvive /\ FiledUnderItsMarket
=============================================================================
