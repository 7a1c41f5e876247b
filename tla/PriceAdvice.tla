----------------------------- MODULE PriceAdvice -----------------------------
(* What a seller is advised to do with the price of a listing: from its age   *)
(* and its watchers, or from the prices of a market, adjusted by the trend of *)
(* the daily prices of the card.  Percentages are exact: prices on offer and  *)
(* advised are in hundredths of the unit of market and daily prices.          *)
EXTENDS Integers, Sequences, FiniteSets

CONSTANTS
  Week, Fortnight, Month,     \* days listed: 7, 14 and 30
  Short, Long, Reach,    \* days of the windows: 7, 30 and 90
  Prices,                \* daily prices
  Bids,                  \* daily buylist prices
  Offers,                \* prices a seller may choose
  Watching,              \* numbers of watchers
  Markets,               \* what is known of the market of the card
  MaxDate                 \* bound: days

ASSUME AdviceAssumption ==
  /\ {Week, Fortnight, Month, Short, Long, Reach} \subseteq Nat /\ MaxDate \in Nat \ {0}
  /\ Week < Fortnight /\ Fortnight < Month /\ Short < Long /\ Long < Reach
  /\ Prices \cup Bids \cup Offers \cup Watching \subseteq Nat
  /\ \A m \in Markets :
       /\ {m.p25, m.median, m.p75, m.variation} \subseteq Nat /\ {m.crowded, m.rare} \subseteq BOOLEAN
       /\ m.p25 <= m.median /\ m.median <= m.p75

VARIABLES
  date,
  daily,     \* print_price_daily of the card, in the order it is read
  offer,     \* the listing: its price, the day it was listed, its watchers
  advice     \* the last recommendation

adviceVars == <<date, daily, offer, advice>>

None == "none"
NoMarket == [p25 |-> 0, median |-> 0, p75 |-> 0, variation |-> 0, crowded |-> FALSE, rare |-> FALSE]
NoAdvice == [action |-> "none", kind |-> None, price |-> 0, confidence |-> 0,
             uses |-> "none", trend |-> None, crowded |-> FALSE]

AdviceInit ==
  /\ date = 1 /\ daily = <<>> /\ advice = NoAdvice
  /\ offer \in [price : {100 * p : p \in Offers}, since : {1, -Month}, watchers : Watching]

-----------------------------------------------------------------------------
(* get_price_history: what the refresh has filed until yesterday, by day; the *)
(* sell and buylist rows of a day come in either order.                      *)
TooOld == {k \in DOMAIN daily : daily[k].day < date - Reach}
History == SubSeq(daily, Cardinality(TooOld) + 1, Len(daily))

(* _delta_pct compares the last price with the last one a window before it.  *)
LastRow(s) == s[Len(s)]
Earlier(s, days) == {k \in DOMAIN s : s[k].day <= LastRow(s).day - days}
KnownFor(s, days) == Earlier(s, days) # {}
Anchor(s, days) ==
  s[CHOOSE k \in Earlier(s, days) : \A j \in Earlier(s, days) : j <= k].avg
HasDelta(s, days) == s # <<>> /\ KnownFor(s, days) /\ Anchor(s, days) # 0

(* compute_price_trend, on a history that is not empty.                      *)
Primary(s) == IF HasDelta(s, Long) THEN Long ELSE Short
Trend(s) ==
  IF Len(s) < 2 \/ ~HasDelta(s, Primary(s)) THEN "INSUFFICIENT_DATA"
  ELSE LET old == Anchor(s, Primary(s))
           change == 10 * (LastRow(s).avg - old)
       IN IF change >= old THEN "UP" ELSE IF change <= -old THEN "DOWN" ELSE "SIDEWAYS"

-----------------------------------------------------------------------------
Advice(action, strategy, price, confidence, uses) ==
  [NoAdvice EXCEPT !.action = action, !.kind = strategy, !.price = price,
                   !.confidence = confidence, !.uses = uses]

Behavioral(days, watchers) ==
  IF days > Month /\ watchers = 0 THEN Advice("draft", "balanced", 0, 90, "behavioral")
  ELSE IF days > Fortnight /\ watchers < 2 THEN Advice("lower", "quick", 0, 80, "behavioral")
  ELSE IF days < Week /\ watchers >= 5 THEN Advice("raise", "max", 0, 75, "behavioral")
  ELSE Advice("hold", "balanced", 0, 70, "behavioral")

(* A market has the quartiles of the prices asked on it, and its coefficient *)
(* of variation in percent.                                                  *)
Volatile(m) == m.variation > 30
Calm(m) == m.variation < 20

QuickSale(m) ==
  IF Volatile(m) THEN [price |-> 95 * m.p25, confidence |-> 90]
  ELSE [price |-> 100 * m.p25, confidence |-> 85]
Competitive(m) ==
  IF m.crowded THEN [price |-> 92 * m.median, confidence |-> 80]
  ELSE [price |-> 95 * m.median, confidence |-> 85]
Premium(m) ==
  IF m.rare THEN [price |-> 105 * m.p75, confidence |-> 75]
  ELSE [price |-> 100 * m.p75, confidence |-> 60]

Strategies(m) == [quick |-> QuickSale(m), balanced |-> Competitive(m), max |-> Premium(m)]
Suitable(m) ==
  {"balanced"} \cup (IF Volatile(m) THEN {"quick"} ELSE {})
               \cup (IF m.rare /\ Calm(m) THEN {"max"} ELSE {})
Recommended(m) ==
  CHOOSE s \in Suitable(m) : \A other \in Suitable(m) :
    Strategies(m)[s].confidence >= Strategies(m)[other].confidence

Usual == [quick |-> "lower", balanced |-> "hold", max |-> "raise"]

(* _market_recommendation: the action is the price's, the advised price the  *)
(* strategy's.                                                               *)
UsualFirst(days, price, m) == Usual[Recommended(m)]
MarketAction(days, price, m) ==
  IF price < 95 * m.p25 THEN "raise"
  ELSE IF price > 105 * m.p75 THEN "lower"
  ELSE IF days > Fortnight /\ price <= 100 * m.p25 THEN "draft"
  ELSE Usual[Recommended(m)]
FromMarket(days, price, m) ==
  LET best == Strategies(m)[Recommended(m)]
  IN Advice(MarketAction(days, price, m), Recommended(m), best.price, best.confidence, "market")

(* _TREND_ADJUSTER, and what it does to the confidence.                      *)
Adjuster(action, trend) ==
  CASE action = "hold"  /\ trend = "UP"   -> <<"raise", 5>>
    [] action = "hold"  /\ trend = "DOWN" -> <<"lower", 5>>
    [] action = "raise" /\ trend = "DOWN" -> <<"hold", -5>>
    [] action = "lower" /\ trend = "UP"   -> <<"hold", -5>>
    [] OTHER -> <<action, 5>>
Clamped(n) == IF n < 0 THEN 0 ELSE IF n > 100 THEN 100 ELSE n

(* compute_recommendation.                                                   *)
Adjusted(rec, trend) ==
  IF trend \notin {"UP", "DOWN"} \/ rec.action = "draft" THEN rec
  ELSE [rec EXCEPT !.action = Adjuster(rec.action, trend)[1], !.uses = "trend",
                   !.confidence = Clamped(@ + Adjuster(rec.action, trend)[2])]

-----------------------------------------------------------------------------
(* A day ends and the nightly refresh files its prices.                      *)
NextDay ==
  /\ date < MaxDate /\ date' = date + 1
  /\ \E p \in Prices, b \in Bids :
       LET sell == [day |-> date, kind |-> "sell", avg |-> p]
           buy == [day |-> date, kind |-> "buy", avg |-> b]
       IN daily' \in {daily, Append(daily, sell), daily \o <<sell, buy>>, daily \o <<buy, sell>>}
  /\ UNCHANGED <<offer, advice>>

Watch(n) ==
  /\ n \in Watching /\ offer' = [offer EXCEPT !.watchers = n]
  /\ UNCHANGED <<date, daily, advice>>

(* get_listing_recommendation; without a history, and when the lookup fails, *)
(* there is no trend.                                                        *)
TrendOrNone == IF History = <<>> THEN {None} ELSE {None, Trend(History)}
AgeOf(l) == date - l.since
Base(market) ==
  IF market = NoMarket THEN Behavioral(AgeOf(offer), offer.watchers)
  ELSE FromMarket(AgeOf(offer), offer.price, market)
Advise(market) ==
  /\ \E trend \in TrendOrNone :
       advice' = [Adjusted(Base(market), trend) EXCEPT
                    !.trend = trend, !.crowded = market.crowded]
  /\ UNCHANGED <<date, daily, offer>>

(* get_listing_price_trend: the advice of the trend alone.                   *)
AdviseOnTrend ==
  LET trend == IF History = <<>> THEN "INSUFFICIENT_DATA" ELSE Trend(History)
  IN /\ advice' = [Adjusted(Behavioral(0, 0), trend) EXCEPT !.trend = trend]
     /\ UNCHANGED <<date, daily, offer>>

AdviceNext ==
  \/ NextDay \/ AdviseOnTrend
  \/ \E n \in Watching : Watch(n)
  \/ \E m \in Markets \cup {NoMarket} : Advise(m)

AdviceSpec == AdviceInit /\ [][AdviceNext]_adviceVars

-----------------------------------------------------------------------------
Actions == {"raise", "lower", "hold", "draft"}

PriceRows == [day : Nat, kind : {"sell", "buy"}, avg : Nat]
Strategy == {"quick", "balanced", "max"}
Trends == {None, "UP", "DOWN", "SIDEWAYS", "INSUFFICIENT_DATA"}
Advices ==
  [action : Actions \cup {"none"}, kind : Strategy \cup {None}, price : Nat,
   confidence : 0..100, uses : {"none", "behavioral", "market", "trend"},
   trend : Trends, crowded : BOOLEAN]

(* Every variable has its type; the prices filed are of days that are over.  *)
AdviceTypeOK ==
  /\ date \in 1..MaxDate
  /\ daily \in Seq(PriceRows) /\ \A k \in DOMAIN daily : daily[k].day < date
  /\ offer \in [price : Nat, since : Int, watchers : Watching]
  /\ advice \in Advices

(* What the prices of a market advise agrees with the price they advise: who *)
(* is to lower is not sent above the price on offer, and who is to raise is  *)
(* not sent below it, unless a crowd of listings costs the eight percent.    *)
AdvisedPriceAgrees ==
  advice.uses = "market" =>
    /\ advice.action = "lower" => advice.price <= offer.price
    /\ advice.action = "raise" /\ ~advice.crowded => advice.price >= offer.price

(* A card whose daily prices only rise, in the order they are read, is never *)
(* taken for one that falls.                                                 *)
Rising(s) == \A j, k \in DOMAIN s : j <= k => s[j].avg <= s[k].avg
RisingIsNotDown == History # <<>> /\ Rising(History) => Trend(History) # "DOWN"

(* A price is not raised on a falling trend nor lowered on a rising one.     *)
AdviceFollowsTrend ==
  /\ advice.trend = "DOWN" => advice.action # "raise"
  /\ advice.trend = "UP" => advice.action # "lower"

(* A market advises to lower only to a lower price, and to raise, in an      *)
(* uncrowded one, only to a higher price; prices that rise are never taken   *)
(* for a fall; no price is raised on a fall or lowered on a rise.            *)
AdviceHolds == AdvisedPriceAgrees /\ RisingIsNotDown /\ AdviceFollowsTrend
=============================================================================
