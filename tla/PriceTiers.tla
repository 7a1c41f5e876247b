----------------------------- MODULE PriceTiers -----------------------------
(***************************************************************************)
(* The tiers of the prices of one card, source and condition: observations *)
(* (tier 1) are aggregated per day (tier 2) and into the latest price,     *)
(* old days are rolled up per week (tier 3).  A refresh works in windows,  *)
(* each a transaction of its own, and a watermark says where it stopped.   *)
(* The worker refreshes in the MTGJSON chain and from the beat schedule,   *)
(* an operator over any range; the roll-up is called from psql, since the  *)
(* service of the schedule wraps a procedure that commits in a transaction *)
(* and always fails.                                                       *)
(***************************************************************************)
EXTENDS Integers

CONSTANTS
  LastDay,    \* bound: the days 1 .. LastDay
  WeekDays,   \* days of a week
  Window,     \* days of a refresh window
  KeepDays,   \* older_than: days that stay in tier 2
  MaxWrites,  \* bound: writes of the observations of a day
  MaxOdd      \* bound: refreshes by hand, windows that fail, processes that die

ASSUME TiersAssumption ==
  /\ {LastDay, WeekDays, Window} \subseteq Nat \ {0}
  /\ {KeepDays, MaxWrites, MaxOdd} \subseteq Nat

Callers == {"worker", "operator"}
Days == 1 .. LastDay
MondayOf(d) == d - ((d - 1) % WeekDays)
SameWeek(d, e) == MondayOf(d) = MondayOf(e)

VARIABLES
  today,
  obs,        \* price_observation: how often each day was written
  daily,      \* print_price_daily: the write each day was computed from, 0 for no row
  latest,     \* print_price_latest
  weekly,     \* print_price_weekly: the days that are counted in their week
  watermark,  \* tier_watermark of the daily tier
  refresh,    \* per caller: the refresh_daily_prices that runs
  archive,    \* the archive_to_weekly that runs
  processed,  \* history: days of a window that was committed
  rolledUp,   \* history: days whose row the roll-up has deleted
  reopened,   \* history: days written again at or after the roll-up of their week
  odd

refreshVars == <<daily, latest, watermark, refresh, processed, reopened>>
archiveVars == <<weekly, archive, rolledUp>>
tierVars == <<today, obs, refreshVars, archiveVars, odd>>

NoRefresh == [pc |-> "idle", start |-> 1, to |-> 0, batch |-> {}]
NoArchive == [pc |-> "idle", monday |-> 1, days |-> {}]

TiersInit ==
  /\ today = 1
  /\ obs = [d \in Days |-> 0] /\ daily = [d \in Days |-> 0]
  /\ latest = [day |-> 0, write |-> 0]
  /\ weekly = {} /\ watermark = 0
  /\ refresh = [c \in Callers |-> NoRefresh] /\ archive = NoArchive
  /\ processed = {} /\ rolledUp = {} /\ reopened = {}
  /\ odd = 0

Odd == odd < MaxOdd /\ odd' = odd + 1

NewDay ==
  /\ today < LastDay
  /\ today' = today + 1
  /\ UNCHANGED <<obs, refreshVars, archiveVars, odd>>

(* a loader or the promotion of sold prices writes a day, often a past one *)
Observe(d) ==
  /\ d <= today /\ obs[d] < MaxWrites
  /\ obs' = [obs EXCEPT ![d] = @ + 1]
  /\ UNCHANGED <<today, refreshVars, archiveVars, odd>>

-----------------------------------------------------------------------------
(* refresh_daily_prices(from, to)                                          *)
StartRefresh(c, from, to) ==
  /\ refresh[c].pc = "idle" /\ from <= to
  /\ refresh' = [refresh EXCEPT ![c] =
       [pc |-> "read", start |-> from, to |-> to, batch |-> {}]]
  /\ UNCHANGED <<today, obs, daily, latest, watermark, processed, reopened, archiveVars>>

(* the step of the MTGJSON chain passes no dates                           *)
ChainRefresh == StartRefresh("worker", watermark + 1, today - 1) /\ UNCHANGED odd

(* the task of 05:30 passes yesterday twice                                *)
BeatRefresh == today > 1 /\ StartRefresh("worker", today - 1, today - 1) /\ UNCHANGED odd

OperatorRefresh(from, to) == StartRefresh("operator", from, to) /\ Odd

WindowEnd(r) == IF r.start + Window - 1 <= r.to THEN r.start + Window - 1 ELSE r.to
WindowOf(r) == r.start .. WindowEnd(r)

(* what follows a window: the next one, or the end                         *)
After(r) ==
  IF WindowEnd(r) < r.to
  THEN [pc |-> "read", start |-> WindowEnd(r) + 1, to |-> r.to, batch |-> {}]
  ELSE NoRefresh

ReadWindow(c) ==
  /\ refresh[c].pc = "read"
  /\ refresh' = [refresh EXCEPT ![c] = [@ EXCEPT !.pc = "write",
       !.batch = {[day |-> d, write |-> obs[d]] :
                    d \in {e \in WindowOf(refresh[c]) \cap Days : obs[e] > 0}}]]
  /\ UNCHANGED <<today, obs, daily, latest, watermark, processed, reopened, archiveVars, odd>>

(* Mutant: any row replaces the latest price.                              *)
AlwaysNewer(row) == TRUE

(* the latest price only advances, or is computed again                    *)
Newer(row) == row.day >= latest.day

WriteDays(batch) == [d \in Days |->
  IF \E row \in batch : row.day = d THEN (CHOOSE row \in batch : row.day = d).write
  ELSE daily[d]]

InArchive(d) == archive.pc # "idle" /\ MondayOf(d) = archive.monday

WriteWindow(c) ==
  LET r == refresh[c]
      days == {row.day : row \in r.batch}
  IN /\ r.pc = "write"
     /\ daily' = WriteDays(r.batch)
     /\ \/ r.batch = {} /\ UNCHANGED latest
        \/ \E row \in r.batch :
             /\ \A other \in r.batch : other.day <= row.day
             /\ latest' = IF Newer(row) THEN row ELSE latest
     /\ processed' = processed \cup WindowOf(r)
     /\ reopened' = reopened \cup
          {d \in days : InArchive(d) \/ \E e \in rolledUp : SameWeek(d, e)}
     /\ refresh' = [refresh EXCEPT ![c] = [@ EXCEPT !.pc = "mark", !.batch = {}]]
     /\ UNCHANGED <<today, obs, watermark, archiveVars, odd>>

(* a window that fails is reported, and the next one is taken              *)
FailWindow(c) ==
  /\ refresh[c].pc = "write" /\ Odd
  /\ refresh' = [refresh EXCEPT ![c] = After(@)]
  /\ UNCHANGED <<today, obs, daily, latest, watermark, processed, reopened, archiveVars>>

SetWatermark(c) ==
  /\ refresh[c].pc = "mark"
  /\ watermark' = WindowEnd(refresh[c])
  /\ refresh' = [refresh EXCEPT ![c] = After(@)]
  /\ UNCHANGED <<today, obs, daily, latest, processed, reopened, archiveVars, odd>>

RefreshDies(c) ==
  /\ refresh[c].pc # "idle" /\ Odd
  /\ refresh' = [refresh EXCEPT ![c] = NoRefresh]
  /\ UNCHANGED <<today, obs, daily, latest, watermark, processed, reopened, archiveVars>>

-----------------------------------------------------------------------------
(* archive_to_weekly, one window of a week                                 *)

Cutoff(d) == MondayOf(d - KeepDays)

Archived(monday) ==
  {d \in Days : MondayOf(d) = monday /\ d < Cutoff(today) /\ daily[d] > 0}

ReadWeek(monday) ==
  /\ archive.pc = "idle" /\ today > KeepDays
  /\ Archived(monday) # {}
  /\ archive' = [pc |-> "delete", monday |-> monday, days |-> Archived(monday)]
  /\ UNCHANGED <<today, obs, refreshVars, weekly, rolledUp, odd>>

(* The week is replaced by what was read; the DELETE sees the rows of now. *)
DeleteWeek ==
  LET gone == Archived(archive.monday)
  IN /\ archive.pc = "delete"
     /\ weekly' = {d \in weekly : MondayOf(d) # archive.monday} \cup archive.days
     /\ daily' = [d \in Days |-> IF d \in gone THEN 0 ELSE daily[d]]
     /\ rolledUp' = rolledUp \cup gone
     /\ archive' = NoArchive
     /\ UNCHANGED <<today, obs, latest, watermark, refresh, processed, reopened, odd>>

ArchiveFails ==
  /\ archive.pc = "delete" /\ Odd
  /\ archive' = NoArchive
  /\ UNCHANGED <<today, obs, refreshVars, weekly, rolledUp>>

TiersNext ==
  \/ NewDay \/ (\E d \in Days : Observe(d))
  \/ ChainRefresh \/ BeatRefresh
  \/ \E from, to \in Days : OperatorRefresh(from, to)
  \/ \E c \in Callers : \/ ReadWindow(c) \/ WriteWindow(c) \/ FailWindow(c)
                        \/ SetWatermark(c) \/ RefreshDies(c)
  \/ (\E d \in Days : ReadWeek(d)) \/ DeleteWeek \/ ArchiveFails

TiersSpec == TiersInit /\ [][TiersNext]_tierVars

-----------------------------------------------------------------------------
(* Every variable has its type.                                            *)
Rows == [day : Days, write : Nat \ {0}]
TiersTypeOK ==
  /\ today \in Days
  /\ obs \in [Days -> Nat] /\ daily \in [Days -> Nat]
  /\ latest \in Rows \cup {[day |-> 0, write |-> 0]}
  /\ weekly \subseteq Days /\ watermark \in Nat
  /\ refresh \in [Callers -> [pc : {"idle", "read", "write", "mark"},
                              start : Nat, to : Nat, batch : SUBSET Rows]]
  /\ archive \in [pc : {"idle", "delete"}, monday : Int, days : SUBSET Days]
  /\ processed \subseteq Nat /\ rolledUp \subseteq Days /\ reopened \subseteq Days
  /\ odd \in Nat

(* The latest price is that of the newest day ever aggregated, whatever    *)
(* range a refresh is asked for and whichever of two refreshes is slower,  *)
(* and it is the price tier 2 has for that day (docs MTGSTOCK_PIPELINE.md: *)
(* "Always the most recent price across all tiers").                       *)
LatestIsNewest ==
  /\ \A d \in Days : daily[d] > 0 \/ d \in rolledUp => d <= latest.day
  /\ latest.day \in Days => daily[latest.day] \in {0, latest.write}

(* A day the roll-up deletes stays counted in its week, unless a day of    *)
(* the week was aggregated again when the roll-up had already read it.     *)
WeekIsWhole ==
  \A d \in rolledUp : d \in weekly \/ \E e \in reopened : SameWeek(d, e)

(* The latest price is that of the newest day ever aggregated, and agrees  *)
(* with tier 2; a day that is rolled up stays counted in its week.         *)
TiersAgree == LatestIsNewest /\ WeekIsWhole

(* Where the previous run left off: every day up to the watermark has been *)
(* aggregated (the chain "pick[s] up exactly where the previous run left   *)
(* off").                                                                  *)
NoDayPassedOver == \A d \in Days : d <= watermark => d \in processed
=============================================================================
