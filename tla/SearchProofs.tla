----------------------------- MODULE SearchProofs -----------------------------
(* Theorems about PriceTiers for every number of days, every length of a week *)
(* and of a window, and every refresh and roll-up; about ScryfallDaily for    *)
(* every sequence of versions and sets, every number of runs and every fault  *)
(* of the chain; and about CardSearch for every catalogue, every set of       *)
(* queries, processes and lives of the caches.                                *)
EXTENDS PriceTiers, ScryfallDaily, CardSearch, FiniteSetTheorems, TLAPS

-------------------------------------------------------------------------------
(* PriceTiers.                                                                *)
RefreshStates == [pc : {"idle", "read", "write", "mark"},
                  start : Nat, to : Nat, batch : SUBSET Rows]

(* A window has one row of a day at most.                                     *)
OneRowPerDay ==
  \A c \in Callers : \A x, y \in refresh[c].batch : x.day = y.day => x = y

Reopened(monday) == \E e \in reopened : MondayOf(e) = monday

(* While a roll-up runs: it has read every row of its week, and the week was  *)
(* not rolled up before, unless a day of it was aggregated again.             *)
ArchiveInv ==
  archive.pc = "delete" =>
    /\ today > KeepDays /\ archive.monday < Cutoff(today)
    /\ \A d \in archive.days : MondayOf(d) = archive.monday
    /\ \/ Reopened(archive.monday)
       \/ \A d \in Days : MondayOf(d) = archive.monday =>
            d \notin rolledUp /\ (daily[d] > 0 => d \in archive.days)

(* A week that was rolled up is empty unless a day of it was aggregated again.*)
EmptyOnceRolledUp ==
  \A d \in rolledUp : \A e \in Days : SameWeek(d, e) /\ daily[e] > 0 => Reopened(MondayOf(d))

TiersInv ==
  TiersTypeOK /\ OneRowPerDay /\ LatestIsNewest /\ ArchiveInv /\ EmptyOnceRolledUp /\ WeekIsWhole

(* The weeks of the calendar: each begins with its Monday.                    *)
LEMMA Weeks ==
  ASSUME NEW x \in Nat \ {0}
  PROVE  /\ (x - 1) \div WeekDays \in Nat
         /\ MondayOf(x) = 1 + WeekDays * ((x - 1) \div WeekDays)
         /\ MondayOf(x) <= x /\ x < MondayOf(x) + WeekDays
<1>1. WeekDays \in Nat \ {0} /\ x - 1 \in Nat
  BY TiersAssumption
<1>2. \A n \in Nat, w \in Nat \ {0} :
        n \div w \in Nat /\ (n % w) \in 0 .. w - 1 /\ n = w * (n \div w) + (n % w)
  BY SMT
<1> DEFINE q == (x - 1) \div WeekDays
           m == (x - 1) % WeekDays
<1>3. q \in Nat /\ m \in 0 .. WeekDays - 1 /\ x - 1 = WeekDays * q + m
  BY <1>1, <1>2
<1>4. MondayOf(x) = x - m
  BY DEF MondayOf
<1>5. WeekDays * q \in Nat
  BY <1>1, <1>3
<1> HIDE DEF m
<1>6. x - m = 1 + WeekDays * q
  <2> HIDE DEF q
  <2> DEFINE wq == WeekDays * q
  <2>1. wq \in Nat /\ x - 1 = wq + m
    BY <1>3, <1>5
  <2> HIDE DEF wq
  <2>2. x - m = 1 + wq
    BY <1>1, <1>3, <2>1
  <2>3. QED
    BY <2>2 DEF wq
<1>7. MondayOf(x) <= x /\ x < MondayOf(x) + WeekDays
  <2> HIDE DEF q
  <2>1. QED
    BY <1>1, <1>3, <1>4
<1>8. QED
  BY <1>3, <1>4, <1>6, <1>7

LEMMA Calendar ==
  ASSUME NEW x \in Nat \ {0}, NEW y \in Nat \ {0}
  PROVE  /\ MondayOf(x) \in Nat \ {0}
         /\ x <= y => MondayOf(x) <= MondayOf(y)
         /\ x < MondayOf(y) <=> MondayOf(x) < MondayOf(y)
<1> DEFINE p == (x - 1) \div WeekDays
           q == (y - 1) \div WeekDays
<1>1. p \in Nat /\ q \in Nat /\ WeekDays \in Nat \ {0}
  BY Weeks, TiersAssumption
<1>2. MondayOf(x) = 1 + WeekDays * p /\ MondayOf(y) = 1 + WeekDays * q
  BY Weeks
<1>3. /\ MondayOf(x) <= x /\ x < MondayOf(x) + WeekDays
      /\ MondayOf(y) <= y /\ y < MondayOf(y) + WeekDays
  BY Weeks
<1>4. \A w \in Nat \ {0}, m, n \in Nat : m < n => w * m + w <= w * n
  <2> SUFFICES ASSUME NEW w \in Nat \ {0}, NEW m \in Nat, NEW n \in Nat, m < n
               PROVE  w * m + w <= w * n
    OBVIOUS
  <2>1. n - m - 1 \in Nat /\ w * (n - m - 1) >= 0
    OBVIOUS
  <2>2. w * (n - m - 1) = w * n - w * m - w
    OBVIOUS
  <2>3. w * n \in Int /\ w * m \in Int
    OBVIOUS
  <2>4. QED
    BY <2>1, <2>2, <2>3
<1> HIDE DEF p, q
<1>5. WeekDays * p \in Nat /\ WeekDays * q \in Nat
  BY <1>1
<1>6. /\ p < q => WeekDays * p + WeekDays <= WeekDays * q
      /\ q < p => WeekDays * q + WeekDays <= WeekDays * p
  BY <1>1, <1>4
<1>7. p < q \/ p = q \/ q < p
  BY <1>1
<1>8. QED
  BY <1>1, <1>2, <1>3, <1>5, <1>6, <1>7

(* What a step writes to the refresh of one caller.                           *)
LEMMA RefreshTypes ==
  ASSUME TiersTypeOK, NEW c \in Callers
  PROVE  /\ WindowOf(refresh[c]) \subseteq Nat /\ WindowEnd(refresh[c]) \in Nat
         /\ \A batch \in SUBSET Rows :
              /\ [refresh[c] EXCEPT !.pc = "write", !.batch = batch] \in RefreshStates
              /\ [refresh[c] EXCEPT !.pc = "write", !.batch = batch].batch = batch
         /\ [refresh[c] EXCEPT !.pc = "mark", !.batch = {}] \in RefreshStates
         /\ [refresh[c] EXCEPT !.pc = "mark", !.batch = {}].batch = {}
         /\ After(refresh[c]) \in RefreshStates /\ After(refresh[c]).batch = {}
         /\ NoRefresh \in RefreshStates /\ NoRefresh.batch = {}
<1> DEFINE r == refresh[c]
<1>0. r \in RefreshStates /\ Window \in Nat \ {0}
  BY TiersAssumption DEF TiersTypeOK, RefreshStates
<1> HIDE DEF r
<1>1. WindowEnd(r) \in Nat
  BY <1>0 DEF RefreshStates, WindowEnd
<1>2. WindowOf(r) \subseteq Nat
  BY <1>0, <1>1 DEF RefreshStates, WindowOf
<1>3. /\ After(r) \in RefreshStates /\ After(r).batch = {}
      /\ NoRefresh \in RefreshStates /\ NoRefresh.batch = {}
  BY <1>0, <1>1 DEF RefreshStates, After, NoRefresh
<1>4. ASSUME NEW p \in {"write", "mark"}, NEW b \in SUBSET Rows
      PROVE  [r EXCEPT !.pc = p, !.batch = b] \in RefreshStates
             /\ [r EXCEPT !.pc = p, !.batch = b].batch = b
  <2> DEFINE s == [r EXCEPT !.pc = p]
  <2>1. s \in RefreshStates
    BY <1>0 DEF RefreshStates
  <2> HIDE DEF s
  <2>2. [s EXCEPT !.batch = b] \in RefreshStates /\ [s EXCEPT !.batch = b].batch = b
    BY <2>1 DEF RefreshStates
  <2>3. QED
    BY <2>2 DEF s
<1>5. QED
  BY <1>1, <1>2, <1>3, <1>4 DEF r

(* Type correctness, one action at a time.                                    *)
LEMMA TiersTypeStep == TiersTypeOK /\ [TiersNext]_tierVars => TiersTypeOK'
<1> SUFFICES ASSUME TiersTypeOK, [TiersNext]_tierVars PROVE TiersTypeOK'
  OBVIOUS
<1> USE TiersAssumption
<1>0. \A c \in Callers : refresh[c] \in RefreshStates /\ refresh \in [Callers -> RefreshStates]
  BY DEF TiersTypeOK, RefreshStates
<1>1. ASSUME NewDay \/ \E d \in Days : Observe(d) PROVE TiersTypeOK'
  <2>1. today' \in Days /\ obs' \in [Days -> Nat]
    <3>1. CASE NewDay
      <4>1. today \in Days /\ obs \in [Days -> Nat] /\ LastDay \in Nat
        BY DEF TiersTypeOK, TiersAssumption
      <4>2. today' = today + 1 /\ today < LastDay /\ obs' = obs
        BY <3>1 DEF NewDay
      <4>3. today' \in Days
        BY <4>1, <4>2 DEF Days
      <4>4. QED
        BY <4>1, <4>2, <4>3
    <3>2. ASSUME NEW d \in Days, Observe(d) PROVE today' \in Days /\ obs' \in [Days -> Nat]
      <4>1. today \in Days /\ obs \in [Days -> Nat] /\ obs[d] + 1 \in Nat
        BY DEF TiersTypeOK
      <4>2. today' = today /\ obs' = [obs EXCEPT ![d] = obs[d] + 1]
        BY <3>2 DEF Observe
      <4>3. QED
        BY <4>1, <4>2
    <3>3. QED
      BY <1>1, <3>1, <3>2
  <2>2. QED
    BY <1>1, <2>1 DEF TiersTypeOK, NewDay, Observe, refreshVars, archiveVars
<1>2. ASSUME NEW c \in Callers, NEW from \in Nat, NEW to \in Nat, StartRefresh(c, from, to),
             odd' \in Nat
      PROVE  TiersTypeOK'
  <2>1. [pc |-> "read", start |-> from, to |-> to, batch |-> {}] \in RefreshStates
    BY DEF RefreshStates
  <2>2. refresh' \in [Callers -> RefreshStates]
    BY <1>0, <1>2, <2>1 DEF StartRefresh
  <2>3. QED
    BY <1>2, <2>2 DEF TiersTypeOK, StartRefresh, archiveVars, RefreshStates
<1>3. ASSUME ChainRefresh PROVE TiersTypeOK'
  <2>1. watermark + 1 \in Nat /\ today - 1 \in Nat /\ odd' \in Nat /\ "worker" \in Callers
    BY <1>3 DEF ChainRefresh, TiersTypeOK, Days, Callers
  <2>2. QED
    BY <1>2, <1>3, <2>1 DEF ChainRefresh
<1>4. ASSUME BeatRefresh PROVE TiersTypeOK'
  <2>1. today - 1 \in Nat /\ odd' \in Nat /\ "worker" \in Callers
    BY <1>4 DEF BeatRefresh, TiersTypeOK, Days, Callers
  <2>2. QED
    BY <1>2, <1>4, <2>1 DEF BeatRefresh
<1>5. ASSUME NEW from \in Days, NEW to \in Days, OperatorRefresh(from, to) PROVE TiersTypeOK'
  <2>1. from \in Nat /\ to \in Nat /\ odd' \in Nat /\ "operator" \in Callers
    BY <1>5 DEF OperatorRefresh, Odd, TiersTypeOK, Days, Callers
  <2>2. QED
    BY <1>2, <1>5, <2>1 DEF OperatorRefresh
<1>6. ASSUME NEW c \in Callers, ReadWindow(c) PROVE TiersTypeOK'
  <2> DEFINE batch == {[day |-> d, write |-> obs[d]] :
                         d \in {e \in WindowOf(refresh[c]) \cap Days : obs[e] > 0}}
  <2>1. batch \in SUBSET Rows
    BY DEF Rows, TiersTypeOK
  <2>2. refresh' = [refresh EXCEPT ![c] = [@ EXCEPT !.pc = "write", !.batch = batch]]
    BY <1>6 DEF ReadWindow
  <2> HIDE DEF batch
  <2>3. [refresh[c] EXCEPT !.pc = "write", !.batch = batch] \in RefreshStates
    BY <2>1, RefreshTypes
  <2>4. refresh' \in [Callers -> RefreshStates]
    BY <1>0, <2>2, <2>3
  <2>5. QED
    BY <1>6, <2>4 DEF ReadWindow, TiersTypeOK, archiveVars, RefreshStates
<1>7. ASSUME NEW c \in Callers, WriteWindow(c) PROVE TiersTypeOK'
  <2>1. refresh' \in [Callers -> RefreshStates]
    <3>1. [refresh[c] EXCEPT !.pc = "mark", !.batch = {}] \in RefreshStates
      BY RefreshTypes
    <3>2. QED
      BY <1>0, <1>7, <3>1 DEF WriteWindow
  <2>2. refresh[c].batch \subseteq Rows /\ WindowOf(refresh[c]) \subseteq Nat
    BY <1>0, RefreshTypes DEF RefreshStates
  <2>3. daily' \in [Days -> Nat]
    <3>1. ASSUME NEW d \in Days, \E row \in refresh[c].batch : row.day = d
          PROVE (CHOOSE row \in refresh[c].batch : row.day = d).write \in Nat
      BY <2>2, <3>1 DEF Rows
    <3>2. QED
      BY <1>7, <3>1 DEF WriteWindow, WriteDays, TiersTypeOK
  <2>4. latest' \in Rows \cup {[day |-> 0, write |-> 0]}
    BY <1>7, <2>2 DEF WriteWindow, TiersTypeOK
  <2>5. /\ processed' = processed \cup WindowOf(refresh[c])
        /\ reopened' \subseteq reopened \cup {row.day : row \in refresh[c].batch}
        /\ UNCHANGED <<today, obs, watermark, weekly, archive, rolledUp, odd>>
    BY <1>7 DEF WriteWindow, archiveVars
  <2>6. {row.day : row \in refresh[c].batch} \subseteq Days
    BY <2>2 DEF Rows
  <2>7. QED
    BY <2>1, <2>2, <2>3, <2>4, <2>5, <2>6 DEF TiersTypeOK, RefreshStates
<1>8. ASSUME NEW c \in Callers, FailWindow(c) \/ SetWatermark(c) \/ RefreshDies(c)
      PROVE  TiersTypeOK'
  <2>0. watermark \in Nat /\ odd \in Nat
    BY DEF TiersTypeOK
  <2>1. refresh' \in [Callers -> RefreshStates] /\ watermark' \in Nat /\ odd' \in Nat
    <3>1. After(refresh[c]) \in RefreshStates /\ NoRefresh \in RefreshStates
          /\ WindowEnd(refresh[c]) \in Nat
      BY RefreshTypes
    <3>2. refresh' = [refresh EXCEPT ![c] = After(@)] \/ refresh' = [refresh EXCEPT ![c] = NoRefresh]
      BY <1>8 DEF FailWindow, SetWatermark, RefreshDies
    <3>3. refresh' \in [Callers -> RefreshStates]
      BY <1>0, <3>1, <3>2
    <3>4. QED
      BY <1>8, <2>0, <3>1, <3>3 DEF FailWindow, SetWatermark, RefreshDies, Odd
  <2>2. QED
    BY <1>8, <2>1 DEF FailWindow, SetWatermark, RefreshDies, TiersTypeOK, archiveVars, RefreshStates
<1>9. ASSUME NEW d \in Days, ReadWeek(d) PROVE TiersTypeOK'
  <2>1. Archived(d) \subseteq Days /\ d \in Int
    BY DEF Archived, Days
  <2>2. QED
    BY <1>9, <2>1 DEF ReadWeek, TiersTypeOK, refreshVars
<1>10. CASE DeleteWeek
  <2>1. Archived(archive.monday) \subseteq Days
    BY DEF Archived
  <2>2. daily' \in [Days -> Nat] /\ weekly' \subseteq Days /\ rolledUp' \subseteq Days
    BY <1>10, <2>1 DEF DeleteWeek, TiersTypeOK
  <2>3. QED
    BY <1>10, <2>2 DEF DeleteWeek, TiersTypeOK, NoArchive
<1>11. CASE ArchiveFails
  BY <1>11 DEF ArchiveFails, Odd, TiersTypeOK, refreshVars, NoArchive
<1>12. CASE UNCHANGED tierVars
  BY <1>12 DEF tierVars, refreshVars, archiveVars, TiersTypeOK
<1>13. QED
  BY <1>1, <1>3, <1>4, <1>5, <1>6, <1>7, <1>8, <1>9, <1>10, <1>11, <1>12 DEF TiersNext

LEMMA BatchStep ==
  TiersTypeOK /\ OneRowPerDay /\ [TiersNext]_tierVars => OneRowPerDay'
<1> SUFFICES ASSUME TiersTypeOK, OneRowPerDay, [TiersNext]_tierVars PROVE OneRowPerDay'
  OBVIOUS
<1> USE TiersAssumption
<1>0. refresh \in [Callers -> RefreshStates]
  BY DEF TiersTypeOK, RefreshStates
<1>1. ASSUME refresh' = refresh PROVE OneRowPerDay'
  BY <1>1 DEF OneRowPerDay
<1>2. ASSUME NEW c \in Callers, NEW s, refresh' = [refresh EXCEPT ![c] = s],
             \A x, y \in s.batch : x.day = y.day => x = y
      PROVE  OneRowPerDay'
  BY <1>0, <1>2 DEF OneRowPerDay
<1>3. ASSUME NEW c \in Callers, NEW from \in Int, NEW to \in Int, StartRefresh(c, from, to)
      PROVE  OneRowPerDay'
  <2> DEFINE s == [pc |-> "read", start |-> from, to |-> to, batch |-> {}]
  <2>1. refresh' = [refresh EXCEPT ![c] = s] /\ s.batch = {}
    BY <1>3 DEF StartRefresh
  <2> HIDE DEF s
  <2>2. QED
    BY <1>2, <2>1
<1>4. ASSUME NEW c \in Callers, ReadWindow(c) PROVE OneRowPerDay'
  <2> DEFINE batch == {[day |-> d, write |-> obs[d]] :
                         d \in {e \in WindowOf(refresh[c]) \cap Days : obs[e] > 0}}
             s == [refresh[c] EXCEPT !.pc = "write", !.batch = batch]
  <2>1. batch \in SUBSET Rows
    BY DEF Rows, TiersTypeOK
  <2>2. \A x, y \in batch : x.day = y.day => x = y
    OBVIOUS
  <2>3. refresh' = [refresh EXCEPT ![c] = s]
    BY <1>4 DEF ReadWindow
  <2> HIDE DEF batch
  <2>4. s.batch = batch
    BY <2>1, RefreshTypes
  <2> HIDE DEF s
  <2>5. QED
    BY <1>2, <2>2, <2>3, <2>4
<1>5. ASSUME NEW c \in Callers,
             WriteWindow(c) \/ FailWindow(c) \/ SetWatermark(c) \/ RefreshDies(c)
      PROVE  OneRowPerDay'
  <2>1. PICK s \in {[refresh[c] EXCEPT !.pc = "mark", !.batch = {}], After(refresh[c]), NoRefresh} :
           refresh' = [refresh EXCEPT ![c] = s]
    BY <1>5 DEF WriteWindow, FailWindow, SetWatermark, RefreshDies
  <2>2. s.batch = {}
    BY RefreshTypes
  <2>3. QED
    BY <1>2, <2>1, <2>2
<1>6. ASSUME ChainRefresh \/ BeatRefresh \/ \E from, to \in Days : OperatorRefresh(from, to)
      PROVE  OneRowPerDay'
  <2>1. \E c \in Callers : \E from, to \in Int : StartRefresh(c, from, to)
    BY <1>6 DEF ChainRefresh, BeatRefresh, OperatorRefresh, TiersTypeOK, Days, Callers
  <2>2. QED
    BY <1>3, <2>1
<1>7. ASSUME \/ NewDay \/ \E d \in Days : Observe(d) \/ ReadWeek(d)
             \/ DeleteWeek \/ ArchiveFails \/ UNCHANGED tierVars
      PROVE  OneRowPerDay'
  BY <1>1, <1>7 DEF NewDay, Observe, ReadWeek, DeleteWeek, ArchiveFails, tierVars, refreshVars
<1>8. QED
  BY <1>4, <1>5, <1>6, <1>7 DEF TiersNext

(* The steps that neither write tier 2 nor roll a week up.                    *)
Aside == UNCHANGED <<daily, latest, rolledUp, weekly, reopened>>

LEMMA AsideSteps ==
  [TiersNext]_tierVars =>
    \/ Aside /\ archive' = archive /\ (today' = today \/ NewDay)
    \/ Aside /\ archive' = NoArchive
    \/ Aside /\ \E d \in Days : ReadWeek(d)
    \/ \E c \in Callers : WriteWindow(c)
    \/ DeleteWeek
BY DEF TiersNext, tierVars, refreshVars, archiveVars, Aside, NewDay, Observe, ChainRefresh, BeatRefresh,
       OperatorRefresh, StartRefresh, ReadWindow, FailWindow, SetWatermark, RefreshDies, ReadWeek,
       ArchiveFails

(* What a window writes: a row of the batch, or what there was.               *)
LEMMA WrittenDays ==
  ASSUME TiersTypeOK, OneRowPerDay, NEW c \in Callers, WriteWindow(c)
  PROVE  /\ \A row \in refresh[c].batch : row \in Rows /\ daily'[row.day] = row.write
         /\ \A d \in Days : (\A row \in refresh[c].batch : row.day # d) => daily'[d] = daily[d]
<1>1. refresh[c].batch \in SUBSET Rows
  BY DEF TiersTypeOK
<1>2. daily' = WriteDays(refresh[c].batch)
  BY DEF WriteWindow
<1>3. ASSUME NEW row \in refresh[c].batch PROVE row \in Rows /\ daily'[row.day] = row.write
  <2>1. row \in Rows /\ row.day \in Days
    BY <1>1 DEF Rows
  <2>2. (CHOOSE x \in refresh[c].batch : x.day = row.day) = row
    BY DEF OneRowPerDay
  <2>3. QED
    BY <1>2, <2>1, <2>2 DEF WriteDays
<1>4. QED
  BY <1>2, <1>3 DEF WriteDays

LEMMA LatestStep ==
  TiersTypeOK /\ OneRowPerDay /\ LatestIsNewest /\ [TiersNext]_tierVars => LatestIsNewest'
<1> SUFFICES ASSUME TiersTypeOK, OneRowPerDay, LatestIsNewest, [TiersNext]_tierVars
             PROVE  LatestIsNewest'
  OBVIOUS
<1> USE TiersAssumption
<1>1. CASE Aside
  BY <1>1 DEF Aside, LatestIsNewest
<1>2. CASE DeleteWeek
  BY <1>2 DEF DeleteWeek, LatestIsNewest, Archived, TiersTypeOK
<1>3. ASSUME NEW c \in Callers, WriteWindow(c) PROVE LatestIsNewest'
  <2> DEFINE batch == refresh[c].batch
  <2>1. rolledUp' = rolledUp /\ batch \in SUBSET Rows
    BY <1>3 DEF WriteWindow, archiveVars, TiersTypeOK
  <2>2. CASE batch = {}
    <3>1. latest' = latest /\ \A d \in Days : daily'[d] = daily[d]
      BY <1>3, <2>2, WrittenDays DEF WriteWindow
    <3>2. QED
      BY <2>1, <3>1 DEF LatestIsNewest
  <2>3. CASE batch # {}
    <3>1. PICK row \in batch : /\ \A other \in batch : other.day <= row.day
                               /\ latest' = IF Newer(row) THEN row ELSE latest
      BY <1>3, <2>3 DEF WriteWindow
    <3>2. row.day \in Days /\ latest.day \in Nat /\ latest'.day \in Nat
          /\ row.day <= latest'.day /\ latest.day <= latest'.day
      <4>1. row \in Rows /\ latest \in Rows \cup {[day |-> 0, write |-> 0]}
        BY <2>1 DEF TiersTypeOK
      <4>2. row.day \in Days /\ row.day \in Nat /\ latest.day \in Nat
        BY <4>1 DEF Rows, Days
      <4>3. CASE Newer(row)
        <5>1. latest' = row /\ latest.day <= row.day
          BY <3>1, <4>2, <4>3 DEF Newer
        <5>2. QED
          BY <4>2, <5>1
      <4>4. CASE ~Newer(row)
        <5>1. latest' = latest /\ row.day <= latest.day
          BY <3>1, <4>2, <4>4 DEF Newer
        <5>2. QED
          BY <4>2, <5>1
      <4>5. QED
        BY <4>3, <4>4
    <3>3. ASSUME NEW d \in Days, daily'[d] > 0 \/ d \in rolledUp' PROVE d <= latest'.day
      <4>1. CASE \E other \in batch : other.day = d
        BY <2>1, <3>1, <3>2, <4>1 DEF Rows, Days
      <4>2. CASE \A other \in batch : other.day # d
        <5>1. daily'[d] = daily[d]
          BY <1>3, <4>2, WrittenDays
        <5>2. d <= latest.day
          BY <2>1, <3>3, <5>1 DEF LatestIsNewest
        <5>3. QED
          BY <3>2, <5>2 DEF Days
      <4>3. QED
        BY <4>1, <4>2
    <3>4. ASSUME latest'.day \in Days PROVE daily'[latest'.day] \in {0, latest'.write}
      <4>1. CASE Newer(row)
        <5>1. latest' = row /\ daily'[row.day] = row.write
          BY <1>3, <3>1, <4>1, WrittenDays
        <5>2. QED
          BY <5>1
      <4>2. CASE ~Newer(row)
        <5>1. latest' = latest /\ row.day < latest.day
          BY <3>1, <3>2, <4>2 DEF Newer, Days
        <5>2. \A other \in batch : other.day # latest.day
          BY <2>1, <3>1, <3>2, <5>1 DEF Rows, Days
        <5>3. daily'[latest.day] = daily[latest.day]
          BY <1>3, <3>4, <5>1, <5>2, WrittenDays
        <5>4. QED
          BY <3>4, <5>1, <5>3 DEF LatestIsNewest
      <4>3. QED
        BY <4>1, <4>2
    <3>5. QED
      BY <3>3, <3>4 DEF LatestIsNewest
  <2>4. QED
    BY <2>2, <2>3
<1>4. QED
  BY <1>1, <1>2, <1>3, AsideSteps

(* A day before the cut-off, which is a Monday: its whole week is before it.  *)
LEMMA WholeWeeks ==
  ASSUME TiersTypeOK, today > KeepDays, NEW d \in Days
  PROVE  /\ d < Cutoff(today) <=> MondayOf(d) < Cutoff(today)
         /\ Cutoff(today) \in Nat /\ Cutoff(today + 1) \in Nat
         /\ Cutoff(today) <= Cutoff(today + 1)
<1>1. today - KeepDays \in Nat \ {0} /\ (today + 1) - KeepDays \in Nat \ {0}
      /\ today - KeepDays <= (today + 1) - KeepDays /\ d \in Nat \ {0}
  BY TiersAssumption DEF TiersTypeOK, Days
<1> DEFINE x == today - KeepDays
           y == (today + 1) - KeepDays
<1>2. x \in Nat \ {0} /\ y \in Nat \ {0} /\ x <= y /\ d \in Nat \ {0}
  BY <1>1
<1>3. Cutoff(today) = MondayOf(x) /\ Cutoff(today + 1) = MondayOf(y)
  BY DEF Cutoff
<1> HIDE DEF x, y
<1>4. d < MondayOf(x) <=> MondayOf(d) < MondayOf(x)
  BY <1>2, Calendar
<1>5. MondayOf(x) \in Nat /\ MondayOf(y) \in Nat /\ MondayOf(x) <= MondayOf(y)
  BY <1>2, Calendar
<1>6. QED
  BY <1>3, <1>4, <1>5

LEMMA WeekStep ==
  ASSUME TiersInv, [TiersNext]_tierVars
  PROVE  ArchiveInv' /\ EmptyOnceRolledUp' /\ WeekIsWhole'
<1> USE TiersAssumption
<1>0. TiersTypeOK /\ OneRowPerDay /\ ArchiveInv /\ EmptyOnceRolledUp /\ WeekIsWhole
  BY DEF TiersInv
<1>1. ASSUME Aside PROVE EmptyOnceRolledUp' /\ WeekIsWhole'
  BY <1>0, <1>1 DEF Aside, EmptyOnceRolledUp, WeekIsWhole, Reopened
<1>2. CASE Aside /\ archive' = archive /\ (today' = today \/ NewDay)
  <2>1. ASSUME today' = today PROVE ArchiveInv'
    BY <1>0, <1>2, <2>1 DEF Aside, ArchiveInv, Reopened, Cutoff
  <2>2. ASSUME NewDay PROVE ArchiveInv'
    <3> SUFFICES ASSUME archive'.pc = "delete"
                 PROVE  today' > KeepDays /\ archive'.monday < Cutoff(today')
      BY <1>0, <1>2 DEF Aside, ArchiveInv, Reopened
    <3>1. today > KeepDays /\ archive.monday < Cutoff(today) /\ today' = today + 1 /\ today \in Days
          /\ archive.monday \in Int
      BY <1>0, <1>2, <2>2 DEF ArchiveInv, NewDay, TiersTypeOK
    <3>2. Cutoff(today) \in Nat /\ Cutoff(today) <= Cutoff(today + 1) /\ Cutoff(today + 1) \in Int
      BY <1>0, <3>1, WholeWeeks
    <3>3. QED
      BY <1>2, <3>1, <3>2 DEF Days
  <2>3. QED
    BY <1>1, <1>2, <2>1, <2>2
<1>3. CASE Aside /\ archive' = NoArchive
  BY <1>1, <1>3 DEF ArchiveInv, NoArchive
<1>4. ASSUME Aside, NEW monday \in Days, ReadWeek(monday) PROVE ArchiveInv'
  <2>1. /\ today > KeepDays /\ today' = today /\ daily' = daily
        /\ archive' = [pc |-> "delete", monday |-> monday, days |-> Archived(monday)]
    BY <1>4 DEF ReadWeek, Aside
  <2>2. PICK x \in Days : MondayOf(x) = monday /\ x < Cutoff(today) /\ daily[x] > 0
    BY <1>4 DEF ReadWeek, Archived
  <2>3. monday < Cutoff(today)
    BY <1>0, <2>1, <2>2, WholeWeeks
  <2>4. ASSUME ~Reopened(monday), NEW d \in Days, MondayOf(d) = monday
        PROVE  d \notin rolledUp /\ (daily[d] > 0 => d \in Archived(monday))
    <3>1. d \notin rolledUp
      BY <1>0, <2>2, <2>4 DEF EmptyOnceRolledUp, SameWeek
    <3>2. d < Cutoff(today)
      BY <1>0, <2>1, <2>3, <2>4, WholeWeeks
    <3>3. QED
      BY <2>4, <3>1, <3>2 DEF Archived
  <2>5. Cutoff(today') = Cutoff(today) /\ Reopened(monday)' = Reopened(monday)
    BY <1>4, <2>1 DEF Cutoff, Aside, Reopened
  <2>6. \A d \in Archived(monday) : MondayOf(d) = monday
    BY DEF Archived
  <2>7. QED
    BY <1>4, <2>1, <2>3, <2>4, <2>5, <2>6 DEF ArchiveInv, Aside, Reopened
<1>5. ASSUME NEW c \in Callers, WriteWindow(c)
      PROVE  ArchiveInv' /\ EmptyOnceRolledUp' /\ WeekIsWhole'
  <2> DEFINE days == {row.day : row \in refresh[c].batch}
  <2>1. /\ reopened' = reopened \cup {d \in days : InArchive(d) \/ \E e \in rolledUp : SameWeek(d, e)}
        /\ UNCHANGED <<today, weekly, archive, rolledUp>>
    BY <1>5 DEF WriteWindow, archiveVars
  <2>2. \A d \in Days \ days : daily'[d] = daily[d]
    BY <1>0, <1>5, WrittenDays
  <2> HIDE DEF days
  <2>3. reopened \subseteq reopened'
    BY <2>1
  <2>4. ASSUME archive.pc = "delete",
               NEW d \in Days, MondayOf(d) = archive.monday, daily'[d] > 0, d \notin archive.days
        PROVE  \E e \in reopened' : MondayOf(e) = archive.monday
    <3>1. CASE d \in days
      <4>1. InArchive(d)
        BY <2>4 DEF InArchive
      <4>2. d \in reopened'
        BY <2>1, <3>1, <4>1
      <4>3. QED
        BY <2>4, <4>2
    <3>2. CASE d \notin days
      <4>1. daily[d] > 0
        BY <2>2, <2>4, <3>2
      <4>2. Reopened(archive.monday)
        BY <1>0, <2>4, <4>1 DEF ArchiveInv
      <4>3. QED
        BY <2>3, <4>2 DEF Reopened
    <3>3. QED
      BY <3>1, <3>2
  <2>5. ArchiveInv'
    <3>1. Cutoff(today') = Cutoff(today)
      BY <2>1
    <3> SUFFICES ASSUME archive.pc = "delete", ~\E e \in reopened' : MondayOf(e) = archive.monday
                 PROVE  \A d \in Days : MondayOf(d) = archive.monday =>
                          d \notin rolledUp /\ (daily'[d] > 0 => d \in archive.days)
      BY <1>0, <2>1, <3>1 DEF ArchiveInv, Reopened
    <3>2. ~Reopened(archive.monday)
      BY <2>3 DEF Reopened
    <3>3. QED
      BY <1>0, <2>4, <3>2 DEF ArchiveInv
  <2>6. EmptyOnceRolledUp'
    <3> SUFFICES ASSUME NEW d \in rolledUp, NEW e \in Days, SameWeek(d, e), daily'[e] > 0
                 PROVE  \E f \in reopened' : MondayOf(f) = MondayOf(d)
      BY <2>1 DEF EmptyOnceRolledUp, Reopened
    <3>1. CASE e \in days
      <4>1. e \in reopened'
        BY <2>1, <3>1 DEF SameWeek
      <4>2. QED
        BY <4>1 DEF SameWeek
    <3>2. CASE e \notin days
      BY <1>0, <2>2, <2>3, <3>2 DEF EmptyOnceRolledUp, Reopened
    <3>3. QED
      BY <3>1, <3>2
  <2>7. WeekIsWhole'
    BY <1>0, <2>1 DEF WeekIsWhole
  <2>8. QED
    BY <2>5, <2>6, <2>7
<1>6. CASE DeleteWeek
  <2> DEFINE monday == archive.monday
             gone == Archived(monday)
  <2>1. /\ archive.pc = "delete" /\ archive' = NoArchive /\ reopened' = reopened
        /\ weekly' = {d \in weekly : MondayOf(d) # monday} \cup archive.days
        /\ daily' = [d \in Days |-> IF d \in gone THEN 0 ELSE daily[d]]
        /\ rolledUp' = rolledUp \cup gone
    BY <1>6 DEF DeleteWeek
  <2>2. \A d \in Days : d \in gone <=> MondayOf(d) = monday /\ daily[d] > 0
    <3>1. today > KeepDays /\ monday < Cutoff(today)
      BY <1>0, <2>1 DEF ArchiveInv
    <3>2. \A d \in Days : d < Cutoff(today) <=> MondayOf(d) < Cutoff(today)
      BY <1>0, <3>1, WholeWeeks
    <3>3. QED
      BY <3>1, <3>2 DEF Archived
  <2>3. gone \subseteq Days /\ rolledUp \subseteq Days
    BY <1>0 DEF Archived, TiersTypeOK
  <2> HIDE DEF gone
  <2>4. EmptyOnceRolledUp'
    <3> SUFFICES ASSUME NEW d \in rolledUp \cup gone, NEW e \in Days, SameWeek(d, e), daily'[e] > 0
                 PROVE  Reopened(MondayOf(d))
      BY <2>1 DEF EmptyOnceRolledUp, Reopened
    <3>1. e \notin gone /\ daily[e] > 0
      BY <2>1
    <3>2. MondayOf(d) # monday
      BY <2>2, <3>1 DEF SameWeek
    <3>3. d \in rolledUp
      BY <2>2, <2>3, <3>2
    <3>4. QED
      BY <1>0, <3>1, <3>3 DEF EmptyOnceRolledUp
  <2>5. WeekIsWhole'
    <3> SUFFICES ASSUME NEW d \in rolledUp \cup gone
                 PROVE  d \in weekly' \/ \E e \in reopened : SameWeek(d, e)
      BY <2>1 DEF WeekIsWhole
    <3>1. CASE MondayOf(d) # monday
      BY <1>0, <2>1, <2>2, <2>3, <3>1 DEF WeekIsWhole
    <3>2. CASE MondayOf(d) = monday
      <4>1. CASE Reopened(monday)
        BY <3>2, <4>1 DEF Reopened, SameWeek
      <4>2. CASE ~Reopened(monday)
        <5>1. d \notin rolledUp /\ (daily[d] > 0 => d \in archive.days)
          BY <1>0, <2>1, <2>3, <3>2, <4>2 DEF ArchiveInv
        <5>2. QED
          BY <2>1, <2>2, <2>3, <5>1
      <4>3. QED
        BY <4>1, <4>2
    <3>3. QED
      BY <3>1, <3>2
  <2>6. QED
    BY <2>1, <2>4, <2>5 DEF ArchiveInv, NoArchive
<1>7. QED
  BY <1>1, <1>2, <1>3, <1>4, <1>5, <1>6, AsideSteps

LEMMA TiersStart == TiersInit => TiersInv
<1> SUFFICES ASSUME TiersInit PROVE TiersInv
  OBVIOUS
<1> USE TiersAssumption
<1>1. TiersTypeOK
  <2>1. refresh \in [Callers -> RefreshStates]
    BY DEF TiersInit, NoRefresh, RefreshStates
  <2>2. QED
    BY <2>1 DEF TiersInit, TiersTypeOK, RefreshStates, NoArchive, Days
<1>2. OneRowPerDay
  BY DEF TiersInit, OneRowPerDay, NoRefresh
<1>3. LatestIsNewest /\ EmptyOnceRolledUp /\ WeekIsWhole
  BY DEF TiersInit, LatestIsNewest, EmptyOnceRolledUp, WeekIsWhole, Days
<1>4. ArchiveInv
  BY DEF TiersInit, ArchiveInv, NoArchive
<1>5. QED
  BY <1>1, <1>2, <1>3, <1>4 DEF TiersInv

(* Whatever ranges the chain, the schedule and operators refresh, however     *)
(* their windows interleave, fail and die, and whenever weeks are rolled up:  *)
(* the latest price is that of the newest day ever aggregated, and a day that *)
(* is rolled up stays counted in its week unless a day of that week is        *)
(* aggregated again (refresh_daily_prices, archive_to_weekly).                *)
THEOREM TiersAlwaysAgree == TiersSpec => []TiersAgree
<1>1. TiersInv /\ [TiersNext]_tierVars => TiersInv'
  BY TiersTypeStep, BatchStep, LatestStep, WeekStep DEF TiersInv
<1>2. TiersInv => TiersAgree
  BY DEF TiersInv, TiersAgree
<1>3. QED
  BY <1>1, <1>2, TiersStart, PTL DEF TiersSpec

-------------------------------------------------------------------------------
(* ScryfallDaily.                                                             *)
StepNames ==
  {"manifest", "record", "sets", "importSets", "cards", "importCards", "cleanup", "done"}
RunStates ==
  [at : StepNames \cup {"none", "failed"}, day : 0..ChainDays,
   named : 0..LastVersion, todo : 0..LastVersion,
   setsDay : 0..ChainDays, cardsDay : 0..ChainDays]

(* What a run knows at each step.                                             *)
RunFits(s, this, known, done) ==
  /\ s.cardsDay <= this /\ (s.at = "none" => s.cardsDay = 0)
  /\ s.at \in {"none", "manifest", "record"} => s.todo = 0
  /\ s.at \notin {"none", "manifest", "failed"} => s.named # 0
  /\ s.at \notin {"none", "manifest", "record", "sets", "failed"} => s.setsDay # 0
  /\ s.todo # 0 => s.todo \in known
  /\ s.at \in {"cleanup", "done"} => s.todo = 0 \/ s.todo \in done

AllFit == \A r \in Chains : RunFits(chains[r], day, recorded, imported)

ScryfallInv == ScryfallTypeOK /\ AllFit /\ VersionsAreCarried

LEMMA StepsAre ==
  /\ Range(Steps) = StepNames
  /\ Following("manifest") = "record" /\ Following("record") = "sets"
  /\ Following("sets") = "importSets" /\ Following("importSets") = "cards"
  /\ Following("cards") = "importCards" /\ Following("importCards") = "cleanup"
  /\ Following("cleanup") = "done"
<1>1. Len(Steps) = 8 /\ DOMAIN Steps = 1..8
  BY DEF Steps
<1>2. /\ Steps[1] = "manifest" /\ Steps[2] = "record" /\ Steps[3] = "sets"
      /\ Steps[4] = "importSets" /\ Steps[5] = "cards" /\ Steps[6] = "importCards"
      /\ Steps[7] = "cleanup" /\ Steps[8] = "done"
  BY DEF Steps
<1>3. 1..8 = {1, 2, 3, 4, 5, 6, 7, 8} /\ 1..7 = {1, 2, 3, 4, 5, 6, 7} /\ 8 - 1 = 7
  OBVIOUS
<1>4. Range(Steps) = StepNames
  BY <1>1, <1>2, <1>3 DEF Range, StepNames
<1>5. ASSUME NEW n \in 1..7 PROVE Following(Steps[n]) = Steps[1 + n]
  <2>1. \A m, k \in 1..7 : Steps[m] = Steps[k] => m = k
    BY <1>2, <1>3
  <2> DEFINE c == CHOOSE m \in 1..7 : Steps[m] = Steps[n]
  <2>2. c \in 1..7 /\ Steps[c] = Steps[n]
    <3>1. \E m \in 1..7 : Steps[m] = Steps[n]
      OBVIOUS
    <3>2. QED
      BY <3>1
  <2>3. c = n
    BY <2>1, <2>2
  <2>4. QED
    BY <1>1, <1>3, <2>3 DEF Following
<1>6. QED
  BY <1>2, <1>4, <1>5, 1 \in 1..7, 2 \in 1..7, 3 \in 1..7, 4 \in 1..7, 5 \in 1..7, 6 \in 1..7,
     7 \in 1..7

(* The step a redelivery goes back to.                                        *)
StepBefore(at) == CHOOSE b \in Range(Steps) : b # "done" /\ Following(b) = at

LEMMA StepsBefore ==
  /\ StepBefore("record") = "manifest" /\ StepBefore("sets") = "record"
  /\ StepBefore("importSets") = "sets" /\ StepBefore("cards") = "importSets"
  /\ StepBefore("importCards") = "cards" /\ StepBefore("cleanup") = "importCards"
<1>1. ASSUME NEW a \in StepNames \ {"done"}
      PROVE  StepBefore(Following(a)) = a
  <2>1. \A b \in StepNames : b # "done" /\ Following(b) = Following(a) => b = a
    BY StepsAre DEF StepNames
  <2>2. \E b \in Range(Steps) : b # "done" /\ Following(b) = Following(a)
    BY StepsAre
  <2>3. QED
    BY <2>1, <2>2, StepsAre DEF StepBefore
<1>2. QED
  BY <1>1, StepsAre DEF StepNames

LEMMA TypesAre ==
  ASSUME ScryfallInv
  PROVE  /\ chains \in [Chains -> RunStates] /\ day \in 1..ChainDays
         /\ ChainDays \in Nat /\ LastVersion \in Nat /\ upstream \in 1..LastVersion
BY StepsAre, ScryfallAssumption DEF ScryfallInv, ScryfallTypeOK, RunStates

(* Files stay in order when no run's file gets older and none but the file of *)
(* the run itself comes.                                                      *)
LEMMA FilesStay ==
  ASSUME FilesGoOldestFirst, chains \in [Chains -> RunStates], chains' \in [Chains -> RunStates],
         \A q \in Chains : chains'[q].cardsDay >= chains[q].cardsDay,
         \A q \in Chains : q \notin files' =>
           q \notin files /\ chains'[q].cardsDay = chains[q].cardsDay
  PROVE  FilesGoOldestFirst'
<1> SUFFICES ASSUME NEW r \in Chains, chains'[r].cardsDay # 0, r \notin files'
    PROVE  Cardinality({q \in Chains \ {r} : chains'[q].cardsDay >= chains'[r].cardsDay}) >= Keep
  BY DEF FilesGoOldestFirst
<1> DEFINE newer == {q \in Chains \ {r} : chains[q].cardsDay >= chains[r].cardsDay}
           newerNow == {q \in Chains \ {r} : chains'[q].cardsDay >= chains'[r].cardsDay}
<1>1. \A q \in Chains : chains[q].cardsDay \in Int /\ chains'[q].cardsDay \in Int
  BY DEF RunStates
<1>2. newer \subseteq newerNow
  BY <1>1
<1>3. IsFiniteSet(newerNow)
  BY FS_Subset, ScryfallAssumption
<1>4. /\ Cardinality(newer) <= Cardinality(newerNow)
      /\ Cardinality(newer) \in Nat /\ Cardinality(newerNow) \in Nat
  BY <1>2, <1>3, FS_Subset, FS_CardinalityType
<1>5. Cardinality(newer) >= Keep
  BY DEF FilesGoOldestFirst
<1>6. QED
  BY <1>4, <1>5, ScryfallAssumption

(* What a run knows stays so when others record and import.                   *)
LEMMA FitsGrows ==
  ASSUME ScryfallInv, NEW r \in Chains, recorded \subseteq recorded', imported \subseteq imported',
         day' \in Nat, day <= day', chains'[r] = chains[r]
  PROVE  RunFits(chains[r], day', recorded', imported')
<1>1. chains[r].cardsDay \in Nat /\ day \in Nat
  BY TypesAre DEF RunStates
<1>2. RunFits(chains[r], day, recorded, imported)
  BY DEF ScryfallInv, AllFit
<1>3. QED
  BY <1>1, <1>2 DEF RunFits

StoredOK ==
  /\ stored \in [Sets -> [in : BOOLEAN, link : Sets \cup {NoSet}]]
  /\ \A s \in Sets : stored[s].link # NoSet => stored[stored[s].link].in
  /\ fresh \subseteq Sets /\ relisted \subseteq Sets

(* One run moves on: what it has recorded stays carried.                      *)
LEMMA CarriedOn ==
  ASSUME ScryfallInv, NEW r \in Chains, NEW s \in RunStates,
         chains' = [chains EXCEPT ![r] = s],
         UNCHANGED <<day, upstream, published>>,
         recorded \subseteq recorded', imported \subseteq imported', lost \subseteq lost',
         recorded' \subseteq 1..LastVersion, imported' \subseteq recorded', lost' \subseteq recorded',
         RunFits(s, day', recorded', imported'), files' \subseteq Chains,
         \A v \in recorded' \ recorded : s.todo = v /\ s.at \notin Ended \cup {"none"},
         Active(r) /\ chains[r].todo # 0 =>
           chains[r].todo \in imported' \cup lost' \/ (s.todo = chains[r].todo /\ s.at \notin Ended \cup {"none"}),
         setsFile' \in [1..ChainDays -> [saved : {"none", "part", "whole"}, sets : SUBSET Sets]],
         faults' \in 0..MaxFaults, StoredOK', ParentsAreLinked', FilesGoOldestFirst'
  PROVE  ScryfallInv'
<1>1. /\ chains' \in [Chains -> RunStates] /\ chains'[r] = s
      /\ \A q \in Chains \ {r} : chains'[q] = chains[q]
  BY TypesAre
<1>2. ScryfallTypeOK'
  BY <1>1, StepsAre DEF ScryfallInv, ScryfallTypeOK, RunStates, StoredOK
<1>3. AllFit'
  <2> SUFFICES ASSUME NEW q \in Chains PROVE RunFits(chains'[q], day', recorded', imported')
    BY DEF AllFit
  <2>1. CASE q # r
    <3>1. chains'[q] = chains[q] /\ day' \in Nat /\ day <= day'
      BY <1>1, <2>1, TypesAre
    <3>2. QED
      BY <3>1, FitsGrows
  <2>2. CASE q = r
    BY <1>1, <2>2 DEF RunFits
  <2>3. QED
    BY <2>1, <2>2
<1>4. EveryVersionIsCarried'
  <2> SUFFICES ASSUME NEW v \in recorded', v \notin imported', v \notin lost'
      PROVE  \E q \in Chains : Active(q)' /\ chains'[q].todo = v
    BY DEF EveryVersionIsCarried
  <2>1. CASE v \notin recorded
    BY <1>1, <2>1 DEF Active
  <2>2. CASE v \in recorded
    <3>1. PICK q \in Chains : Active(q) /\ chains[q].todo = v
      BY <2>2 DEF ScryfallInv, VersionsAreCarried, EveryVersionIsCarried
    <3>2. v # 0
      BY ScryfallAssumption
    <3>3. QED
      BY <1>1, <3>1, <3>2 DEF Active
  <2>3. QED
    BY <2>1, <2>2
<1>5. QED
  BY <1>2, <1>3, <1>4 DEF ScryfallInv, VersionsAreCarried

(* And its file may come.                                                     *)
LEMMA MoveKeeps ==
  ASSUME ScryfallInv, NEW r \in Chains, NEW s \in RunStates,
         chains' = [chains EXCEPT ![r] = s],
         UNCHANGED <<day, upstream, published>>,
         recorded \subseteq recorded', imported \subseteq imported', lost \subseteq lost',
         recorded' \subseteq 1..LastVersion, imported' \subseteq recorded', lost' \subseteq recorded',
         RunFits(s, day', recorded', imported'), s.cardsDay >= chains[r].cardsDay,
         s.cardsDay # chains[r].cardsDay => r \in files',
         files' \subseteq Chains, files \subseteq files',
         \A v \in recorded' \ recorded : s.todo = v /\ s.at \notin Ended \cup {"none"},
         Active(r) /\ chains[r].todo # 0 =>
           chains[r].todo \in imported' \cup lost' \/ (s.todo = chains[r].todo /\ s.at \notin Ended \cup {"none"}),
         setsFile' \in [1..ChainDays -> [saved : {"none", "part", "whole"}, sets : SUBSET Sets]],
         faults' \in 0..MaxFaults,
         UNCHANGED <<stored, fresh, relisted>>
  PROVE  ScryfallInv'
<1>1. /\ chains' \in [Chains -> RunStates] /\ chains'[r] = s
      /\ \A q \in Chains \ {r} : chains'[q] = chains[q]
  BY TypesAre
<1>2. StoredOK' /\ ParentsAreLinked'
  BY DEF ScryfallInv, ScryfallTypeOK, StoredOK, VersionsAreCarried, ParentsAreLinked
<1>3. FilesGoOldestFirst'
  <2>1. \A q \in Chains : chains[q].cardsDay \in Nat
    BY TypesAre DEF RunStates
  <2>2. \A q \in Chains : chains'[q].cardsDay >= chains[q].cardsDay
    BY <1>1, <2>1
  <2>3. \A q \in Chains : q \notin files' => q \notin files /\ chains'[q].cardsDay = chains[q].cardsDay
    BY <1>1
  <2>4. QED
    BY <1>1, <2>2, <2>3, TypesAre, FilesStay DEF ScryfallInv, VersionsAreCarried
<1>4. QED
  BY <1>2, <1>3, CarriedOn

LEMMA Outside ==
  ASSUME ScryfallInv, Publish \/ NextDay
  PROVE  ScryfallInv'
<1>1. /\ UNCHANGED <<chains, recorded, setsFile, files, stored, fresh, relisted, imported, lost, faults>>
      /\ day' \in 1..ChainDays /\ day <= day' /\ upstream' \in 1..LastVersion /\ published' \subseteq Sets
  <2>1. CASE Publish
    BY <2>1, TypesAre DEF Publish, ScryfallInv, ScryfallTypeOK
  <2>2. CASE NextDay
    BY <2>2, TypesAre DEF NextDay, ScryfallInv, ScryfallTypeOK
  <2>3. QED
    BY <2>1, <2>2
<1>2. ScryfallTypeOK'
  BY <1>1 DEF ScryfallInv, ScryfallTypeOK
<1>3. AllFit'
  <2> SUFFICES ASSUME NEW q \in Chains PROVE RunFits(chains'[q], day', recorded', imported')
    BY DEF AllFit
  <2>1. day' \in Nat
    BY <1>1, TypesAre
  <2>2. QED
    BY <1>1, <2>1, FitsGrows
<1>4. VersionsAreCarried'
  BY <1>1 DEF ScryfallInv, VersionsAreCarried, EveryVersionIsCarried, FilesGoOldestFirst, ParentsAreLinked, Active
<1>5. QED
  BY <1>2, <1>3, <1>4 DEF ScryfallInv

(* A run, and where it goes.                                                  *)
State(at, d, named, todo, setsDay, cardsDay) ==
  [at |-> at, day |-> d, named |-> named, todo |-> todo, setsDay |-> setsDay, cardsDay |-> cardsDay]

LEMMA RunIs ==
  ASSUME ScryfallInv, NEW r \in Chains
  PROVE  /\ chains[r] \in RunStates /\ RunFits(chains[r], day, recorded, imported) /\ chains \in [Chains -> RunStates]
         /\ chains[r] = State(chains[r].at, chains[r].day, chains[r].named, chains[r].todo,
                             chains[r].setsDay, chains[r].cardsDay)
         /\ chains[r].cardsDay \in 0..ChainDays /\ chains[r].cardsDay <= day
         /\ chains[r].day \in 0..ChainDays /\ chains[r].named \in 0..LastVersion
         /\ chains[r].todo \in 0..LastVersion /\ chains[r].setsDay \in 0..ChainDays
<1>1. chains[r] \in RunStates /\ chains \in [Chains -> RunStates]
  BY TypesAre
<1>2. RunFits(chains[r], day, recorded, imported)
  BY DEF ScryfallInv, AllFit
<1>3. QED
  BY <1>1, <1>2 DEF RunFits, RunStates, State

LEMMA RestIs ==
  ASSUME ScryfallInv
  PROVE  /\ day \in 1..ChainDays /\ upstream \in 1..LastVersion /\ ChainDays \in Nat /\ LastVersion \in Nat
         /\ recorded \subseteq 1..LastVersion /\ imported \subseteq recorded /\ lost \subseteq recorded
         /\ files \subseteq Chains /\ faults \in 0..MaxFaults /\ published \subseteq Sets
         /\ setsFile \in [1..ChainDays -> [saved : {"none", "part", "whole"}, sets : SUBSET Sets]]
<1>1. ScryfallTypeOK
  BY DEF ScryfallInv
<1>2. QED
  BY <1>1, ScryfallAssumption DEF ScryfallTypeOK

LEMMA StateIs ==
  ASSUME NEW at \in StepNames \cup {"none", "failed"}, NEW d \in 0..ChainDays,
         NEW named \in 0..LastVersion, NEW todo \in 0..LastVersion,
         NEW setsDay \in 0..ChainDays, NEW cardsDay \in 0..ChainDays
  PROVE  State(at, d, named, todo, setsDay, cardsDay) \in RunStates
BY DEF State, RunStates

LEMMA GoesTo ==
  ASSUME NEW r, NEW a, NEW d, NEW named, NEW todo, NEW setsDay, NEW cardsDay, NEW c,
         c = State(a, d, named, todo, setsDay, cardsDay), Goes(r, c)
  PROVE  chains' = [chains EXCEPT ![r] = State(Following(a), d, named, todo, setsDay, cardsDay)]
<1>1. [c EXCEPT !.at = Following(@)] = State(Following(a), d, named, todo, setsDay, cardsDay)
  BY DEF State
<1>2. chains' = [chains EXCEPT ![r] = [c EXCEPT !.at = Following(@)]]
  BY DEF Goes
<1>3. QED
  BY <1>1, <1>2

LEMMA Advances ==
  ASSUME ScryfallInv, NEW r \in Chains, NEW a, NEW next \in StepNames, Following(a) = next,
         NEW d \in 0..ChainDays, NEW named \in 0..LastVersion, NEW todo \in 0..LastVersion,
         NEW setsDay \in 0..ChainDays, NEW cardsDay \in 0..ChainDays,
         NEW c, c = State(a, d, named, todo, setsDay, cardsDay), Goes(r, c)
  PROVE  \E s \in RunStates :
           /\ chains' = [chains EXCEPT ![r] = s] /\ s.at = next /\ s.day = d /\ s.named = named
           /\ s.todo = todo /\ s.setsDay = setsDay /\ s.cardsDay = cardsDay
<1> DEFINE s == State(next, d, named, todo, setsDay, cardsDay)
<1>1. chains' = [chains EXCEPT ![r] = s]
  BY GoesTo
<1>2. s \in RunStates
  BY StateIs
<1>3. /\ s.at = next /\ s.day = d /\ s.named = named
      /\ s.todo = todo /\ s.setsDay = setsDay /\ s.cardsDay = cardsDay
  BY DEF State
<1> HIDE DEF s
<1>4. QED
  BY <1>1, <1>2, <1>3

LEMMA RunsFirst ==
  [Unstarted EXCEPT !.at = "manifest", !.day = day] = State("manifest", day, 0, 0, 0, 0)
<1>1. Unstarted = State("none", 0, 0, 0, 0, 0)
  BY DEF Unstarted, State
<1>2. [State("none", 0, 0, 0, 0, 0) EXCEPT !.at = "manifest"] = State("manifest", 0, 0, 0, 0, 0)
  BY DEF State
<1>3. [State("manifest", 0, 0, 0, 0, 0) EXCEPT !.day = day] = State("manifest", day, 0, 0, 0, 0)
  BY DEF State
<1>4. QED
  BY <1>1, <1>2, <1>3

(* One run moves on and only its file may come.                               *)
LEMMA QuietMove ==
  ASSUME ScryfallInv, NEW r \in Chains, NEW s \in RunStates,
         chains' = [chains EXCEPT ![r] = s],
         UNCHANGED <<day, upstream, published, recorded, setsFile, stored, fresh, relisted, imported,
                     lost, faults>>,
         RunFits(s, day', recorded', imported'), s.cardsDay >= chains[r].cardsDay,
         s.cardsDay # chains[r].cardsDay => r \in files',
         files' = files \/ files' = files \cup {r},
         Active(r) /\ chains[r].todo # 0 =>
           chains[r].todo \in imported \/ (s.todo = chains[r].todo /\ s.at \notin Ended \cup {"none"})
  PROVE  ScryfallInv'
<1>1. /\ day' = day /\ upstream' = upstream /\ published' = published /\ recorded' = recorded
      /\ setsFile' = setsFile /\ stored' = stored /\ fresh' = fresh /\ relisted' = relisted
      /\ imported' = imported /\ lost' = lost /\ faults' = faults
  OBVIOUS
<1>2. /\ recorded \subseteq 1..LastVersion /\ imported \subseteq recorded /\ lost \subseteq recorded
      /\ setsFile \in [1..ChainDays -> [saved : {"none", "part", "whole"}, sets : SUBSET Sets]]
      /\ faults \in 0..MaxFaults /\ files' \subseteq Chains /\ files \subseteq files'
  BY RestIs
<1>3. /\ recorded \subseteq recorded' /\ imported \subseteq imported' /\ lost \subseteq lost'
      /\ recorded' \subseteq 1..LastVersion /\ imported' \subseteq recorded' /\ lost' \subseteq recorded'
      /\ \A v \in recorded' \ recorded : s.todo = v /\ s.at \notin Ended \cup {"none"}
      /\ setsFile' \in [1..ChainDays -> [saved : {"none", "part", "whole"}, sets : SUBSET Sets]]
      /\ faults' \in 0..MaxFaults
      /\ Active(r) /\ chains[r].todo # 0 =>
           chains[r].todo \in imported' \cup lost' \/ (s.todo = chains[r].todo /\ s.at \notin Ended \cup {"none"})
  BY <1>1, <1>2
<1>4. QED
  BY <1>1, <1>2, <1>3, MoveKeeps

LEMMA StartKeeps ==
  ASSUME ScryfallInv, NEW r \in Chains, StartChain(r) \/ ReadManifest(r)
  PROVE  ScryfallInv'
<1>1. CASE StartChain(r)
  <2> DEFINE s == State("manifest", day, 0, 0, 0, 0)
  <2>1. chains[r].at = "none" /\ chains' = [chains EXCEPT ![r] = s]
        /\ UNCHANGED <<day, upstream, published, recorded, setsFile, files, stored, fresh,
                 relisted, imported, lost, faults>>
    BY <1>1, RunsFirst DEF StartChain, RunAt
  <2>2. s \in RunStates
    BY StateIs, RestIs DEF StepNames
  <2>3. RunFits(s, day', recorded', imported')
    BY <2>1, RestIs DEF RunFits, State
  <2>4. ~Active(r)
    BY <2>1 DEF Active, Ended
  <2>5. chains[r].cardsDay = 0 /\ s.cardsDay = 0
    BY <2>1, RunIs DEF RunFits, State
  <2> HIDE DEF s
  <2>6. s.cardsDay >= chains[r].cardsDay
    BY <2>5
  <2>7. QED
    BY <2>1, <2>2, <2>3, <2>4, <2>5, <2>6, QuietMove
<1>2. CASE ReadManifest(r)
  <2> DEFINE c == chains[r]
  <2>1. /\ c.at = "manifest" /\ Goes(r, [c EXCEPT !.named = upstream])
        /\ UNCHANGED <<day, upstream, published, recorded, setsFile, files, stored, fresh,
                 relisted, imported, lost, faults>>
    BY <1>2 DEF ReadManifest, RunAt
  <2>2. [c EXCEPT !.named = upstream] = State("manifest", c.day, upstream, c.todo, c.setsDay, c.cardsDay)
    <3>1. c = State("manifest", c.day, c.named, c.todo, c.setsDay, c.cardsDay)
      BY <2>1, RunIs
    <3> HIDE DEF c
    <3>2. QED
      BY <3>1 DEF State
  <2>3. upstream \in 0..LastVersion /\ upstream # 0
    BY RestIs
  <2>4. PICK s \in RunStates :
          /\ chains' = [chains EXCEPT ![r] = s] /\ s.at = "record" /\ s.day = c.day /\ s.named = upstream
          /\ s.todo = c.todo /\ s.setsDay = c.setsDay /\ s.cardsDay = c.cardsDay
    <3>1. /\ c.day \in 0..ChainDays /\ c.todo \in 0..LastVersion /\ c.setsDay \in 0..ChainDays
          /\ c.cardsDay \in 0..ChainDays /\ "record" \in StepNames /\ Following("manifest") = "record"
      BY StepsAre, RunIs DEF StepNames
    <3>2. QED
      BY <2>1, <2>2, <2>3, <3>1, Advances
  <2>5. RunFits(c, day, recorded, imported) /\ c.cardsDay \in Nat
    BY RunIs
  <2> HIDE DEF c
  <2>6. c.todo = 0 /\ s.cardsDay >= c.cardsDay
    BY <2>1, <2>4, <2>5 DEF RunFits
  <2>7. RunFits(s, day', recorded', imported')
    BY <2>1, <2>3, <2>4, <2>5, <2>6 DEF RunFits
  <2>8. QED
    BY <2>1, <2>4, <2>6, <2>7, QuietMove DEF c
<1>3. QED
  BY <1>1, <1>2

LEMMA RecordKeeps ==
  ASSUME ScryfallInv, NEW r \in Chains, Record(r)
  PROVE  ScryfallInv'
<1> DEFINE c == chains[r]
           n == IF c.named \in recorded THEN 0 ELSE c.named
<1>0. c.at = "record" /\ c.todo = 0 /\ c.named \in 1..LastVersion
  BY RunIs DEF Record, RunAt, RunFits
<1>1. /\ c.at = "record" /\ Goes(r, [c EXCEPT !.todo = n])
      /\ UNCHANGED <<day, upstream, published, setsFile, files, stored, fresh, relisted,
                    imported, lost, faults>>
      /\ recorded' = recorded \cup {c.named}
  <2>1. Changed(c.named) = {} <=> c.named \in recorded
    BY DEF Changed
  <2>2. (IF Changed(c.named) = {} THEN 0 ELSE c.todo + c.named) = n
    BY <1>0, <2>1
  <2>3. Goes(r, [c EXCEPT !.todo = IF Changed(c.named) = {} THEN 0 ELSE c.todo + c.named])
    BY DEF Record
  <2>4. QED
    BY <1>0, <2>2, <2>3 DEF Record, Changed
<1>2. [c EXCEPT !.todo = n] = State("record", c.day, c.named, n, c.setsDay, c.cardsDay)
  <2>1. c = State("record", c.day, c.named, c.todo, c.setsDay, c.cardsDay)
    BY <1>1, RunIs
  <2> HIDE DEF c
  <2>2. QED
    BY <2>1 DEF State
<1>3. PICK s \in RunStates :
        /\ chains' = [chains EXCEPT ![r] = s] /\ s.at = "sets" /\ s.day = c.day /\ s.named = c.named
        /\ s.todo = n /\ s.setsDay = c.setsDay /\ s.cardsDay = c.cardsDay
  <2>1. /\ c.day \in 0..ChainDays /\ c.named \in 0..LastVersion /\ n \in 0..LastVersion
        /\ c.setsDay \in 0..ChainDays /\ c.cardsDay \in 0..ChainDays
    BY <1>0, RunIs, RestIs
  <2>2. "sets" \in StepNames /\ Following("record") = "sets"
    BY StepsAre DEF StepNames
  <2>3. QED
    BY <1>1, <1>2, <2>1, <2>2, Advances
<1>4. RunFits(c, day, recorded, imported) /\ c.cardsDay \in Nat /\ c.cardsDay <= day /\ day \in 1..ChainDays
  BY RunIs, RestIs
<1> HIDE DEF c
<1>5. RunFits(s, day', recorded', imported') /\ s.cardsDay >= c.cardsDay
  BY <1>0, <1>1, <1>3, <1>4 DEF RunFits
<1>6. /\ \A v \in recorded' \ recorded : s.todo = v /\ s.at \notin Ended \cup {"none"}
      /\ recorded' \subseteq 1..LastVersion
  BY <1>0, <1>1, <1>3, RestIs DEF Ended
<1>7. /\ day' = day /\ upstream' = upstream /\ published' = published
      /\ setsFile' = setsFile /\ stored' = stored /\ fresh' = fresh /\ relisted' = relisted
      /\ imported' = imported /\ lost' = lost /\ faults' = faults /\ files' = files
  BY <1>1
<1>8. QED
  BY <1>0, <1>1, <1>3, <1>5, <1>6, <1>7, RestIs, MoveKeeps DEF c

LEMMA SaveSetsKeeps ==
  ASSUME ScryfallInv, NEW r \in Chains, SaveSets(r)
  PROVE  ScryfallInv'
<1> DEFINE c == chains[r]
<1>1. /\ c.at = "sets" /\ Goes(r, [c EXCEPT !.setsDay = day])
      /\ UNCHANGED <<day, upstream, published, recorded, files, stored, fresh, relisted,
                    imported, lost, faults>>
      /\ setsFile' = setsFile \/ setsFile' = [setsFile EXCEPT ![day] = [saved |-> "whole", sets |-> published]]
  BY DEF SaveSets, RunAt
<1>2. [c EXCEPT !.setsDay = day] = State("sets", c.day, c.named, c.todo, day, c.cardsDay)
  <2>1. c = State("sets", c.day, c.named, c.todo, c.setsDay, c.cardsDay)
    BY <1>1, RunIs
  <2> HIDE DEF c
  <2>2. QED
    BY <2>1 DEF State
<1>3. PICK s \in RunStates :
        /\ chains' = [chains EXCEPT ![r] = s] /\ s.at = "importSets" /\ s.day = c.day /\ s.named = c.named
        /\ s.todo = c.todo /\ s.setsDay = day /\ s.cardsDay = c.cardsDay
  <2>1. /\ c.day \in 0..ChainDays /\ c.named \in 0..LastVersion /\ c.todo \in 0..LastVersion
        /\ day \in 0..ChainDays /\ c.cardsDay \in 0..ChainDays
    BY RunIs, RestIs
  <2>2. "importSets" \in StepNames /\ Following("sets") = "importSets"
    BY StepsAre DEF StepNames
  <2>3. QED
    BY <1>1, <1>2, <2>1, <2>2, Advances
<1>4. RunFits(c, day, recorded, imported) /\ c.cardsDay \in Nat /\ c.cardsDay <= day /\ day \in 1..ChainDays
  BY RunIs, RestIs
<1> HIDE DEF c
<1>5. RunFits(s, day', recorded', imported') /\ s.cardsDay >= c.cardsDay
  BY <1>1, <1>3, <1>4 DEF RunFits
<1>6. setsFile' \in [1..ChainDays -> [saved : {"none", "part", "whole"}, sets : SUBSET Sets]]
  BY <1>1, RestIs
<1>7. /\ day' = day /\ upstream' = upstream /\ published' = published /\ recorded' = recorded
      /\ stored' = stored /\ fresh' = fresh /\ relisted' = relisted
      /\ imported' = imported /\ lost' = lost /\ faults' = faults /\ files' = files
  BY <1>1
<1>8. s.at \notin Ended \cup {"none"} /\ s.todo = c.todo
  BY <1>3 DEF Ended
<1>9. QED
  BY <1>1, <1>3, <1>5, <1>6, <1>7, <1>8, RestIs, MoveKeeps DEF c

LEMMA SaveIsCutKeeps ==
  ASSUME ScryfallInv, NEW r \in Chains, SaveIsCut(r)
  PROVE  ScryfallInv'
<1>1. setsFile' \in [1..ChainDays -> [saved : {"none", "part", "whole"}, sets : SUBSET Sets]]
  BY RestIs DEF SaveIsCut
<1>2. faults' \in 0..MaxFaults
  BY RestIs, ScryfallAssumption DEF SaveIsCut
<1>3. ScryfallTypeOK'
  BY <1>1, <1>2 DEF SaveIsCut, ScryfallInv, ScryfallTypeOK
<1>4. AllFit' /\ VersionsAreCarried'
  BY DEF SaveIsCut, ScryfallInv, AllFit, RunFits, VersionsAreCarried, EveryVersionIsCarried,
         FilesGoOldestFirst, ParentsAreLinked, Active
<1>5. QED
  BY <1>3, <1>4 DEF ScryfallInv

LEMMA DownloadKeeps ==
  ASSUME ScryfallInv, NEW r \in Chains, DownloadCards(r)
  PROVE  ScryfallInv'
<1> DEFINE c == chains[r]
<1>1. /\ c.at = "cards"
      /\ UNCHANGED <<day, upstream, published, recorded, setsFile, stored, fresh, relisted,
                    imported, lost, faults>>
  BY DEF DownloadCards, RunAt
<1>2. CASE Wanted(r)
  <2> USE <1>1
  <2>1. c.at = "cards" /\ Goes(r, [c EXCEPT !.cardsDay = day]) /\ files' = files \cup {r}
    BY <1>2 DEF DownloadCards
  <2>2. [c EXCEPT !.cardsDay = day] = State("cards", c.day, c.named, c.todo, c.setsDay, day)
    <3>1. c = State("cards", c.day, c.named, c.todo, c.setsDay, c.cardsDay)
      BY <2>1, RunIs
    <3> HIDE DEF c
    <3>2. QED
      BY <3>1 DEF State
  <2>3. PICK s \in RunStates :
          /\ chains' = [chains EXCEPT ![r] = s] /\ s.at = "importCards" /\ s.day = c.day /\ s.named = c.named
          /\ s.todo = c.todo /\ s.setsDay = c.setsDay /\ s.cardsDay = day
    <3>1. /\ c.day \in 0..ChainDays /\ c.named \in 0..LastVersion /\ c.todo \in 0..LastVersion
          /\ c.setsDay \in 0..ChainDays /\ day \in 0..ChainDays
      BY RunIs, RestIs
    <3>2. "importCards" \in StepNames /\ Following("cards") = "importCards"
      BY StepsAre DEF StepNames
    <3>3. QED
      BY <2>1, <2>2, <3>1, <3>2, Advances
  <2>4. RunFits(c, day, recorded, imported) /\ c.cardsDay \in Nat /\ c.cardsDay <= day /\ day \in 1..ChainDays
    BY RunIs, RestIs
  <2> HIDE DEF c
  <2>5. RunFits(s, day', recorded', imported') /\ s.cardsDay >= c.cardsDay
    BY <2>1, <2>3, <2>4 DEF RunFits
  <2>6. s.at \notin Ended \cup {"none"}
    BY <2>3 DEF Ended
  <2>7. QED
    BY <1>1, <2>1, <2>3, <2>5, <2>6, QuietMove DEF c
<1>3. CASE ~Wanted(r)
  <2>1. c.at = "cards" /\ Goes(r, [c EXCEPT !.todo = 0]) /\ files' = files /\ c.todo = 0
    BY <1>1, <1>3 DEF DownloadCards, Wanted
  <2>2. [c EXCEPT !.todo = 0] = State("cards", c.day, c.named, 0, c.setsDay, c.cardsDay)
    <3>1. c = State("cards", c.day, c.named, c.todo, c.setsDay, c.cardsDay)
      BY <2>1, RunIs
    <3> HIDE DEF c
    <3>2. QED
      BY <3>1 DEF State
  <2>3. PICK s \in RunStates :
          /\ chains' = [chains EXCEPT ![r] = s] /\ s.at = "importCards" /\ s.day = c.day /\ s.named = c.named
          /\ s.todo = 0 /\ s.setsDay = c.setsDay /\ s.cardsDay = c.cardsDay
    <3>1. /\ c.day \in 0..ChainDays /\ c.named \in 0..LastVersion /\ 0 \in 0..LastVersion
          /\ c.setsDay \in 0..ChainDays /\ c.cardsDay \in 0..ChainDays
      BY RunIs, RestIs
    <3>2. "importCards" \in StepNames /\ Following("cards") = "importCards"
      BY StepsAre DEF StepNames
    <3>3. QED
      BY <2>1, <2>2, <3>1, <3>2, Advances
  <2>4. RunFits(c, day, recorded, imported) /\ c.cardsDay \in Nat /\ c.cardsDay <= day /\ day \in 1..ChainDays
    BY RunIs, RestIs
  <2> HIDE DEF c
  <2>5. RunFits(s, day', recorded', imported') /\ s.cardsDay >= c.cardsDay
    BY <1>1, <2>1, <2>3, <2>4 DEF RunFits
  <2>7. QED
    BY <1>1, <2>1, <2>3, <2>5, QuietMove DEF c
<1>4. QED
  BY <1>2, <1>3

LEMMA ImportKeeps ==
  ASSUME ScryfallInv, NEW r \in Chains, ImportAllCards(r)
  PROVE  ScryfallInv'
<1> DEFINE c == chains[r]
<1>1. /\ c.at = "importCards" /\ Goes(r, c)
      /\ UNCHANGED <<day, upstream, published, recorded, setsFile, files, stored, fresh, relisted,
                    lost, faults>>
      /\ imported' = imported \cup ({c.todo} \ {0})
  BY DEF ImportAllCards, RunAt
<1>2. c = State("importCards", c.day, c.named, c.todo, c.setsDay, c.cardsDay)
  <2>1. c = State("importCards", c.day, c.named, c.todo, c.setsDay, c.cardsDay)
    BY <1>1, RunIs
  <2> HIDE DEF c
  <2>2. QED
    BY <2>1 DEF State
<1>3. PICK s \in RunStates :
        /\ chains' = [chains EXCEPT ![r] = s] /\ s.at = "cleanup" /\ s.day = c.day /\ s.named = c.named
        /\ s.todo = c.todo /\ s.setsDay = c.setsDay /\ s.cardsDay = c.cardsDay
  <2>1. /\ c.day \in 0..ChainDays /\ c.named \in 0..LastVersion /\ c.todo \in 0..LastVersion
        /\ c.setsDay \in 0..ChainDays /\ c.cardsDay \in 0..ChainDays
    BY RunIs, RestIs
  <2>2. "cleanup" \in StepNames /\ Following("importCards") = "cleanup"
    BY StepsAre DEF StepNames
  <2>3. QED
    BY <1>1, <1>2, <2>1, <2>2, Advances
<1>4. RunFits(c, day, recorded, imported) /\ c.cardsDay \in Nat /\ c.cardsDay <= day /\ day \in 1..ChainDays
  BY RunIs, RestIs
<1> HIDE DEF c
<1>5. RunFits(s, day', recorded', imported') /\ s.cardsDay >= c.cardsDay
  BY <1>1, <1>3, <1>4 DEF RunFits
<1>6. imported' \subseteq recorded' /\ recorded' \subseteq 1..LastVersion /\ lost' \subseteq recorded'
  BY <1>1, <1>4, RestIs DEF RunFits
<1>7. /\ day' = day /\ upstream' = upstream /\ published' = published /\ recorded' = recorded
      /\ stored' = stored /\ fresh' = fresh /\ relisted' = relisted /\ setsFile' = setsFile
      /\ imported \subseteq imported' /\ lost' = lost /\ faults' = faults /\ files' = files
  BY <1>1
<1>8. s.at \notin Ended \cup {"none"} /\ s.todo = c.todo
  BY <1>3 DEF Ended
<1>9. QED
  BY <1>1, <1>3, <1>5, <1>6, <1>7, <1>8, RestIs, MoveKeeps DEF c

(* Rows are inserted with their parents, or overwritten.                      *)
LEMMA StoredKeeps ==
  ASSUME StoredOK, NEW names, names \subseteq Sets, relisted' = names,
         stored' = InsertSets(names), fresh' = {s \in Sets : stored'[s].in /\ ~stored[s].in}
  PROVE  StoredOK' /\ ParentsAreLinked'
<1>1. \A s \in Sets : Parent[s] \in Sets \cup {NoSet} /\ NoSet \notin Sets
  BY ScryfallAssumption
<1>2. ASSUME NEW s \in Sets
      PROVE  /\ s \in names => /\ stored'[s] = InsertSet(s, names) /\ stored'[s].in
                              /\ stored'[s].link = IF Parent[s] # NoSet /\ FindsParent(s, names)
                                                   THEN Parent[s] ELSE NoSet
             /\ s \notin names => stored'[s] = stored[s]
  BY DEF InsertSets, InsertSet
<1>3. \A s \in Sets : stored[s].in => stored'[s].in
  BY <1>2
<1>4. stored' \in [Sets -> [in : BOOLEAN, link : Sets \cup {NoSet}]]
  <2>1. \A s \in Sets : InsertSet(s, names) \in [in : BOOLEAN, link : Sets \cup {NoSet}]
    BY <1>1 DEF InsertSet
  <2>2. QED
    BY <2>1 DEF InsertSets, StoredOK
<1>5. ASSUME NEW s \in Sets, stored'[s].link # NoSet PROVE stored'[stored'[s].link].in
  <2>1. CASE s \in names
    <3>1. stored'[s].link = Parent[s] /\ Parent[s] \in Sets /\ FindsParent(s, names)
      BY <1>1, <1>2, <1>5, <2>1
    <3>2. QED
      BY <1>2, <1>3, <3>1 DEF FindsParent
  <2>2. CASE s \notin names
    <3>1. stored'[s] = stored[s] /\ stored[s].link \in Sets /\ stored[stored[s].link].in
      BY <1>2, <1>5, <2>2 DEF StoredOK
    <3>2. QED
      BY <1>3, <3>1
  <2>3. QED
    BY <2>1, <2>2
<1>6. ParentsAreLinked'
  <2> SUFFICES ASSUME NEW s \in names, Parent[s] # NoSet, stored'[Parent[s]].in, Parent[s] \notin fresh'
      PROVE  stored'[s].link = Parent[s]
    BY DEF ParentsAreLinked
  <2>1. Parent[s] \in Sets /\ stored[Parent[s]].in
    BY <1>1
  <2>2. QED
    BY <1>2, <2>1 DEF FindsParent
<1>7. QED
  BY <1>4, <1>5, <1>6 DEF StoredOK

LEMMA ImportSetsKeeps ==
  ASSUME ScryfallInv, NEW r \in Chains, ImportSets(r)
  PROVE  ScryfallInv'
<1> DEFINE c == chains[r]
<1>1. /\ c.at = "importSets" /\ Goes(r, c)
      /\ UNCHANGED <<day, upstream, published, recorded, setsFile, files, imported, lost>>
      /\ relisted' \subseteq setsFile[c.setsDay].sets /\ stored' = InsertSets(relisted')
      /\ fresh' = {s \in Sets : stored'[s].in /\ ~stored[s].in}
      /\ (faults' = faults \/ (faults < MaxFaults /\ faults' = faults + 1))
  BY DEF ImportSets, RunAt
<1>2. c = State("importSets", c.day, c.named, c.todo, c.setsDay, c.cardsDay)
  <2>1. c = State("importSets", c.day, c.named, c.todo, c.setsDay, c.cardsDay)
    BY <1>1, RunIs
  <2> HIDE DEF c
  <2>2. QED
    BY <2>1 DEF State
<1>3. PICK s \in RunStates :
        /\ chains' = [chains EXCEPT ![r] = s] /\ s.at = "cards" /\ s.day = c.day /\ s.named = c.named
        /\ s.todo = c.todo /\ s.setsDay = c.setsDay /\ s.cardsDay = c.cardsDay
  <2>1. /\ c.day \in 0..ChainDays /\ c.named \in 0..LastVersion /\ c.todo \in 0..LastVersion
        /\ c.setsDay \in 0..ChainDays /\ c.cardsDay \in 0..ChainDays
    BY RunIs, RestIs
  <2>2. "cards" \in StepNames /\ Following("importSets") = "cards"
    BY StepsAre DEF StepNames
  <2>3. QED
    BY <1>1, <1>2, <2>1, <2>2, Advances
<1>4. RunFits(c, day, recorded, imported) /\ c.cardsDay \in Nat /\ c.cardsDay <= day /\ day \in 1..ChainDays
  BY RunIs, RestIs
<1> HIDE DEF c
<1>5. RunFits(s, day', recorded', imported') /\ s.cardsDay = c.cardsDay
  BY <1>1, <1>3, <1>4 DEF RunFits
<1>6. /\ day' = day /\ upstream' = upstream /\ published' = published /\ recorded' = recorded
      /\ setsFile' = setsFile /\ imported' = imported /\ lost' = lost /\ files' = files
  BY <1>1
<1>11. faults' \in 0..MaxFaults
  <2>1. faults \in 0..MaxFaults /\ MaxFaults \in Nat
    BY ScryfallAssumption DEF ScryfallInv, ScryfallTypeOK
  <2>2. QED
    BY <1>1, <2>1
<1>7. s.at \notin Ended \cup {"none"} /\ s.todo = c.todo
  BY <1>3 DEF Ended
<1>8. StoredOK' /\ ParentsAreLinked'
  <2>1. c.setsDay \in 1..ChainDays
    <3>1. c.setsDay \in 0..ChainDays /\ c.setsDay # 0
      BY <1>1, <1>4, RunIs DEF RunFits, c
    <3>2. QED
      BY <3>1, RestIs
  <2>2. relisted' \subseteq Sets
    BY <1>1, <2>1, RestIs
  <2>3. StoredOK
    BY DEF ScryfallInv, ScryfallTypeOK, StoredOK
  <2>4. QED
    BY <1>1, <2>2, <2>3, StoredKeeps
<1>9. FilesGoOldestFirst'
  <2>1. \A q \in Chains : chains'[q].cardsDay = chains[q].cardsDay
    BY <1>3, <1>5, TypesAre DEF c
  <2>2. QED
    BY <1>6, <2>1 DEF ScryfallInv, VersionsAreCarried, FilesGoOldestFirst
<1>10. QED
  BY <1>1, <1>3, <1>5, <1>6, <1>7, <1>8, <1>9, <1>11, RestIs, CarriedOn DEF c

(* Of the files on disk the newest are kept.                                  *)
LEMMA NewestAreKept ==
  ASSUME ScryfallInv, NEW S \in SUBSET KeptFiles, NEW r \in files \ S,
         Cardinality(S) = IF Cardinality(files) < Keep THEN Cardinality(files) ELSE Keep,
         \A f \in KeptFiles \ S, k \in S : ~NewerThan(f, k)
  PROVE  Cardinality({q \in Chains \ {r} : chains[q].cardsDay >= chains[r].cardsDay}) >= Keep
<1> DEFINE newer == {q \in Chains \ {r} : chains[q].cardsDay >= chains[r].cardsDay}
<1>1. IsFiniteSet(Chains) /\ files \subseteq Chains /\ Keep \in Nat
  BY RestIs, ScryfallAssumption
<1>2. IsFiniteSet(files) /\ IsFiniteSet(newer) /\ IsFiniteSet(S) /\ S \subseteq files
  <2>1. KeptFiles \subseteq files
    BY DEF KeptFiles
  <2>2. QED
    BY <1>1, <2>1, FS_Subset
<1>3. \A q \in Chains : chains[q].cardsDay \in Nat
  BY TypesAre DEF RunStates
<1>4. Cardinality(files) \in Nat /\ Cardinality(newer) \in Nat
  BY <1>2, FS_CardinalityType
<1>5. Cardinality(S) = Keep
  <2>1. SUFFICES ASSUME Cardinality(S) = Cardinality(files) PROVE FALSE
    BY <1>1, <1>4
  <2>2. S = files
    BY <1>2, <2>1, FS_Subset
  <2>3. QED
    BY <2>2
<1>6. CASE r \in KeptFiles
  <2>1. S \subseteq newer
    BY <1>1, <1>2, <1>3, <1>6 DEF NewerThan
  <2>2. QED
    BY <1>2, <1>4, <1>5, <2>1, FS_Subset
<1>7. CASE r \notin KeptFiles
  <2> DEFINE above == {q \in files : NewerThan(q, r)}
  <2>1. above \subseteq newer
    BY <1>1, <1>3 DEF NewerThan
  <2>2. Cardinality(above) <= Cardinality(newer) /\ Cardinality(above) \in Nat
    BY <1>2, <2>1, FS_Subset, FS_CardinalityType
  <2>3. ~(Cardinality(above) < Keep)
    BY <1>7 DEF KeptFiles
  <2>4. QED
    BY <1>1, <1>4, <2>2, <2>3
<1>8. QED
  BY <1>6, <1>7

LEMMA CleanupKeeps ==
  ASSUME ScryfallInv, NEW r \in Chains, Cleanup(r)
  PROVE  ScryfallInv'
<1> DEFINE c == chains[r]
<1>1. /\ c.at = "cleanup" /\ Goes(r, c)
      /\ UNCHANGED <<day, upstream, published, recorded, setsFile, stored, fresh, relisted,
                    imported, lost, faults>>
  BY DEF Cleanup, RunAt
<1>2. c = State("cleanup", c.day, c.named, c.todo, c.setsDay, c.cardsDay)
  <2>1. c = State("cleanup", c.day, c.named, c.todo, c.setsDay, c.cardsDay)
    BY <1>1, RunIs
  <2> HIDE DEF c
  <2>2. QED
    BY <2>1 DEF State
<1>3. PICK s \in RunStates :
        /\ chains' = [chains EXCEPT ![r] = s] /\ s.at = "done" /\ s.day = c.day /\ s.named = c.named
        /\ s.todo = c.todo /\ s.setsDay = c.setsDay /\ s.cardsDay = c.cardsDay
  <2>1. /\ c.day \in 0..ChainDays /\ c.named \in 0..LastVersion /\ c.todo \in 0..LastVersion
        /\ c.setsDay \in 0..ChainDays /\ c.cardsDay \in 0..ChainDays
    BY RunIs, RestIs
  <2>2. "done" \in StepNames /\ Following("cleanup") = "done"
    BY StepsAre DEF StepNames
  <2>3. QED
    BY <1>1, <1>2, <2>1, <2>2, Advances
<1>4. RunFits(c, day, recorded, imported) /\ c.cardsDay \in Nat /\ c.cardsDay <= day /\ day \in 1..ChainDays
  BY RunIs, RestIs
<1> HIDE DEF c
<1>5. RunFits(s, day', recorded', imported') /\ s.cardsDay = c.cardsDay
  BY <1>1, <1>3, <1>4 DEF RunFits
<1>6. /\ day' = day /\ upstream' = upstream /\ published' = published /\ recorded' = recorded
      /\ setsFile' = setsFile /\ imported' = imported /\ lost' = lost /\ faults' = faults
  BY <1>1
<1>7. c.todo # 0 => c.todo \in imported
  BY <1>1, <1>4 DEF RunFits
<1>8. StoredOK' /\ ParentsAreLinked'
  BY <1>1 DEF ScryfallInv, ScryfallTypeOK, StoredOK, VersionsAreCarried, ParentsAreLinked
<1>9. files' \subseteq files
  BY DEF Cleanup, KeptFiles
<1>10. FilesGoOldestFirst'
  <2>1. \A q \in Chains : chains'[q].cardsDay = chains[q].cardsDay
    BY <1>3, <1>5, TypesAre DEF c
  <2> SUFFICES ASSUME NEW f \in Chains, chains[f].cardsDay # 0, f \notin files'
      PROVE  Cardinality({q \in Chains \ {f} : chains[q].cardsDay >= chains[f].cardsDay}) >= Keep
    BY <2>1 DEF FilesGoOldestFirst
  <2>2. CASE f \in files
    BY <2>2, NewestAreKept DEF Cleanup
  <2>3. CASE f \notin files
    BY <2>3 DEF ScryfallInv, VersionsAreCarried, FilesGoOldestFirst
  <2>4. QED
    BY <2>2, <2>3
<1>11. QED
  BY <1>1, <1>3, <1>5, <1>6, <1>7, <1>8, <1>9, <1>10, RestIs, CarriedOn DEF c

LEMMA FailKeeps ==
  ASSUME ScryfallInv, NEW r \in Chains, FailStep(r)
  PROVE  ScryfallInv'
<1> DEFINE c == chains[r]
           s == [c EXCEPT !.at = "failed"]
<1>1. chains' = [chains EXCEPT ![r] = s]
      /\ UNCHANGED <<day, upstream, published, recorded, setsFile, files, stored, fresh, relisted, imported>>
      /\ lost' = lost \cup ({c.todo} \ ({0} \cup imported))
  BY DEF FailStep
<1>2. c \in RunStates /\ RunFits(c, day, recorded, imported) /\ c.cardsDay \in Nat
  BY RunIs
<1>3. faults' \in 0..MaxFaults
  BY RestIs, ScryfallAssumption DEF FailStep
<1> HIDE DEF c
<1>4. /\ s \in RunStates /\ s.at = "failed" /\ s.cardsDay = c.cardsDay /\ s.todo = c.todo
      /\ s.named = c.named /\ s.setsDay = c.setsDay
  BY <1>2 DEF RunStates
<1> HIDE DEF s
<1>5. PICK w \in RunStates : w = s
  BY <1>4
<1>6. RunFits(w, day', recorded', imported')
  BY <1>1, <1>2, <1>4, <1>5 DEF RunFits
<1>7. /\ day' = day /\ upstream' = upstream /\ published' = published /\ recorded' = recorded
      /\ stored' = stored /\ fresh' = fresh /\ relisted' = relisted /\ setsFile' = setsFile
      /\ imported' = imported /\ files' = files
  BY <1>1
<1>8. lost' \subseteq recorded' /\ lost \subseteq lost' /\ (c.todo # 0 => c.todo \in imported' \cup lost')
  BY <1>1, <1>2, RestIs DEF RunFits
<1>9. chains' = [chains EXCEPT ![r] = w] /\ w.cardsDay = c.cardsDay /\ w.cardsDay >= c.cardsDay
  BY <1>1, <1>2, <1>4, <1>5
<1>10. QED
  BY <1>3, <1>6, <1>7, <1>8, <1>9, RestIs, MoveKeeps DEF c

LEMMA RedeliverKeeps ==
  ASSUME ScryfallInv, NEW r \in Chains, Redeliver(r)
  PROVE  ScryfallInv'
<1> DEFINE c == chains[r]
           b == StepBefore(c.at)
           n == IF c.at = "sets" THEN 0 ELSE c.todo
<1>1. /\ Active(r) /\ c.at # "manifest"
      /\ chains' = [chains EXCEPT ![r].at = b, ![r].todo = n]
      /\ UNCHANGED <<day, upstream, published, recorded, setsFile, files, stored, fresh, relisted, imported>>
      /\ lost' = IF c.at = "sets" THEN lost \cup ({c.todo} \ {0}) ELSE lost
  BY DEF Redeliver, StepBefore, RunAt
<1>2. c \in RunStates /\ RunFits(c, day, recorded, imported) /\ c.cardsDay \in Nat
      /\ c.todo \in 0..LastVersion /\ chains \in [Chains -> RunStates]
  BY RunIs
<1>3. faults' \in 0..MaxFaults
  BY RestIs, ScryfallAssumption DEF Redeliver
<1>4. c.at \in {"record", "sets", "importSets", "cards", "importCards", "cleanup"}
  BY <1>1, <1>2 DEF Active, Ended, RunStates, StepNames
<1>5. /\ c.at = "record" => b = "manifest"
      /\ c.at = "sets" => b = "record"
      /\ c.at = "importSets" => b = "sets"
      /\ c.at = "cards" => b = "importSets"
      /\ c.at = "importCards" => b = "cards"
      /\ c.at = "cleanup" => b = "importCards"
  BY StepsBefore
<1>6. PICK w : w = [[c EXCEPT !.at = b] EXCEPT !.todo = n]
  OBVIOUS
<1>7. chains' = [chains EXCEPT ![r] = w]
  <2>1. chains' = [[chains EXCEPT ![r] = [chains[r] EXCEPT !.at = b]] EXCEPT ![r] = [@ EXCEPT !.todo = n]]
    BY <1>1
  <2>2. [chains EXCEPT ![r] = [chains[r] EXCEPT !.at = b]][r] = [c EXCEPT !.at = b]
    BY <1>2
  <2> HIDE DEF b, n
  <2>3. QED
    BY <1>2, <1>6, <2>1, <2>2
<1> HIDE DEF b, c
<1>8. /\ w \in RunStates /\ w.at = b /\ w.cardsDay = c.cardsDay /\ w.todo = n
      /\ w.named = c.named /\ w.setsDay = c.setsDay
  <2>1. b \in StepNames
    BY <1>4, <1>5 DEF StepNames
  <2>2. n \in 0..LastVersion
    BY <1>2, RestIs
  <2> HIDE DEF n
  <2>3. [c EXCEPT !.at = b] \in RunStates
    BY <1>2, <2>1 DEF RunStates
  <2>4. QED
    BY <1>2, <1>6, <2>1, <2>2, <2>3 DEF RunStates
<1>9. RunFits(w, day', recorded', imported')
  BY <1>1, <1>2, <1>4, <1>5, <1>8 DEF RunFits
<1>10. /\ day' = day /\ upstream' = upstream /\ published' = published /\ recorded' = recorded
       /\ stored' = stored /\ fresh' = fresh /\ relisted' = relisted /\ setsFile' = setsFile
       /\ imported' = imported /\ files' = files
  BY <1>1
<1>11. /\ lost' \subseteq recorded' /\ lost \subseteq lost' /\ w.cardsDay >= c.cardsDay
       /\ c.todo # 0 => c.todo \in imported' \cup lost' \/ (w.todo = c.todo /\ w.at \notin Ended \cup {"none"})
  BY <1>1, <1>2, <1>4, <1>5, <1>8, RestIs DEF RunFits, Ended
<1>12. QED
  BY <1>3, <1>7, <1>8, <1>9, <1>10, <1>11, RestIs, MoveKeeps DEF c

LEMMA ScryfallStarts == ScryfallInit => ScryfallInv
<1> SUFFICES ASSUME ScryfallInit PROVE ScryfallInv
  OBVIOUS
<1>1. Unstarted \in RunStates /\ Unstarted.at = "none" /\ Unstarted.cardsDay = 0 /\ Unstarted.todo = 0
  BY ScryfallAssumption DEF Unstarted, RunStates
<1>2. chains = [q \in Chains |-> Unstarted]
  BY DEF ScryfallInit
<1>3. chains \in [Chains -> RunStates] /\ \A q \in Chains : chains[q] = Unstarted
  BY <1>1, <1>2
<1>4. ScryfallTypeOK
  <2>1. setsFile \in [1..ChainDays -> [saved : {"none", "part", "whole"}, sets : SUBSET Sets]]
    BY DEF ScryfallInit, NotSaved
  <2>2. stored \in [Sets -> [in : BOOLEAN, link : Sets \cup {NoSet}]] /\ \A s \in Sets : stored[s].link = NoSet
    BY DEF ScryfallInit
  <2>3. day \in 1..ChainDays /\ upstream \in 1..LastVersion /\ published \subseteq Sets /\ faults \in 0..MaxFaults
    BY ScryfallAssumption DEF ScryfallInit
  <2>4. QED
    BY <1>3, <2>1, <2>2, <2>3, StepsAre DEF ScryfallInit, ScryfallTypeOK, RunStates
<1>5. AllFit
  BY <1>1, <1>3 DEF ScryfallInit, AllFit, RunFits
<1>6. VersionsAreCarried
  BY <1>1, <1>3 DEF ScryfallInit, VersionsAreCarried, EveryVersionIsCarried, FilesGoOldestFirst, ParentsAreLinked
<1>7. QED
  BY <1>4, <1>5, <1>6 DEF ScryfallInv

LEMMA ScryfallStep == ScryfallInv /\ [ScryfallNext]_scryfallVars => ScryfallInv'
<1> SUFFICES ASSUME ScryfallInv, [ScryfallNext]_scryfallVars PROVE ScryfallInv'
  OBVIOUS
<1>1. ASSUME UNCHANGED scryfallVars PROVE ScryfallInv'
  BY <1>1 DEF scryfallVars, ScryfallInv, ScryfallTypeOK, AllFit, VersionsAreCarried, EveryVersionIsCarried,
              FilesGoOldestFirst, ParentsAreLinked, Active
<1>2. CASE ScryfallNext
  BY <1>2, Outside, StartKeeps, RecordKeeps, SaveSetsKeeps, SaveIsCutKeeps, ImportSetsKeeps, DownloadKeeps,
     ImportKeeps, CleanupKeeps, FailKeeps, RedeliverKeeps DEF ScryfallNext
<1>3. QED
  BY <1>1, <1>2

(* A version that is recorded, and so never named as changed again, is        *)
(* imported or carried by a run unless a fault took it from its run; cards    *)
(* files go oldest first, so a run finds its own; a set listed again is linked*)
(* to a parent that was stored before: for any runs, days, versions, sets,    *)
(* failed steps and redeliveries (update_data_uri_in_ops_repository,          *)
(* delete_old_scryfall_folders, insert_batch_sets).                           *)
THEOREM VersionsStayCarried == ScryfallSpec => []VersionsAreCarried
<1>1. ScryfallInv => VersionsAreCarried
  BY DEF ScryfallInv
<1>2. QED
  BY <1>1, ScryfallStarts, ScryfallStep, PTL DEF ScryfallSpec

(* Every variable of ScryfallDaily keeps its type.                            *)
THEOREM ScryfallStaysTyped == ScryfallSpec => []ScryfallTypeOK
<1>1. ScryfallInv => ScryfallTypeOK
  BY DEF ScryfallInv
<1>2. QED
  BY <1>1, ScryfallStarts, ScryfallStep, PTL DEF ScryfallSpec

-------------------------------------------------------------------------------
(* CardSearch.                                                                *)
(* The types of what a request holds and of what is cached.                   *)
Labels == (UNION {Attr[v].promo : v \in Prints}) \cup {Attr[v].rarity : v \in Prints}
Kinds == {"search", "suggest", "get", "printings", "sets"}
AnswerStates ==
  [kind : Kinds \cup {Unset}, page : SUBSET Prints, total : Nat, facets : SUBSET Labels,
   shown : SUBSET (Prints \X Nat), view : Nat, began : Nat, saved : Nat, until : Nat]
ReaderStates ==
  [at : {"idle", "read", "prices", "keep", "count", "save", "answered"}, q : Queries,
   answer : AnswerStates, fresh : SUBSET Prints]

SearchTypes ==
  /\ cards \subseteq Prints /\ view \subseteq Prints /\ viewNo \in Nat
  /\ answers \in [Queries -> AnswerStates] /\ reader \in [Readers -> ReaderStates]
  /\ prices \in [Prints -> [spark : Nat, until : Nat]]
  /\ sparkAt \in Seq(Nat) /\ Len(sparkAt) >= 1 /\ cleanAt \in Seq(Nat) /\ Len(cleanAt) >= 1
  /\ chain \in {"idle", "first"} /\ now \in 0 .. MaxTime /\ turns \in 0 .. MaxTurns

(* No view that a pipeline has dropped the searches for is newer than the one *)
(* there is, no prices were made later than now.                              *)
MarksInv ==
  /\ \A n \in 1..Len(cleanAt) : cleanAt[n] <= viewNo
  /\ \A n \in 1..Len(sparkAt) : sparkAt[n] <= now

(* A price in the cache expires SparkTtl after it was replaced, at the latest. *)
PriceFits(p, made, t) ==
  p.spark # 0 =>
    /\ p.spark <= Len(made) /\ t < p.until /\ p.until <= t + SparkTtl
    /\ p.spark < Len(made) => p.until <= made[p.spark + 1] + SparkTtl

(* So does an answer that shows it, Ttl later.                                *)
AnswerFits(a, made, clean, t) ==
  a.kind # Unset =>
    /\ a.began \in 1..Len(clean) /\ a.view >= clean[a.began]
    /\ a.saved < Len(clean) => a.view >= clean[Len(clean)]
    /\ t <= a.until /\ a.until <= t + Ttl[a.kind]
    /\ \A s \in a.shown :
         /\ s[2] \in 1..Len(made)
         /\ s[2] < Len(made) => a.until < made[s[2] + 1] + SparkTtl + Ttl[a.kind]

(* What a request has found: prices that are not too old, and those about to  *)
(* be kept were replaced now if at all.                                       *)
Younger(shown, made, t, limit) ==
  \A s \in shown : /\ s[2] \in 1..Len(made)
                   /\ s[2] < Len(made) => t < made[s[2] + 1] + limit

ReaderFits(x, made, clean, t) ==
  /\ x.at # "idle" => x.answer.kind = x.q.kind
  /\ x.at \in {"read", "prices", "keep", "count", "save"} => x.answer.began \in 1..Len(clean)
  /\ x.at \in {"prices", "keep", "count", "save"} => x.answer.view >= clean[x.answer.began]
  /\ x.at \in {"read", "prices"} => x.answer.shown = {}
  /\ x.at \in {"keep", "count", "save"} => Younger(x.answer.shown, made, t, SparkTtl)
  /\ x.at = "answered" => Younger(x.answer.shown, made, t, SparkTtl + Ttl[x.answer.kind])
  /\ x.at = "keep" => \A s \in x.answer.shown :
       s[1] \in x.fresh /\ s[2] < Len(made) => made[s[2] + 1] = t

PricesInv == \A v \in Prints : PriceFits(prices[v], sparkAt, now)
AnswersInv == \A q \in Queries :
  answers[q].kind \in {Unset, q.kind} /\ AnswerFits(answers[q], sparkAt, cleanAt, now)
ReadersInv == \A r \in Readers : ReaderFits(reader[r], sparkAt, cleanAt, now)

(* No request lasts a tick, so what a reader holds only ages by refreshes.    *)
SearchInv == SearchTypes /\ MarksInv /\ PricesInv /\ AnswersInv /\ ReadersInv

(* What CardSearch assumes of its constants.                                  *)
LEMMA QueriesAre ==
  /\ SparkTtl \in Nat /\ SparkTtl > 0 /\ MaxTime \in Nat /\ MaxTurns \in Nat
  /\ Queries # {} /\ IsFiniteSet(Prints)
  /\ \A q \in Queries : q.kind \in Kinds /\ Ttl[q.kind] \in Nat /\ q.kind # Unset
BY SearchAssumption DEF Kinds, Unset

(* SearchInv implies the three properties.                                    *)
LEMMA InvGivesCurrent == SearchInv => PagesAreCurrent
<1> SUFFICES ASSUME SearchInv PROVE PagesAreCurrent
  OBVIOUS
<1>1. DroppedPagesStayAway
  BY DEF SearchInv, AnswersInv, AnswerFits, DroppedPagesStayAway
<1>2. OldPricesExpire
  <2> SUFFICES ASSUME NEW r \in Readers, At(r, "answered"), NEW s \in reader[r].answer.shown
      PROVE  ReplacedFor(s[2]) < SparkTtl + Ttl[reader[r].answer.kind]
    BY DEF OldPricesExpire
  <2>1. Younger(reader[r].answer.shown, sparkAt, now, SparkTtl + Ttl[reader[r].answer.kind])
        /\ reader[r].answer.kind = reader[r].q.kind
    BY DEF SearchInv, ReadersInv, ReaderFits, At
  <2>2. reader[r].q \in Queries /\ now \in Nat /\ sparkAt \in Seq(Nat)
    BY QueriesAre DEF SearchInv, SearchTypes, ReaderStates
  <2>3. Ttl[reader[r].answer.kind] \in Nat
    BY <2>1, <2>2, QueriesAre
  <2>4. PICK limit \in Nat : limit = SparkTtl + Ttl[reader[r].answer.kind] /\ limit > 0
    BY <2>3, QueriesAre
  <2>5. s[2] \in 1..Len(sparkAt) /\ (s[2] < Len(sparkAt) => now < sparkAt[s[2] + 1] + limit)
    BY <2>1, <2>4 DEF Younger
  <2>6. ReplacedFor(s[2]) < limit
    <3>1. CASE s[2] < Len(sparkAt)
      <4>1. PICK then \in Nat : then = sparkAt[s[2] + 1]
        BY <2>2, <2>5, <3>1
      <4>2. ReplacedFor(s[2]) = now - then /\ now < then + limit
        BY <2>5, <3>1, <4>1 DEF ReplacedFor
      <4>3. QED
        BY <2>2, <4>1, <4>2
    <3>2. CASE ~(s[2] < Len(sparkAt))
      BY <2>4, <3>2 DEF ReplacedFor
    <3>3. QED
      BY <3>1, <3>2
  <2>7. QED
    BY <2>4, <2>6
<1>3. QED
  BY <1>1, <1>2 DEF PagesAreCurrent

LEMMA InvGivesTypes == SearchInv => SearchTypeOK
<1> SUFFICES ASSUME SearchInv PROVE SearchTypeOK
  OBVIOUS
<1>1. \A q \in Queries : answers[q].page \subseteq Prints /\ answers[q].total \in Nat
  BY DEF SearchInv, SearchTypes, AnswerStates
<1>2. \A v \in Prints : prices[v].spark \in 0 .. Len(sparkAt)
  BY DEF SearchInv, SearchTypes, PricesInv, PriceFits
<1>3. QED
  BY <1>1, <1>2 DEF SearchInv, SearchTypes, ReaderStates, SearchTypeOK

LEMMA InvGivesFacets == SearchInv => FacetsFindCards
<1> SUFFICES ASSUME SearchInv, NEW q \in Queries, q.kind = "search", NEW f \in Facets(q)
    PROVE  \/ Matches([q EXCEPT !.promo = {f}]) # {}
           \/ f \in DOMAIN Containing /\ Matches([q EXCEPT !.rarity = f]) # {}
  BY DEF FacetsFindCards
<1> DEFINE byPromo == [q EXCEPT !.promo = {f}]
           byRarity == [q EXCEPT !.rarity = f]
<1>1. q = [kind |-> q.kind, id |-> q.id, set |-> q.set, rarity |-> q.rarity, promo |-> q.promo,
           layout |-> q.layout, collapse |-> q.collapse, offset |-> q.offset, limit |-> q.limit]
  BY SearchAssumption
<1>2. /\ byPromo.kind = q.kind /\ byPromo.set = q.set /\ byPromo.rarity = q.rarity
      /\ byPromo.layout = q.layout /\ byPromo.promo = {f}
  BY <1>1
<1>3. /\ byRarity.kind = q.kind /\ byRarity.set = q.set /\ byRarity.promo = q.promo
      /\ byRarity.layout = q.layout /\ byRarity.rarity = f
  BY <1>1
<1> HIDE DEF byPromo, byRarity
<1>4. CASE \E v \in Unfiltered(q) \cap OfRarity(q) : f \in Attr[v].promo
  <2>1. PICK v \in Unfiltered(q) \cap OfRarity(q) : f \in Attr[v].promo
    BY <1>4
  <2>2. v \in Matches(byPromo)
    BY <1>2, <2>1 DEF Matches, Unfiltered, OfRarity, OfPromo, Source, Shown
  <2>3. QED
    BY <2>2 DEF byPromo
<1>5. CASE \E v \in Unfiltered(q) \cap OfPromo(q) : f = Attr[v].rarity
  <2>1. PICK v \in Unfiltered(q) \cap OfPromo(q) : f = Attr[v].rarity
    BY <1>5
  <2>2. v \in Prints
    BY <2>1 DEF SearchInv, SearchTypes, OfPromo
  <2>3. v \in Matches(byRarity) /\ f \in DOMAIN Containing
    BY <1>3, <2>1, <2>2, SearchAssumption DEF Matches, Unfiltered, OfRarity, OfPromo, Source, Shown
  <2>4. QED
    BY <2>3 DEF byRarity
<1>6. \/ f \in UNION {Attr[v].promo : v \in Unfiltered(q) \cap OfRarity(q)}
      \/ f \in {Attr[v].rarity : v \in Unfiltered(q) \cap OfPromo(q)}
  BY DEF Facets
<1>7. QED
  BY <1>4, <1>5, <1>6

(* Nothing that is empty is too old.                                          *)
LEMMA ConstantsFit ==
  /\ Empty \in AnswerStates /\ Quiet \in ReaderStates /\ Empty.kind = Unset /\ Quiet.at = "idle"
  /\ NoPrice \in [spark : Nat, until : Nat] /\ NoPrice.spark = 0
<1>1. Empty \in AnswerStates /\ Empty.kind = Unset
  BY DEF Empty, AnswerStates
<1>2. (CHOOSE q \in Queries : TRUE) \in Queries
  BY QueriesAre
<1>3. QED
  BY <1>1, <1>2 DEF Quiet, ReaderStates, NoPrice

LEMMA EmptyFits ==
  ASSUME NEW made, NEW clean, NEW t
  PROVE  /\ AnswerFits(Empty, made, clean, t) /\ ReaderFits(Quiet, made, clean, t)
         /\ PriceFits(NoPrice, made, t)
BY ConstantsFit DEF AnswerFits, ReaderFits, PriceFits

LEMMA SearchStarts == SearchInit => SearchInv
<1> SUFFICES ASSUME SearchInit PROVE SearchInv
  OBVIOUS
<1>1. SearchTypes
  BY ConstantsFit, QueriesAre DEF SearchInit, SearchTypes
<1>2. MarksInv
  BY DEF SearchInit, MarksInv
<1>3. PricesInv /\ AnswersInv /\ ReadersInv
  BY EmptyFits, ConstantsFit DEF SearchInit, PricesInv, AnswersInv, ReadersInv
<1>4. QED
  BY <1>1, <1>2, <1>3 DEF SearchInv

(* One process goes on: what it holds fits, and the others keep what they hold. *)
LEMMA ReaderMoves ==
  ASSUME SearchInv, NEW r \in Readers, NEW x \in ReaderStates,
         ReaderFits(x, sparkAt, cleanAt, now), reader' = [reader EXCEPT ![r] = x],
         UNCHANGED <<sparkAt, cleanAt, now>>
  PROVE  reader' \in [Readers -> ReaderStates] /\ ReadersInv'
<1>1. reader \in [Readers -> ReaderStates]
  BY DEF SearchInv, SearchTypes
<1>2. \A p \in Readers : reader'[p] = x \/ reader'[p] = reader[p]
  BY <1>1
<1>3. \A p \in Readers : ReaderFits(reader[p], sparkAt, cleanAt, now)
  BY DEF SearchInv, ReadersInv
<1>4. \A p \in Readers : ReaderFits(reader'[p], sparkAt, cleanAt, now)
  BY <1>2, <1>3
<1>5. QED
  BY <1>1, <1>4 DEF ReadersInv

LEMMA OnlyReaderMoves ==
  ASSUME SearchInv, NEW r \in Readers, NEW x \in ReaderStates,
         ReaderFits(x, sparkAt, cleanAt, now), reader' = [reader EXCEPT ![r] = x],
         UNCHANGED <<cards, view, viewNo, sparkAt, answers, prices, chain, cleanAt, now, turns>>
  PROVE  SearchInv'
<1>1. reader' \in [Readers -> ReaderStates] /\ ReadersInv'
  BY ReaderMoves
<1>2. SearchTypes'
  BY <1>1 DEF SearchInv, SearchTypes
<1>3. MarksInv' /\ PricesInv' /\ AnswersInv'
  BY DEF SearchInv, MarksInv, PricesInv, AnswersInv
<1>4. QED
  BY <1>1, <1>2, <1>3 DEF SearchInv

(* Each action keeps the invariant.                                           *)
LEMMA LeaveKeeps == ASSUME SearchInv, NEW r \in Readers, Leave(r) PROVE SearchInv'
<1>1. PICK x \in ReaderStates : x = Quiet
  BY ConstantsFit
<1>2. ReaderFits(x, sparkAt, cleanAt, now)
  BY <1>1, EmptyFits
<1>3. QED
  BY <1>1, <1>2, OnlyReaderMoves DEF Leave

LEMMA AskKeeps == ASSUME SearchInv, NEW r \in Readers, Ask(r) PROVE SearchInv'
<1>1. PICK q \in Queries :
        \/ answers[q].kind # Unset
           /\ reader' = [reader EXCEPT ![r] = [at |-> "answered", q |-> q, fresh |-> {},
                                               answer |-> answers[q]]]
        \/ reader' = [reader EXCEPT ![r] = [at |-> "read", q |-> q, fresh |-> {},
             answer |-> [Empty EXCEPT !.kind = q.kind, !.began = Len(cleanAt)]]]
  BY DEF Ask
<1>2. /\ q.kind \in Kinds /\ q.kind # Unset /\ Ttl[q.kind] \in Nat /\ SparkTtl \in Nat
      /\ now \in Nat /\ sparkAt \in Seq(Nat) /\ cleanAt \in Seq(Nat) /\ Len(cleanAt) >= 1
      /\ answers[q] \in AnswerStates
  BY QueriesAre DEF SearchInv, SearchTypes
<1>3. UNCHANGED <<cards, view, viewNo, sparkAt, answers, prices, chain, cleanAt, now, turns>>
  BY DEF Ask
<1>4. CASE answers[q].kind # Unset /\ reader' = [reader EXCEPT ![r] =
             [at |-> "answered", q |-> q, fresh |-> {}, answer |-> answers[q]]]
  <2>1. PICK a \in AnswerStates : a = answers[q]
    BY <1>2
  <2>2. PICK x : x = [at |-> "answered", q |-> q, fresh |-> {}, answer |-> a]
    OBVIOUS
  <2>3. x \in ReaderStates /\ x.at = "answered" /\ x.answer = a /\ x.q = q
    BY <2>1, <2>2 DEF ReaderStates
  <2>4. a.kind = q.kind /\ AnswerFits(a, sparkAt, cleanAt, now)
    BY <1>4, <2>1 DEF SearchInv, AnswersInv
  <2>5. Younger(a.shown, sparkAt, now, SparkTtl + Ttl[a.kind])
    <3> SUFFICES ASSUME NEW s \in a.shown
        PROVE  s[2] \in 1..Len(sparkAt)
               /\ (s[2] < Len(sparkAt) => now < sparkAt[s[2] + 1] + (SparkTtl + Ttl[a.kind]))
      BY DEF Younger
    <3>1. /\ s[2] \in 1..Len(sparkAt) /\ now <= a.until
          /\ s[2] < Len(sparkAt) => a.until < sparkAt[s[2] + 1] + SparkTtl + Ttl[a.kind]
      BY <1>2, <2>4 DEF AnswerFits
    <3>2. PICK t \in Nat : t = Ttl[a.kind]
      BY <1>2, <2>4
    <3>3. a.until \in Nat
      BY DEF AnswerStates
    <3>4. CASE s[2] < Len(sparkAt)
      <4>1. PICK then \in Nat : then = sparkAt[s[2] + 1]
        BY <1>2, <3>1, <3>4
      <4>2. now <= a.until /\ a.until < then + SparkTtl + t
        BY <3>1, <3>2, <3>4, <4>1
      <4>3. now < then + (SparkTtl + t)
        BY <1>2, <3>3, <4>2
      <4>4. QED
        BY <3>1, <3>2, <4>1, <4>3
    <3>5. QED
      BY <3>1, <3>4
  <2>6. ReaderFits(x, sparkAt, cleanAt, now)
    BY <2>3, <2>4, <2>5 DEF ReaderFits
  <2>7. QED
    BY <1>3, <1>4, <2>1, <2>2, <2>3, <2>6, OnlyReaderMoves
<1>5. CASE reader' = [reader EXCEPT ![r] = [at |-> "read", q |-> q, fresh |-> {},
             answer |-> [Empty EXCEPT !.kind = q.kind, !.began = Len(cleanAt)]]]
  <2>1. PICK a : a = [Empty EXCEPT !.kind = q.kind, !.began = Len(cleanAt)]
    OBVIOUS
  <2>2. a = [kind |-> q.kind, page |-> {}, total |-> 0, facets |-> {}, shown |-> {},
             view |-> 0, began |-> Len(cleanAt), saved |-> 0, until |-> 0]
    BY <2>1 DEF Empty
  <2>3. a \in AnswerStates /\ a.kind = q.kind /\ a.began = Len(cleanAt) /\ a.shown = {}
    BY <1>2, <2>2 DEF AnswerStates
  <2>4. PICK x : x = [at |-> "read", q |-> q, fresh |-> {}, answer |-> a]
    OBVIOUS
  <2>5. x \in ReaderStates /\ x.at = "read" /\ x.answer = a /\ x.q = q
    BY <2>3, <2>4 DEF ReaderStates
  <2>6. ReaderFits(x, sparkAt, cleanAt, now)
    BY <1>2, <2>3, <2>5 DEF ReaderFits
  <2>7. QED
    BY <1>3, <1>5, <2>1, <2>4, <2>5, <2>6, OnlyReaderMoves
<1>6. QED
  BY <1>1, <1>4, <1>5

(* The rows and the facets of a search are those of printings in the view.    *)
LEMMA ResultsAreShown ==
  ASSUME view \subseteq Prints, NEW q \in Queries
  PROVE  Results(q) \subseteq view /\ Facets(q) \subseteq Labels
<1>1. Matches(q) \subseteq view /\ Unfiltered(q) \subseteq view
  BY DEF Matches, Unfiltered, Source
<1>2. Results(q) \subseteq view
  BY <1>1 DEF Results
<1>3. Facets(q) \subseteq Labels
  BY <1>1 DEF Facets, Labels
<1>4. QED
  BY <1>2, <1>3

LEMMA ReadPageKeeps == ASSUME SearchInv, NEW r \in Readers, ReadPage(r) PROVE SearchInv'
<1>1. PICK y \in ReaderStates : y = reader[r]
  BY DEF SearchInv, SearchTypes
<1>2. y.at = "read" /\ ReaderFits(y, sparkAt, cleanAt, now)
  BY <1>1 DEF ReadPage, At, SearchInv, ReadersInv
<1>3. y.q \in Queries /\ y.answer \in AnswerStates /\ y.fresh \in SUBSET Prints
  BY DEF ReaderStates
<1>4. UNCHANGED <<cards, view, viewNo, sparkAt, answers, prices, chain, cleanAt, now, turns>>
  BY DEF ReadPage
<1>5. view \subseteq Prints /\ viewNo \in Nat /\ reader \in [Readers -> ReaderStates]
  BY DEF SearchInv, SearchTypes
<1>6. CASE reader' = [reader EXCEPT ![r] = Quiet]
  <2>1. PICK x \in ReaderStates : x = Quiet
    BY ConstantsFit
  <2>2. ReaderFits(x, sparkAt, cleanAt, now)
    BY <2>1, EmptyFits
  <2>3. QED
    BY <1>4, <1>6, <2>1, <2>2, OnlyReaderMoves
<1>7. CASE \E page \in SUBSET Prints : Reads(r, y.q, page)
  <2>1. PICK page \in SUBSET Prints : Reads(r, y.q, page)
    BY <1>7
  <2>2. PICK next \in {"count", "save", "prices"} :
          next = IF page = {} THEN "count" ELSE IF y.q.kind = "suggest" THEN "save" ELSE "prices"
    OBVIOUS
  <2>3. PICK a : a = [[y.answer EXCEPT !.page = page] EXCEPT !.view = viewNo]
    OBVIOUS
  <2>4. /\ a \in AnswerStates /\ a.view = viewNo /\ a.kind = y.answer.kind
        /\ a.began = y.answer.began /\ a.shown = y.answer.shown
    BY <1>3, <1>5, <2>3 DEF AnswerStates
  <2>5. PICK x : x = [at |-> next, q |-> y.q, answer |-> a, fresh |-> y.fresh]
    OBVIOUS
  <2>6. x \in ReaderStates /\ x.at = next /\ x.q = y.q /\ x.answer = a
    BY <1>3, <2>2, <2>4, <2>5 DEF ReaderStates
  <2>7. a.view >= cleanAt[a.began] /\ a.began \in 1..Len(cleanAt)
    BY <1>2, <2>4 DEF ReaderFits, SearchInv, MarksInv
  <2>8. a.shown = {} /\ a.kind = y.q.kind
    BY <1>2, <2>4 DEF ReaderFits
  <2>9. ReaderFits(x, sparkAt, cleanAt, now)
    BY <2>2, <2>6, <2>7, <2>8 DEF ReaderFits, Younger
  <2>10. reader' = [reader EXCEPT ![r] = x]
    <3>1. reader' = [reader EXCEPT ![r].answer.page = page, ![r].answer.view = viewNo,
                                   ![r].at = next]
      BY <2>1, <2>2 DEF Reads
    <3>2. reader'[r] = x
      BY <1>1, <1>5, <2>3, <2>5, <3>1 DEF ReaderStates
    <3>3. QED
      BY <1>5, <3>1, <3>2
  <2>11. QED
    BY <1>4, <2>6, <2>9, <2>10, OnlyReaderMoves
<1>8. \A page \in Pages(y.q) : page \in SUBSET Prints
  BY <1>3, <1>5, ResultsAreShown DEF Pages
<1>9. ~Listed(y.q) => FoundBy(y.q) \in SUBSET Prints
  <2>1. y.q.kind \in Kinds
    BY <1>3, QueriesAre
  <2>2. ById(y.q) \subseteq Prints /\ InSet(y.q) \subseteq Prints /\ OtherSets(y.q) \subseteq Prints
    BY <1>5 DEF ById, InSet, OtherSets
  <2>3. QED
    BY <2>1, <2>2 DEF FoundBy, Listed, Kinds
<1>10. QED
  BY <1>1, <1>6, <1>7, <1>8, <1>9 DEF ReadPage

LEMMA ReadPricesKeeps == ASSUME SearchInv, NEW r \in Readers, ReadPrices(r) PROVE SearchInv'
<1>1. PICK y \in ReaderStates : y = reader[r]
  BY DEF SearchInv, SearchTypes
<1>2. y.at = "prices" /\ ReaderFits(y, sparkAt, cleanAt, now)
  BY <1>1 DEF ReadPrices, At, SearchInv, ReadersInv
<1>3. /\ y.q \in Queries /\ y.answer \in AnswerStates /\ y.answer.page \in SUBSET Prints
      /\ reader \in [Readers -> ReaderStates] /\ sparkAt \in Seq(Nat) /\ Len(sparkAt) >= 1
      /\ prices \in [Prints -> [spark : Nat, until : Nat]] /\ now \in Nat /\ SparkTtl \in Nat
  <2>1. y.q \in Queries /\ y.answer \in AnswerStates /\ y.answer.page \in SUBSET Prints
    BY DEF ReaderStates, AnswerStates
  <2>2. QED
    BY <2>1, QueriesAre DEF SearchInv, SearchTypes
<1>4. UNCHANGED <<cards, view, viewNo, sparkAt, answers, prices, chain, cleanAt, now, turns>>
  BY DEF ReadPrices
<1>5. PICK hits \in SUBSET y.answer.page :
        /\ \A v \in hits : prices[v].spark > 0
        /\ reader' = [reader EXCEPT ![r].at = "keep",
             ![r].answer.shown = {<<v, prices[v].spark>> : v \in hits}
                                   \cup {<<v, Len(sparkAt)>> : v \in y.answer.page \ hits},
             ![r].fresh = y.answer.page \ hits]
  BY <1>1 DEF ReadPrices, Cached
<1>6. PICK found : found = {<<v, prices[v].spark>> : v \in hits}
                             \cup {<<v, Len(sparkAt)>> : v \in y.answer.page \ hits}
  OBVIOUS
<1>7. PICK missed \in SUBSET Prints : missed = y.answer.page \ hits
  BY <1>3
<1>8. found \in SUBSET (Prints \X Nat)
  <2>1. \A v \in y.answer.page : v \in Prints /\ prices[v].spark \in Nat
    BY <1>3
  <2>2. QED
    BY <1>3, <1>6, <2>1
<1>9. \A s \in found :
        \/ s[1] \notin missed /\ s[1] \in Prints /\ s[2] = prices[s[1]].spark /\ s[2] > 0
        \/ s[2] = Len(sparkAt)
  <2>1. \A v \in hits : v \notin missed /\ v \in Prints /\ prices[v].spark > 0
    BY <1>3, <1>5, <1>7
  <2>2. \A v \in hits : <<v, prices[v].spark>>[1] = v /\ <<v, prices[v].spark>>[2] = prices[v].spark
    OBVIOUS
  <2>3. \A v : <<v, Len(sparkAt)>>[2] = Len(sparkAt)
    OBVIOUS
  <2>4. QED
    BY <1>6, <2>1, <2>2, <2>3
<1>10. Younger(found, sparkAt, now, SparkTtl)
  <2> SUFFICES ASSUME NEW s \in found
      PROVE  s[2] \in 1..Len(sparkAt)
             /\ (s[2] < Len(sparkAt) => now < sparkAt[s[2] + 1] + SparkTtl)
    BY DEF Younger
  <2>1. CASE s[2] = Len(sparkAt)
    BY <1>3, <2>1
  <2>2. CASE s[1] \in Prints /\ s[2] = prices[s[1]].spark /\ s[2] > 0
    <3>1. PICK c \in [spark : Nat, until : Nat] : c = prices[s[1]]
      BY <1>3, <2>2
    <3>2. PriceFits(c, sparkAt, now) /\ c.spark = s[2] /\ c.spark \in Nat /\ c.until \in Nat
      BY <2>2, <3>1 DEF SearchInv, PricesInv
    <3>3. /\ s[2] <= Len(sparkAt) /\ now < c.until
          /\ s[2] < Len(sparkAt) => c.until <= sparkAt[s[2] + 1] + SparkTtl
      BY <2>2, <3>2 DEF PriceFits
    <3>4. CASE s[2] < Len(sparkAt)
      <4>1. PICK then \in Nat : then = sparkAt[s[2] + 1]
        BY <1>3, <2>2, <3>2, <3>4
      <4>2. now < then + SparkTtl
        BY <1>3, <3>2, <3>3, <3>4, <4>1
      <4>3. QED
        BY <1>3, <2>2, <3>2, <3>3, <4>1, <4>2
    <3>5. QED
      BY <1>3, <2>2, <3>2, <3>3, <3>4
  <2>3. QED
    BY <1>9, <2>1, <2>2
<1>11. PICK a : a = [y.answer EXCEPT !.shown = found]
  OBVIOUS
<1>12. /\ a \in AnswerStates /\ a.shown = found /\ a.kind = y.answer.kind
       /\ a.began = y.answer.began /\ a.view = y.answer.view
  BY <1>3, <1>8, <1>11 DEF AnswerStates
<1>13. PICK x : x = [at |-> "keep", q |-> y.q, answer |-> a, fresh |-> missed]
  OBVIOUS
<1>14. x \in ReaderStates /\ x.at = "keep" /\ x.q = y.q /\ x.answer = a /\ x.fresh = missed
  BY <1>3, <1>12, <1>13 DEF ReaderStates
<1>15. \A s \in found : ~(s[1] \in missed /\ s[2] < Len(sparkAt))
  BY <1>3, <1>9
<1>16. /\ a.kind = y.q.kind /\ a.began \in 1..Len(cleanAt) /\ a.view >= cleanAt[a.began]
  BY <1>2, <1>12 DEF ReaderFits
<1>17. ReaderFits(x, sparkAt, cleanAt, now)
  BY <1>10, <1>12, <1>14, <1>15, <1>16 DEF ReaderFits
<1>18. reader' = [reader EXCEPT ![r] = x]
  <2>1. reader' = [reader EXCEPT ![r].at = "keep", ![r].answer.shown = found, ![r].fresh = missed]
    BY <1>5, <1>6, <1>7
  <2>2. reader'[r] = [[[y EXCEPT !.at = "keep"] EXCEPT !.answer.shown = found]
                               EXCEPT !.fresh = missed]
    BY <1>1, <1>3, <2>1
  <2>3. reader'[r] = x
    BY <1>11, <1>13, <2>2 DEF ReaderStates
  <2>4. QED
    BY <1>3, <2>1, <2>3
<1>19. QED
  BY <1>4, <1>14, <1>17, <1>18, OnlyReaderMoves

LEMMA CountKeeps == ASSUME SearchInv, NEW r \in Readers, Count(r) PROVE SearchInv'
<1>1. PICK y \in ReaderStates : y = reader[r]
  BY DEF SearchInv, SearchTypes
<1>2. y.at = "count" /\ ReaderFits(y, sparkAt, cleanAt, now)
  BY <1>1 DEF Count, At, SearchInv, ReadersInv
<1>3. /\ y.q \in Queries /\ y.answer \in AnswerStates /\ y.fresh \in SUBSET Prints
      /\ reader \in [Readers -> ReaderStates] /\ view \subseteq Prints
  BY DEF ReaderStates, SearchInv, SearchTypes
<1>4. UNCHANGED <<cards, view, viewNo, sparkAt, answers, prices, chain, cleanAt, now, turns>>
  BY DEF Count
<1>5. PICK total \in Nat : total = Cardinality(Results(y.q))
  <2>1. Results(y.q) \subseteq Prints
    BY <1>3, ResultsAreShown
  <2>2. IsFiniteSet(Results(y.q))
    BY <2>1, QueriesAre, FS_Subset
  <2>3. QED
    BY <2>2, FS_CardinalityType
<1>6. PICK facets \in SUBSET Labels : facets = Facets(y.q)
  BY <1>3, ResultsAreShown
<1>7. PICK a : a = [[y.answer EXCEPT !.total = total] EXCEPT !.facets = facets]
  OBVIOUS
<1>8. /\ a \in AnswerStates /\ a.shown = y.answer.shown /\ a.kind = y.answer.kind
      /\ a.began = y.answer.began /\ a.view = y.answer.view
  BY <1>3, <1>7 DEF AnswerStates
<1>9. PICK x : x = [at |-> "save", q |-> y.q, answer |-> a, fresh |-> y.fresh]
  OBVIOUS
<1>10. x \in ReaderStates /\ x.at = "save" /\ x.q = y.q /\ x.answer = a
  BY <1>3, <1>8, <1>9 DEF ReaderStates
<1>11. ReaderFits(x, sparkAt, cleanAt, now)
  BY <1>2, <1>8, <1>10 DEF ReaderFits
<1>12. reader' = [reader EXCEPT ![r] = x]
  <2>1. reader' = [reader EXCEPT ![r].at = "save", ![r].answer.total = total,
                                 ![r].answer.facets = facets]
    BY <1>1, <1>5, <1>6 DEF Count
  <2>2. reader'[r] = x
    BY <1>1, <1>3, <1>7, <1>9, <2>1 DEF ReaderStates
  <2>3. QED
    BY <1>3, <2>1, <2>2
<1>13. QED
  BY <1>4, <1>10, <1>11, <1>12, OnlyReaderMoves

(* Prices that were found just now are younger than any answer may show.   *)
LEMMA YoungerIsEnough ==
  ASSUME NEW made \in Seq(Nat), NEW t \in Nat, NEW n \in Nat, NEW m \in Nat, NEW shown,
         Younger(shown, made, t, n)
  PROVE  Younger(shown, made, t, n + m)
<1> SUFFICES ASSUME NEW s \in shown
    PROVE  s[2] \in 1..Len(made) /\ (s[2] < Len(made) => t < made[s[2] + 1] + (n + m))
  BY DEF Younger
<1>1. s[2] \in 1..Len(made) /\ (s[2] < Len(made) => t < made[s[2] + 1] + n)
  BY DEF Younger
<1>2. CASE s[2] < Len(made)
  <2>1. PICK then \in Nat : then = made[s[2] + 1]
    BY <1>1, <1>2
  <2>2. t < then + n
    BY <1>1, <1>2, <2>1
  <2>3. t < then + (n + m)
    BY <2>2
  <2>4. QED
    BY <1>1, <2>1, <2>3
<1>3. QED
  BY <1>1, <1>2

LEMMA KeepPricesKeeps == ASSUME SearchInv, NEW r \in Readers, KeepPrices(r) PROVE SearchInv'
<1>1. PICK y \in ReaderStates : y = reader[r]
  BY DEF SearchInv, SearchTypes
<1>2. y.at = "keep" /\ ReaderFits(y, sparkAt, cleanAt, now)
  BY <1>1 DEF KeepPrices, At, SearchInv, ReadersInv
<1>3. /\ y.q \in Queries /\ y.answer \in AnswerStates /\ y.answer.shown \in SUBSET (Prints \X Nat)
      /\ y.fresh \in SUBSET Prints
  BY DEF ReaderStates, AnswerStates
<1>4. /\ reader \in [Readers -> ReaderStates] /\ sparkAt \in Seq(Nat) /\ Len(sparkAt) >= 1
      /\ now \in Nat /\ SparkTtl \in Nat /\ SparkTtl > 0
  BY QueriesAre DEF SearchInv, SearchTypes
<1>5. UNCHANGED <<cards, view, viewNo, sparkAt, answers, chain, cleanAt, now, turns>>
  BY DEF KeepPrices
<1>6. y.q.kind \in Kinds /\ Ttl[y.q.kind] \in Nat /\ y.answer.kind = y.q.kind
  BY <1>2, <1>3, QueriesAre DEF ReaderFits
<1>7. PICK next \in {"answered", "save", "count"} : reader' = [reader EXCEPT ![r].at = next]
  <2>1. PICK next : next = CASE Uncached(y.q) -> "answered" [] y.q.kind = "get" -> "save"
                            [] OTHER -> "count"
    OBVIOUS
  <2>2. next \in {"answered", "save", "count"}
    <3>1. CASE Uncached(y.q)
      BY <2>1, <3>1 DEF Uncached
    <3>2. CASE ~Uncached(y.q)
      BY <2>1, <3>2
    <3>3. QED
      BY <3>1, <3>2
  <2>3. reader' = [reader EXCEPT ![r].at = next]
    BY <1>1, <2>1 DEF KeepPrices, Step
  <2>4. QED
    BY <2>2, <2>3
<1>8. PICK x : x = [y EXCEPT !.at = next]
  OBVIOUS
<1>9. x \in ReaderStates /\ x.at = next /\ x.q = y.q /\ x.answer = y.answer
  BY <1>8 DEF ReaderStates
<1>10. reader' = [reader EXCEPT ![r] = x]
  BY <1>1, <1>4, <1>7, <1>8
<1>11. Younger(y.answer.shown, sparkAt, now, SparkTtl)
  BY <1>2 DEF ReaderFits
<1>12. Younger(y.answer.shown, sparkAt, now, SparkTtl + Ttl[y.answer.kind])
  BY <1>4, <1>6, <1>11, YoungerIsEnough
<1>13. ReaderFits(x, sparkAt, cleanAt, now)
  BY <1>2, <1>9, <1>11, <1>12 DEF ReaderFits
<1>14. reader' \in [Readers -> ReaderStates] /\ ReadersInv'
  BY <1>5, <1>9, <1>10, <1>13, ReaderMoves
<1>15. /\ prices' \in [Prints -> [spark : Nat, until : Nat]]
       /\ \A v \in Prints : PriceFits(prices'[v], sparkAt, now)
  <2>1. /\ prices \in [Prints -> [spark : Nat, until : Nat]]
        /\ \A v \in Prints : PriceFits(prices[v], sparkAt, now)
    BY DEF SearchInv, SearchTypes, PricesInv
  <2>2. CASE UNCHANGED prices
    BY <2>1, <2>2
  <2>3. CASE prices' = [v \in Prints |->
               IF \E s \in Kept(r) : s[1] = v
               THEN [spark |-> (CHOOSE s \in Kept(r) : s[1] = v)[2], until |-> now + SparkTtl]
               ELSE prices[v]]
    <3> SUFFICES ASSUME NEW v \in Prints
        PROVE  prices'[v] \in [spark : Nat, until : Nat] /\ PriceFits(prices'[v], sparkAt, now)
      BY <2>3
    <3>1. CASE ~\E s \in Kept(r) : s[1] = v
      BY <2>1, <2>3, <3>1
    <3>2. CASE \E s \in Kept(r) : s[1] = v
      <4>1. PICK s \in Kept(r) : s = (CHOOSE u \in Kept(r) : u[1] = v)
        BY <3>2
      <4>2. prices'[v] = [spark |-> s[2], until |-> now + SparkTtl]
        BY <2>3, <3>2, <4>1
      <4>3. s \in y.answer.shown /\ s[1] \in y.fresh
        BY <1>1, <4>1 DEF Kept
      <4>4. s[2] \in 1..Len(sparkAt) /\ (s[2] < Len(sparkAt) => sparkAt[s[2] + 1] = now)
        BY <1>2, <1>11, <4>3 DEF ReaderFits, Younger
      <4>5. PICK p : p = [spark |-> s[2], until |-> now + SparkTtl]
        OBVIOUS
      <4>6. p.spark = s[2] /\ p.until = now + SparkTtl /\ p \in [spark : Nat, until : Nat]
        BY <1>4, <4>4, <4>5
      <4>7. PriceFits(p, sparkAt, now)
        BY <1>4, <4>4, <4>6 DEF PriceFits
      <4>8. QED
        BY <4>2, <4>5, <4>6, <4>7
    <3>3. QED
      BY <3>1, <3>2
  <2>4. QED
    BY <2>2, <2>3 DEF KeepPrices
<1>16. SearchTypes'
  BY <1>5, <1>14, <1>15 DEF SearchInv, SearchTypes
<1>17. MarksInv' /\ PricesInv' /\ AnswersInv'
  BY <1>5, <1>15 DEF SearchInv, MarksInv, PricesInv, AnswersInv
<1>18. QED
  BY <1>14, <1>16, <1>17 DEF SearchInv

LEMMA SaveKeeps == ASSUME SearchInv, NEW r \in Readers, Save(r) PROVE SearchInv'
<1>1. PICK y \in ReaderStates : y = reader[r]
  BY DEF SearchInv, SearchTypes
<1>2. y.at = "save" /\ ReaderFits(y, sparkAt, cleanAt, now)
  BY <1>1 DEF Save, At, SearchInv, ReadersInv
<1>3. y.q \in Queries /\ y.answer \in AnswerStates /\ y.fresh \in SUBSET Prints
  BY DEF ReaderStates
<1>4. /\ reader \in [Readers -> ReaderStates] /\ sparkAt \in Seq(Nat) /\ Len(sparkAt) >= 1
      /\ cleanAt \in Seq(Nat) /\ Len(cleanAt) >= 1
      /\ now \in Nat /\ SparkTtl \in Nat /\ SparkTtl > 0 /\ answers \in [Queries -> AnswerStates]
  BY QueriesAre DEF SearchInv, SearchTypes
<1>5. UNCHANGED <<cards, view, viewNo, sparkAt, prices, chain, cleanAt, now, turns>>
  BY DEF Save
<1>6. PICK life \in Nat : life = Ttl[y.q.kind] /\ y.answer.kind = y.q.kind /\ y.q.kind \in Kinds
  BY <1>2, <1>3, QueriesAre DEF ReaderFits
<1>7. PICK a : a = [[y.answer EXCEPT !.until = now + life] EXCEPT !.saved = Len(cleanAt)]
  OBVIOUS
<1>8. /\ a \in AnswerStates /\ a.shown = y.answer.shown /\ a.kind = y.answer.kind
      /\ a.began = y.answer.began /\ a.view = y.answer.view
      /\ a.until = now + life /\ a.saved = Len(cleanAt)
  <2>1. now + life \in Nat /\ Len(cleanAt) \in Nat
    BY <1>4
  <2> DEFINE until == now + life
             saved == Len(cleanAt)
  <2> HIDE DEF until, saved
  <2>2. a = [[y.answer EXCEPT !.until = until] EXCEPT !.saved = saved]
    BY <1>7 DEF until, saved
  <2>3. a \in AnswerStates
    <3>1. until \in Nat /\ saved \in Nat
      BY <2>1 DEF until, saved
    <3>2. QED
      BY <1>3, <2>2, <3>1 DEF AnswerStates
  <2>4. /\ a.shown = y.answer.shown /\ a.kind = y.answer.kind /\ a.began = y.answer.began
        /\ a.view = y.answer.view /\ a.until = until /\ a.saved = saved
    BY <1>3, <2>2 DEF AnswerStates
  <2>5. QED
    BY <2>3, <2>4 DEF until, saved
<1>9. /\ answers' = [answers EXCEPT ![y.q] = a] \/ UNCHANGED answers
      /\ reader' = [reader EXCEPT ![r].answer = a, ![r].at = "answered"]
  BY <1>1, <1>6, <1>7 DEF Save
<1>10. PICK x : x = [at |-> "answered", q |-> y.q, answer |-> a, fresh |-> y.fresh]
  OBVIOUS
<1>11. x \in ReaderStates /\ x.at = "answered" /\ x.q = y.q /\ x.answer = a
  BY <1>3, <1>8, <1>10 DEF ReaderStates
<1>12. reader' = [reader EXCEPT ![r] = x]
  <2>1. reader'[r] = x
    BY <1>1, <1>4, <1>9, <1>10 DEF ReaderStates
  <2>2. QED
    BY <1>4, <1>9, <2>1
<1>13. Younger(a.shown, sparkAt, now, SparkTtl)
  BY <1>2, <1>8 DEF ReaderFits
<1>14. Younger(a.shown, sparkAt, now, SparkTtl + Ttl[a.kind])
  BY <1>4, <1>6, <1>8, <1>13, YoungerIsEnough
<1>15. ReaderFits(x, sparkAt, cleanAt, now)
  BY <1>6, <1>8, <1>11, <1>14 DEF ReaderFits
<1>16. reader' \in [Readers -> ReaderStates] /\ ReadersInv'
  BY <1>5, <1>11, <1>12, <1>15, ReaderMoves
<1>17. AnswerFits(a, sparkAt, cleanAt, now)
  <2>1. /\ a.began \in 1..Len(cleanAt) /\ a.view >= cleanAt[a.began]
        /\ ~(a.saved < Len(cleanAt)) /\ now <= a.until /\ a.until <= now + Ttl[a.kind]
    <3>1. a.began \in 1..Len(cleanAt) /\ a.view >= cleanAt[a.began]
      BY <1>2, <1>8 DEF ReaderFits
    <3>2. ~(a.saved < Len(cleanAt))
      BY <1>4, <1>8
    <3>3. now <= now + life /\ a.until = now + life /\ Ttl[a.kind] = life
      BY <1>4, <1>6, <1>8
    <3>4. QED
      BY <1>4, <3>1, <3>2, <3>3
  <2>2. ASSUME NEW s \in a.shown
        PROVE  /\ s[2] \in 1..Len(sparkAt)
               /\ s[2] < Len(sparkAt) => a.until < sparkAt[s[2] + 1] + SparkTtl + Ttl[a.kind]
    <3>1. /\ s[2] \in 1..Len(sparkAt) /\ Ttl[a.kind] = life
          /\ s[2] < Len(sparkAt) => now < sparkAt[s[2] + 1] + SparkTtl
      BY <1>6, <1>8, <1>13 DEF Younger
    <3>2. CASE s[2] < Len(sparkAt)
      <4>1. PICK then \in Nat : then = sparkAt[s[2] + 1]
        BY <1>4, <3>1, <3>2
      <4>2. now < then + SparkTtl /\ a.until = now + life
        BY <1>8, <3>1, <3>2, <4>1
      <4>3. a.until < then + SparkTtl + life
        BY <1>4, <4>1, <4>2
      <4>4. QED
        BY <3>1, <4>1, <4>3
    <3>3. QED
      BY <3>1, <3>2
  <2>3. QED
    BY <2>1, <2>2 DEF AnswerFits
<1>18. answers' \in [Queries -> AnswerStates]
  BY <1>4, <1>8, <1>9
<1>19. \A q \in Queries : answers'[q] = answers[q] \/ (q = y.q /\ answers'[q] = a)
  BY <1>3, <1>4, <1>9
<1>20. \A q \in Queries : /\ answers'[q].kind \in {Unset, q.kind}
                          /\ AnswerFits(answers'[q], sparkAt, cleanAt, now)
  BY <1>6, <1>8, <1>17, <1>19 DEF SearchInv, AnswersInv
<1>21. SearchTypes'
  BY <1>5, <1>16, <1>18 DEF SearchInv, SearchTypes
<1>22. MarksInv' /\ PricesInv' /\ AnswersInv'
  BY <1>5, <1>20 DEF SearchInv, MarksInv, PricesInv, AnswersInv
<1>23. QED
  BY <1>16, <1>21, <1>22 DEF SearchInv

(* The catalogue changes; no reader is asked.                                 *)
LEMMA CardsKeep ==
  ASSUME SearchInv, AddCards \/ \E v \in Prints : DeleteCard(v)
  PROVE  SearchInv'
<1>1. /\ UNCHANGED <<view, viewNo, sparkAt, answers, prices, reader, chain, cleanAt, now>>
      /\ cards' \subseteq Prints /\ turns' = turns + 1 /\ turns < MaxTurns
  BY DEF AddCards, DeleteCard, Changes, SearchInv, SearchTypes
<1>2. turns' \in 0..MaxTurns
  BY <1>1, QueriesAre DEF SearchInv, SearchTypes
<1>3. SearchTypes'
  BY <1>1, <1>2 DEF SearchInv, SearchTypes
<1>4. MarksInv' /\ PricesInv' /\ AnswersInv' /\ ReadersInv'
  BY <1>1 DEF SearchInv, MarksInv, PricesInv, AnswersInv, ReadersInv
<1>5. QED
  BY <1>3, <1>4 DEF SearchInv

(* What follows a refresh of the prices in the list of refreshes.             *)
LEMMA ReplacedNext ==
  ASSUME NEW made \in Seq(Nat), NEW t \in Nat, NEW k \in Nat
  PROVE  /\ k < Len(made) => Append(made, t)[k + 1] = made[k + 1]
         /\ k = Len(made) => Append(made, t)[k + 1] = t
OBVIOUS

(* Prices that are replaced now are as young as what was found so far.     *)
LEMMA YoungerStays ==
  ASSUME NEW made \in Seq(Nat), NEW t \in Nat, NEW limit \in Nat, limit > 0, NEW shown,
         Younger(shown, made, t, limit)
  PROVE  Younger(shown, Append(made, t), t, limit)
<1> SUFFICES ASSUME NEW s \in shown
    PROVE  /\ s[2] \in 1..Len(Append(made, t))
           /\ s[2] < Len(Append(made, t)) => t < Append(made, t)[s[2] + 1] + limit
  BY DEF Younger
<1>1. s[2] \in 1..Len(made) /\ (s[2] < Len(made) => t < made[s[2] + 1] + limit)
  BY DEF Younger
<1>2. CASE s[2] < Len(made)
  BY <1>1, <1>2
<1>3. CASE s[2] = Len(made)
  <2>1. Append(made, t)[s[2] + 1] = t
    BY <1>1, <1>3
  <2>2. QED
    BY <1>1, <1>3, <2>1
<1>4. QED
  BY <1>1, <1>2, <1>3

LEMMA RefreshSparkKeeps == ASSUME SearchInv, RefreshSpark PROVE SearchInv'
<1>1. /\ UNCHANGED <<cards, view, viewNo, answers, prices, reader, chain, cleanAt, now>>
      /\ sparkAt' = Append(sparkAt, now) /\ turns' = turns + 1 /\ turns < MaxTurns
  BY DEF RefreshSpark, Changes
<1>2. /\ sparkAt \in Seq(Nat) /\ Len(sparkAt) >= 1 /\ now \in Nat /\ SparkTtl \in Nat /\ SparkTtl > 0
      /\ answers \in [Queries -> AnswerStates] /\ reader \in [Readers -> ReaderStates]
      /\ prices \in [Prints -> [spark : Nat, until : Nat]]
  BY QueriesAre DEF SearchInv, SearchTypes
<1>3. sparkAt' \in Seq(Nat) /\ Len(sparkAt') = Len(sparkAt) + 1 /\ sparkAt'[Len(sparkAt')] = now
      /\ \A n \in 1..Len(sparkAt) : sparkAt'[n] = sparkAt[n]
  BY <1>1, <1>2
<1>4. turns' \in 0..MaxTurns
  BY <1>1, QueriesAre DEF SearchInv, SearchTypes
<1>5. SearchTypes'
  BY <1>1, <1>2, <1>3, <1>4 DEF SearchInv, SearchTypes
<1>6. MarksInv'
  <2>1. ASSUME NEW n \in 1..Len(sparkAt') PROVE sparkAt'[n] <= now
    <3>1. CASE n = Len(sparkAt')
      BY <1>2, <1>3, <3>1
    <3>2. CASE n # Len(sparkAt')
      <4>1. n \in 1..Len(sparkAt)
        BY <1>2, <1>3, <3>2
      <4>2. sparkAt[n] <= now /\ sparkAt'[n] = sparkAt[n]
        BY <1>3, <4>1 DEF SearchInv, MarksInv
      <4>3. QED
        BY <4>2
    <3>3. QED
      BY <3>1, <3>2
  <2>2. QED
    BY <1>1, <2>1 DEF SearchInv, MarksInv
<1>7. ASSUME NEW v \in Prints PROVE PriceFits(prices[v], sparkAt', now)
  <2>1. PICK p \in [spark : Nat, until : Nat] : p = prices[v]
    BY <1>2
  <2>2. PriceFits(p, sparkAt, now)
    BY <2>1 DEF SearchInv, PricesInv
  <2>3. p.spark \in Nat /\ p.until \in Nat
    OBVIOUS
  <2>4. CASE p.spark = 0
    BY <2>1, <2>4 DEF PriceFits
  <2>5. CASE p.spark # 0 /\ p.spark < Len(sparkAt)
    <3>1. sparkAt'[p.spark + 1] = sparkAt[p.spark + 1]
      BY <1>1, <1>2, <2>3, <2>5, ReplacedNext
    <3>2. QED
      BY <1>2, <1>3, <2>1, <2>2, <2>3, <2>5, <3>1 DEF PriceFits
  <2>6. CASE p.spark = Len(sparkAt)
    <3>1. sparkAt'[p.spark + 1] = now
      BY <1>1, <1>2, <2>3, <2>6, ReplacedNext
    <3>2. QED
      BY <1>2, <1>3, <2>1, <2>2, <2>3, <2>6, <3>1 DEF PriceFits
  <2>7. QED
    BY <1>2, <2>2, <2>3, <2>4, <2>5, <2>6 DEF PriceFits
<1>8. ASSUME NEW q \in Queries PROVE AnswerFits(answers[q], sparkAt', cleanAt, now)
  <2>1. PICK a \in AnswerStates : a = answers[q]
    BY <1>2
  <2>2. AnswerFits(a, sparkAt, cleanAt, now) /\ a.kind \in {Unset, q.kind}
    BY <2>1 DEF SearchInv, AnswersInv
  <2>3. CASE a.kind = Unset
    BY <2>1, <2>3 DEF AnswerFits
  <2>4. CASE a.kind # Unset
    <3>1. PICK life \in Nat : life = Ttl[a.kind]
      BY <2>2, <2>4, QueriesAre
    <3>2. a.until \in Nat /\ a.until <= now + life
      BY <2>2, <2>4, <3>1 DEF AnswerStates, AnswerFits
    <3>3. ASSUME NEW s \in a.shown
          PROVE  /\ s[2] \in 1..Len(sparkAt')
                 /\ s[2] < Len(sparkAt') => a.until < sparkAt'[s[2] + 1] + SparkTtl + Ttl[a.kind]
      <4>1. /\ s[2] \in 1..Len(sparkAt)
            /\ s[2] < Len(sparkAt) => a.until < sparkAt[s[2] + 1] + SparkTtl + Ttl[a.kind]
        BY <2>2, <2>4 DEF AnswerFits
      <4>2. CASE s[2] < Len(sparkAt)
        <5>1. sparkAt'[s[2] + 1] = sparkAt[s[2] + 1]
          BY <1>1, <1>2, <4>1, <4>2, ReplacedNext
        <5>2. QED
          BY <1>2, <1>3, <4>1, <4>2, <5>1
      <4>3. CASE s[2] = Len(sparkAt)
        <5>1. sparkAt'[s[2] + 1] = now
          BY <1>1, <1>2, <4>1, <4>3, ReplacedNext
        <5>2. a.until < now + SparkTtl + life
          BY <1>2, <3>2
        <5>3. QED
          BY <1>2, <1>3, <3>1, <4>1, <4>3, <5>1, <5>2
      <4>4. QED
        BY <1>2, <4>1, <4>2, <4>3
    <3>4. QED
      BY <2>1, <2>2, <2>4, <3>3 DEF AnswerFits
  <2>5. QED
    BY <2>3, <2>4
<1>9. ASSUME NEW r \in Readers PROVE ReaderFits(reader[r], sparkAt', cleanAt, now)
  <2>1. PICK x \in ReaderStates : x = reader[r]
    BY <1>2
  <2>2. ReaderFits(x, sparkAt, cleanAt, now)
    BY <2>1 DEF SearchInv, ReadersInv
  <2>3. x.q \in Queries
    BY DEF ReaderStates
  <2>4. x.at = "answered" => Younger(x.answer.shown, sparkAt', now, SparkTtl + Ttl[x.answer.kind])
    <3> SUFFICES ASSUME x.at = "answered"
        PROVE  Younger(x.answer.shown, sparkAt', now, SparkTtl + Ttl[x.answer.kind])
      OBVIOUS
    <3>1. Ttl[x.answer.kind] \in Nat
      BY <2>2, <2>3, QueriesAre DEF ReaderFits
    <3>2. PICK limit \in Nat : limit = SparkTtl + Ttl[x.answer.kind] /\ limit > 0
      BY <1>2, <3>1
    <3>3. Younger(x.answer.shown, sparkAt, now, limit)
      BY <2>2, <3>2 DEF ReaderFits
    <3>4. Younger(x.answer.shown, Append(sparkAt, now), now, limit)
      BY <1>2, <3>2, <3>3, YoungerStays
    <3>5. QED
      BY <1>1, <3>2, <3>4
  <2>5. x.at \in {"keep", "count", "save"} => Younger(x.answer.shown, sparkAt', now, SparkTtl)
    <3>1. x.at \in {"keep", "count", "save"} => Younger(x.answer.shown, sparkAt, now, SparkTtl)
      BY <2>2 DEF ReaderFits
    <3>2. x.at \in {"keep", "count", "save"} =>
            Younger(x.answer.shown, Append(sparkAt, now), now, SparkTtl)
      BY <1>2, <3>1, YoungerStays
    <3>3. QED
      BY <1>1, <3>2
  <2>6. ASSUME x.at = "keep", NEW s \in x.answer.shown, s[1] \in x.fresh, s[2] < Len(sparkAt')
        PROVE  sparkAt'[s[2] + 1] = now
    <3>1. s[2] \in 1..Len(sparkAt) /\ (s[2] < Len(sparkAt) => sparkAt[s[2] + 1] = now)
      BY <2>2, <2>6 DEF ReaderFits, Younger
    <3>2. CASE s[2] < Len(sparkAt)
      BY <1>1, <1>2, <3>1, <3>2, ReplacedNext
    <3>3. CASE s[2] = Len(sparkAt)
      BY <1>1, <1>2, <3>1, <3>3, ReplacedNext
    <3>4. QED
      BY <1>2, <3>1, <3>2, <3>3
  <2>7. QED
    BY <2>1, <2>2, <2>4, <2>5, <2>6 DEF ReaderFits
<1>10. PricesInv' /\ AnswersInv' /\ ReadersInv'
  BY <1>1, <1>7, <1>8, <1>9 DEF SearchInv, PricesInv, AnswersInv, ReadersInv
<1>11. QED
  BY <1>5, <1>6, <1>10 DEF SearchInv

LEMMA PipelineKeeps == ASSUME SearchInv, Pipeline PROVE SearchInv'
<1>1. /\ UNCHANGED <<cards, sparkAt, prices, reader, now>>
      /\ cards \subseteq Prints /\ viewNo \in Nat /\ cleanAt \in Seq(Nat) /\ Len(cleanAt) >= 1
      /\ answers \in [Queries -> AnswerStates] /\ reader \in [Readers -> ReaderStates]
  BY DEF Pipeline, SearchInv, SearchTypes
<1>2. CASE /\ chain = "idle" /\ Changes /\ chain' = "first" /\ Refreshes
           /\ UNCHANGED <<answers, cleanAt>>
  <2>1. view' \subseteq Prints /\ viewNo' = viewNo + 1 /\ turns' \in 0..MaxTurns
    BY <1>1, <1>2, QueriesAre DEF Refreshes, Changes, SearchInv, SearchTypes
  <2>2. SearchTypes'
    BY <1>1, <1>2, <2>1 DEF SearchInv, SearchTypes
  <2>3. \A n \in 1..Len(cleanAt) : cleanAt[n] <= viewNo'
    <3> SUFFICES ASSUME NEW n \in 1..Len(cleanAt) PROVE cleanAt[n] <= viewNo'
      OBVIOUS
    <3>1. cleanAt[n] <= viewNo /\ cleanAt[n] \in Nat
      BY <1>1 DEF SearchInv, MarksInv
    <3>2. QED
      BY <1>1, <2>1, <3>1
  <2>4. MarksInv' /\ PricesInv' /\ AnswersInv' /\ ReadersInv'
    BY <1>1, <1>2, <2>3 DEF SearchInv, MarksInv, PricesInv, AnswersInv, ReadersInv
  <2>5. QED
    BY <2>2, <2>4 DEF SearchInv
<1>3. CASE /\ chain = "first" /\ chain' = "idle" /\ Drops /\ cleanAt' = Append(cleanAt, viewNo)
           /\ UNCHANGED <<view, viewNo, turns>>
  <2>1. /\ cleanAt' \in Seq(Nat) /\ Len(cleanAt') = Len(cleanAt) + 1 /\ cleanAt'[Len(cleanAt')] = viewNo
        /\ \A n \in 1..Len(cleanAt) : cleanAt'[n] = cleanAt[n]
    BY <1>1, <1>3
  <2>2. answers' = [q \in Queries |-> Empty] /\ answers' \in [Queries -> AnswerStates]
    BY <1>3, ConstantsFit DEF Drops
  <2>3. SearchTypes'
    BY <1>1, <1>3, <2>1, <2>2 DEF SearchInv, SearchTypes
  <2>4. ASSUME NEW n \in 1..Len(cleanAt') PROVE cleanAt'[n] <= viewNo
    <3>1. CASE n = Len(cleanAt')
      BY <1>1, <2>1, <3>1
    <3>2. CASE n # Len(cleanAt')
      <4>1. n \in 1..Len(cleanAt)
        BY <1>1, <2>1, <3>2
      <4>2. cleanAt[n] <= viewNo /\ cleanAt'[n] = cleanAt[n]
        BY <2>1, <4>1 DEF SearchInv, MarksInv
      <4>3. QED
        BY <4>2
    <3>3. QED
      BY <3>1, <3>2
  <2>5. \A q \in Queries : /\ answers'[q].kind \in {Unset, q.kind}
                           /\ AnswerFits(answers'[q], sparkAt, cleanAt', now)
    BY <2>2, ConstantsFit, EmptyFits
  <2>6. ASSUME NEW r \in Readers PROVE ReaderFits(reader[r], sparkAt, cleanAt', now)
    <3>1. PICK x \in ReaderStates : x = reader[r]
      BY <1>1
    <3>2. ReaderFits(x, sparkAt, cleanAt, now)
      BY <3>1 DEF SearchInv, ReadersInv
    <3>3. x.answer.began \in 1..Len(cleanAt) =>
            x.answer.began \in 1..Len(cleanAt') /\ cleanAt'[x.answer.began] = cleanAt[x.answer.began]
      BY <1>1, <2>1
    <3>4. QED
      BY <3>1, <3>2, <3>3 DEF ReaderFits
  <2>7. MarksInv' /\ PricesInv' /\ AnswersInv' /\ ReadersInv'
    BY <1>1, <1>3, <2>4, <2>5, <2>6 DEF SearchInv, MarksInv, PricesInv, AnswersInv, ReadersInv
  <2>8. QED
    BY <2>3, <2>7 DEF SearchInv
<1>4. CASE /\ chain = "first" /\ chain' = "idle" /\ DropsSome
           /\ UNCHANGED <<cleanAt, view, viewNo, turns>>
  <2>1. PICK kept \in SUBSET Queries :
          answers' = [q \in Queries |-> IF q \in kept THEN answers[q] ELSE Empty]
    BY <1>4 DEF DropsSome
  <2>2. \A q \in Queries : answers'[q] = answers[q] \/ answers'[q] = Empty
    BY <2>1
  <2>3. answers' \in [Queries -> AnswerStates]
    BY <1>1, <2>1, ConstantsFit
  <2>4. SearchTypes'
    BY <1>1, <1>4, <2>3 DEF SearchInv, SearchTypes
  <2>5. \A q \in Queries : /\ answers'[q].kind \in {Unset, q.kind}
                           /\ AnswerFits(answers'[q], sparkAt, cleanAt, now)
    BY <2>2, ConstantsFit, EmptyFits DEF SearchInv, AnswersInv
  <2>6. MarksInv' /\ PricesInv' /\ AnswersInv' /\ ReadersInv'
    BY <1>1, <1>4, <2>5 DEF SearchInv, MarksInv, PricesInv, AnswersInv, ReadersInv
  <2>7. QED
    BY <2>4, <2>6 DEF SearchInv
<1>5. QED
  BY <1>2, <1>3, <1>4 DEF Pipeline, ChainSteps

LEMMA TickKeeps == ASSUME SearchInv, Tick PROVE SearchInv'
<1>1. /\ UNCHANGED <<cards, view, viewNo, sparkAt, reader, chain, cleanAt, turns>>
      /\ now' = now + 1 /\ now < MaxTime /\ \A r \in Readers : reader[r].at = "idle"
      /\ answers' = [q \in Queries |-> IF answers[q].until > now + 1 THEN answers[q] ELSE Empty]
      /\ prices' = [v \in Prints |-> IF prices[v].until > now + 1 THEN prices[v] ELSE NoPrice]
  BY DEF Tick, At
<1>2. /\ now \in Nat /\ now' \in 0..MaxTime /\ sparkAt \in Seq(Nat) /\ SparkTtl \in Nat
      /\ answers \in [Queries -> AnswerStates] /\ reader \in [Readers -> ReaderStates]
      /\ prices \in [Prints -> [spark : Nat, until : Nat]]
  BY <1>1, QueriesAre DEF SearchInv, SearchTypes
<1>3. /\ answers' \in [Queries -> AnswerStates]
      /\ prices' \in [Prints -> [spark : Nat, until : Nat]]
  BY <1>1, <1>2, ConstantsFit
<1>4. SearchTypes'
  BY <1>1, <1>2, <1>3 DEF SearchInv, SearchTypes
<1>5. \A n \in 1..Len(sparkAt) : sparkAt[n] <= now'
  <2> SUFFICES ASSUME NEW n \in 1..Len(sparkAt) PROVE sparkAt[n] <= now'
    OBVIOUS
  <2>1. sparkAt[n] <= now /\ sparkAt[n] \in Nat
    BY <1>2 DEF SearchInv, MarksInv
  <2>2. QED
    BY <1>1, <1>2, <2>1
<1>6. ASSUME NEW v \in Prints PROVE PriceFits(prices'[v], sparkAt, now')
  <2>1. PICK p \in [spark : Nat, until : Nat] : p = prices[v]
    BY <1>2
  <2>2. CASE p.until > now + 1
    <3>1. prices'[v] = p
      BY <1>1, <2>1, <2>2
    <3>2. PriceFits(p, sparkAt, now)
      BY <2>1 DEF SearchInv, PricesInv
    <3>3. PriceFits(p, sparkAt, now')
      BY <1>1, <1>2, <2>2, <3>2 DEF PriceFits
    <3>4. QED
      BY <3>1, <3>3
  <2>3. CASE ~(p.until > now + 1)
    BY <1>1, <2>1, <2>3, EmptyFits
  <2>4. QED
    BY <2>2, <2>3
<1>7. ASSUME NEW q \in Queries
      PROVE  /\ answers'[q].kind \in {Unset, q.kind}
             /\ AnswerFits(answers'[q], sparkAt, cleanAt, now')
  <2>1. PICK a \in AnswerStates : a = answers[q]
    BY <1>2
  <2>2. CASE a.until > now + 1
    <3>1. answers'[q] = a
      BY <1>1, <2>1, <2>2
    <3>2. AnswerFits(a, sparkAt, cleanAt, now) /\ a.kind \in {Unset, q.kind}
      BY <2>1 DEF SearchInv, AnswersInv
    <3>3. a.kind # Unset => Ttl[a.kind] \in Nat
      BY <3>2, QueriesAre
    <3>4. a.kind # Unset => now' <= a.until /\ a.until <= now' + Ttl[a.kind]
      <4> SUFFICES ASSUME a.kind # Unset PROVE now' <= a.until /\ a.until <= now' + Ttl[a.kind]
        OBVIOUS
      <4>1. PICK life \in Nat : life = Ttl[a.kind]
        BY <3>3
      <4>2. a.until <= now + life /\ a.until \in Nat
        BY <3>2, <4>1 DEF AnswerFits, AnswerStates
      <4>3. now' <= a.until /\ a.until <= now' + life
        BY <1>1, <1>2, <2>2, <4>2
      <4>4. QED
        BY <4>1, <4>3
    <3>5. AnswerFits(a, sparkAt, cleanAt, now')
      BY <3>2, <3>4 DEF AnswerFits
    <3>6. QED
      BY <3>1, <3>2, <3>5
  <2>3. CASE ~(a.until > now + 1)
    BY <1>1, <2>1, <2>3, EmptyFits, ConstantsFit
  <2>4. QED
    BY <2>2, <2>3
<1>8. \A r \in Readers : ReaderFits(reader[r], sparkAt, cleanAt, now')
  BY <1>1 DEF ReaderFits
<1>9. MarksInv' /\ PricesInv' /\ AnswersInv' /\ ReadersInv'
  BY <1>1, <1>5, <1>6, <1>7, <1>8 DEF SearchInv, MarksInv, PricesInv, AnswersInv, ReadersInv
<1>10. QED
  BY <1>4, <1>9 DEF SearchInv

LEMMA SearchStepKeeps == SearchInv /\ [SearchNext]_searchVars => SearchInv'
<1> SUFFICES ASSUME SearchInv, [SearchNext]_searchVars PROVE SearchInv'
  OBVIOUS
<1>1. CASE \E r \in Readers : Ask(r)
  BY <1>1, AskKeeps
<1>2. CASE \E r \in Readers : ReadPage(r)
  BY <1>2, ReadPageKeeps
<1>3. CASE \E r \in Readers : ReadPrices(r)
  BY <1>3, ReadPricesKeeps
<1>4. CASE \E r \in Readers : KeepPrices(r)
  BY <1>4, KeepPricesKeeps
<1>5. CASE \E r \in Readers : Count(r)
  BY <1>5, CountKeeps
<1>6. CASE \E r \in Readers : Save(r)
  BY <1>6, SaveKeeps
<1>7. CASE \E r \in Readers : Leave(r)
  BY <1>7, LeaveKeeps
<1>8. CASE AddCards \/ \E v \in Prints : DeleteCard(v)
  BY <1>8, CardsKeep
<1>9. CASE RefreshSpark
  BY <1>9, RefreshSparkKeeps
<1>10. CASE Pipeline
  BY <1>10, PipelineKeeps
<1>11. CASE Tick
  BY <1>11, TickKeeps
<1>12. CASE UNCHANGED searchVars
  BY <1>12 DEF searchVars, SearchInv, SearchTypes, MarksInv, PricesInv, AnswersInv, ReadersInv
<1>13. QED
  BY <1>1, <1>2, <1>3, <1>4, <1>5, <1>6, <1>7, <1>8, <1>9, <1>10, <1>11, <1>12 DEF SearchNext

LEMMA SearchStaysInv == SearchSpec => []SearchInv
<1>1. SearchInit => SearchInv
  BY SearchStarts
<1>2. SearchInv /\ [SearchNext]_searchVars => SearchInv'
  BY SearchStepKeeps
<1>3. QED
  BY <1>1, <1>2, PTL DEF SearchSpec

(* Once a pipeline has refreshed the view and dropped the cached searches, no *)
(* older page is served but that of a search under way, and no price in an    *)
(* answer was replaced longer ago than both caches keep it: for any number of *)
(* readers, refreshes, failed drops and unreadable or unwritable caches       *)
(* (search_cards, _fetch_prices_for_cards, refresh_card_search_views,         *)
(* invalidate_search_cache).                                                  *)
THEOREM PagesStayCurrent == SearchSpec => []PagesAreCurrent
BY SearchStaysInv, InvGivesCurrent, PTL

(* Whoever picks one of the facets offered beside a search finds a card, for  *)
(* any catalogue and any query (CardReferenceRepository.search: each facet    *)
(* leaves its own condition out, and only its own).                           *)
THEOREM FacetsAlwaysFindCards == SearchSpec => []FacetsFindCards
BY SearchStaysInv, InvGivesFacets, PTL

(* Every variable of CardSearch keeps its type.                               *)
THEOREM SearchStaysTyped == SearchSpec => []SearchTypeOK
BY SearchStaysInv, InvGivesTypes, PTL
===============================================================================
