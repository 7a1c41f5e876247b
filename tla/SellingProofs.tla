---------------------------- MODULE SellingProofs ----------------------------
(* Theorems about ListingActions for any number of items, requests, rows    *)
(* and faults; those about what a drain does to an action are for drains    *)
(* that run one at a time.  Then theorems about OrderStatus for every       *)
(* number of orders, every tracking number and every failure.               *)
EXTENDS ListingActions, OrderStatus, FiniteSetTheorems, WellFoundedInduction, TLAPS

(* At most one drain task runs at a time.                                   *)
OneDrain == \A d, e \in Drains : d = e

(* A set of rows that is not empty has an oldest one.                       *)
LEMMA HasOldest ==
  ASSUME NEW S \in SUBSET Ids, S # {}
  PROVE  \E i \in S : \A j \in S : i <= j
<1>1. S \subseteq Nat
  BY DEF Ids
<1>2. PICK i \in S : \A j \in S : ~ (<<j, i>> \in OpToRel(<, Nat))
  BY <1>1, NatLessThanWellFounded, WFMin
<1>3. \A j \in S : ~ (j < i)
  BY <1>1, <1>2 DEF OpToRel
<1>4. QED
  BY <1>1, <1>3

(* The row a drain works on is one of those it fetched.                     *)
LEMMA CurrentFetched ==
  ASSUME TypeOK, NEW d \in Drains, drain[d].batch # {}
  PROVE  Current(d) \in drain[d].batch /\ Current(d) \in Ids
<1>1. drain[d].batch \in SUBSET Ids /\ drain[d].batch # {}
  BY DEF TypeOK
<1>2. \E i \in drain[d].batch : \A j \in drain[d].batch : i <= j
  BY <1>1, HasOldest
<1>3. QED
  BY <1>1, <1>2 DEF Current
-----------------------------------------------------------------------------
(* What a row's status says of it: nothing has been done yet for an action  *)
(* that is pending, and no row is there before it is staged.                *)
Untouched ==
  \A i \in Ids : row[i].status \in {"pending", "absent"} => acted[i] = 0

(* A row is inserted once: at an id of its own that no row has yet.         *)
Fresh ==
  /\ \A i \in Ids : i > clock => row[i] = NoRow
  /\ \A c \in Clients : staging[c] # NotStaging =>
       staging[c].id <= clock /\ row[staging[c].id] = NoRow
  /\ \A c, e \in Clients :
       staging[c] # NotStaging /\ staging[c].id = staging[e].id => c = e

(* What a drain has in hand: the rows it has not come to are pending still, *)
(* and the one it works on is where its next statement expects it.          *)
Hand(d) ==
  LET i == Current(d)
  IN  /\ drain[d].at = "mark" => \A j \in drain[d].batch : row[j].status = "pending"
      /\ \A j \in drain[d].batch \ {i} : row[j].status = "pending"
      /\ drain[d].at = "act" => row[i].status = "processing" /\ acted[i] = 0
      /\ drain[d].at = "done" => row[i].status = "processing"
      /\ drain[d].at = "fail" => row[i].status \in {"pending", "processing"}

InHand == \A d \in Drains : Hand(d)

IInv == TypeOK /\ Untouched /\ Fresh /\ InHand /\ ActedAtMostOnce

LEMMA ActionFacts ==
  /\ Ids \subseteq Nat /\ \A i \in Ids : i # 0
  /\ \A x \in Items : x # "absent"
BY ActionAssumption DEF Ids

LEMMA InitInv == Init => IInv
BY ActionAssumption, ActionFacts
   DEF Init, IInv, TypeOK, Untouched, Fresh, InHand, Hand, ActedAtMostOnce,
       Statuses, Ends, Places, NoRow, NotStaging, AtRest

(* The requests: only an insert touches the table, and it fills a row that  *)
(* no drain has fetched.                                                    *)
LEMMA RequestKeepsInv ==
  ASSUME IInv, NEW c \in Clients,
         Insert(c) \/ StageFails(c) \/ \E x \in Items : Stage(c, x)
  PROVE  IInv'
<1>1. CASE \E x \in Items : Stage(c, x)
  <2>1. PICK x \in Items : Stage(c, x)
    BY <1>1
  <2>2. clock + 1 \in Ids /\ clock \in Nat /\ clock' = clock + 1
    BY <2>1, ActionAssumption DEF Stage, IInv, TypeOK, Ids
  <2>3. TypeOK'
    BY <2>1, <2>2, ActionAssumption DEF Stage, IInv, TypeOK, Ids
  <2>4. Fresh'
    <3>1. staging'[c] = [id |-> clock + 1, item |-> x] /\ row' = row
      BY <2>1 DEF Stage, IInv, TypeOK
    <3>2. \A e \in Clients \ {c} : staging'[e] = staging[e]
      BY <2>1 DEF Stage, IInv, TypeOK
    <3>3. \A e \in Clients : staging[e] # NotStaging =>
            staging[e].id \in Nat /\ staging[e].id <= clock
      BY ActionFacts DEF IInv, TypeOK, Fresh
    <3>4. row[clock + 1] = NoRow
      BY <2>2 DEF IInv, Fresh
    <3>5. ASSUME NEW i \in Ids, i > clock'
          PROVE  row'[i] = NoRow
      <4>1. i \in Nat /\ i > clock
        BY <3>5, <2>2, ActionFacts
      <4>2. QED
        BY <4>1, <3>1 DEF IInv, Fresh
    <3>6. ASSUME NEW e \in Clients, staging'[e] # NotStaging
          PROVE  staging'[e].id <= clock' /\ row'[staging'[e].id] = NoRow
      BY <2>2, <3>1, <3>2, <3>3, <3>4, <3>6 DEF IInv, Fresh
    <3>7. ASSUME NEW e \in Clients, NEW f \in Clients,
                 staging'[e] # NotStaging, staging'[e].id = staging'[f].id
          PROVE  e = f
      <4>1. staging'[e].id # 0
        BY <3>7, <2>2, <3>1, <3>2, ActionFacts DEF IInv, TypeOK
      <4>2. staging'[f] # NotStaging
        BY <4>1, <3>7 DEF NotStaging
      <4>3. QED
        BY <4>2, <3>7, <2>2, <3>1, <3>2, <3>3 DEF IInv, Fresh
    <3>8. QED
      BY <3>5, <3>6, <3>7 DEF Fresh
  <2>5. (Untouched /\ InHand /\ ActedAtMostOnce)'
    BY <2>1 DEF Stage, IInv, Untouched, InHand, Hand, ActedAtMostOnce, Current
  <2>6. QED
    BY <2>3, <2>4, <2>5 DEF IInv
<1>2. CASE Insert(c)
  <2> DEFINE i == staging[c].id
  <2>1. i \in Ids /\ staging[c].item \in Items /\ row[i] = NoRow /\ acted[i] = 0
    BY <1>2 DEF Insert, IInv, TypeOK, Fresh, Untouched, NoRow, NotStaging
  <2>2. \A j \in Ids : j # i => row'[j] = row[j]
    BY <1>2 DEF Insert, IInv, TypeOK
  <2>3. row'[i] = [item |-> staging[c].item, status |-> "pending"]
    BY <1>2, <2>1 DEF Insert, IInv, TypeOK
  <2>4. TypeOK'
    BY <1>2, <2>1 DEF Insert, IInv, TypeOK, Statuses
  <2>5. Untouched'
    BY <1>2, <2>1, <2>2 DEF Insert, IInv, Untouched
  <2>6. Fresh'
    BY <1>2, <2>1, <2>2, ActionFacts DEF Insert, IInv, TypeOK, Fresh, NotStaging
  <2>7. \A d \in Drains : drain[d].batch \subseteq Ids
    BY DEF IInv, TypeOK
  <2>8. ASSUME NEW d \in Drains, drain[d].batch # {}
        PROVE  i \notin drain[d].batch /\ Current(d) \in drain[d].batch
    <3>2. Current(d) \in drain[d].batch
      BY <2>8, CurrentFetched DEF IInv
    <3>3. row[i].status = "absent"
      BY <2>1 DEF NoRow
    <3>4. drain[d].at \in {"mark", "act", "done", "fail"}
      BY <2>8 DEF IInv, TypeOK, Places
    <3>5. QED
      BY <3>2, <3>3, <3>4 DEF IInv, InHand, Hand
  <2>9. InHand'
    <3> SUFFICES ASSUME NEW d \in Drains
                 PROVE  Hand(d)'
      BY DEF InHand
    <3>1. drain' = drain /\ acted' = acted
      BY <1>2 DEF Insert
    <3>2. QED
      BY <3>1, <2>2, <2>7, <2>8 DEF IInv, InHand, Hand, Current, TypeOK, Places
  <2>10. ActedAtMostOnce'
    BY <1>2 DEF Insert, IInv, ActedAtMostOnce
  <2>11. QED
    BY <2>4, <2>5, <2>6, <2>9, <2>10 DEF IInv
<1>3. CASE StageFails(c)
  <2>1. TypeOK'
    BY <1>3, ActionAssumption DEF StageFails, IInv, TypeOK
  <2>2. Fresh'
    BY <1>3, ActionFacts DEF StageFails, IInv, TypeOK, Fresh, NotStaging
  <2>3. (Untouched /\ InHand /\ ActedAtMostOnce)'
    BY <1>3 DEF StageFails, IInv, Untouched, InHand, Hand, ActedAtMostOnce, Current
  <2>4. QED
    BY <2>1, <2>2, <2>3 DEF IInv
<1>4. QED
  BY <1>1, <1>2, <1>3

-----------------------------------------------------------------------------
(* A drain fetches rows, and the first it fetches is the oldest of all.     *)
LEMMA OldestIsSome ==
  ASSUME NEW S \in SUBSET Ids, S # {}
  PROVE  Oldest(S, Limit) # {} /\ Oldest(S, Limit) \subseteq S
<1>1. PICK i \in S : \A j \in S : i <= j
  BY HasOldest
<1>2. {j \in S : j < i} = {}
  <2>1. \A j \in S : ~ (j < i)
    <3>1. \A j \in S : j \in Nat /\ i <= j
      BY <1>1, ActionFacts
    <3>2. QED
      BY <3>1
  <2>2. QED
    BY <2>1
<1>3. Cardinality({j \in S : j < i}) = 0
  BY <1>2, FS_EmptySet
<1>4. i \in Oldest(S, Limit)
  BY <1>3, ActionAssumption DEF Oldest
<1>5. QED
  BY <1>4 DEF Oldest

LEMMA FetchKeepsInv ==
  ASSUME IInv, NEW d \in Drains, Fetch(d)
  PROVE  IInv'
<1> DEFINE B == Oldest(Pending, Limit)
<1>1. Pending \subseteq Ids /\ B # {} /\ B \subseteq Pending
  BY OldestIsSome DEF Fetch, Pending
<1>2. drain'[d] = [batch |-> B, at |-> "mark"]
  BY DEF Fetch, IInv, TypeOK
<1>3. \A e \in Drains \ {d} : drain'[e] = drain[e]
  BY DEF Fetch, IInv, TypeOK
<1>4. row' = row /\ clock' = clock /\ staging' = staging /\ acted' = acted /\ fails' = fails
  BY DEF Fetch
<1>5. TypeOK'
  <2>1. drain' = [drain EXCEPT ![d] = [batch |-> B, at |-> "mark"]]
    BY DEF Fetch
  <2>2. [batch |-> B, at |-> "mark"] \in [batch : SUBSET Ids, at : Places]
    BY <1>1 DEF Places
  <2>3. drain' \in [Drains -> [batch : SUBSET Ids, at : Places]]
    BY <2>1, <2>2 DEF IInv, TypeOK
  <2>4. \A e \in Drains : drain'[e].batch = {} <=> drain'[e].at = "rest"
    BY <1>1, <1>2, <1>3 DEF IInv, TypeOK
  <2>5. QED
    BY <1>4, <2>3, <2>4 DEF IInv, TypeOK
<1>6. ASSUME NEW e \in Drains
      PROVE  Hand(e)'
  <2>1. CASE e = d
    BY <2>1, <1>1, <1>2, <1>4 DEF Hand, Pending
  <2>2. CASE e # d
    BY <2>2, <1>3, <1>4 DEF Hand, IInv, InHand, Current
  <2>3. QED
    BY <2>1, <2>2
<1>7. (Untouched /\ Fresh /\ ActedAtMostOnce)'
  BY <1>4 DEF IInv, Untouched, Fresh, ActedAtMostOnce
<1>8. QED
  BY <1>5, <1>6, <1>7 DEF IInv, InHand

-----------------------------------------------------------------------------
(* The row in hand is a row of the table that is open.                      *)
LEMMA InHandFacts ==
  ASSUME IInv, NEW d \in Drains, drain[d].at # "rest"
  PROVE  /\ Current(d) \in drain[d].batch /\ Current(d) \in Ids
         /\ row[Current(d)].status \in {"pending", "processing"}
         /\ row[Current(d)] \in [item : Items, status : Statuses]
         /\ drain[d].at = "mark" => row[Current(d)].status = "pending"
         /\ drain[d].batch \subseteq Ids
<1>1. drain[d].batch # {} /\ drain[d].batch \subseteq Ids
  BY DEF IInv, TypeOK
<1>2. Current(d) \in drain[d].batch /\ Current(d) \in Ids
  BY <1>1, CurrentFetched DEF IInv
<1>3. drain[d].at \in {"mark", "act", "done", "fail"}
  BY DEF IInv, TypeOK, Places
<1>4. row[Current(d)].status \in {"pending", "processing"}
  BY <1>2, <1>3 DEF IInv, InHand, Hand
<1>5. row[Current(d)] \in [item : Items, status : Statuses]
  BY <1>2, <1>4 DEF IInv, TypeOK, NoRow
<1>6. drain[d].at = "mark" => row[Current(d)].status = "pending"
  BY <1>2 DEF IInv, InHand, Hand
<1>7. QED
  BY <1>1, <1>2, <1>4, <1>5, <1>6

(* A status written over an open row leaves what is not about drains alone. *)
LEMMA SetStatusKeeps ==
  ASSUME IInv, NEW i \in Ids, row[i] \in [item : Items, status : Statuses],
         row[i].status \in {"pending", "processing"},
         NEW s \in {"processing", "done", "failed"}, SetStatus(i, s),
         UNCHANGED <<clock, staging, acted>>
  PROVE  /\ row' \in [Ids -> [item : Items, status : Statuses] \cup {NoRow}]
         /\ row'[i].status = s
         /\ \A j \in Ids \ {i} : row'[j] = row[j]
         /\ (Untouched /\ Fresh /\ ActedAtMostOnce)'
<1>1. \A j \in Ids \ {i} : row'[j] = row[j]
  BY DEF SetStatus, IInv, TypeOK
<1>2. row'[i] = [row[i] EXCEPT !.status = s]
  BY DEF SetStatus, IInv, TypeOK
<1>3. row'[i] \in [item : Items, status : Statuses] /\ row'[i].status = s
  BY <1>2 DEF Statuses, Ends
<1>4. row' \in [Ids -> [item : Items, status : Statuses] \cup {NoRow}]
  BY <1>3 DEF SetStatus, IInv, TypeOK
<1>5. Untouched'
  BY <1>1, <1>3 DEF IInv, Untouched
<1>6. row[i] # NoRow
  BY DEF NoRow
<1>7. Fresh'
  <2>1. ASSUME NEW j \in Ids, j > clock
        PROVE  row'[j] = NoRow
    BY <2>1, <1>1, <1>6 DEF IInv, Fresh
  <2>2. ASSUME NEW c \in Clients, staging[c] # NotStaging
        PROVE  staging[c].id <= clock /\ row'[staging[c].id] = NoRow
    BY <2>2, <1>1, <1>6 DEF IInv, Fresh, TypeOK
  <2>3. QED
    BY <2>1, <2>2 DEF IInv, Fresh
<1>8. ActedAtMostOnce'
  BY DEF IInv, ActedAtMostOnce
<1>9. QED
  BY <1>1, <1>3, <1>4, <1>5, <1>7, <1>8

(* What remains of a batch once its current row is settled.                 *)
LEMMA NextRowType ==
  ASSUME TypeOK, NEW d \in Drains, NextRow(d)
  PROVE  /\ drain' \in [Drains -> [batch : SUBSET Ids, at : Places]]
         /\ \A e \in Drains : drain'[e].batch = {} <=> drain'[e].at = "rest"
         /\ drain'[d].batch = drain[d].batch \ {Current(d)}
         /\ drain'[d].at \in {"rest", "mark"}
<1> DEFINE rest == drain[d].batch \ {Current(d)}
           new == IF rest = {} THEN AtRest ELSE [batch |-> rest, at |-> "mark"]
<1>1. rest \in SUBSET Ids
  BY DEF TypeOK
<1>2. new.batch = rest /\ new.at \in {"rest", "mark"} /\ (rest = {} <=> new.at = "rest")
  BY DEF AtRest
<1>3. new \in [batch : SUBSET Ids, at : Places]
  BY <1>1 DEF AtRest, Places
<1>4. drain' = [drain EXCEPT ![d] = new]
  BY DEF NextRow
<1>5. drain'[d] = new /\ \A e \in Drains \ {d} : drain'[e] = drain[e]
  BY <1>4 DEF TypeOK
<1>6. \A e \in Drains : drain[e].batch = {} <=> drain[e].at = "rest"
  BY DEF TypeOK
<1> HIDE DEF new
<1>7. drain' \in [Drains -> [batch : SUBSET Ids, at : Places]]
  BY <1>3, <1>4 DEF TypeOK
<1>8. QED
  BY <1>2, <1>5, <1>6, <1>7

LEMMA GotoType ==
  ASSUME TypeOK, NEW d \in Drains, drain[d].at # "rest",
         NEW p \in Places \ {"rest"}, Goto(d, p)
  PROVE  /\ drain' \in [Drains -> [batch : SUBSET Ids, at : Places]]
         /\ \A e \in Drains : drain'[e].batch = {} <=> drain'[e].at = "rest"
         /\ drain'[d].batch = drain[d].batch /\ drain'[d].at = p
         /\ Current(d)' = Current(d)
<1>1. drain'[d] = [drain[d] EXCEPT !.at = p] /\ \A e \in Drains \ {d} : drain'[e] = drain[e]
  BY DEF Goto, TypeOK
<1>2. drain[d] \in [batch : SUBSET Ids, at : Places] /\ drain[d].batch # {}
  BY DEF TypeOK
<1>3. drain'[d].batch = drain[d].batch /\ drain'[d].at = p
  BY <1>1, <1>2
<1>4. drain'[d] \in [batch : SUBSET Ids, at : Places]
  BY <1>1, <1>2
<1>5. drain' \in [Drains -> [batch : SUBSET Ids, at : Places]]
  BY <1>4 DEF Goto, TypeOK
<1>6. \A e \in Drains : drain'[e].batch = {} <=> drain'[e].at = "rest"
  BY <1>1, <1>2, <1>3 DEF TypeOK
<1>7. QED
  BY <1>3, <1>5, <1>6 DEF Current

-----------------------------------------------------------------------------
(* The statements of the drain loop, and what interrupts them.              *)
LEMMA MarkProcessingKeepsInv ==
  ASSUME IInv, OneDrain, NEW d \in Drains, MarkProcessing(d)
  PROVE  IInv'
<1> DEFINE i == Current(d)
<1>1. drain[d].at = "mark" /\ SetStatus(i, "processing") /\ Goto(d, "act")
  BY DEF MarkProcessing
<1>2. UNCHANGED <<clock, staging, acted, fails>>
  BY DEF MarkProcessing
<1>3. /\ i \in Ids /\ i \in drain[d].batch /\ drain[d].batch \subseteq Ids
      /\ row[i].status = "pending"
      /\ row[i] \in [item : Items, status : Statuses]
  BY <1>1, InHandFacts
<1>4. /\ row' \in [Ids -> [item : Items, status : Statuses] \cup {NoRow}]
      /\ row'[i].status = "processing"
      /\ \A j \in Ids \ {i} : row'[j] = row[j]
      /\ (Untouched /\ Fresh /\ ActedAtMostOnce)'
  BY <1>1, <1>2, <1>3, SetStatusKeeps
<1>5. /\ drain' \in [Drains -> [batch : SUBSET Ids, at : Places]]
      /\ \A e \in Drains : drain'[e].batch = {} <=> drain'[e].at = "rest"
      /\ drain'[d].batch = drain[d].batch /\ drain'[d].at = "act"
      /\ Current(d)' = i
  BY <1>1, GotoType DEF Places, IInv
<1>6. TypeOK'
  BY <1>2, <1>4, <1>5 DEF IInv, TypeOK
<1>7. acted'[i] = 0
  BY <1>2, <1>3 DEF IInv, Untouched
<1>8. \A j \in drain[d].batch \ {i} : row'[j].status = "pending"
  BY <1>3, <1>4 DEF IInv, InHand, Hand
<1>9. Hand(d)'
  BY <1>4, <1>5, <1>7, <1>8 DEF Hand
<1>10. QED
  BY <1>4, <1>6, <1>9 DEF IInv, InHand, OneDrain

LEMMA ActKeepsInv ==
  ASSUME IInv, OneDrain, NEW d \in Drains, Act(d)
  PROVE  IInv'
<1> DEFINE i == Current(d)
<1>1. drain[d].at = "act" /\ Goto(d, "done")
  BY DEF Act
<1>2. UNCHANGED <<row, clock, staging, fails>>
  BY DEF Act
<1>3. i \in Ids /\ row[i].status = "processing" /\ acted[i] = 0
  BY <1>1, InHandFacts DEF IInv, InHand, Hand
<1>4. acted' = [acted EXCEPT ![i] = 1]
  BY <1>3 DEF Act, IInv, TypeOK
<1>5. /\ drain' \in [Drains -> [batch : SUBSET Ids, at : Places]]
      /\ \A e \in Drains : drain'[e].batch = {} <=> drain'[e].at = "rest"
      /\ drain'[d].batch = drain[d].batch /\ drain'[d].at = "done"
      /\ Current(d)' = i
  BY <1>1, GotoType DEF Places, IInv
<1>6. acted' \in [Ids -> 0 .. 2] /\ acted'[i] = 1 /\ \A j \in Ids \ {i} : acted'[j] = acted[j]
  BY <1>3, <1>4 DEF IInv, TypeOK
<1>7. TypeOK'
  BY <1>2, <1>5, <1>6 DEF IInv, TypeOK
<1>8. Untouched' /\ ActedAtMostOnce'
  BY <1>2, <1>3, <1>6 DEF IInv, Untouched, ActedAtMostOnce
<1>9. Fresh'
  BY <1>2 DEF IInv, Fresh
<1>10. Hand(d)'
  BY <1>2, <1>3, <1>5 DEF Hand, IInv, InHand
<1>11. QED
  BY <1>7, <1>8, <1>9, <1>10 DEF IInv, InHand, OneDrain

LEMMA EndKeepsInv ==
  ASSUME IInv, OneDrain, NEW d \in Drains, MarkDone(d) \/ MarkFailed(d)
  PROVE  IInv'
<1> DEFINE i == Current(d)
<1>1. PICK s \in {"done", "failed"} : SetStatus(i, s)
  BY DEF MarkDone, MarkFailed
<1>2. NextRow(d) /\ drain[d].at # "rest" /\ UNCHANGED <<clock, staging, acted, fails>>
  BY DEF MarkDone, MarkFailed
<1>3. /\ i \in Ids /\ drain[d].batch \subseteq Ids
      /\ row[i].status \in {"pending", "processing"}
      /\ row[i] \in [item : Items, status : Statuses]
  BY <1>2, InHandFacts
<1>4. /\ row' \in [Ids -> [item : Items, status : Statuses] \cup {NoRow}]
      /\ \A j \in Ids \ {i} : row'[j] = row[j]
      /\ (Untouched /\ Fresh /\ ActedAtMostOnce)'
  BY <1>1, <1>2, <1>3, SetStatusKeeps
<1>5. /\ drain' \in [Drains -> [batch : SUBSET Ids, at : Places]]
      /\ \A e \in Drains : drain'[e].batch = {} <=> drain'[e].at = "rest"
      /\ drain'[d].batch = drain[d].batch \ {i}
      /\ drain'[d].at \in {"rest", "mark"}
  BY <1>2, NextRowType DEF IInv
<1>6. TypeOK'
  BY <1>2, <1>4, <1>5 DEF IInv, TypeOK
<1>7. \A j \in drain'[d].batch : row'[j].status = "pending"
  BY <1>3, <1>4, <1>5 DEF IInv, InHand, Hand
<1>8. Hand(d)'
  BY <1>5, <1>7 DEF Hand
<1>9. QED
  BY <1>4, <1>6, <1>8 DEF IInv, InHand, OneDrain

LEMMA FaultKeepsInv ==
  ASSUME IInv, OneDrain, NEW d \in Drains, Raise(d) \/ Die(d)
  PROVE  IInv'
<1>1. UNCHANGED <<row, clock, staging, acted>> /\ fails' \in 0 .. MaxFails
  BY ActionAssumption DEF Raise, Die, IInv, TypeOK
<1>2. (Untouched /\ Fresh /\ ActedAtMostOnce)'
  BY <1>1 DEF IInv, Untouched, Fresh, ActedAtMostOnce
<1>3. CASE Raise(d)
  <2>1. drain[d].at \in {"mark", "act", "done"} /\ Goto(d, "fail")
    BY <1>3 DEF Raise
  <2>2. /\ drain' \in [Drains -> [batch : SUBSET Ids, at : Places]]
        /\ \A e \in Drains : drain'[e].batch = {} <=> drain'[e].at = "rest"
        /\ drain'[d].batch = drain[d].batch /\ drain'[d].at = "fail"
        /\ Current(d)' = Current(d)
    BY <2>1, GotoType DEF Places, IInv
  <2>3. TypeOK'
    BY <1>1, <2>2 DEF IInv, TypeOK
  <2>4. row[Current(d)].status \in {"pending", "processing"}
    BY <2>1, InHandFacts
  <2>5. Hand(d)'
    BY <1>1, <2>2, <2>4 DEF Hand, IInv, InHand
  <2>6. QED
    BY <1>2, <2>3, <2>5 DEF IInv, InHand, OneDrain
<1>4. CASE Die(d)
  <2>1. drain' = [drain EXCEPT ![d] = AtRest]
    BY <1>4 DEF Die
  <2>2. AtRest \in [batch : SUBSET Ids, at : Places] /\ AtRest.batch = {} /\ AtRest.at = "rest"
    BY DEF AtRest, Places
  <2>3. drain' \in [Drains -> [batch : SUBSET Ids, at : Places]]
    BY <2>1, <2>2 DEF IInv, TypeOK
  <2>4. drain'[d].batch = {} /\ drain'[d].at = "rest"
    BY <2>1, <2>2 DEF IInv, TypeOK
  <2>5. \A e \in Drains : drain'[e].batch = {} <=> drain'[e].at = "rest"
    BY <2>1, <2>4 DEF IInv, TypeOK
  <2>6. TypeOK'
    BY <1>1, <2>3, <2>5 DEF IInv, TypeOK
  <2>7. Hand(d)'
    BY <2>4 DEF Hand
  <2>8. QED
    BY <1>2, <2>6, <2>7 DEF IInv, InHand, OneDrain
<1>5. QED
  BY <1>3, <1>4

LEMMA StepKeepsInv ==
  ASSUME IInv, OneDrain, [Next]_vars
  PROVE  IInv'
<1>1. CASE UNCHANGED vars
  BY <1>1 DEF vars, IInv, TypeOK, Untouched, Fresh, InHand, Hand, Current, ActedAtMostOnce
<1>2. CASE \E c \in Clients : Insert(c) \/ StageFails(c) \/ \E x \in Items : Stage(c, x)
  BY <1>2, RequestKeepsInv
<1>3. CASE \E d \in Drains : Fetch(d) \/ Step(d) \/ Raise(d) \/ Die(d)
  BY <1>3, FetchKeepsInv, MarkProcessingKeepsInv, ActKeepsInv, EndKeepsInv, FaultKeepsInv
     DEF Step
<1>4. QED
  BY <1>1, <1>2, <1>3 DEF Next

LEMMA InvHolds ==
  ASSUME OneDrain
  PROVE  Spec => []IInv
<1>1. Init => IInv
  BY InitInv
<1>2. IInv /\ [Next]_vars => IInv'
  BY StepKeepsInv
<1>3. QED
  BY <1>1, <1>2, PTL DEF Spec

-----------------------------------------------------------------------------
(* However many drains run: what a drain has fetched are rows of the table,  *)
(* and a row never leaves it.                                               *)
Fetched == \A d \in Drains : \A i \in drain[d].batch : row[i] # NoRow

LEMMA TypesAtRequest ==
  ASSUME TypeOK, Fetched, NEW c \in Clients,
         Insert(c) \/ StageFails(c) \/ \E x \in Items : Stage(c, x)
  PROVE  TypeOK' /\ Fetched'
<1>1. CASE \E x \in Items : Stage(c, x)
  <2>1. PICK x \in Items : Stage(c, x)
    BY <1>1
  <2>2. clock + 1 \in Ids /\ clock' \in 0 .. MaxActions
    BY <2>1, ActionAssumption DEF Stage, TypeOK, Ids
  <2>3. QED
    BY <2>1, <2>2 DEF Stage, TypeOK, Fetched
<1>2. CASE Insert(c)
  <2> DEFINE i == staging[c].id
             new == [item |-> staging[c].item, status |-> "pending"]
  <2>1. i \in Ids /\ staging[c].item \in Items
    BY <1>2 DEF Insert, TypeOK, NotStaging
  <2>2. new \in [item : Items, status : Statuses] /\ new # NoRow
    BY <2>1 DEF Statuses, NoRow
  <2> HIDE DEF new
  <2>3. row' = [row EXCEPT ![i] = new] /\ staging' = [staging EXCEPT ![c] = NotStaging]
    BY <1>2 DEF Insert, new
  <2>4. UNCHANGED <<clock, drain, acted, fails>>
    BY <1>2 DEF Insert
  <2>5. row' \in [Ids -> [item : Items, status : Statuses] \cup {NoRow}]
    BY <2>2, <2>3 DEF TypeOK
  <2>6. \A j \in Ids : row'[j] = new \/ row'[j] = row[j]
    BY <2>3 DEF TypeOK
  <2>7. TypeOK'
    BY <2>3, <2>4, <2>5 DEF TypeOK
  <2>8. Fetched'
    BY <2>2, <2>4, <2>6 DEF TypeOK, Fetched
  <2>9. QED
    BY <2>7, <2>8
<1>3. CASE StageFails(c)
  BY <1>3, ActionAssumption DEF StageFails, TypeOK, Fetched
<1>4. QED
  BY <1>1, <1>2, <1>3

(* What a drain does to the table: the status of a row that is there.       *)
LEMMA TypesAtStatus ==
  ASSUME TypeOK, Fetched, NEW d \in Drains, drain[d].at # "rest",
         NEW s \in Statuses, SetStatus(Current(d), s)
  PROVE  /\ row' \in [Ids -> [item : Items, status : Statuses] \cup {NoRow}]
         /\ \A j \in Ids : row[j] # NoRow => row'[j] # NoRow
<1> DEFINE i == Current(d)
<1>1. i \in drain[d].batch /\ i \in Ids
  BY CurrentFetched DEF TypeOK
<1>2. row[i] \in [item : Items, status : Statuses]
  BY <1>1 DEF TypeOK, Fetched
<1> DEFINE new == [row[i] EXCEPT !.status = s]
<1>3. new \in [item : Items, status : Statuses]
  BY <1>2
<1>4. new # NoRow
  BY <1>3, ActionFacts DEF NoRow
<1>5. row' = [row EXCEPT ![i] = new]
  BY DEF SetStatus
<1> HIDE DEF new, i
<1>6. row' \in [Ids -> [item : Items, status : Statuses] \cup {NoRow}]
  BY <1>3, <1>5 DEF TypeOK
<1>7. \A j \in Ids : row'[j] = new \/ row'[j] = row[j]
  BY <1>5 DEF TypeOK
<1>8. QED
  BY <1>4, <1>6, <1>7

LEMMA TypesAtDrain ==
  ASSUME TypeOK, Fetched, NEW d \in Drains, Fetch(d) \/ Step(d) \/ Raise(d) \/ Die(d)
  PROVE  TypeOK' /\ Fetched'
<1>1. ASSUME drain' \in [Drains -> [batch : SUBSET Ids, at : Places]],
             \A e \in Drains : drain'[e].batch = {} <=> drain'[e].at = "rest",
             row' \in [Ids -> [item : Items, status : Statuses] \cup {NoRow}],
             acted' \in [Ids -> 0 .. 2], fails' \in 0 .. MaxFails,
             UNCHANGED <<clock, staging>>,
             \A e \in Drains \ {d} : drain'[e] = drain[e],
             \A j \in Ids : row[j] # NoRow => row'[j] # NoRow,
             \A j \in drain'[d].batch : row[j] # NoRow
      PROVE  TypeOK' /\ Fetched'
  <2>1. TypeOK'
    BY <1>1 DEF TypeOK
  <2>2. ASSUME NEW e \in Drains, NEW j \in drain'[e].batch PROVE row'[j] # NoRow
    <3>1. j \in Ids
      BY <1>1, <2>2
    <3>2. row[j] # NoRow
      BY <1>1, <2>2 DEF Fetched
    <3>3. QED
      BY <1>1, <3>1, <3>2
  <2>3. QED
    BY <2>1, <2>2 DEF Fetched
<1>2. /\ row \in [Ids -> [item : Items, status : Statuses] \cup {NoRow}]
      /\ acted \in [Ids -> 0 .. 2] /\ fails \in 0 .. MaxFails
      /\ drain \in [Drains -> [batch : SUBSET Ids, at : Places]]
      /\ \A j \in drain[d].batch : row[j] # NoRow
  BY DEF TypeOK, Fetched
<1>3. /\ UNCHANGED <<clock, staging>>
      /\ \A e \in Drains \ {d} : drain'[e] = drain[e]
  BY <1>2 DEF Fetch, Step, MarkProcessing, Act, MarkDone, MarkFailed, Raise, Die, Goto, NextRow
<1>4. CASE Fetch(d)
  <2> DEFINE B == Oldest(Pending, Limit)
  <2>1. Pending \subseteq Ids /\ B # {} /\ B \subseteq Pending
    BY <1>4, OldestIsSome DEF Fetch, Pending
  <2>2. \A j \in B : row[j] # NoRow
    BY <2>1 DEF Pending, NoRow
  <2> HIDE DEF B
  <2>3. drain' = [drain EXCEPT ![d] = [batch |-> B, at |-> "mark"]] /\ UNCHANGED <<row, acted, fails>>
    BY <1>4 DEF Fetch, B
  <2>4. [batch |-> B, at |-> "mark"] \in [batch : SUBSET Ids, at : Places]
    BY <2>1 DEF Places
  <2>5. drain'[d] = [batch |-> B, at |-> "mark"]
    BY <1>2, <2>3
  <2>6. drain' \in [Drains -> [batch : SUBSET Ids, at : Places]]
    BY <1>2, <2>3, <2>4
  <2>7. \A e \in Drains : drain'[e].batch = {} <=> drain'[e].at = "rest"
    BY <1>3, <2>1, <2>5 DEF TypeOK
  <2>8. QED
    BY <1>1, <1>2, <1>3, <2>2, <2>3, <2>5, <2>6, <2>7
<1>5. CASE MarkProcessing(d)
  <2>1. /\ drain[d].at # "rest" /\ SetStatus(Current(d), "processing") /\ Goto(d, "act")
        /\ UNCHANGED <<acted, fails>>
    BY <1>5 DEF MarkProcessing
  <2>2. /\ row' \in [Ids -> [item : Items, status : Statuses] \cup {NoRow}]
        /\ \A j \in Ids : row[j] # NoRow => row'[j] # NoRow
    BY <2>1, TypesAtStatus DEF Statuses
  <2>3. /\ drain' \in [Drains -> [batch : SUBSET Ids, at : Places]]
        /\ \A e \in Drains : drain'[e].batch = {} <=> drain'[e].at = "rest"
        /\ drain'[d].batch = drain[d].batch
    BY <2>1, GotoType DEF Places
  <2>4. QED
    BY <1>1, <1>2, <1>3, <2>1, <2>2, <2>3
<1>6. CASE Act(d) \/ Raise(d)
  <2>1. PICK p \in Places \ {"rest"} : Goto(d, p)
    BY <1>6 DEF Act, Raise, Places
  <2>2. drain[d].at # "rest" /\ UNCHANGED row
    BY <1>6 DEF Act, Raise
  <2>3. acted' \in [Ids -> 0 .. 2] /\ fails' \in 0 .. MaxFails
    BY <1>2, <1>6, ActionAssumption DEF Act, Raise
  <2>4. /\ drain' \in [Drains -> [batch : SUBSET Ids, at : Places]]
        /\ \A e \in Drains : drain'[e].batch = {} <=> drain'[e].at = "rest"
        /\ drain'[d].batch = drain[d].batch
    BY <2>1, <2>2, GotoType
  <2>5. QED
    BY <1>1, <1>2, <1>3, <2>2, <2>3, <2>4
<1>7. CASE MarkDone(d) \/ MarkFailed(d)
  <2>1. PICK s \in Statuses : SetStatus(Current(d), s)
    BY <1>7 DEF MarkDone, MarkFailed, Statuses, Ends
  <2>2. drain[d].at # "rest" /\ NextRow(d) /\ UNCHANGED <<acted, fails>>
    BY <1>7 DEF MarkDone, MarkFailed
  <2>3. /\ row' \in [Ids -> [item : Items, status : Statuses] \cup {NoRow}]
        /\ \A j \in Ids : row[j] # NoRow => row'[j] # NoRow
    BY <2>1, <2>2, TypesAtStatus
  <2>4. /\ drain' \in [Drains -> [batch : SUBSET Ids, at : Places]]
        /\ \A e \in Drains : drain'[e].batch = {} <=> drain'[e].at = "rest"
        /\ drain'[d].batch = drain[d].batch \ {Current(d)}
    BY <2>2, NextRowType
  <2>5. QED
    BY <1>1, <1>2, <1>3, <2>2, <2>3, <2>4
<1>8. CASE Die(d)
  <2>1. drain' = [drain EXCEPT ![d] = AtRest] /\ UNCHANGED <<row, acted>> /\ fails' \in 0 .. MaxFails
    BY <1>2, <1>8, ActionAssumption DEF Die
  <2>2. AtRest \in [batch : SUBSET Ids, at : Places] /\ AtRest.batch = {} /\ AtRest.at = "rest"
    BY DEF AtRest, Places
  <2>3. drain' \in [Drains -> [batch : SUBSET Ids, at : Places]] /\ drain'[d] = AtRest
    BY <1>2, <2>1, <2>2
  <2>4. \A e \in Drains : drain'[e].batch = {} <=> drain'[e].at = "rest"
    BY <1>3, <2>2, <2>3 DEF TypeOK
  <2>5. QED
    BY <1>1, <1>2, <1>3, <2>1, <2>2, <2>3, <2>4
<1>9. QED
  BY <1>4, <1>5, <1>6, <1>7, <1>8 DEF Step

(* However many drains and requests run at a time, and whatever is staged,  *)
(* raised or killed, every variable keeps its type: no drain works on a row *)
(* that is not there.                                                       *)
THEOREM TypeCorrect == Spec => []TypeOK
<1>1. Init => TypeOK /\ Fetched
  BY InitInv DEF IInv, Init, Fetched, AtRest
<1>2. TypeOK /\ Fetched /\ [Next]_vars => (TypeOK /\ Fetched)'
  <2> SUFFICES ASSUME TypeOK, Fetched, [Next]_vars PROVE TypeOK' /\ Fetched'
    OBVIOUS
  <2>1. CASE UNCHANGED vars
    BY <2>1 DEF vars, TypeOK, Fetched
  <2>2. QED
    BY <2>1, TypesAtRequest, TypesAtDrain DEF Next
<1>3. QED
  BY <1>1, <1>2, PTL DEF Spec

(* A queue drained by one task at a time acts at most once on every action, *)
(* whichever statements raise and whenever the worker dies: an action is    *)
(* fetched only while it is pending and marked before it is acted upon.     *)
THEOREM OnceOnly ==
  ASSUME OneDrain
  PROVE  Spec => []ActedAtMostOnce
<1>1. IInv => ActedAtMostOnce
  BY DEF IInv
<1>2. QED
  BY <1>1, InvHolds, PTL

(* An action that is done or failed keeps that status: the drain's          *)
(* unguarded updates reach only rows that are open.                         *)
THEOREM EndsAreFinal ==
  ASSUME OneDrain
  PROVE  Spec => OverIsFinal
<1> DEFINE Kept == \A i \in Ids : row[i].status \in Ends => row'[i].status = row[i].status
<1>1. ASSUME IInv, [Next]_vars
      PROVE  Kept
  <2> SUFFICES ASSUME NEW i \in Ids, row[i].status \in Ends
               PROVE  row'[i] = row[i]
    OBVIOUS
  <2>1. CASE row' = row
    BY <2>1
  <2>2. ASSUME NEW c \in Clients, Insert(c)
        PROVE  row'[i] = row[i]
    <3>1. staging[c].id \in Ids /\ row[staging[c].id].status = "absent"
      BY <1>1, <2>2 DEF Insert, IInv, TypeOK, Fresh, NoRow, NotStaging
    <3>2. QED
      BY <1>1, <2>2, <3>1 DEF Insert, IInv, TypeOK, Ends
  <2>3. ASSUME NEW d \in Drains, Step(d)
        PROVE  row'[i] = row[i]
    <3>1. drain[d].at # "rest"
      BY <2>3 DEF Step, MarkProcessing, Act, MarkDone, MarkFailed
    <3>2. Current(d) \in Ids /\ row[Current(d)].status \in {"pending", "processing"}
      BY <1>1, <3>1, InHandFacts
    <3>3. Current(d) # i
      BY <3>2 DEF Ends
    <3>4. \/ row' = row
          \/ \E s \in Statuses : SetStatus(Current(d), s)
      BY <2>3 DEF Step, MarkProcessing, Act, MarkDone, MarkFailed, Statuses, Ends
    <3>5. QED
      BY <1>1, <3>2, <3>3, <3>4 DEF SetStatus, IInv, TypeOK
  <2>4. QED
    BY <1>1, <2>1, <2>2, <2>3 DEF Next, vars, Stage, StageFails, Fetch, Raise, Die
<1>2. IInv /\ [Next]_vars => [Kept]_vars
  BY <1>1
<1>3. QED
  BY <1>2, InvHolds, PTL DEF Spec, OverIsFinal

-----------------------------------------------------------------------------
(* The status of an order, its writers and the cache of the list            *)
OrderRows == [status : Local \cup {"none"}, tracking : Tracking \cup {NoTracking},
              shippedAt : BOOLEAN]

Upserts == [by : {"ship", "status", "invalidated", "sync"}, status : Local,
            tracking : Tracking \cup {NoTracking}, shippedAt : BOOLEAN]

(* What the upsert makes of a row: it gains a shipment and never loses one.   *)
LEMMA UpsertKeeps ==
  ASSUME NEW old \in OrderRows, NEW w \in Upserts
  PROVE  /\ Upsert(old, w) \in OrderRows
         /\ old.shippedAt => Upsert(old, w).shippedAt
         /\ old.tracking # NoTracking => Upsert(old, w).tracking # NoTracking
BY DEF Upsert, OrderRows, Upserts

(* The lock on the row of an order: an upsert of it is open, or none is.      *)
LEMMA WriteTypes ==
  /\ NoWrite.by = "nobody"
  /\ \A w \in Writes : w \in Upserts /\ [w EXCEPT !.by = "invalidated"] \in Writes
BY DEF Writes, NoWrite, Write, Upserts

(* A step changes one row at most, and by the upsert.                         *)
RowWritten ==
  \/ order' = order
  \/ \E o \in Orders, w \in Upserts : order' = [order EXCEPT ![o] = Upsert(@, w)]

LEMMA OrdersStep == OrdersTypeOK /\ [OrdersNext]_orderVars => OrdersTypeOK' /\ RowWritten
<1> SUFFICES ASSUME OrdersTypeOK, [OrdersNext]_orderVars PROVE OrdersTypeOK' /\ RowWritten
  OBVIOUS
<1> USE OrderAssumption
<1>0. /\ order \in [Orders -> OrderRows] /\ write \in [Orders -> Writes \cup {NoWrite}]
      /\ shipped \subseteq Orders /\ called \subseteq Orders
  BY DEF OrdersTypeOK, OrderRows
(* what a step has to keep                                                    *)
<1>s. ASSUME order' \in [Orders -> OrderRows], write' \in [Orders -> Writes \cup {NoWrite}],
             shipped' \subseteq Orders, called' \subseteq Orders,
             orderList' \in Lists, listRead' \in Lists, orderFails' \in 0 .. MaxOrderFails
      PROVE  OrdersTypeOK'
  BY <1>s DEF OrdersTypeOK, OrderRows
<1>l. /\ orderList \in Lists /\ listRead \in Lists /\ NoList \in Lists
      /\ orderFails \in 0 .. MaxOrderFails
  BY DEF OrdersTypeOK, Lists
<1>1. ASSUME NEW o \in Orders, CallEbay(o) PROVE OrdersTypeOK' /\ RowWritten
  BY <1>0, <1>1, <1>l, <1>s DEF CallEbay, RowWritten
<1>2. ASSUME NEW o \in Orders, NEW t \in Tracking \cup {NoTracking}, WriteShipped(o, t)
      PROVE  OrdersTypeOK' /\ RowWritten
  <2>1. Write("ship", "sent", t, TRUE) \in Writes
    BY DEF Write, Writes, Local
  <2>2. QED
    BY <1>0, <1>2, <1>l, <1>s, <2>1 DEF WriteShipped, RowWritten
<1>3. ASSUME NEW o \in Orders, NEW s \in {"in_transit", "complete"}, WriteStatus(o, s)
      PROVE  OrdersTypeOK' /\ RowWritten
  <2>1. Write("status", s, NoTracking, FALSE) \in Writes
    BY DEF Write, Writes, Local
  <2>2. QED
    BY <1>0, <1>3, <1>l, <1>s, <2>1 DEF WriteStatus, RowWritten
<1>4. ASSUME NEW o \in Orders, Invalidate(o) PROVE OrdersTypeOK' /\ RowWritten
  <2>1. write[o] \in Writes
    BY <1>0, <1>4, WriteTypes DEF Invalidate
  <2>2. /\ write' = [write EXCEPT ![o] = [write[o] EXCEPT !.by = "invalidated"]]
        /\ orderList' \in Lists /\ orderFails' \in 0 .. MaxOrderFails
    BY <1>4, <1>l DEF Invalidate
  <2>3. write' \in [Orders -> Writes \cup {NoWrite}]
    BY <1>0, <2>1, <2>2, WriteTypes
  <2>4. QED
    BY <1>0, <1>4, <1>l, <1>s, <2>2, <2>3 DEF Invalidate, RowWritten
<1>5. ASSUME NEW o \in Orders, Commit(o) PROVE OrdersTypeOK' /\ RowWritten
  <2> DEFINE w == write[o]
  <2>1. w \in Writes
    BY <1>0, <1>5, WriteTypes DEF Commit
  <2>2. Upsert(order[o], w) \in OrderRows
    BY <1>0, <2>1, UpsertKeeps, WriteTypes
  <2>3. order' \in [Orders -> OrderRows] /\ write' \in [Orders -> Writes \cup {NoWrite}]
    BY <1>0, <1>5, <2>2 DEF Commit
  <2>4. OrdersTypeOK'
    BY <1>0, <1>5, <1>l, <1>s, <2>3 DEF Commit
  <2>5. order' = [order EXCEPT ![o] = Upsert(@, w)] /\ shipped' = shipped
    BY <1>5 DEF Commit
  <2>6. QED
    BY <1>0, <2>1, <2>4, <2>5, WriteTypes DEF RowWritten
<1>6. ASSUME NEW o \in Orders, Fail(o) PROVE OrdersTypeOK' /\ RowWritten
  BY <1>0, <1>6, <1>l, <1>s, WriteTypes DEF Fail, RowWritten
<1>7. ASSUME NEW o \in Orders, SyncOrder(o) PROVE OrdersTypeOK' /\ RowWritten
  <2> DEFINE w == Write("sync", "sold", NoTracking, FALSE)
  <2>1. w \in Upserts
    BY DEF Write, Upserts, Local
  <2>2. order' = [order EXCEPT ![o] = Upsert(@, w)] /\ UNCHANGED <<shipped, called, write>>
    BY <1>7 DEF SyncOrder
  <2> HIDE DEF w
  <2>3. Upsert(order[o], w) \in OrderRows
    BY <1>0, <2>1, UpsertKeeps
  <2>4. OrdersTypeOK'
    BY <1>0, <1>7, <1>l, <1>s, <2>2, <2>3 DEF SyncOrder
  <2>5. QED
    BY <2>1, <2>2, <2>4 DEF RowWritten
<1>8. CASE ReadStatuses
  <2>1. [o \in Orders |-> order[o].status] \in Lists
    BY <1>0 DEF Lists, OrderRows
  <2>2. QED
    BY <1>0, <1>8, <1>l, <1>s, <2>1 DEF ReadStatuses, RowWritten
<1>9. CASE FillList
  BY <1>0, <1>9, <1>l, <1>s DEF FillList, RowWritten
<1>10. CASE Expire
  BY <1>0, <1>10, <1>l, <1>s DEF Expire, RowWritten
<1>11. CASE UNCHANGED orderVars
  BY <1>0, <1>11, <1>l, <1>s DEF orderVars, RowWritten
<1>12. QED
  BY <1>1, <1>2, <1>3, <1>4, <1>5, <1>6, <1>7, <1>8, <1>9, <1>10, <1>11 DEF OrdersNext

LEMMA OrdersStart == OrdersInit => OrdersTypeOK
BY OrderAssumption DEF OrdersInit, OrdersTypeOK, Row0, NoWrite, Write, Lists, Local

(* A tracking number and a shipping date that are recorded survive every      *)
(* later writer of the row (the COALESCEs of upsert_order_status).            *)
THEOREM ShipmentsSurvive == OrdersSpec => ShipmentSurvives
<1>1. OrdersTypeOK /\ [OrdersNext]_orderVars =>
        [\A o \in Orders :
           /\ order[o].shippedAt => order'[o].shippedAt
           /\ order[o].tracking # NoTracking => order'[o].tracking # NoTracking]_orderVars
  <2> SUFFICES ASSUME OrdersTypeOK, [OrdersNext]_orderVars, NEW o \in Orders
               PROVE  /\ order[o].shippedAt => order'[o].shippedAt
                      /\ order[o].tracking # NoTracking => order'[o].tracking # NoTracking
    OBVIOUS
  <2>1. order \in [Orders -> OrderRows]
    BY DEF OrdersTypeOK, OrderRows
  <2>2. CASE order' = order
    BY <2>2
  <2>3. ASSUME NEW p \in Orders, NEW w \in Upserts,
               order' = [order EXCEPT ![p] = Upsert(@, w)]
        PROVE  /\ order[o].shippedAt => order'[o].shippedAt
               /\ order[o].tracking # NoTracking => order'[o].tracking # NoTracking
    BY <2>1, <2>3, UpsertKeeps
  <2>4. QED
    BY <2>2, <2>3, OrdersStep DEF RowWritten
<1>2. QED
  BY <1>1, OrdersStart, OrdersStep, PTL DEF OrdersSpec, ShipmentSurvives
=============================================================================
