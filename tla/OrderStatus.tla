----------------------------- MODULE OrderStatus -----------------------------
(***************************************************************************)
(* The local status of sold eBay orders: the row of ebay_order_status, its *)
(* three writers (mark_order_shipped, which first calls eBay;              *)
(* update_order_local_status; the nightly own-sales sync) and the cached   *)
(* order list of get_order_history.  The two user requests write inside a  *)
(* transaction, so their row is locked from the upsert to the commit.      *)
(***************************************************************************)
EXTENDS Naturals

CONSTANTS
  Orders,         \* orders of one seller
  Tracking,       \* tracking numbers a user may give
  MaxOrderFails   \* bound: requests that fail half-way, invalidations that fail

NoTracking == "untracked"
NoList  == [o \in Orders |-> "no list"]
Local   == {"sold", "sent", "in_transit", "complete"}

ASSUME OrderAssumption == NoTracking \notin Tracking /\ MaxOrderFails \in Nat

Write(by, s, t, at) ==
  [by |-> by, status |-> s, tracking |-> t, shippedAt |-> at]
NoWrite == Write("nobody", "none", NoTracking, FALSE)

VARIABLES
  order,      \* ebay_order_status as committed, status "none" without a row
  shipped,    \* orders eBay has a shipping fulfilment for
  called,     \* mark_order_shipped: eBay has answered, nothing written yet
  write,      \* per order, the upsert of an open transaction
  orderList,  \* the cached order list: its local statuses, or NoList
  listRead,   \* get_order_history: statuses read and not yet cached
  orderFails  \* history: failures so far

orderVars == <<order, shipped, called, write, orderList, listRead, orderFails>>

Row0 == [status |-> "none", tracking |-> NoTracking, shippedAt |-> FALSE]

OrdersInit ==
  /\ order = [o \in Orders |-> Row0] /\ shipped = {} /\ called = {}
  /\ write = [o \in Orders |-> NoWrite]
  /\ orderList = NoList /\ listRead = NoList /\ orderFails = 0

Overwrite(old, w) ==
  [status |-> w.status, tracking |-> w.tracking, shippedAt |-> w.shippedAt]

(* upsert_order_status: the status is replaced, the shipment is COALESCEd  *)
Upsert(old, w) ==
  [status |-> w.status,
   tracking |-> IF w.tracking = NoTracking THEN old.tracking ELSE w.tracking,
   shippedAt |-> w.shippedAt \/ old.shippedAt]

Unlocked(o) == write[o] = NoWrite

-----------------------------------------------------------------------------
(* mark_order_shipped: eBay accepts the shipping fulfilment, or refuses it, *)
(* which create_shipping_fulfillment returns like any other answer.         *)
CallEbay(o) ==
  /\ called' = called \cup {o}
  /\ \/ shipped' = shipped \cup {o}
     \/ UNCHANGED shipped
  /\ UNCHANGED <<order, write, orderList, listRead, orderFails>>

WriteShipped(o, t) ==
  /\ o \in called /\ Unlocked(o)
  /\ called' = called \ {o}
  /\ write' = [write EXCEPT ![o] = Write("ship", "sent", t, TRUE)]
  /\ UNCHANGED <<order, shipped, orderList, listRead, orderFails>>

(* update_order_local_status: the upsert, then the invalidation            *)
WriteStatus(o, s) ==
  /\ Unlocked(o)
  /\ write' = [write EXCEPT ![o] = Write("status", s, NoTracking, FALSE)]
  /\ UNCHANGED <<order, shipped, called, orderList, listRead, orderFails>>

InvalidateUnwritten(o) ==
  /\ write' = [write EXCEPT ![o].by = "invalidated"] /\ orderList' = NoList
  /\ UNCHANGED <<order, shipped, called, listRead, orderFails>>

Invalidate(o) ==
  /\ write[o].by = "status"
  /\ write' = [write EXCEPT ![o].by = "invalidated"]
  /\ \/ /\ orderList' = NoList
        /\ UNCHANGED orderFails
     \/ /\ orderFails < MaxOrderFails         \* RedisError: logged, 0 keys deleted
        /\ orderFails' = orderFails + 1
        /\ UNCHANGED orderList
  /\ UNCHANGED <<order, shipped, called, listRead>>

Commit(o) ==
  /\ write[o].by \in {"ship", "invalidated"}
  /\ order' = [order EXCEPT ![o] = Upsert(@, write[o])]
  /\ write' = [write EXCEPT ![o] = NoWrite]
  /\ UNCHANGED <<shipped, called, orderList, listRead, orderFails>>

(* a request dies or raises: its transaction is rolled back                *)
Fail(o) ==
  /\ orderFails < MaxOrderFails
  /\ \/ o \in called /\ called' = called \ {o} /\ UNCHANGED write
     \/ ~Unlocked(o) /\ write' = [write EXCEPT ![o] = NoWrite] /\ UNCHANGED called
  /\ orderFails' = orderFails + 1
  /\ UNCHANGED <<order, shipped, orderList, listRead>>

(* _sync_for_user, for every order eBay returns: local_status='sold'       *)
SyncOrder(o) ==
  /\ Unlocked(o)
  /\ order' = [order EXCEPT ![o] = Upsert(@, Write("sync", "sold", NoTracking, FALSE))]
  /\ UNCHANGED <<shipped, called, write, orderList, listRead, orderFails>>

(* get_order_history on a cache miss: read the rows, then cache the list   *)
ReadStatuses ==
  /\ orderList = NoList /\ listRead = NoList
  /\ listRead' = [o \in Orders |-> order[o].status]
  /\ UNCHANGED <<order, shipped, called, write, orderList, orderFails>>

FillList ==
  /\ listRead # NoList
  /\ orderList' = listRead
  /\ listRead' = NoList
  /\ UNCHANGED <<order, shipped, called, write, orderFails>>

(* the entry's _SOLD_ORDERS_TTL runs out *)
Expire ==
  /\ orderList # NoList
  /\ orderList' = NoList
  /\ UNCHANGED <<order, shipped, called, write, listRead, orderFails>>

OrdersNext ==
  \/ \E o \in Orders :
       \/ CallEbay(o) \/ Invalidate(o) \/ Commit(o) \/ Fail(o) \/ SyncOrder(o)
       \/ \E t \in Tracking \cup {NoTracking} : WriteShipped(o, t)
       \/ \E s \in {"in_transit", "complete"} : WriteStatus(o, s)
  \/ ReadStatuses \/ FillList \/ Expire

OrdersSpec == OrdersInit /\ [][OrdersNext]_orderVars

-----------------------------------------------------------------------------
Lists == [Orders -> Local \cup {"none"}] \cup {NoList}

Writes == [by : {"ship", "status", "invalidated"}, status : Local,
           tracking : Tracking \cup {NoTracking}, shippedAt : BOOLEAN]

(* Every variable has its type.                                            *)
OrdersTypeOK ==
  /\ order \in [Orders -> [status : Local \cup {"none"},
                         tracking : Tracking \cup {NoTracking}, shippedAt : BOOLEAN]]
  /\ shipped \subseteq Orders /\ called \subseteq Orders
  /\ write \in [Orders -> Writes \cup {NoWrite}]
  /\ orderList \in Lists /\ listRead \in Lists
  /\ orderFails \in 0 .. MaxOrderFails

(* An order carries a shipping date only if eBay holds a fulfilment for it: *)
(* mark_order_shipped calls eBay first and then persists.  The code does   *)
(* not keep this: it dates an order whose fulfilment eBay has refused. *)
ShippedDateIsReal == \A o \in Orders : order[o].shippedAt => o \in shipped

(* Once recorded, a tracking number and a shipping date are not lost to a  *)
(* later writer that does not know them (the COALESCEs of the upsert). *)
ShipmentSurvives ==
  [][\A o \in Orders :
       /\ order[o].shippedAt => order'[o].shippedAt
       /\ order[o].tracking # NoTracking => order'[o].tracking # NoTracking]_orderVars
=============================================================================
