----------------------------- MODULE SealedCatalog -----------------------------
(***************************************************************************)
(* The catalogue of sealed products.  An operator bootstraps it from the   *)
(* file that MTGJSON publishes, again and again, and maybe twice at once:  *)
(* each run is one transaction that finds or inserts every product of the  *)
(* file, gives it the identifiers of the file and makes sure that it has a *)
(* row by which it can be priced.  Two tables are UNIQUE where it matters: *)
(* a product has one identifier of a kind, and an identifier of a kind is  *)
(* of one product; what another transaction has written there and not      *)
(* committed is waited for.  Types and subtypes, which a run adds when     *)
(* they are new, are left out.                                             *)
(***************************************************************************)
EXTENDS Integers, FiniteSets

CONSTANTS
  Uuids,      \* mtgjson_uuid of the sealed products that exist
  Vendors,    \* the ids a vendor gives, tcgplayer_product_id for one
  Bootstraps, \* runs of the bootstrap that may overlap
  MaxFiles    \* bound: versions of the file

ASSUME SealedAssumption == Uuids \cap Vendors = {} /\ MaxFiles \in Nat

NoId == "none"
Products == 1 .. Cardinality(Uuids) * (Cardinality(Bootstraps) + 1)
Files == UNION {[S -> Vendors \cup {NoId}] : S \in SUBSET Uuids}
NoFileYet == [u \in {} |-> NoId]

VARIABLES
  published,   \* the file: of the products it has, the id of the vendor
  identifiers, \* sealed_external_identifier: [product, kind, value]
  priced,      \* mtg_sealed_products: how many rows a sealed product has
  boot,        \* per run, where it is, its file and what it has written
  filed,       \* history: the vendor's id of each product by the last file
  files

sealedVars == <<published, identifiers, priced, boot, filed, files>>

Idle == [at |-> "idle", file |-> NoFileYet, todo |-> {}, product |-> 0, uuid |-> NoId,
         kinds |-> {}, held |-> {}, wrote |-> {}, adds |-> {}]

SealedInit ==
  /\ published \in [{} -> Vendors] /\ identifiers = {} /\ priced = [p \in {} |-> 0]
  /\ boot = [b \in Bootstraps |-> Idle]
  /\ filed = NoFileYet /\ files = 0

(* MTGJSON publishes a new file, with ids that no two products share       *)
Publish ==
  /\ files < MaxFiles /\ files' = files + 1
  /\ \E known \in SUBSET Uuids : published' \in [known -> Vendors \cup {NoId}]
  /\ \A u, v \in DOMAIN published' : u # v => published'[u] = NoId \/ published'[u] # published'[v]
  /\ UNCHANGED <<identifiers, priced, boot, filed>>

-----------------------------------------------------------------------------
Slot(row) == <<row.product, row.kind>>
Value(row) == <<row.kind, row.value>>

(* What a run sees: its own rows, and those committed that it has not      *)
(* written over                                                            *)
WrittenOver(b) == {row \in identifiers : \E w \in boot[b].wrote : Slot(w) = Slot(row)}
Seen(b) == boot[b].wrote \cup (identifiers \ WrittenOver(b))
Others(b) == Bootstraps \ {b}

(* another transaction holds the place of an identifier, by a row it has   *)
(* written or by one it has changed                                        *)
Awaited(b, row) ==
  \E c \in Others(b) : \E w \in boot[c].wrote \cup WrittenOver(c) : Value(w) = Value(row)

Of(b, u) == {row.product : row \in {r \in Seen(b) : r.kind = "uuid" /\ r.value = u}}
InUse == {row.product : row \in identifiers} \cup UNION {boot[b].held : b \in Bootstraps}
Fresh == {p \in Products \ InUse : \A q \in Products \ InUse : p <= q}
Quiet == UNCHANGED <<published, identifiers, priced, filed, files>>

-----------------------------------------------------------------------------
(* fetch_set_json; a file without sealed products ends the run             *)
FetchSet(b) ==
  /\ boot[b].at = "idle" /\ DOMAIN published # {}
  /\ boot' = [boot EXCEPT ![b] = [Idle EXCEPT !.at = "products", !.file = published,
                                             !.todo = DOMAIN published]]
  /\ Quiet

KindsOf(vendor) == {"uuid"} \cup IF vendor = NoId THEN {} ELSE {"vendor"}

(* find the product by its uuid; insert it, or else update its row, which  *)
(* waits for whoever has it                                                *)
Find(b, u) ==
  /\ boot[b].at = "products" /\ u \in boot[b].todo
  /\ \E p \in IF Of(b, u) # {} THEN Of(b, u) ELSE Fresh :
       /\ \A c \in Others(b) : p \notin boot[c].held
       /\ boot' = [boot EXCEPT ![b] =
            [boot[b] EXCEPT !.at = "identifiers", !.todo = @ \ {u}, !.uuid = u, !.product = p,
                      !.held = @ \cup {p}, !.kinds = KindsOf(boot[b].file[u])]]
  /\ Quiet

Upsert(b, row) == {w \in boot[b].wrote : Slot(w) # Slot(row)} \cup {row}

Rollback(b) == boot' = [boot EXCEPT ![b] = Idle]

(* the identifiers come in the order of a set; one that is another         *)
(* product's fails the run                                                 *)
Identify(b, k) ==
  LET value == IF k = "uuid" THEN boot[b].uuid ELSE boot[b].file[boot[b].uuid]
      row == [product |-> boot[b].product, kind |-> k, value |-> value]
  IN /\ boot[b].at = "identifiers" /\ k \in boot[b].kinds
     /\ ~ Awaited(b, row)
     /\ IF \E r \in Seen(b) : Value(r) = Value(row) /\ r.product # row.product
        THEN Rollback(b)
        ELSE boot' = [boot EXCEPT ![b] =
               [boot[b] EXCEPT !.wrote = Upsert(b, row), !.kinds = @ \ {k}]]
     /\ Quiet

(* find the row of the product by which it is priced, or insert one        *)
EnsurePriced(b) ==
  LET p == boot[b].product
  IN /\ boot[b].at = "identifiers" /\ boot[b].kinds = {}
     /\ boot' = [boot EXCEPT ![b] =
          [boot[b] EXCEPT !.at = IF boot[b].todo = {} THEN "done" ELSE "products",
                    !.product = 0, !.uuid = NoId, !.adds = @ \cup ({p} \ DOMAIN priced)]]
     /\ Quiet

Given(b) == {u \in DOMAIN boot[b].file : boot[b].file[u] # NoId}
Commit(b) ==
  /\ boot[b].at = "done"
  /\ identifiers' = Seen(b)
  /\ priced' = [p \in DOMAIN priced \cup boot[b].adds |->
                  (IF p \in DOMAIN priced THEN priced[p] ELSE 0)
                  + (IF p \in boot[b].adds THEN 1 ELSE 0)]
  /\ filed' = [u \in DOMAIN filed \cup Given(b) |->
                 IF u \in Given(b) THEN boot[b].file[u] ELSE filed[u]]
  /\ Rollback(b)
  /\ UNCHANGED <<published, files>>

(* a statement fails, two runs wait for each other, or the process dies    *)
Abort(b) ==
  /\ boot[b].at # "idle"
  /\ Rollback(b)
  /\ Quiet

SealedNext ==
  \/ Publish
  \/ \E b \in Bootstraps :
       \/ FetchSet(b) \/ EnsurePriced(b) \/ Commit(b) \/ Abort(b)
       \/ \E u \in Uuids : Find(b, u)
       \/ \E k \in {"uuid", "vendor"} : Identify(b, k)

-----------------------------------------------------------------------------
SealedSpec == SealedInit /\ [][SealedNext]_sealedVars

(* Every variable has its type.                                            *)
SealedTypeOK ==
  /\ identifiers \subseteq [product : Products, kind : {"uuid", "vendor"}, value : Uuids \cup Vendors]
  /\ published \in Files /\ DOMAIN priced \subseteq Products
  /\ \A b \in Bootstraps :
       /\ boot[b].at \in {"idle", "products", "identifiers", "done"}
       /\ boot[b].todo \subseteq DOMAIN boot[b].file /\ boot[b].held \subseteq Products
  /\ DOMAIN filed \subseteq Uuids

(* However the runs overlap, fail and repeat, a sealed product has one     *)
(* uuid and no other product has it, and it has exactly one row by which   *)
(* it is priced; two such rows would show each of its prices twice.        *)
OnePricePerProduct ==
  /\ \A row \in identifiers :
       /\ \A other \in identifiers : Value(row) = Value(other) => row = other
       /\ \E own \in identifiers : own.kind = "uuid" /\ Slot(own) = <<row.product, "uuid">>
  /\ DOMAIN priced = {row.product : row \in identifiers}
  /\ \A p \in DOMAIN priced : priced[p] = 1

(* A product has the vendor's id of the last file that was committed with  *)
(* one for it ("re-running updates name/type/identifiers in place").       *)
LastFileCounts ==
  \A u \in DOMAIN filed : \E p \in Products :
    {[product |-> p, kind |-> "uuid", value |-> u],
     [product |-> p, kind |-> "vendor", value |-> filed[u]]} \subseteq identifiers
=============================================================================
