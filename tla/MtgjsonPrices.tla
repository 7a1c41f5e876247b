---------------------------- MODULE MtgjsonPrices ----------------------------
(***************************************************************************)
(* Prices from MTGJSON.  The nightly chain syncs the identifiers of the    *)
(* cards, downloads the prices of the day, streams them into a staging     *)
(* table, promotes what it can resolve to a card version and truncates the *)
(* rest; an operator catches up with the 90-day archive over the same      *)
(* tables.  Sealed products have a staging table and a pipeline of their   *)
(* own, chosen per uuid by what pricing.sealed_products holds.             *)
(***************************************************************************)
EXTENDS Integers, FiniteSets, FiniteSetsExt

CONSTANTS
  Faces,      \* uuids of card faces
  Sealed,     \* uuids of sealed products
  VersionOf,  \* per uuid of a card: its version, that of its scryfallId
  LastDate,   \* bound: the days 1 .. LastDate
  BatchDays,  \* days of a promotion batch
  Retention,  \* daily snapshots to keep
  MaxMishaps  \* bound: catch-ups, failures, rows entered by hand

Versions == {VersionOf[u] : u \in Faces}
NoCard == "none"

ASSUME MtgjsonAssumption ==
  /\ Faces \cap Sealed = {} /\ NoCard \notin Faces /\ DOMAIN VersionOf = Faces
  /\ {LastDate, BatchDays} \subseteq Nat \ {0}
  /\ {Retention, MaxMishaps} \subseteq Nat

Runs == {"chain", "operator"}
Dates == 1 .. LastDate

VARIABLES
  date,
  catalogue,     \* versions that Scryfall has brought
  primary,       \* mtgjson_id of each version
  alias,         \* mtgjson_uuid_alias: uuids of further faces
  bootstrapped,  \* sealed products of the catalogue
  routed,        \* pricing.sealed_products
  run,           \* per run: its step, its file and what it has read
  staging,       \* mtgjson_card_prices_staging
  sealedStaging, \* mtgjson_sealed_prices_staging
  sealedRun,     \* the step of the sealed pipeline
  observed,      \* price_observation: what has a price for which day
  dailies, bulks,\* files on disk, by the day of their download
  dropped,       \* history: rows the cleanup threw away
  mishaps

identityVars == <<catalogue, primary, alias>>
sealedVars == <<bootstrapped, routed, sealedStaging, sealedRun>>
fileVars == <<dailies, bulks>>
mtgjsonVars == <<date, identityVars, sealedVars, run, staging, observed, fileVars, dropped, mishaps>>

NoFile == {}
IdleRun == [at |-> "idle", file |-> NoFile, sealed |-> {}, knew |-> {}, from |-> 0, to |-> 0]

MtgjsonInit ==
  /\ date = 1
  /\ catalogue = {} /\ primary = [v \in Versions |-> NoCard] /\ alias = {}
  /\ bootstrapped = {} /\ routed = {} /\ sealedStaging = {} /\ sealedRun = "idle"
  /\ run = [r \in Runs |-> IdleRun]
  /\ staging = {} /\ observed = {} /\ dailies = {} /\ bulks = {} /\ dropped = {}
  /\ mishaps = 0

Mishap == mishaps < MaxMishaps /\ mishaps' = mishaps + 1
To(r, step) == run' = [run EXCEPT ![r].at = step]

NewDate ==
  /\ date < LastDate
  /\ date' = date + 1
  /\ UNCHANGED <<identityVars, sealedVars, run, staging, observed, fileVars, dropped, mishaps>>

(* the Scryfall import brings a version *)
ImportVersion(v) ==
  /\ v \notin catalogue
  /\ catalogue' = catalogue \cup {v}
  /\ UNCHANGED <<date, primary, alias, sealedVars, run, staging, observed, fileVars, dropped, mishaps>>

-----------------------------------------------------------------------------
Start(r) ==
  /\ run[r].at = "idle"
  /\ \/ r = "chain" /\ To(r, "identify") /\ UNCHANGED mishaps
     \/ r = "operator" /\ To(r, "download") /\ Mishap
  /\ UNCHANGED <<date, identityVars, sealedVars, staging, observed, fileVars, dropped>>

(* download_all_identifiers and sync_uuid_mappings: each version keeps the *)
(* first uuid that comes for it, the others become aliases.                *)
SyncUuids(r) ==
  /\ run[r].at = "identify"
  /\ \E first \in [Versions -> Faces] :
       /\ \A v \in Versions : VersionOf[first[v]] = v
       /\ primary' = [v \in Versions |->
            IF v \in catalogue /\ primary[v] = NoCard THEN first[v] ELSE primary[v]]
  /\ alias' = alias \cup
       {u \in Faces : VersionOf[u] \in catalogue /\ primary'[VersionOf[u]] # u}
  /\ To(r, "download")
  /\ UNCHANGED <<date, catalogue, sealedVars, staging, observed, fileVars, dropped, mishaps>>

Resolved == {u \in Faces : u \in alias \/ primary[VersionOf[u]] = u}

(* the chain takes the prices of the day, the operator the 90-day archive  *)
Download(r) ==
  /\ run[r].at = "download"
  /\ \/ /\ r = "chain"
        /\ dailies' = dailies \cup {date} /\ UNCHANGED bulks
        /\ run' = [run EXCEPT ![r].at = "stream", ![r].file = {date}]
     \/ /\ r = "operator"
        /\ bulks' = bulks \cup {date} /\ UNCHANGED dailies
        /\ run' = [run EXCEPT ![r].at = "stream", ![r].file = 1 .. date]
  /\ UNCHANGED <<date, identityVars, sealedVars, staging, observed, dropped, mishaps>>

(* stream_to_staging, one transaction under an advisory lock: the sealed   *)
(* uuids are read once ...                                                 *)
StartStream(r) ==
  /\ run[r].at = "stream" /\ \A q \in Runs : run[q].at # "copy"
  /\ run' = [run EXCEPT ![r].at = "copy", ![r].sealed = routed]
  /\ UNCHANGED <<date, identityVars, sealedVars, staging, observed, fileVars, dropped, mishaps>>

(* ... and every uuid goes to the table they say; a file has one or more   *)
(* prices of a card, and one of a sealed product.                          *)
Stream(r) ==
  /\ run[r].at = "copy"
  /\ staging' = staging \cup
       [uuid : (Faces \cup Sealed) \ run[r].sealed, day : run[r].file,
        run : {r}, normal : {FALSE}]
  /\ \E day \in run[r].file : sealedStaging' = sealedStaging \cup [uuid : run[r].sealed, day : {day}]
  /\ To(r, "promote")
  /\ UNCHANGED <<date, identityVars, bootstrapped, routed, sealedRun, observed, fileVars,
                 dropped, mishaps>>

-----------------------------------------------------------------------------
(* The promotion normalises all rows there are, takes their span and works *)
(* through it in batches, each committed with the rows it deletes.         *)
Normalised == {[row EXCEPT !.normal = TRUE] : row \in staging}
SpanOf(rows) == {row.day : row \in rows}

InBatch(rows, from) ==
  {row \in rows : row.normal /\ row.day \in from .. from + BatchDays - 1 /\ row.uuid \in Resolved}

(* Mutant: the last batch begins before the end of the span.               *)
LastBatchBefore(from, to) == from + BatchDays >= to

LastBatch(from, to) == from + BatchDays > to

PromoteBatch(r, rows, from, to, knew) ==
  LET batch == InBatch(rows, from)
  IN /\ staging' = rows \ batch
     /\ observed' = observed \cup {<<VersionOf[row.uuid], row.day>> : row \in batch}
     /\ run' = [run EXCEPT ![r] = [@ EXCEPT
          !.at = IF LastBatch(from, to) THEN "cleanup" ELSE "batch",
          !.knew = knew, !.from = from + BatchDays, !.to = to]]
     /\ UNCHANGED <<date, identityVars, sealedVars, fileVars, dropped, mishaps>>

StartPromote(r) ==
  /\ run[r].at = "promote"
  /\ IF staging = {}
     THEN /\ run' = [run EXCEPT ![r].at = "cleanup", ![r].knew = Resolved]
          /\ UNCHANGED <<date, identityVars, sealedVars, staging, observed, fileVars, dropped, mishaps>>
     ELSE PromoteBatch(r, Normalised, Min(SpanOf(staging)), Max(SpanOf(staging)), Resolved)

NextBatch(r) ==
  /\ run[r].at = "batch"
  /\ PromoteBatch(r, staging, run[r].from, run[r].to, run[r].knew)

(* cleanup_staging_db truncates what is left, whoever staged it            *)
CleanupStaging(r) ==
  /\ run[r].at = "cleanup"
  /\ dropped' = dropped \cup
       {[uuid |-> row.uuid, own |-> row.run = r, known |-> row.uuid \in run[r].knew] : row \in staging}
  /\ staging' = {}
  /\ To(r, "files")
  /\ UNCHANGED <<date, identityVars, sealedVars, observed, fileVars, mishaps>>

(* cleanup_raw_files: dailies[:-0] is empty                                *)
Newest(n) == {d \in dailies : Cardinality({e \in dailies : e > d}) < n}
Outdated ==
  IF bulks # {} THEN dailies
  ELSE IF Retention = 0 THEN {} ELSE dailies \ Newest(Retention)

CleanupFiles(r) ==
  /\ run[r].at = "files"
  /\ \/ dailies' = dailies \ Outdated /\ UNCHANGED mishaps
     \/ Outdated # {} /\ Mishap /\ \E f \in Outdated : dailies' = dailies \ (Outdated \ {f})
  /\ run' = [run EXCEPT ![r] = IdleRun]
  /\ UNCHANGED <<date, identityVars, sealedVars, staging, observed, bulks, dropped>>

(* A step that raises ends its run; a download leaves what it has written. *)
StepFails(r) ==
  /\ run[r].at # "idle" /\ Mishap
  /\ dailies' = IF r = "chain" /\ run[r].at = "download" THEN dailies \cup {date} ELSE dailies
  /\ bulks' = IF r = "operator" /\ run[r].at = "download" THEN bulks \cup {date} ELSE bulks
  /\ run' = [run EXCEPT ![r] = IdleRun]
  /\ UNCHANGED <<date, identityVars, sealedVars, staging, observed, dropped>>

-----------------------------------------------------------------------------
(* bootstrap_catalog_from_set fills the catalogue of sealed products, but  *)
(* not pricing.sealed_products, which only SQL by hand does.               *)
BootstrapSealed(u) ==
  /\ u \notin bootstrapped
  /\ bootstrapped' = bootstrapped \cup {u}
  /\ UNCHANGED <<date, identityVars, routed, sealedStaging, sealedRun, run, staging, observed,
                 fileVars, dropped, mishaps>>

RouteByHand(u) ==
  /\ u \notin routed /\ Mishap
  /\ routed' = routed \cup {u}
  /\ UNCHANGED <<date, identityVars, bootstrapped, sealedStaging, sealedRun, run, staging,
                 observed, fileVars, dropped>>

(* the sealed pipeline: a batch that fails is left behind, with a warning, *)
(* and the truncation follows all the same                                 *)
PromoteSealed ==
  /\ sealedRun = "idle" /\ sealedStaging # {}
  /\ \/ /\ sealedStaging' = {row \in sealedStaging : row.uuid \notin routed}
        /\ observed' = observed \cup {<<row.uuid, row.day>> : row \in sealedStaging \ sealedStaging'}
        /\ UNCHANGED mishaps
     \/ Mishap /\ UNCHANGED <<sealedStaging, observed>>
  /\ sealedRun' = "cleanup"
  /\ UNCHANGED <<date, identityVars, bootstrapped, routed, run, staging, fileVars, dropped>>

CleanupSealed ==
  /\ sealedRun = "cleanup"
  /\ sealedStaging' = {} /\ sealedRun' = "idle"
  /\ UNCHANGED <<date, identityVars, bootstrapped, routed, run, staging, observed, fileVars,
                 dropped, mishaps>>

MtgjsonNext ==
  \/ NewDate \/ (\E v \in Versions : ImportVersion(v))
  \/ \E r \in Runs :
       \/ Start(r) \/ SyncUuids(r) \/ Download(r) \/ StartStream(r) \/ Stream(r)
       \/ StartPromote(r) \/ NextBatch(r) \/ CleanupStaging(r) \/ CleanupFiles(r) \/ StepFails(r)
  \/ \E u \in Sealed : BootstrapSealed(u) \/ RouteByHand(u)
  \/ PromoteSealed \/ CleanupSealed

MtgjsonSpec == MtgjsonInit /\ [][MtgjsonNext]_mtgjsonVars

-----------------------------------------------------------------------------
(* Every variable has its type.                                            *)
MtgjsonTypeOK ==
  /\ date \in Dates /\ catalogue \subseteq Versions
  /\ primary \in [Versions -> Faces \cup {NoCard}] /\ alias \subseteq Faces
  /\ bootstrapped \subseteq Sealed /\ routed \subseteq Sealed
  /\ run \in [Runs -> [at : {"idle", "identify", "download", "stream", "copy", "promote",
                             "batch", "cleanup", "files"},
                       file : SUBSET Dates, sealed : SUBSET Sealed, knew : SUBSET Faces,
                       from : Nat, to : Nat]]
  /\ staging \subseteq [uuid : Faces \cup Sealed, day : Dates, run : Runs, normal : BOOLEAN]
  /\ sealedStaging \subseteq [uuid : Sealed, day : Dates] /\ sealedRun \in {"idle", "cleanup"}
  /\ observed \subseteq (Versions \cup Sealed) \X Dates
  /\ dailies \subseteq Dates /\ bulks \subseteq Dates
  /\ dropped \subseteq [uuid : Faces \cup Sealed, own : BOOLEAN, known : BOOLEAN]
  /\ mishaps \in 0 .. MaxMishaps

(* A run never throws away a price it has staged itself of a card that was *)
(* known when it began to promote: every face of it, every batch, also     *)
(* when another run promotes or truncates the same table meanwhile         *)
(* (data_loader.py: "Rows that survive promotion are unresolvable").       *)
OwnPricesSurvive == \A d \in dropped : ~ (d.own /\ d.known)
=============================================================================
