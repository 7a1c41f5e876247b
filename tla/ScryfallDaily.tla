--------------------------- MODULE ScryfallDaily ---------------------------
(* The daily Scryfall chain.  A run reads the manifest, records the versions *)
(* it has not seen, saves and imports the sets of the day, downloads and     *)
(* imports the cards of a new version and deletes old files.  A step fails   *)
(* for good, or is delivered again after its worker died between the commit  *)
(* and the message to the next step.                                         *)
EXTENDS Naturals, FiniteSets, Sequences, Functions

CONSTANTS
  Chains,     \* runs of the chain, 1..n in the order they start
  ChainDays,  \* bound: days
  LastVersion, \* bound: versions of all_cards Scryfall publishes
  Order,      \* the sets in the order the sets file lists them
  Parent,     \* parent_set_code: set -> set or NoSet
  NoSet,      \* no set, no link, no row
  Keep,       \* cards files that the last step keeps
  MaxFaults   \* bound: failures, crashes, redeliveries, imports with rejected sets

Sets == Range(Order)

ASSUME ScryfallAssumption ==
  /\ IsFiniteSet(Chains) /\ Chains = 1..Cardinality(Chains)
  /\ ChainDays \in Nat \ {0} /\ LastVersion \in Nat \ {0} /\ MaxFaults \in Nat
  /\ Keep \in Nat \ {0}
  /\ \A m, n \in DOMAIN Order : Order[m] = Order[n] => m = n
  /\ Parent \in [Sets -> Sets \cup {NoSet}] /\ NoSet \notin Sets

VARIABLES
  day, upstream,  \* the date; the version of all_cards on the manifest
  published,      \* the sets Scryfall lists
  chains,         \* where each run of the chain stands
  recorded,       \* ops.resource_versions
  setsFile,       \* day -> the sets saved in scryfall_sets_<day>.json
  files,          \* the runs whose all-cards file is on disk
  stored,         \* card_catalog.sets: set -> [in, link]
  fresh,          \* history: the sets first stored by the last import of sets
  relisted,       \* history: the sets that the last import of sets took
  imported,       \* versions whose cards were imported
  lost,           \* history: versions recorded by a run that a fault befell
  faults

scryfallVars == <<day, upstream, published, chains, recorded, setsFile, files, stored,
                  fresh, relisted, imported, lost, faults>>

Steps == <<"manifest", "record", "sets", "importSets", "cards", "importCards",
           "cleanup", "done">>
Ended == {"done", "failed"}
Unstarted == [at |-> "none", day |-> 0, named |-> 0, todo |-> 0,
              setsDay |-> 0, cardsDay |-> 0]
NotSaved == [saved |-> "none", sets |-> {}]

ScryfallTypeOK ==
  /\ day \in 1..ChainDays /\ upstream \in 1..LastVersion /\ published \subseteq Sets
  /\ chains \in [Chains -> [at : Range(Steps) \cup {"none", "failed"}, day : 0..ChainDays,
                          named : 0..LastVersion, todo : 0..LastVersion,
                          setsDay : 0..ChainDays, cardsDay : 0..ChainDays]]
  /\ recorded \subseteq 1..LastVersion /\ imported \subseteq recorded
  /\ lost \subseteq recorded
  /\ setsFile \in [1..ChainDays -> [saved : {"none", "part", "whole"}, sets : SUBSET Sets]]
  /\ files \subseteq Chains
  /\ stored \in [Sets -> [in : BOOLEAN, link : Sets \cup {NoSet}]]
  /\ \A s \in Sets : stored[s].link # NoSet => stored[stored[s].link].in
  /\ fresh \subseteq Sets /\ relisted \subseteq Sets
  /\ faults \in 0..MaxFaults

ScryfallInit ==
  /\ day = 1 /\ upstream = 1 /\ published \in {S \in SUBSET Sets : S # {}}
  /\ chains = [r \in Chains |-> Unstarted]
  /\ recorded = {} /\ imported = {} /\ lost = {}
  /\ setsFile = [d \in 1..ChainDays |-> NotSaved] /\ files = {}
  /\ stored = [s \in Sets |-> [in |-> FALSE, link |-> NoSet]]
  /\ fresh = {} /\ relisted = {}
  /\ faults = 0

-----------------------------------------------------------------------------
(* A run goes from one step to the next.                                     *)
Following(at) == Steps[1 + CHOOSE n \in 1..Len(Steps) - 1 : Steps[n] = at]
RunAt(r, at) == chains[r].at = at
Active(r) == chains[r].at \notin Ended \cup {"none"}
Goes(r, state) == chains' = [chains EXCEPT ![r] = [state EXCEPT !.at = Following(@)]]

(* Scryfall publishes, and a day passes.                                     *)
Publish ==
  /\ \/ upstream < LastVersion /\ upstream' = upstream + 1 /\ UNCHANGED published
     \/ /\ \E s \in Sets \ published : published' = published \cup {s}
        /\ UNCHANGED upstream
  /\ UNCHANGED <<day, chains, recorded, setsFile, files, stored, fresh, relisted,
                 imported, lost, faults>>

NextDay ==
  /\ day < ChainDays /\ day' = day + 1
  /\ UNCHANGED <<upstream, published, chains, recorded, setsFile, files, stored, fresh,
                 relisted, imported, lost, faults>>

(* is_run_active lets one run of a day be under way; one that has ended may  *)
(* be followed by another.                                                   *)
StartChain(r) ==
  /\ RunAt(r, "none") /\ \A q \in Chains : q < r => ~RunAt(q, "none")
  /\ \A q \in Chains : chains[q].day = day => ~Active(q)
  /\ chains' = [chains EXCEPT ![r] = [Unstarted EXCEPT !.at = "manifest", !.day = day]]
  /\ UNCHANGED <<day, upstream, published, recorded, setsFile, files, stored, fresh,
                 relisted, imported, lost, faults>>

ReadManifest(r) ==
  /\ RunAt(r, "manifest") /\ Goes(r, [chains[r] EXCEPT !.named = upstream])
  /\ UNCHANGED <<day, upstream, published, recorded, setsFile, files, stored, fresh,
                 relisted, imported, lost, faults>>

(* uris_to_download: the version, unless resource_versions has it already.   *)
Changed(v) == {v} \ recorded

Record(r) ==
  LET new == Changed(chains[r].named)
  IN /\ RunAt(r, "record")
     /\ Goes(r, [chains[r] EXCEPT !.todo = IF new = {} THEN 0 ELSE @ + chains[r].named])
     /\ recorded' = recorded \cup new
     /\ UNCHANGED <<day, upstream, published, setsFile, files, stored, fresh, relisted,
                    imported, lost, faults>>

-----------------------------------------------------------------------------
(* The sets of the day are saved once: a file that exists is taken.          *)
SaveSets(r) ==
  /\ RunAt(r, "sets") /\ Goes(r, [chains[r] EXCEPT !.setsDay = day])
  /\ IF setsFile[day].saved = "none"
     THEN setsFile' = [setsFile EXCEPT ![day] = [saved |-> "whole", sets |-> published]]
     ELSE UNCHANGED setsFile
  /\ UNCHANGED <<day, upstream, published, recorded, files, stored, fresh, relisted,
                 imported, lost, faults>>

(* The worker dies while it writes the file.                                 *)
SaveIsCut(r) ==
  /\ RunAt(r, "sets") /\ setsFile[day].saved = "none"
  /\ faults < MaxFaults /\ faults' = faults + 1
  /\ setsFile' = [setsFile EXCEPT ![day] = [saved |-> "part", sets |-> published]]
  /\ UNCHANGED <<day, upstream, published, chains, recorded, files, stored, fresh,
                 relisted, imported, lost>>

(* insert_batch_sets: the sets are taken in the order of the file, and the   *)
(* parent of one is looked up among the rows that are there at its turn.     *)
Turn(s) == CHOOSE n \in DOMAIN Order : Order[n] = s
FindsParent(s, names) ==
  \/ stored[Parent[s]].in
  \/ Parent[s] \in names /\ Turn(Parent[s]) < Turn(s)

(* A plausible mistake: the code of the parent is taken for its row.         *)
InsertUnchecked(s, names) == [in |-> TRUE, link |-> Parent[s]]

InsertSet(s, names) ==
  [in |-> TRUE,
   link |-> IF Parent[s] # NoSet /\ FindsParent(s, names) THEN Parent[s] ELSE NoSet]

(* Rows are inserted or overwritten; a record that is rejected leaves its    *)
(* set as it was, and the loop goes on.                                      *)
InsertSets(names) == [s \in Sets |-> IF s \in names THEN InsertSet(s, names) ELSE stored[s]]

(* The file the step before has named; half a file does not parse.  The      *)
(* records the database rejects are counted and skipped.                     *)
ImportSets(r) ==
  /\ RunAt(r, "importSets") /\ setsFile[chains[r].setsDay].saved = "whole"
  /\ Goes(r, chains[r])
  /\ \E rejected \in SUBSET setsFile[chains[r].setsDay].sets :
       /\ IF rejected = {} THEN UNCHANGED faults ELSE faults < MaxFaults /\ faults' = faults + 1
       /\ relisted' = setsFile[chains[r].setsDay].sets \ rejected
  /\ stored' = InsertSets(relisted')
  /\ fresh' = {s \in Sets : stored'[s].in /\ ~stored[s].in}
  /\ UNCHANGED <<day, upstream, published, recorded, setsFile, files, imported, lost>>

-----------------------------------------------------------------------------
(* A plausible mistake: the items are filtered by a key they do not have.    *)
WantedNone(r) == FALSE

(* Of the changed items the ones whose external_type is all_cards.           *)
Wanted(r) == chains[r].todo # 0

DownloadCards(r) ==
  /\ RunAt(r, "cards")
  /\ IF Wanted(r)
     THEN files' = files \cup {r} /\ Goes(r, [chains[r] EXCEPT !.cardsDay = day])
     ELSE Goes(r, [chains[r] EXCEPT !.todo = 0]) /\ UNCHANGED files
  /\ UNCHANGED <<day, upstream, published, recorded, setsFile, stored, fresh, relisted,
                 imported, lost, faults>>

(* No file name, nothing to import; a file that is gone fails the step.      *)
ImportAllCards(r) ==
  /\ RunAt(r, "importCards")
  /\ chains[r].todo = 0 \/ r \in files
  /\ Goes(r, chains[r])
  /\ imported' = imported \cup ({chains[r].todo} \ {0})
  /\ UNCHANGED <<day, upstream, published, recorded, setsFile, files, stored, fresh,
                 relisted, lost, faults>>

(* The files sorted by the date in their name, newest first.                 *)
NewerThan(q, f) == chains[q].cardsDay > chains[f].cardsDay

KeptFiles == {f \in files : Cardinality({q \in files : NewerThan(q, f)}) < Keep}

(* Files of one date are in the order of the directory listing.              *)
Cleanup(r) ==
  /\ RunAt(r, "cleanup") /\ Goes(r, chains[r])
  /\ files' \in {S \in SUBSET KeptFiles :
       /\ Cardinality(S) = IF Cardinality(files) < Keep THEN Cardinality(files) ELSE Keep
       /\ \A f \in KeptFiles \ S, k \in S : ~NewerThan(f, k)}
  /\ UNCHANGED <<day, upstream, published, recorded, setsFile, stored, fresh, relisted,
                 imported, lost, faults>>

-----------------------------------------------------------------------------
(* A step fails after its retries, or cannot do what it has to: the chain    *)
(* stops and the run is failed.                                              *)
CannotGo(r) ==
  \/ RunAt(r, "importSets") /\ setsFile[chains[r].setsDay].saved # "whole"
  \/ RunAt(r, "importCards") /\ chains[r].todo # 0 /\ r \notin files

FailStep(r) ==
  /\ Active(r)
  /\ IF CannotGo(r) THEN UNCHANGED faults ELSE faults < MaxFaults /\ faults' = faults + 1
  /\ chains' = [chains EXCEPT ![r].at = "failed"]
  /\ lost' = lost \cup ({chains[r].todo} \ ({0} \cup imported))
  /\ UNCHANGED <<day, upstream, published, recorded, setsFile, files, stored, fresh,
                 relisted, imported>>

(* The step that has just committed is delivered again: what it returned the *)
(* first time is gone with the worker.                                       *)
Redeliver(r) ==
  /\ Active(r) /\ chains[r].at # "manifest" /\ faults < MaxFaults
  /\ faults' = faults + 1
  /\ chains' = [chains EXCEPT
       ![r].at = CHOOSE at \in Range(Steps) : at # "done" /\ Following(at) = chains[r].at,
       ![r].todo = IF RunAt(r, "sets") THEN 0 ELSE @]
  /\ lost' = IF RunAt(r, "sets") THEN lost \cup ({chains[r].todo} \ {0}) ELSE lost
  /\ UNCHANGED <<day, upstream, published, recorded, setsFile, files, stored, fresh,
                 relisted, imported>>

ScryfallNext ==
  \/ Publish \/ NextDay
  \/ \E r \in Chains :
       \/ StartChain(r) \/ ReadManifest(r) \/ Record(r) \/ SaveSets(r) \/ SaveIsCut(r)
       \/ ImportSets(r) \/ DownloadCards(r) \/ ImportAllCards(r)
       \/ Cleanup(r) \/ FailStep(r) \/ Redeliver(r)

ScryfallSpec == ScryfallInit /\ [][ScryfallNext]_scryfallVars

-----------------------------------------------------------------------------
(* A version that is recorded, and so never named as changed again, has been *)
(* imported or is carried by a run, unless a fault took it from its run.     *)
EveryVersionIsCarried ==
  \A v \in recorded \ (imported \cup lost) : \E r \in Chains : Active(r) /\ chains[r].todo = v

(* A set listed again is linked to its parent if the parent was stored       *)
(* before: "the next ... pass will backfill them idempotently".              *)
ParentsAreLinked ==
  \A s \in relisted : Parent[s] # NoSet /\ stored[Parent[s]].in /\ Parent[s] \notin fresh
                    => stored[s].link = Parent[s]

(* A cards file leaves the disk only when Keep others are as new: a run that *)
(* is slow to import its file finds it there.                                *)
FilesGoOldestFirst ==
  \A r \in Chains : chains[r].cardsDay # 0 /\ r \notin files =>
    Cardinality({q \in Chains \ {r} : chains[q].cardsDay >= chains[r].cardsDay}) >= Keep

(* A version that is recorded is imported or carried, unless a fault took it; *)
(* cards files go oldest first; a set listed again is linked to a parent that *)
(* was stored before.                                                         *)
VersionsAreCarried == EveryVersionIsCarried /\ FilesGoOldestFirst /\ ParentsAreLinked
=============================================================================
