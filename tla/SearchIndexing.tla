--------------------------- MODULE SearchIndexing ---------------------------
(***************************************************************************)
(* The queue between PostgreSQL Silver and OpenSearch: pages are saved by  *)
(* the ETL (which re-queues them), claimed in batches by the indexer       *)
(* processes, bulk-indexed under _id = pages.id, and marked.               *)
(*                                                                         *)
(* Silver itself is the environment here: of a save only what the queue    *)
(* sees is kept (the row changes, goes back to UNPROCESSED and is or is    *)
(* not folded into another page); module Silver has the detail.            *)
(***************************************************************************)
EXTENDS Integers, FiniteSets, FiniteSetsExt

CONSTANTS
  Page,          \* pages.id values; never reused, they come from a sequence
  Indexer,       \* search-indexer processes
  BatchSize,     \* INDEXER_BATCH_SIZE
  MaxSaves,      \* bound: save_page calls in a behaviour
  MaxFaults      \* bound: indexer crashes and OpenSearch outages

ASSUME BatchAssumption == BatchSize \in Nat \ {0}
ASSUME BoundsAssumption == MaxSaves \in Nat /\ MaxFaults \in Nat

VARIABLES
  status,    \* pages.processing_status, NoRow when there is no such row
  version,   \* which save the row's content comes from, 0 before the first
  folded,    \* pages.duplicate_of_id is not NULL
  indexed,   \* version of the document OpenSearch holds under this _id, 0 if none
  phase,     \* where each indexer is in run_once
  batch,     \* page_ids of the round
  docs,      \* the documents read with the claim, as versions
  todo,      \* documents whose bulk answer is still out
  rejected,  \* documents OpenSearch rejected
  late,      \* abandoned requests OpenSearch may still apply
  raced,     \* pages some race has touched (see below), kept for the properties
  saves,     \* save_page calls so far
  faults     \* crashes and outages so far

pageVars == <<status, version, folded>>
roundVars == <<phase, batch, docs, todo, rejected>>
bounds == <<saves, faults>>
vars == <<status, version, folded, indexed, phase, batch, docs, todo, rejected,
          late, raced, saves, faults>>

NoRow == "no row"
ProcessingStatus == {"UNPROCESSED", "PROCESSING", "PROCESSED", "FAILED"}
Version == 0 .. MaxSaves

Exists(p) == status[p] # NoRow

\* What search_documents shows: the page is there and not folded.
Canonical(p) == Exists(p) /\ ~folded[p]

\* An indexer process has the page in the batch it is working on.
Held(p) == \E i \in Indexer : p \in batch[i]

TypeOK ==
  /\ status \in [Page -> ProcessingStatus \cup {NoRow}]
  /\ version \in [Page -> Version]
  /\ folded \in [Page -> BOOLEAN]
  /\ indexed \in [Page -> Version]
  /\ phase \in [Indexer -> {"idle", "bulk", "release"}]
  /\ batch \in [Indexer -> SUBSET Page]
  /\ docs \in [Indexer -> [Page -> Version]]
  /\ todo \in [Indexer -> SUBSET Page]
  /\ rejected \in [Indexer -> SUBSET Page]
  /\ late \subseteq Page \X Version
  /\ raced \subseteq Page
  /\ saves \in Version
  /\ faults \in 0 .. MaxFaults

Init ==
  /\ status = [p \in Page |-> NoRow]
  /\ version = [p \in Page |-> 0]
  /\ folded = [p \in Page |-> FALSE]
  /\ indexed = [p \in Page |-> 0]
  /\ phase = [i \in Indexer |-> "idle"]
  /\ batch = [i \in Indexer |-> {}]
  /\ docs = [i \in Indexer |-> [p \in Page |-> 0]]
  /\ todo = [i \in Indexer |-> {}]
  /\ rejected = [i \in Indexer |-> {}]
  /\ late = {}
  /\ raced = {}
  /\ saves = 0
  /\ faults = 0

-----------------------------------------------------------------------------
(* Silver, as the queue sees it.                                           *)
(*                                                                         *)
(* Three races are told apart by raced, which no guard reads: a page is    *)
(* saved while an indexer holds an older copy, its claim is released while *)
(* the holder is only slow, or OpenSearch may still apply a request whose  *)
(* client has given up.                                                    *)

\* save_page accepted the row: new content, re-queued, folded or not.
Save(p, dup) ==
  /\ saves < MaxSaves
  /\ Exists(p) \/ version[p] = 0
  /\ version' = [version EXCEPT ![p] = @ + 1]
  /\ status' = [status EXCEPT ![p] = "UNPROCESSED"]
  /\ folded' = [folded EXCEPT ![p] = dup]
  /\ saves' = saves + 1
  /\ raced' = IF Held(p) THEN raced \cup {p} ELSE raced
  /\ UNCHANGED <<indexed, roundVars, late, faults>>

\* save_page refused an older source row; the fold is still redone.
Refold(p) ==
  /\ saves < MaxSaves
  /\ Exists(p)
  /\ folded' = [folded EXCEPT ![p] = ~@]
  /\ saves' = saves + 1
  /\ UNCHANGED <<status, version, indexed, roundVars, late, raced, faults>>

\* Mutant of Quarantine: the page is marked like its Bronze row instead of deleted.
QuarantineByStatus(p, freed) ==
  /\ Exists(p)
  /\ \A q \in freed : folded[q]
  /\ status' = [status EXCEPT ![p] = "QUARANTINED"]
  /\ UNCHANGED <<version, folded, indexed, roundVars, late, raced, bounds>>

\* quarantine deletes the page; pages folded into it (here: any set of folded
\* ones) become canonical again, ON DELETE SET NULL.
Quarantine(p, freed) ==
  /\ Exists(p)
  /\ \A q \in freed : folded[q]
  /\ status' = [status EXCEPT ![p] = NoRow]
  /\ folded' = [q \in Page |-> folded[q] /\ q # p /\ q \notin freed]
  /\ UNCHANGED <<version, indexed, roundVars, late, raced, bounds>>

-----------------------------------------------------------------------------
(* The indexer.                                                            *)

Claimable == {p \in Page : status[p] = "UNPROCESSED" /\ ~folded[p]}

\* run_once ends or is abandoned: the batch was a local variable.
Forget(i) ==
  /\ phase' = [phase EXCEPT ![i] = "idle"]
  /\ batch' = [batch EXCEPT ![i] = {}]
  /\ docs' = [docs EXCEPT ![i] = [p \in Page |-> 0]]
  /\ todo' = [todo EXCEPT ![i] = {}]
  /\ rejected' = [rejected EXCEPT ![i] = {}]

\* Mutant of Claim: the rows are read FOR UPDATE, but not marked before the commit.
ClaimUnmarked(i, ids) ==
  /\ phase[i] = "idle"
  /\ ids # {} /\ ids \subseteq Claimable
  /\ phase' = [phase EXCEPT ![i] = "bulk"]
  /\ batch' = [batch EXCEPT ![i] = ids]
  /\ docs' = [docs EXCEPT ![i] = [p \in Page |-> IF p \in ids THEN version[p] ELSE 0]]
  /\ todo' = [todo EXCEPT ![i] = ids]
  /\ UNCHANGED <<pageVars, indexed, rejected, late, raced, bounds>>

\* claim_for_indexing and its commit: rows and documents in one transaction.
Claim(i, ids) ==
  /\ phase[i] = "idle"
  /\ ids # {} /\ ids \subseteq Claimable
  /\ status' = [p \in Page |-> IF p \in ids THEN "PROCESSING" ELSE status[p]]
  /\ phase' = [phase EXCEPT ![i] = "bulk"]
  /\ batch' = [batch EXCEPT ![i] = ids]
  /\ docs' = [docs EXCEPT ![i] = [p \in Page |-> IF p \in ids THEN version[p] ELSE 0]]
  /\ todo' = [todo EXCEPT ![i] = ids]
  /\ UNCHANGED <<version, folded, indexed, rejected, late, raced, bounds>>

\* One item of the bulk request is applied: the document is overwritten.
Index(i, p) ==
  /\ phase[i] = "bulk"
  /\ p \in todo[i]
  /\ indexed' = [indexed EXCEPT ![p] = docs[i][p]]
  /\ todo' = [todo EXCEPT ![i] = @ \ {p}]
  /\ UNCHANGED <<pageVars, phase, batch, docs, rejected, late, raced, bounds>>

\* One item of the bulk request is refused (mapping error, 429 past retries).
Reject(i, p) ==
  /\ phase[i] = "bulk"
  /\ p \in todo[i]
  /\ todo' = [todo EXCEPT ![i] = @ \ {p}]
  /\ rejected' = [rejected EXCEPT ![i] = @ \cup {p}]
  /\ UNCHANGED <<pageVars, indexed, phase, batch, docs, late, raced, bounds>>

\* Requests given up on reach OpenSearch later, or never.
Abandon(i) ==
  \E sent \in SUBSET todo[i] :
    /\ late' = late \cup {<<p, docs[i][p]>> : p \in sent}
    /\ raced' = raced \cup sent

\* helpers.bulk raises a connection error, a timeout or a transport error;
\* some items may have been applied.
Unreachable(i) ==
  /\ phase[i] = "bulk"
  /\ faults < MaxFaults
  /\ Abandon(i)
  /\ phase' = [phase EXCEPT ![i] = "release"]
  /\ todo' = [todo EXCEPT ![i] = {}]
  /\ faults' = faults + 1
  /\ UNCHANGED <<pageVars, indexed, batch, docs, rejected, saves>>

\* _release: the batch goes back, unless something else moved a row on.
Release(i) ==
  /\ phase[i] = "release"
  /\ status' = [p \in Page |-> IF p \in batch[i] /\ status[p] = "PROCESSING"
                               THEN "UNPROCESSED" ELSE status[p]]
  /\ Forget(i)
  /\ UNCHANGED <<version, folded, indexed, late, raced, bounds>>

\* Mutant of MarkedStatus: the errors in the bulk answer are not looked at.
MarkedProcessed(i, p) ==
  IF p \notin batch[i] \/ ~Exists(p) THEN status[p] ELSE "PROCESSED"

\* _mark: every page of the batch that still exists, whatever its status.
MarkedStatus(i, p) ==
  IF p \notin batch[i] \/ ~Exists(p) THEN status[p]
  ELSE IF p \in rejected[i] THEN "FAILED" ELSE "PROCESSED"

Mark(i) ==
  /\ phase[i] = "bulk"
  /\ todo[i] = {}
  /\ status' = [p \in Page |-> MarkedStatus(i, p)]
  /\ Forget(i)
  /\ UNCHANGED <<version, folded, indexed, late, raced, bounds>>

\* The process is killed, or PostgreSQL fails while it marks or releases: the
\* rows stay PROCESSING and the batch is forgotten.
Crash(i) ==
  /\ phase[i] # "idle"
  /\ faults < MaxFaults
  /\ Abandon(i)
  /\ Forget(i)
  /\ faults' = faults + 1
  /\ UNCHANGED <<pageVars, indexed, saves>>

LateWrite(p, v) ==
  /\ <<p, v>> \in late
  /\ indexed' = [indexed EXCEPT ![p] = v]
  /\ late' = late \ {<<p, v>>}
  /\ UNCHANGED <<pageVars, roundVars, raced, bounds>>

\* Mutant of Stale: the wrong status is looked for.
StaleFailed == {p \in Page : status[p] = "FAILED"}

\* Rows whose claim can be older than the window; no batch is surely faster.
Stale == {p \in Page : status[p] = "PROCESSING"}

\* release_stale_indexing, by an indexer between rounds or the scheduled job.
ReleaseStale(ids) ==
  /\ ids # {} /\ ids \subseteq Stale
  /\ status' = [p \in Page |-> IF p \in ids THEN "UNPROCESSED" ELSE status[p]]
  /\ raced' = raced \cup {p \in ids : Held(p)}
  /\ UNCHANGED <<version, folded, indexed, roundVars, late, bounds>>

-----------------------------------------------------------------------------
\* A batch is as large as the queue and the limit allow; which pages it holds
\* depends on the age of the rows and on the locks SKIP LOCKED passes over.
ClaimBatch(i) ==
  LET size == Cardinality(Claimable)
  IN \E ids \in kSubset(IF size < BatchSize THEN size ELSE BatchSize, Claimable) :
       Claim(i, ids)

Silver ==
  \/ \E p \in Page, dup \in BOOLEAN : Save(p, dup)
  \/ \E p \in Page : Refold(p)
  \/ \E p \in Page, freed \in SUBSET Page : Quarantine(p, freed)

Work(i) ==
  \/ ClaimBatch(i)
  \/ \E p \in Page : Index(i, p) \/ Reject(i, p)
  \/ Mark(i)
  \/ Release(i)

RunOnce(i) == Work(i) \/ Unreachable(i) \/ Crash(i)

OpenSearch == \E p \in Page, v \in Version : LateWrite(p, v)

Recovery == \E ids \in SUBSET Page : ReleaseStale(ids)

Next ==
  \/ Silver
  \/ \E i \in Indexer : RunOnce(i)
  \/ OpenSearch
  \/ Recovery

Spec == Init /\ [][Next]_vars

\* run_forever never stops of its own accord and releases stale rows every
\* minute; nothing obliges the ETL to save or OpenSearch to fail.
FairSpec ==
  /\ Spec
  /\ \A i \in Indexer : WF_vars(Work(i))
  /\ WF_vars(Recovery)
-----------------------------------------------------------------------------
(* Properties.                                                             *)

\* A page marked PROCESSED can be found: whatever was saved, crashed, timed out
\* or rejected meanwhile, OpenSearch holds some document for it, so no page
\* leaves the queue as done without one (indexer.py, run_once and _mark).
ProcessedIsSearchable ==
  \A p \in Page : status[p] = "PROCESSED" => indexed[p] # 0

\* OpenSearch is a copy of Silver (indexer.py:5-6): the document of a canonical
\* page that is done is the row's latest save.
CopyOfSilver ==
  \A p \in Page : status[p] = "PROCESSED" /\ ~folded[p] => indexed[p] = version[p]

\* The three races are all that can break the copy: not crashes, outages, rejections,
\* deletions or folds, nor a release of a dead indexer's claim.
CopyUnlessRaced ==
  \A p \in Page \ raced :
    status[p] = "PROCESSED" /\ ~folded[p] => indexed[p] = version[p]

\* What a search finds of a page that is done.
SearchIsTrue == ProcessedIsSearchable /\ CopyUnlessRaced

\* Parallel indexers never take the same page (search.py:147-148), not even after
\* a release or a crash put it back in the queue, unless it raced.
OneHolder ==
  \A i, j \in Indexer : i # j => batch[i] \cap batch[j] \subseteq raced

\* What makes it so: a page being indexed is still marked as claimed.
HeldIsClaimed ==
  \A i \in Indexer : \A p \in batch[i] \ raced : Exists(p) => status[p] = "PROCESSING"

\* Indexing a page twice is harmless (indexer.py:11-12): the document is never
\* replaced by one read from an older save.  (False: see the README.)
NeverBackwards == [][\A p \in Page : indexed'[p] >= indexed[p]]_vars

\* quarantine() deletes the page "so search never links to the file"
\* (silver.py:1043-1046): a deleted page has no document.  (False: see the README.)
DeletedNotSearchable ==
  \A p \in Page : ~Exists(p) => indexed[p] = 0

\* The queue drains: every canonical page is finally indexed or FAILED, though
\* indexers crash with claimed batches and OpenSearch is away for a while.
QueueDrains ==
  <>[](\A p \in Page : Canonical(p) => status[p] \in {"PROCESSED", "FAILED"})

=============================================================================
