----------------------------- MODULE CrawlRuns -----------------------------
(***************************************************************************)
(* Crawling every domain: CrawlDomainsWorkflow runs one child crawl per    *)
(* host, in batches; the children store documents and publish their site   *)
(* events; the parent publishes for a child that was killed, sums the      *)
(* results up and keeps the run's manifest, an object in S3 updated by     *)
(* compare-and-swap from activities that may outlive their timeout.        *)
(*                                                                         *)
(* A child is its pages and its end here; CrawlWorkflow has its frontier.  *)
(***************************************************************************)
EXTENDS Integers, Sequences, FiniteSets, Functions

CONSTANTS
  Host,
  Seeds,             \* sequence of [host, priority]
  MaxConcurrentDomains, DomainBatchSize, DomainsPerRun,
  MaxPages,          \* bound: pages of a domain
  MaxCASRetry,       \* maxCASRetry of the recorder
  MaximumAttempts,   \* of a recorder's activity
  MaxFaults          \* bound: lost requests, timeouts, killed workflows

ASSUME DomainsAssumption ==
  /\ IsFiniteSet(Host)
  /\ Seeds \in Seq([host : Host, priority : Int])
  /\ {MaxConcurrentDomains, DomainBatchSize, DomainsPerRun, MaxCASRetry,
      MaximumAttempts} \subseteq Nat \ {0}
  /\ {MaxPages, MaxFaults} \subseteq Nat

\* groupSeedsByHost: a host ranks by its best seed, then by its first one.
SeedsOf(h) == {i \in DOMAIN Seeds : Seeds[i].host = h}
SeededHosts == {h \in Host : SeedsOf(h) # {}}
Outranks(i, h) == \A j \in SeedsOf(h) : Seeds[i].priority > Seeds[j].priority
Precedes(g, h) ==
  \/ \E i \in SeedsOf(g) : Outranks(i, h)
  \/ /\ ~ \E j \in SeedsOf(h) : Outranks(j, g)
     /\ \E i \in SeedsOf(g) : \A j \in SeedsOf(h) : i < j
Groups == [n \in 1 .. Cardinality(SeededHosts) |->
             CHOOSE h \in SeededHosts :
               Cardinality({g \in SeededHosts : Precedes(g, h)}) = n - 1]

Concurrent ==
  IF MaxConcurrentDomains > DomainBatchSize THEN DomainBatchSize ELSE MaxConcurrentDomains

VARIABLES
  parent,      \* what CrawlDomainsWorkflow does next
  cursor, startedThisRun, startedInBatch,
  active,      \* hosts whose child it waits for
  total,       \* stats.Fetched of the completed children
  domains,     \* DomainsStats
  runID,       \* 0: the run could not be recorded
  child, pages,
  writing,     \* hosts with a document write in flight
  docs,        \* documents in the bucket
  announced,   \* outcome told by the host's site event
  manifest,    \* the run's manifest object, with its ETag
  rec,         \* the recorder activity in progress
  late,        \* PUTs of attempts that were given up
  batch, batchOf,  \* batches started, and the one of each host; for a property
  faults

crawl == <<child, pages, writing, docs, announced>>
control == <<cursor, startedThisRun, startedInBatch, active, total, domains, batch, batchOf>>
record == <<runID, manifest, rec, late>>
vars == <<parent, cursor, startedThisRun, startedInBatch, active, total, domains, runID,
          child, pages, writing, docs, announced, manifest, rec, late, batch, batchOf, faults>>

Terminal == {"completed", "failed"}
Content == [status : {"none", "running"} \cup Terminal, fetched : Nat]
NoRecord == [op |-> "none", step |-> "idle", seen |-> 0, tries |-> 0, attempt |-> 0,
             content |-> [status |-> "none", fetched |-> 0]]

TypeOK ==
  /\ parent \in {"starting", "filling", "waiting", "handingOver", "finishing", "ended", "killed"}
  /\ cursor \in 0 .. Len(Groups) /\ startedThisRun \in 0 .. DomainsPerRun
  /\ startedInBatch \in 0 .. DomainBatchSize
  /\ active \subseteq Host /\ Cardinality(active) <= Concurrent
  /\ total \in Nat
  /\ domains \in [{"started", "completed", "failed"} -> Nat]
  /\ domains["started"] = domains["completed"] + domains["failed"] + Cardinality(active)
  /\ runID \in {0, 1}
  /\ child \in [Host -> {"none", "running", "killed"} \cup Terminal]
  /\ pages \in [Host -> 0 .. MaxPages] /\ writing \subseteq Host /\ docs \in [Host -> Nat]
  /\ announced \in [Host -> {"none", "lost"} \cup Terminal]
  /\ manifest \in [etag : Nat, content : Content]
  /\ rec \in [op : {"none", "start", "update", "finish"}, step : {"idle", "get", "put"},
              seen : Nat, tries : 0 .. MaxCASRetry, attempt : 0 .. MaximumAttempts,
              content : Content]
  /\ late \subseteq [seen : Nat, content : Content]
  /\ faults \in 0 .. MaxFaults

Activity(op, content) ==
  [op |-> op, step |-> IF op = "start" THEN "put" ELSE "get", seen |-> 0, tries |-> 0,
   attempt |-> 1, content |-> content]

Running(n) == [status |-> "running", fetched |-> n]

Init ==
  /\ parent = "starting"
  /\ cursor = 0 /\ startedThisRun = 0 /\ startedInBatch = 0 /\ active = {}
  /\ total = 0 /\ domains = [d \in {"started", "completed", "failed"} |-> 0]
  /\ runID = 0
  /\ child = [h \in Host |-> "none"] /\ pages = [h \in Host |-> 0]
  /\ writing = {} /\ docs = [h \in Host |-> 0] /\ announced = [h \in Host |-> "none"]
  /\ manifest = [etag |-> 0, content |-> [status |-> "none", fetched |-> 0]]
  /\ rec = Activity("start", Running(0))
  /\ late = {} /\ batch = 1 /\ batchOf = [h \in Host |-> 0] /\ faults = 0

Fault == faults < MaxFaults /\ faults' = faults + 1

-----------------------------------------------------------------------------
(* Child crawls *)

ChildOpen(h) == child[h] = "running" /\ h \notin writing

\* A page is fetched; it is stored, or it failed, was skipped, ...
ChildPage(h) ==
  /\ ChildOpen(h) /\ pages[h] < MaxPages
  /\ pages' = [pages EXCEPT ![h] = @ + 1]
  /\ writing' \in {writing, writing \cup {h}}
  /\ UNCHANGED <<parent, control, record, child, docs, announced, faults>>

\* The write outlives the workflow that asked for it.
WriteLands(h) ==
  /\ h \in writing /\ writing' = writing \ {h}
  /\ docs' = [docs EXCEPT ![h] = @ + 1]
  /\ UNCHANGED <<parent, control, record, child, pages, announced, faults>>

WriteFails(h) ==
  /\ h \in writing /\ Fault /\ writing' = writing \ {h}
  /\ UNCHANGED <<parent, control, record, child, pages, docs, announced>>

\* The deferred publish of CrawlWorkflow; "lost" after an hour of failures.
Publish(h, status) ==
  \/ announced' = [announced EXCEPT ![h] = status] /\ UNCHANGED faults
  \/ announced' = [announced EXCEPT ![h] = "lost"] /\ Fault

\* Failed: every page of the crawl failed.
ChildEnds(h) ==
  /\ ChildOpen(h) /\ \E status \in Terminal :
       /\ status = "failed" => docs[h] = 0 /\ pages[h] > 0
       /\ child' = [child EXCEPT ![h] = status]
       /\ IF pages[h] > 0 THEN Publish(h, status) ELSE UNCHANGED <<announced, faults>>
  /\ UNCHANGED <<parent, control, record, pages, writing, docs>>

\* Terminated or timed out: its deferred end never runs.
KillChild(h) ==
  /\ child[h] = "running" /\ Fault /\ child' = [child EXCEPT ![h] = "killed"]
  /\ UNCHANGED <<parent, control, record, pages, writing, docs, announced>>

-----------------------------------------------------------------------------
(* The parent workflow *)

Idle == rec.op = "none"

\* Mutant: one domain too many in a run.
CanStartOneMore ==
  /\ Cardinality(active) < Concurrent /\ startedInBatch < DomainBatchSize
  /\ cursor < Len(Groups) /\ startedThisRun <= DomainsPerRun

CanStart ==
  /\ Cardinality(active) < Concurrent /\ startedInBatch < DomainBatchSize
  /\ cursor < Len(Groups) /\ startedThisRun < DomainsPerRun

StartChild ==
  /\ parent = "filling" /\ Idle /\ CanStart
  /\ LET h == Groups[cursor + 1]
     IN /\ active' = active \cup {h}
        /\ child' = [child EXCEPT ![h] = "running"]
        /\ batchOf' = [batchOf EXCEPT ![h] = batch]
  /\ cursor' = cursor + 1
  /\ startedThisRun' = startedThisRun + 1 /\ startedInBatch' = startedInBatch + 1
  /\ domains' = [domains EXCEPT !["started"] = @ + 1]
  /\ UNCHANGED <<parent, total, batch, record, pages, writing, docs, announced, faults>>

Wait ==
  /\ parent = "filling" /\ Idle /\ ~CanStart /\ active # {}
  /\ parent' = "waiting"
  /\ UNCHANGED <<control, record, crawl, faults>>

\* Mutant: nobody speaks for a killed child.
ChildDoneSilently(h) ==
  /\ parent = "waiting" /\ h \in active /\ child[h] \in Terminal \cup {"killed"}
  /\ active' = active \ {h}
  /\ IF child[h] = "completed"
       THEN /\ domains' = [domains EXCEPT !["completed"] = @ + 1]
            /\ total' = total + pages[h]
       ELSE /\ domains' = [domains EXCEPT !["failed"] = @ + 1]
            /\ UNCHANGED total
  /\ parent' = "filling"
  /\ UNCHANGED <<cursor, startedThisRun, startedInBatch, batch, batchOf, record, child, pages,
                 writing, docs, announced, faults>>

\* The result of a child; the parent speaks for one that was killed.
ChildDone(h) ==
  /\ parent = "waiting" /\ h \in active /\ child[h] \in Terminal \cup {"killed"}
  /\ active' = active \ {h}
  /\ IF child[h] = "completed"
       THEN /\ domains' = [domains EXCEPT !["completed"] = @ + 1]
            /\ total' = total + pages[h]
       ELSE /\ domains' = [domains EXCEPT !["failed"] = @ + 1]
            /\ UNCHANGED total
  /\ IF child[h] = "killed" THEN Publish(h, "failed") ELSE UNCHANGED <<announced, faults>>
  /\ parent' = "filling"
  /\ UNCHANGED <<cursor, startedThisRun, startedInBatch, batch, batchOf, record, child, pages,
                 writing, docs>>

NextBatch ==
  /\ parent = "filling" /\ Idle /\ ~CanStart /\ active = {} /\ startedInBatch > 0
  /\ startedInBatch' = 0 /\ batch' = batch + 1
  /\ UNCHANGED <<parent, cursor, startedThisRun, active, total, domains, batchOf, record,
                 crawl, faults>>

\* The deferred end: progress before continuing as new, else the final status.
\* No child's failure is an error of this workflow.
LoopEnds ==
  /\ parent = "filling" /\ Idle /\ ~CanStart /\ active = {} /\ startedInBatch = 0
  /\ LET more == cursor < Len(Groups)
     IN /\ parent' = IF more THEN "handingOver" ELSE "finishing"
        /\ rec' = IF runID = 0 THEN NoRecord
                  ELSE IF more THEN Activity("update", Running(total))
                  ELSE Activity("finish", [status |-> "completed", fetched |-> total])
  /\ UNCHANGED <<control, runID, manifest, late, crawl, faults>>

ContinueAsNew ==
  /\ parent = "handingOver" /\ Idle
  /\ parent' = "filling" /\ startedThisRun' = 0
  /\ UNCHANGED <<cursor, startedInBatch, active, total, domains, batch, batchOf, record, crawl,
                 faults>>

End ==
  /\ parent = "finishing" /\ Idle /\ parent' = "ended"
  /\ UNCHANGED <<control, record, crawl, faults>>

\* Terminated: its children are terminated with it.
KillParent ==
  /\ parent \notin {"ended", "killed"} /\ Fault
  /\ parent' = "killed"
  /\ child' = [h \in Host |-> IF child[h] = "running" THEN "killed" ELSE child[h]]
  /\ late' = IF rec.step = "put" /\ rec.op # "start"
               THEN late \cup {[seen |-> rec.seen, content |-> rec.content]} ELSE late
  /\ rec' = NoRecord
  /\ UNCHANGED <<control, runID, manifest, pages, writing, docs, announced>>

-----------------------------------------------------------------------------
(* The run recorder: StartRun, UpdateRunStats, FinishRun *)

\* The next attempt of the activity, or the error its caller only logs.
AttemptFails ==
  IF rec.attempt = MaximumAttempts
    THEN NoRecord
    ELSE [Activity(rec.op, rec.content) EXCEPT !.attempt = rec.attempt + 1]

\* Read-modify-write: the next try of the loop in updateManifest.
TryAgain ==
  IF rec.tries + 1 = MaxCASRetry
    THEN AttemptFails
    ELSE [rec EXCEPT !.tries = @ + 1, !.step = "get"]

\* An update sets the counts, a finish the status as well.
Merged(old) ==
  IF rec.op = "update" THEN [old EXCEPT !.fetched = rec.content.fetched] ELSE rec.content

\* The parent's activity goes on while the parent waits for it.
GetManifest ==
  /\ rec.step = "get"
  /\ \/ /\ rec' = [rec EXCEPT !.step = "put", !.seen = manifest.etag,
                              !.content = Merged(manifest.content)]
        /\ UNCHANGED faults
     \/ Fault /\ rec' = AttemptFails
  /\ UNCHANGED <<parent, control, runID, manifest, late, crawl>>

\* A new key, so the PUT if-none-match meets no other run; when its answer is lost
\* the object stays behind as a run nobody knows.
CreateManifest ==
  /\ rec.op = "start"
  /\ \/ /\ runID' = 1 /\ manifest' = [etag |-> 1, content |-> rec.content]
        /\ rec' = NoRecord /\ parent' = "filling" /\ UNCHANGED faults
     \/ /\ Fault /\ rec' = AttemptFails /\ UNCHANGED <<runID, manifest>>
        /\ parent' = IF AttemptFails = NoRecord THEN "filling" ELSE parent
  /\ UNCHANGED <<control, late, crawl>>

\* Mutant: the PUT is unconditional.
MatchesAlways(etag) == etag \in Nat

Matches(etag) == manifest.etag = etag

Put(put) == manifest' = [etag |-> manifest.etag + 1, content |-> put.content]

PutManifest ==
  /\ rec.step = "put" /\ rec.op # "start"
  /\ \/ Matches(rec.seen) /\ Put(rec) /\ rec' = NoRecord /\ UNCHANGED faults
     \/ Matches(rec.seen) /\ Put(rec) /\ rec' = TryAgain /\ Fault
     \/ ~Matches(rec.seen) /\ rec' = TryAgain /\ UNCHANGED <<manifest, faults>>
  /\ UNCHANGED <<parent, control, runID, late, crawl>>

\* The activity times out with its PUT on the way.
PutTimesOut ==
  /\ rec.step = "put" /\ rec.op # "start" /\ Fault
  /\ late' = late \cup {[seen |-> rec.seen, content |-> rec.content]}
  /\ rec' = AttemptFails
  /\ UNCHANGED <<parent, control, runID, manifest, crawl>>

LatePut(put) ==
  /\ put \in late /\ late' = late \ {put}
  /\ IF Matches(put.seen) THEN Put(put) ELSE UNCHANGED manifest
  /\ UNCHANGED <<parent, control, runID, rec, crawl, faults>>

-----------------------------------------------------------------------------
Child(h) == ChildPage(h) \/ WriteLands(h) \/ ChildEnds(h)
Parent ==
  \/ StartChild \/ Wait \/ NextBatch \/ LoopEnds \/ ContinueAsNew \/ End
  \/ \E h \in Host : ChildDone(h)
Recorder == GetManifest \/ CreateManifest \/ PutManifest
Failures ==
  \/ KillParent \/ PutTimesOut
  \/ \E h \in Host : KillChild(h) \/ WriteFails(h)

\* Nothing goes on after the end but what is still in flight.
Over == parent \in {"ended", "killed"} /\ UNCHANGED vars

Next ==
  \/ Parent \/ Recorder \/ Failures \/ Over
  \/ \E h \in Host : Child(h)
  \/ \E put \in late : LatePut(put)

Spec ==
  /\ Init /\ [][Next]_vars
  /\ WF_vars(Parent) /\ WF_vars(Recorder)
  /\ \A h \in Host : WF_vars(Child(h))

-----------------------------------------------------------------------------
(* Properties *)

Ended(h) == child[h] \in Terminal \cup {"killed"}
Told(h) == pages[h] > 0 => announced[h] # "none"

\* A batch is crawled to the end, and its site events are published, before the
\* next batch starts, so the ETL receives events in groups of this size.
BatchesInTurn ==
  \A g, h \in Host :
    0 < batchOf[g] /\ batchOf[g] < batchOf[h] => Ended(g) /\ Told(g)

\* A site's event is published after every page of it is in the bucket: none is
\* stored later.  (A child that was killed is excepted: its last write may be in
\* flight when the parent speaks for it.)
PagesBeforeEvent ==
  [][\A h \in Host : announced[h] \in Terminal /\ child[h] # "killed" =>
       docs'[h] = docs[h]]_vars

\* The summary other teams check before they consume a run: once the manifest
\* says finished it never changes again, whatever attempt of an earlier update
\* still has a PUT on the way.
FinalStands ==
  [][manifest.content.status \in Terminal => manifest'.content = manifest.content]_vars

\* A finished run's summary counts exactly the pages of the domains that
\* completed, through all its segments.
SummaryIsTrue ==
  parent = "ended" /\ manifest.content.status \in Terminal =>
    /\ manifest.content.fetched = SumFunctionOnSet(pages, {h \in Host : child[h] = "completed"})
    /\ domains["started"] = Len(Groups)

\* What a run keeps in order, its batches, its events and its manifest.
RunIsOrdered == []BatchesInTurn /\ []SummaryIsTrue /\ PagesBeforeEvent /\ FinalStands

\* A site with documents gets its event, be its crawl killed, unless the whole
\* run is.
SitesAreAnnounced ==
  \A h \in Host : docs[h] > 0 ~> announced[h] # "none" \/ parent = "killed"

\* A run all of whose domains failed is a failed run, as one all of whose pages
\* failed is.  (False: a child's failure is counted, never returned.)
AllFailedIsFailed ==
  parent = "ended" /\ domains["failed"] = Len(Groups) =>
    manifest.content.status # "completed"
=============================================================================
