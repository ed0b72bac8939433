# TLA+ specifications of the PGS search engine

A crawler (Go, Temporal) fetches Nepali government sites and hands pages to an
ETL (Python; Kafka, Airflow, Temporal), which scans, transforms and saves them
to PostgreSQL (Bronze and Silver).  An indexer copies Silver to OpenSearch, a
search service answers queries from there, and an API gateway serves the UI.
The parts share state through S3 objects, Kafka topics, PostgreSQL rows and
OpenSearch documents, never through memory, and almost every link is
"at least once": the specifications here are about what that does to the data.

Paths below are relative to `src/`.

## Contents

| Module | Models | Run | Proofs |
|---|---|---|---|
| `CrawlWorkflow` with `SitemapWalk` (`MCCrawl`) | one crawl: frontier, budgets, discovery, Continue-As-New | `Crawl` | `CrawlWorkflowProofs` |
| `CrawlRuns` (`MCRuns`) | all domains: child crawls in batches, site events, the run's manifest | `CrawlRuns` | `CrawlRunsProofs` |
| `PoliteFetch` with `RobotsAnswers`, `RobotsRules` (`MCFetch`, `MCRobots`) | robots.txt cache and start times of requests | `Fetch` | `SitePagesProofs` |
| `SitePages` (`MCSite`) | the pages of a site from the fetch to the ETL's marker | `SitePages` | `SitePagesProofs` |
| `EtlBatch`, which implements `SiteSignals` | Kafka offsets, the DAG, the batch workflow and its activities | `EtlBatch` | `EtlBatchProofs` |
| `Bronze` | ingest of a run and the Bronze work queue | `Bronze` | `BronzeProofs` |
| `Silver` (`MCSilver`) | the transactions that save pages to Bronze and Silver | `SilverSaves` | `SilverProofs` |
| `PageParts` with `PartRows` (`MCParts`) | the child rows of a page, written by saves and jobs | `Parts` | `EtlBatchProofs` |
| `SearchIndexing` | the queue between Silver and OpenSearch | `IndexQueue`, `IndexLostUpdate` | `SearchIndexingProofs` |
| `SearchService` with `SearchAnswers` (`MCSearch`) | a search from the gateway's client through the engine | `Search` | `SearchIndexingProofs` |
| `Accounts` | the API's accounts, tokens and search log | `Accounts` | `AccountsProofs` |

A run `X` is `X.cfg`.  To check one: `tlc -config IndexQueue.cfg
SearchIndexing.tla` (or the module in parentheses); to check proofs: `tlapm
SearchIndexingProofs.tla`.  `PROJECT.json` lists components, runs, the mutants
that show each property can fail, the source lines of every definition,
findings, hazards and theorems.

Three proof modules are about two components each: `SitePagesProofs` about the fetch and
its pages, `EtlBatchProofs` about a batch and what its saves leave, and
`SearchIndexingProofs` about the index and the service that reads it.  The second
component of each is split: one module (`RobotsAnswers`, `PartRows`, `SearchAnswers`) has
its constants, state and properties, the other, which extends it, its steps; the proofs extend the
first and take the second as an instance (`F!`, `W!`, `S!`).

## Inventory

How the parts hang together: the crawl-all workflow starts a crawl workflow per
host; each starts activities that fetch pages politely and put them into S3, and
at its end publishes a site event to Kafka.  The DAG polls events in batches and
starts a batch workflow, whose activity per site is the site pipeline: it lists
the site's objects, scans, transforms and saves them in one transaction each.
Besides, a scheduled job ingests whole runs into Bronze, whose rows batch workers
claim.  Saves queue pages for the indexer; the search service reads what the
indexer wrote; the gateway calls the search service and keeps accounts.

| Component | State | Hard | Correct when |
|---|---|---|---|
| Crawl workflow (`scraper/internal/workflows/crawl_workflow.go`) | queue, seen, fetches in flight, budgets, discovery cursor | answers in any order, checkpoints, Continue-As-New, cancellation | nothing is fetched twice or lost, limits hold, it ends only exhausted |
| Crawl-all workflow, run manifest (`domains_workflow.go`, `storage/s3_run_recorder.go`) | cursor, children, sums; an object with an ETag | killed children, late PUTs | every domain once, batches in turn, the manifest true and final |
| Fetcher and robots (`fetcher/`, `robots/`) | answers per origin, start times per host | shared fetches, expiry, eviction, callers that give up | only what was allowed is asked for, requests are spaced, nobody hangs |
| Activities and site pipeline (`activities/`, `storage/`, `ETL/spark/site_pipeline.py`) | objects, claims of each process, marker | retried activities, dead processes, outages in mid-group | every reported page is stored, every stored one accounted for |
| ETL batches (`ETL/airflow/`, `ETL/temporal/`) | offsets, workflows, attempts, dead letters | dying tasks, overlapping polls, poison | an offset is committed only when all before it is settled |
| Bronze intake and queue (`database/src/pgs_db/ingest.py`, `etl.py`) | watermark, rows, claims | objects written while they are listed, stale claims | a finished run is loaded, no row is lost or settled twice |
| Bronze and Silver saves (`etl.py`, `repositories/`) | documents, pages, history, child rows | concurrent transactions, retries, old rows after new ones | one page per URL, showing the last fetch, with parts of one text |
| Search indexer (`search-engine/.../indexing/`) | page status, batches, documents | saves during a batch, slow or dead indexers | the index is a copy of Silver and the queue drains |
| Search service (`pipeline.py`, `grpc/`) | handlers, futures, deadlines | retries, degraded stages, drain, crash | answers are honest, pages tile, everything ends |
| API gateway (`api/src/pgs_api/`) | accounts, tokens, revocations, log backlog | requests of several transactions, late log entries | an account's data stays its own, signed out is out |

Reference data, statistics, ranking, the parsers, the UI and the deployment
files hold little concurrency or are pure functions; `PROJECT.json` has a line
for each, and "Not modelled" below the reasons.

## Plan

Done, in the order of what would hurt most: the last hop (`SearchIndexing`), the
saves (`Silver`), the ETL (`EtlBatch`), the crawl (`CrawlWorkflow`,
`CrawlRuns`), the way of a page (`SitePages`, `PoliteFetch`), the intake
(`Bronze`), the child rows (`PageParts`), search and accounts
(`SearchService`, `Accounts`); the safety of each proved for all constants, but for
what "What is checked and what is proved" lists.

Left, in this order:

1. `CrawlRuns`' children as an abstraction of `CrawlWorkflow`, and the Silver side of
   `SearchIndexing` as one of `Silver` (refinements).
2. Index aliases, discovery jobs, the renderer's browser pool.

One passing run per module is the rule.  Regimes ("as long as no two saves
overlap") are not CONSTANTs that switch behaviours off; they are history
variables that no guard reads, so that one run explores everything and a
property says precisely where it holds.  Related invariants are conjuncts of
one listed property.

## CrawlWorkflow and SitemapWalk

A Temporal workflow is single-threaded, so a state is what it knows between two
results; `phase` is its place in the loop.  `queue` and `seen` are the frontier,
`active`, `hostActive`, `domainCounts` and `budget` the fetches, `cursor` and
`discActive` the sitemap lookups.  The web is a set of constants (links,
aliases, sitemaps); what becomes of a fetch is chosen when its result arrives.

| Action | Code |
|---|---|
| `Start` | set-up, `startCrawlRun`, the seeds through `enqueueFresh`, the first discoveries |
| `StartNext`, `FillEnds` | `fillActive`: drop what is over the per-domain cap, start the best URL of a free host |
| `DiscoveryDone` | a lookup's result; the frontier it adds, the next lookup |
| `PageDone` | a page's result: statistics, document write, links and aliases, checkpoint |
| `ContinueAsNew`, `End` | a drained segment goes on, or the crawl ends, records it and publishes its sites |
| `Cancel` | at any moment; a cancelled crawl drains and still ends as usual |

`SitemapWalk` is `DiscoverSitemapURLs` itself: a depth-first walk as a recursive
function on the list of calls to come, with `visited`, the page cap and the cap on
children, over files of which any may be unreadable.  `Lookups` are its results
for each seed.  `Reachable` says what the walk is for, without its order.

* `Crawl` (two seeds, five URLs, checkpoints every two pages; 697 thousand
  states).  Five URLs give two spellings of one page, a redirect to another
  host, a fresh page and one only a sitemap knows; a budget of four and two pages
  per domain are met; the first seed declares an index of two files.  It shows
  `CrawlIsWhole` (`FetchedOnce`, `FrontierConserved`, `BudgetKept`,
  `EndsExhausted`, `StoredIsAnnounced`), `SitemapsAreFollowed` and `CrawlEnds`.

Fairness: `Work`, because Temporal answers every activity and drives the workflow.

**Proofs.**  `Typed`, `WholeCrawl` and `SitemapsFollowed`, for any web, seeds and limits.  The
invariant joins three parts: `FrontierInv` (one queued item per key, none for a
started fetch: what makes `FetchedOnce` inductive), `LoopInv` (a loop that waits has
something to wait for, so a drained segment is a checkpoint or out of work:
`EndsExhausted`), `HostInv` (hosts in flight or stored from are counted:
`StoredIsAnnounced`).

`SitemapsFollowed` needs what the recursive walk computes.  Two lemmas take the recursion
apart: a walk exists up to every call and is unique, so `DiscoverSitemapURLs` is what its
walk has come to after one call per declared file and per listed child (`WalkUnfolds`).
Without a cap, `WalkInv` holds after every call: only reachable files are visited or
called; the children counted and those in front of the list are those that read files
list, so the cap on children is not met; the pages are those the read files list; what
is declared or listed is visited or still to be called; and the calls made and to come
are as many as the files declared and listed so far, so the walk ends in time.  If the page limit is
reached, all that is listed has been counted; otherwise the visited files are closed and
contain every reachable one (`WalkFinds`).  The workflow's part is `FoundIsSeen`.  The set of
sitemap files is assumed finite: a walk of the code that ends has met finitely many.

## CrawlRuns

`parent` is the loop of `CrawlDomainsWorkflow`, a child is its pages and its end,
`manifest` the object with its ETag, `rec` the recorder's activity between its GET
and its PUT, `late` the PUTs of attempts that timed out.

| Action | Code |
|---|---|
| `StartChild`, `Wait`, `NextBatch`, `LoopEnds`, `ContinueAsNew`, `End` | `CrawlDomainsWorkflow` |
| `ChildPage`, `WriteLands`, `WriteFails`, `ChildEnds` | a child's page and its document's write, and its end with its site event |
| `ChildDone` | the parent counts a child, and publishes for one that was killed |
| `CreateManifest`, `GetManifest`, `PutManifest` | `StartRun` and `updateManifest`: compare-and-swap with a limited number of tries |
| `PutTimesOut`, `LatePut` | an activity's attempt ends, its request does not |
| `KillChild`, `KillParent` | terminations and timeouts |

* `CrawlRuns` (four hosts, batches of two, segments of three, two faults).
  Segments and batches of different lengths make them overlap in every way.
  `RunIsOrdered` (`BatchesInTurn`, `PagesBeforeEvent`, `FinalStands`,
  `SummaryIsTrue`) and `SitesAreAnnounced`, under fairness of parent, children and
  recorder, which Temporal drives; none for faults.

Left out: the cancellation of the parent.  The loop never looks at `ctx.Err()`, so a
cancelled run is recorded as completed, or continues as new and loses its cancellation;
but what the parent then sees of a child (an error that is neither a termination nor a
timeout, so that nobody publishes for it), whether a child asked for under a cancelled
context starts, and what becomes of the children, is the Temporal SDK's and server's to say.  A write
that outlives all attempts of its activity is left to `SitePages`: here a child that
has ended is not writing.

**Proofs.**  `Typed` and `RunsOrdered`, for any hosts (finitely many), sizes, limits and
faults.  `HostsInv` ranks hosts: the first `cursor` groups are the started ones, each in the
batch that is open or was over before the next began.  `SumInv` says that the parent's sum is that of
the pages of the completed children it has counted; sums are folds over sets, so
the proofs unfold them by induction over the subsets of a finite set (`SumSplits`,
`SumSame`).  `RecordInv` is about the manifest: an activity belongs to what the
parent waits for (`ActivityInv`); a PUT on its way carries an ETag not newer than the
manifest's and, if it would finish the manifest, the final content (`LateInv`); once it is
finished, a PUT that still matches writes the same (`FinishedInv`): that is why
`FinalStands`.  `SitesAreAnnounced` is model-checked only, being liveness.

## PoliteFetch, RobotsAnswers and RobotsRules

`RobotsRules` has the parser and the matcher of `robots.go` as functions on small
sequences, and beside them what RFC 9309 says (`Permits`, `DelayOf`); `FilesOf` pairs, for
every file a site may serve, what it means and how it is read.  `RobotsAnswers` takes
those pairs as a constant, `Files`, and has the cache entries with their fills, the
`ProcessPage` calls and the start times of hosts, and what must hold of them;
`PoliteFetch` has their steps.  Times are relative to now and count down, so
nothing grows; a timer is taken to be exact.

| Action | Code |
|---|---|
| `Start`, `RulesFor`, `Answered` | `Guard.rulesFor` in its two halves, and `ProcessPage`'s early returns |
| `FillReserve`, `FillSend`, `SiteAnswers`, `FillDelay`, `FillClose` | `fill`: the shared fetch of robots.txt in the background |
| `Reserving`, `Send`, `Response`, `Redirected` | `waitForDomain` and the request |
| `GiveUp` | the caller's context ends |
| `EvictHost` | the state of a host nobody has looked up for half an hour is dropped, start times ahead included (`fetcher.go:328-334`) |
| `Tick` | time passes |

* `Fetch` (two calls, one origin, three cache entries, files of five lines).
  Files have groups for the crawler, for all and for others, patterns that tie
  in length, wildcards and anchors.  `FetcherTyped`, `AnswersHold` (`PagesAreAllowed`,
  `SharedFetch`: what is read is what RFC 9309 means), `Spaced`, `FetchesEnd`.
  `rest` is a history variable: the time until every start time taken on a host is its
  delay ago.  `Spaced` reads it when a start time is taken and when a request goes out.
  An eviction goes by the last look-up alone.  Callers that give up leave their start times
  taken, so these may lie further ahead than the state is kept, and are then forgotten:
  `crowded`, also history, is the hosts of which that can be said, until their start times are over, and
  `Spaced` claims nothing of the start times taken on them.  A state is kept for two ticks, two
  start times given up (`MaxQueue`) and a delay of one reach beyond that: both kinds of
  eviction happen.  (312 thousand states.)

Fairness: goroutines run, a site answers or the request timeout does, time passes.

**Proofs.**  `FetchTyped`, `AnswersKept`, `AnswersObeyed` and `SpacedAlways`, for any calls, pages,
origins, hosts and delays, and any finite number of entries that suffices for them.
`EntryInv` and `CacheInv` say that an entry in use is referred to by the cache or by a call,
and that the entry being filled is the cache's, so an origin has one fill; `TaskInv` that a
call past its lookup holds a ready entry of its own origin, with the delay applied.
`SpaceInv` says that every start time taken, by a call or a fill, lies with its delay within
`rest`, and, on a host that is not crowded, `rest` within `domain[h].next`; and that there the start
times ahead and the time since the state was used are together no more than it is kept for.
So when it is idle for long enough to be dropped, there is nothing left to space from.
`AnswersKept` has a hypothesis, `FilesAreRead`: each file of `Files` is read as it is meant.
What the parser computes on a file is recursion over data, so this is left to TLC, which checks
it through `SharedFetch` on the files of the run; that files are kept and obeyed as they were read
(`AnswersObeyed`) needs no hypothesis.  `FetchesEnd` is model-checked only.

Notes on the code: `now.After(e.expires)` is read while a fill may write it (a data race; the
model lets either value be read); a caller that gives up leaves its start time
taken (`fetcher.go:358`); `cmd/worker` never sets a politeness delay of its own;
sitemaps are fetched without asking robots.txt (`activities.go:486`); requests of the renderer
are not spaced.

## SitePages

A page's `stage` follows its activities in one crawl; `html`, `document` and
`latest` are objects in the bucket; `put` is the PUT a process's write of a page is at,
`writer` the process whose write the workflow waits for; `step`, `todo`, `results` and `summary` are the
site pipeline of each run, `marker`, `silver` and `errorLog` what it leaves.

| Action | Code |
|---|---|
| `ProcessPage` | the activity up to `SaveHTML`, with its early returns and retries |
| `WriteDocument`, `PutRunKey`, `PutLatestKey`, `WriteFails` | `WriteDocument`: claim by hash, two PUTs, release of the claim on failure |
| `TimesOut` | the activity is retried, its write goes on in the live process: `S3Writer.Write` has a context and a half minute of its own (`s3_writer.go:183`) |
| `WorkerDies` | a scraper process loses its claims |
| `CrawlEnds`, `NextCrawl` | the site event; the next crawl, which skips fresh pages |
| `Begin`, `ProcessGroup`, `SavePage`, `Finish` | `run_site_pipeline`: marker first, groups, saves, summary and marker |
| `Outage`, `Redelivered` | the site is retried as a whole; its event comes again |

* `SitePages` (two pages, two crawls, two processes, contents of all four kinds, one
  fault).  `PagesAreAccounted` (`ReportedIsStored`, `KeysResolve`,
  `MarkerAccounts`, `OutageIsNoPageError`) and `SiteIsProcessed`, under fairness of the
  pipelines, which Temporal retries.  (471 thousand states.)

A retry in the same process finds the claim of an attempt that timed out and reports success
while that write is under way: such a page is "presumed" written, which `ReportedIsStored` does not
count (`PresumedIsStored` does, and is false).  A document whose write is under way when the site event is
published may land after the pipeline has listed the prefix: `unfinished` is a history variable with these,
which `MarkerAccounts` excepts.  No write lasts into the next crawl.

**Proofs.**  `Typed` and `PagesAccounted`, for any pages, processes, crawls, contents, group
sizes and attempts, given that there is a process and a content and that "none" is
neither.  `ReportedIsStored` needs `StoredInv`: a process's claim is the trace of a document, or
of a write still at its first PUT, so only then does `WriteDocument` report success without
writing.  `KeysResolve` needs that what a document will name is in the bucket before it is
written (`HtmlInv`), and that a page with a write under way is not fetched anew.
`MarkerAccounts` needs `CrawlInv` (of a crawl that is over only what is `unfinished` is still
written) and, for a pipeline that runs, that each document is accounted for, to do,
or in the group's results (`PipelineInv`).  `SiteIsProcessed` is model-checked only.

## EtlBatch

`published` and `committed` are the topic's and the consumer group's offsets.  The
DAG's one active run (`max_active_runs=1`) is `task`, `tries` and `polled`.  A
workflow's id is the offset ranges of its batch, so the batch itself indexes
`workflow`, `site` (what the workflow knows of a site) and `attempt` (the activity's
`info().attempt`).  `orphans` are threads of attempts Temporal has given up.
`finished`, `marker` and `deadLetters` are what is in PostgreSQL and S3.  A site's run
is one step; which events are malformed or poisonous is chosen in `Init`.

| Action | Code |
|---|---|
| `Publish` | the scraper's event |
| `PollBatch` | `poll_batch`: in partition order from the committed offset; a full batch, all that waits, or less if the 60 s end first |
| `ProcessBatch` | `process_batch` up to `start_workflow`: nothing valid to run, a new run (also after a failed one), or the one that is there |
| `AwaitCompleted`, `AwaitFailed` | `handle.result()` |
| `TaskDies` | a task killed, timed out, without Temporal or Kafka; `TaskFails` is Airflow's retry, then the failed DAG run |
| `CommitOffsets` | `commit_offsets` |
| `StartSite` | the semaphore of `EtlBatchWorkflow.run` |
| `SiteFinishes` | the activity's summary; the marker may be lost (`Processed`) |
| `SiteOutage` | a `_RETRYABLE` error: Temporal tries again (`Retry`) |
| `SiteFails` | any other exception: retried, from `MAX_SITE_ATTEMPTS` on `SitePoisoned` (`GivesUp`) |
| `SiteTimesOut` | no heartbeat; the thread may live on (`OrphanFinishes`, `OrphanEnds`) |
| `EndSites` | `gather` has returned: the batch fails, or writes its dead letters |
| `RecordDeadLetter`, `EndBatch` | `record_dead_letter` until PostgreSQL takes it, then the result |

Abstracted: how long a partial batch waits (any time), the backoffs, `_failure_type`.
`poll_batch` and the activity validate with the same function, so `InvalidEvent`
does not arise after the poll.  Temporal is taken to keep its history.

* `EtlBatch` (1 partition, 3 messages, batches of 2, 1 site at a time, 3 attempts of
  which the 2nd is the last for a site's own failures, 1 task retry, 3 faults; 254
  thousand states).  The code has 12, 5 and 2; what matters is that a failure may
  come before, at and after the attempt at which a site is given up, and that retries
  end.  Three messages make batches overlap when they are polled again with other
  boundaries.  Batches and commits are per partition, so one shows the order; the proofs
  are for any number.  `NothingIsLost` (`CommittedIsSettled` and
  `BrokenPipelineLosesNothing`), `KeepsPromise` (the refinement of `SiteSignals`), and
  under `FairSpec` `TopicDrains`.

`TopicDrains` has a precondition, `Company`.  A batch whose valid sites are all
poisoned fails by design ("the pipeline itself is broken") and is run again for ever:
one poisonous site alone in the last partial batch, or beside an invalid message, holds
its partition until another message arrives.

Fairness: `Dag`, because Airflow schedules a run every two minutes and retries its tasks;
`Work(b)`, because Temporal drives every workflow and activity to an end; `Publish`, an
assumption about the environment: the crawls of the instance go on.  None for faults,
which are finitely many.

**Proofs.**  `Typed`, `CommitsSettled`, `BrokenPipelineIsRetried`,
`NoEventIsLost` and `ImplementsSignals`, for any partitions, messages, sizes and faults.
`CommittedIsSettled` rests on a chain: what a workflow says of a site is true
(`Truthful`), a completed one has no site without an outcome (`Ended`), so the commit
task has a settled batch (`ReadyToCommit`), and the batch starts at the committed
offset without a gap (`PolledInOrder`).  `BrokenPipelineLosesNothing` needs that a
workflow records dead letters only when some site was done
(`RecordsInCompany`).  The refinement maps `settled` to the invalid, finished and dead-lettered
events; each step settles one, or is `CommitOffsets`, or stutters.
`TopicDrains` is model-checked only.

## Bronze

One crawl run from the bucket to Silver by the scheduled jobs, beside the site
pipeline.  `manifest`, `modified` and `malformed` are the bucket, `pass` a pass of the
ingest job between its transactions, `state` the run's row of
`bronze_ingest_state`, `claimed` and `verdict` what each batch worker has in hand.

| Action | Code |
|---|---|
| `StartRun`, `PutDocument`, `FinishRun` | the scraper; S3 keeps modification times in seconds, so several objects share one |
| `BeginPass`, `List`, `LoadChunk`, `EndPass` | `ingest`: manifest, listing, `_load_chunk` and the watermark, one transaction per chunk |
| `Claim`, `Transform`, `Save`, `Quarantine`, `MarkFailed` | `process_bronze_batch` |
| `ReleaseStale` | `release_stale`: claims of dead workers, and of slow ones |
| `SaveTransformed` | the site pipeline saves row, page and status at once, whoever else has the row |
| `PassDies`, `WorkerDies` | a killed job or worker |

* `Bronze` (two objects, chunks of one, two workers, batches of two, one fault; 139
  thousand states).  Two objects with chunks of one make the watermark move between
  chunks; two workers and the pipeline make three hands on one row.
  `IntakeIsTrue` (`PagesFollowRows`, `FinishedIsLoaded`), `SettledStays`,
  `IntakeDrains`.

History variables: `shared` has the rows two processes had in hand at once; `gap` says that a
pass ended early after it had moved the watermark.  Both are what the code
does not protect against (see below).

Fairness: the crawl ends, the jobs are scheduled, workers go on working.  None for new
objects, the site pipeline and faults.

**Proofs.**  `Typed`, `SettledRowsStay`, `IntakeTells`, for any objects, workers, chunk and
batch sizes.  `SettledStays` needs `QueueInv`: what a worker holds outside `shared` is
not settled (`HeldIsOpen`) and held by nobody else (`HeldOnce`).  `FinishedIsLoaded` needs
`IntakeInv`: what a pass remembers agrees with manifest, state and bucket (`PassIsTrue`), and,
without a gap, an object neither in Bronze nor pending is not older than the watermark,
and after a pass that saw the run ended there is none (`NothingBehind`).  `IntakeDrains` is model-checked only.

## Silver

One transaction per fetched page, statement by statement: `SaveBronze`
(`save_document`, an upsert on `(normalized_url, content_hash)`),
`ReadPrevious` (`previous_hash`), `UpsertPage` (`INSERT ... ON CONFLICT
(canonical_url) DO UPDATE ... WHERE _is_not_older`), `FoldDuplicate`, `Commit`;
`Abort` at any point stands for any error and for a killed worker; `Quarantine` runs in between.

Isolation is READ COMMITTED.  Upserted rows stay locked to the end of the
transaction, the page also when the WHERE refused the change; a second upsert of the same
URL waits (`UrlLocked`), one of the same Bronze row too (`BronzeLocked`).  So
the writes can be applied at the commit (`Written`, `Recorded`), from values the
locks keep fixed, while reads (`previous`, `fold`) keep what they saw when they
ran.  `_fold_duplicate` is `Original`: the oldest page with the same
`content_hash`, else the closest canonical page within 3 SimHash bits, if it is older.

The input `fetches` is chosen in `Init`: any sequence of documents.  Any worker may save any
fetch, again and again, in any order: retried sites, re-delivered signals,
backfills.  Bodies stand for the scraper's `content_hash`, texts for the
`content_sha256` after extraction; `Distance` is the SimHash distance.
Ids grow like the sequences do; gaps left by aborts are closed, because only
their order matters.

History variables: `outOfTurn` has the URLs of which a fetch was saved out of
the order of fetching, or while another save or a deletion of its page ran;
`overlapped` says that two transactions were ever open at once; `crowded` that a fold
met more candidates than `find_near_duplicates` returns.

* `SilverSaves` (2 workers, 3 URLs, 3 texts, 3 fetches, 3 pages, 1 quarantine, answers
  of at most 2 near pages; 1.3 million states).  Three fetches give A, B, A; three URLs and texts, of which one
  is near both others, give the mirrors; two workers give every interleaving of two
  transactions, which the constraint `SmallOverlaps` keeps to two URLs and two
  bodies.  Without any precondition: `PagesAgree` (one page per URL, folded only into
  older pages that exist) and `SourceNeverOlder`.  For URLs whose saves kept their turn,
  through aborts, retries and quarantine: `InTurnIsTrue` (the page shows the last fetch,
  its versions are recorded, a change is recorded when there was one).  While `Undisturbed`
  (no URL changes its text, no two transactions overlap, nothing was deleted and no fold
  met too many candidates): `FoldingHolds` (no two canonical pages are the same or near,
  a folded page is near its canonical original, and stays folded).

What the preconditions leave out really happens, and is listed with the
hazards: a late fetch gets a higher Bronze id and replaces a newer text; two
concurrent saves of a new text are both recorded as a change, as
`previous_hash` is read without a lock; two concurrent saves of a
mirrored text do not see each other and neither is folded; an original may itself be
folded later, which leaves a chain; ten nearer but newer pages hide an older original.
The last two need one page more than the run has: with `NearLimit` 1 and texts at 0, 3, 3
and 5 bits, saving the mirrors at 3 again unfolds both, as the page at 5 hides their
original; and when the original of a page is deleted, the freed page takes in another one and,
saved again, is folded itself.

There is no fairness: nothing here must happen, and all properties are about safety.

**Proofs.**  `Typed` (with what an open transaction has in its hands),
`FoldsEnd`, `OriginalsExist`, `SourcesGrow`, `OnePagePerUrl` and `PagesStand`, without any precondition and
for any number of workers, URLs and ids.  The first four are inductive with
the types, given two lemmas: `Original` answers with an older page or none, and `Written`
keeps the URL and never lowers the source.  `UniqueUrl` needs
`TargetIsPage` (a locked page is the page of the URL being saved, or is new and that URL has
none) and `LocksExclude` (two transactions lock different URLs and different
ids).

`MirrorsFolded` (`FoldingHolds`) needs `FoldInv`, under `Undisturbed`: one transaction is
open, a page about to be created is the newest, what a fold found is still so at its commit
(`FoldIsFresh`), each page has the text its URL keeps (`TextsKept`), and canonical pages are
further apart than `MaxDistance` (`CanonicalApart`).  `OriginalIsNear` is the lemma about
`_fold_duplicate`: with no more near pages than the limit, nobody is cut off (`NearIsAll`), one
candidate is closest (`ClosestIs`), so an older near page means a fold, into a near one.
This takes from `Distance` that it is a distance of SimHashes computed from the text: 0 from a
text to itself, and symmetric.

`TurnIsTrue` (`InTurnIsTrue`) needs `BronzeInv` (one row per document, made by a committed
save; open transactions save different documents to different rows), `HistoryInv` (history
belongs to live pages and committed rows, and has each page's source) and, for each URL that
kept its turn, `TurnIs`: its one open transaction saves the last fetch saved or the next one
(`SavedInOrder`), the `previous_hash` it read is still the page's (`PreviousIsShown`), the page
is the last fetch saved (`ShowsLastSaved`), and the row to be saved is the page's source or
new and greater (`SourceIsNewer`), which is where a body that comes back would break it.
It assumes that no text has the hash `NoHash`.

Left out: stored files as page sources and the child rows of a page, which `PageParts`
has; `processing_status` of the Bronze row, which `Bronze` has; the run and domain
rows, whose upserts only make transactions wait for each other at a run's or a domain's
first page.  A lock is modelled by not being enabled, so PostgreSQL's deadlock detection
is an `Abort`.

## PageParts

The statements of `save_page` after the upsert, and of the jobs that replace a page's
media, entities or vectors.  A text has a payload whose lists contain what makes the
code decide: entries without a key, keys twice, places nothing resolves, vectors of a
wrong size.  `rows` are the committed child rows, each with the text it was made from;
`tx` holds what a transaction has still to write, will delete, insert and has locked.
`PartRows` has the state, the rows a list stands for and the properties, `PageParts` the steps.

| Action | Code |
|---|---|
| `BeginSave`, `UpsertPage` | `save_page`: all blocks are checked first; then page, source, geo tags and contacts |
| `ReadPage`, `BeginReplace` | a job reads a page, works, and calls `replace_media`, `replace_entities` or `replace_embeddings` |
| `Look`, `Delete`, `UpsertEntity`, `Insert` | the `_replace_*_rows` helpers, in the two halves a DELETE has under READ COMMITTED |
| `Commit`, `Refused`, `Victim`, `Fail` | ends of a transaction: a raised error, a deadlock's victim, anything else |
| `RemovePage` | quarantine and retention |

* `Parts` (two sessions, two pages, six Bronze rows, three transactions, one removal).
  Three transactions make a save, a job that read before it, and a third that meets
  what both left.  `PartsTyped`, `PartsAreWhole` (`OwnPartsMatch`, `OneWritersList`, `VectorsTellTheirText`,
  `NoOrphans`), `NamesAreKept`, `WritersEnd` (transactions end, and a deadlock involves
  an entity).

`raced` and `overtaken` are history variables: a job does not lock its page, so two
replaces at once may both be kept when their lists have no key in common, and a job
overtaken by a save records the newer text's hash for vectors of the older one.
Entities are upserted in the order a payload names them, and their locks are held to the
commit, so two sessions can deadlock; PostgreSQL ends one of them.  A waiting DELETE skips
the row versions that went meanwhile, also when a like row was written again: `Commit`
and `RemovePage` take them out of what others have `seen`.

Fairness: `Advance(w)`, because PostgreSQL answers every statement and detects deadlocks.

**Proofs.**  `PartsTypes`, `WholeParts`, `NamesKept` and `TablesAreOrdered`, for any payloads that are lists, any
sessions, jobs, removals and bounds.  `PartsInv` joins what is committed (`Stored`,
`PartsAreWhole`) with what each open transaction promises to leave if it commits now: a save, the
geo tags and contacts of the row that wins (`Leaves`); any transaction, for each table it has
replaced, that what is committed is among what it deletes and what it inserts is one list
(`Replaces`, for tables nobody else replaces), and vectors with their own text's hash
unless its page was overtaken (`Hashes`); rows of its page only, and a page for them
(`Writes`, `Anchored`); for an entity it holds, the names committed (`Keeps`).  Two open
transactions are `Apart`: no two saves hold one page, none holds the other's entity, and a
table both replace is in `raced`.  A commit then keeps its own promise and
disturbs no other's.

`TablesAreOrdered` is the safety half of `WritersEnd`: wherever sessions deadlock, some of
them wait for an entity (`DeadlocksAreEntities`), so the child tables alone cannot deadlock
them.  `LockInv` says that a transaction takes its tables in order (`InOrder`), that no two
delete one row, and that of two replacing one table of one page, one saw all that the
other saw (`Nested`).  Then a wait leads to a transaction that has come further (`Far`), or
to one inserting the same list after deleting rows of it; among those that have come
furthest there would be two of these, and the rows they deleted would be nested and
disjoint.  That transactions end is model-checked only.

Only tests call the `replace_*` methods at this commit; the model has them as the
repository offers them to the jobs.

## SearchIndexing

`status` is `pages.processing_status`; `version` numbers the saves of a page, so
that "the document OpenSearch has" (`indexed`) can be compared with the row;
`folded` is `duplicate_of_id IS NOT NULL`.  Per indexer, `phase`, `batch`,
`docs`, `todo` and `rejected` are the local variables of `run_once`.  `late`
holds requests whose client has given up and that OpenSearch may still apply.

| Action | Code |
|---|---|
| `Save`, `Refold` | an accepted and a refused `save_page` with the fold after it; every accepted save re-queues |
| `Quarantine` | `quarantine` deleting the page; foreign keys free its duplicates |
| `ClaimBatch` | `claim_for_indexing` and `documents`, one transaction |
| `Index`, `Reject` | items of `helpers.bulk`, applied or refused one by one, in any order |
| `Unreachable` | the bulk raises after any part of it was applied |
| `Mark`, `Release` | `_mark` (whatever the row's status is by then), `_release` (only rows still PROCESSING) |
| `Crash` | the process dies in mid-batch, PostgreSQL fails while it marks, or a row deleted under `_mark` makes its flush fail, which `run_forever` does not catch |
| `ReleaseStale` | `release_stale_indexing`, by an indexer or the scheduled job, of any set of PROCESSING rows: no batch is surely faster than the window |

Which rows a claim takes depends on `updated_at`, ids and SKIP LOCKED; the
model takes any batch of the size the code would.

`raced` is a history variable with the pages that one of three races has
touched: saved while an indexer holds an older copy; released while the holder is
alive; part of a request that was given up.

* `IndexQueue` (2 pages, 2 indexers, batches of 2, 2 saves, 1 fault; 61 thousand
  states).  Two of each are what the races need: two saves to tell versions
  apart, two indexers to hold one page, two pages for partial bulk answers and
  folds.  It shows `SearchIsTrue` (a page taken off the queue as done has a document, and
  unless raced the document is the latest save), `OneHolder` and, under `FairSpec`,
  `QueueDrains`.  With three saves (735 thousand states) the same holds.
* `IndexLostUpdate`: what the indexer's docstring promises without the exception.  A
  save during the bulk request is marked PROCESSED with the older text in
  OpenSearch and stays so (`CopyOfSilver` is violated).

Fairness: `Work(i)`, because `run_forever` loops and a bulk request is answered or
times out; `Recovery`, because an indexer releases stale rows every minute and
the scheduled job does too.  Nothing is assumed of saves, crashes and outages
but that they are finitely many (`MaxSaves`, `MaxFaults`).

**Proofs.**  For any pages, indexers, batch size and bounds: `Typed`,
`Searchable`, `ExactCopy`, `SearchTells` (both), `ExclusiveClaims`.  `ProcessedIsSearchable` is not
inductive: `Mark` needs that every page of a batch that is neither
outstanding nor rejected has a document.  `CopyUnlessRaced` and `OneHolder` need
`HeldIsClaimed` (a page in some batch is PROCESSING or gone, so nobody else can
claim it) and that the copy an indexer holds, and the document once
its answer is in, are of the row's current version, all for pages outside `raced`; and that
late requests are only about pages in `raced`.  `QueueDrains` is model-checked only.

## SearchService

`call` is the gateway's view of a search, `rpc` the server's handler of each attempt
with the status of its stages, `future` its translation, `life` the server.
The stages' results are prefixes of fixed rankings, so fusion, hydration, reranking and
the page's slice are computed as `pipeline.py` and `fusion.py` do.  `SearchAnswers` has
the rankings, the state and what an answer must be, `SearchService` the steps.

| Action | Code |
|---|---|
| `Search`, `Send`, `Disconnect`, `DeadlinePasses` | `search_client.py` with gRPC's retry policy: a second attempt on UNAVAILABLE, one deadline for both |
| `Begin` | a thread takes an RPC that was accepted, `2 * Workers` at most |
| `Dense`, `TranslationEnds`, `FinishTranslation`, `Bm25`, `Merge`, `Rerank` | the stages, each optional one but BM25, with what is left of the deadline |
| `Serve`, `Stop`, `Exit`, `Crash` | `serve`: nothing is accepted before the models are loaded; a drain with a grace |
| `Tick` | time, for clients, handlers and the drain alike |

* `Search` (two searches of two attempts, one worker, a deadline of two ticks, one stop or
  crash; 391 thousand states).  One worker makes a queue of one, which a retry fills beside
  the handler its client gave up on.  The grace is one tick, shorter than the deadline: nothing in the
  code relates the two (`server.py:47`, `settings.py:58`), so searches are cut off.
  `AnswersAreSound` (`AnswersAreHonest`, `PagesTile`, `DrainLeavesTheGrace`: a search that a
  drain cuts off has had the whole grace) and `CallsEnd`.

Fairness: time passes, clients act, and handlers run: every stage ends, however late.

**Proofs.**  `AnswersSound`, for any searches, rankings, scores,
workers, deadline, grace and bounds.  Half of it is about no state at all: fusing, cutting, merging and
reranking lists yields one list in which no document occurs twice (`FusionLists`, `RankedLists`), so
the pages cut from it tile it (`PagesOfOneRanking`).  The other half is `ServiceInv`: a handler
counts as hurt exactly when a stage it has marked failed, and an answer is marked degraded
exactly when its handler was hurt (`GoodRpc`, `GoodCall`); and since the drain began, every search the server holds
has used up as much of its deadline as the drain of its grace (`DrainInv`).  `DrainCutsNobody` follows:
if the grace is at least the deadline, as with the shipped 10 s and 5 s, a drain that ends
cuts off no search with time left.  That is its hypothesis, not an assumption of the
model.  `CallsEnd` is model-checked only.

## Accounts

A request is a chain of short transactions, and any two requests interleave between
them; a token carries its account's id.  `entry`, `slots` and `sink` are the
backlog of the search log; `history` is what it wrote.

| Action | Code |
|---|---|
| `Present`, `FindUser`, `RetryAfter`, `EnterSlot`, `LeaveSlot`, `RecordFailure`, `RecordSuccess`, `SignIn`, `CreateUser` | register and login: throttle, password workers, token |
| `Bear`, `CheckRevoked`, `LoadUser` and the operations after them | a request with a token: its checks, then sign-out, settings, history, deletion |
| `Search`, `Submit`, `Take`, `LogSearch`, `DropEntry`, `CloseSink` | `SearchLogWriter` |
| `Expire`, `Purge`, `WindowPasses` | tokens expire, `purge_auth_bookkeeping`, the throttle's window |

* `Accounts` (two requests at once, four calls, one email, two accounts, two tokens,
  one logged search; 182 thousand states).  Four calls and two accounts allow register, search, delete and register
  again.  `SignedOutIsOut`, `AccountsHold` (`OwnAccountOnly`,
  `LimitsHold`), `AllEnds`.

Fairness: requests and writer threads run.  Nothing makes anybody call.  `MaxAccounts`
bounds the accounts that exist or that a request is about to create.

**Proofs.**  `AccountsKept` and `SignedOutStaysOut`, for any emails, requests, calls, tokens
and limits.  `RequestsInv` says how far each operation can be and that past its checks
a request holds the account of its token, which gives `OwnAccountOnly`; `TokensInv` that
there is a token for each request that waits for one and that a signed-out token is in `revoked` for as
long as it could be accepted; `BacklogInv` that the free slots and the unsettled
entries add up and that history goes with its account; `BrakeInv` that failures and the requests past the brake stay
below the limit and the number of requests, which gives `LimitsHold`.  `AllEnds` is
model-checked only.

## What is checked and what is proved

TLC explores the instances above completely (`SilverSaves` within its constraint).  TLAPS
proves the theorems in `PROJECT.json` for every value of the constants, from the
ASSUMEs in the modules only, which TLC evaluates on each run.

What a fold or a recursive function computes is proved by induction stated on sets: the library's
induction theorems take predicates, which the provers cannot instantiate, but
well-foundedness of the naturals gives that a set with 0 and with each successor has
them all (`Induct`), and from it induction over finite sets (`SetInduct`).

With TLC alone stay: liveness under fairness (`CrawlEnds`, `SitesAreAnnounced`,
`FetchesEnd`, `SiteIsProcessed`, `TopicDrains`, `IntakeDrains`, `WritersEnd`, `QueueDrains`,
`CallsEnd`, `AllEnds`), which the temporal prover does not reach (of `WritersEnd` the conjunct
`DeadlocksAreEntities` is proved); and what the robots.txt parser makes of a file
(`FilesAreRead`).
Every property of a passing run has a mutant of the modelled code that violates it.

CHECK_DEADLOCK is off where an instance may stop because its bounded inputs
(saves, messages, calls) are used up.

## Known divergences

Where docs or comments say more than the code does, the properties above have a
precondition that excludes the case.  The plain statements are kept as definitions
in the modules, and are false of the models; `IndexLostUpdate` shows one of them.

| Statement (module) | What the code does |
|---|---|
| `CopyOfSilver` (`SearchIndexing`) | a save during the bulk request is marked PROCESSED with the older text indexed (`silver.py:1197`) |
| `NeverBackwards` (`SearchIndexing`) | the slower of two bulk requests puts an older document back |
| `DeletedNotSearchable` (`SearchIndexing`) | a quarantined page's document stays in OpenSearch |
| `ShowsLastFetch` (`Silver`) | a page that goes A, B, A finds the Bronze row of the first A, whose lower id is refused as older |
| `FoldedIsNear` (`Silver`) | the original's text changes; pages folded into it stay folded |
| `VectorsTellTheirText` for overtaken jobs (`PageParts`) | `replace_embeddings` stores the hash the page has by then, so the page does not show up as missing vectors (`models/silver.py:407-408`) |
| `OutageIsNoDeadLetter` (`EtlBatch`) | outages use up attempts, and one met by a Spark task arrives as a `Py4JJavaError` at the last of them (`site_pipeline.py:23-24`) |
| `FailedIsRetried` (`Bronze`) | the watermark of an earlier chunk hides older objects of a failed one (`ingest.py:19-20`); a malformed object stops every pass at its chunk (`ingest.py:310`) |
| `SettledStays` for shared rows (`Bronze`) | two workers on one row: the slower may park a PROCESSED row as FAILED, or un-quarantine it |
| `EveryDocumentIsHandedOver`, `AliasIsOnFile` (`CrawlWorkflow`) | a page redirected to another host is stored under a host nobody announces; an alias of a page that was parsed and not written is marked seen |
| `AllFailedIsFailed` (`CrawlRuns`) | a child's failure is counted, never returned: the run completes |
| `LatestIsMostRecent` (`SitePages`) | an object under `latest/` may be of an earlier run |
| `PresumedIsStored` (`SitePages`) | a retry that finds the claim of an attempt that timed out reports success (`activities.go:395-398`); if that attempt's write then fails, nobody writes the document.  The write's own limit and the activity's are both 30 s, and the retry comes a second later |
| `TargetsAreAllowed`, `CrawlDelayInForce` (`PoliteFetch`) | a redirect's target is not asked of its robots.txt; an evicted host loses its delay, and its start times if they reach further ahead than half an hour |
| `OffIsNotRecorded`, `ClearedStaysCleared` (`Accounts`) | the setting is read when the entry is written, and entries in the backlog survive a clear |

Others, met while modelling, without a definition: a cancelled crawl that continues as
new loses its cancellation; an event with run id 0 is refused by `validate_event`; a
dense stage that is slow uses the whole deadline (`pipeline.py:16-19`), and the mget of
`_merge` is not bounded by it; pages of results beyond the candidate pool may
overlap; the session of the jobs' advisory lock is idle for long and may be cut
(`grants.py:163`).

## Not modelled

* The stored-file queue and the upsert of stored files (`silver.py`): the
  Bronze queue's claim, mark and release on another table, so `Bronze` again.
* Index aliases, discovery and statistics jobs, retention: one statement or one
  job under an advisory lock, which the models take to be exclusive.
* DNS and TLS checks (`netguard`), the renderer's browser pool, the page-level Kafka and
  MinIO writers: no binary of the repository uses the last two, and the others wrap
  libraries whose behaviour the source does not fix.
* Parsers, readability, scoring, filters and translation models: functions of text
  without state, about which the models need only that they are functions.
* Read-only routers, admin pages, the scraper's API and storage readers, the UI,
  reference data and ranking tables, deployment files: no step of theirs
  changes state that another part relies on.
