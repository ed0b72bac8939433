--------------------------- MODULE CrawlWorkflow ---------------------------
(***************************************************************************)
(* One crawl: the Temporal workflow that keeps the frontier, starts fetch  *)
(* activities within a page budget and per-host limits, runs sitemap       *)
(* discovery beside them, and continues as new before its history or the   *)
(* state it carries grows too large.                                       *)
(*                                                                         *)
(* A workflow is single-threaded: between two results it handles nothing   *)
(* else happens, so `phase` only names the place in its loop.  The web is  *)
(* a constant; what becomes of a fetch is chosen when its result arrives.  *)
(***************************************************************************)
EXTENDS SitemapWalk

CONSTANTS
  Key, Host,
  KeyOf,                 \* normalize.Canonical: [Url -> Key]
  HostOf,                \* normalize.Hostname: [Url -> Host]
  Links,                 \* links of a page: [Url -> SUBSET Url]
  Aliases,               \* canonical and final URL of a page: [Url -> SUBSET Key]
  SiteOf,                \* host of the identity its document is stored under: [Url -> Host]
  Seeds,                 \* number of seeds
  SeedUrl, SeedPriority, \* url and priority of each seed
  Declared,              \* sitemaps its site declares: [1 .. Seeds -> Seq(SitemapFile)]
  Fresh,                 \* keys the freshness check calls recently fetched
  MaxDepth, MaxPages, Concurrency,
  SameHostOnly, HasCountryFilter,
  MaxPagesPerDomain, MaxConcurrentPerHost,   \* 0: no limit
  MaxSitemapURLs, SitemapBatch, PagesPerRun, MaxCarried

Seed == 1 .. Seeds

ASSUME WebAssumption ==
  /\ KeyOf \in [Url -> Key] /\ HostOf \in [Url -> Host]
  /\ Links \in [Url -> SUBSET Url] /\ Aliases \in [Url -> SUBSET Key]
  /\ SiteOf \in [Url -> Host]
  /\ IsFiniteSet(Url) /\ IsFiniteSet(Key)
ASSUME InputAssumption ==
  /\ Seeds \in Nat /\ SeedUrl \in [Seed -> Url] /\ SeedPriority \in [Seed -> Int]
  /\ Declared \in [Seed -> Seq(SitemapFile)] /\ Fresh \subseteq Key
  /\ {MaxDepth, MaxPages, MaxPagesPerDomain, MaxConcurrentPerHost, MaxCarried}
       \subseteq Nat
  /\ MaxSitemapURLs \in Nat
  /\ {Concurrency, SitemapBatch, PagesPerRun} \subseteq Nat \ {0}
  /\ {SameHostOnly, HasCountryFilter} \subseteq BOOLEAN

\* The limit on the pages of one lookup.
MaxURLs == IF MaxPagesPerDomain > 0 /\ MaxPagesPerDomain < MaxSitemapURLs
             THEN MaxPagesPerDomain ELSE MaxSitemapURLs

\* Unread: sitemaps that cannot be fetched or parsed.
Found(walk) == {u \in Url : \E n \in DOMAIN walk.pages : u = walk.pages[n]}
Lookup(s, unread) ==
  LET walk == DiscoverSitemapURLs(Declared[s], MaxURLs, unread)
  IN [seed |-> s, unread |-> unread \cap walk.visited, found |-> Found(walk)]
Lookups == {Lookup(s, unread) : s \in Seed, unread \in SUBSET SitemapFile}

VARIABLES
  phase,         \* where the workflow is in its loop
  childOfRun,    \* started by CrawlDomainsWorkflow; the input
  queue,         \* the frontier
  seen,          \* keys never to be considered again
  active,        \* fetches in flight
  hostActive,    \* activeHostCounts
  domainCounts,  \* fetches started per host
  budget,        \* budgetRemaining
  pagesThisRun, continuing,
  cursor,        \* seeds whose discovery was started
  discActive,    \* discoveries in flight
  stats,
  runID, recorded,  \* the crawl's run (0: none) and what its recorder shows
  cancel,        \* "no", "requested", or "lost" by continuing as new
  published,     \* hosts whose site_crawled event is in Kafka
  unpublished,   \* hosts whose event failed for an hour
  starts,        \* fetches started per key; for a property
  settled,       \* keys capped, fresh or on file as an alias; for a property
  aliased,       \* keys first seen as an alias of a parsed page; for a property
  stored,        \* pages whose document was written; for a property
  lookups        \* discoveries that answered; for a property

frontier == <<queue, seen>>
fetches == <<active, hostActive, domainCounts, budget>>
segment == <<pagesThisRun, continuing>>
discovery == <<cursor, discActive>>
run == <<childOfRun, runID, recorded>>
events == <<published, unpublished>>
history == <<starts, settled, aliased, stored, lookups>>
vars == <<phase, childOfRun, queue, seen, active, hostActive, domainCounts, budget,
          pagesThisRun, continuing, cursor, discActive, stats, runID, recorded, cancel,
          published, unpublished, starts, settled, aliased, stored, lookups>>

\* FrontierItem; `since` orders the queue, `live` is set for a fetch started
\* before the crawl was cancelled.
Item == [url : Url, depth : 0 .. MaxDepth, origin : Host, priority : Int,
         since : Nat, live : BOOLEAN]

Counter == {"fetched", "succeeded", "failed", "skipped", "capped", "filtered"}

KeysOf(items) == {KeyOf[i.url] : i \in items}

\* CrawlStats: what a page counts as, by its outcome.
CountedAs == [failed |-> "failed", error |-> "failed", robots |-> "skipped",
              noindex |-> "skipped", neardup |-> "skipped", country |-> "filtered",
              ok |-> "succeeded"]
Outcome == DOMAIN CountedAs
ParsedOK == {"noindex", "neardup", "country", "ok"}

TypeOK ==
  /\ phase \in {"starting", "filling", "selecting", "ended"}
  /\ childOfRun \in BOOLEAN
  /\ queue \subseteq Item /\ active \subseteq Item
  /\ IsFiniteSet(queue) /\ IsFiniteSet(active)
  /\ seen \subseteq Key /\ settled \subseteq Key /\ aliased \subseteq Key
  /\ hostActive \in [Host -> Int] /\ domainCounts \in [Host -> Nat]
  /\ budget \in Int /\ pagesThisRun \in Nat /\ continuing \in BOOLEAN
  /\ cursor \in 0 .. Seeds /\ discActive \subseteq Seed
  /\ stats \in [Counter -> Nat]
  /\ runID \in {0, 1}
  /\ recorded \in {"none", "running", "completed", "failed"}
  /\ cancel \in {"no", "requested", "lost"}
  /\ published \subseteq Host /\ unpublished \subseteq Host
  /\ starts \in [Key -> Nat] /\ stored \subseteq Url
  /\ lookups \subseteq Lookups

Init ==
  /\ phase = "starting" /\ childOfRun \in BOOLEAN
  /\ queue = {} /\ seen = {} /\ active = {}
  /\ hostActive = [h \in Host |-> 0] /\ domainCounts = [h \in Host |-> 0]
  /\ budget = MaxPages /\ pagesThisRun = 0 /\ continuing = FALSE
  /\ cursor = 0 /\ discActive = {}
  /\ stats = [c \in Counter |-> 0]
  /\ runID = 0 /\ recorded = "none" /\ cancel = "no"
  /\ published = {} /\ unpublished = {}
  /\ starts = [k \in Key |-> 0] /\ settled = {} /\ aliased = {} /\ stored = {}
  /\ lookups = {}

-----------------------------------------------------------------------------
(* The frontier *)

FrontierItem(url, depth, origin, priority) ==
  [url |-> url, depth |-> depth, origin |-> origin, priority |-> priority,
   since |-> Cardinality(seen), live |-> TRUE]

\* Of candidates with the same key the first one counts; which one is first is
\* the page's choice.
OnePerKey(candidates) ==
  {c \in SUBSET candidates : /\ KeysOf(c) = KeysOf(candidates)
                             /\ \A i, j \in c : KeyOf[i.url] = KeyOf[j.url] => i = j}

\* One request per candidate: those that fail call it stale.
FreshURLs == SUBSET Fresh

\* A check that failed, or was cancelled, calls nothing fresh.
CheckFreshness == IF cancel = "requested" THEN {{}} ELSE FreshURLs

EnqueueFresh(candidates, known) ==
  \E new \in OnePerKey({i \in candidates : KeyOf[i.url] \notin known}),
     fresh \in CheckFreshness :
    /\ seen' = known \cup KeysOf(new)
    /\ queue' = queue \cup {i \in new : KeyOf[i.url] \notin fresh}
    /\ settled' = settled \cup (KeysOf(new) \cap fresh)
    /\ aliased' = aliased \cup (known \ seen)

Capped == {i \in queue : /\ MaxPagesPerDomain > 0
                         /\ domainCounts[HostOf[i.url]] >= MaxPagesPerDomain}

HostIsFree(h) == MaxConcurrentPerHost = 0 \/ hostActive[h] < MaxConcurrentPerHost

Startable == {i \in queue \ Capped : HostIsFree(HostOf[i.url])}

\* Highest priority first, then the order of the queue.
Best == {i \in Startable : \A j \in Startable :
           \/ i.priority > j.priority
           \/ i.priority = j.priority /\ i.since <= j.since}

DropCapped ==
  stats' = [stats EXCEPT !["capped"] = @ + Cardinality(Capped)]

HasSlot == budget > 0 /\ Cardinality(active) < Concurrency

StartNext ==
  /\ phase = "filling" /\ HasSlot
  /\ \E i \in Best :
       LET h == HostOf[i.url]
           k == KeyOf[i.url]
       IN /\ queue' = (queue \ Capped) \ {i}
          /\ active' = active \cup {[i EXCEPT !.live = (cancel # "requested")]}
          /\ budget' = budget - 1
          /\ domainCounts' = [domainCounts EXCEPT ![h] = @ + 1]
          /\ hostActive' = [hostActive EXCEPT ![h] = @ + 1]
          /\ starts' = [starts EXCEPT ![k] = @ + 1]
  /\ settled' = settled \cup KeysOf(Capped)
  /\ DropCapped
  /\ UNCHANGED <<phase, seen, segment, discovery, run, cancel, events, aliased, stored,
                 lookups>>

FillEnds ==
  /\ phase = "filling" /\ phase' = "selecting"
  /\ \/ /\ HasSlot /\ Startable = {}
        /\ queue' = queue \ Capped
        /\ settled' = settled \cup KeysOf(Capped)
        /\ DropCapped
     \/ ~HasSlot /\ UNCHANGED <<queue, settled, stats>>
  /\ UNCHANGED <<seen, fetches, segment, discovery, run, cancel, events, starts, aliased,
                 stored, lookups>>

-----------------------------------------------------------------------------
(* Discovery and pages *)

\* Keeps up to SitemapBatch discoveries in flight, in the order of the seeds.
LaunchDiscovery(inFlight) ==
  \E n \in 0 .. Seeds - cursor :
    /\ IF continuing' \/ budget = 0
         THEN n = 0
         ELSE \/ Cardinality(inFlight) + n = SitemapBatch
              \/ cursor + n = Seeds /\ Cardinality(inFlight) + n <= SitemapBatch
    /\ cursor' = cursor + n
    /\ discActive' = inFlight \cup (cursor + 1 .. cursor + n)

\* Run tracking may fail without failing the crawl; a child has its parent's run.
StartCrawlRun ==
  \/ childOfRun /\ runID' = 1 /\ UNCHANGED recorded
  \/ ~childOfRun /\ cancel = "no" /\ runID' = 1 /\ recorded' = "running"
  \/ ~childOfRun /\ UNCHANGED <<runID, recorded>>

Start ==
  /\ phase = "starting" /\ phase' = "filling"
  /\ EnqueueFresh({FrontierItem(SeedUrl[s], 0, HostOf[SeedUrl[s]], SeedPriority[s])
                     : s \in Seed}, {})
  /\ StartCrawlRun
  /\ UNCHANGED continuing /\ LaunchDiscovery({})
  /\ UNCHANGED <<childOfRun, fetches, pagesThisRun, stats, cancel, events, starts, stored,
                 lookups>>

\* Mutant: a failed discovery is looked up again.
DiscoveryRetried(s) ==
  /\ phase = "selecting" /\ s \in discActive
  /\ UNCHANGED <<frontier, settled, aliased, continuing, lookups>>
  /\ LaunchDiscovery(discActive)
  /\ phase' = IF continuing THEN "selecting" ELSE "filling"
  /\ UNCHANGED <<fetches, pagesThisRun, stats, run, cancel, events, starts, stored>>

\* A lookup that fails as a whole, or has no answer from robots.txt, finds nothing.
DiscoveryDone(s) ==
  /\ phase = "selecting" /\ s \in discActive
  /\ \/ /\ cancel # "requested"
        /\ \E l \in Lookups :
             /\ l.seed = s
             /\ EnqueueFresh({FrontierItem(u, 0, HostOf[SeedUrl[s]], SeedPriority[s])
                                : u \in l.found}, seen)
             /\ lookups' = lookups \cup {l}
     \/ UNCHANGED <<frontier, settled, aliased, lookups>>
  /\ UNCHANGED continuing /\ LaunchDiscovery(discActive \ {s})
  /\ phase' = IF continuing THEN "selecting" ELSE "filling"
  /\ UNCHANGED <<fetches, pagesThisRun, stats, run, cancel, events, starts, stored>>

\* Mutant: the depth is checked one hop late.
FollowTooDeep(i, nofollow) ==
  IF nofollow \/ i.depth > MaxDepth
    THEN {}
    ELSE {FrontierItem(u, i.depth + 1, i.origin, i.priority)
            : u \in {l \in Links[i.url] : SameHostOnly => HostOf[l] = i.origin}}

\* Links are followed within MaxDepth and, if asked, on the seed's own host.
Follow(i, nofollow) ==
  IF nofollow \/ i.depth >= MaxDepth
    THEN {}
    ELSE {FrontierItem(u, i.depth + 1, i.origin, i.priority)
            : u \in {l \in Links[i.url] : SameHostOnly => HostOf[l] = i.origin}}

CanHappen(i, outcome) ==
  /\ outcome # "failed" => i.live
  /\ outcome = "neardup" => stats["succeeded"] > 0
  /\ outcome = "country" => HasCountryFilter

\* history: the workflow's own has reached its limit of events or bytes.
Checkpoint(historyFull) ==
  \/ continuing
  \/ /\ pagesThisRun' >= PagesPerRun
     /\ Cardinality(queue') + Cardinality(seen') <= MaxCarried
  \/ historyFull

PageDone(i, outcome) ==
  /\ phase = "selecting" /\ i \in active /\ CanHappen(i, outcome)
  /\ active' = active \ {i}
  /\ hostActive' = [hostActive EXCEPT ![HostOf[i.url]] = @ - 1]
  /\ pagesThisRun' = pagesThisRun + 1
  /\ stats' = [stats EXCEPT !["fetched"] = @ + 1, ![CountedAs[outcome]] = @ + 1]
  /\ \/ outcome = "ok" /\ cancel # "requested" /\ stored' = stored \cup {i.url}
     \/ UNCHANGED stored
  /\ \/ /\ outcome \in ParsedOK
        /\ \E nofollow \in BOOLEAN :
             EnqueueFresh(Follow(i, nofollow), seen \cup Aliases[i.url])
     \/ outcome \notin ParsedOK /\ UNCHANGED <<frontier, settled, aliased>>
  /\ \E full \in BOOLEAN : continuing' = Checkpoint(full)
  /\ LaunchDiscovery(discActive)
  /\ phase' = IF continuing' THEN "selecting" ELSE "filling"
  /\ UNCHANGED <<domainCounts, budget, run, cancel, events, starts, lookups>>

Cancel ==
  /\ phase # "ended" /\ cancel = "no" /\ cancel' = "requested"
  /\ UNCHANGED <<phase, frontier, fetches, segment, discovery, stats, run, events, history>>

-----------------------------------------------------------------------------
(* The end of a segment *)

Drained == phase = "selecting" /\ active = {} /\ discActive = {}

WillContinueAsNew ==
  continuing /\ budget > 0 /\ (queue # {} \/ cursor < Seeds)

\* Everything is carried but the segment's own counters; the new execution is not
\* cancelled.
Carry(frontierItems, budgetLeft, counts) ==
  /\ Drained /\ WillContinueAsNew
  /\ phase' = "filling" /\ pagesThisRun' = 0 /\ continuing' = FALSE
  /\ queue' = frontierItems /\ budget' = budgetLeft /\ domainCounts' = counts
  /\ LaunchDiscovery({})
  /\ cancel' = IF cancel = "requested" THEN "lost" ELSE cancel
  /\ hostActive' = [h \in Host |-> 0]
  /\ UNCHANGED <<seen, active, stats, run, events, history>>

\* Mutant: the frontier is not carried.
ContinueWithoutFrontier == Carry({}, budget, domainCounts)
ContinueAsNew == Carry(queue, budget, domainCounts)

Status == IF stats["fetched"] > 0 /\ stats["failed"] = stats["fetched"]
            THEN "failed" ELSE "completed"

\* publishSitesCrawled: every host the crawl started a fetch on.
SitesCrawled == {h \in Host : domainCounts[h] > 0}

FinishCrawlRun ==
  \/ ~childOfRun /\ runID # 0 /\ recorded' = Status
  \/ UNCHANGED recorded

\* The deferred end runs on a disconnected context: a cancelled crawl records
\* its end and publishes its sites as well.
End ==
  /\ Drained /\ ~WillContinueAsNew
  /\ phase' = "ended"
  /\ FinishCrawlRun
  /\ \E failed \in SUBSET SitesCrawled :
       published' = SitesCrawled \ failed /\ unpublished' = failed
  /\ UNCHANGED <<frontier, fetches, segment, discovery, stats, childOfRun, runID, cancel,
                 history>>

Work ==
  \/ Start \/ StartNext \/ FillEnds \/ ContinueAsNew \/ End
  \/ \E s \in Seed : DiscoveryDone(s)
  \/ \E i \in active, outcome \in Outcome : PageDone(i, outcome)

\* A crawl that has ended stays as it is.
Ended == phase = "ended" /\ UNCHANGED vars

Next == Work \/ Cancel \/ Ended

Spec == Init /\ [][Next]_vars /\ WF_vars(Work)

-----------------------------------------------------------------------------
(* Properties *)

\* No page is fetched twice by one crawl, however its URLs are written, wherever
\* they were found, and across any number of Continue-As-New segments: a key is
\* marked seen in the step that queues it and the seen set is carried over.
FetchedOnce == \A k \in Key : starts[k] <= 1

\* A URL that was marked seen is queued, was started, or has a reason why it needs
\* no fetch: no handler, checkpoint or segment boundary loses one.
FrontierConserved == seen = KeysOf(queue) \cup {k \in Key : starts[k] > 0} \cup settled \cup aliased

\* The page budget and the limits per host hold across segments: every started
\* fetch is paid for once, the per-host slots are exactly the fetches in flight.
BudgetKept ==
  /\ budget + stats["fetched"] + Cardinality(active) = MaxPages /\ budget >= 0
  /\ Cardinality(active) <= Concurrency
  /\ \A h \in Host :
       /\ hostActive[h] = Cardinality({i \in active : HostOf[i.url] = h})
       /\ MaxConcurrentPerHost > 0 => hostActive[h] <= MaxConcurrentPerHost
       /\ MaxPagesPerDomain > 0 => domainCounts[h] <= MaxPagesPerDomain

\* A crawl ends only for want of work: its budget is spent, or its queue is empty
\* and every seed's sitemap has been looked up.  In particular a segment that
\* drains at a checkpoint never takes a pause for the end.
EndsExhausted ==
  phase = "ended" => budget = 0 \/ (queue = {} /\ cursor = Seeds)

\* Every host with a document of its own in the bucket gets its site_crawled
\* event when the crawl ends, or the loss of that event is known: the hosts of
\* earlier segments are not forgotten.
StoredIsAnnounced ==
  phase = "ended" => \A u \in stored :
    SiteOf[u] = HostOf[u] => SiteOf[u] \in published \cup unpublished

\* What a crawl keeps through all its segments.
CrawlIsWhole ==
  FetchedOnce /\ FrontierConserved /\ BudgetKept /\ EndsExhausted /\ StoredIsAnnounced

\* Every page that a site's readable sitemaps list, through any indexes, is brought into
\* the crawl by its seed's lookup, unless a cap cuts the lookup: one that cannot be read
\* costs what is behind it and no more.
SitemapsAreFollowed ==
  \A l \in lookups :
    LET files == Reachable(Declared[l.seed], l.unread) \ l.unread
    IN Uncapped(files, MaxURLs) => \A u \in Listed(files) : KeyOf[u] \in seen

\* Every crawl ends, with its budget, its drained checkpoints and a cancellation
\* at any moment.
CrawlEnds == <>(phase = "ended")

\* The event of a site is published after every page of it is in the bucket, under
\* the prefix the event names; so every document is under the prefix of an
\* announced site.  (False of a page whose redirect or canonical URL is on another
\* host: its document is stored under that host, which nobody announces.)
EveryDocumentIsHandedOver ==
  phase = "ended" => \A u \in stored : SiteOf[u] \in published \cup unpublished

\* A page marked seen as the canonical or final URL of another one is on file
\* under that other page, as the comments at both marks say.  (False of pages that
\* were parsed and not written.)
AliasIsOnFile == \A k \in aliased : \E u \in stored : k \in Aliases[u]
=============================================================================
