----------------------------- MODULE SitePages -----------------------------
(***************************************************************************)
(* The pages of one site from the crawl to the database.  In every run the *)
(* scraper's activities fetch a page, save its HTML and write its document *)
(* under the run's prefix and under `latest/`; the site event then starts  *)
(* the site pipeline, which lists the prefix, scans and transforms pages   *)
(* in groups, saves them and leaves a marker.                              *)
(*                                                                         *)
(* Crawls of the site follow each other; the pipelines of two runs may     *)
(* overlap.  A version stands for a page's content and its hash.           *)
(***************************************************************************)
EXTENDS Integers, FiniteSets

CONSTANTS
  Page,
  Worker,            \* scraper processes
  Runs,              \* bound: crawls of the site
  Version,           \* contents of a page over time
  Kind,              \* what a page's content is to the pipeline
  PageGroupSize,     \* PAGE_GROUP_SIZE
  MaximumAttempts,   \* of an activity
  MaxFaults          \* bound: failed requests, dead processes

Run == 1 .. Runs
Kinds == {"good", "infected", "blank", "unsavable"}

ASSUME SiteAssumption ==
  /\ IsFiniteSet(Page) /\ Worker # {} /\ Version # {} /\ "none" \notin Version \cup Worker
  /\ Kind \in [Page \X Version -> Kinds]
  /\ {Runs, PageGroupSize, MaximumAttempts} \subseteq Nat \ {0} /\ MaxFaults \in Nat

VARIABLES
  run,        \* the crawl in progress, or the last one
  content,    \* what the site serves
  stage,      \* what has become of a page in this crawl
  attempt,    \* attempts of its current activity
  htmlKey,    \* the document will name the page's HTML
  writer,     \* process whose WriteDocument the workflow waits for, or "none"
  writtenHash,\* claims of each process
  put,        \* the PUT a process's write of a page is at, awaited or not
  html,       \* HTML objects in the bucket
  document,   \* documents under the runs' prefixes
  latest,     \* the document under latest/, and the run that put it there
  events,     \* runs whose site event is published
  unfinished, \* history: <<run, page>> with a write under way when the event was published
  step,       \* of the site pipeline of a run
  todo, results, summary,
  marker,     \* runs with a marker object
  silver,     \* <<run, page>> saved
  errorLog,   \* <<run, page>> with a row in error_logs
  faults

crawl == <<run, content, stage, attempt, htmlKey, writer, writtenHash, put>>
bucket == <<html, document, latest>>
pipeline == <<step, todo, results, summary, marker, silver, errorLog>>
vars == <<run, content, stage, attempt, htmlKey, writer, writtenHash, put, html, document,
          latest, events, unfinished, step, todo, results, summary, marker, silver, errorLog, faults>>

NoDoc == [version |-> "none", hasHtml |-> FALSE]
Document == [version : Version, hasHtml : BOOLEAN] \cup {NoDoc}
Counted == {"saved", "rejected", "skipped", "failed"}
NoSummary == [c \in Counted |-> {}]

TypeOK ==
  /\ run \in Run /\ content \in [Page -> Version]
  /\ stage \in [Page -> {"todo", "left", "fetched", "writing", "written", "presumed", "lost"}]
  /\ attempt \in [Page -> 1 .. MaximumAttempts] /\ htmlKey \in [Page -> BOOLEAN]
  /\ writer \in [Page -> Worker \cup {"none"}] /\ writtenHash \in [Worker -> SUBSET (Page \X Version)]
  /\ put \in [Page \X Worker -> {"none", "run", "latest"}]
  /\ html \subseteq Page \X Version
  /\ document \in [Run \X Page -> Document]
  /\ latest \in [Page -> [run : 0 .. Runs, version : Version \cup {"none"}]]
  /\ events \subseteq Run /\ unfinished \subseteq Run \X Page
  /\ step \in [Run -> {"new", "running", "done"}]
  /\ todo \in [Run -> SUBSET Page]
  /\ results \in [Run -> SUBSET Page]
  /\ summary \in [Run -> [Counted -> SUBSET Page]]
  /\ marker \subseteq Run /\ silver \subseteq Run \X Page /\ errorLog \subseteq Run \X Page
  /\ faults \in 0 .. MaxFaults

Init ==
  /\ run = 1 /\ content = [p \in Page |-> CHOOSE v \in Version : TRUE]
  /\ stage = [p \in Page |-> "todo"] /\ attempt = [p \in Page |-> 1]
  /\ htmlKey = [p \in Page |-> FALSE]
  /\ writer = [p \in Page |-> "none"]
  /\ writtenHash = [w \in Worker |-> {}] /\ put = [pw \in Page \X Worker |-> "none"]
  /\ html = {} /\ document = [rp \in Run \X Page |-> NoDoc]
  /\ latest = [p \in Page |-> [run |-> 0, version |-> "none"]]
  /\ events = {} /\ unfinished = {}
  /\ step = [r \in Run |-> "new"] /\ todo = [r \in Run |-> {}] /\ results = [r \in Run |-> {}]
  /\ summary = [r \in Run |-> NoSummary]
  /\ marker = {} /\ silver = {} /\ errorLog = {} /\ faults = 0

Fault == faults < MaxFaults /\ faults' = faults + 1

\* Mutant: keyed on the URL alone.
ClaimByURL(p) == p

\* A page's content: the key of WriteDocument's claims and of HTML objects.
Claim(p) == <<p, content[p]>>

-----------------------------------------------------------------------------
(* ProcessPage and WriteDocument *)

\* A failed attempt of p's activity: Temporal retries it, up to a limit.
Retried(p, stageAgain, stageGivenUp) ==
  IF attempt[p] < MaximumAttempts
    THEN /\ attempt' = [attempt EXCEPT ![p] = @ + 1]
         /\ stage' = [stage EXCEPT ![p] = stageAgain]
    ELSE /\ attempt' = [attempt EXCEPT ![p] = 1]
         /\ stage' = [stage EXCEPT ![p] = stageGivenUp]

\* Best effort: the document names the HTML only if it was saved.
SaveHTML(p) ==
  \/ html' = html \cup {Claim(p)} /\ htmlKey' = [htmlKey EXCEPT ![p] = TRUE] /\ UNCHANGED faults
  \/ Fault /\ htmlKey' = [htmlKey EXCEPT ![p] = FALSE] /\ UNCHANGED html

\* Robots, the response and the page decide: a page to write, a page to leave
\* (disallowed, refused, an error status, no HTML, noindex), or a retry of what is
\* temporary (robots.txt unreachable, network, 5xx, 429).
ProcessPage(p) ==
  /\ stage[p] = "todo"
  /\ \/ SaveHTML(p) /\ stage' = [stage EXCEPT ![p] = "fetched"]
        /\ attempt' = [attempt EXCEPT ![p] = 1]
     \/ /\ stage' = [stage EXCEPT ![p] = "left"]
        /\ UNCHANGED <<attempt, htmlKey, html, faults>>
     \/ Fault /\ Retried(p, "todo", "left") /\ UNCHANGED <<htmlKey, html>>
  /\ UNCHANGED <<run, content, writer, writtenHash, put, document, latest, events, unfinished,
                 pipeline>>

\* A write under way in some process, awaited by the workflow or not.
UnderWay(p) == \E w \in Worker : put[<<p, w>>] # "none"

\* Claimed already: written by this process before, or, presumed written, being written
\* by it for an attempt that timed out.
WriteDocument(p, w) ==
  /\ stage[p] = "fetched"
  /\ IF Claim(p) \in writtenHash[w]
       THEN /\ stage' = [stage EXCEPT ![p] =
                          IF put[<<p, w>>] = "none" THEN "written" ELSE "presumed"]
            /\ UNCHANGED <<writer, writtenHash, put>>
       ELSE /\ stage' = [stage EXCEPT ![p] = "writing"]
            /\ writer' = [writer EXCEPT ![p] = w]
            /\ writtenHash' = [writtenHash EXCEPT ![w] = @ \cup {Claim(p)}]
            /\ put' = [put EXCEPT ![<<p, w>>] = "run"]
  /\ UNCHANGED <<run, content, attempt, htmlKey, bucket, events, unfinished, pipeline, faults>>

\* The two PUTs of S3Writer.Write, under its own time limit and not the activity's.
PutRunKey(p, w) ==
  /\ put[<<p, w>>] = "run" /\ put' = [put EXCEPT ![<<p, w>>] = "latest"]
  /\ document' = [document EXCEPT ![<<run, p>>] =
                    [version |-> content[p], hasHtml |-> htmlKey[p]]]
  /\ UNCHANGED <<run, content, stage, attempt, htmlKey, writer, writtenHash, html, latest,
                 events, unfinished, pipeline, faults>>

PutLatestKey(p, w) ==
  /\ put[<<p, w>>] = "latest" /\ put' = [put EXCEPT ![<<p, w>>] = "none"]
  /\ latest' = [latest EXCEPT ![p] = [run |-> run, version |-> content[p]]]
  /\ IF writer[p] = w
       THEN /\ stage' = [stage EXCEPT ![p] = "written"]
            /\ writer' = [writer EXCEPT ![p] = "none"]
       ELSE UNCHANGED <<stage, writer>>
  /\ UNCHANGED <<run, content, attempt, htmlKey, writtenHash, html, document, events,
                 unfinished, pipeline, faults>>

\* A PUT fails: the claim is released for the retry.
WriteFails(p, w) ==
  /\ put[<<p, w>>] # "none" /\ put' = [put EXCEPT ![<<p, w>>] = "none"]
  /\ IF writer[p] = w
       THEN /\ Fault /\ Retried(p, "fetched", "lost")
            /\ writer' = [writer EXCEPT ![p] = "none"]
       ELSE UNCHANGED <<stage, attempt, writer, faults>>
  /\ writtenHash' = [writtenHash EXCEPT ![w] = @ \ {Claim(p)}]
  /\ UNCHANGED <<run, content, htmlKey, bucket, events, unfinished, pipeline>>

\* The activity times out in a live process: its write goes on, with the claim.
TimesOut(p) ==
  /\ stage[p] = "writing" /\ Fault /\ Retried(p, "fetched", "lost")
  /\ writer' = [writer EXCEPT ![p] = "none"]
  /\ UNCHANGED <<run, content, htmlKey, writtenHash, put, bucket, events, unfinished, pipeline>>

\* A process dies with its claims; what it was writing is retried elsewhere.
WorkerDies(w) ==
  /\ Fault /\ writtenHash' = [writtenHash EXCEPT ![w] = {}]
  /\ put' = [pw \in Page \X Worker |-> IF pw[2] = w THEN "none" ELSE put[pw]]
  /\ LET hit == {p \in Page : writer[p] = w}
     IN /\ writer' = [p \in Page |-> IF p \in hit THEN "none" ELSE writer[p]]
        /\ stage' = [p \in Page |->
                       IF p \notin hit THEN stage[p]
                       ELSE IF attempt[p] < MaximumAttempts THEN "fetched" ELSE "lost"]
        /\ attempt' = [p \in Page |->
                         IF p \in hit /\ attempt[p] < MaximumAttempts
                           THEN attempt[p] + 1 ELSE attempt[p]]
  /\ UNCHANGED <<run, content, htmlKey, bucket, events, unfinished, pipeline>>

-----------------------------------------------------------------------------
(* The site's crawls *)

CrawlEnds ==
  /\ run \notin events /\ \A p \in Page : stage[p] \in {"written", "presumed", "lost", "left"}
  /\ events' = events \cup {run}
  /\ unfinished' = unfinished \cup ({run} \X {p \in Page : UnderWay(p)})
  /\ UNCHANGED <<crawl, bucket, pipeline, faults>>

\* FreshURLs looks for a recent object under latest/; a failed look-up is not fresh.
MayBeFresh == {p \in Page : latest[p].run > 0}

\* A write has half a minute: none lasts into the next crawl.
NextCrawl ==
  /\ run \in events /\ run < Runs /\ run' = run + 1
  /\ \A p \in Page : ~UnderWay(p)
  /\ content' \in [Page -> Version]
  /\ \E fresh \in SUBSET MayBeFresh :
       stage' = [p \in Page |-> IF p \in fresh THEN "left" ELSE "todo"]
  /\ attempt' = [p \in Page |-> 1]
  /\ UNCHANGED <<htmlKey, writer, writtenHash, put, bucket, events, unfinished, pipeline,
                 faults>>

-----------------------------------------------------------------------------
(* The site pipeline of run r *)

Idle(r) == [results EXCEPT ![r] = {}]

\* The marker is looked for first, then the scanner and the database asked.
Begin(r) ==
  /\ r \in events /\ step[r] = "new"
  /\ IF r \in marker
       THEN step' = [step EXCEPT ![r] = "done"] /\ UNCHANGED <<todo, summary>>
       ELSE /\ step' = [step EXCEPT ![r] = "running"]
            /\ todo' = [todo EXCEPT ![r] = {p \in Page : document[<<r, p>>] # NoDoc}]
            /\ summary' = [summary EXCEPT ![r] = NoSummary]
  /\ results' = Idle(r)
  /\ UNCHANGED <<crawl, bucket, events, unfinished, marker, silver, errorLog, faults>>

\* process_page: the HTML named by the document must be there.
Missing(r, p) ==
  document[<<r, p>>].hasHtml /\ <<p, document[<<r, p>>].version>> \notin html
KindOf(r, p) == Kind[<<p, document[<<r, p>>].version>>]
PageStatus(r, p) ==
  CASE Missing(r, p) -> "failed"
    [] KindOf(r, p) = "infected" -> "rejected"
    [] KindOf(r, p) = "blank" -> "skipped"
    [] OTHER -> "transformed"

Count(r, status, pages) == [summary EXCEPT ![r][status] = @ \cup pages]

\* Groups are full, the last one perhaps not.
NextGroup(r, group) ==
  /\ group # {} /\ Cardinality(group) <= PageGroupSize
  /\ Cardinality(group) < PageGroupSize => group = todo[r]

\* The results of one group come back together; rejections and failures are
\* counted and logged before anything is saved.
ProcessGroup(r) ==
  /\ step[r] = "running" /\ results[r] = {} /\ todo[r] # {}
  /\ \E group \in SUBSET todo[r] :
       /\ NextGroup(r, group)
       /\ LET of(status) == {p \in group : PageStatus(r, p) = status}
          IN /\ results' = [results EXCEPT ![r] = of("transformed")]
             /\ summary' = [summary EXCEPT ![r] =
                              [c \in Counted |-> IF c = "saved" THEN @[c] ELSE @[c] \cup of(c)]]
             /\ errorLog' = errorLog \cup ({r} \X (of("rejected") \cup of("failed")))
       /\ todo' = [todo EXCEPT ![r] = @ \ group]
  /\ UNCHANGED <<crawl, bucket, events, unfinished, step, marker, silver, faults>>

\* Mutant: a page that cannot be saved is taken for an outage.
UnsavableIsOutage(r, p) ==
  /\ step[r] = "running" /\ p \in results[r]
  /\ IF KindOf(r, p) = "unsavable"
       THEN /\ step' = [step EXCEPT ![r] = "new"] /\ results' = Idle(r)
            /\ todo' = [todo EXCEPT ![r] = {}] /\ UNCHANGED <<summary, silver>>
       ELSE /\ results' = [results EXCEPT ![r] = @ \ {p}] /\ summary' = Count(r, "saved", {p})
            /\ silver' = silver \cup {<<r, p>>} /\ UNCHANGED <<step, todo>>
  /\ UNCHANGED <<crawl, bucket, events, unfinished, marker, errorLog, faults>>

\* A page that cannot be saved is counted and logged, and the rest goes on.
SavePage(r, p) ==
  /\ step[r] = "running" /\ p \in results[r]
  /\ results' = [results EXCEPT ![r] = @ \ {p}]
  /\ IF KindOf(r, p) = "unsavable"
       THEN /\ summary' = Count(r, "failed", {p})
            /\ errorLog' = errorLog \cup {<<r, p>>} /\ UNCHANGED silver
       ELSE /\ summary' = Count(r, "saved", {p})
            /\ silver' = silver \cup {<<r, p>>} /\ UNCHANGED errorLog
  /\ UNCHANGED <<crawl, bucket, events, unfinished, step, todo, marker, faults>>

\* Mutant: an outage drops the rest of the group.
OutageDropsGroup(r) ==
  /\ step[r] = "running" /\ Fault
  /\ results' = Idle(r)
  /\ UNCHANGED <<crawl, bucket, events, unfinished, step, todo, summary, marker, silver, errorLog>>

\* ClamAV, S3 or PostgreSQL fails, or the worker dies: the whole site is retried.
Outage(r) ==
  /\ step[r] = "running" /\ Fault
  /\ step' = [step EXCEPT ![r] = "new"]
  /\ results' = Idle(r) /\ todo' = [todo EXCEPT ![r] = {}]
  /\ summary' = [summary EXCEPT ![r] = NoSummary]
  /\ UNCHANGED <<crawl, bucket, events, unfinished, marker, silver, errorLog>>

\* Without the marker a later delivery of the event runs the site again.
Finish(r) ==
  /\ step[r] = "running" /\ todo[r] = {} /\ results[r] = {}
  /\ step' = [step EXCEPT ![r] = "done"]
  /\ \/ marker' = marker \cup {r} /\ UNCHANGED faults
     \/ Fault /\ UNCHANGED marker
  /\ UNCHANGED <<crawl, bucket, events, unfinished, todo, results, summary, silver, errorLog>>

\* The event is delivered again (EtlBatch says when).
Redelivered(r) ==
  /\ step[r] = "done" /\ Fault /\ step' = [step EXCEPT ![r] = "new"]
  /\ UNCHANGED <<crawl, bucket, events, unfinished, todo, results, summary, marker, silver, errorLog>>

-----------------------------------------------------------------------------
Scrape ==
  \/ CrawlEnds \/ NextCrawl
  \/ \E p \in Page : ProcessPage(p)
  \/ \E p \in Page, w \in Worker : WriteDocument(p, w) \/ PutRunKey(p, w) \/ PutLatestKey(p, w)
Pipeline(r) ==
  \/ Begin(r) \/ ProcessGroup(r) \/ Finish(r)
  \/ \E p \in Page : SavePage(r, p)
Failures ==
  \/ \E p \in Page : TimesOut(p) \/ \E w \in Worker : WriteFails(p, w)
  \/ \E w \in Worker : WorkerDies(w)
  \/ \E r \in Run : Outage(r) \/ Redelivered(r)

\* All crawls are over and all their events are processed.
Quiet == events = Run /\ (\A r \in Run : step[r] = "done") /\ UNCHANGED vars

Next == Scrape \/ Failures \/ Quiet \/ \E r \in Run : Pipeline(r)

Spec == Init /\ [][Next]_vars /\ \A r \in Run : WF_vars(Pipeline(r))

-----------------------------------------------------------------------------
(* Properties *)

\* A document whose write was reported is in the bucket: under its run, or, when
\* one process saw the same content before, under an earlier run.  (A write that is only
\* presumed, on the claim of one under way, is excepted.)
ReportedIsStored ==
  \A p \in Page : stage[p] = "written" =>
    \E r \in 1 .. run : document[<<r, p>>].version = content[p]

\* A document names only HTML that is in the bucket, so the pipeline never counts
\* a page as failed because an object is missing.
KeysResolve == \A r \in Run, p \in Page : ~Missing(r, p)

\* A site with a marker is accounted for: every document of the run was saved, is
\* in the error log, or holds no text.  (A document that could land after the event is excepted.)
MarkerAccounts ==
  \A r \in marker, p \in Page : document[<<r, p>>] # NoDoc =>
    <<r, p>> \in silver \cup errorLog \cup unfinished \/ KindOf(r, p) = "blank"

\* No outage is held against a page: only infected and unsavable pages are in the
\* error log.
OutageIsNoPageError ==
  \A r \in Run, p \in Page : <<r, p>> \in errorLog => KindOf(r, p) \in {"infected", "unsavable"}

\* From the bucket to Silver no page is unaccounted for.
PagesAreAccounted == ReportedIsStored /\ KeysResolve /\ MarkerAccounts /\ OutageIsNoPageError

\* Every crawled site is processed.
SiteIsProcessed == \A r \in Run : r \in events ~> step[r] = "done"

\* The object under latest/ is always overwritten with the most recent fetch, as
\* its comment says.  (False: a process that wrote the same content in an earlier
\* run reports success without writing.)
LatestIsMostRecent ==
  \A p \in Page : stage[p] = "written" => latest[p].run = run

\* A write is retried until one is stored, as the comment at the claim's release says.
\* (False: a retry that finds the claim of an attempt that timed out reports success, and
\* nobody retries when that attempt's write fails.)
PresumedIsStored ==
  \A p \in Page : stage[p] = "presumed" =>
    UnderWay(p) \/ \E r \in 1 .. run : document[<<r, p>>].version = content[p]
=============================================================================
