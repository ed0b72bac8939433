-------------------------- MODULE SitePagesProofs --------------------------
(***************************************************************************)
(* Proofs about SitePages, for any pages, processes, crawls, contents and  *)
(* bounds; and, in the second half, about PoliteFetch, which is how the    *)
(* scraper's activities get those pages.                                   *)
(***************************************************************************)
EXTENDS SitePages, RobotsAnswers, FiniteSetTheorems, Sequences, TLAPS

\* The documents the pipeline of a run finds.
Docs(r) == {p \in Page : document[<<r, p>>] # NoDoc}

\* Events tell of crawls that are over: what may still land of them is unfinished.
CrawlInv ==
  /\ events \subseteq 1 .. run
  /\ run \in events => \A p \in Page : stage[p] \in {"written", "presumed", "lost", "left"}
  /\ run \in events => \A p \in Page : UnderWay(p) => <<run, p>> \in unfinished
  /\ \A r \in Run : Docs(r) # {} => r <= run

\* A claim is the trace of a document, or of a write still under way: only then may
\* WriteDocument report success without writing.
Stored == [p \in Page |-> {document[<<r, p>>].version : r \in 1 .. run}]
DocsAreCurrent == \A p \in Page : p \in Docs(run) => document[<<run, p>>].version = content[p]
WrittenIsStored ==
  \A p \in Page :
    stage[p] = "written" \/ (\E w \in Worker : put[<<p, w>>] = "latest") => content[p] \in Stored[p]
ClaimsAreTraces ==
  \A p \in Page, w \in Worker, v \in Version :
    <<p, v>> \in writtenHash[w] => v \in Stored[p] \/ (content[p] = v /\ put[<<p, w>>] = "run")
StoredInv == DocsAreCurrent /\ WrittenIsStored /\ ClaimsAreTraces

\* What a document will name is in the bucket before it is written.
Naming(p) == stage[p] \in {"fetched", "writing"} \/ \E w \in Worker : put[<<p, w>>] = "run"
HtmlInv ==
  /\ KeysResolve
  /\ \A p \in Page : stage[p] = "todo" => ~UnderWay(p)
  /\ \A p \in Page : writer[p] # "none" => stage[p] = "writing"
  /\ \A p \in Page : Naming(p) /\ htmlKey[p] => Claim(p) \in html

\* A pipeline works on documents that no longer change and forgets none of them but those
\* that may still land.
Accounted(r, p) == <<r, p>> \in silver \cup errorLog \cup unfinished \/ KindOf(r, p) = "blank"
RunInv(r) ==
  /\ step[r] # "new" \/ r \in marker => r \in events
  /\ \A p \in Page : <<r, p>> \in errorLog =>
       r \in events /\ p \in Docs(r) /\ KindOf(r, p) \in {"infected", "unsavable"}
  /\ step[r] = "running" =>
       /\ todo[r] \subseteq Docs(r)
       /\ results[r] \subseteq {p \in Docs(r) : KindOf(r, p) \in {"good", "unsavable"}}
       /\ \A p \in Docs(r) : Accounted(r, p) \/ p \in todo[r] \cup results[r]
  /\ r \in marker => \A p \in Docs(r) : Accounted(r, p)
PipelineInv == \A r \in Run : RunInv(r)

SiteInv == TypeOK /\ CrawlInv /\ StoredInv /\ HtmlInv /\ PipelineInv

-----------------------------------------------------------------------------
(* Type correctness.                                                       *)

LEMMA TypeInit == Init => TypeOK
<1> SUFFICES ASSUME Init PROVE TypeOK
  OBVIOUS
<1>1. (CHOOSE v \in Version : TRUE) \in Version
  BY SiteAssumption
<1>2. NoDoc \in Document /\ NoSummary \in [Counted -> SUBSET Page]
  BY DEF Document, NoSummary
<1>3. 1 \in Run /\ 1 \in 1 .. MaximumAttempts /\ 0 \in 0 .. MaxFaults /\ 0 \in 0 .. Runs
  BY SiteAssumption DEF Run
<1> QED
  BY <1>1, <1>2, <1>3 DEF Init, TypeOK

LEMMA FaultTyped ==
  ASSUME TypeOK, Fault
  PROVE  faults' \in 0 .. MaxFaults
BY SiteAssumption DEF TypeOK, Fault

Stages == {"todo", "left", "fetched", "writing", "written", "presumed", "lost"}
Puts == {"none", "run", "latest"}

LEMMA RetriedTyped ==
  ASSUME TypeOK, NEW p \in Page, NEW a \in Stages, NEW b \in Stages, Retried(p, a, b)
  PROVE  /\ attempt' \in [Page -> 1 .. MaximumAttempts]
         /\ stage' \in [Page -> Stages]
<1>1. attempt[p] \in 1 .. MaximumAttempts /\ stage \in [Page -> Stages]
      /\ attempt \in [Page -> 1 .. MaximumAttempts]
  BY DEF TypeOK, Stages
<1>2. CASE attempt[p] < MaximumAttempts
  <2>1. attempt[p] + 1 \in 1 .. MaximumAttempts
    BY <1>1, <1>2, SiteAssumption
  <2> QED
    BY <1>1, <1>2, <2>1 DEF Retried
<1>3. CASE ~(attempt[p] < MaximumAttempts)
  <2>1. 1 \in 1 .. MaximumAttempts
    BY SiteAssumption
  <2> QED
    BY <1>1, <1>3, <2>1 DEF Retried
<1> QED
  BY <1>2, <1>3

LEMMA ScrapeTyped == TypeOK /\ Scrape => TypeOK'
<1> SUFFICES ASSUME TypeOK, Scrape PROVE TypeOK'
  OBVIOUS
<1>1. CASE CrawlEnds
  BY <1>1 DEF CrawlEnds, TypeOK, crawl, bucket, pipeline
<1>2. CASE NextCrawl
  <2>1. run' \in Run /\ 1 \in 1 .. MaximumAttempts
    BY <1>2, SiteAssumption DEF NextCrawl, TypeOK, Run
  <2> QED
    BY <1>2, <2>1 DEF NextCrawl, TypeOK, bucket, pipeline
<1>3. ASSUME NEW p \in Page, ProcessPage(p) PROVE TypeOK'
  <2>1. Claim(p) \in Page \X Version
    BY DEF Claim, TypeOK
  <2>2. CASE SaveHTML(p) /\ stage' = [stage EXCEPT ![p] = "fetched"]
             /\ attempt' = [attempt EXCEPT ![p] = 1]
    <3>1. faults' \in 0 .. MaxFaults
      BY <2>2, FaultTyped DEF SaveHTML, TypeOK
    <3>2. html' \subseteq Page \X Version /\ htmlKey' \in [Page -> BOOLEAN]
      BY <2>1, <2>2 DEF SaveHTML, TypeOK
    <3>3. 1 \in 1 .. MaximumAttempts
      BY SiteAssumption
    <3> QED
      BY <1>3, <2>2, <3>1, <3>2, <3>3 DEF ProcessPage, TypeOK, pipeline
  <2>3. CASE stage' = [stage EXCEPT ![p] = "left"] /\ UNCHANGED <<attempt, htmlKey, html, faults>>
    BY <1>3, <2>3 DEF ProcessPage, TypeOK, pipeline
  <2>4. CASE Fault /\ Retried(p, "todo", "left") /\ UNCHANGED <<htmlKey, html>>
    <3>1. attempt' \in [Page -> 1 .. MaximumAttempts] /\ stage' \in [Page -> Stages]
      BY <2>4, RetriedTyped DEF Stages
    <3> QED
      BY <1>3, <2>4, <3>1, FaultTyped DEF ProcessPage, TypeOK, pipeline, Stages
  <2> QED
    BY <1>3, <2>2, <2>3, <2>4 DEF ProcessPage
<1>4. ASSUME NEW p \in Page, NEW w \in Worker, WriteDocument(p, w) PROVE TypeOK'
  <2>1. Claim(p) \in Page \X Version
    BY DEF Claim, TypeOK
  <2>2. stage' \in [Page -> Stages] /\ put' \in [Page \X Worker -> Puts]
    BY <1>4 DEF WriteDocument, TypeOK, Stages, Puts
  <2>4. writer' \in [Page -> Worker \cup {"none"}]
    BY <1>4 DEF WriteDocument, TypeOK
  <2>3. writtenHash' \in [Worker -> SUBSET (Page \X Version)]
    <3>1. writtenHash \in [Worker -> SUBSET (Page \X Version)]
      BY DEF TypeOK
    <3>2. CASE Claim(p) \in writtenHash[w]
      BY <1>4, <3>1, <3>2 DEF WriteDocument
    <3>3. CASE Claim(p) \notin writtenHash[w]
      <4>1. writtenHash' = [writtenHash EXCEPT ![w] = @ \cup {Claim(p)}]
        BY <1>4, <3>3 DEF WriteDocument
      <4> HIDE DEF Claim
      <4> QED
        BY <2>1, <3>1, <4>1
    <3> QED
      BY <3>2, <3>3
  <2> QED
    BY <1>4, <2>2, <2>3, <2>4 DEF WriteDocument, TypeOK, bucket, pipeline, Stages, Puts
<1>5. ASSUME NEW p \in Page, NEW w \in Worker, PutRunKey(p, w) PROVE TypeOK'
  <2>1. [version |-> content[p], hasHtml |-> htmlKey[p]] \in Document
    BY DEF TypeOK, Document
  <2>2. document' \in [Run \X Page -> Document]
    BY <1>5, <2>1 DEF PutRunKey, TypeOK
  <2>3. put' \in [Page \X Worker -> Puts]
    BY <1>5 DEF PutRunKey, TypeOK, Puts
  <2> QED
    BY <1>5, <2>2, <2>3 DEF PutRunKey, TypeOK, pipeline, Puts
<1>6. ASSUME NEW p \in Page, NEW w \in Worker, PutLatestKey(p, w) PROVE TypeOK'
  <2>1. [run |-> run, version |-> content[p]] \in [run : 0 .. Runs, version : Version \cup {"none"}]
    BY SiteAssumption DEF TypeOK, Run
  <2>2. latest' \in [Page -> [run : 0 .. Runs, version : Version \cup {"none"}]]
    BY <1>6, <2>1 DEF PutLatestKey, TypeOK
  <2>3. stage' \in [Page -> Stages] /\ put' \in [Page \X Worker -> Puts]
        /\ writer' \in [Page -> Worker \cup {"none"}]
    BY <1>6 DEF PutLatestKey, TypeOK, Stages, Puts
  <2> QED
    BY <1>6, <2>2, <2>3 DEF PutLatestKey, TypeOK, pipeline, Stages, Puts
<1> QED
  BY <1>1, <1>2, <1>3, <1>4, <1>5, <1>6 DEF Scrape

LEMMA PipelineTyped == ASSUME TypeOK, NEW r \in Run, Pipeline(r) PROVE TypeOK'
<1> DEFINE S == [Counted -> SUBSET Page]
<1>1. ASSUME NEW c \in Counted, NEW P \in SUBSET Page PROVE Count(r, c, P) \in [Run -> S]
  <2>1. summary \in [Run -> S] /\ summary[r] \in S /\ summary[r][c] \subseteq Page
    BY DEF TypeOK
  <2>2. [summary[r] EXCEPT ![c] = summary[r][c] \cup P] \in S
    BY <2>1
  <2> QED
    BY <2>1, <2>2 DEF Count
<1>2. CASE Begin(r)
  <2>1. {p \in Page : document[<<r, p>>] # NoDoc} \in SUBSET Page /\ NoSummary \in S
    BY DEF NoSummary
  <2>2. todo' \in [Run -> SUBSET Page]
    BY <1>2, <2>1 DEF Begin, TypeOK
  <2>4. summary' \in [Run -> S]
    BY <1>2, <2>1 DEF Begin, TypeOK
  <2>3. results' \in [Run -> SUBSET Page] /\ step' \in [Run -> {"new", "running", "done"}]
    BY <1>2 DEF Begin, Idle, TypeOK
  <2> QED
    BY <1>2, <2>2, <2>3, <2>4 DEF Begin, TypeOK, crawl, bucket
<1>3. CASE ProcessGroup(r)
  <2> DEFINE of(group, status) == {p \in group : PageStatus(r, p) = status}
  <2>1. PICK group \in SUBSET todo[r] :
          /\ results' = [results EXCEPT ![r] = of(group, "transformed")]
          /\ summary' = [summary EXCEPT ![r] =
               [c \in Counted |-> IF c = "saved" THEN @[c] ELSE @[c] \cup of(group, c)]]
          /\ errorLog' = errorLog \cup ({r} \X (of(group, "rejected") \cup of(group, "failed")))
          /\ todo' = [todo EXCEPT ![r] = @ \ group]
    BY <1>3 DEF ProcessGroup
  <2>2. todo[r] \subseteq Page
    BY DEF TypeOK
  <2>3. \A status : of(group, status) \in SUBSET Page
    BY <2>2
  <2> HIDE DEF of
  <2>4. results' \in [Run -> SUBSET Page] /\ todo' \in [Run -> SUBSET Page]
    BY <2>1, <2>2, <2>3 DEF TypeOK
  <2>5. errorLog' \subseteq Run \X Page
    BY <2>1, <2>3 DEF TypeOK
  <2>6. summary' \in [Run -> S]
    <3>1. [c \in Counted |-> IF c = "saved" THEN summary[r][c]
                             ELSE summary[r][c] \cup of(group, c)] \in S
      BY <2>3 DEF TypeOK
    <3> QED
      BY <2>1, <3>1 DEF TypeOK
  <2> QED
    BY <1>3, <2>4, <2>5, <2>6 DEF ProcessGroup, TypeOK, crawl, bucket
<1>4. CASE Finish(r)
  BY <1>4, FaultTyped DEF Finish, TypeOK, crawl, bucket
<1>5. ASSUME NEW p \in Page, SavePage(r, p) PROVE TypeOK'
  <2>1. Count(r, "failed", {p}) \in [Run -> S] /\ Count(r, "saved", {p}) \in [Run -> S]
    BY <1>1 DEF Counted
  <2>2. summary' \in [Run -> S]
    BY <1>5, <2>1 DEF SavePage
  <2>3. silver' \subseteq Run \X Page /\ errorLog' \subseteq Run \X Page
    BY <1>5 DEF SavePage, TypeOK
  <2> QED
    BY <1>5, <2>2, <2>3 DEF SavePage, TypeOK, crawl, bucket
<1> QED
  BY <1>2, <1>3, <1>4, <1>5 DEF Pipeline

LEMMA FailuresTyped == TypeOK /\ Failures => TypeOK'
<1> SUFFICES ASSUME TypeOK, Failures PROVE TypeOK'
  OBVIOUS
<1>1. ASSUME NEW p \in Page, NEW w \in Worker, WriteFails(p, w) PROVE TypeOK'
  <2>1. attempt' \in [Page -> 1 .. MaximumAttempts] /\ stage' \in [Page -> Stages]
    BY <1>1, RetriedTyped DEF WriteFails, TypeOK, Stages
  <2>2. put' \in [Page \X Worker -> Puts] /\ writer' \in [Page -> Worker \cup {"none"}]
    BY <1>1 DEF WriteFails, TypeOK, Puts
  <2>3. writtenHash' \in [Worker -> SUBSET (Page \X Version)]
    BY <1>1 DEF WriteFails, TypeOK
  <2>4. faults' \in 0 .. MaxFaults
    BY <1>1, FaultTyped DEF WriteFails, TypeOK
  <2> QED
    BY <1>1, <2>1, <2>2, <2>3, <2>4 DEF WriteFails, TypeOK, bucket, pipeline, Stages, Puts
<1>5. ASSUME NEW p \in Page, TimesOut(p) PROVE TypeOK'
  <2>1. attempt' \in [Page -> 1 .. MaximumAttempts] /\ stage' \in [Page -> Stages]
    BY <1>5, RetriedTyped DEF TimesOut, Stages
  <2> QED
    BY <1>5, <2>1, FaultTyped DEF TimesOut, TypeOK, bucket, pipeline, Stages
<1>2. ASSUME NEW w \in Worker, WorkerDies(w) PROVE TypeOK'
  <2> DEFINE hit == {p \in Page : writer[p] = w}
  <2>1. attempt' \in [Page -> 1 .. MaximumAttempts]
    <3>1. \A p \in Page : attempt[p] \in 1 .. MaximumAttempts
      BY DEF TypeOK
    <3>2. \A p \in Page : attempt[p] < MaximumAttempts => attempt[p] + 1 \in 1 .. MaximumAttempts
      BY <3>1, SiteAssumption
    <3>3. attempt' = [p \in Page |-> IF p \in hit /\ attempt[p] < MaximumAttempts
                                       THEN attempt[p] + 1 ELSE attempt[p]]
      BY <1>2 DEF WorkerDies
    <3> QED
      BY <3>1, <3>2, <3>3
  <2>2. put' \in [Page \X Worker -> Puts] /\ writer' \in [Page -> Worker \cup {"none"}]
    BY <1>2 DEF WorkerDies, TypeOK, Puts
  <2>3. stage' \in [Page -> Stages]
    BY <1>2 DEF WorkerDies, TypeOK, Stages
  <2> QED
    BY <1>2, <2>1, <2>2, <2>3, FaultTyped DEF WorkerDies, TypeOK, bucket, pipeline, Stages, Puts
<1>3. ASSUME NEW r \in Run, Outage(r) PROVE TypeOK'
  <2>1. NoSummary \in [Counted -> SUBSET Page]
    BY DEF NoSummary
  <2> QED
    BY <1>3, <2>1, FaultTyped DEF Outage, Idle, TypeOK, crawl, bucket
<1>4. ASSUME NEW r \in Run, Redelivered(r) PROVE TypeOK'
  BY <1>4, FaultTyped DEF Redelivered, TypeOK, crawl, bucket
<1> QED
  BY <1>1, <1>2, <1>3, <1>4, <1>5 DEF Failures

LEMMA TypeStep == TypeOK /\ [Next]_vars => TypeOK'
<1>1. TypeOK /\ UNCHANGED vars => TypeOK'
  BY DEF vars, TypeOK
<1> QED
  BY <1>1, ScrapeTyped, PipelineTyped, FailuresTyped DEF Next, Quiet

\* Type correctness of the crawls, the bucket and the pipelines of a site.
THEOREM Typed == Spec => []TypeOK
BY TypeInit, TypeStep, PTL DEF Spec

-----------------------------------------------------------------------------
(* The crawl: what is claimed is stored, what is named is in the bucket.    *)

LEMMA SiteInvInit == Init => SiteInv
<1> SUFFICES ASSUME Init PROVE SiteInv
  OBVIOUS
<1>1. TypeOK
  BY TypeInit
<1>2. \A r \in Run, p \in Page : document[<<r, p>>] = NoDoc
  BY DEF Init
<1>3. \A r \in Run : Docs(r) = {}
  BY <1>2 DEF Docs
<1>4. CrawlInv
  BY <1>3 DEF Init, CrawlInv
<1>5. StoredInv
  BY <1>1, <1>3 DEF Init, StoredInv, DocsAreCurrent, WrittenIsStored, ClaimsAreTraces, TypeOK
<1>6. HtmlInv
  BY <1>2 DEF Init, HtmlInv, KeysResolve, Missing, NoDoc, UnderWay, Naming
<1>7. PipelineInv
  BY <1>3 DEF Init, PipelineInv, RunInv
<1> QED
  BY <1>1, <1>4, <1>5, <1>6, <1>7 DEF SiteInv

LEMMA RunNumbers == ASSUME TypeOK PROVE run \in Nat \ {0} /\ Run \subseteq Nat /\ 1 .. run \subseteq Run
BY SiteAssumption DEF TypeOK, Run

\* A crawl step other than the PUT of a document leaves all documents alone.
LEMMA DocumentsKept ==
  ASSUME SiteInv, Scrape \/ Failures
  PROVE  \/ \E p \in Page, w \in Worker : PutRunKey(p, w)
         \/ document' = document
BY DEF Scrape, Failures, CrawlEnds, NextCrawl, ProcessPage, PutLatestKey, WriteDocument, WriteFails,
       TimesOut, WorkerDies, Outage, Redelivered, bucket

\* A document is only overwritten with the content it has, and when its crawl is over only
\* an unfinished one may still land.
LEMMA Frozen ==
  ASSUME SiteInv, [Next]_vars, NEW r \in Run, NEW p \in Page
  PROVE  /\ p \in Docs(r) => p \in Docs(r)' /\ document'[<<r, p>>].version = document[<<r, p>>].version
         /\ r \in events /\ p \notin Docs(r) /\ p \in Docs(r)' => <<r, p>> \in unfinished
<1>1. ASSUME NEW q \in Page, NEW w \in Worker, PutRunKey(q, w)
      PROVE  /\ p \in Docs(r) => p \in Docs(r)' /\ document'[<<r, p>>].version = document[<<r, p>>].version
             /\ r \in events /\ p \notin Docs(r) /\ p \in Docs(r)' => <<r, p>> \in unfinished
  <2>1. CASE r = run /\ p = q
    <3>1. document'[<<r, p>>] = [version |-> content[p], hasHtml |-> htmlKey[p]]
      BY <1>1, <2>1 DEF PutRunKey, SiteInv, TypeOK
    <3>2. content[p] # "none"
      BY SiteAssumption DEF SiteInv, TypeOK
    <3>3. p \in Docs(r)'
      BY <3>1, <3>2 DEF Docs, NoDoc
    <3>4. p \in Docs(r) => document[<<r, p>>].version = content[p]
      BY <2>1 DEF SiteInv, StoredInv, DocsAreCurrent
    <3>5. r \in events => <<r, p>> \in unfinished
      BY <1>1, <2>1 DEF PutRunKey, SiteInv, CrawlInv, UnderWay
    <3> QED
      BY <3>1, <3>3, <3>4, <3>5
  <2>2. CASE ~(r = run /\ p = q)
    <3>1. document'[<<r, p>>] = document[<<r, p>>]
      BY <1>1, <2>2 DEF PutRunKey, SiteInv, TypeOK
    <3> QED
      BY <3>1 DEF Docs
  <2> QED
    BY <2>1, <2>2
<1>2. ASSUME NEW s \in Run, Pipeline(s) PROVE document' = document
  BY <1>2 DEF Pipeline, Begin, ProcessGroup, Finish, SavePage, bucket
<1>3. CASE UNCHANGED vars
  BY <1>3 DEF vars, Docs
<1>4. ASSUME document' = document
      PROVE  /\ p \in Docs(r) => p \in Docs(r)' /\ document'[<<r, p>>].version = document[<<r, p>>].version
             /\ r \in events /\ p \notin Docs(r) /\ p \in Docs(r)' => <<r, p>> \in unfinished
  BY <1>4 DEF Docs
<1> QED
  BY <1>1, <1>2, <1>3, <1>4, DocumentsKept DEF Next, Quiet

\* A stored content stays stored: a document is only overwritten with itself.
LEMMA StoredStays ==
  ASSUME SiteInv, NEW q \in Page, NEW w \in Worker, PutRunKey(q, w), NEW p \in Page, NEW v \in Version, v \in Stored[p]
  PROVE  v \in Stored'[p]
<1>1. PICK r \in 1 .. run : document[<<r, p>>].version = v
  BY DEF Stored
<1>2. r \in Run /\ run \in Run
  BY SiteAssumption DEF SiteInv, TypeOK, Run
<1>3. CASE r = run /\ p = q
  <2>1. document[<<run, p>>] # NoDoc
    BY <1>1, <1>3, SiteAssumption DEF NoDoc
  <2>2. content[p] = v
    BY <1>1, <1>3, <2>1 DEF Docs, SiteInv, StoredInv, DocsAreCurrent
  <2>3. document'[<<run, p>>].version = v
    BY <1>2, <1>3, <2>2 DEF PutRunKey, SiteInv, TypeOK
  <2> QED
    BY <1>1, <1>3, <2>3 DEF Stored, PutRunKey
<1>4. CASE ~(r = run /\ p = q)
  <2>1. document'[<<r, p>>] = document[<<r, p>>]
    BY <1>2, <1>4 DEF PutRunKey, SiteInv, TypeOK
  <2> QED
    BY <1>1, <2>1 DEF Stored, PutRunKey
<1> QED
  BY <1>3, <1>4

LEMMA CrawlStep == ASSUME SiteInv, Scrape \/ Failures PROVE CrawlInv'
<1> USE DEF SiteInv, CrawlInv
<1> DEFINE Ended == {"written", "presumed", "lost", "left"}
<1>0. \A p \in Page : writer[p] # "none" => stage[p] = "writing"
  BY DEF HtmlInv
<1>1. CASE CrawlEnds
  <2>1. UNCHANGED <<run, stage, document, put>> /\ events' = events \cup {run}
        /\ \A p \in Page : stage[p] \in Ended
    BY <1>1 DEF CrawlEnds, crawl, bucket
  <2>2. run' = run /\ run \in 1 .. run
    BY <2>1, RunNumbers
  <2>3. events' \subseteq 1 .. run'
    BY <2>1, <2>2
  <2>4. \A p \in Page : UnderWay(p)' => <<run', p>> \in unfinished'
    BY <1>1, <2>1 DEF CrawlEnds, UnderWay
  <2>5. \A r \in Run : Docs(r)' # {} => r <= run'
    BY <2>1 DEF Docs
  <2> QED
    BY <2>1, <2>3, <2>4, <2>5
<1>2. CASE NextCrawl
  <2>1. run' = run + 1 /\ UNCHANGED <<document, events>>
    BY <1>2 DEF NextCrawl, bucket
  <2>2. events' \subseteq 1 .. run' /\ run' \notin events'
    BY <2>1, RunNumbers
  <2>3. \A r \in Run : Docs(r)' # {} => r <= run'
    BY <2>1, RunNumbers DEF Docs
  <2> QED
    BY <2>2, <2>3
<1>3. ASSUME NEW p \in Page, ProcessPage(p) PROVE CrawlInv'
  BY <1>3 DEF ProcessPage, Docs, UnderWay
<1>4. ASSUME NEW p \in Page, NEW w \in Worker, WriteDocument(p, w) PROVE CrawlInv'
  BY <1>4 DEF WriteDocument, Docs, bucket
<1>5. ASSUME NEW p \in Page, NEW w \in Worker, PutRunKey(p, w) PROVE CrawlInv'
  <2>1. \A r \in Run : Docs(r)' # {} => r <= run
    <3>1. \A r \in Run, q \in Page : r # run => document'[<<r, q>>] = document[<<r, q>>]
      BY <1>5 DEF PutRunKey, TypeOK
    <3> QED
      BY <3>1, RunNumbers DEF Docs
  <2>2. \A q \in Page : UnderWay(q)' => UnderWay(q)
    BY <1>5 DEF PutRunKey, UnderWay, TypeOK
  <2> QED
    BY <1>5, <2>1, <2>2 DEF PutRunKey
<1>6. ASSUME NEW p \in Page, NEW w \in Worker, PutLatestKey(p, w) PROVE CrawlInv'
  <2>1. \A q \in Page : UnderWay(q)' => UnderWay(q)
    BY <1>6 DEF PutLatestKey, UnderWay, TypeOK
  <2>2. \A q \in Page : stage[q] \in Ended => stage'[q] \in Ended
    BY <1>6 DEF PutLatestKey, TypeOK
  <2> QED
    BY <1>6, <2>1, <2>2 DEF PutLatestKey, Docs
<1>7. ASSUME NEW p \in Page, NEW w \in Worker, WriteFails(p, w) PROVE CrawlInv'
  <2>1. \A q \in Page : UnderWay(q)' => UnderWay(q)
    BY <1>7 DEF WriteFails, UnderWay, TypeOK
  <2>2. ASSUME NEW q \in Page, stage[q] \in Ended PROVE stage'[q] \in Ended
    <3>1. CASE writer[p] = w
      <4>1. stage[p] = "writing"
        BY <1>0, <3>1, SiteAssumption
      <4> QED
        BY <1>7, <2>2, <3>1, <4>1 DEF WriteFails, Retried, TypeOK
    <3>2. CASE writer[p] # w
      BY <1>7, <2>2, <3>2 DEF WriteFails
    <3> QED
      BY <3>1, <3>2
  <2> QED
    BY <1>7, <2>1, <2>2 DEF WriteFails, Docs, bucket
<1>8. ASSUME NEW p \in Page, TimesOut(p) PROVE CrawlInv'
  <2>1. \A q \in Page : stage[q] \in Ended => stage'[q] = stage[q]
    BY <1>8 DEF TimesOut, Retried, TypeOK
  <2> QED
    BY <1>8, <2>1 DEF TimesOut, Docs, UnderWay, bucket
<1>9. ASSUME NEW w \in Worker, WorkerDies(w) PROVE CrawlInv'
  <2>1. \A q \in Page : UnderWay(q)' => UnderWay(q)
    BY <1>9 DEF WorkerDies, UnderWay
  <2>2. \A q \in Page : stage[q] \in Ended => stage'[q] = stage[q]
    BY <1>0, <1>9, SiteAssumption DEF WorkerDies
  <2> QED
    BY <1>9, <2>1, <2>2 DEF WorkerDies, Docs, bucket
<1>10. ASSUME NEW r \in Run, Outage(r) \/ Redelivered(r) PROVE CrawlInv'
  BY <1>10 DEF Outage, Redelivered, Docs, UnderWay, crawl, bucket
<1> QED
  BY <1>1, <1>2, <1>3, <1>4, <1>5, <1>6, <1>7, <1>8, <1>9, <1>10 DEF Scrape, Failures

LEMMA HtmlStep == ASSUME SiteInv, Scrape \/ Failures PROVE HtmlInv'
<1> USE DEF SiteInv, HtmlInv
<1> DEFINE Settled(p) == /\ stage[p] = "todo" => ~UnderWay(p)
                         /\ writer[p] # "none" => stage[p] = "writing"
                         /\ Naming(p) /\ htmlKey[p] => Claim(p) \in html
<1>0. \A p \in Page : Settled(p)
  OBVIOUS
<1>1. CASE CrawlEnds
  BY <1>1 DEF CrawlEnds, KeysResolve, Missing, Claim, UnderWay, Naming, crawl, bucket
<1>2. CASE NextCrawl
  <2>1. KeysResolve'
    BY <1>2 DEF NextCrawl, KeysResolve, Missing, bucket
  <2>2. \A p \in Page : ~UnderWay(p) /\ writer[p] = "none"
    BY <1>2 DEF NextCrawl, CrawlInv
  <2>3. \A p \in Page : ~UnderWay(p)' /\ writer'[p] = "none" /\ stage'[p] \in {"left", "todo"}
    BY <1>2, <2>2 DEF NextCrawl, UnderWay
  <2>4. \A p \in Page : ~Naming(p)'
    BY <2>3 DEF Naming, UnderWay
  <2> QED
    BY <2>1, <2>3, <2>4
<1>3. ASSUME NEW p \in Page, ProcessPage(p) PROVE HtmlInv'
  <2>1. html \subseteq html' /\ UNCHANGED <<document, content, put, writer>> /\ stage[p] = "todo"
    BY <1>3 DEF ProcessPage, SaveHTML
  <2>2. KeysResolve'
    BY <2>1 DEF KeysResolve, Missing
  <2>3. \A q \in Page : q # p => stage'[q] = stage[q] /\ htmlKey'[q] = htmlKey[q]
    BY <1>3 DEF ProcessPage, SaveHTML, Retried, TypeOK
  <2>4. \A q \in Page : q # p => Settled(q)'
    BY <1>0, <2>1, <2>3 DEF UnderWay, Naming, Claim
  <2>5. ~UnderWay(p) /\ ~UnderWay(p)' /\ writer'[p] = "none"
    BY <2>1 DEF UnderWay
  <2>6. stage'[p] \in {"todo", "left"} \/ (stage'[p] = "fetched" /\ (htmlKey'[p] => Claim(p) \in html'))
    BY <1>3 DEF ProcessPage, SaveHTML, Retried, TypeOK
  <2>7. Settled(p)'
    BY <2>1, <2>5, <2>6 DEF Naming, UnderWay, Claim
  <2> QED
    BY <2>2, <2>4, <2>7
<1>4. ASSUME NEW p \in Page, NEW w \in Worker, WriteDocument(p, w) PROVE HtmlInv'
  <2>1. UNCHANGED <<document, content, html, htmlKey>> /\ stage[p] = "fetched"
    BY <1>4 DEF WriteDocument, bucket
  <2>2. KeysResolve'
    BY <2>1 DEF KeysResolve, Missing
  <2>3. \A q \in Page : q # p => /\ stage'[q] = stage[q] /\ writer'[q] = writer[q]
                                /\ \A u \in Worker : put'[<<q, u>>] = put[<<q, u>>]
    BY <1>4 DEF WriteDocument, TypeOK
  <2>4. \A q \in Page : q # p => Settled(q)'
    <3>1. \A q \in Page : q # p => (UnderWay(q)' => UnderWay(q)) /\ (Naming(q)' => Naming(q))
      BY <2>3 DEF UnderWay, Naming
    <3> QED
      BY <1>0, <2>1, <2>3, <3>1 DEF Claim
  <2>5. stage'[p] \in {"written", "presumed", "writing"} /\ (writer'[p] # "none" => stage'[p] = "writing")
    BY <1>4, <2>1 DEF WriteDocument, TypeOK
  <2>6. htmlKey[p] => Claim(p) \in html
    BY <2>1 DEF Naming
  <2>7. Settled(p)'
    BY <2>1, <2>5, <2>6 DEF Claim
  <2> QED
    BY <2>2, <2>4, <2>7
<1>5. ASSUME NEW p \in Page, NEW w \in Worker, PutRunKey(p, w) PROVE HtmlInv'
  <2>1. ASSUME NEW r \in Run, NEW q \in Page PROVE ~Missing(r, q)'
    <3>1. CASE r = run /\ q = p
      BY <1>5, <3>1 DEF PutRunKey, Missing, Claim, Naming, TypeOK
    <3>2. CASE ~(r = run /\ q = p)
      BY <1>5, <3>2 DEF PutRunKey, KeysResolve, Missing, TypeOK
    <3> QED
      BY <3>1, <3>2
  <2>2. UNCHANGED <<stage, content, html, htmlKey, writer>>
    BY <1>5 DEF PutRunKey
  <2>3. \A q \in Page, u \in Worker :
          put'[<<q, u>>] = put[<<q, u>>] \/ (put[<<q, u>>] = "run" /\ put'[<<q, u>>] = "latest")
    BY <1>5 DEF PutRunKey, TypeOK
  <2>4. \A q \in Page : Settled(q)'
    <3>1. \A q \in Page : (UnderWay(q)' => UnderWay(q)) /\ (Naming(q)' => Naming(q))
      BY <2>2, <2>3 DEF UnderWay, Naming
    <3> QED
      BY <1>0, <2>2, <3>1 DEF Claim
  <2> QED
    BY <2>1, <2>4 DEF KeysResolve
<1>6. ASSUME NEW p \in Page, NEW w \in Worker, PutLatestKey(p, w) PROVE HtmlInv'
  <2>1. UNCHANGED <<document, content, html, htmlKey>>
    BY <1>6 DEF PutLatestKey
  <2>2. KeysResolve'
    BY <2>1 DEF KeysResolve, Missing
  <2>3. \A q \in Page : \/ stage'[q] = stage[q] /\ writer'[q] = writer[q]
                        \/ stage'[q] = "written" /\ writer'[q] = "none"
    <3>1. CASE writer[p] = w
      BY <1>6, <3>1 DEF PutLatestKey, TypeOK
    <3>2. CASE writer[p] # w
      BY <1>6, <3>2 DEF PutLatestKey
    <3> QED
      BY <3>1, <3>2
  <2>4. \A q \in Page, u \in Worker : put'[<<q, u>>] = put[<<q, u>>] \/ put'[<<q, u>>] = "none"
    BY <1>6 DEF PutLatestKey, TypeOK
  <2>5. \A q \in Page : Settled(q)'
    <3>1. \A q \in Page : (UnderWay(q)' => UnderWay(q)) /\ (Naming(q)' => Naming(q))
      BY <2>3, <2>4 DEF UnderWay, Naming
    <3> QED
      BY <1>0, <2>1, <2>3, <3>1 DEF Claim
  <2> QED
    BY <2>2, <2>5
<1>7. ASSUME NEW p \in Page, NEW w \in Worker, WriteFails(p, w) PROVE HtmlInv'
  <2>1. UNCHANGED <<document, content, html, htmlKey>>
    BY <1>7 DEF WriteFails, bucket
  <2>2. KeysResolve'
    BY <2>1 DEF KeysResolve, Missing
  <2>3. writer[p] = w => stage[p] = "writing"
    BY SiteAssumption
  <2>4. \A q \in Page : \/ stage'[q] = stage[q] /\ writer'[q] = writer[q]
                        \/ /\ stage[q] = "writing" /\ stage'[q] \in {"fetched", "lost"}
                           /\ writer'[q] = "none"
    BY <1>7, <2>3 DEF WriteFails, Retried, TypeOK
  <2>5. \A q \in Page, u \in Worker : put'[<<q, u>>] = put[<<q, u>>] \/ put'[<<q, u>>] = "none"
    BY <1>7 DEF WriteFails, TypeOK
  <2>6. \A q \in Page : Settled(q)'
    <3>1. \A q \in Page : (UnderWay(q)' => UnderWay(q)) /\ (Naming(q)' => Naming(q))
      BY <2>4, <2>5 DEF UnderWay, Naming
    <3> QED
      BY <1>0, <2>1, <2>4, <3>1 DEF Claim
  <2> QED
    BY <2>2, <2>6
<1>8. ASSUME NEW p \in Page, TimesOut(p) PROVE HtmlInv'
  <2>1. UNCHANGED <<document, content, html, htmlKey, put>>
    BY <1>8 DEF TimesOut, bucket
  <2>2. KeysResolve'
    BY <2>1 DEF KeysResolve, Missing
  <2>3. \A q \in Page : \/ stage'[q] = stage[q] /\ writer'[q] = writer[q]
                        \/ /\ stage[q] = "writing" /\ stage'[q] \in {"fetched", "lost"}
                           /\ writer'[q] = "none"
    BY <1>8 DEF TimesOut, Retried, TypeOK
  <2>4. \A q \in Page : Settled(q)'
    BY <1>0, <2>1, <2>3 DEF UnderWay, Naming, Claim
  <2> QED
    BY <2>2, <2>4
<1>9. ASSUME NEW w \in Worker, WorkerDies(w) PROVE HtmlInv'
  <2>1. UNCHANGED <<document, content, html, htmlKey>>
    BY <1>9 DEF WorkerDies, bucket
  <2>2. KeysResolve'
    BY <2>1 DEF KeysResolve, Missing
  <2>3. \A q \in Page : \/ stage'[q] = stage[q] /\ writer'[q] = writer[q]
                        \/ /\ stage[q] = "writing" /\ stage'[q] \in {"fetched", "lost"}
                           /\ writer'[q] = "none"
    BY <1>9, SiteAssumption DEF WorkerDies
  <2>4. \A q \in Page, u \in Worker : put'[<<q, u>>] = put[<<q, u>>] \/ put'[<<q, u>>] = "none"
    BY <1>9 DEF WorkerDies
  <2>5. \A q \in Page : Settled(q)'
    <3>1. \A q \in Page : (UnderWay(q)' => UnderWay(q)) /\ (Naming(q)' => Naming(q))
      BY <2>3, <2>4 DEF UnderWay, Naming
    <3> QED
      BY <1>0, <2>1, <2>3, <3>1 DEF Claim
  <2> QED
    BY <2>2, <2>5
<1>10. ASSUME NEW r \in Run, Outage(r) \/ Redelivered(r) PROVE HtmlInv'
  BY <1>10 DEF Outage, Redelivered, KeysResolve, Missing, Claim, UnderWay, Naming, crawl, bucket
<1> QED
  BY <1>1, <1>2, <1>3, <1>4, <1>5, <1>6, <1>7, <1>8, <1>9, <1>10 DEF Scrape, Failures

LEMMA StoredStep == ASSUME SiteInv, TypeOK', Scrape \/ Failures PROVE StoredInv'
<1> USE DEF SiteInv, StoredInv
<1> DEFINE Kept == \A p \in Page : Stored[p] \subseteq Stored'[p]
<1>0. \A p \in Page : content[p] \in Version
  BY DEF TypeOK
<1>1. CASE CrawlEnds \/ \E r \in Run : Outage(r) \/ Redelivered(r)
  <2>1. UNCHANGED <<run, content, stage, put, writtenHash, document>>
    BY <1>1 DEF CrawlEnds, Outage, Redelivered, crawl, bucket
  <2> QED
    BY <2>1 DEF DocsAreCurrent, WrittenIsStored, ClaimsAreTraces, Docs, Stored
<1>2. CASE NextCrawl
  <2>1. run' = run + 1 /\ run' \in Run /\ UNCHANGED <<document, put, writtenHash>>
    BY <1>2, RunNumbers DEF NextCrawl, TypeOK, bucket
  <2>2. Docs(run)' = {}
    BY <2>1, RunNumbers DEF CrawlInv, Docs
  <2>3. Kept
    <3>1. 1 .. run \subseteq 1 .. run'
      BY <2>1, RunNumbers
    <3> QED
      BY <2>1, <3>1 DEF Stored
  <2>4. \A p \in Page : stage'[p] # "written" /\ \A w \in Worker : put[<<p, w>>] = "none"
    BY <1>2 DEF NextCrawl, UnderWay
  <2>5. DocsAreCurrent' /\ WrittenIsStored'
    BY <2>1, <2>2, <2>4 DEF DocsAreCurrent, WrittenIsStored
  <2>6. ClaimsAreTraces'
    BY <2>1, <2>3, <2>4 DEF ClaimsAreTraces
  <2> QED
    BY <2>5, <2>6
<1>3. ASSUME NEW p \in Page, ProcessPage(p) \/ TimesOut(p) PROVE StoredInv'
  <2>1. UNCHANGED <<run, content, document, put, writtenHash>>
    BY <1>3 DEF ProcessPage, TimesOut, bucket
  <2>2. \A q \in Page : stage'[q] = "written" => stage[q] = "written"
    BY <1>3 DEF ProcessPage, TimesOut, Retried, TypeOK
  <2>3. Stored' = Stored /\ Docs(run)' = Docs(run)
    BY <2>1 DEF Stored, Docs
  <2>4. DocsAreCurrent' /\ WrittenIsStored'
    BY <2>1, <2>2, <2>3 DEF DocsAreCurrent, WrittenIsStored
  <2>5. ClaimsAreTraces'
    BY <2>1, <2>3 DEF ClaimsAreTraces
  <2> QED
    BY <2>4, <2>5
<1>4. ASSUME NEW p \in Page, NEW w \in Worker, WriteDocument(p, w) PROVE StoredInv'
  <2>1. UNCHANGED <<run, content, document>>
    BY <1>4 DEF WriteDocument, bucket
  <2>2. Stored' = Stored /\ Docs(run)' = Docs(run)
    BY <2>1 DEF Stored, Docs
  <2>3. DocsAreCurrent'
    BY <2>1, <2>2 DEF DocsAreCurrent
  <2>4. CASE Claim(p) \in writtenHash[w]
    <3>1. UNCHANGED <<put, writtenHash>>
      BY <1>4, <2>4 DEF WriteDocument
    <3>2. \A q \in Page : stage'[q] = "written" =>
            stage[q] = "written" \/ (q = p /\ put[<<p, w>>] = "none")
      BY <1>4, <2>4 DEF WriteDocument, TypeOK
    <3>3. put[<<p, w>>] = "none" => content[p] \in Stored[p]
      BY <1>0, <2>4 DEF Claim, ClaimsAreTraces
    <3>4. WrittenIsStored' /\ ClaimsAreTraces'
      BY <2>1, <2>2, <3>1, <3>2, <3>3 DEF WrittenIsStored, ClaimsAreTraces
    <3> QED
      BY <2>3, <3>4
  <2>5. CASE Claim(p) \notin writtenHash[w]
    <3>1. \A q \in Page : stage'[q] = "written" => stage[q] = "written"
      BY <1>4, <2>5 DEF WriteDocument, TypeOK
    <3>2. \A q \in Page, u \in Worker :
            put'[<<q, u>>] = IF q = p /\ u = w THEN "run" ELSE put[<<q, u>>]
      <4>1. put' = [put EXCEPT ![<<p, w>>] = "run"]
        BY <1>4, <2>5 DEF WriteDocument
      <4>2. put \in [Page \X Worker -> {"none", "run", "latest"}]
        BY DEF TypeOK
      <4> QED
        BY <4>1, <4>2
    <3>3. \A u \in Worker : writtenHash'[u] = IF u = w THEN writtenHash[u] \cup {<<p, content[p]>>}
                                                       ELSE writtenHash[u]
      BY <1>4, <2>5 DEF WriteDocument, Claim, TypeOK
    <3>4. WrittenIsStored'
      BY <2>1, <2>2, <3>1, <3>2 DEF WrittenIsStored
    <3>5. ASSUME NEW q \in Page, NEW u \in Worker, NEW v \in Version, <<q, v>> \in writtenHash'[u]
          PROVE  v \in Stored[q] \/ (content[q] = v /\ put'[<<q, u>>] = "run")
      <4>1. CASE <<q, v>> \in writtenHash[u]
        BY <3>2, <4>1 DEF ClaimsAreTraces
      <4>2. CASE <<q, v>> \notin writtenHash[u]
        <5>1. u = w /\ <<q, v>> \in {<<p, content[p]>>}
          BY <3>3, <3>5, <4>2
        <5> QED
          BY <3>2, <5>1
      <4> QED
        BY <4>1, <4>2
    <3>6. ClaimsAreTraces'
      BY <2>1, <2>2, <3>5 DEF ClaimsAreTraces
    <3> QED
      BY <2>3, <3>4, <3>6
  <2> QED
    BY <2>4, <2>5
<1>5. ASSUME NEW p \in Page, NEW w \in Worker, PutRunKey(p, w) PROVE StoredInv'
  <2>1. UNCHANGED <<run, content, stage, writtenHash>> /\ put[<<p, w>>] = "run"
    BY <1>5 DEF PutRunKey
  <2>2. \A q \in Page : document'[<<run, q>>] = IF q = p THEN [version |-> content[p],
                                                               hasHtml |-> htmlKey[p]]
                                                         ELSE document[<<run, q>>]
    BY <1>5 DEF PutRunKey, TypeOK
  <2>3. DocsAreCurrent'
    BY <2>1, <2>2 DEF DocsAreCurrent, Docs
  <2>4. content[p] \in Stored'[p]
    BY <2>1, <2>2, RunNumbers DEF Stored
  <2>5. \A q \in Page, u \in Worker :
          put'[<<q, u>>] = IF q = p /\ u = w THEN "latest" ELSE put[<<q, u>>]
    BY <1>5 DEF PutRunKey, TypeOK
  <2>6. \A q \in Page, v \in Version : v \in Stored[q] => v \in Stored'[q]
    BY <1>5, StoredStays
  <2>7. WrittenIsStored'
    BY <1>0, <2>1, <2>4, <2>5, <2>6 DEF WrittenIsStored
  <2>8. ClaimsAreTraces'
    BY <2>1, <2>4, <2>5, <2>6 DEF ClaimsAreTraces
  <2> QED
    BY <2>3, <2>7, <2>8
<1>6. ASSUME NEW p \in Page, NEW w \in Worker, PutLatestKey(p, w) PROVE StoredInv'
  <2>1. UNCHANGED <<run, content, document, writtenHash>> /\ put[<<p, w>>] = "latest"
    BY <1>6 DEF PutLatestKey
  <2>2. Stored' = Stored /\ Docs(run)' = Docs(run)
    BY <2>1 DEF Stored, Docs
  <2>3. content[p] \in Stored[p]
    BY <2>1 DEF WrittenIsStored
  <2>4. \A q \in Page : stage'[q] = "written" => stage[q] = "written" \/ q = p
    BY <1>6 DEF PutLatestKey, TypeOK
  <2>5. \A q \in Page, u \in Worker :
          put'[<<q, u>>] = IF q = p /\ u = w THEN "none" ELSE put[<<q, u>>]
    BY <1>6 DEF PutLatestKey, TypeOK
  <2>6. DocsAreCurrent' /\ WrittenIsStored'
    BY <2>1, <2>2, <2>3, <2>4, <2>5 DEF DocsAreCurrent, WrittenIsStored
  <2>7. ClaimsAreTraces'
    BY <2>1, <2>2, <2>3, <2>5 DEF ClaimsAreTraces
  <2> QED
    BY <2>6, <2>7
<1>7. ASSUME NEW p \in Page, NEW w \in Worker, WriteFails(p, w) PROVE StoredInv'
  <2>1. UNCHANGED <<run, content, document>>
    BY <1>7 DEF WriteFails, bucket
  <2>2. Stored' = Stored /\ Docs(run)' = Docs(run)
    BY <2>1 DEF Stored, Docs
  <2>3. \A q \in Page : stage'[q] = "written" => stage[q] = "written"
    BY <1>7 DEF WriteFails, Retried, TypeOK
  <2>4. \A q \in Page, u \in Worker :
          put'[<<q, u>>] = IF q = p /\ u = w THEN "none" ELSE put[<<q, u>>]
    BY <1>7 DEF WriteFails, TypeOK
  <2>5. \A u \in Worker : writtenHash'[u] = IF u = w THEN writtenHash[u] \ {<<p, content[p]>>}
                                                     ELSE writtenHash[u]
    BY <1>7 DEF WriteFails, Claim, TypeOK
  <2>6. DocsAreCurrent' /\ WrittenIsStored'
    BY <2>1, <2>2, <2>3, <2>4 DEF DocsAreCurrent, WrittenIsStored
  <2>7. ASSUME NEW q \in Page, NEW u \in Worker, NEW v \in Version, <<q, v>> \in writtenHash'[u]
        PROVE  v \in Stored[q] \/ (content[q] = v /\ put'[<<q, u>>] = "run")
    <3>1. <<q, v>> \in writtenHash[u] /\ ~(u = w /\ <<q, v>> = <<p, content[p]>>)
      BY <2>5, <2>7
    <3>2. v \in Stored[q] \/ (content[q] = v /\ put[<<q, u>>] = "run")
      BY <3>1 DEF ClaimsAreTraces
    <3> QED
      BY <2>4, <3>1, <3>2
  <2>8. ClaimsAreTraces'
    BY <2>1, <2>2, <2>7 DEF ClaimsAreTraces
  <2> QED
    BY <2>6, <2>8
<1>8. ASSUME NEW w \in Worker, WorkerDies(w) PROVE StoredInv'
  <2>1. \A q \in Page : stage'[q] = "written" => stage[q] = "written"
    BY <1>8 DEF WorkerDies
  <2>2. \A u \in Worker : writtenHash'[u] = IF u = w THEN {} ELSE writtenHash[u]
    BY <1>8 DEF WorkerDies, TypeOK
  <2>3. \A q \in Page, u \in Worker : put'[<<q, u>>] = IF u = w THEN "none" ELSE put[<<q, u>>]
    BY <1>8 DEF WorkerDies
  <2>4. UNCHANGED <<run, content, document>>
    BY <1>8 DEF WorkerDies, bucket
  <2>5. Stored' = Stored /\ Docs(run)' = Docs(run)
    BY <2>4 DEF Stored, Docs
  <2>6. DocsAreCurrent' /\ WrittenIsStored'
    BY <2>1, <2>3, <2>4, <2>5 DEF DocsAreCurrent, WrittenIsStored
  <2>7. ClaimsAreTraces'
    BY <2>2, <2>3, <2>4, <2>5 DEF ClaimsAreTraces
  <2> QED
    BY <2>6, <2>7
<1> QED
  BY <1>1, <1>2, <1>3, <1>4, <1>5, <1>6, <1>7, <1>8 DEF Scrape, Failures

\* A failure of a pipeline or of a process touches nothing else of a crawl.
LEMMA CrawlParts ==
  ASSUME SiteInv, [Next]_vars
  PROVE  CrawlInv' /\ StoredInv' /\ HtmlInv'
<1>1. TypeOK'
  BY TypeStep DEF SiteInv
<1>2. ASSUME UNCHANGED <<crawl, bucket, events, unfinished>> PROVE CrawlInv' /\ StoredInv' /\ HtmlInv'
  BY <1>2 DEF SiteInv, CrawlInv, StoredInv, DocsAreCurrent, WrittenIsStored, ClaimsAreTraces,
              HtmlInv, KeysResolve, Missing, Claim, Docs, Stored, UnderWay, Naming, crawl, bucket
<1>3. ASSUME NEW r \in Run, Pipeline(r) PROVE UNCHANGED <<crawl, bucket, events, unfinished>>
  BY <1>3 DEF Pipeline, Begin, ProcessGroup, Finish, SavePage, crawl, bucket
<1>4. UNCHANGED vars => UNCHANGED <<crawl, bucket, events, unfinished>>
  BY DEF vars, crawl, bucket
<1> QED
  BY <1>1, <1>2, <1>3, <1>4, CrawlStep, StoredStep, HtmlStep DEF Next, Quiet

-----------------------------------------------------------------------------
(* The pipelines: every document is on its way to an end, exactly as it is. *)

\* With no object missing, a page's outcome is a matter of its content.
LEMMA StatusOfPage ==
  ASSUME SiteInv, NEW r \in Run, NEW p \in Docs(r)
  PROVE  /\ PageStatus(r, p) # "failed"
         /\ PageStatus(r, p) = "rejected" => KindOf(r, p) = "infected"
         /\ PageStatus(r, p) = "transformed" => KindOf(r, p) \in {"good", "unsavable"}
         /\ \/ PageStatus(r, p) \in {"rejected", "transformed"}
            \/ KindOf(r, p) = "blank"
<1>1. ~Missing(r, p)
  BY DEF SiteInv, HtmlInv, KeysResolve, Docs
<1>2. document[<<r, p>>].version \in Version /\ p \in Page
  BY DEF Docs, Document, SiteInv, TypeOK
<1>3. KindOf(r, p) \in Kinds
  BY <1>2, SiteAssumption DEF KindOf
<1> QED
  BY <1>1, <1>3 DEF PageStatus, Kinds

\* What a pipeline knows of its run depends on that run alone.
LEMMA OtherRun ==
  ASSUME SiteInv, [Next]_vars, NEW r \in Run,
         step'[r] = step[r], todo'[r] = todo[r], results'[r] = results[r],
         r \in marker' <=> r \in marker, events \subseteq events',
         unfinished \subseteq unfinished',
         \A p \in Page : /\ <<r, p>> \in errorLog' <=> <<r, p>> \in errorLog
                         /\ <<r, p>> \in silver' <=> <<r, p>> \in silver
  PROVE  RunInv(r)'
<1>1. RunInv(r)
  BY DEF SiteInv, PipelineInv
<1>2. CASE r \in events
  <2>1. \A p \in Docs(r) : p \in Page /\ p \in Docs(r)' /\ KindOf(r, p)' = KindOf(r, p)
    BY Frozen DEF Docs, KindOf
  <2>2. \A p \in Docs(r)' : p \in Page /\ (p \in Docs(r) \/ <<r, p>> \in unfinished')
    BY <1>2, Frozen DEF Docs
  <2>3. \A p \in Docs(r) : Accounted(r, p) => Accounted(r, p)'
    BY <2>1 DEF Accounted
  <2>4. \A p \in Docs(r)' : p \in Docs(r) \/ Accounted(r, p)'
    BY <2>2 DEF Accounted
  <2> HIDE DEF Docs, KindOf, Accounted
  <2>5. step[r] = "running" => /\ todo[r] \subseteq Docs(r)'
                               /\ results[r] \subseteq {p \in Docs(r)' : KindOf(r, p)' \in {"good", "unsavable"}}
                               /\ \A p \in Docs(r)' : Accounted(r, p)' \/ p \in todo[r] \cup results[r]
    BY <1>1, <2>1, <2>3, <2>4 DEF RunInv
  <2>6. r \in marker => \A p \in Docs(r)' : Accounted(r, p)'
    BY <1>1, <2>3, <2>4 DEF RunInv
  <2>7. \A p \in Page : <<r, p>> \in errorLog =>
          p \in Docs(r)' /\ KindOf(r, p)' \in {"infected", "unsavable"}
    BY <1>1, <2>1 DEF RunInv
  <2> QED
    BY <1>1, <1>2, <2>5, <2>6, <2>7 DEF RunInv
<1>3. CASE r \notin events
  <2>1. step[r] = "new" /\ r \notin marker /\ \A p \in Page : <<r, p>> \notin errorLog
    BY <1>1, <1>3 DEF RunInv
  <2> QED
    BY <2>1 DEF RunInv
<1> QED
  BY <1>2, <1>3

\* A step of run r's pipeline leaves the pipelines of the other runs as they are.
LEMMA OthersKept ==
  ASSUME SiteInv, [Next]_vars, NEW r \in Run, Pipeline(r) \/ Outage(r) \/ Redelivered(r),
         NEW s \in Run, s # r
  PROVE  RunInv(s)'
<1>1. /\ step'[s] = step[s] /\ todo'[s] = todo[s] /\ results'[s] = results[s]
      /\ s \in marker' <=> s \in marker
      /\ events' = events /\ unfinished' = unfinished
      /\ \A p \in Page : /\ <<s, p>> \in errorLog' <=> <<s, p>> \in errorLog
                         /\ <<s, p>> \in silver' <=> <<s, p>> \in silver
  <2> USE DEF Idle, TypeOK, SiteInv
  <2>1. CASE Begin(r)
    BY <2>1 DEF Begin
  <2>2. CASE ProcessGroup(r)
    BY <2>2 DEF ProcessGroup
  <2>3. CASE Finish(r)
    BY <2>3 DEF Finish
  <2>4. ASSUME NEW p \in Page, SavePage(r, p) 
        PROVE  /\ step'[s] = step[s] /\ todo'[s] = todo[s] /\ results'[s] = results[s]
               /\ s \in marker' <=> s \in marker
               /\ events' = events /\ unfinished' = unfinished
               /\ \A q \in Page : /\ <<s, q>> \in errorLog' <=> <<s, q>> \in errorLog
                                  /\ <<s, q>> \in silver' <=> <<s, q>> \in silver
    BY <2>4 DEF SavePage
  <2>5. CASE Outage(r)
    BY <2>5 DEF Outage
  <2>6. CASE Redelivered(r)
    BY <2>6 DEF Redelivered
  <2> QED
    BY <2>1, <2>2, <2>3, <2>4, <2>5, <2>6 DEF Pipeline
<1> QED
  BY <1>1, OtherRun

LEMMA OwnRun ==
  ASSUME SiteInv, TypeOK', NEW r \in Run, Pipeline(r) \/ Outage(r) \/ Redelivered(r)
  PROVE  RunInv(r)'
<1>1. RunInv(r) /\ TypeOK
  BY DEF SiteInv, PipelineInv
<1>2. UNCHANGED <<document, events, unfinished>>
  BY DEF Pipeline, Begin, ProcessGroup, Finish, SavePage, Outage, Redelivered, bucket
<1>3. Docs(r)' = Docs(r) /\ (\A p \in Page : KindOf(r, p)' = KindOf(r, p)) /\ Docs(r) \subseteq Page
  BY <1>2 DEF Docs, KindOf
<1>4. \A p \in Page : <<r, p>> \in silver \cup errorLog => <<r, p>> \in silver' \cup errorLog'
  BY DEF Pipeline, Begin, ProcessGroup, Finish, SavePage, Outage, Redelivered
<1>5. \A p \in Page : Accounted(r, p) => Accounted(r, p)'
  BY <1>2, <1>3, <1>4 DEF Accounted
<1>6. CASE Begin(r)
  <2>1. r \in events /\ UNCHANGED <<marker, silver, errorLog>>
    BY <1>6 DEF Begin
  <2>2. CASE r \in marker
    <3>1. step'[r] = "done"
      BY <1>1, <1>6, <2>2 DEF Begin, TypeOK
    <3> QED
      BY <1>1, <1>2, <1>3, <1>5, <2>1, <3>1 DEF RunInv
  <2>3. CASE r \notin marker
    <3>1. todo'[r] = Docs(r) /\ results'[r] = {}
      BY <1>1, <1>6, <2>3 DEF Begin, Idle, Docs, TypeOK
    <3> QED
      BY <1>1, <1>2, <1>3, <1>5, <2>1, <2>3, <3>1 DEF RunInv
  <2> QED
    BY <2>2, <2>3
<1>7. CASE ProcessGroup(r)
  <2> DEFINE of(group, status) == {p \in group : PageStatus(r, p) = status}
  <2>1. PICK group \in SUBSET todo[r] :
          /\ results' = [results EXCEPT ![r] = of(group, "transformed")]
          /\ errorLog' = errorLog \cup ({r} \X (of(group, "rejected") \cup of(group, "failed")))
          /\ todo' = [todo EXCEPT ![r] = @ \ group]
    BY <1>7 DEF ProcessGroup
  <2>2. step[r] = "running" /\ results[r] = {} /\ UNCHANGED <<step, marker, silver>>
    BY <1>7 DEF ProcessGroup
  <2>3. r \in events /\ todo[r] \subseteq Docs(r) /\ group \subseteq Docs(r)
    BY <1>1, <2>2 DEF RunInv
  <2>4. todo'[r] = todo[r] \ group /\ results'[r] = of(group, "transformed")
    BY <1>1, <2>1 DEF TypeOK
  <2>5. \A p \in group : /\ PageStatus(r, p) # "failed"
                         /\ PageStatus(r, p) = "rejected" => KindOf(r, p) = "infected"
                         /\ PageStatus(r, p) = "transformed" => KindOf(r, p) \in {"good", "unsavable"}
                         /\ \/ PageStatus(r, p) \in {"rejected", "transformed"}
                            \/ KindOf(r, p) = "blank"
    BY <2>3, StatusOfPage
  <2>6. \A p \in Page : <<r, p>> \in errorLog' =>
                          <<r, p>> \in errorLog \/ (p \in group /\ KindOf(r, p) = "infected")
    BY <2>1, <2>5
  <2>7. \A p \in group : p \in results'[r] \/ <<r, p>> \in errorLog' \/ KindOf(r, p) = "blank"
    BY <2>1, <2>4, <2>5
  <2>8. \A p \in Docs(r) : Accounted(r, p)' \/ p \in todo'[r] \cup results'[r]
    <3>1. \A p \in Docs(r) : Accounted(r, p) \/ p \in todo[r]
      BY <1>1, <2>2 DEF RunInv
    <3>2. \A p \in group : Accounted(r, p)' \/ p \in results'[r]
      BY <1>3, <2>3, <2>7 DEF Accounted
    <3> QED
      BY <1>3, <1>5, <2>4, <3>1, <3>2
  <2>9. results'[r] \subseteq {p \in Docs(r) : KindOf(r, p) \in {"good", "unsavable"}}
    BY <2>3, <2>4, <2>5
  <2> HIDE DEF of
  <2> QED
    BY <1>1, <1>2, <1>3, <1>5, <2>2, <2>3, <2>4, <2>6, <2>8, <2>9 DEF RunInv
<1>8. ASSUME NEW p \in Page, SavePage(r, p) PROVE RunInv(r)'
  <2>1. step[r] = "running" /\ p \in results[r] /\ UNCHANGED <<step, todo, marker>>
        /\ results'[r] = results[r] \ {p}
    BY <1>1, <1>8 DEF SavePage, TypeOK
  <2>2. r \in events /\ p \in Docs(r) /\ \A q \in Docs(r) : Accounted(r, q) \/ q \in todo[r] \cup results[r]
    BY <1>1, <2>1 DEF RunInv
  <2>3. <<r, p>> \in silver' \cup errorLog' \cup unfinished'
    BY <1>8 DEF SavePage
  <2>4. Accounted(r, p)'
    BY <2>3 DEF Accounted
  <2>5. \A q \in Docs(r) : Accounted(r, q)' \/ q \in todo'[r] \cup results'[r]
    BY <1>3, <1>5, <2>1, <2>2, <2>4
  <2>6. \A q \in Page : <<r, q>> \in errorLog' =>
                          <<r, q>> \in errorLog \/ (q = p /\ KindOf(r, p) = "unsavable")
    BY <1>8 DEF SavePage
  <2> QED
    BY <1>1, <1>2, <1>3, <1>5, <2>1, <2>2, <2>5, <2>6 DEF RunInv
<1>9. CASE Finish(r)
  <2>1. step[r] = "running" /\ step'[r] = "done" /\ todo[r] = {} /\ results[r] = {}
        /\ UNCHANGED <<silver, errorLog>>
    BY <1>1, <1>9 DEF Finish, TypeOK
  <2>2. r \in events /\ \A p \in Docs(r) : Accounted(r, p)
    BY <1>1, <2>1 DEF RunInv
  <2> QED
    BY <1>1, <1>2, <1>3, <1>5, <2>1, <2>2 DEF RunInv
<1>10. CASE Outage(r) \/ Redelivered(r)
  <2>1. step'[r] = "new" /\ UNCHANGED <<marker, silver, errorLog>>
    BY <1>1, <1>10 DEF Outage, Redelivered, TypeOK
  <2> QED
    BY <1>1, <1>2, <1>3, <1>5, <2>1 DEF RunInv
<1> QED
  BY <1>6, <1>7, <1>8, <1>9, <1>10 DEF Pipeline

LEMMA PipelineStep == ASSUME SiteInv, TypeOK', [Next]_vars PROVE PipelineInv'
<1>1. ASSUME NEW r \in Run, Pipeline(r) \/ Outage(r) \/ Redelivered(r) PROVE PipelineInv'
  BY <1>1, OthersKept, OwnRun DEF PipelineInv
<1>2. ASSUME UNCHANGED pipeline, events \subseteq events', unfinished \subseteq unfinished'
      PROVE  PipelineInv'
  BY <1>2, OtherRun DEF PipelineInv, pipeline
<1>3. Scrape => UNCHANGED pipeline /\ events \subseteq events' /\ unfinished \subseteq unfinished'
  BY DEF Scrape, CrawlEnds, NextCrawl, ProcessPage, PutRunKey, PutLatestKey, WriteDocument
<1>4. ASSUME NEW p \in Page, TimesOut(p) \/ \E w \in Worker : WriteFails(p, w)
      PROVE  UNCHANGED pipeline /\ events \subseteq events' /\ unfinished \subseteq unfinished'
  BY <1>4 DEF WriteFails, TimesOut
<1>5. ASSUME NEW w \in Worker, WorkerDies(w)
      PROVE  UNCHANGED pipeline /\ events \subseteq events' /\ unfinished \subseteq unfinished'
  BY <1>5 DEF WorkerDies
<1>6. UNCHANGED vars => UNCHANGED pipeline /\ events \subseteq events' /\ unfinished \subseteq unfinished'
  BY DEF vars, pipeline
<1> QED
  BY <1>1, <1>2, <1>3, <1>4, <1>5, <1>6 DEF Next, Quiet, Failures

\* All of this is so in every reachable state.
THEOREM SiteInvariant == Spec => []SiteInv
<1>1. SiteInv /\ [Next]_vars => SiteInv'
  BY TypeStep, CrawlParts, PipelineStep DEF SiteInv
<1> QED
  BY <1>1, SiteInvInit, PTL DEF Spec

\* From the bucket to Silver no page is unaccounted for, with any number of pages,
\* processes and crawls: a reported document is stored, a document names only HTML
\* that exists, a marker means every document has an end unless its write was still
\* under way when the event was published, and no outage is held against a page.  (A
\* write that is only presumed is not a reported one.)
THEOREM PagesAccounted == Spec => []PagesAreAccounted
<1>1. SiteInv => PagesAreAccounted
  <2> SUFFICES ASSUME SiteInv PROVE PagesAreAccounted
    OBVIOUS
  <2>1. ReportedIsStored
    <3>1. ASSUME NEW p \in Page, stage[p] = "written"
          PROVE  \E r \in 1 .. run : document[<<r, p>>].version = content[p]
      <4>1. content[p] \in {document[<<r, p>>].version : r \in 1 .. run}
        BY <3>1 DEF SiteInv, StoredInv, WrittenIsStored, Stored
      <4> QED
        BY <4>1
    <3> QED
      BY <3>1 DEF ReportedIsStored
  <2>2. KeysResolve
    BY DEF SiteInv, HtmlInv
  <2>3. MarkerAccounts
    BY DEF SiteInv, TypeOK, PipelineInv, RunInv, Accounted, Docs, MarkerAccounts
  <2>4. OutageIsNoPageError
    BY DEF SiteInv, PipelineInv, RunInv, OutageIsNoPageError
  <2> QED
    BY <2>1, <2>2, <2>3, <2>4 DEF PagesAreAccounted
<1> QED
  BY <1>1, SiteInvariant, PTL

-----------------------------------------------------------------------------
(* PoliteFetch, for any calls, pages, origins, hosts and delays.  Its      *)
(* state is RobotsAnswers', its steps are F's.                              *)

F == INSTANCE PoliteFetch

\* What the guard may hear: a file as it reads it, or that there is none.
Heard == {f[2] : f \in Files} \cup {F!NoFile(k) : k \in {"pending", "unavailable", "unreachable"}}

\* An entry in use is one somebody refers to; one that is being filled is the cache's.
EntryInv ==
  \A e \in Entry :
    /\ entry[e].answer \in Heard
    /\ entry[e].step # "free" =>
         /\ entry[e].origin \in Origin
         /\ (\E o \in Origin : cache[o] = e) \/ (\E t \in Task : task[t].entry = e)
    /\ F!Filling(e) => cache[entry[e].origin] = e
    /\ entry[e].step \in {"applied", "ready"} => entry[e].applied
    /\ entry[e].expires >= 0 => entry[e].age + entry[e].expires <= CacheTTL
CacheInv ==
  \A o \in Origin : cache[o] # "none" =>
    entry[cache[o]].step # "free" /\ entry[cache[o]].origin = o

\* What a call knows of the entry it waits for or was cleared by.
TaskInv ==
  /\ \A t \in Task :
       /\ task[t].step # "idle" => task[t].page \in URL
       /\ task[t].step \in {"idle", "reading"} => task[t].entry = "none"
       /\ task[t].step \notin {"idle", "reading"} =>
            /\ task[t].entry \in Entry /\ entry[task[t].entry].step # "free" /\ ~task[t].late
            /\ task[t].hops = 0 => entry[task[t].entry].origin = F!PageOrigin(t)
       /\ task[t].step \in {"cleared", "slot", "sent"} =>
            /\ F!Ready(task[t].entry)
            /\ task[t].hops = 0 => F!Clears(entry[task[t].entry].answer, task[t].page)
       /\ task[t].step = "reading" /\ task[t].late =>
            task[t].stale /\ cache[F!PageOrigin(t)] # "none" /\ F!Ready(cache[F!PageOrigin(t)])
  /\ \A t, u \in Task : task[t].step = "reading" /\ task[u].step = "reading" => t = u

\* Start times of tasks and entries against what hosts keep.
TaskFits(r, R) == r.step = "slot" => r.wait + r.gap <= R[HostOf[OriginOf[r.page]]]
EntryFits(r, R) == r.step = "slot" => r.wait + r.gap <= R[HostOf[r.origin]]
HostFits(h, D, R, C) ==
  /\ D[h].next <= R[h]
  /\ D[h].delay < 0 => D[h].next = 0
  /\ h \notin C =>
       /\ R[h] <= D[h].next
       /\ D[h].next = 0 \/ D[h].next + D[h].idle <= HostStateIdle

\* Start times taken lie within the time a host has still to rest, each with its delay.  That
\* is what the host keeps, unless it was crowded: by the time its state is idle enough
\* to be dropped, no start time lies ahead.
SpaceInv ==
  /\ \A h \in Host : HostFits(h, domain, rest, crowded)
  /\ \A t \in Task : TaskFits(task[t], rest)
  /\ \A e \in Entry : EntryFits(entry[e], rest)

SaidInv ==
  \A e \in Entry :
    entry[e].step \in {"answered", "applied", "ready"} => entry[e].answer = entry[e].said

FetchInv == F!FetcherTyped /\ EntryInv /\ CacheInv /\ TaskInv /\ SpaceInv

\* The assumption's sizes, in this module's own Cardinality.
LEMMA Sizes ==
  ASSUME F!IsPolite
  PROVE  /\ IsFiniteSet(Task) /\ IsFiniteSet(Origin) /\ IsFiniteSet(Entry)
         /\ Cardinality(Entry) >= Cardinality(Task) + Cardinality(Origin)
<1>1. IsFiniteSet(Task) /\ IsFiniteSet(Origin) /\ IsFiniteSet(Entry)
  BY DEF F!IsPolite, F!IsFiniteSet, IsFiniteSet
<1>2. Cardinality(Entry) >= Cardinality(Task) + Cardinality(Origin)
  BY DEF F!IsPolite, F!Cardinality, Cardinality
<1> QED BY <1>1, <1>2

\* What a file asks for is capped to a delay, what a site says is an answer.
LEMMA DelaysAreTyped ==
  ASSUME F!IsPolite
  PROVE  /\ F!Delay \subseteq Nat /\ PolitenessDelay \in F!Delay
         /\ \A a \in Heard : F!Most(F!Least(a.delay, MaxCrawlDelay), PolitenessDelay) \in F!Delay
         /\ \A a \in F!Said : a[1] \in F!Answer /\ a[2] \in Heard
         /\ Heard \subseteq F!Answer
<1>1. F!Delay \subseteq Nat
  BY DEF F!IsPolite, F!Delay, F!Most, F!Least
<1>2. PolitenessDelay \in F!Delay
  <2>1. F!Most(PolitenessDelay, F!Least(0, MaxCrawlDelay)) = PolitenessDelay
    BY DEF F!IsPolite, F!Most, F!Least
  <2> QED BY <2>1 DEF F!Delay
<1>3. \A a \in Heard : a.delay \in F!CrawlDelay \cup {0}
  BY DEF Heard, F!CrawlDelay, F!NoFile
<1>4. \A d \in F!CrawlDelay \cup {0} :
        F!Most(F!Least(d, MaxCrawlDelay), PolitenessDelay) = F!Most(PolitenessDelay, F!Least(d, MaxCrawlDelay))
  BY DEF F!IsPolite, F!Most, F!Least
<1>5. \A a \in Heard : F!Most(F!Least(a.delay, MaxCrawlDelay), PolitenessDelay) \in F!Delay
  BY <1>3, <1>4 DEF F!Delay
<1>6. \A a \in F!Said : a[1] \in F!Answer /\ a[2] \in Heard
  <2> SUFFICES ASSUME NEW a \in F!Said PROVE a[1] \in F!Answer /\ a[2] \in Heard
    OBVIOUS
  <2>1. CASE a \in Files
    <3>1. a[1] \in UNION {{f[1], f[2]} : f \in Files} /\ a[2] \in {f[2] : f \in Files}
      BY <2>1
    <3> QED BY <3>1 DEF F!Answer, Heard
  <2>2. CASE a \notin Files
    <3>1. PICK k \in {"unavailable", "unreachable"} : a = <<F!NoFile(k), F!NoFile(k)>>
      BY <2>2 DEF F!Said
    <3> QED BY <3>1 DEF F!Answer, Heard
  <2> QED BY <2>1, <2>2
<1>7. Heard \subseteq F!Answer
  <2>1. {f[2] : f \in Files} \subseteq UNION {{f[1], f[2]} : f \in Files}
    OBVIOUS
  <2> QED BY <2>1 DEF F!Answer, Heard
<1> QED BY <1>1, <1>2, <1>5, <1>6, <1>7

\* A call that misses finds an entry nobody uses: the other calls and the cached answers
\* cannot use them all.
LEMMA FreeEntry ==
  ASSUME F!IsPolite, F!FetcherTyped, EntryInv, NEW t \in Task, task[t].entry = "none"
  PROVE  \E x \in Entry : entry[x].step = "free"
<1> DEFINE Used == {e \in Entry : entry[e].step # "free"}
           Cached == {cache[o] : o \in Origin}
           Taken == {task[u].entry : u \in Task \ {t}}
<1>1. Used \subseteq Cached \cup Taken
  <2> SUFFICES ASSUME NEW e \in Used PROVE e \in Cached \cup Taken
    OBVIOUS
  <2>1. e # "none"
    BY DEF F!IsPolite
  <2> QED BY <2>1 DEF EntryInv
<1>2. IsFiniteSet(Cached) /\ Cardinality(Cached) <= Cardinality(Origin)
  <2> DEFINE f == [o \in Origin |-> cache[o]]
  <2>1. f \in Surjection(Origin, Cached)
    BY DEF Surjection
  <2>2. IsFiniteSet(Origin)
    BY Sizes
  <2> QED BY <2>1, <2>2, FS_Surjection
<1>3. /\ IsFiniteSet(Task \ {t}) /\ Cardinality(Task \ {t}) = Cardinality(Task) - 1
      /\ Cardinality(Task) \in Nat
  BY Sizes, FS_RemoveElement, FS_CardinalityType
<1>4. IsFiniteSet(Taken) /\ Cardinality(Taken) <= Cardinality(Task) - 1
  <2> DEFINE f == [u \in Task \ {t} |-> task[u].entry]
  <2>1. f \in Surjection(Task \ {t}, Taken)
    BY DEF Surjection
  <2> QED BY <1>3, <2>1, FS_Surjection
<1>5. IsFiniteSet(Cached \cup Taken) /\ Cardinality(Cached \cup Taken) <= Cardinality(Cached) + Cardinality(Taken)
  <2>1. IsFiniteSet(Cached \cap Taken) /\ Cardinality(Cached \cap Taken) \in Nat
    BY <1>2, FS_Intersection, FS_CardinalityType
  <2>2. /\ IsFiniteSet(Cached \cup Taken)
        /\ Cardinality(Cached \cup Taken) = Cardinality(Cached) + Cardinality(Taken) - Cardinality(Cached \cap Taken)
    BY <1>2, <1>4, FS_Union
  <2>3. Cardinality(Cached) \in Nat /\ Cardinality(Taken) \in Nat
    BY <1>2, <1>4, FS_CardinalityType
  <2> HIDE DEF Cached, Taken
  <2> QED BY <2>1, <2>2, <2>3
<1>6. IsFiniteSet(Used) /\ Cardinality(Used) <= Cardinality(Cached \cup Taken)
  BY <1>1, <1>5, FS_Subset
<1>7. Cardinality(Used) < Cardinality(Entry)
  <2>1. /\ Cardinality(Origin) \in Nat /\ Cardinality(Entry) \in Nat
        /\ Cardinality(Entry) >= Cardinality(Task) + Cardinality(Origin)
    BY Sizes, FS_CardinalityType
  <2>2. /\ Cardinality(Used) \in Nat /\ Cardinality(Cached) \in Nat /\ Cardinality(Taken) \in Nat
        /\ Cardinality(Cached \cup Taken) \in Nat
    BY <1>2, <1>4, <1>5, <1>6, FS_CardinalityType
  <2> HIDE DEF Used, Cached, Taken
  <2> QED BY <1>2, <1>3, <1>4, <1>5, <1>6, <2>1, <2>2
<1>8. Used # Entry
  <2>1. Cardinality(Used) \in Nat
    BY <1>6, FS_CardinalityType
  <2> HIDE DEF Used
  <2> QED BY <1>7, <2>1
<1> QED BY <1>8

\* Type correctness: the first state, the records by name, and each step.
LEMMA TypedInit == ASSUME F!IsPolite, F!Init PROVE F!FetcherTyped
<1> F!Pending \in F!Answer
  BY DEF F!Pending, F!Answer
<1> QED BY DelaysAreTyped DEF F!Init, F!FetcherTyped, F!Unused, F!Free, F!NoCall, F!IsPolite

EntryRecord ==
  [step : {"free", "asking", "slot", "sent", "answered", "applied", "ready"},
   origin : Origin \cup {"none"}, wait : Nat,
   gap : F!Delay, answer : F!Answer, said : F!Answer, expires : -1 .. CacheTTL, age : 0 .. CacheTTL + 1,
   applied : BOOLEAN]
TaskRecord ==
  [step : {"idle", "reading", "waiting", "cleared", "slot", "sent"},
   page : URL \cup {"none"}, entry : Entry \cup {"none"}, stale : BOOLEAN, wait : Nat,
   gap : F!Delay, hops : 0 .. MaxRedirects, late : BOOLEAN]

DomainRecord == [delay : F!Delay \cup {-1}, next : Nat, idle : 0 .. HostStateIdle + 1]
\* A state in use was just looked up.
UsedRecord == [delay : F!Delay, next : Nat, idle : {0}]

LEMMA Types ==
  F!FetcherTyped <=> /\ cache \in [Origin -> Entry \cup {"none"}]
               /\ entry \in [Entry -> EntryRecord] /\ task \in [Task -> TaskRecord]
               /\ domain \in [Host -> DomainRecord]
               /\ rest \in [Host -> Nat] /\ crowded \subseteq Host
BY DEF F!FetcherTyped, EntryRecord, TaskRecord, DomainRecord

\* A blank entry or call, a collected one, a host's state and a start time are typed.
LEMMA Blanks ==
  ASSUME F!IsPolite
  PROVE  F!Unused \in EntryRecord /\ F!NoCall \in TaskRecord
<1> F!Pending \in F!Answer
  BY DEF F!Pending, F!Answer
<1> QED BY DelaysAreTyped DEF F!Unused, F!NoCall, EntryRecord, TaskRecord, F!IsPolite

LEMMA KeptIsTyped ==
  ASSUME F!IsPolite, NEW E \in [Entry -> EntryRecord], NEW C, NEW T
  PROVE  F!Kept(E, C, T) \in [Entry -> EntryRecord]
BY Blanks DEF F!Kept

LEMMA DomainIsTyped ==
  ASSUME F!IsPolite, F!FetcherTyped, NEW h \in Host
  PROVE  F!DomainState(h) \in UsedRecord /\ F!Reserved(h) \in UsedRecord /\ UsedRecord \subseteq DomainRecord
<1>0. domain[h] \in DomainRecord /\ HostStateIdle \in Nat
  BY Types DEF F!IsPolite
<1>1. F!DomainState(h) \in UsedRecord
  <2>1. CASE domain[h].delay >= 0
    <3> DEFINE r == [domain[h] EXCEPT !.idle = 0]
    <3>1. domain[h].delay \in F!Delay
      BY <1>0, <2>1 DEF DomainRecord
    <3>2. r.delay = domain[h].delay /\ r \in UsedRecord
      BY <1>0, <3>1 DEF DomainRecord, UsedRecord
    <3> QED BY <2>1, <3>2 DEF F!DomainState
  <2>2. CASE ~(domain[h].delay >= 0)
    BY <2>2, DelaysAreTyped DEF F!DomainState, F!Free, UsedRecord
  <2> QED BY <2>1, <2>2
<1>2. F!Reserved(h) \in UsedRecord
  <2> DEFINE s == F!DomainState(h)
  <2>1. s.next + s.delay \in Nat
    BY <1>1, DelaysAreTyped DEF UsedRecord
  <2> HIDE DEF s
  <2>2. s \in UsedRecord
    BY <1>1 DEF s
  <2>3. [s EXCEPT !.next = s.next + s.delay] \in UsedRecord
    BY <2>1, <2>2 DEF UsedRecord
  <2> QED BY <2>3 DEF F!Reserved, s
<1>3. UsedRecord \subseteq DomainRecord
  BY <1>0 DEF UsedRecord, DomainRecord
<1> QED BY <1>1, <1>2, <1>3

LEMMA SlotIsTyped ==
  ASSUME F!IsPolite, F!FetcherTyped, NEW h \in Host
  PROVE  /\ \A a \in EntryRecord : F!Slot(a, h) \in EntryRecord
         /\ \A a \in TaskRecord : F!Slot(a, h) \in TaskRecord
BY DomainIsTyped DEF F!Slot, EntryRecord, TaskRecord, UsedRecord

\* Hosts of what is under way.
LEMMA Hosts ==
  ASSUME F!IsPolite, FetchInv
  PROVE  /\ \A t \in Task : task[t].step # "idle" => F!PageOrigin(t) \in Origin /\ F!PageHost(t) \in Host
         /\ \A e \in Entry : entry[e].step # "free" => F!HostOfEntry(e) \in Host
BY DEF F!IsPolite, FetchInv, TaskInv, EntryInv, F!PageOrigin, F!PageHost, F!HostOfEntry

\* There is an entry for a lookup that misses: each used one is cached or another call's.
NextEntry(t) == CHOOSE x \in Entry : entry[x].step = "free"
LEMMA NextEntryIsFree ==
  ASSUME F!IsPolite, FetchInv, NEW t \in Task, task[t].step = "reading"
  PROVE  NextEntry(t) \in Entry /\ entry[NextEntry(t)].step = "free"
<1>1. \E x \in Entry : entry[x].step = "free"
  BY FreeEntry DEF FetchInv, TaskInv
<1> QED BY <1>1 DEF NextEntry

\* Each step keeps the types.
LEMMA TypedStep ==
  ASSUME F!IsPolite, FetchInv, [F!Next]_F!vars
  PROVE  F!FetcherTyped'
<1>t. /\ cache \in [Origin -> Entry \cup {"none"}]
      /\ entry \in [Entry -> EntryRecord] /\ task \in [Task -> TaskRecord]
      /\ domain \in [Host -> DomainRecord]
      /\ rest \in [Host -> Nat] /\ crowded \subseteq Host
  BY Types DEF FetchInv
<1>s. ASSUME /\ cache' \in [Origin -> Entry \cup {"none"}]
             /\ entry' \in [Entry -> EntryRecord] /\ task' \in [Task -> TaskRecord]
             /\ domain' \in [Host -> DomainRecord]
             /\ rest' \in [Host -> Nat] /\ crowded' \subseteq Host
      PROVE  F!FetcherTyped'
  BY <1>s DEF F!FetcherTyped, TaskRecord, EntryRecord, DomainRecord
<1>tt. ASSUME NEW t \in Task PROVE task[t] \in TaskRecord
  BY <1>t
<1>ee. ASSUME NEW e \in Entry PROVE entry[e] \in EntryRecord
  BY <1>t
<1>i. F!NoCall \in TaskRecord /\ F!Unused \in EntryRecord
  BY Blanks
<1>r. ASSUME NEW t \in Task, F!Return(t)
      PROVE  task' \in [Task -> TaskRecord] /\ entry' \in [Entry -> EntryRecord]
  <2>1. task' = [task EXCEPT ![t] = F!NoCall] /\ entry' = F!Kept(entry, cache, [task EXCEPT ![t] = F!NoCall])
    BY <1>r DEF F!Return
  <2> QED BY <1>t, <1>i, <2>1, KeptIsTyped
<1>v. ASSUME NEW h \in Host, F!Reserve(h)
      PROVE  domain' \in [Host -> DomainRecord] /\ rest' \in [Host -> Nat] /\ crowded' \subseteq Host
  <2>1. F!DomainState(h).next + F!DomainState(h).delay \in Nat
    BY DomainIsTyped, DelaysAreTyped DEF FetchInv, UsedRecord
  <2>2. F!Reserved(h) \in DomainRecord
    BY DomainIsTyped DEF FetchInv
  <2> QED BY <1>t, <1>v, <2>1, <2>2 DEF F!Reserve, F!Most
<1>1. ASSUME NEW t \in Task, NEW p \in URL, F!Start(t, p) PROVE F!FetcherTyped'
  <2> DEFINE r == [F!NoCall EXCEPT !.step = "reading", !.page = p,
       !.stale = cache[OriginOf[p]] = "none" \/ entry[cache[OriginOf[p]]].expires < 0,
       !.late = cache[OriginOf[p]] # "none" /\ F!Ready(cache[OriginOf[p]]) /\ entry[cache[OriginOf[p]]].age > CacheTTL]
  <2>1. task' = [task EXCEPT ![t] = r] /\ UNCHANGED <<cache, entry, domain, rest, crowded>>
    BY <1>1 DEF F!Start
  <2>2. r \in TaskRecord
    BY <1>i DEF TaskRecord
  <2> HIDE DEF r
  <2>3. task' \in [Task -> TaskRecord]
    BY <1>t, <2>1, <2>2
  <2> QED BY <1>s, <1>t, <2>1, <2>3
<1>2. ASSUME NEW t \in Task, F!RulesFor(t) PROVE F!FetcherTyped'
  <2>1. F!PageOrigin(t) \in Origin /\ UNCHANGED <<domain, rest, crowded>> /\ task[t].step = "reading"
    BY <1>2, Hosts DEF F!RulesFor
  <2>2. CASE F!Stale(t, cache[F!PageOrigin(t)])
    <3> DEFINE e == NextEntry(t)
               r == [task[t] EXCEPT !.step = "waiting", !.entry = e, !.stale = FALSE, !.late = FALSE]
               a == [F!Unused EXCEPT !.step = "asking", !.origin = F!PageOrigin(t)]
    <3>1. /\ cache' = [cache EXCEPT ![F!PageOrigin(t)] = e]
          /\ task' = [task EXCEPT ![t] = r]
          /\ entry' = F!Kept([entry EXCEPT ![e] = a], cache', task')
      BY <1>2, <2>2, <1>t DEF F!RulesFor, F!Miss, NextEntry
    <3>2. e \in Entry
      BY <2>1, NextEntryIsFree
    <3>3. r \in TaskRecord /\ a \in EntryRecord
      <4> HIDE DEF e
      <4>1. r \in TaskRecord
        BY <1>tt, <3>2 DEF TaskRecord
      <4>2. a \in EntryRecord
        BY <1>i, <2>1 DEF EntryRecord
      <4> QED BY <4>1, <4>2
    <3> HIDE DEF e, r, a
    <3>4. [entry EXCEPT ![e] = a] \in [Entry -> EntryRecord]
      BY <1>t, <3>3
    <3>5. entry' \in [Entry -> EntryRecord]
      BY <3>1, <3>4, KeptIsTyped
    <3>6. task' \in [Task -> TaskRecord] /\ cache' \in [Origin -> Entry \cup {"none"}]
      BY <1>t, <3>1, <3>2, <3>3
    <3> QED BY <1>s, <1>t, <2>1, <3>5, <3>6
  <2>3. CASE ~F!Stale(t, cache[F!PageOrigin(t)])
    <3> DEFINE r == [task[t] EXCEPT !.step = "waiting", !.entry = cache[F!PageOrigin(t)], !.stale = FALSE]
    <3>1. task' = [task EXCEPT ![t] = r] /\ UNCHANGED <<cache, entry>>
      BY <1>2, <2>3, <1>t DEF F!RulesFor, F!Hit
    <3>2. cache[F!PageOrigin(t)] \in Entry \cup {"none"}
      BY <1>t, <2>1
    <3>3. r \in TaskRecord
      BY <1>tt, <3>2 DEF TaskRecord
    <3> HIDE DEF r
    <3>4. task' \in [Task -> TaskRecord]
      BY <1>t, <3>1, <3>3
    <3> QED BY <1>s, <1>t, <2>1, <3>1, <3>4
  <2> QED BY <2>2, <2>3
<1>3. ASSUME NEW t \in Task, F!GiveUp(t) PROVE F!FetcherTyped'
  BY <1>s, <1>t, <1>r, <1>3 DEF F!GiveUp
<1>4. ASSUME NEW t \in Task, F!Answered(t) PROVE F!FetcherTyped'
  <2>1. UNCHANGED <<cache, domain, rest, crowded>> /\ (F!Return(t) \/ (task' = [task EXCEPT ![t].step = "cleared"] /\ UNCHANGED entry))
    BY <1>4 DEF F!Answered
  <2>2. [task[t] EXCEPT !.step = "cleared"] \in TaskRecord
    BY <1>tt DEF TaskRecord
  <2>3. task' \in [Task -> TaskRecord] /\ entry' \in [Entry -> EntryRecord]
    BY <1>t, <1>r, <2>1, <2>2
  <2> QED BY <1>s, <1>t, <2>1, <2>3
<1>5. ASSUME NEW e \in Entry, F!FillReserve(e) PROVE F!FetcherTyped'
  <2>1. F!HostOfEntry(e) \in Host
    BY <1>5, Hosts DEF F!FillReserve
  <2>2. F!Slot(entry[e], F!HostOfEntry(e)) \in EntryRecord
    BY <1>t, <2>1, SlotIsTyped DEF FetchInv
  <2>3. entry' = [entry EXCEPT ![e] = F!Slot(entry[e], F!HostOfEntry(e))] /\ UNCHANGED <<cache, task>>
    BY <1>5 DEF F!FillReserve
  <2>4. domain' \in [Host -> DomainRecord] /\ rest' \in [Host -> Nat] /\ crowded' \subseteq Host
    BY <1>5, <1>v, <2>1 DEF F!FillReserve
  <2>5. entry' \in [Entry -> EntryRecord]
    BY <1>t, <2>2, <2>3
  <2> QED BY <1>s, <1>t, <2>3, <2>4, <2>5
<1>6. ASSUME NEW e \in Entry, F!FillSend(e) PROVE F!FetcherTyped'
  <2>1. [entry[e] EXCEPT !.step = "sent", !.gap = PolitenessDelay] \in EntryRecord
    BY <1>ee, DelaysAreTyped DEF EntryRecord
  <2>2. entry' = [entry EXCEPT ![e] = [entry[e] EXCEPT !.step = "sent", !.gap = PolitenessDelay]]
        /\ UNCHANGED <<cache, task, domain, rest, crowded>>
    BY <1>t, <1>6 DEF F!FillSend
  <2>3. entry' \in [Entry -> EntryRecord]
    BY <1>t, <2>1, <2>2
  <2> QED BY <1>s, <1>t, <2>2, <2>3
<1>7. ASSUME NEW e \in Entry, F!Answers(e) PROVE F!FetcherTyped'
  <2>1. PICK a \in F!Said : F!SiteAnswers(e, a)
    BY <1>7 DEF F!Answers
  <2>2. F!Expiry(a[2]) \in -1 .. CacheTTL
    BY DEF F!Expiry, F!IsPolite
  <2>3. a[1] \in F!Answer /\ a[2] \in F!Answer
    BY DelaysAreTyped
  <2>4. 0 \in 0 .. CacheTTL + 1
    BY DEF F!IsPolite
  <2> DEFINE r == [entry[e] EXCEPT !.step = "answered", !.said = a[1], !.answer = a[2],
                     !.expires = F!Expiry(a[2]), !.age = 0]
  <2>5. r \in EntryRecord
    BY <1>ee, <2>2, <2>3, <2>4 DEF EntryRecord
  <2>6. entry' = [entry EXCEPT ![e] = r] /\ UNCHANGED <<cache, task, domain, rest, crowded>>
    BY <1>t, <2>1 DEF F!SiteAnswers
  <2> HIDE DEF r
  <2>7. entry' \in [Entry -> EntryRecord]
    BY <1>t, <2>5, <2>6
  <2> QED BY <1>s, <1>t, <2>6, <2>7
<1>8. ASSUME NEW e \in Entry, F!FillDelay(e) PROVE F!FetcherTyped'
  <2>1. F!HostOfEntry(e) \in Host /\ entry[e].answer \in Heard
    BY <1>8, Hosts DEF F!FillDelay, FetchInv, EntryInv
  <2>2. F!DomainState(F!HostOfEntry(e)) \in UsedRecord /\ UsedRecord \subseteq DomainRecord
    BY <2>1, DomainIsTyped DEF FetchInv
  <2>3. F!Most(F!Least(entry[e].answer.delay, MaxCrawlDelay), PolitenessDelay) \in F!Delay
    BY <2>1, DelaysAreTyped
  <2>4. domain' \in [Host -> DomainRecord]
    <3> DEFINE s == F!DomainState(F!HostOfEntry(e))
               d == F!Most(F!Least(entry[e].answer.delay, MaxCrawlDelay), PolitenessDelay)
    <3>1. domain' = [domain EXCEPT ![F!HostOfEntry(e)] = [s EXCEPT !.delay = d]]
      BY <1>8 DEF F!FillDelay, F!SetHostDelay
    <3>2. d \in F!Delay /\ s \in UsedRecord
      BY <2>2, <2>3
    <3> HIDE DEF s, d
    <3>3. [s EXCEPT !.delay = d] \in UsedRecord
      BY <3>2 DEF UsedRecord
    <3> QED BY <1>t, <2>2, <3>1, <3>3
  <2>5. [entry[e] EXCEPT !.step = "applied", !.applied = TRUE] \in EntryRecord
    BY <1>ee DEF EntryRecord
  <2>6. entry' = [entry EXCEPT ![e] = [entry[e] EXCEPT !.step = "applied", !.applied = TRUE]]
        /\ UNCHANGED <<cache, task, rest, crowded>>
    BY <1>t, <1>8 DEF F!FillDelay
  <2>7. entry' \in [Entry -> EntryRecord]
    BY <1>t, <2>5, <2>6
  <2> QED BY <1>s, <1>t, <2>4, <2>6, <2>7
<1>9. ASSUME NEW e \in Entry, F!FillClose(e) PROVE F!FetcherTyped'
  <2>1. [entry[e] EXCEPT !.step = "ready"] \in EntryRecord
    BY <1>ee DEF EntryRecord
  <2>2. entry' = [entry EXCEPT ![e] = [entry[e] EXCEPT !.step = "ready"]] /\ UNCHANGED <<cache, task, domain, rest, crowded>>
    BY <1>t, <1>9 DEF F!FillClose
  <2>3. entry' \in [Entry -> EntryRecord]
    BY <1>t, <2>1, <2>2
  <2> QED BY <1>s, <1>t, <2>2, <2>3
<1>10. ASSUME NEW t \in Task, F!Reserving(t) PROVE F!FetcherTyped'
  <2>1. F!PageHost(t) \in Host
    BY <1>10, Hosts DEF F!Reserving
  <2>2. F!Slot(task[t], F!PageHost(t)) \in TaskRecord
    BY <1>t, <2>1, SlotIsTyped DEF FetchInv
  <2>3. task' = [task EXCEPT ![t] = F!Slot(task[t], F!PageHost(t))] /\ UNCHANGED <<cache, entry>>
    BY <1>10 DEF F!Reserving
  <2>4. domain' \in [Host -> DomainRecord] /\ rest' \in [Host -> Nat] /\ crowded' \subseteq Host
    BY <1>10, <1>v, <2>1 DEF F!Reserving
  <2>5. task' \in [Task -> TaskRecord]
    BY <1>t, <2>2, <2>3
  <2> QED BY <1>s, <1>t, <2>3, <2>4, <2>5
<1>11. ASSUME NEW t \in Task, F!Send(t) PROVE F!FetcherTyped'
  <2>1. [task[t] EXCEPT !.step = "sent", !.gap = PolitenessDelay] \in TaskRecord
    BY <1>tt, DelaysAreTyped DEF TaskRecord
  <2>2. task' = [task EXCEPT ![t] = [task[t] EXCEPT !.step = "sent", !.gap = PolitenessDelay]]
        /\ UNCHANGED <<cache, entry, domain, rest, crowded>>
    BY <1>t, <1>11 DEF F!Send
  <2>3. task' \in [Task -> TaskRecord]
    BY <1>t, <2>1, <2>2
  <2> QED BY <1>s, <1>t, <2>2, <2>3
<1>12. ASSUME NEW t \in Task, F!Response(t) PROVE F!FetcherTyped'
  BY <1>s, <1>t, <1>r, <1>12 DEF F!Response
<1>13. ASSUME NEW t \in Task, NEW p \in URL, F!Redirected(t, p) PROVE F!FetcherTyped'
  <2>1. CASE task[t].hops = MaxRedirects
    BY <1>s, <1>t, <1>r, <1>13, <2>1 DEF F!Redirected
  <2>2. CASE task[t].hops # MaxRedirects
    <3>1. task[t].hops + 1 \in 0 .. MaxRedirects
      BY <1>tt, <2>2 DEF F!IsPolite, TaskRecord
    <3>2. [task[t] EXCEPT !.page = p, !.hops = task[t].hops + 1] \in TaskRecord
      BY <1>tt, <3>1 DEF TaskRecord
    <3>3. task' = [task EXCEPT ![t] = [task[t] EXCEPT !.page = p, !.hops = task[t].hops + 1]]
          /\ UNCHANGED <<cache, entry, domain, rest, crowded>>
      BY <1>t, <1>13, <2>2 DEF F!Redirected
    <3>4. task' \in [Task -> TaskRecord]
      BY <1>t, <3>2, <3>3
    <3> QED BY <1>s, <1>t, <3>3, <3>4
  <2> QED BY <2>1, <2>2
<1>14. ASSUME NEW h \in Host, F!EvictHost(h) PROVE F!FetcherTyped'
  <2>1. F!Free \in DomainRecord
    BY DEF F!Free, DomainRecord, F!IsPolite
  <2> QED BY <1>s, <1>t, <1>14, <2>1 DEF F!EvictHost
<1>15. ASSUME F!Tick PROVE F!FetcherTyped'
  <2>1. \A n \in Nat : F!Down(n) \in Nat
    BY DEF F!Down, F!Most
  <2>2. \A n \in -1 .. CacheTTL : F!Most(n - 1, -1) \in -1 .. CacheTTL
    BY DEF F!Most, F!IsPolite
  <2>3. \A n \in 0 .. CacheTTL + 1 : F!Least(n + 1, CacheTTL + 1) \in 0 .. CacheTTL + 1 /\ 0 \in 0 .. CacheTTL + 1
    BY DEF F!Least, F!IsPolite
  <2>4. entry' \in [Entry -> EntryRecord]
    <3>1. entry' = [e \in Entry |-> [entry[e] EXCEPT !.wait = F!Down(@), !.expires = F!Most(@ - 1, -1),
             !.age = IF entry[e].step \in {"answered", "applied", "ready"}
                     THEN F!Least(@ + 1, CacheTTL + 1) ELSE 0]]
      BY <1>15 DEF F!Tick
    <3>2. ASSUME NEW e \in Entry PROVE entry'[e] \in EntryRecord
      BY <1>ee, <2>1, <2>2, <2>3, <3>1 DEF EntryRecord
    <3> QED BY <3>1, <3>2
  <2>5. task' \in [Task -> TaskRecord]
    <3>1. task' = [t \in Task |-> [task[t] EXCEPT !.wait = F!Down(@)]]
      BY <1>15 DEF F!Tick
    <3>2. ASSUME NEW t \in Task PROVE task'[t] \in TaskRecord
      BY <1>tt, <2>1, <3>1 DEF TaskRecord
    <3> QED BY <3>1, <3>2
  <2>6. domain' \in [Host -> DomainRecord]
    <3>1. domain' = [h \in Host |-> [domain[h] EXCEPT !.next = F!Down(@),
             !.idle = IF domain[h].delay < 0 THEN 0 ELSE F!Least(@ + 1, HostStateIdle + 1)]]
      BY <1>15 DEF F!Tick
    <3>2. \A n \in 0 .. HostStateIdle + 1 : /\ F!Least(n + 1, HostStateIdle + 1) \in 0 .. HostStateIdle + 1
                                             /\ 0 \in 0 .. HostStateIdle + 1
      BY DEF F!Least, F!IsPolite
    <3>3. ASSUME NEW h \in Host PROVE domain'[h] \in DomainRecord
      BY <1>t, <2>1, <3>1, <3>2 DEF DomainRecord
    <3> QED BY <3>1, <3>3
  <2>7. rest' \in [Host -> Nat] /\ cache' = cache /\ crowded' \subseteq Host
    BY <1>t, <1>15, <2>1 DEF F!Tick
  <2> QED BY <1>s, <1>t, <2>4, <2>5, <2>6, <2>7
<1>16. ASSUME UNCHANGED F!vars PROVE F!FetcherTyped'
  BY <1>s, <1>t, <1>16 DEF F!vars
<1> QED
  BY <1>1, <1>2, <1>3, <1>4, <1>5, <1>6, <1>7, <1>8, <1>9, <1>10, <1>11, <1>12, <1>13, <1>14, <1>15, <1>16
  DEF F!Next, F!Proceed, F!Fill

\* What the invariant asks of an entry, of the records in force.
EntryIs(r, e, C, T) ==
  /\ r.answer \in Heard
  /\ r.step # "free" =>
       /\ r.origin \in Origin
       /\ (\E o \in Origin : C[o] = e) \/ (\E t \in Task : T[t].entry = e)
  /\ r.step \in {"asking", "slot", "sent", "answered", "applied"} => C[r.origin] = e
  /\ r.step \in {"applied", "ready"} => r.applied
  /\ r.expires >= 0 => r.age + r.expires <= CacheTTL

\* The invariant of the entries, entry by entry.
LEMMA EntryIsInv == EntryInv <=> \A e \in Entry : EntryIs(entry[e], e, cache, task)
BY DEF EntryInv, EntryIs, F!Filling

LEMMA UnusedIs == ASSUME NEW e, NEW C, NEW T PROVE EntryIs(F!Unused, e, C, T)
BY DEF EntryIs, F!Unused, Heard, F!Pending

\* A call that returns leaves unused what nobody else refers to.
LEMMA EntryReturn ==
  ASSUME F!IsPolite, FetchInv, NEW t \in Task, F!Return(t), cache' = cache
  PROVE  EntryInv'
<1> DEFINE T == [task EXCEPT ![t] = F!NoCall]
<1>1. task' = T /\ entry' = F!Kept(entry, cache, T)
  BY DEF F!Return
<1>2. ASSUME NEW e \in Entry PROVE EntryIs(entry'[e], e, cache, T)
  <2>1. CASE (\E o \in Origin : cache[o] = e) \/ (\E u \in Task : T[u].entry = e)
    <3>1. entry'[e] = entry[e]
      BY <1>1, <2>1 DEF F!Kept
    <3> HIDE DEF T
    <3> QED BY <2>1, <3>1, EntryIsInv DEF FetchInv, EntryIs
  <2>2. CASE ~((\E o \in Origin : cache[o] = e) \/ (\E u \in Task : T[u].entry = e))
    <3>1. entry'[e] = F!Unused
      BY <1>1, <2>2 DEF F!Kept
    <3> QED BY <3>1, UnusedIs
  <2> QED BY <2>1, <2>2
<1> HIDE DEF T
<1> QED BY <1>1, <1>2 DEF EntryInv, EntryIs, F!Filling

\* A miss replaces the origin's entry; only a ready one is replaced.
LEMMA EntryMiss ==
  ASSUME F!IsPolite, FetchInv, NEW t \in Task, F!RulesFor(t), F!Stale(t, cache[F!PageOrigin(t)])
  PROVE  EntryInv'
<1> DEFINE x == NextEntry(t)
           o == F!PageOrigin(t)
           a == [F!Unused EXCEPT !.step = "asking", !.origin = o]
           C == [cache EXCEPT ![o] = x]
           T == [task EXCEPT ![t] = [task[t] EXCEPT !.step = "waiting", !.entry = x, !.stale = FALSE, !.late = FALSE]]
           E == [entry EXCEPT ![x] = a]
<1>0. task \in [Task -> TaskRecord] /\ entry \in [Entry -> EntryRecord] /\ cache \in [Origin -> Entry \cup {"none"}]
  BY Types DEF FetchInv
<1>1. /\ cache' = C /\ task' = T /\ entry' = F!Kept(E, C, T)
      /\ task[t].step = "reading" /\ task[t].entry = "none"
  BY <1>0 DEF F!RulesFor, F!Miss, NextEntry, FetchInv, TaskInv
<1>2. x \in Entry /\ entry[x].step = "free" /\ o \in Origin
  BY <1>1, NextEntryIsFree, Hosts
<1>3. x # "none"
  BY <1>2 DEF F!IsPolite
<1>4. cache[o] = "none" \/ entry[cache[o]].step = "ready"
  BY DEF F!Stale, F!Ready
<1>5. C[o] = x /\ \A p \in Origin : p # o => C[p] = cache[p]
  BY <1>0, <1>2
<1>6. \A u \in Task : u # t => T[u].entry = task[u].entry
  BY <1>0
<1> HIDE DEF C, T
<1>7. ASSUME NEW e \in Entry PROVE EntryIs(entry'[e], e, C, T)
  <2>1. CASE ~((\E p \in Origin : C[p] = e) \/ (\E u \in Task : T[u].entry = e))
    <3>1. entry'[e] = F!Unused
      BY <1>1, <2>1 DEF F!Kept
    <3> QED BY <3>1, UnusedIs
  <2>2. CASE e = x
    <3>1. entry'[e] = a
      BY <1>0, <1>1, <1>2, <1>5, <2>2 DEF F!Kept
    <3>2. EntryIs(a, e, C, T)
      BY <1>2, <1>5, <2>2 DEF EntryIs, F!Unused, Heard, F!Pending
    <3> QED BY <3>1, <3>2
  <2>3. CASE e # x /\ ((\E p \in Origin : C[p] = e) \/ (\E u \in Task : T[u].entry = e))
    <3>1. entry'[e] = entry[e]
      BY <1>0, <1>1, <1>2, <2>3 DEF F!Kept
    <3>2. EntryIs(entry[e], e, cache, task)
      BY EntryIsInv DEF FetchInv
    <3>3. entry[e].step \in {"asking", "slot", "sent", "answered", "applied"} => C[entry[e].origin] = e
      BY <1>4, <1>5, <3>2 DEF EntryIs, F!IsPolite
    <3> QED BY <2>3, <3>1, <3>2, <3>3 DEF EntryIs
  <2> QED BY <2>1, <2>2, <2>3
<1> QED BY <1>1, <1>7 DEF EntryInv, EntryIs, F!Filling

\* A step that touches no entry and leaves everybody's reference.
LEMMA EntrySame ==
  ASSUME FetchInv, entry' = entry, cache' = cache,
         \A t \in Task : task[t].entry \in Entry => task'[t].entry = task[t].entry
  PROVE  EntryInv'
<1>1. ASSUME NEW e \in Entry PROVE EntryIs(entry[e], e, cache, task')
  BY EntryIsInv DEF FetchInv, EntryIs
<1> QED BY <1>1 DEF EntryInv, EntryIs, F!Filling

\* A step of one entry's fill.
LEMMA EntryOne ==
  ASSUME FetchInv, NEW e \in Entry, NEW r, entry' = [entry EXCEPT ![e] = r], UNCHANGED <<cache, task>>,
         EntryIs(entry[e], e, cache, task) => EntryIs(r, e, cache, task)
  PROVE  EntryInv'
<1>0. entry \in [Entry -> EntryRecord]
  BY Types DEF FetchInv
<1>1. ASSUME NEW f \in Entry PROVE EntryIs(entry'[f], f, cache, task)
  <2>1. EntryIs(entry[f], f, cache, task)
    BY EntryIsInv DEF FetchInv
  <2> QED BY <1>0, <2>1
<1> QED BY <1>1 DEF EntryInv, EntryIs, F!Filling

\* Each step keeps the invariant of the entries.
LEMMA EntryStep ==
  ASSUME F!IsPolite, FetchInv, [F!Next]_F!vars
  PROVE  EntryInv'
<1>0. /\ task \in [Task -> TaskRecord] /\ entry \in [Entry -> EntryRecord]
      /\ cache \in [Origin -> Entry \cup {"none"}] /\ "none" \notin Entry
  BY Types DEF FetchInv, F!IsPolite
<1>e. \A e \in Entry : entry[e] \in EntryRecord
  BY <1>0
<1>1. ASSUME NEW t \in Task, NEW p \in URL, F!Start(t, p) PROVE EntryInv'
  <2>1. task[t].entry = "none" /\ UNCHANGED <<cache, entry>>
    BY <1>1 DEF F!Start, FetchInv, TaskInv
  <2>2. \A u \in Task : task[u].entry \in Entry => task'[u].entry = task[u].entry
    BY <1>0, <1>1, <2>1 DEF F!Start
  <2> QED BY <2>1, <2>2, EntrySame
<1>2. ASSUME NEW t \in Task, F!RulesFor(t) PROVE EntryInv'
  <2>1. CASE F!Stale(t, cache[F!PageOrigin(t)])
    BY <1>2, <2>1, EntryMiss
  <2>2. CASE ~F!Stale(t, cache[F!PageOrigin(t)])
    <3>1. task[t].entry = "none" /\ UNCHANGED <<cache, entry>>
      BY <1>2, <2>2 DEF F!RulesFor, F!Hit, FetchInv, TaskInv
    <3>2. \A u \in Task : task[u].entry \in Entry => task'[u].entry = task[u].entry
      BY <1>0, <1>2, <2>2, <3>1 DEF F!RulesFor, F!Hit
    <3> QED BY <3>1, <3>2, EntrySame
  <2> QED BY <2>1, <2>2
<1>3. ASSUME NEW t \in Task, F!GiveUp(t) PROVE EntryInv'
  BY <1>3, EntryReturn DEF F!GiveUp
<1>4. ASSUME NEW t \in Task, F!Answered(t) PROVE EntryInv'
  <2>1. CASE F!Return(t)
    BY <1>4, <2>1, EntryReturn DEF F!Answered
  <2>2. CASE ~F!Return(t)
    <3>1. task' = [task EXCEPT ![t].step = "cleared"] /\ UNCHANGED <<cache, entry>>
      BY <1>4, <2>2 DEF F!Answered
    <3>2. \A u \in Task : task'[u].entry = task[u].entry
      BY <1>0, <3>1 DEF TaskRecord
    <3> QED BY <3>1, <3>2, EntrySame
  <2> QED BY <2>1, <2>2
<1>5. ASSUME NEW e \in Entry, F!FillReserve(e) PROVE EntryInv'
  <2> DEFINE r == F!Slot(entry[e], F!HostOfEntry(e))
  <2>1. EntryIs(entry[e], e, cache, task) => EntryIs(r, e, cache, task)
    BY <1>e, <1>5 DEF F!FillReserve, F!Slot, EntryIs, EntryRecord
  <2>2. entry' = [entry EXCEPT ![e] = r] /\ UNCHANGED <<cache, task>>
    BY <1>5 DEF F!FillReserve
  <2> HIDE DEF r
  <2> QED BY <2>1, <2>2, EntryOne
<1>6. ASSUME NEW e \in Entry, F!FillSend(e) PROVE EntryInv'
  <2> DEFINE r == [entry[e] EXCEPT !.step = "sent", !.gap = PolitenessDelay]
  <2>1. EntryIs(entry[e], e, cache, task) => EntryIs(r, e, cache, task)
    BY <1>e, <1>6 DEF F!FillSend, EntryIs, EntryRecord
  <2>2. entry' = [entry EXCEPT ![e] = r] /\ UNCHANGED <<cache, task>>
    BY <1>0, <1>6 DEF F!FillSend
  <2> HIDE DEF r
  <2> QED BY <2>1, <2>2, EntryOne
<1>7. ASSUME NEW e \in Entry, F!Answers(e) PROVE EntryInv'
  <2>1. PICK a \in F!Said : F!SiteAnswers(e, a)
    BY <1>7 DEF F!Answers
  <2> DEFINE r == [entry[e] EXCEPT !.step = "answered", !.said = a[1], !.answer = a[2],
                     !.expires = F!Expiry(a[2]), !.age = 0]
  <2>2. F!Expiry(a[2]) <= CacheTTL /\ a[2] \in Heard /\ F!Expiry(a[2]) \in Nat
    BY DelaysAreTyped DEF F!Expiry, F!IsPolite
  <2>3. EntryIs(entry[e], e, cache, task) => EntryIs(r, e, cache, task)
    BY <1>e, <2>1, <2>2 DEF F!SiteAnswers, EntryIs, EntryRecord
  <2>4. entry' = [entry EXCEPT ![e] = r] /\ UNCHANGED <<cache, task>>
    BY <1>0, <2>1 DEF F!SiteAnswers
  <2> HIDE DEF r
  <2> QED BY <2>3, <2>4, EntryOne
<1>8. ASSUME NEW e \in Entry, F!FillDelay(e) PROVE EntryInv'
  <2> DEFINE r == [entry[e] EXCEPT !.step = "applied", !.applied = TRUE]
  <2>1. EntryIs(entry[e], e, cache, task) => EntryIs(r, e, cache, task)
    BY <1>e, <1>8 DEF F!FillDelay, EntryIs, EntryRecord
  <2>2. entry' = [entry EXCEPT ![e] = r] /\ UNCHANGED <<cache, task>>
    BY <1>0, <1>8 DEF F!FillDelay
  <2> HIDE DEF r
  <2> QED BY <2>1, <2>2, EntryOne
<1>9. ASSUME NEW e \in Entry, F!FillClose(e) PROVE EntryInv'
  <2> DEFINE r == [entry[e] EXCEPT !.step = "ready"]
  <2>1. EntryIs(entry[e], e, cache, task) => EntryIs(r, e, cache, task)
    BY <1>e, <1>9 DEF F!FillClose, EntryIs, EntryRecord
  <2>2. entry' = [entry EXCEPT ![e] = r] /\ UNCHANGED <<cache, task>>
    BY <1>0, <1>9 DEF F!FillClose
  <2> HIDE DEF r
  <2> QED BY <2>1, <2>2, EntryOne
<1>10. ASSUME NEW t \in Task, F!Reserving(t) PROVE EntryInv'
  <2>1. task' = [task EXCEPT ![t] = F!Slot(task[t], F!PageHost(t))] /\ UNCHANGED <<cache, entry>>
    BY <1>10 DEF F!Reserving
  <2>2. \A u \in Task : task'[u].entry = task[u].entry
    BY <1>0, <2>1 DEF F!Slot, TaskRecord
  <2> QED BY <2>1, <2>2, EntrySame
<1>11. ASSUME NEW t \in Task, F!Send(t) PROVE EntryInv'
  <2>1. task' = [task EXCEPT ![t].step = "sent", ![t].gap = PolitenessDelay] /\ UNCHANGED <<cache, entry>>
    BY <1>11 DEF F!Send
  <2>2. \A u \in Task : task'[u].entry = task[u].entry
    BY <1>0, <2>1 DEF TaskRecord
  <2> QED BY <2>1, <2>2, EntrySame
<1>12. ASSUME NEW t \in Task, F!Response(t) PROVE EntryInv'
  BY <1>12, EntryReturn DEF F!Response
<1>13. ASSUME NEW t \in Task, NEW p \in URL, F!Redirected(t, p) PROVE EntryInv'
  <2>1. CASE task[t].hops = MaxRedirects
    BY <1>13, <2>1, EntryReturn DEF F!Redirected
  <2>2. CASE task[t].hops # MaxRedirects
    <3>1. task' = [task EXCEPT ![t].page = p, ![t].hops = @ + 1] /\ UNCHANGED <<cache, entry>>
      BY <1>13, <2>2 DEF F!Redirected
    <3>2. \A u \in Task : task'[u].entry = task[u].entry
      BY <1>0, <3>1 DEF TaskRecord
    <3> QED BY <3>1, <3>2, EntrySame
  <2> QED BY <2>1, <2>2
<1>14. ASSUME NEW h \in Host, F!EvictHost(h) PROVE EntryInv'
  BY <1>14, EntrySame DEF F!EvictHost
<1>15. ASSUME F!Tick PROVE EntryInv'
  <2>1. /\ entry' = [e \in Entry |-> [entry[e] EXCEPT !.wait = F!Down(@), !.expires = F!Most(@ - 1, -1),
             !.age = IF entry[e].step \in {"answered", "applied", "ready"}
                     THEN F!Least(@ + 1, CacheTTL + 1) ELSE 0]]
        /\ cache' = cache
    BY <1>15 DEF F!Tick
  <2>2. \A u \in Task : task'[u].entry = task[u].entry
    BY <1>0, <1>15 DEF F!Tick, TaskRecord
  <2>3. ASSUME NEW e \in Entry PROVE EntryIs(entry'[e], e, cache, task')
    <3>1. EntryIs(entry[e], e, cache, task)
      BY EntryIsInv DEF FetchInv
    <3>2. /\ entry'[e].step = entry[e].step /\ entry'[e].answer = entry[e].answer
          /\ entry'[e].origin = entry[e].origin /\ entry'[e].applied = entry[e].applied
      BY <1>e, <2>1 DEF EntryRecord
    <3>3. entry'[e].expires >= 0 => entry'[e].age + entry'[e].expires <= CacheTTL
      <4>1. /\ entry'[e].expires = F!Most(entry[e].expires - 1, -1)
            /\ entry'[e].age = IF entry[e].step \in {"answered", "applied", "ready"}
                               THEN F!Least(entry[e].age + 1, CacheTTL + 1) ELSE 0
        BY <1>e, <2>1 DEF EntryRecord
      <4>2. /\ entry[e].expires \in -1 .. CacheTTL /\ entry[e].age \in 0 .. CacheTTL + 1
            /\ entry[e].expires >= 0 => entry[e].age + entry[e].expires <= CacheTTL
        BY <1>e, <3>1 DEF EntryRecord, EntryIs
      <4>3. CacheTTL \in Nat
        BY DEF F!IsPolite
      <4>4. entry'[e].age <= entry[e].age + 1
        BY <4>1, <4>2, <4>3 DEF F!Least
      <4>5. entry'[e].expires >= 0 => entry[e].expires >= 0 /\ entry'[e].expires = entry[e].expires - 1
        BY <4>1, <4>2, <4>3 DEF F!Most
      <4>6. entry'[e].age \in Int
        BY <4>1, <4>2, <4>3 DEF F!Least
      <4> QED BY <4>2, <4>3, <4>4, <4>5, <4>6
    <3> QED BY <2>2, <3>1, <3>2, <3>3 DEF EntryIs
  <2> QED BY <2>1, <2>3 DEF EntryInv, EntryIs, F!Filling
<1>16. ASSUME UNCHANGED F!vars PROVE EntryInv'
  BY <1>16, EntrySame DEF F!vars
<1> QED
  BY <1>1, <1>2, <1>3, <1>4, <1>5, <1>6, <1>7, <1>8, <1>9, <1>10, <1>11, <1>12, <1>13, <1>14, <1>15, <1>16
  DEF F!Next, F!Proceed, F!Fill

\* An action that changes nothing a cached entry is known by.
LEMMA CacheSame ==
  ASSUME CacheInv, cache' = cache,
         \A o \in Origin : cache[o] # "none" /\ entry[cache[o]].step # "free" =>
            entry'[cache[o]].step # "free" /\ entry'[cache[o]].origin = entry[cache[o]].origin
  PROVE  CacheInv'
BY DEF CacheInv

\* A cached entry outlives the calls that wait for it.
LEMMA CacheReturn ==
  ASSUME FetchInv, NEW t \in Task, F!Return(t), cache' = cache
  PROVE  CacheInv'
<1>1. \A o \in Origin : cache[o] # "none" => entry'[cache[o]] = entry[cache[o]]
  BY Types DEF F!Return, F!Kept, FetchInv
<1> QED BY <1>1, CacheSame DEF FetchInv

\* A step of one entry's fill.
LEMMA CacheOne ==
  ASSUME FetchInv, NEW e \in Entry, NEW r, entry' = [entry EXCEPT ![e] = r], UNCHANGED cache,
         r.origin = entry[e].origin, r.step # "free"
  PROVE  CacheInv'
<1>0. entry \in [Entry -> EntryRecord] /\ cache \in [Origin -> Entry \cup {"none"}]
  BY Types DEF FetchInv
<1>1. ASSUME NEW o \in Origin, cache[o] # "none" 
      PROVE  entry[cache[o]].step # "free" => entry'[cache[o]].step # "free" /\ entry'[cache[o]].origin = entry[cache[o]].origin
  BY <1>0, <1>1
<1> QED BY <1>1, CacheSame DEF FetchInv

\* Each step keeps the cache pointing at the entry of its origin.
LEMMA CacheStep ==
  ASSUME F!IsPolite, FetchInv, [F!Next]_F!vars
  PROVE  CacheInv'
<1>0. /\ task \in [Task -> TaskRecord] /\ entry \in [Entry -> EntryRecord]
      /\ cache \in [Origin -> Entry \cup {"none"}] /\ "none" \notin Entry
  BY Types DEF FetchInv, F!IsPolite
<1>e. \A e \in Entry : entry[e] \in EntryRecord
  BY <1>0
<1>s. ASSUME UNCHANGED <<cache, entry>> PROVE CacheInv'
  BY <1>s, CacheSame DEF FetchInv
<1>1. ASSUME NEW t \in Task, NEW p \in URL, F!Start(t, p) PROVE CacheInv'
  BY <1>1, <1>s DEF F!Start
<1>2. ASSUME NEW t \in Task, F!RulesFor(t) PROVE CacheInv'
  <2>1. CASE F!Stale(t, cache[F!PageOrigin(t)])
    <3> DEFINE x == NextEntry(t)
               o == F!PageOrigin(t)
               a == [F!Unused EXCEPT !.step = "asking", !.origin = o]
    <3>1. /\ cache' = [cache EXCEPT ![o] = x]
          /\ entry' = F!Kept([entry EXCEPT ![x] = a], cache', task')
          /\ task[t].step = "reading"
      BY <1>2, <2>1 DEF F!RulesFor, F!Miss, NextEntry
    <3>2. x \in Entry /\ entry[x].step = "free" /\ o \in Origin
      BY <3>1, <1>2, NextEntryIsFree, Hosts
    <3>3. a.step = "asking" /\ a.origin = o
      BY DEF F!Unused
    <3> HIDE DEF a, x, o
    <3>4. ASSUME NEW q \in Origin, cache'[q] # "none"
          PROVE  entry'[cache'[q]].step # "free" /\ entry'[cache'[q]].origin = q
      <4>1. cache'[q] \in Entry /\ entry'[cache'[q]] = [entry EXCEPT ![x] = a][cache'[q]]
        BY <1>0, <3>1, <3>2, <3>4 DEF F!Kept
      <4>2. CASE q = o
        BY <1>0, <3>1, <3>2, <3>3, <4>1, <4>2
      <4>3. CASE q # o
        <5>1. cache'[q] = cache[q] /\ cache[q] # x
          BY <1>0, <3>1, <3>2, <3>4, <4>3 DEF FetchInv, CacheInv
        <5> QED BY <1>0, <3>4, <4>1, <5>1 DEF FetchInv, CacheInv
      <4> QED BY <4>2, <4>3
    <3> QED BY <3>4 DEF CacheInv
  <2>2. CASE ~F!Stale(t, cache[F!PageOrigin(t)])
    BY <1>2, <1>s, <2>2 DEF F!RulesFor, F!Hit
  <2> QED BY <2>1, <2>2
<1>3. ASSUME NEW t \in Task, F!GiveUp(t) PROVE CacheInv'
  BY <1>3, CacheReturn DEF F!GiveUp
<1>4. ASSUME NEW t \in Task, F!Answered(t) PROVE CacheInv'
  BY <1>4, <1>s, CacheReturn DEF F!Answered
<1>5. ASSUME NEW e \in Entry, F!FillReserve(e) PROVE CacheInv'
  <2> DEFINE r == F!Slot(entry[e], F!HostOfEntry(e))
  <2>1. r.origin = entry[e].origin /\ r.step # "free"
    BY <1>e DEF F!Slot, EntryRecord
  <2>2. entry' = [entry EXCEPT ![e] = r] /\ UNCHANGED cache
    BY <1>5 DEF F!FillReserve
  <2> HIDE DEF r
  <2> QED BY <2>1, <2>2, CacheOne
<1>6. ASSUME NEW e \in Entry, F!FillSend(e) PROVE CacheInv'
  <2> DEFINE r == [entry[e] EXCEPT !.step = "sent", !.gap = PolitenessDelay]
  <2>1. r.origin = entry[e].origin /\ r.step # "free"
    BY <1>e DEF EntryRecord
  <2>2. entry' = [entry EXCEPT ![e] = r] /\ UNCHANGED cache
    BY <1>0, <1>6 DEF F!FillSend
  <2> HIDE DEF r
  <2> QED BY <2>1, <2>2, CacheOne
<1>7. ASSUME NEW e \in Entry, F!Answers(e) PROVE CacheInv'
  <2>1. PICK a \in F!Said : F!SiteAnswers(e, a)
    BY <1>7 DEF F!Answers
  <2> DEFINE r == [entry[e] EXCEPT !.step = "answered", !.said = a[1], !.answer = a[2],
                     !.expires = F!Expiry(a[2]), !.age = 0]
  <2>2. r.origin = entry[e].origin /\ r.step # "free"
    BY <1>e DEF EntryRecord
  <2>3. entry' = [entry EXCEPT ![e] = r] /\ UNCHANGED cache
    BY <1>0, <2>1 DEF F!SiteAnswers
  <2> HIDE DEF r
  <2> QED BY <2>2, <2>3, CacheOne
<1>8. ASSUME NEW e \in Entry, F!FillDelay(e) PROVE CacheInv'
  <2> DEFINE r == [entry[e] EXCEPT !.step = "applied", !.applied = TRUE]
  <2>1. r.origin = entry[e].origin /\ r.step # "free"
    BY <1>e DEF EntryRecord
  <2>2. entry' = [entry EXCEPT ![e] = r] /\ UNCHANGED cache
    BY <1>0, <1>8 DEF F!FillDelay
  <2> HIDE DEF r
  <2> QED BY <2>1, <2>2, CacheOne
<1>9. ASSUME NEW e \in Entry, F!FillClose(e) PROVE CacheInv'
  <2> DEFINE r == [entry[e] EXCEPT !.step = "ready"]
  <2>1. r.origin = entry[e].origin /\ r.step # "free"
    BY <1>e DEF EntryRecord
  <2>2. entry' = [entry EXCEPT ![e] = r] /\ UNCHANGED cache
    BY <1>0, <1>9 DEF F!FillClose
  <2> HIDE DEF r
  <2> QED BY <2>1, <2>2, CacheOne
<1>10. ASSUME NEW t \in Task, F!Reserving(t) \/ F!Send(t) PROVE CacheInv'
  BY <1>10, <1>s DEF F!Reserving, F!Send
<1>12. ASSUME NEW t \in Task, F!Response(t) PROVE CacheInv'
  BY <1>12, CacheReturn DEF F!Response
<1>13. ASSUME NEW t \in Task, NEW p \in URL, F!Redirected(t, p) PROVE CacheInv'
  BY <1>13, <1>s, CacheReturn DEF F!Redirected
<1>14. ASSUME NEW h \in Host, F!EvictHost(h) PROVE CacheInv'
  BY <1>14, <1>s DEF F!EvictHost
<1>15. ASSUME F!Tick PROVE CacheInv'
  <2>1. \A e \in Entry : entry'[e].step = entry[e].step /\ entry'[e].origin = entry[e].origin
    BY <1>e, <1>15 DEF F!Tick, EntryRecord
  <2>2. cache' = cache
    BY <1>15 DEF F!Tick
  <2>3. \A o \in Origin : cache[o] # "none" => cache[o] \in Entry
    BY <1>0
  <2> QED BY <2>1, <2>2, <2>3, CacheSame DEF FetchInv
<1>16. ASSUME UNCHANGED F!vars PROVE CacheInv'
  BY <1>16, <1>s DEF F!vars
<1> QED
  BY <1>1, <1>2, <1>3, <1>4, <1>5, <1>6, <1>7, <1>8, <1>9, <1>10, <1>12, <1>13, <1>14, <1>15, <1>16
  DEF F!Next, F!Proceed, F!Fill

\* What the invariant asks of a call, of the records in force.
TaskIs(r, C, E) ==
  /\ r.step # "idle" => r.page \in URL
  /\ r.step \in {"idle", "reading"} => r.entry = "none"
  /\ r.step \notin {"idle", "reading"} =>
       /\ r.entry \in Entry /\ E[r.entry].step # "free" /\ ~r.late
       /\ r.hops = 0 => E[r.entry].origin = OriginOf[r.page]
  /\ r.step \in {"cleared", "slot", "sent"} =>
       /\ E[r.entry].step = "ready"
       /\ r.hops = 0 => F!Clears(E[r.entry].answer, r.page)
  /\ r.step = "reading" /\ r.late =>
       r.stale /\ C[OriginOf[r.page]] # "none" /\ E[C[OriginOf[r.page]]].step = "ready"
OneReader == \A t, u \in Task : task[t].step = "reading" /\ task[u].step = "reading" => t = u

\* The invariant of the calls, call by call.
LEMMA TaskIsInv == TaskInv <=> (\A t \in Task : TaskIs(task[t], cache, entry)) /\ OneReader
BY DEF TaskInv, TaskIs, OneReader, F!PageOrigin, F!Ready

LEMMA TaskIsNext ==
  ASSUME \A t \in Task : TaskIs(task'[t], cache', entry'), OneReader'
  PROVE  TaskInv'
BY DEF TaskInv, TaskIs, OneReader, F!PageOrigin, F!Ready

\* Entries move on, but one that is in use stays the same origin's, and what is ready stays.
Onward(E, e) ==
  /\ entry[e].step # "free" => E[e].step # "free" /\ E[e].origin = entry[e].origin
  /\ entry[e].step = "ready" => E[e].step = "ready" /\ E[e].answer = entry[e].answer

\* What a call knows of its entry stays true while the entry moves on.
LEMMA TasksSame ==
  ASSUME F!IsPolite, FetchInv, cache' = cache, \A e \in Entry : Onward(entry', e),
         NEW t \in Task, task'[t] = task[t]
  PROVE  TaskIs(task'[t], cache', entry')
<1>1. TaskIs(task[t], cache, entry)
  BY TaskIsInv DEF FetchInv
<1>2. cache \in [Origin -> Entry \cup {"none"}]
  BY Types DEF FetchInv
<1>3. task[t].step = "reading" /\ task[t].late =>
        task[t].stale /\ cache[OriginOf[task[t].page]] # "none" /\ entry'[cache[OriginOf[task[t].page]]].step = "ready"
  <2> DEFINE c == cache[OriginOf[task[t].page]]
  <2> SUFFICES ASSUME task[t].step = "reading", task[t].late
               PROVE  task[t].stale /\ c # "none" /\ entry'[c].step = "ready"
    OBVIOUS
  <2>1. task[t].stale /\ c # "none" /\ entry[c].step = "ready" /\ task[t].page \in URL
    BY <1>1 DEF TaskIs
  <2>2. c \in Entry
    BY <1>2, <2>1 DEF F!IsPolite
  <2> QED BY <2>1, <2>2 DEF Onward
<1> QED BY <1>1, <1>3 DEF TaskIs, Onward

LEMMA TaskEntry ==
  ASSUME F!IsPolite, FetchInv, cache' = cache, NEW e \in Entry, NEW r, entry' = [entry EXCEPT ![e] = r],
         Onward([entry EXCEPT ![e] = r], e), task' = task
  PROVE  TaskInv'
<1>1. ASSUME NEW f \in Entry PROVE Onward(entry', f)
  <2>1. entry \in [Entry -> EntryRecord]
    BY Types DEF FetchInv
  <2> QED BY <2>1 DEF Onward
<1>2. OneReader'
  BY TaskIsInv DEF FetchInv, OneReader
<1> QED BY <1>1, <1>2, TasksSame, TaskIsNext

\* One call moves on while entries do not.
LEMMA TaskOne ==
  ASSUME F!IsPolite, FetchInv, UNCHANGED <<cache, entry>>, NEW t \in Task, NEW r,
         task' = [task EXCEPT ![t] = r], TaskIs(task[t], cache, entry) => TaskIs(r, cache, entry),
         r.step = "reading" => \A u \in Task : task[u].step # "reading"
  PROVE  TaskInv'
<1>0. task \in [Task -> TaskRecord]
  BY Types DEF FetchInv
<1>1. ASSUME NEW u \in Task PROVE TaskIs(task'[u], cache', entry')
  BY <1>0, TaskIsInv DEF FetchInv
<1>2. OneReader'
  BY <1>0, TaskIsInv DEF FetchInv, OneReader
<1> QED BY <1>1, <1>2, TaskIsNext

LEMMA IdleIs == ASSUME NEW C, NEW E PROVE TaskIs(F!NoCall, C, E)
BY DEF TaskIs, F!NoCall

\* A call that returns takes no entry from another.
LEMMA TaskReturn ==
  ASSUME F!IsPolite, FetchInv, NEW t \in Task, F!Return(t), cache' = cache
  PROVE  TaskInv'
<1>0. task \in [Task -> TaskRecord] /\ cache \in [Origin -> Entry \cup {"none"}]
  BY Types DEF FetchInv
<1>1. task' = [task EXCEPT ![t] = F!NoCall] /\ entry' = F!Kept(entry, cache, task')
  BY DEF F!Return
<1>2. ASSUME NEW u \in Task PROVE TaskIs(task'[u], cache', entry')
  <2>1. CASE u = t
    BY <1>0, <1>1, <2>1, IdleIs
  <2>2. CASE u # t
    <3>1. task'[u] = task[u] /\ TaskIs(task[u], cache, entry)
      BY <1>0, <1>1, <2>2, TaskIsInv DEF FetchInv
    <3>2. task[u].entry \in Entry => entry'[task[u].entry] = entry[task[u].entry]
      BY <1>1, <3>1 DEF F!Kept
    <3>3. \A o \in Origin : cache[o] # "none" => entry'[cache[o]] = entry[cache[o]]
      BY <1>0, <1>1 DEF F!Kept
    <3>4. task[u].step # "idle" => OriginOf[task[u].page] \in Origin
      BY <3>1 DEF TaskIs, F!IsPolite
    <3> QED BY <3>1, <3>2, <3>3, <3>4 DEF TaskIs
  <2> QED BY <2>1, <2>2
<1>3. OneReader'
  BY <1>0, <1>1, TaskIsInv DEF FetchInv, OneReader, F!NoCall
<1> QED BY <1>2, <1>3, TaskIsNext

\* Nor does one that replaces the cached entry.
LEMMA TaskMiss ==
  ASSUME F!IsPolite, FetchInv, NEW t \in Task, F!RulesFor(t), F!Stale(t, cache[F!PageOrigin(t)])
  PROVE  TaskInv'
<1> DEFINE x == NextEntry(t)
           o == F!PageOrigin(t)
           a == [F!Unused EXCEPT !.step = "asking", !.origin = o]
           r == [task[t] EXCEPT !.step = "waiting", !.entry = x, !.stale = FALSE, !.late = FALSE]
<1>0. task \in [Task -> TaskRecord] /\ entry \in [Entry -> EntryRecord] /\ cache \in [Origin -> Entry \cup {"none"}]
  BY Types DEF FetchInv
<1>1. /\ cache' = [cache EXCEPT ![o] = x] /\ task' = [task EXCEPT ![t] = r]
      /\ entry' = F!Kept([entry EXCEPT ![x] = a], cache', task') /\ task[t].step = "reading"
  BY <1>0 DEF F!RulesFor, F!Miss, NextEntry
<1>2. x \in Entry /\ entry[x].step = "free" /\ o \in Origin
  BY <1>1, NextEntryIsFree, Hosts
<1>3. a.step = "asking" /\ a.origin = o
  BY DEF F!Unused
<1>4. r.step = "waiting" /\ r.entry = x /\ r.page = task[t].page /\ r.late = FALSE
  BY <1>0 DEF TaskRecord
<1>5. o = OriginOf[task[t].page]
  BY DEF F!PageOrigin
<1> HIDE DEF x, o, a, r
<1>6. ASSUME NEW u \in Task PROVE TaskIs(task'[u], cache', entry')
  <2>1. CASE u = t
    <3>1. task'[u] = r
      BY <1>0, <1>1, <2>1
    <3>2. entry'[x] = a
      BY <1>0, <1>1, <1>2, <1>4, <2>1, <3>1 DEF F!Kept
    <3>3. task[t].page \in URL
      BY <1>1, TaskIsInv DEF FetchInv, TaskIs
    <3> QED BY <1>2, <1>3, <1>4, <1>5, <3>1, <3>2, <3>3 DEF TaskIs
  <2>2. CASE u # t
    <3>1. task'[u] = task[u] /\ TaskIs(task[u], cache, entry)
      BY <1>0, <1>1, <2>2, TaskIsInv DEF FetchInv
    <3>2. task[u].entry \in Entry /\ entry[task[u].entry].step # "free" => entry'[task[u].entry] = entry[task[u].entry]
      BY <1>0, <1>1, <1>2, <3>1 DEF F!Kept
    <3>3. task[u].step # "reading"
      BY <1>1, <2>2, TaskIsInv DEF FetchInv, OneReader
    <3> QED BY <3>1, <3>2, <3>3 DEF TaskIs
  <2> QED BY <2>1, <2>2
<1>7. OneReader'
  BY <1>0, <1>1, <1>4, TaskIsInv DEF FetchInv, OneReader
<1> QED BY <1>6, <1>7, TaskIsNext

\* Each step keeps what a call knows of its entry.
LEMMA TaskStep ==
  ASSUME F!IsPolite, FetchInv, [F!Next]_F!vars
  PROVE  TaskInv'
<1>0. /\ task \in [Task -> TaskRecord] /\ entry \in [Entry -> EntryRecord]
      /\ cache \in [Origin -> Entry \cup {"none"}] /\ "none" \notin Entry
  BY Types DEF FetchInv, F!IsPolite
<1>e. \A e \in Entry : entry[e] \in EntryRecord
  BY <1>0
<1>t. \A t \in Task : task[t] \in TaskRecord /\ TaskIs(task[t], cache, entry)
  BY <1>0, TaskIsInv DEF FetchInv
<1>1. ASSUME NEW t \in Task, NEW p \in URL, F!Start(t, p) PROVE TaskInv'
  <2> DEFINE c == cache[OriginOf[p]]
             r == [F!NoCall EXCEPT !.step = "reading", !.page = p,
                     !.stale = c = "none" \/ entry[c].expires < 0,
                     !.late = c # "none" /\ F!Ready(c) /\ entry[c].age > CacheTTL]
  <2>1. task' = [task EXCEPT ![t] = r] /\ UNCHANGED <<cache, entry>> /\ \A u \in Task : task[u].step # "reading"
    BY <1>1 DEF F!Start
  <2>2. c # "none" /\ entry[c].age > CacheTTL => entry[c].expires < 0
    <3>1. c \in Entry \cup {"none"}
      BY <1>0 DEF F!IsPolite
    <3>2. c \in Entry => /\ entry[c].age \in Nat /\ entry[c].expires \in Int
                         /\ entry[c].expires >= 0 => entry[c].age + entry[c].expires <= CacheTTL
      BY <1>e DEF EntryRecord, FetchInv, EntryInv, F!IsPolite
    <3>3. CacheTTL \in Nat
      BY DEF F!IsPolite
    <3> QED BY <3>1, <3>2, <3>3
  <2>3. /\ r.step = "reading" /\ r.page = p /\ r.entry = "none"
        /\ r.stale = (c = "none" \/ entry[c].expires < 0)
        /\ r.late = (c # "none" /\ F!Ready(c) /\ entry[c].age > CacheTTL)
    BY DEF F!NoCall
  <2> HIDE DEF r, c
  <2>4. TaskIs(r, cache, entry)
    BY <2>2, <2>3 DEF TaskIs, c, F!Ready
  <2> QED BY <2>1, <2>4, TaskOne
<1>2. ASSUME NEW t \in Task, F!RulesFor(t) PROVE TaskInv'
  <2>1. CASE F!Stale(t, cache[F!PageOrigin(t)])
    BY <1>2, <2>1, TaskMiss
  <2>2. CASE ~F!Stale(t, cache[F!PageOrigin(t)])
    <3> DEFINE o == F!PageOrigin(t)
               r == [task[t] EXCEPT !.step = "waiting", !.entry = cache[o], !.stale = FALSE]
    <3>1. task' = [task EXCEPT ![t] = r] /\ UNCHANGED <<cache, entry>> /\ task[t].step = "reading"
      BY <1>0, <1>2, <2>2 DEF F!RulesFor, F!Hit
    <3>2. o \in Origin /\ o = OriginOf[task[t].page] /\ task[t].page \in URL
      BY <1>t, <3>1, Hosts DEF F!PageOrigin, TaskIs
    <3>3. cache[o] \in Entry /\ entry[cache[o]].step # "free" /\ entry[cache[o]].origin = o
      BY <1>0, <2>2, <3>2 DEF F!Stale, FetchInv, CacheInv
    <3>4. ~task[t].late
      BY <1>t, <2>2, <3>1, <3>2 DEF F!Stale, F!Ready, TaskIs
    <3>5. r.step = "waiting" /\ r.entry = cache[o] /\ r.page = task[t].page /\ r.late = task[t].late
      BY <1>t DEF TaskRecord
    <3> HIDE DEF r, o
    <3>6. TaskIs(r, cache, entry)
      BY <3>2, <3>3, <3>4, <3>5 DEF TaskIs
    <3> QED BY <3>1, <3>5, <3>6, TaskOne
  <2> QED BY <2>1, <2>2
<1>3. ASSUME NEW t \in Task, F!GiveUp(t) PROVE TaskInv'
  BY <1>3, TaskReturn DEF F!GiveUp
<1>4. ASSUME NEW t \in Task, F!Answered(t) PROVE TaskInv'
  <2>1. CASE ~F!Clears(entry[task[t].entry].answer, task[t].page)
    BY <1>4, <2>1, TaskReturn DEF F!Answered
  <2>2. CASE F!Clears(entry[task[t].entry].answer, task[t].page)
    <3> DEFINE r == [task[t] EXCEPT !.step = "cleared"]
    <3>1. /\ task' = [task EXCEPT ![t] = r] /\ UNCHANGED <<cache, entry>>
          /\ task[t].step = "waiting" /\ entry[task[t].entry].step = "ready"
      BY <1>0, <1>4, <2>2 DEF F!Answered, F!Ready
    <3>2. TaskIs(r, cache, entry) /\ r.step = "cleared"
      BY <1>t, <2>2, <3>1 DEF TaskIs, TaskRecord
    <3> HIDE DEF r
    <3> QED BY <3>1, <3>2, TaskOne
  <2> QED BY <2>1, <2>2
<1>5. ASSUME NEW e \in Entry, F!FillReserve(e) PROVE TaskInv'
  <2> DEFINE r == F!Slot(entry[e], F!HostOfEntry(e))
  <2>1. r.step = "slot" /\ r.origin = entry[e].origin /\ entry[e].step = "asking"
    BY <1>e, <1>5 DEF F!Slot, EntryRecord, F!FillReserve
  <2>2. entry' = [entry EXCEPT ![e] = r] /\ UNCHANGED <<cache, task>>
    BY <1>5 DEF F!FillReserve
  <2> HIDE DEF r
  <2>3. Onward([entry EXCEPT ![e] = r], e)
    BY <1>0, <2>1 DEF Onward
  <2> QED BY <2>2, <2>3, TaskEntry
<1>6. ASSUME NEW e \in Entry, F!FillSend(e) PROVE TaskInv'
  <2> DEFINE r == [entry[e] EXCEPT !.step = "sent", !.gap = PolitenessDelay]
  <2>1. r.step = "sent" /\ r.origin = entry[e].origin /\ entry[e].step = "slot"
    BY <1>e, <1>6 DEF EntryRecord, F!FillSend
  <2>2. entry' = [entry EXCEPT ![e] = r] /\ UNCHANGED <<cache, task>>
    BY <1>0, <1>6 DEF F!FillSend
  <2> HIDE DEF r
  <2>3. Onward([entry EXCEPT ![e] = r], e)
    BY <1>0, <2>1 DEF Onward
  <2> QED BY <2>2, <2>3, TaskEntry
<1>7. ASSUME NEW e \in Entry, F!Answers(e) PROVE TaskInv'
  <2>1. PICK a \in F!Said : F!SiteAnswers(e, a)
    BY <1>7 DEF F!Answers
  <2> DEFINE r == [entry[e] EXCEPT !.step = "answered", !.said = a[1], !.answer = a[2],
                     !.expires = F!Expiry(a[2]), !.age = 0]
  <2>2. r.step = "answered" /\ r.origin = entry[e].origin /\ entry[e].step = "sent"
    BY <1>e, <2>1 DEF EntryRecord, F!SiteAnswers
  <2>3. entry' = [entry EXCEPT ![e] = r] /\ UNCHANGED <<cache, task>>
    BY <1>0, <2>1 DEF F!SiteAnswers
  <2> HIDE DEF r
  <2>4. Onward([entry EXCEPT ![e] = r], e)
    BY <1>0, <2>2 DEF Onward
  <2> QED BY <2>3, <2>4, TaskEntry
<1>8. ASSUME NEW e \in Entry, F!FillDelay(e) PROVE TaskInv'
  <2> DEFINE r == [entry[e] EXCEPT !.step = "applied", !.applied = TRUE]
  <2>1. r.step = "applied" /\ r.origin = entry[e].origin /\ entry[e].step = "answered"
    BY <1>e, <1>8 DEF EntryRecord, F!FillDelay
  <2>2. entry' = [entry EXCEPT ![e] = r] /\ UNCHANGED <<cache, task>>
    BY <1>0, <1>8 DEF F!FillDelay
  <2> HIDE DEF r
  <2>3. Onward([entry EXCEPT ![e] = r], e)
    BY <1>0, <2>1 DEF Onward
  <2> QED BY <2>2, <2>3, TaskEntry
<1>9. ASSUME NEW e \in Entry, F!FillClose(e) PROVE TaskInv'
  <2> DEFINE r == [entry[e] EXCEPT !.step = "ready"]
  <2>1. r.step = "ready" /\ r.origin = entry[e].origin /\ entry[e].step = "applied" /\ r.answer = entry[e].answer
    BY <1>e, <1>9 DEF EntryRecord, F!FillClose
  <2>2. entry' = [entry EXCEPT ![e] = r] /\ UNCHANGED <<cache, task>>
    BY <1>0, <1>9 DEF F!FillClose
  <2> HIDE DEF r
  <2>3. Onward([entry EXCEPT ![e] = r], e)
    BY <1>0, <2>1 DEF Onward
  <2> QED BY <2>2, <2>3, TaskEntry
<1>10. ASSUME NEW t \in Task, F!Reserving(t) PROVE TaskInv'
  <2> DEFINE r == F!Slot(task[t], F!PageHost(t))
  <2>1. task' = [task EXCEPT ![t] = r] /\ UNCHANGED <<cache, entry>> /\ task[t].step = "cleared"
    BY <1>10 DEF F!Reserving
  <2>2. /\ r.step = "slot" /\ r.page = task[t].page /\ r.entry = task[t].entry
        /\ r.late = task[t].late /\ r.hops = task[t].hops
    BY <1>t DEF F!Slot, TaskRecord
  <2> HIDE DEF r
  <2>3. TaskIs(task[t], cache, entry) => TaskIs(r, cache, entry)
    BY <2>1, <2>2 DEF TaskIs
  <2> QED BY <2>1, <2>2, <2>3, TaskOne
<1>11. ASSUME NEW t \in Task, F!Send(t) PROVE TaskInv'
  <2> DEFINE r == [task[t] EXCEPT !.step = "sent", !.gap = PolitenessDelay]
  <2>1. task' = [task EXCEPT ![t] = r] /\ UNCHANGED <<cache, entry>> /\ task[t].step = "slot"
    BY <1>0, <1>11 DEF F!Send
  <2>2. /\ r.step = "sent" /\ r.page = task[t].page /\ r.entry = task[t].entry
        /\ r.late = task[t].late /\ r.hops = task[t].hops
    BY <1>t DEF TaskRecord
  <2> HIDE DEF r
  <2>3. TaskIs(task[t], cache, entry) => TaskIs(r, cache, entry)
    BY <2>1, <2>2 DEF TaskIs
  <2> QED BY <2>1, <2>2, <2>3, TaskOne
<1>12. ASSUME NEW t \in Task, F!Response(t) PROVE TaskInv'
  BY <1>12, TaskReturn DEF F!Response
<1>13. ASSUME NEW t \in Task, NEW p \in URL, F!Redirected(t, p) PROVE TaskInv'
  <2>1. CASE task[t].hops = MaxRedirects
    BY <1>13, <2>1, TaskReturn DEF F!Redirected
  <2>2. CASE task[t].hops # MaxRedirects
    <3> DEFINE r == [task[t] EXCEPT !.page = p, !.hops = task[t].hops + 1]
    <3>1. task' = [task EXCEPT ![t] = r] /\ UNCHANGED <<cache, entry>> /\ task[t].step = "sent"
      BY <1>0, <1>13, <2>2 DEF F!Redirected
    <3>2. /\ r.step = "sent" /\ r.page = p /\ r.entry = task[t].entry
          /\ r.late = task[t].late /\ r.hops # 0
      <4>1. task[t].hops \in Nat
        BY <1>t DEF TaskRecord, F!IsPolite
      <4>2. r.hops = task[t].hops + 1
        BY <1>t DEF TaskRecord
      <4> HIDE DEF r
      <4>3. r.hops # 0
        BY <4>1, <4>2
      <4> USE DEF r
      <4>4. /\ r.step = "sent" /\ r.page = p /\ r.entry = task[t].entry /\ r.late = task[t].late
        BY <1>t, <3>1 DEF TaskRecord
      <4> QED BY <4>3, <4>4
    <3> HIDE DEF r
    <3>3. TaskIs(task[t], cache, entry) => TaskIs(r, cache, entry)
      BY <3>1, <3>2 DEF TaskIs
    <3> QED BY <3>1, <3>2, <3>3, TaskOne
  <2> QED BY <2>1, <2>2
<1>s. ASSUME UNCHANGED <<cache, task>>, \A e \in Entry : Onward(entry', e) PROVE TaskInv'
  <2>1. OneReader'
    BY <1>s, TaskIsInv DEF FetchInv, OneReader
  <2> QED BY <1>s, <2>1, TasksSame, TaskIsNext
<1>14. ASSUME NEW h \in Host, F!EvictHost(h) PROVE TaskInv'
  BY <1>14, <1>s DEF F!EvictHost, Onward
<1>15. ASSUME F!Tick PROVE TaskInv'
  <2>1. /\ task' = [t \in Task |-> [task[t] EXCEPT !.wait = F!Down(@)]] /\ cache' = cache
        /\ \A e \in Entry : /\ entry'[e].step = entry[e].step /\ entry'[e].origin = entry[e].origin
                            /\ entry'[e].answer = entry[e].answer
    BY <1>e, <1>15 DEF F!Tick, EntryRecord
  <2>2. ASSUME NEW t \in Task PROVE TaskIs(task'[t], cache', entry')
    <3>1. /\ task'[t].step = task[t].step /\ task'[t].page = task[t].page /\ task'[t].entry = task[t].entry
          /\ task'[t].late = task[t].late /\ task'[t].hops = task[t].hops /\ task'[t].stale = task[t].stale
      BY <1>t, <2>1 DEF TaskRecord
    <3>2. TaskIs(task[t], cache, entry)
      BY <1>t
    <3>3. task[t].step # "idle" => cache[OriginOf[task[t].page]] \in Entry \cup {"none"}
      BY <1>0, <3>2 DEF TaskIs, F!IsPolite
    <3> QED BY <2>1, <3>1, <3>2, <3>3 DEF TaskIs
  <2>3. OneReader'
    <3>1. \A t \in Task : task'[t].step = task[t].step
      BY <1>t, <2>1 DEF TaskRecord
    <3> QED BY <3>1, TaskIsInv DEF FetchInv, OneReader
  <2> QED BY <2>2, <2>3, TaskIsNext
<1>16. ASSUME UNCHANGED F!vars PROVE TaskInv'
  BY <1>16, <1>s DEF F!vars, Onward
<1> QED
  BY <1>1, <1>2, <1>3, <1>4, <1>5, <1>6, <1>7, <1>8, <1>9, <1>10, <1>11, <1>12, <1>13, <1>14, <1>15, <1>16
  DEF F!Next, F!Proceed, F!Fill

\* The invariant after a step, host by host and holder by holder.
LEMMA SpaceIsNext ==
  ASSUME \A h \in Host : HostFits(h, domain', rest', crowded'),
         \A t \in Task : TaskFits(task'[t], rest'),
         \A e \in Entry : EntryFits(entry'[e], rest')
  PROVE  SpaceInv'
<1>1. (\A h \in Host : HostFits(h, domain, rest, crowded))'
  BY DEF HostFits
<1>2. (\A t \in Task : TaskFits(task[t], rest))'
  BY DEF TaskFits
<1>3. (\A e \in Entry : EntryFits(entry[e], rest))'
  BY DEF EntryFits
<1> QED BY <1>1, <1>2, <1>3 DEF SpaceInv

\* A lookup finds the start times the host keeps.
LEMMA Looked ==
  ASSUME F!IsPolite, FetchInv, NEW h \in Host
  PROVE  /\ F!DomainState(h) \in UsedRecord /\ F!DomainState(h).next = domain[h].next
         /\ F!DomainState(h).next \in Nat /\ F!DomainState(h).delay \in Nat /\ F!DomainState(h).idle = 0
<1>1. domain[h] \in DomainRecord /\ (domain[h].delay < 0 => domain[h].next = 0)
  BY Types DEF FetchInv, SpaceInv, HostFits
<1>2. F!DomainState(h) \in UsedRecord
  BY DomainIsTyped DEF FetchInv
<1>3. F!DomainState(h).next = domain[h].next
  <2>1. CASE domain[h].delay >= 0
    BY <1>1, <2>1 DEF F!DomainState, DomainRecord
  <2>2. CASE ~(domain[h].delay >= 0)
    <3>1. domain[h].delay \in Nat \/ domain[h].delay = -1
      BY <1>1, DelaysAreTyped DEF DomainRecord
    <3>2. domain[h].next = 0
      BY <1>1, <2>2, <3>1
    <3> QED BY <2>2, <3>2 DEF F!DomainState, F!Free
  <2> QED BY <2>1, <2>2
<1> QED BY <1>2, <1>3, DelaysAreTyped DEF UsedRecord

\* A start time taken is not before any earlier one's delay has passed.
LEMMA Reservation ==
  ASSUME F!IsPolite, FetchInv, NEW h \in Host, F!Reserve(h)
  PROVE  /\ h \notin crowded => rest[h] <= F!DomainState(h).next
         /\ F!DomainState(h).next + F!DomainState(h).delay <= rest'[h]
         /\ \A g \in Host : rest[g] <= rest'[g] /\ HostFits(g, domain', rest', crowded')
<1>0. /\ domain \in [Host -> DomainRecord]
      /\ rest \in [Host -> Nat] /\ HostStateIdle \in Nat
  BY Types DEF FetchInv, F!IsPolite
<1>h. \A g \in Host : HostFits(g, domain, rest, crowded)
  BY DEF FetchInv, SpaceInv
<1> DEFINE s == F!DomainState(h)
           until == s.next + s.delay
           r == [s EXCEPT !.next = until]
<1>1. s \in UsedRecord /\ s.next = domain[h].next /\ s.next \in Nat /\ s.delay \in Nat
  BY Looked
<1>2. h \notin crowded => rest[h] <= s.next
  <2>1. h \notin crowded => rest[h] <= domain[h].next
    BY <1>h DEF HostFits
  <2> HIDE DEF s
  <2> QED BY <1>1, <2>1
<1>4. rest' = [rest EXCEPT ![h] = F!Most(rest[h], until)]
  BY <1>0 DEF F!Reserve
<1>5. domain' = [domain EXCEPT ![h] = r] /\ crowded' = IF until > HostStateIdle THEN crowded \cup {h} ELSE crowded
  BY DEF F!Reserve, F!Reserved
<1> HIDE DEF s
<1>6. until \in Nat /\ s.next <= until
  BY <1>1
<1>7. r.next = until /\ r.delay = s.delay /\ r.idle = 0
  BY <1>1 DEF UsedRecord
<1>3. rest[h] \in Nat
  BY <1>0
<1> HIDE DEF until, r
<1>8. rest'[h] = F!Most(rest[h], until) /\ domain'[h] = r
  BY <1>0, <1>4, <1>5
<1>9. rest[h] <= rest'[h] /\ until <= rest'[h] /\ (h \notin crowded => rest'[h] <= until)
  BY <1>2, <1>3, <1>6, <1>8, <1>1 DEF F!Most
<1>10. ASSUME NEW g \in Host PROVE rest[g] <= rest'[g] /\ HostFits(g, domain', rest', crowded')
  <2>1. CASE g = h
    <3>1. h \notin crowded' => h \notin crowded /\ until <= HostStateIdle
      BY <1>0, <1>5, <1>6
    <3>2. r.delay >= 0 /\ (h \notin crowded' => until + 0 <= HostStateIdle)
      BY <1>0, <1>1, <1>6, <1>7, <3>1
    <3> QED BY <1>1, <1>7, <1>8, <1>9, <2>1, <3>1, <3>2 DEF HostFits
  <2>2. CASE g # h
    <3>1. domain'[g] = domain[g] /\ rest'[g] = rest[g] /\ (g \in crowded' <=> g \in crowded) /\ rest[g] \in Nat
      BY <1>0, <1>4, <1>5, <2>2
    <3> QED BY <1>h, <3>1 DEF HostFits
  <2> QED BY <2>1, <2>2
<1> QED BY <1>2, <1>9, <1>10 DEF s, until

\* Each step keeps every start time taken, and its delay, within what the host keeps.
LEMMA SpaceStep ==
  ASSUME F!IsPolite, FetchInv, [F!Next]_F!vars
  PROVE  SpaceInv'
<1>0. /\ task \in [Task -> TaskRecord] /\ entry \in [Entry -> EntryRecord]
      /\ cache \in [Origin -> Entry \cup {"none"}]
      /\ domain \in [Host -> DomainRecord]
      /\ rest \in [Host -> Nat] /\ F!Delay \subseteq Nat /\ HostStateIdle \in Nat
  BY Types, DelaysAreTyped DEF FetchInv, F!IsPolite
<1>e. \A e \in Entry : /\ entry[e].wait \in Nat /\ entry[e].gap \in Nat /\ EntryFits(entry[e], rest)
                       /\ entry[e].step # "free" => HostOf[entry[e].origin] \in Host
  BY <1>0, Hosts DEF FetchInv, SpaceInv, EntryRecord, F!HostOfEntry
<1>t. \A t \in Task : /\ task[t].wait \in Nat /\ task[t].gap \in Nat /\ TaskFits(task[t], rest)
                      /\ task[t].step # "idle" => HostOf[OriginOf[task[t].page]] \in Host
  BY <1>0, Hosts DEF FetchInv, SpaceInv, TaskRecord, F!PageHost, F!PageOrigin
<1>h. \A h \in Host : HostFits(h, domain, rest, crowded) /\ rest[h] \in Nat
  BY <1>0 DEF FetchInv, SpaceInv
<1>f. F!NoCall.step # "slot" /\ F!Unused.step # "slot"
  BY DEF F!NoCall, F!Unused
<1>r. ASSUME NEW t \in Task, F!Return(t), UNCHANGED <<domain, rest, crowded>> PROVE SpaceInv'
  <2>1. task' = [task EXCEPT ![t] = F!NoCall] /\ entry' = F!Kept(entry, cache, task')
    BY <1>r DEF F!Return
  <2>2. \A u \in Task : TaskFits(task'[u], rest')
    BY <1>0, <1>f, <1>r, <1>t, <2>1 DEF TaskFits
  <2>3. \A e \in Entry : entry'[e] = entry[e] \/ entry'[e] = F!Unused
    BY <2>1 DEF F!Kept
  <2>4. \A e \in Entry : EntryFits(entry'[e], rest')
    BY <1>f, <1>e, <1>r, <2>3 DEF EntryFits
  <2> QED BY <1>h, <1>r, <2>2, <2>4, SpaceIsNext
<1>s. ASSUME NEW t \in Task, NEW r, task' = [task EXCEPT ![t] = r], UNCHANGED <<entry, domain, rest, crowded>>,
             r.step # "slot"
      PROVE  SpaceInv'
  <2>1. \A u \in Task : TaskFits(task'[u], rest')
    BY <1>0, <1>s, <1>t DEF TaskFits
  <2> QED BY <1>e, <1>h, <1>s, <2>1, SpaceIsNext
<1>u. ASSUME NEW e \in Entry, NEW r, entry' = [entry EXCEPT ![e] = r], UNCHANGED <<task, rest>>,
             \A h \in Host : HostFits(h, domain', rest', crowded'), r.step # "slot"
      PROVE  SpaceInv'
  <2>1. \A f \in Entry : EntryFits(entry'[f], rest')
    BY <1>0, <1>u, <1>e DEF EntryFits
  <2> QED BY <1>t, <1>u, <2>1, SpaceIsNext
<1>1. ASSUME NEW t \in Task, NEW p \in URL, F!Start(t, p) PROVE SpaceInv'
  <2> DEFINE c == cache[OriginOf[p]]
             r == [F!NoCall EXCEPT !.step = "reading", !.page = p,
                     !.stale = c = "none" \/ entry[c].expires < 0,
                     !.late = c # "none" /\ F!Ready(c) /\ entry[c].age > CacheTTL]
  <2>1. task' = [task EXCEPT ![t] = r] /\ UNCHANGED <<entry, domain, rest, crowded>>
    BY <1>1 DEF F!Start
  <2>2. r.step # "slot"
    BY DEF F!NoCall
  <2> HIDE DEF r
  <2> QED BY <1>s, <2>1, <2>2
<1>2. ASSUME NEW t \in Task, F!RulesFor(t) PROVE SpaceInv'
  <2>1. CASE F!Stale(t, cache[F!PageOrigin(t)])
    <3> DEFINE x == NextEntry(t)
               a == [F!Unused EXCEPT !.step = "asking", !.origin = F!PageOrigin(t)]
               r == [task[t] EXCEPT !.step = "waiting", !.entry = x, !.stale = FALSE, !.late = FALSE]
    <3>1. /\ task' = [task EXCEPT ![t] = r] /\ UNCHANGED <<domain, rest, crowded>>
          /\ entry' = F!Kept([entry EXCEPT ![x] = a], cache', task')
      BY <1>0, <1>2, <2>1 DEF F!RulesFor, F!Miss, NextEntry
    <3>2. r.step # "slot" /\ a.step # "slot"
      BY <1>0 DEF TaskRecord, F!Unused
    <3> HIDE DEF r, a, x
    <3>3. \A u \in Task : TaskFits(task'[u], rest')
      BY <1>0, <1>t, <3>1, <3>2 DEF TaskFits
    <3>4. \A e \in Entry : entry'[e] = entry[e] \/ entry'[e] = F!Unused \/ entry'[e] = a
      BY <1>0, <3>1 DEF F!Kept
    <3>5. \A e \in Entry : EntryFits(entry'[e], rest')
      BY <1>f, <1>e, <3>1, <3>2, <3>4 DEF EntryFits
    <3> QED BY <1>h, <3>1, <3>3, <3>5, SpaceIsNext
  <2>2. CASE ~F!Stale(t, cache[F!PageOrigin(t)])
    <3> DEFINE r == [task[t] EXCEPT !.step = "waiting", !.entry = cache[F!PageOrigin(t)], !.stale = FALSE]
    <3>1. task' = [task EXCEPT ![t] = r] /\ UNCHANGED <<entry, domain, rest, crowded>>
      BY <1>0, <1>2, <2>2 DEF F!RulesFor, F!Hit
    <3>2. r.step # "slot"
      BY <1>0 DEF TaskRecord
    <3> HIDE DEF r
    <3> QED BY <1>s, <3>1, <3>2
  <2> QED BY <2>1, <2>2
<1>3. ASSUME NEW t \in Task, F!GiveUp(t) PROVE SpaceInv'
  BY <1>3, <1>r DEF F!GiveUp
<1>4. ASSUME NEW t \in Task, F!Answered(t) PROVE SpaceInv'
  <2>1. CASE F!Return(t)
    BY <1>4, <1>r, <2>1 DEF F!Answered
  <2>2. CASE ~F!Return(t)
    <3> DEFINE r == [task[t] EXCEPT !.step = "cleared"]
    <3>1. task' = [task EXCEPT ![t] = r] /\ UNCHANGED <<entry, domain, rest, crowded>> /\ r.step # "slot"
      BY <1>0, <1>4, <2>2 DEF F!Answered, TaskRecord
    <3> HIDE DEF r
    <3> QED BY <1>s, <3>1
  <2> QED BY <2>1, <2>2
<1>5. ASSUME NEW e \in Entry, F!FillReserve(e) PROVE SpaceInv'
  <2> DEFINE h == HostOf[entry[e].origin]
             r == F!Slot(entry[e], h)
  <2>1. entry' = [entry EXCEPT ![e] = r] /\ task' = task /\ F!Reserve(h) /\ h \in Host
    BY <1>5, <1>e DEF F!FillReserve, F!HostOfEntry
  <2>2. r.wait = F!DomainState(h).next /\ r.gap = F!DomainState(h).delay /\ r.origin = entry[e].origin
    BY <1>0 DEF F!Slot, EntryRecord
  <2> HIDE DEF r
  <2>3. /\ r.wait + r.gap <= rest'[h]
        /\ \A g \in Host : rest[g] <= rest'[g] /\ HostFits(g, domain', rest', crowded')
    BY <2>1, <2>2, Reservation
  <2>4. \A g \in Host : rest'[g] \in Nat
    BY <1>0, <2>1, TypedStep, Types DEF F!FetcherTyped, F!Next, F!Fill, FetchInv
  <2>5. \A t \in Task : TaskFits(task'[t], rest')
    BY <1>h, <1>t, <2>1, <2>3, <2>4 DEF TaskFits
  <2>6. \A f \in Entry : EntryFits(entry'[f], rest')
    <3>1. ASSUME NEW f \in Entry, f # e PROVE EntryFits(entry'[f], rest')
      <4>1. entry'[f] = entry[f]
        BY <1>0, <2>1, <3>1
      <4> QED BY <1>h, <1>e, <2>3, <2>4, <4>1 DEF EntryFits
    <3>2. EntryFits(entry'[e], rest')
      BY <1>0, <2>1, <2>2, <2>3 DEF EntryFits
    <3> QED BY <3>1, <3>2
  <2> QED BY <2>3, <2>5, <2>6, SpaceIsNext
<1>6. ASSUME NEW e \in Entry, F!FillSend(e) PROVE SpaceInv'
  <2> DEFINE r == [entry[e] EXCEPT !.step = "sent", !.gap = PolitenessDelay]
  <2>1. entry' = [entry EXCEPT ![e] = r] /\ UNCHANGED <<task, domain, rest, crowded>> /\ r.step # "slot"
    BY <1>0, <1>6 DEF F!FillSend, EntryRecord
  <2> HIDE DEF r
  <2> QED BY <1>h, <1>u, <2>1
<1>7. ASSUME NEW e \in Entry, F!Answers(e) PROVE SpaceInv'
  <2>1. PICK a \in F!Said : F!SiteAnswers(e, a)
    BY <1>7 DEF F!Answers
  <2> DEFINE r == [entry[e] EXCEPT !.step = "answered", !.said = a[1], !.answer = a[2],
                     !.expires = F!Expiry(a[2]), !.age = 0]
  <2>2. entry' = [entry EXCEPT ![e] = r] /\ UNCHANGED <<task, domain, rest, crowded>> /\ r.step # "slot"
    BY <1>0, <2>1 DEF F!SiteAnswers, EntryRecord
  <2> HIDE DEF r
  <2> QED BY <1>h, <1>u, <2>2
<1>8. ASSUME NEW e \in Entry, F!FillDelay(e) PROVE SpaceInv'
  <2> DEFINE h == HostOf[entry[e].origin]
             d == F!Most(F!Least(entry[e].answer.delay, MaxCrawlDelay), PolitenessDelay)
             r == [entry[e] EXCEPT !.step = "applied", !.applied = TRUE]
             q == F!DomainState(h)
             n == [q EXCEPT !.delay = d]
  <2>1. /\ entry' = [entry EXCEPT ![e] = r] /\ UNCHANGED <<task, rest, crowded>> /\ r.step # "slot"
        /\ domain' = [domain EXCEPT ![h] = n] /\ h \in Host
    BY <1>0, <1>e, <1>8 DEF F!FillDelay, EntryRecord, F!SetHostDelay, F!HostOfEntry
  <2>2. d \in Nat
    BY <2>1, <1>0, DelaysAreTyped DEF FetchInv, EntryInv
  <2>3. q \in UsedRecord /\ q.next = domain[h].next /\ q.idle = 0 /\ q.next \in Nat
    BY <2>1, Looked
  <2> HIDE DEF r, d, q
  <2>4. n.next = q.next /\ n.delay = d /\ n.idle = 0
    BY <2>3 DEF UsedRecord
  <2> HIDE DEF h, n
  <2>5. ASSUME NEW g \in Host PROVE HostFits(g, domain', rest', crowded')
    <3>1. CASE g = h
      <4>1. /\ domain[h].idle \in Nat /\ rest[h] \in Nat /\ HostFits(h, domain, rest, crowded)
            /\ domain'[h] = n
        BY <1>0, <1>h, <2>1 DEF DomainRecord
      <4> QED BY <1>0, <2>1, <2>2, <2>3, <2>4, <3>1, <4>1 DEF HostFits
    <3>2. CASE g # h
      BY <1>0, <1>h, <2>1, <3>2 DEF HostFits
    <3> QED BY <3>1, <3>2
  <2> QED BY <1>u, <2>1, <2>5
<1>9. ASSUME NEW e \in Entry, F!FillClose(e) PROVE SpaceInv'
  <2> DEFINE r == [entry[e] EXCEPT !.step = "ready"]
  <2>1. entry' = [entry EXCEPT ![e] = r] /\ UNCHANGED <<task, domain, rest, crowded>> /\ r.step # "slot"
    BY <1>0, <1>9 DEF F!FillClose, EntryRecord
  <2> HIDE DEF r
  <2> QED BY <1>h, <1>u, <2>1
<1>10. ASSUME NEW t \in Task, F!Reserving(t) PROVE SpaceInv'
  <2> DEFINE h == HostOf[OriginOf[task[t].page]]
             r == F!Slot(task[t], h)
  <2>1. task' = [task EXCEPT ![t] = r] /\ entry' = entry /\ F!Reserve(h) /\ h \in Host
    BY <1>10, <1>t DEF F!Reserving, F!PageHost, F!PageOrigin
  <2>2. r.wait = F!DomainState(h).next /\ r.gap = F!DomainState(h).delay /\ r.page = task[t].page
    BY <1>0 DEF F!Slot, TaskRecord
  <2> HIDE DEF r
  <2>3. /\ r.wait + r.gap <= rest'[h]
        /\ \A g \in Host : rest[g] <= rest'[g] /\ HostFits(g, domain', rest', crowded')
    BY <2>1, <2>2, Reservation
  <2>4. \A g \in Host : rest'[g] \in Nat
    BY <1>0, <2>1, TypedStep, Types DEF F!FetcherTyped, F!Next, F!Fill, FetchInv
  <2>5. \A e \in Entry : EntryFits(entry'[e], rest')
    BY <1>h, <1>e, <2>1, <2>3, <2>4 DEF EntryFits
  <2>6. \A u \in Task : TaskFits(task'[u], rest')
    <3>1. ASSUME NEW u \in Task, u # t PROVE TaskFits(task'[u], rest')
      <4>1. task'[u] = task[u]
        BY <1>0, <2>1, <3>1
      <4> QED BY <1>h, <1>t, <2>3, <2>4, <4>1 DEF TaskFits
    <3>2. TaskFits(task'[t], rest')
      BY <1>0, <2>1, <2>2, <2>3 DEF TaskFits
    <3> QED BY <3>1, <3>2
  <2> QED BY <2>3, <2>5, <2>6, SpaceIsNext
<1>11. ASSUME NEW t \in Task, F!Send(t) PROVE SpaceInv'
  <2> DEFINE r == [task[t] EXCEPT !.step = "sent", !.gap = PolitenessDelay]
  <2>1. task' = [task EXCEPT ![t] = r] /\ UNCHANGED <<entry, domain, rest, crowded>> /\ r.step # "slot"
    BY <1>0, <1>11 DEF F!Send, TaskRecord
  <2> HIDE DEF r
  <2> QED BY <1>s, <2>1
<1>12. ASSUME NEW t \in Task, F!Response(t) PROVE SpaceInv'
  BY <1>12, <1>r DEF F!Response
<1>13. ASSUME NEW t \in Task, NEW p \in URL, F!Redirected(t, p) PROVE SpaceInv'
  <2>1. CASE task[t].hops = MaxRedirects
    BY <1>13, <1>r, <2>1 DEF F!Redirected
  <2>2. CASE task[t].hops # MaxRedirects
    <3> DEFINE r == [task[t] EXCEPT !.page = p, !.hops = task[t].hops + 1]
    <3>1. task' = [task EXCEPT ![t] = r] /\ UNCHANGED <<entry, domain, rest, crowded>> /\ r.step # "slot"
      BY <1>0, <1>13, <2>2 DEF F!Redirected, TaskRecord
    <3> HIDE DEF r
    <3> QED BY <1>s, <3>1
  <2> QED BY <2>1, <2>2
<1>14. ASSUME NEW h \in Host, F!EvictHost(h) PROVE SpaceInv'
  <2>1. ASSUME NEW g \in Host PROVE HostFits(g, domain', rest', crowded')
    <3>1. CASE g = h
      <4>1. /\ domain'[h] = F!Free /\ UNCHANGED <<rest, crowded>> /\ domain[h].idle > HostStateIdle
            /\ domain[h].next \in Nat /\ domain[h].idle \in Nat /\ rest[h] \in Nat
        BY <1>0, <1>14 DEF F!EvictHost, DomainRecord
      <4>2. h \notin crowded => domain[h].next = 0
        BY <1>0, <1>h, <4>1 DEF HostFits
      <4> QED BY <1>0, <1>h, <3>1, <4>1, <4>2 DEF HostFits, F!Free
    <3>2. CASE g # h
      BY <1>0, <1>h, <1>14, <3>2 DEF F!EvictHost, HostFits
    <3> QED BY <3>1, <3>2
  <2> QED BY <1>e, <1>t, <1>14, <2>1, SpaceIsNext DEF F!EvictHost
<1>15. ASSUME F!Tick PROVE SpaceInv'
  <2>1. \A n \in Nat : F!Down(n) = IF n = 0 THEN 0 ELSE n - 1
    BY DEF F!Down, F!Most
  <2>2. ASSUME NEW h \in Host PROVE HostFits(h, domain', rest', crowded') /\ rest'[h] = F!Down(rest[h])
    <3> DEFINE i == IF domain[h].delay < 0 THEN 0 ELSE F!Least(domain[h].idle + 1, HostStateIdle + 1)
    <3>0. domain[h] \in DomainRecord /\ rest[h] \in Nat /\ HostFits(h, domain, rest, crowded)
      BY <1>0, <1>h
    <3>1. i \in Nat /\ i <= domain[h].idle + 1
      BY <1>0, <3>0 DEF DomainRecord, F!Least
    <3>2. domain'[h] = [domain[h] EXCEPT !.next = F!Down(domain[h].next), !.idle = i]
      BY <1>0, <1>15 DEF F!Tick
    <3> HIDE DEF i
    <3>3. domain'[h].next = F!Down(domain[h].next) /\ domain'[h].delay = domain[h].delay /\ domain'[h].idle = i
      BY <3>0, <3>2 DEF DomainRecord
    <3>4. rest'[h] = F!Down(rest[h]) /\ (h \in crowded' <=> h \in crowded /\ F!Down(rest[h]) > 0)
      BY <1>0, <1>15 DEF F!Tick
    <3>5. domain[h].next \in Nat /\ domain[h].idle \in Nat /\ domain[h].next <= rest[h]
      BY <3>0, <1>0 DEF DomainRecord, HostFits
    <3>6. /\ domain'[h].next <= rest'[h]
          /\ domain'[h].delay < 0 => domain'[h].next = 0
      BY <2>1, <3>0, <3>3, <3>4, <3>5 DEF HostFits
    <3>7. CASE h \in crowded
      BY <2>1, <3>0, <3>3, <3>4, <3>5, <3>6, <3>7 DEF HostFits
    <3>8. CASE h \notin crowded
      <4>0. rest[h] = domain[h].next
        BY <3>0, <3>5, <3>8 DEF HostFits
      <4>1. domain'[h].next = rest'[h] /\ rest'[h] \in Nat
        BY <2>1, <3>0, <3>3, <3>4, <4>0
      <4>2. domain'[h].next = 0 \/ domain'[h].next + domain'[h].idle <= HostStateIdle
        BY <1>0, <2>1, <3>0, <3>1, <3>3, <3>5, <3>8 DEF HostFits
      <4>3. rest'[h] <= domain'[h].next
        BY <4>1
      <4> QED BY <3>4, <3>6, <4>2, <4>3 DEF HostFits
    <3> QED BY <3>4, <3>7, <3>8
  <2>3. ASSUME NEW t \in Task PROVE TaskFits(task'[t], rest')
    <3> SUFFICES ASSUME task'[t].step = "slot"
                 PROVE  task'[t].wait + task'[t].gap <= rest'[HostOf[OriginOf[task'[t].page]]]
      BY DEF TaskFits
    <3>1. /\ task'[t].step = task[t].step /\ task'[t].page = task[t].page /\ task'[t].gap = task[t].gap
          /\ task'[t].wait = F!Down(task[t].wait) /\ (task[t].step = "slot" => task[t].wait # 0)
      BY <1>0, <1>15 DEF F!Tick, F!Due, TaskRecord
    <3> DEFINE h == HostOf[OriginOf[task[t].page]]
    <3>2. h \in Host /\ task[t].wait + task[t].gap <= rest[h] /\ rest'[h] = F!Down(rest[h]) /\ rest[h] \in Nat
      BY <1>h, <1>t, <2>2, <3>1 DEF TaskFits
    <3>3. task[t].wait \in Nat /\ task[t].gap \in Nat
      BY <1>t
    <3> HIDE DEF h
    <3>4. task[t].wait # 0
      BY <3>1
    <3>5. task'[t].wait = task[t].wait - 1 /\ rest'[h] = rest[h] - 1
      BY <2>1, <3>1, <3>2, <3>3, <3>4
    <3>6. task'[t].wait + task'[t].gap <= rest'[h]
      BY <3>1, <3>2, <3>3, <3>5
    <3> QED BY <3>1, <3>6 DEF h
  <2>4. ASSUME NEW e \in Entry PROVE EntryFits(entry'[e], rest')
    <3> SUFFICES ASSUME entry'[e].step = "slot"
                 PROVE  entry'[e].wait + entry'[e].gap <= rest'[HostOf[entry'[e].origin]]
      BY DEF EntryFits
    <3>a. /\ entry'[e] = [entry[e] EXCEPT !.wait = F!Down(@),
               !.expires = F!Most(@ - 1, -1),
               !.age = IF entry[e].step \in {"answered", "applied", "ready"}
                       THEN F!Least(@ + 1, CacheTTL + 1) ELSE 0]
          /\ ~F!Due(entry[e])
      BY <1>15 DEF F!Tick
    <3>b. /\ entry'[e].step = entry[e].step /\ entry'[e].origin = entry[e].origin
          /\ entry'[e].gap = entry[e].gap /\ entry'[e].wait = F!Down(entry[e].wait)
      BY <1>e, <3>a DEF EntryRecord
    <3>1. /\ entry'[e].step = entry[e].step /\ entry'[e].origin = entry[e].origin
          /\ entry'[e].gap = entry[e].gap /\ entry'[e].wait = F!Down(entry[e].wait)
          /\ (entry[e].step = "slot" => entry[e].wait # 0)
      BY <3>a, <3>b DEF F!Due
    <3> DEFINE h == HostOf[entry[e].origin]
    <3>2. h \in Host /\ entry[e].wait + entry[e].gap <= rest[h] /\ rest'[h] = F!Down(rest[h]) /\ rest[h] \in Nat
      BY <1>h, <1>e, <2>2, <3>1 DEF EntryFits
    <3>3. entry[e].wait \in Nat /\ entry[e].gap \in Nat
      BY <1>e
    <3> HIDE DEF h
    <3>4. entry[e].wait # 0
      BY <3>1
    <3>5. entry'[e].wait = entry[e].wait - 1 /\ rest'[h] = rest[h] - 1
      BY <2>1, <3>1, <3>2, <3>3, <3>4
    <3>6. entry'[e].wait + entry'[e].gap <= rest'[h]
      BY <3>1, <3>2, <3>3, <3>5
    <3> QED BY <3>1, <3>6 DEF h
  <2> QED BY <2>2, <2>3, <2>4, SpaceIsNext
<1>16. ASSUME UNCHANGED F!vars PROVE SpaceInv'
  BY <1>16, <1>e, <1>t, <1>h, SpaceIsNext DEF F!vars
<1> QED
  BY <1>1, <1>2, <1>3, <1>4, <1>5, <1>6, <1>7, <1>8, <1>9, <1>10, <1>11, <1>12, <1>13, <1>14, <1>15, <1>16
  DEF F!Next, F!Proceed, F!Fill

\* The invariant holds at first, and every step keeps it.
LEMMA FetchInit == ASSUME F!IsPolite, F!Init PROVE FetchInv
<1>1. F!FetcherTyped
  BY TypedInit
<1>2. EntryInv
  BY DEF F!Init, EntryInv, F!Unused, F!Filling, F!Pending, Heard
<1>3. CacheInv
  BY DEF F!Init, CacheInv
<1>4. TaskInv
  BY DEF F!Init, TaskInv, F!NoCall
<1>5. SpaceInv
  BY DEF F!Init, SpaceInv, HostFits, TaskFits, EntryFits, F!Free, F!NoCall, F!Unused
<1> QED BY <1>1, <1>2, <1>3, <1>4, <1>5 DEF FetchInv

LEMMA FetchStep == ASSUME F!IsPolite, FetchInv, [F!Next]_F!vars PROVE FetchInv'
BY TypedStep, EntryStep, CacheStep, TaskStep, SpaceStep DEF FetchInv

\* Every file a site may answer with is read as RFC 9309 means it: what the parser computes
\* is TLC's to check, over the files of the run.
FilesAreRead == \A f \in Files : f[1] = f[2]
SaidIs(r) == r.step \in {"answered", "applied", "ready"} => r.answer = r.said

\* What an entry answers is what the site said: no caller's end is recorded as an answer.
LEMMA SaidStep ==
  ASSUME F!IsPolite, FilesAreRead, FetchInv, SaidInv, [F!Next]_F!vars
  PROVE  SaidInv'
<1>0. entry \in [Entry -> EntryRecord]
  BY Types DEF FetchInv
<1>i. \A e \in Entry : SaidIs(entry[e])
  BY DEF SaidInv, SaidIs
<1>u. SaidIs(F!Unused)
  BY DEF SaidIs, F!Unused
<1>s. ASSUME \A e \in Entry : SaidIs(entry'[e]) PROVE SaidInv'
  BY <1>s DEF SaidInv, SaidIs
<1>e. ASSUME entry' = entry PROVE SaidInv'
  BY <1>e, <1>i, <1>s
<1>r. ASSUME NEW t \in Task, F!Return(t) PROVE SaidInv'
  <2>1. \A e \in Entry : entry'[e] = entry[e] \/ entry'[e] = F!Unused
    BY <1>r DEF F!Return, F!Kept
  <2> QED BY <1>i, <1>s, <1>u, <2>1
<1>o. ASSUME NEW e \in Entry, NEW r, entry' = [entry EXCEPT ![e] = r], SaidIs(r) PROVE SaidInv'
  <2>1. \A f \in Entry : entry'[f] = entry[f] \/ entry'[f] = r
    BY <1>0, <1>o
  <2> QED BY <1>i, <1>o, <1>s, <2>1
<1>1. ASSUME NEW t \in Task, NEW p \in URL, F!Start(t, p) PROVE SaidInv'
  BY <1>1, <1>e DEF F!Start
<1>2. ASSUME NEW t \in Task, F!RulesFor(t) PROVE SaidInv'
  <2> DEFINE r == [F!Unused EXCEPT !.step = "asking", !.origin = F!PageOrigin(t)]
  <2>1. SaidIs(r)
    BY DEF SaidIs, F!Unused
  <2>2. ASSUME NEW x, F!Miss(t, x) PROVE SaidInv'
    <3>1. entry' = F!Kept([entry EXCEPT ![x] = r], cache', task')
      BY <2>2 DEF F!Miss
    <3> HIDE DEF r
    <3>2. \A e \in Entry : entry'[e] \in {entry[e], r, F!Unused}
      BY <1>0, <3>1 DEF F!Kept
    <3> QED BY <1>i, <1>s, <1>u, <2>1, <3>2
  <2>3. ASSUME NEW x, F!Hit(t, x) PROVE SaidInv'
    BY <1>e, <2>3 DEF F!Hit
  <2> QED BY <1>2, <2>2, <2>3 DEF F!RulesFor
<1>3. ASSUME NEW t \in Task, F!Answered(t) PROVE SaidInv'
  BY <1>3, <1>e, <1>r DEF F!Answered
<1>4. ASSUME NEW t \in Task, F!GiveUp(t) PROVE SaidInv'
  BY <1>4, <1>r DEF F!GiveUp
<1>5. ASSUME NEW e \in Entry, F!FillReserve(e) PROVE SaidInv'
  <2> DEFINE r == F!Slot(entry[e], F!HostOfEntry(e))
  <2>1. entry' = [entry EXCEPT ![e] = r]
    BY <1>5 DEF F!FillReserve
  <2>2. SaidIs(r)
    BY <1>0 DEF SaidIs, F!Slot, EntryRecord
  <2> QED BY <1>o, <2>1, <2>2
<1>6. ASSUME NEW e \in Entry, F!FillSend(e) PROVE SaidInv'
  <2> DEFINE r == [entry[e] EXCEPT !.step = "sent", !.gap = PolitenessDelay]
  <2>1. entry' = [entry EXCEPT ![e] = r] /\ SaidIs(r)
    BY <1>0, <1>6 DEF F!FillSend, EntryRecord, SaidIs
  <2> QED BY <1>o, <2>1
<1>7. ASSUME NEW e \in Entry, NEW a \in F!Said, F!SiteAnswers(e, a) PROVE SaidInv'
  <2> DEFINE r == [entry[e] EXCEPT !.step = "answered", !.said = a[1], !.answer = a[2],
                     !.expires = F!Expiry(a[2]), !.age = 0]
  <2>1. a[1] = a[2]
    BY DEF F!Said, FilesAreRead
  <2>2. entry' = [entry EXCEPT ![e] = r]
    BY <1>0, <1>7 DEF F!SiteAnswers, EntryRecord
  <2>3. r.answer = a[2] /\ r.said = a[1]
    BY <1>0 DEF EntryRecord
  <2>4. SaidIs(r)
    BY <2>1, <2>3 DEF SaidIs
  <2> QED BY <1>o, <2>2, <2>4
<1>8. ASSUME NEW e \in Entry, F!FillDelay(e) PROVE SaidInv'
  <2> DEFINE r == [entry[e] EXCEPT !.step = "applied", !.applied = TRUE]
  <2>1. entry' = [entry EXCEPT ![e] = r] /\ entry[e].answer = entry[e].said
    BY <1>0, <1>8, <1>i DEF F!FillDelay, EntryRecord, SaidIs
  <2>2. SaidIs(r)
    BY <1>0, <2>1 DEF EntryRecord, SaidIs
  <2> QED BY <1>o, <2>1, <2>2
<1>9. ASSUME NEW e \in Entry, F!FillClose(e) PROVE SaidInv'
  <2> DEFINE r == [entry[e] EXCEPT !.step = "ready"]
  <2>1. entry' = [entry EXCEPT ![e] = r] /\ entry[e].answer = entry[e].said
    BY <1>0, <1>9, <1>i DEF F!FillClose, EntryRecord, SaidIs
  <2>2. SaidIs(r)
    BY <1>0, <2>1 DEF EntryRecord, SaidIs
  <2> QED BY <1>o, <2>1, <2>2
<1>10. ASSUME NEW t \in Task, F!Reserving(t) \/ F!Send(t) PROVE SaidInv'
  BY <1>10, <1>e DEF F!Reserving, F!Send
<1>11. ASSUME NEW t \in Task, F!Response(t) PROVE SaidInv'
  BY <1>11, <1>r DEF F!Response
<1>12. ASSUME NEW t \in Task, NEW p \in URL, F!Redirected(t, p) PROVE SaidInv'
  BY <1>12, <1>e, <1>r DEF F!Redirected
<1>13. ASSUME NEW h \in Host, F!EvictHost(h) PROVE SaidInv'
  BY <1>13, <1>e DEF F!EvictHost
<1>14. ASSUME F!Tick PROVE SaidInv'
  <2>1. ASSUME NEW e \in Entry PROVE SaidIs(entry'[e])
    <3>1. entry'[e] = [entry[e] EXCEPT !.wait = F!Down(@),
               !.expires = F!Most(@ - 1, -1),
               !.age = IF entry[e].step \in {"answered", "applied", "ready"}
                       THEN F!Least(@ + 1, CacheTTL + 1) ELSE 0]
      BY <1>14 DEF F!Tick
    <3>2. /\ entry'[e].step = entry[e].step /\ entry'[e].answer = entry[e].answer
          /\ entry'[e].said = entry[e].said
      BY <1>0, <3>1 DEF EntryRecord
    <3> QED BY <1>i, <3>2 DEF SaidIs
  <2> QED BY <1>s, <2>1
<1>15. ASSUME UNCHANGED F!vars PROVE SaidInv'
  BY <1>15, <1>e DEF F!vars
<1> QED
  BY <1>1, <1>2, <1>3, <1>4, <1>5, <1>6, <1>7, <1>8, <1>9, <1>10, <1>11, <1>12, <1>13, <1>14, <1>15
  DEF F!Next, F!Proceed, F!Fill, F!Answers

\* A call cleared by a ready entry was cleared by what its origin said.
LEMMA AnswersFollow == ASSUME F!IsPolite, FetchInv, SaidInv PROVE F!AnswersHold
<1>0. entry \in [Entry -> EntryRecord] /\ task \in [Task -> TaskRecord]
  BY Types DEF FetchInv
<1>1. F!PagesAreAllowed
  <2> SUFFICES ASSUME NEW t \in Task, task[t].step \in {"cleared", "slot", "sent"}, task[t].hops = 0
               PROVE  LET e == entry[task[t].entry] IN
                      /\ e.origin = F!PageOrigin(t) /\ e.applied /\ ~task[t].late
                      /\ \/ e.said.kind = "file" /\ task[t].page \in e.said.allow
                         \/ e.said.kind = "unavailable"
    BY DEF F!PagesAreAllowed
  <2> DEFINE x == task[t].entry
  <2>1. /\ x \in Entry /\ ~task[t].late /\ entry[x].origin = F!PageOrigin(t)
        /\ entry[x].step = "ready" /\ F!Clears(entry[x].answer, task[t].page)
    BY DEF FetchInv, TaskInv, F!Ready
  <2>2. entry[x].applied /\ entry[x].answer = entry[x].said
    BY <2>1 DEF FetchInv, EntryInv, SaidInv
  <2> QED BY <2>1, <2>2 DEF F!Clears
<1>2. ASSUME NEW e \in Entry, NEW f \in Entry, F!Filling(e), F!Filling(f), entry[e].origin = entry[f].origin
      PROVE  e = f
  BY <1>2 DEF FetchInv, EntryInv
<1> QED BY <1>1, <1>2 DEF F!AnswersHold, F!SharedFetch, SaidInv

\* The state module's definitions, as F sees them.
LEMMA Polite == F!IsPolite
<1>1. F!CrawlDelay = CrawlDelay
  BY DEF F!CrawlDelay, CrawlDelay
<1>2. \A S : F!IsFiniteSet(S) = IsFiniteSet(S)
  BY DEF F!IsFiniteSet, IsFiniteSet
<1>3. \A S : F!Cardinality(S) = Cardinality(S)
  BY DEF F!Cardinality, Cardinality
<1> QED BY <1>1, <1>2, <1>3, PoliteAssumption DEF IsPolite, F!IsPolite

LEMMA SameTypes == F!FetcherTyped <=> FetcherTyped
<1>1. F!Delay = Delay
  BY DEF F!Delay, Delay, F!Most, Most, F!Least, Least, F!CrawlDelay, CrawlDelay
<1>2. F!Answer = Answer
  BY DEF F!Answer, Answer, F!NoFile, NoFile
<1> QED BY <1>1, <1>2 DEF F!FetcherTyped, FetcherTyped

LEMMA SameAnswers == F!AnswersHold <=> AnswersHold
<1>1. F!PagesAreAllowed <=> PagesAreAllowed
  BY DEF F!PagesAreAllowed, PagesAreAllowed, F!PageOrigin, PageOrigin
<1>2. F!SharedFetch <=> SharedFetch
  BY DEF F!SharedFetch, SharedFetch, F!Filling, Filling
<1> QED BY <1>1, <1>2 DEF F!AnswersHold, AnswersHold

\* Every wait, delay, age and answer of the guard and the fetcher keeps its type, and the
\* cache, the calls and the entries keep to each other's (rulesFor, fill, waitForDomain).
THEOREM FetchTyped == F!Spec => []FetcherTyped
<1>1. F!Init => FetchInv
  BY FetchInit, Polite
<1>2. FetchInv /\ [F!Next]_F!vars => FetchInv'
  BY FetchStep, Polite
<1>3. FetchInv => FetcherTyped
  BY SameTypes DEF FetchInv
<1> QED BY <1>1, <1>2, <1>3, PTL DEF F!Spec

\* Whatever the number of calls, origins and pages, a page is asked for only on the word of
\* its origin's robots.txt, lookups of an origin share one fetch, and a caller that gives up
\* changes nobody's answer, given that files are read as they are meant (rulesFor, fill).
THEOREM AnswersKept == ASSUME FilesAreRead PROVE F!Spec => []AnswersHold
<1>1. F!Init => FetchInv /\ SaidInv
  BY FetchInit, Polite DEF F!Init, SaidInv, F!Unused
<1>2. FetchInv /\ SaidInv /\ [F!Next]_F!vars => FetchInv' /\ SaidInv'
  BY FetchStep, SaidStep, Polite
<1>3. FetchInv /\ SaidInv => AnswersHold
  BY AnswersFollow, SameAnswers, Polite
<1> QED BY <1>1, <1>2, <1>3, PTL DEF F!Spec

\* Without that hypothesis: a page is asked for as its origin's file was read, with the
\* delay applied and the answer in date, and an origin is asked by one fill at a time.
AskedAsRead ==
  /\ \A t \in Task : task[t].step \in {"cleared", "slot", "sent"} /\ task[t].hops = 0 =>
       /\ entry[task[t].entry].origin = F!PageOrigin(t) /\ entry[task[t].entry].applied
       /\ ~task[t].late /\ F!Clears(entry[task[t].entry].answer, task[t].page)
  /\ \A e, f \in Entry : F!Filling(e) /\ F!Filling(f) /\ entry[e].origin = entry[f].origin => e = f

\* However the parser reads a file, no call gets past the answer of its own origin, and no
\* two fills ask one origin at once (rulesFor, fill, ProcessPage's early returns).
THEOREM AnswersObeyed == F!Spec => []AskedAsRead
<1>1. F!Init => FetchInv
  BY FetchInit, Polite
<1>2. FetchInv /\ [F!Next]_F!vars => FetchInv'
  BY FetchStep, Polite
<1>3. FetchInv => AskedAsRead
  <2> SUFFICES ASSUME FetchInv PROVE AskedAsRead
    OBVIOUS
  <2>1. ASSUME NEW t \in Task, task[t].step \in {"cleared", "slot", "sent"}, task[t].hops = 0
        PROVE  /\ entry[task[t].entry].origin = F!PageOrigin(t) /\ entry[task[t].entry].applied
               /\ ~task[t].late /\ F!Clears(entry[task[t].entry].answer, task[t].page)
    BY <2>1 DEF FetchInv, TaskInv, EntryInv, F!Ready
  <2>2. ASSUME NEW e \in Entry, NEW f \in Entry, F!Filling(e), F!Filling(f),
               entry[e].origin = entry[f].origin
        PROVE  e = f
    BY <2>2 DEF FetchInv, EntryInv
  <2> QED BY <2>1, <2>2 DEF AskedAsRead
<1> QED BY <1>1, <1>2, <1>3, PTL DEF F!Spec

\* The action property, of one call and of one fill.
TaskSpaced(t) ==
  /\ F!Takes(task[t], task'[t]) /\ F!PageHost(t) \notin crowded => rest[F!PageHost(t)] <= task'[t].wait
  /\ F!Sends(task[t], task'[t]) => task[t].gap <= rest[F!PageHost(t)]
EntrySpaced(e) ==
  /\ F!Takes(entry[e], entry'[e]) /\ F!HostOfEntry(e) \notin crowded => rest[F!HostOfEntry(e)] <= entry'[e].wait
  /\ F!Sends(entry[e], entry'[e]) => entry[e].gap <= rest[F!HostOfEntry(e)]

\* A step that takes a start time or sends a request finds the delays before it left.
LEMMA SpacedStep ==
  ASSUME F!IsPolite, FetchInv, [F!Next]_F!vars
  PROVE  (\A t \in Task : TaskSpaced(t)) /\ (\A e \in Entry : EntrySpaced(e))
<1> DEFINE Goal == (\A t \in Task : TaskSpaced(t)) /\ (\A e \in Entry : EntrySpaced(e))
           NoTask == \A t \in Task : task'[t].step \notin {"slot", "sent"} \/ task'[t].step = task[t].step
           NoEntry == \A e \in Entry : entry'[e].step \notin {"slot", "sent"} \/ entry'[e].step = entry[e].step
<1>0. /\ task \in [Task -> TaskRecord] /\ entry \in [Entry -> EntryRecord]
  BY Types DEF FetchInv
<1>n. ASSUME NoTask, NoEntry PROVE Goal
  BY <1>n DEF TaskSpaced, EntrySpaced, F!Takes, F!Sends
<1>f. F!NoCall.step = "idle" /\ F!Unused.step = "free"
  BY DEF F!NoCall, F!Unused
<1>r. ASSUME NEW t \in Task, F!Return(t) PROVE Goal
  <2>1. task' = [task EXCEPT ![t] = F!NoCall] /\ entry' = F!Kept(entry, cache, task')
    BY <1>r DEF F!Return
  <2>2. NoTask
    BY <1>0, <1>f, <2>1
  <2>3. NoEntry
    BY <1>f, <2>1 DEF F!Kept
  <2> QED BY <1>n, <2>2, <2>3
<1>s. ASSUME NEW t \in Task, NEW r, task' = [task EXCEPT ![t] = r], entry' = entry,
             r.step \notin {"slot", "sent"} \/ r.step = task[t].step
      PROVE  Goal
  <2>1. NoTask
    BY <1>0, <1>s
  <2> QED BY <1>n, <1>s, <2>1
<1>u. ASSUME NEW e \in Entry, NEW r, entry' = [entry EXCEPT ![e] = r], task' = task,
             r.step \notin {"slot", "sent"} \/ r.step = entry[e].step
      PROVE  Goal
  <2>1. NoEntry
    BY <1>0, <1>u
  <2> QED BY <1>n, <1>u, <2>1
<1>1. ASSUME NEW t \in Task, NEW p \in URL, F!Start(t, p) PROVE Goal
  <2> DEFINE c == cache[OriginOf[p]]
             r == [F!NoCall EXCEPT !.step = "reading", !.page = p,
                     !.stale = c = "none" \/ entry[c].expires < 0,
                     !.late = c # "none" /\ F!Ready(c) /\ entry[c].age > CacheTTL]
  <2>1. task' = [task EXCEPT ![t] = r] /\ entry' = entry /\ r.step = "reading"
    BY <1>0, <1>1 DEF F!Start, F!NoCall
  <2> HIDE DEF r
  <2> QED BY <1>s, <2>1
<1>2. ASSUME NEW t \in Task, F!RulesFor(t) PROVE Goal
  <2>1. \A u \in Task : task'[u].step \notin {"slot", "sent"} \/ task'[u].step = task[u].step
    <3>1. ASSUME NEW x, F!Miss(t, x) \/ F!Hit(t, x) PROVE NoTask
      <4>1. \A u \in Task : u # t => task'[u] = task[u]
        BY <1>0, <3>1 DEF F!Miss, F!Hit
      <4>2. task'[t].step = "waiting"
        BY <1>0, <3>1 DEF F!Miss, F!Hit, TaskRecord
      <4> QED BY <4>1, <4>2
    <3> QED BY <1>2, <3>1 DEF F!RulesFor
  <2>2. NoEntry
    <3> DEFINE r == [F!Unused EXCEPT !.step = "asking", !.origin = F!PageOrigin(t)]
    <3>1. r.step = "asking"
      BY DEF F!Unused
    <3>2. ASSUME NEW x, F!Miss(t, x) PROVE NoEntry
      <4>1. entry' = F!Kept([entry EXCEPT ![x] = r], cache', task')
        BY <3>2 DEF F!Miss
      <4> HIDE DEF r
      <4>2. \A e \in Entry : entry'[e] \in {entry[e], r, F!Unused}
        BY <1>0, <4>1 DEF F!Kept
      <4> QED BY <1>f, <3>1, <4>2
    <3>3. ASSUME NEW x, F!Hit(t, x) PROVE NoEntry
      BY <3>3 DEF F!Hit
    <3> QED BY <1>2, <3>2, <3>3 DEF F!RulesFor
  <2> QED BY <1>n, <2>1, <2>2
<1>3. ASSUME NEW t \in Task, F!Answered(t) PROVE Goal
  <2> DEFINE r == [task[t] EXCEPT !.step = "cleared"]
  <2>1. r.step = "cleared"
    BY <1>0 DEF TaskRecord
  <2>2. F!Return(t) \/ (task' = [task EXCEPT ![t] = r] /\ entry' = entry)
    BY <1>3 DEF F!Answered
  <2> QED BY <1>r, <1>s, <2>1, <2>2
<1>4. ASSUME NEW t \in Task, F!GiveUp(t) PROVE Goal
  BY <1>4, <1>r DEF F!GiveUp
<1>5. ASSUME NEW e \in Entry, F!FillReserve(e) PROVE Goal
  <2> DEFINE h == F!HostOfEntry(e)
             r == F!Slot(entry[e], h)
  <2>1. entry' = [entry EXCEPT ![e] = r] /\ F!Reserve(h) /\ task' = task /\ h \in Host /\ entry[e].step = "asking"
    BY <1>5, Hosts DEF F!FillReserve, FetchInv
  <2>2. r.wait = F!DomainState(h).next /\ r.step = "slot"
    BY <1>0 DEF F!Slot, EntryRecord
  <2> HIDE DEF r
  <2>3. h \notin crowded => rest[h] <= r.wait
    BY <2>1, <2>2, Reservation
  <2>4. ASSUME NEW f \in Entry PROVE EntrySpaced(f)
    <3>1. CASE f = e
      BY <1>0, <2>1, <2>2, <2>3, <3>1 DEF EntrySpaced, F!Takes, F!Sends
    <3>2. CASE f # e
      BY <1>0, <2>1, <3>2 DEF EntrySpaced, F!Takes, F!Sends
    <3> QED BY <3>1, <3>2
  <2>5. \A t \in Task : TaskSpaced(t)
    BY <2>1 DEF TaskSpaced, F!Takes, F!Sends
  <2> QED BY <2>4, <2>5
<1>6. ASSUME NEW e \in Entry, F!FillSend(e) PROVE Goal
  <2> DEFINE r == [entry[e] EXCEPT !.step = "sent", !.gap = PolitenessDelay]
  <2>1. /\ entry' = [entry EXCEPT ![e] = r] /\ task' = task /\ r.step = "sent"
        /\ entry[e].step = "slot" /\ entry[e].wait = 0
    BY <1>0, <1>6 DEF F!FillSend, EntryRecord
  <2> HIDE DEF r
  <2>2. entry[e].wait + entry[e].gap <= rest[F!HostOfEntry(e)] /\ entry[e].gap \in Nat
    BY <1>0, <2>1, DelaysAreTyped DEF FetchInv, SpaceInv, EntryFits, F!HostOfEntry, EntryRecord
  <2>3. ASSUME NEW f \in Entry PROVE EntrySpaced(f)
    <3>1. CASE f = e
      BY <1>0, <2>1, <2>2, <3>1 DEF EntrySpaced, F!Takes, F!Sends
    <3>2. CASE f # e
      BY <1>0, <2>1, <3>2 DEF EntrySpaced, F!Takes, F!Sends
    <3> QED BY <3>1, <3>2
  <2>4. \A t \in Task : TaskSpaced(t)
    BY <2>1 DEF TaskSpaced, F!Takes, F!Sends
  <2> QED BY <2>3, <2>4
<1>7. ASSUME NEW e \in Entry, NEW a, F!SiteAnswers(e, a) PROVE Goal
  <2> DEFINE r == [entry[e] EXCEPT !.step = "answered", !.said = a[1], !.answer = a[2],
                     !.expires = F!Expiry(a[2]), !.age = 0]
  <2>1. entry' = [entry EXCEPT ![e] = r] /\ task' = task /\ r.step = "answered"
    BY <1>0, <1>7 DEF F!SiteAnswers, EntryRecord
  <2> HIDE DEF r
  <2> QED BY <1>u, <2>1
<1>8. ASSUME NEW e \in Entry, F!FillDelay(e) \/ F!FillClose(e) PROVE Goal
  <2>1. CASE F!FillDelay(e)
    <3> DEFINE r == [entry[e] EXCEPT !.step = "applied", !.applied = TRUE]
    <3>1. entry' = [entry EXCEPT ![e] = r] /\ task' = task /\ r.step = "applied"
      BY <1>0, <2>1 DEF F!FillDelay, EntryRecord
    <3> HIDE DEF r
    <3> QED BY <1>u, <3>1
  <2>2. CASE F!FillClose(e)
    <3> DEFINE r == [entry[e] EXCEPT !.step = "ready"]
    <3>1. entry' = [entry EXCEPT ![e] = r] /\ task' = task /\ r.step = "ready"
      BY <1>0, <2>2 DEF F!FillClose, EntryRecord
    <3> HIDE DEF r
    <3> QED BY <1>u, <3>1
  <2> QED BY <1>8, <2>1, <2>2
<1>9. ASSUME NEW t \in Task, F!Reserving(t) PROVE Goal
  <2> DEFINE h == F!PageHost(t)
             r == F!Slot(task[t], h)
  <2>1. task' = [task EXCEPT ![t] = r] /\ F!Reserve(h) /\ entry' = entry /\ h \in Host /\ task[t].step = "cleared"
    BY <1>9, Hosts DEF F!Reserving, FetchInv
  <2>2. r.wait = F!DomainState(h).next /\ r.step = "slot"
    BY <1>0 DEF F!Slot, TaskRecord
  <2> HIDE DEF r
  <2>3. h \notin crowded => rest[h] <= r.wait
    BY <2>1, <2>2, Reservation
  <2>4. ASSUME NEW u \in Task PROVE TaskSpaced(u)
    <3>1. CASE u = t
      BY <1>0, <2>1, <2>2, <2>3, <3>1 DEF TaskSpaced, F!Takes, F!Sends
    <3>2. CASE u # t
      BY <1>0, <2>1, <3>2 DEF TaskSpaced, F!Takes, F!Sends
    <3> QED BY <3>1, <3>2
  <2>5. \A e \in Entry : EntrySpaced(e)
    BY <2>1 DEF EntrySpaced, F!Takes, F!Sends
  <2> QED BY <2>4, <2>5
<1>10. ASSUME NEW t \in Task, F!Send(t) PROVE Goal
  <2> DEFINE r == [task[t] EXCEPT !.step = "sent", !.gap = PolitenessDelay]
  <2>1. /\ task' = [task EXCEPT ![t] = r] /\ entry' = entry /\ r.step = "sent"
        /\ task[t].step = "slot" /\ task[t].wait = 0
    BY <1>0, <1>10 DEF F!Send, TaskRecord
  <2> HIDE DEF r
  <2>2. task[t].wait + task[t].gap <= rest[F!PageHost(t)] /\ task[t].gap \in Nat
    BY <1>0, <2>1, DelaysAreTyped DEF FetchInv, SpaceInv, TaskFits, F!PageHost, F!PageOrigin, TaskRecord
  <2>3. ASSUME NEW u \in Task PROVE TaskSpaced(u)
    <3>1. CASE u = t
      BY <1>0, <2>1, <2>2, <3>1 DEF TaskSpaced, F!Takes, F!Sends
    <3>2. CASE u # t
      BY <1>0, <2>1, <3>2 DEF TaskSpaced, F!Takes, F!Sends
    <3> QED BY <3>1, <3>2
  <2>4. \A e \in Entry : EntrySpaced(e)
    BY <2>1 DEF EntrySpaced, F!Takes, F!Sends
  <2> QED BY <2>3, <2>4
<1>11. ASSUME NEW t \in Task, F!Response(t) PROVE Goal
  BY <1>11, <1>r DEF F!Response
<1>12. ASSUME NEW t \in Task, NEW p \in URL, F!Redirected(t, p) PROVE Goal
  <2>1. CASE task[t].hops = MaxRedirects
    BY <1>12, <1>r, <2>1 DEF F!Redirected
  <2>2. CASE task[t].hops # MaxRedirects
    <3> DEFINE r == [task[t] EXCEPT !.page = p, !.hops = task[t].hops + 1]
    <3>1. task' = [task EXCEPT ![t] = r] /\ entry' = entry /\ r.step = task[t].step
      BY <1>0, <1>12, <2>2 DEF F!Redirected, TaskRecord
    <3> HIDE DEF r
    <3> QED BY <1>s, <3>1
  <2> QED BY <2>1, <2>2
<1>13. ASSUME NEW h \in Host, F!EvictHost(h) PROVE Goal
  BY <1>13, <1>n DEF F!EvictHost
<1>14. ASSUME F!Tick PROVE Goal
  <2>1. NoTask
    BY <1>0, <1>14 DEF F!Tick, TaskRecord
  <2>2. ASSUME NEW e \in Entry PROVE entry'[e].step = entry[e].step
    <3>1. entry'[e] = [entry[e] EXCEPT !.wait = F!Down(@),
               !.expires = F!Most(@ - 1, -1),
               !.age = IF entry[e].step \in {"answered", "applied", "ready"}
                       THEN F!Least(@ + 1, CacheTTL + 1) ELSE 0]
      BY <1>14 DEF F!Tick
    <3> QED BY <1>0, <3>1 DEF EntryRecord
  <2> QED BY <1>n, <2>1, <2>2
<1>15. ASSUME UNCHANGED F!vars PROVE Goal
  BY <1>15, <1>n DEF F!vars
<1> QED
  BY <1>1, <1>2, <1>3, <1>4, <1>5, <1>6, <1>7, <1>8, <1>9, <1>10, <1>11, <1>12, <1>13, <1>14, <1>15
  DEF F!Next, F!Proceed, F!Fill, F!Answers

\* Requests to a host start their delays apart, whatever the number of callers, origins of
\* the host and delays, 0 included, and whatever is evicted or given up: with no more start
\* times handed out than hostStateIdle ahead, the state an eviction drops has none left to
\* forget, and a host that had more is spaced again once they are past (waitForDomain,
\* domainState).
THEOREM SpacedAlways == F!Spec => Spaced
<1>1. F!Init => FetchInv
  BY FetchInit, Polite
<1>2. FetchInv /\ [F!Next]_F!vars => FetchInv'
  BY FetchStep, Polite
<1>3. FetchInv /\ [F!Next]_F!vars =>
        [/\ \A t \in Task :
              /\ Takes(task[t], task'[t]) /\ PageHost(t) \notin crowded =>
                   rest[PageHost(t)] <= task'[t].wait
              /\ Sends(task[t], task'[t]) => task[t].gap <= rest[PageHost(t)]
         /\ \A e \in Entry :
              /\ Takes(entry[e], entry'[e]) /\ HostOfEntry(e) \notin crowded =>
                   rest[HostOfEntry(e)] <= entry'[e].wait
              /\ Sends(entry[e], entry'[e]) => entry[e].gap <= rest[HostOfEntry(e)]]_<<entry, task>>
  <2>1. /\ \A t : F!PageHost(t) = PageHost(t)
        /\ \A e : F!HostOfEntry(e) = HostOfEntry(e)
    BY DEF F!PageHost, PageHost, F!PageOrigin, PageOrigin, F!HostOfEntry, HostOfEntry
  <2>2. \A a, b : (F!Takes(a, b) <=> Takes(a, b)) /\ (F!Sends(a, b) <=> Sends(a, b))
    BY DEF F!Takes, Takes, F!Sends, Sends
  <2> QED BY <2>1, <2>2, SpacedStep, Polite DEF TaskSpaced, EntrySpaced
<1> QED BY <1>1, <1>2, <1>3, PTL DEF F!Spec, Spaced
=============================================================================
