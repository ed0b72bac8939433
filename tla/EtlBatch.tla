------------------------------ MODULE EtlBatch ------------------------------
(***************************************************************************)
(* The ETL's way from Kafka to PostgreSQL: the etl_ingestion_pipeline DAG  *)
(* polls a batch of site events, runs it as one EtlBatchWorkflow on        *)
(* Temporal and commits its offsets; the workflow runs one activity per    *)
(* site, retries it, and dead-letters a site that keeps failing.           *)
(*                                                                         *)
(* A site is one step here, finished or failed; what a finished site left  *)
(* in PostgreSQL is the subject of module Silver.                          *)
(***************************************************************************)
EXTENDS Integers, FiniteSets

CONSTANTS
  Partition,         \* partitions of scraped_files_topic
  MaxOffset,         \* bound: messages per partition
  BatchSize,         \* ETL_BATCH_SIZE
  TaskRetries,       \* default_args["retries"]
  SiteConcurrency,   \* ETL_SITE_CONCURRENCY
  MaximumAttempts,   \* SITE_RETRY.maximum_attempts
  MaxSiteAttempts,   \* ETL_MAX_SITE_ATTEMPTS
  MaxFaults          \* bound: outages, dead processes, short polls

ASSUME SizeAssumption ==
  {BatchSize, SiteConcurrency, MaximumAttempts, MaxSiteAttempts} \subseteq Nat \ {0}
ASSUME BoundsAssumption == {MaxOffset, TaskRetries, MaxFaults} \subseteq Nat

VARIABLES
  malformed,   \* events validate_event refuses; the input
  poison,      \* sites the pipeline can never process; the input
  published,   \* messages in each partition
  committed,   \* offsets of the group etl-ingestion-pipeline
  task,        \* where the one active DAG run is
  tries,       \* retries of its current task
  polled,      \* the batch it works on
  workflow,    \* state of the workflow with the id of a batch
  site,        \* what the workflow of a batch knows of a site
  attempt,     \* attempt number of the site's activity
  orphans,     \* sites with an attempt Temporal has given up and that still runs
  finished,    \* sites run_site_pipeline has processed to the end
  marker,      \* sites with a marker object in the bucket
  deadLetters, \* SITE_DEAD_LETTERED rows in error_logs
  own,         \* sites that once failed for a reason of their own; for a property
  faults       \* faults so far

inputs == <<malformed, poison>>
dag == <<task, tries, polled>>
temporal == <<workflow, site, attempt, orphans>>
stored == <<finished, marker, deadLetters>>
vars == <<malformed, poison, published, committed, task, tries, polled, workflow, site,
          attempt, orphans, finished, marker, deadLetters, own, faults>>

Offset == 0 .. MaxOffset - 1
Event == Partition \X Offset

\* A workflow's id is the offset ranges of its batch, so a batch names its workflow.
Batch == SUBSET Event
Sites(b) == b \ malformed

SiteStatus == {"waiting", "running", "done", "poisoned", "recorded", "failed"}

TypeOK ==
  /\ malformed \subseteq Event /\ poison \subseteq Event
  /\ published \in [Partition -> 0 .. MaxOffset]
  /\ committed \in [Partition -> 0 .. MaxOffset]
  /\ task \in {"idle", "process", "await", "commit"}
  /\ tries \in 0 .. TaskRetries
  /\ polled \in Batch
  /\ workflow \in [Batch -> {"none", "running", "recording", "completed", "failed"}]
  /\ site \in [Batch \X Event -> SiteStatus]
  /\ attempt \in [Batch \X Event -> 0 .. MaximumAttempts]
  /\ orphans \subseteq Event
  /\ finished \subseteq Event /\ marker \subseteq finished /\ deadLetters \subseteq Event
  /\ own \subseteq Event
  /\ faults \in 0 .. MaxFaults

Init ==
  /\ malformed \in SUBSET Event
  /\ poison \in SUBSET (Event \ malformed)
  /\ published = [p \in Partition |-> 0]
  /\ committed = [p \in Partition |-> 0]
  /\ task = "idle" /\ tries = 0 /\ polled = {}
  /\ workflow = [b \in Batch |-> "none"]
  /\ site = [x \in Batch \X Event |-> "waiting"]
  /\ attempt = [x \in Batch \X Event |-> 0]
  /\ orphans = {}
  /\ finished = {} /\ marker = {} /\ deadLetters = {}
  /\ own = {}
  /\ faults = 0

Fault == faults < MaxFaults /\ faults' = faults + 1

-----------------------------------------------------------------------------
(* The DAG.  One run is active at a time (max_active_runs=1).              *)

\* The scraper publishes a site event.
Publish(p) ==
  /\ published[p] < MaxOffset
  /\ published' = [published EXCEPT ![p] = @ + 1]
  /\ UNCHANGED <<inputs, committed, dag, temporal, stored, own, faults>>

Waiting == {e \in Event : committed[e[1]] <= e[2] /\ e[2] < published[e[1]]}

\* A consumer reads a partition in order, from the committed offset on.
IsNext(b) ==
  b \subseteq Waiting /\ \A e \in b, d \in Waiting : d[1] = e[1] /\ d[2] < e[2] => d \in b

\* poll_batch reads as much as is waiting and fits, or less when it runs out of
\* time; less than a full batch is taken only when its oldest event has waited long.
PollBatch(b) ==
  /\ task = "idle"
  /\ b # {} /\ IsNext(b) /\ Cardinality(b) <= BatchSize
  /\ \/ (b = Waiting \/ Cardinality(b) = BatchSize) /\ UNCHANGED faults
     \/ b # Waiting /\ Cardinality(b) < BatchSize /\ Fault
  /\ task' = "process" /\ tries' = 0 /\ polled' = b
  /\ UNCHANGED <<inputs, published, committed, temporal, stored, own>>

\* process_batch: nothing to run, a new run of the workflow (also under the id of a
\* failed one), or the one that runs or has completed under this id.
ProcessBatch ==
  /\ task = "process"
  /\ IF Sites(polled) = {} THEN task' = "commit" /\ tries' = 0
                           ELSE task' = "await" /\ UNCHANGED tries
  /\ IF Sites(polled) # {} /\ workflow[polled] \in {"none", "failed"}
     THEN /\ workflow' = [workflow EXCEPT ![polled] = "running"]
          /\ site' = [x \in DOMAIN site |-> IF x[1] = polled THEN "waiting" ELSE site[x]]
          /\ attempt' = [x \in DOMAIN attempt |-> IF x[1] = polled THEN 0 ELSE attempt[x]]
     ELSE UNCHANGED <<workflow, site, attempt>>
  /\ UNCHANGED <<inputs, published, committed, polled, orphans, stored, own, faults>>

\* The task failed: Airflow retries it, in the end the DAG run fails.
TaskFails(again) ==
  IF tries < TaskRetries
  THEN task' = again /\ tries' = tries + 1 /\ UNCHANGED polled
  ELSE task' = "idle" /\ tries' = 0 /\ polled' = {}

\* handle.result().
AwaitCompleted ==
  /\ task = "await" /\ workflow[polled] = "completed"
  /\ task' = "commit" /\ tries' = 0
  /\ UNCHANGED <<inputs, published, committed, polled, temporal, stored, own, faults>>

AwaitFailed ==
  /\ task = "await" /\ workflow[polled] = "failed"
  /\ TaskFails("process")
  /\ UNCHANGED <<inputs, published, committed, temporal, stored, own, faults>>

\* A task is killed, times out or cannot reach Temporal or Kafka; the workflow goes on.
TaskDies ==
  /\ task # "idle"
  /\ Fault
  /\ TaskFails(IF task = "commit" THEN "commit" ELSE "process")
  /\ UNCHANGED <<inputs, published, committed, temporal, stored, own>>

\* n is the offset after the last event of b in partition p.
IsEnd(n, b, p) == <<p, n - 1>> \in b /\ \A e \in b : e[1] = p => e[2] < n

CommitOffsets ==
  /\ task = "commit"
  /\ committed' \in [Partition -> 0 .. MaxOffset]
  /\ \A p \in Partition :
       IF \E e \in polled : e[1] = p THEN IsEnd(committed'[p], polled, p)
                                     ELSE committed'[p] = committed[p]
  /\ task' = "idle" /\ tries' = 0 /\ polled' = {}
  /\ UNCHANGED <<inputs, published, temporal, stored, own, faults>>

-----------------------------------------------------------------------------
(* EtlBatchWorkflow and its activities.                                    *)

Running(b) == {e \in b : site[<<b, e>>] = "running"}

\* A slot of the semaphore is free: the first attempt starts.
StartSite(b, e) ==
  /\ workflow[b] = "running"
  /\ e \in Sites(b) /\ site[<<b, e>>] = "waiting"
  /\ Cardinality(Running(b)) < SiteConcurrency
  /\ site' = [site EXCEPT ![<<b, e>>] = "running"]
  /\ attempt' = [attempt EXCEPT ![<<b, e>>] = 1]
  /\ UNCHANGED <<inputs, published, committed, dag, workflow, orphans, stored, own, faults>>

Attempting(b, e) == workflow[b] = "running" /\ e \in Sites(b) /\ site[<<b, e>>] = "running"

\* What run_site_pipeline leaves: everything saved, and the marker unless S3 refused it.
Processed(e) ==
  /\ finished' = finished \cup {e}
  /\ \/ marker' = marker \cup {e} /\ UNCHANGED faults
     \/ e \notin marker /\ UNCHANGED marker /\ Fault

\* The attempt returns a summary; with a marker from an earlier one nothing is done.
SiteFinishes(b, e) ==
  /\ Attempting(b, e)
  /\ e \notin poison
  /\ Processed(e)
  /\ site' = [site EXCEPT ![<<b, e>>] = "done"]
  /\ UNCHANGED <<inputs, published, committed, dag, workflow, attempt, orphans, deadLetters, own>>

\* Mutant of Retry: one attempt too many.
RetryOnceMore(b, e) ==
  IF attempt[<<b, e>>] <= MaximumAttempts
  THEN attempt' = [attempt EXCEPT ![<<b, e>>] = @ + 1] /\ UNCHANGED site
  ELSE site' = [site EXCEPT ![<<b, e>>] = "failed"] /\ UNCHANGED attempt

\* Temporal tries again after a retryable error, or raises it in the workflow.
Retry(b, e) ==
  IF attempt[<<b, e>>] < MaximumAttempts
  THEN attempt' = [attempt EXCEPT ![<<b, e>>] = @ + 1] /\ UNCHANGED site
  ELSE site' = [site EXCEPT ![<<b, e>>] = "failed"] /\ UNCHANGED attempt

\* DependencyUnavailable or ScannerUnavailable, met by the driver.
SiteOutage(b, e) ==
  /\ Attempting(b, e)
  /\ Fault
  /\ Retry(b, e)
  /\ UNCHANGED <<inputs, published, committed, dag, workflow, orphans, stored, own>>

\* Mutant of GivesUp: nobody looks at the attempt number.
GivesUpNever(b, e) == attempt[<<b, e>>] > MaximumAttempts

\* Any other exception: from attempt MaxSiteAttempts on the site is given up.
GivesUp(b, e) == attempt[<<b, e>>] >= MaxSiteAttempts

\* The site's own failure, or an outage that a Spark task met: an exception of an
\* executor reaches the driver as a Py4JJavaError, whatever its class was.
SiteFails(b, e) ==
  /\ Attempting(b, e)
  /\ IF e \in poison THEN own' = own \cup {e} /\ UNCHANGED faults
                     ELSE Fault /\ UNCHANGED own
  /\ IF GivesUp(b, e)
     THEN site' = [site EXCEPT ![<<b, e>>] = "poisoned"] /\ UNCHANGED attempt
     ELSE Retry(b, e)
  /\ UNCHANGED <<inputs, published, committed, dag, workflow, orphans, stored>>

\* The worker dies, is shut down, or answers no heartbeat; its threads may live on.
SiteTimesOut(b, e) ==
  /\ Attempting(b, e)
  /\ Fault
  /\ Retry(b, e)
  /\ orphans' = IF e \in poison THEN orphans ELSE orphans \cup {e}
  /\ UNCHANGED <<inputs, published, committed, dag, workflow, stored, own>>

OrphanFinishes(e) ==
  /\ e \in orphans
  /\ orphans' = orphans \ {e}
  /\ Processed(e)
  /\ UNCHANGED <<inputs, published, committed, dag, workflow, site, attempt, deadLetters, own>>

OrphanEnds(e) ==
  /\ e \in orphans
  /\ orphans' = orphans \ {e}
  /\ UNCHANGED <<inputs, published, committed, dag, workflow, site, attempt, stored, own, faults>>

\* Mutant of BatchFails: the errors that asyncio.gather returned are not counted.
BatchFailsIfPoisoned(b) == \A e \in Sites(b) : site[<<b, e>>] = "poisoned"

\* A site failed for good, or every site of the batch is poisoned.
BatchFails(b) ==
  \/ \E e \in Sites(b) : site[<<b, e>>] = "failed"
  \/ \A e \in Sites(b) : site[<<b, e>>] = "poisoned"

\* asyncio.gather has returned.
EndSites(b) ==
  /\ workflow[b] = "running"
  /\ \A e \in Sites(b) : site[<<b, e>>] \notin {"waiting", "running"}
  /\ workflow' = [workflow EXCEPT ![b] = IF BatchFails(b) THEN "failed" ELSE "recording"]
  /\ UNCHANGED <<inputs, published, committed, dag, site, attempt, orphans, stored, own, faults>>

\* record_dead_letter is retried until PostgreSQL takes it.
RecordDeadLetter(b, e) ==
  /\ workflow[b] = "recording"
  /\ e \in Sites(b) /\ site[<<b, e>>] = "poisoned"
  /\ deadLetters' = deadLetters \cup {e}
  /\ site' = [site EXCEPT ![<<b, e>>] = "recorded"]
  /\ UNCHANGED <<inputs, published, committed, dag, workflow, attempt, orphans, finished, marker,
                 own, faults>>

\* Mutant of AllRecorded: the workflow does not wait for its dead letters.
AnyRecorded(b) == \A e \in Sites(b) : site[<<b, e>>] # "running"

AllRecorded(b) == \A e \in Sites(b) : site[<<b, e>>] # "poisoned"

EndBatch(b) ==
  /\ workflow[b] = "recording"
  /\ AllRecorded(b)
  /\ workflow' = [workflow EXCEPT ![b] = "completed"]
  /\ UNCHANGED <<inputs, published, committed, dag, site, attempt, orphans, stored, own, faults>>

-----------------------------------------------------------------------------
Dag ==
  \/ \E b \in Batch : PollBatch(b)
  \/ ProcessBatch
  \/ AwaitCompleted
  \/ AwaitFailed
  \/ CommitOffsets

Work(b) ==
  \/ \E e \in b : \/ StartSite(b, e)
                  \/ SiteFinishes(b, e)
                  \/ SiteFails(b, e)
                  \/ RecordDeadLetter(b, e)
  \/ EndSites(b)
  \/ EndBatch(b)

Trouble ==
  \/ TaskDies
  \/ \E b \in Batch : \E e \in b : SiteOutage(b, e) \/ SiteTimesOut(b, e)
  \/ \E e \in Event : OrphanFinishes(e) \/ OrphanEnds(e)

Next ==
  \/ \E p \in Partition : Publish(p)
  \/ Dag
  \/ \E b \in Batch : Work(b)
  \/ Trouble

Spec == Init /\ [][Next]_vars

\* Airflow schedules a DAG run every two minutes, Temporal runs and retries what a
\* workflow awaits; the crawls of the instance go on to the last event.
FairSpec ==
  /\ Spec
  /\ \A p \in Partition : WF_vars(Publish(p))
  /\ WF_vars(Dag)
  /\ \A b \in Batch : WF_vars(Work(b))
-----------------------------------------------------------------------------
(* Properties.                                                             *)

Settled(e) == e \in malformed \cup finished \cup deadLetters

\* At-least-once: an offset is committed only when every event before it was invalid,
\* processed or dead-lettered, through retries, dead processes, short polls and
\* workflows that outlive the task that waited for them.
CommittedIsSettled ==
  \A e \in Event : e[2] < committed[e[1]] => Settled(e)

\* "Every site poisoned means the pipeline itself is broken" (etl_workflows.py:105-108):
\* as long as no site was ever processed, none is dead-lettered.
BrokenPipelineLosesNothing == finished = {} => deadLetters = {}

\* No event is lost, be it for a commit too early or a dead letter too soon.
NothingIsLost == CommittedIsSettled /\ BrokenPipelineLosesNothing

\* The ETL keeps the promise of SiteSignals.
Signals == INSTANCE SiteSignals WITH settled <- {e \in Event : Settled(e)}
KeepsPromise == Signals!Spec

\* No batch consists of bad events alone: fewer than fill one, and the last of each
\* partition is none of them.
Company ==
  LET bad == malformed \cup poison
  IN /\ Cardinality(bad) < BatchSize
     /\ \A p \in Partition : <<p, MaxOffset - 1>> \notin bad

\* The topic drains, past malformed events and sites that can never be processed,
\* when outages are finite and bad events have company.
TopicDrains == Company => <>[](\A p \in Partition : committed[p] = MaxOffset)

\* ClamAV, PostgreSQL or S3 being down "never dead-letters a site"
\* (site_pipeline.py:23-24): a dead-lettered site has failed for a reason of its own.  (False: see
\* the README.)
OutageIsNoDeadLetter == deadLetters \subseteq own

=============================================================================
