------------------------------- MODULE Bronze -------------------------------
(***************************************************************************)
(* The documents of one crawl run from the scraper's bucket into Bronze,   *)
(* and through the Bronze work queue into Silver.  The ingest job lists    *)
(* the run's objects and loads them in chunks behind a watermark; batch    *)
(* workers claim rows, transform and save, park or quarantine them; the    *)
(* site pipeline (SitePages) saves the same rows on its own; release-stale *)
(* returns claims.  Objects are numbered by their key: listings and chunks *)
(* follow that order, modification times another.                          *)
(***************************************************************************)
EXTENDS Integers, FiniteSets

CONSTANTS
  Object,      \* keys of the run's documents, in listing order
  Worker,      \* batch workers
  Chunk,       \* _CHUNK
  Limit,       \* rows of a batch
  MaxFaults    \* bound: failed reads, malformed objects, dead processes, slow workers

ASSUME BronzeAssumption ==
  /\ Object \subseteq Nat \ {0} /\ IsFiniteSet(Object)
  /\ {Chunk, Limit} \subseteq Nat \ {0} /\ MaxFaults \in Nat

VARIABLES
  manifest,    \* status in _run.json
  modified,    \* last-modified time of an object, 0: not in the bucket
  malformed,   \* objects that cannot be loaded
  pass,        \* what the ingest job is doing: one pass at a time has its lock
  state,       \* the run's row of bronze_ingest_state
  processing_status,
  claimed,     \* rows of each worker's batch
  verdict,     \* what the transform made of the row a worker has in hand
  pages,       \* rows with a page in Silver
  shared,      \* rows two processes had in hand at once
  gap,         \* a pass ended with the watermark moved and chunks left
  faults

bucket == <<manifest, modified, malformed>>
intake == <<pass, state, gap>>
queue == <<processing_status, claimed, verdict, pages, shared>>
vars == <<manifest, modified, malformed, pass, state, processing_status, claimed, verdict,
          pages, shared, gap, faults>>

None == [row |-> 0, outcome |-> "none"]
Time == 0 .. Cardinality(Object)
Settled == {"PROCESSED", "FAILED", "QUARANTINED"}
Status == Settled \cup {"absent", "UNPROCESSED", "PROCESSING"}
Resting == [step |-> "idle", terminal |-> FALSE, newest |-> 0, pending |-> {}, moved |-> FALSE]

Pass == [step : {"idle", "listing", "loading"}, terminal : BOOLEAN,
         newest : Time, pending : SUBSET Object, moved : BOOLEAN]
Verdict == [row : Object, outcome : {"clean", "infected", "error"}]

TypeOK ==
  /\ manifest \in {"none", "running", "terminal"}
  /\ modified \in [Object -> Time] /\ malformed \subseteq Object
  /\ pass \in Pass
  /\ state \in [last_modified : Time, finished : BOOLEAN]
  /\ processing_status \in [Object -> Status]
  /\ claimed \in [Worker -> SUBSET Object]
  /\ verdict \in [Worker -> Verdict \cup {None}]
  /\ pages \subseteq Object /\ shared \subseteq Object
  /\ gap \in BOOLEAN /\ faults \in 0 .. MaxFaults

Init ==
  /\ manifest = "none" /\ modified = [o \in Object |-> 0] /\ malformed = {}
  /\ pass = Resting
  /\ state = [last_modified |-> 0, finished |-> FALSE]
  /\ processing_status = [o \in Object |-> "absent"]
  /\ claimed = [w \in Worker |-> {}] /\ verdict = [w \in Worker |-> None]
  /\ pages = {} /\ shared = {} /\ gap = FALSE /\ faults = 0

Fault == faults < MaxFaults /\ faults' = faults + 1
Latest(times) == {t \in times : \A u \in times : u <= t}
Older(p, o) == modified[p] < modified[o] \/ (modified[p] = modified[o] /\ p < o)
Earliest(rows) == {o \in rows : ~\E p \in rows : Older(p, o)}

-----------------------------------------------------------------------------
(* The scraper's side *)

StartRun ==
  /\ manifest = "none" /\ manifest' = "running"
  /\ UNCHANGED <<modified, malformed, intake, queue, faults>>

\* Several objects may carry one time: S3 keeps seconds.
PutDocument(o) ==
  /\ manifest = "running" /\ modified[o] = 0
  /\ \E now \in Latest({modified[p] : p \in Object}), t \in Time \ {0} :
       t \in {now, now + 1} /\ modified' = [modified EXCEPT ![o] = t]
  /\ \/ UNCHANGED <<malformed, faults>>
     \/ Fault /\ malformed' = malformed \cup {o}
  /\ UNCHANGED <<manifest, intake, queue>>

FinishRun ==
  /\ manifest = "running" /\ manifest' = "terminal"
  /\ UNCHANGED <<modified, malformed, intake, queue, faults>>

-----------------------------------------------------------------------------
(* ingest: a pass over the run *)

\* The manifest is read before anything is listed.
BeginPass ==
  /\ pass.step = "idle" /\ ~state.finished /\ manifest # "none"
  /\ pass' = [Resting EXCEPT !.step = "listing", !.terminal = (manifest = "terminal"),
                            !.newest = state.last_modified]
  /\ UNCHANGED <<bucket, state, gap, queue, faults>>

\* Mutant: objects of the watermark's own second are taken for loaded.
PendingAfter(watermark) == {o \in Object : modified[o] > watermark}

Pending(watermark) == {o \in Object : modified[o] > 0 /\ modified[o] >= watermark}

List ==
  /\ pass.step = "listing"
  /\ pass' = [pass EXCEPT !.step = "loading", !.pending = Pending(pass.newest)]
  /\ UNCHANGED <<bucket, state, gap, queue, faults>>

NextChunk(pending) ==
  {o \in pending : Cardinality({p \in pending : p < o}) < Chunk}

Cut(left) == gap' = (gap \/ (pass.moved /\ left # {}))

\* Mutant: re-loading a document queues its row again.
LoadedAgain(rows) ==
  [o \in Object |-> IF o \in rows THEN "UNPROCESSED" ELSE processing_status[o]]

\* Mutant: the status is written in lower case.
LoadedLower(rows) ==
  [o \in Object |-> IF o \in rows /\ processing_status[o] = "absent" THEN "unprocessed"
                    ELSE processing_status[o]]

\* save_document: a new row is queued, an existing one keeps its status.
Loaded(rows) ==
  [o \in Object |-> IF o \in rows /\ processing_status[o] = "absent" THEN "UNPROCESSED"
                    ELSE processing_status[o]]

\* One transaction: what loads is kept, the watermark moves only with the whole chunk.
LoadChunk ==
  /\ pass.step = "loading" /\ pass.pending # {}
  /\ LET chunk == NextChunk(pass.pending)
         left == pass.pending \ chunk
     IN \E newest \in Latest({pass.newest} \cup {modified[o] : o \in chunk}),
           unread \in {{}} \cup {{o} : o \in chunk \ malformed} :
          LET failed == unread \cup (chunk \cap malformed)
          IN /\ unread # {} => faults < MaxFaults
             /\ faults' = faults + Cardinality(unread)
             /\ processing_status' = Loaded(chunk \ failed)
             /\ IF failed = {}
                  THEN /\ state' = [state EXCEPT !.last_modified = newest]
                       /\ pass' = [pass EXCEPT !.pending = left, !.newest = newest,
                                                 !.moved = @ \/ newest > pass.newest]
                       /\ UNCHANGED gap
                  ELSE pass' = Resting /\ Cut(pass.pending) /\ UNCHANGED state
  /\ UNCHANGED <<bucket, claimed, verdict, pages, shared>>

\* Everything listed is loaded: a run that had ended before is finished.
EndPass ==
  /\ pass.step = "loading" /\ pass.pending = {}
  /\ state' = [state EXCEPT !.finished = @ \/ pass.terminal]
  /\ pass' = Resting /\ UNCHANGED <<bucket, gap, queue, faults>>

PassDies ==
  /\ pass.step # "idle" /\ Fault
  /\ pass' = Resting /\ Cut(pass.pending)
  /\ UNCHANGED <<bucket, state, queue>>

-----------------------------------------------------------------------------
(* The work queue *)

Held == UNION {claimed[w] : w \in Worker}
WithStatus(s) == {o \in Object : processing_status[o] = s}
SetStatus(rows, s) ==
  processing_status' = [o \in Object |-> IF o \in rows THEN s ELSE processing_status[o]]

\* SKIP LOCKED: the oldest rows, whole batches at once.
Claim(w) ==
  /\ claimed[w] = {} /\ WithStatus("UNPROCESSED") # {}
  /\ LET queued == WithStatus("UNPROCESSED")
         batch == {o \in queued : Cardinality({p \in queued : Older(p, o)}) < Limit}
     IN /\ claimed' = [claimed EXCEPT ![w] = batch]
        /\ SetStatus(batch, "PROCESSING")
        /\ shared' = shared \cup (batch \cap Held)
  /\ UNCHANGED <<bucket, intake, verdict, pages, faults>>

\* The transform and the scanner judge the row; a scan may differ from another.
Transform(w) ==
  /\ claimed[w] # {} /\ verdict[w] = None
  /\ \E row \in Earliest(claimed[w]), outcome \in {"clean", "infected", "error"} :
       verdict' = [verdict EXCEPT ![w] = [row |-> row, outcome |-> outcome]]
  /\ UNCHANGED <<bucket, intake, processing_status, claimed, pages, shared, faults>>

Done(w) ==
  /\ claimed' = [claimed EXCEPT ![w] = @ \ {verdict[w].row}]
  /\ verdict' = [verdict EXCEPT ![w] = None]

\* The page and the mark are one transaction; if it fails the row is parked.
Save(w) ==
  /\ verdict[w].outcome = "clean" /\ Done(w)
  /\ \/ /\ pages' = pages \cup {verdict[w].row} /\ SetStatus({verdict[w].row}, "PROCESSED")
        /\ UNCHANGED faults
     \/ Fault /\ SetStatus({verdict[w].row}, "FAILED") /\ UNCHANGED pages
  /\ UNCHANGED <<bucket, intake, shared>>

Quarantine(w) ==
  /\ verdict[w].outcome = "infected" /\ Done(w)
  /\ SetStatus({verdict[w].row}, "QUARANTINED") /\ pages' = pages \ {verdict[w].row}
  /\ UNCHANGED <<bucket, intake, shared, faults>>

MarkFailed(w) ==
  /\ verdict[w].outcome = "error" /\ Done(w) /\ SetStatus({verdict[w].row}, "FAILED")
  /\ UNCHANGED <<bucket, intake, pages, shared, faults>>

WorkerDies(w) ==
  /\ claimed[w] # {} /\ Fault
  /\ claimed' = [claimed EXCEPT ![w] = {}] /\ verdict' = [verdict EXCEPT ![w] = None]
  /\ UNCHANGED <<bucket, intake, processing_status, pages, shared>>

\* Mutant: failed rows are put back with the stale claims.
ReleaseParked ==
  /\ WithStatus("FAILED") # {} /\ SetStatus(WithStatus("FAILED"), "UNPROCESSED")
  /\ UNCHANGED <<bucket, intake, claimed, verdict, pages, shared, faults>>

\* Claims older than the window; one of them may be a slow worker's.
ReleaseStale ==
  /\ \E slow \in {{}} \cup {{o} : o \in Held} :
       LET stale == (WithStatus("PROCESSING") \ Held) \cup (slow \cap WithStatus("PROCESSING"))
       IN /\ stale # {} /\ (slow # {} => faults < MaxFaults)
          /\ faults' = faults + Cardinality(slow) /\ SetStatus(stale, "UNPROCESSED")
  /\ UNCHANGED <<bucket, intake, claimed, verdict, pages, shared>>

\* save_transformed: the site pipeline saves Bronze row, page and mark at once.
SaveTransformed(o) ==
  /\ modified[o] > 0 /\ o \notin malformed /\ manifest = "terminal"
  /\ SetStatus({o}, "PROCESSED") /\ pages' = pages \cup {o}
  /\ shared' = IF processing_status[o] = "absent" THEN shared ELSE shared \cup {o}
  /\ UNCHANGED <<bucket, intake, claimed, verdict, faults>>

-----------------------------------------------------------------------------
Scrape == StartRun \/ FinishRun \/ \E o \in Object : PutDocument(o)
Ingest == BeginPass \/ List \/ LoadChunk \/ EndPass
Batch(w) == Claim(w) \/ Transform(w) \/ Save(w) \/ Quarantine(w) \/ MarkFailed(w)
Failures == PassDies \/ \E w \in Worker : WorkerDies(w)

Next ==
  \/ Scrape \/ Failures \/ ReleaseStale
  \/ Ingest
  \/ \E w \in Worker : Batch(w)
  \/ \E o \in Object : SaveTransformed(o)

\* The scraper ends its runs, the jobs are scheduled, workers go on working.
Spec ==
  /\ Init /\ [][Next]_vars
  /\ WF_vars(StartRun) /\ WF_vars(FinishRun) /\ WF_vars(ReleaseStale)
  /\ WF_vars(Ingest)
  /\ \A w \in Worker : WF_vars(Batch(w))

-----------------------------------------------------------------------------
(* Properties *)

InBucket == {o \in Object : modified[o] > 0}
InBronze == {o \in Object : processing_status[o] # "absent"}

\* A PROCESSED row has its page and a quarantined row has none, whoever worked on it.
PagesFollowRows ==
  \A o \in Object : /\ processing_status[o] = "PROCESSED" => o \in pages
                    /\ processing_status[o] = "QUARANTINED" => o \notin pages

\* A row only one process had in hand stays settled: nothing loads, claims, parks
\* or frees it again.
SettledStays ==
  [][\A o \in Object \ shared' :
       processing_status[o] \in Settled => processing_status'[o] = processing_status[o]]_vars

\* The loader marks a run finished only when all its documents are in Bronze, unless
\* a pass ended early after it had moved the watermark.
FinishedIsLoaded == state.finished /\ ~gap => InBucket \subseteq InBronze

\* What Bronze tells of the bucket and of Silver.
IntakeIsTrue == PagesFollowRows /\ FinishedIsLoaded

\* A run that ended with only well-formed documents is finished, and queued rows are
\* settled whatever dies.
IntakeDrains ==
  /\ manifest = "terminal" /\ malformed = {} ~> state.finished
  /\ \A o \in Object : processing_status[o] = "UNPROCESSED" ~> processing_status[o] \in Settled

\* A later pass retries what failed, as the loader's comment says.  (False: the
\* watermark of an earlier chunk hides older objects of the failed one.)
FailedIsRetried == state.finished => InBucket \subseteq InBronze
=============================================================================
